-------------------------------- MODULE MCPipe --------------------------------
(* Instances of Pipe for TLC.                                              *)
EXTENDS Pipe

Short == {0, 1, 4, 5}
AllCalls == Calls
Everyone == Processes
===============================================================================
