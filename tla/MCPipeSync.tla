------------------------------ MODULE MCPipeSync ------------------------------
(* Instances of PipeSync for TLC.                                          *)
EXTENDS PipeSync

AllCalls == Calls
AllChildren == Children
===============================================================================
