----------------------------- MODULE MCPipeFilter -----------------------------
(* Instances of PipeFilter for TLC.                                        *)
EXTENDS PipeFilter

AllCalls == Calls
Everyone == Processes
===============================================================================
