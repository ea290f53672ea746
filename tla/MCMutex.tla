------------------------------- MODULE MCMutex -------------------------------
(* Instances of Mutex for TLC.                                             *)
EXTENDS Mutex

AllCalls == Calls
===============================================================================
