------------------------------ MODULE MCSigchld ------------------------------
(* Instances of Sigchld for TLC.                                           *)
EXTENDS Sigchld

AllButWaitpid == Calls \ {"waitpid"}
===============================================================================
