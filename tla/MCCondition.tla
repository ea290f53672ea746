----------------------------- MODULE MCCondition -----------------------------
(* Instances of Condition for TLC.                                         *)
EXTENDS Condition

AllCalls == Calls
===============================================================================
