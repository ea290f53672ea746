------------------------------ MODULE MCReadline ------------------------------
(* Instances of Readline for TLC.                                          *)
EXTENDS Readline

AllSizes == 0 .. 5
OneSize == {2}
None == {}
ReadFails == {"read"}
===============================================================================
