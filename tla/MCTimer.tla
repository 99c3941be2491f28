------------------------------ MODULE MCTimer ------------------------------
(* A counter of twelve values: long delays, delays that wrap, delays whose *)
(* trigger is the last value below the wrap, no delay, a negative one.     *)
EXTENDS Timer

Delays == {-1, 0, 1, 4, 7}
=============================================================================
