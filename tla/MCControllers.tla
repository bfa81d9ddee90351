---------------------------- MODULE MCControllers ----------------------------
(* Instances of Controllers for TLC: the touchpad t1 is a part of the pad p1,  *)
(* and t2 is a keypad of its own.                                              *)
EXTENDS Controllers, TLC

CONSTANTS p1, t1, t2

PadOf == (t1 :> p1) @@ (t2 :> None)
=============================================================================
