------------------------------ MODULE MCEvdev ------------------------------
(* Instances of EvdevCapture for TLC: one name whose device comes and goes,  *)
(* or two devices that stay.                                                 *)
EXTENDS EvdevCapture

CONSTANTS event0, event1

EventWorlds == {[names |-> {event0}, events |-> 2], [names |-> {event0, event1}, events |-> 0]}
=============================================================================
