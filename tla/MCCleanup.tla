----------------------------- MODULE MCCleanup ------------------------------
(* Finite instances of Cleanup for TLC. *)
EXTENDS Cleanup

Strict == [keep |-> 1, max |-> 1]
Loose  == [keep |-> 2, max |-> 2]

BothLimits == {Strict, Loose}
=============================================================================
