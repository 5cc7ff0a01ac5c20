----------------------------- MODULE MCUpgrade ------------------------------
(* Finite instances of Upgrade for TLC. *)
EXTENDS Upgrade

CONSTANTS t1, t2, bare, cr

(* An empty line is a newline, one that ends in CR at least two bytes. *)
MCWidth == [l \in Lines |-> IF l = bare THEN 1 ELSE IF l = "error" THEN 3 ELSE 2]
=============================================================================
