------------------------------- MODULE MCKeys -------------------------------
(* A finite instance of Keys for TLC. *)
EXTENDS Keys, TLC

CONSTANTS h1, h2, p1, p2, save1, save2, type1, type2, edid

Symmetry == Permutations(Savers) \cup Permutations(Typists)

(* A password that bash changes, and one at which it stops. *)
MCSourced == [s \in Secrets |-> CASE s = p1 -> admin [] s = p2 -> None [] OTHER -> s]

MCForms == {[host |-> h2, pass |-> p2, ssh |-> None],
            [host |-> h1, pass |-> p1, ssh |-> None],
            [host |-> None, pass |-> None, ssh |-> admin]}
MCFiles == {[host |-> h, pass |-> None, ssh |-> None] : h \in {None, h1}}
=============================================================================
