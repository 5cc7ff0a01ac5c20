--------------------------- MODULE UpgradeService ---------------------------
(***************************************************************************)
(* What /api/upgrade promises, without tabs, streams, files or channels:   *)
(* upgrades are done one after the other, each has a log of its own, the   *)
(* log of the one under way grows by a line at a time, and that of one     *)
(* that is over never changes. An upgrade may be over at any moment.       *)
(***************************************************************************)
EXTENDS Naturals, Sequences

CONSTANTS Numbers,  \* numbers an upgrade may have
          Lines     \* kinds of log lines

VARIABLES
    active,   \* the upgrade under way, 0 when there is none
    started,  \* upgrades started so far
    text      \* per upgrade: its log

serviceVars == <<active, started, text>>

Init == active = 0 /\ started = 0 /\ text = [j \in Numbers |-> <<>>]

Start ==
    /\ active = 0 /\ started + 1 \in Numbers
    /\ started' = started + 1 /\ active' = started + 1
    /\ UNCHANGED text

Write ==
    /\ active # 0
    /\ \E l \in Lines : text' = [text EXCEPT ![active] = Append(@, l)]
    /\ UNCHANGED <<active, started>>

Finish ==
    /\ active # 0
    /\ active' = 0
    /\ UNCHANGED <<started, text>>

Next == Start \/ Write \/ Finish

Spec == Init /\ [][Next]_serviceVars
=============================================================================
