----------------------------- MODULE HealthFeed -----------------------------
(***************************************************************************)
(* What the go2rtc watcher promises the browsers that follow it: numbered  *)
(* events, the last of which is what a newcomer starts with, and which a   *)
(* follower then gets one by one, none left out and none repeated. A       *)
(* follower that is too slow, or goes away, is let go of.                  *)
(***************************************************************************)
EXTENDS Naturals

CONSTANT Readers

VARIABLES
    top,        \* the number of the last event
    ok,         \* its status
    following,  \* the readers that get every event
    place       \* per reader: the last event it has passed

feedVars == <<top, ok, following, place>>

Init ==
    /\ top = 0 /\ ok = FALSE
    /\ following = {}
    /\ place = [r \in Readers |-> 0]

Publish(status) ==
    /\ top' = top + 1
    /\ ok' = status
    /\ UNCHANGED <<following, place>>

(* The last event is the first one a newcomer gets. *)
Join(r) ==
    /\ r \notin following
    /\ following' = following \cup {r}
    /\ place' = [place EXCEPT ![r] = IF top = 0 THEN 0 ELSE top - 1]
    /\ UNCHANGED <<top, ok>>

Advance(r) ==
    /\ r \in following /\ place[r] < top
    /\ place' = [place EXCEPT ![r] = @ + 1]
    /\ UNCHANGED <<top, ok, following>>

LetGo(r) ==
    /\ r \in following
    /\ following' = following \ {r}
    /\ place' = [place EXCEPT ![r] = 0]
    /\ UNCHANGED <<top, ok>>

Next ==
    \/ \E status \in BOOLEAN : Publish(status)
    \/ \E r \in Readers : Join(r) \/ Advance(r) \/ LetGo(r)

Spec == Init /\ [][Next]_feedVars
=============================================================================
