------------------------------ MODULE Footage -------------------------------
(***************************************************************************)
(* What a recorder promises of its files, without loops, locks, processes  *)
(* or pipes: one segment is open at a time, the frame taken last is what   *)
(* goes into it, frames already in a segment are lost only when it is      *)
(* opened anew, and pictures are stored while no segment is open. A        *)
(* restart closes what is open. The promise is forfeited when two captures *)
(* meet, until the next restart.                                           *)
(***************************************************************************)
CONSTANTS Frames, NoFrame, Hours

VARIABLES
    open,    \* the hours whose segment is open
    latest,  \* the frame taken last
    video,   \* per hour: the frames in its segment
    jpegs,   \* per hour: the frames stored as pictures
    void     \* the promise is forfeited

footageVars == <<open, latest, video, jpegs, void>>

Init ==
    /\ open = {} /\ latest = NoFrame /\ void = FALSE
    /\ video = [h \in Hours |-> {}]
    /\ jpegs = [h \in Hours |-> {}]

Valid == void = FALSE /\ void' = FALSE

Take ==
    /\ Valid
    /\ latest' \in Frames
    /\ UNCHANGED <<open, video, jpegs>>

Open(h) ==
    /\ Valid
    /\ open = {} /\ open' = {h}
    /\ video' = [video EXCEPT ![h] = {}]
    /\ UNCHANGED <<latest, jpegs>>

Extend(h) ==
    /\ Valid
    /\ open = {h} /\ latest \in Frames
    /\ video' = [video EXCEPT ![h] = @ \cup {latest}]
    /\ UNCHANGED <<open, latest, jpegs>>

Close ==
    /\ Valid
    /\ open' = {}
    /\ UNCHANGED <<latest, video, jpegs>>

Picture(h) ==
    /\ Valid
    /\ open = {} /\ latest \in Frames
    /\ jpegs' = [jpegs EXCEPT ![h] = @ \cup {latest}]
    /\ UNCHANGED <<open, latest, video>>

Restart ==
    /\ void' = FALSE /\ open' = {} /\ latest' = NoFrame
    /\ UNCHANGED <<video, jpegs>>

Forfeit == void' = TRUE

Next ==
    \/ Take \/ Close \/ Restart \/ Forfeit
    \/ \E h \in Hours : Open(h) \/ Extend(h) \/ Picture(h)

Spec == Init /\ [][Next]_footageVars
=============================================================================
