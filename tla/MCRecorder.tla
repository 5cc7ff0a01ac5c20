----------------------------- MODULE MCRecorder -----------------------------
(* Finite instances of Recorder for TLC. *)
EXTENDS Recorder

CONSTANTS f1, f2

OneFrame  == {f1}
TwoFrames == {f1, f2}

MCVideo   == [enabled |-> TRUE, mode |-> "video", skip |-> TRUE,  hours |-> Hours]
MCEvery   == [enabled |-> TRUE, mode |-> "video", skip |-> FALSE, hours |-> Hours]
MCJpeg    == [enabled |-> TRUE, mode |-> "jpeg",  skip |-> FALSE, hours |-> {0}]
MCChanges == [enabled |-> TRUE, mode |-> "jpeg",  skip |-> TRUE,  hours |-> {0}]
MCOff     == [enabled |-> FALSE, mode |-> "video", skip |-> TRUE, hours |-> Hours]

RaceConfigs == {MCEvery, MCJpeg}
SaveConfigs == {MCChanges, MCOff}
LiveConfigs == {MCVideo, MCOff}
=============================================================================
