---------------------------- MODULE StreamsProofs ---------------------------
(***************************************************************************)
(* What is proved of Streams. A stream does nothing to the client that     *)
(* Capture does not allow, so what is proved of Capture holds of the two   *)
(* together; the response needs an invariant of its own.                   *)
(***************************************************************************)
EXTENDS Streams, CaptureProofs

(* A step of a stream is a step of Capture or leaves the client alone. *)
LEMMA StepIsCapture == [StreamNext]_vars => [Next]_captureVars
  <1> SUFFICES ASSUME [StreamNext]_vars PROVE [Next]_captureVars
    OBVIOUS
  <1>1. CASE UNCHANGED vars
    BY <1>1 DEF vars
  <1>2. CASE World
    BY <1>2 DEF Next
  <1>3. ASSUME NEW c \in Callers,
               CheckSignal(c) \/ CallStep(c) \/ Call(c) \/ UseFrame(c)
        PROVE  Next
    BY <1>3 DEF Next
  <1>4. ASSUME NEW s \in Viewers, StreamStep(s) PROVE [Next]_captureVars
    <2>1. s \in Callers
      BY ViewersAssumption
    <2>2. CASE Open(s) \/ TunnelRefused(s) \/ TunnelUp(s) \/ TunnelCut(s) \/ Leave(s)
               \/ PollFailed(s)
      BY <2>2 DEF Open, TunnelRefused, TunnelUp, TunnelCut, Leave, PollFailed
    <2>3. CASE Poll(s)
      BY <2>1, <2>3, <1>3 DEF Poll
    <2>4. CASE WriteFrame(s)
      BY <2>1, <2>4, <1>3 DEF WriteFrame
    <2> QED
      BY <1>4, <2>2, <2>3, <2>4 DEF StreamStep, PollStep
  <1> QED
    BY <1>1, <1>2, <1>3, <1>4 DEF StreamNext

(* Streams implements Capture: the steps of the streams, seen from the     *)
(* client, are calls of Screenshot and nothing else.                       *)
THEOREM StreamsCapture == StreamSpec => Spec
  <1>1. StreamInit => Init
    BY DEF StreamInit
  <1> QED
    BY <1>1, StepIsCapture, PTL DEF StreamSpec, Spec

(* Hence no capture, of the recorder or of a stream, is refused for want   *)
(* of a signal unless the machine was off a bounded time ago.              *)
THEOREM StreamsRefusalsJustified == StreamSpec => RefusalJustified
  BY StreamsCapture, RefusalsJustified, PTL

(* And none fails unheard of. *)
THEOREM StreamsFailuresTold == StreamSpec => []FailureTold
  BY StreamsCapture, FailuresTold, PTL

-----------------------------------------------------------------------------
(* Whether a caller may have begun or ended a call that is not its own. *)
LEMMA OthersIdle ==
    ASSUME NEW c \in Callers, NEW s \in Viewers, pc \in [Callers -> PCs],
           CheckSignal(c) \/ CallStep(c), pc[s] = "idle"
    PROVE  pc'[s] = "idle"
  <1>1. pc[c] # "idle"
    BY DEF CheckSignal, CheckCached, AskState, CallStep, HttpOK, HttpFails, StateAnswers,
           StateUnknown, RtspOK, RtspFails, NoSSH, CheckStale, DumpFails, CompareHash,
           ShmFresh, ShmStale, TunnelOK, TunnelFails, Report, Mute
  <1>2. \E to : pc' = [pc EXCEPT ![c] = to]
    <2>1. CASE CheckSignal(c)
      BY <2>1 DEF CheckSignal, CheckCached, AskState, Proceed, Goto
    <2>2. CASE CallStep(c)
      BY <2>2, StepKinds DEF Returns, Falls, Proceeds, Deliver, Fall, Proceed, StateAnswers,
             StateUnknown, CompareHash, Report, Mute, Goto
    <2> QED
      BY <2>1, <2>2
  <1> QED
    BY <1>1, <1>2, ViewersAssumption

(* The part of TypeOK that is about streams. *)
StreamTypeOK ==
    /\ spc \in [Viewers -> {"none", "dial", "forward", "poll", "shot", "ended"}]
    /\ mode \in [Viewers -> {"tunnel", "poll", "auto", "any"}]
    /\ browser \in [Viewers -> BOOLEAN]
    /\ heads \in [Viewers -> SUBSET {"tunnel", "frames", "error"}]
    /\ \A s \in Viewers : spc[s] # "shot" => pc[s] = "idle"

(* What has been written of a response, at each point of mjpegStream. *)
HeadInv ==
    \A s \in Viewers :
        /\ spc[s] \in {"none", "dial"} => heads[s] = {}
        /\ spc[s] = "forward" => heads[s] = {"tunnel"}
        /\ spc[s] \in {"poll", "shot"} => heads[s] \subseteq {"frames"}
        /\ spc[s] = "ended" => \E k \in {"tunnel", "frames", "error"} : heads[s] \subseteq {k}

(* Both are inductive, given Capture's types. *)
LEMMA StreamInductive ==
    CaptureTypeOK /\ StreamTypeOK /\ HeadInv /\ [StreamNext]_vars
        => StreamTypeOK' /\ HeadInv'
  <1> SUFFICES ASSUME CaptureTypeOK, StreamTypeOK, HeadInv, [StreamNext]_vars
               PROVE  StreamTypeOK' /\ HeadInv'
    OBVIOUS
  <1>0. pc \in [Callers -> PCs] /\ Viewers \subseteq Callers
    BY ViewersAssumption DEF CaptureTypeOK
  <1>1. CASE UNCHANGED <<streamVars, pc>>
    BY <1>1 DEF StreamTypeOK, HeadInv, streamVars
  <1>2. CASE World /\ UNCHANGED streamVars
    BY <1>1, <1>2 DEF World, Flip, Tick
  <1>3. ASSUME NEW c \in Callers, CheckSignal(c) \/ CallStep(c), UNCHANGED streamVars
        PROVE  StreamTypeOK' /\ HeadInv'
    <2>1. \A s \in Viewers : spc'[s] # "shot" => pc'[s] = "idle"
      BY <1>0, <1>3, OthersIdle DEF StreamTypeOK, streamVars
    <2> QED
      BY <1>3, <2>1 DEF StreamTypeOK, HeadInv, streamVars
  <1>4. ASSUME NEW c \in Callers \ Viewers, Call(c) \/ UseFrame(c), UNCHANGED streamVars
        PROVE  StreamTypeOK' /\ HeadInv'
    <2>1. \A s \in Viewers : pc'[s] = pc[s]
      BY <1>0, <1>4 DEF Call, UseFrame, Goto
    <2> QED
      BY <1>4, <2>1 DEF StreamTypeOK, HeadInv, streamVars
  <1>5. ASSUME NEW s \in Viewers, StreamStep(s) PROVE StreamTypeOK' /\ HeadInv'
    <2>1. CASE Open(s) \/ TunnelRefused(s)
      <3>1. /\ UNCHANGED <<pc, browser>> /\ spc[s] \in {"none", "dial"}
            /\ mode' \in {[mode EXCEPT ![s] = mode[s]], [mode EXCEPT ![s] = "any"]}
            /\ \/ spc' = [spc EXCEPT ![s] = "dial"] /\ heads' = heads
               \/ spc' = [spc EXCEPT ![s] = "poll"] /\ heads' = heads
               \/ /\ spc' = [spc EXCEPT ![s] = "ended"]
                  /\ heads' = [heads EXCEPT ![s] = heads[s] \cup {"error"}]
        BY <2>1 DEF Open, TunnelRefused, Otherwise, Move, Begin, captureVars
      <3>2. pc[s] = "idle"
        BY <3>1 DEF StreamTypeOK
      <3>3. StreamTypeOK'
        BY <3>1, <3>2 DEF StreamTypeOK
      <3>4. HeadInv'
        BY <3>1 DEF StreamTypeOK, HeadInv
      <3> QED
        BY <3>3, <3>4
    <2>2. CASE TunnelUp(s)
      BY <2>2 DEF TunnelUp, Move, Begin, captureVars, StreamTypeOK, HeadInv
    <2>3. CASE TunnelCut(s)
      BY <2>3 DEF TunnelCut, Move, captureVars, StreamTypeOK, HeadInv
    <2>4. CASE Poll(s)
      <3>1. /\ spc[s] = "poll" /\ UNCHANGED <<mode, browser, heads>>
            /\ \/ spc' = [spc EXCEPT ![s] = "shot"] /\ pc' = [pc EXCEPT ![s] = "http"]
               \/ spc' = [spc EXCEPT ![s] = "ended"] /\ pc' = pc
        BY <2>4 DEF Poll, Move, Call, Goto, captureVars
      <3>2. StreamTypeOK'
        BY <1>0, <3>1 DEF StreamTypeOK
      <3>3. HeadInv'
        BY <3>1 DEF StreamTypeOK, HeadInv
      <3> QED
        BY <3>2, <3>3
    <2>5. CASE PollFailed(s)
      BY <2>5 DEF PollFailed, Move, captureVars, StreamTypeOK, HeadInv
    <2>6. CASE WriteFrame(s)
      <3>1. /\ spc[s] = "shot" /\ UNCHANGED <<mode, browser>>
            /\ pc' = [pc EXCEPT ![s] = "idle"]
            /\ heads' = [heads EXCEPT ![s] = heads[s] \cup {"frames"}]
            /\ spc' \in {[spc EXCEPT ![s] = "poll"], [spc EXCEPT ![s] = "ended"]}
        BY <2>6 DEF WriteFrame, Move, Begin, UseFrame, Goto
      <3>2. StreamTypeOK'
        BY <1>0, <3>1 DEF StreamTypeOK
      <3>3. HeadInv'
        BY <3>1 DEF StreamTypeOK, HeadInv
      <3> QED
        BY <3>2, <3>3
    <2>7. CASE Leave(s)
      BY <2>7 DEF Leave, captureVars, StreamTypeOK, HeadInv
    <2> QED
      BY <1>5, <2>1, <2>2, <2>3, <2>4, <2>5, <2>6, <2>7 DEF StreamStep, PollStep
  <1> QED
    BY <1>1, <1>2, <1>3, <1>4, <1>5 DEF StreamNext, vars, captureVars

(* The invariant of the composition, from Capture's by StreamsCapture. *)
LEMMA StreamInvariant == StreamSpec => [](CaptureTypeOK /\ StreamTypeOK /\ HeadInv)
  <1>1. StreamInit => StreamTypeOK /\ HeadInv
    BY ViewersAssumption DEF StreamInit, Init, StreamTypeOK, HeadInv
  <1>2. StreamSpec => []CaptureTypeOK
    BY StreamsCapture, CaptureTypeCorrect, PTL
  <1> QED
    BY <1>1, <1>2, StreamInductive, PTL DEF StreamSpec

(* Type correctness, with what a stream that does not poll leaves alone. *)
THEOREM StreamTypeCorrect == StreamSpec => []TypeOK
  <1>1. CaptureTypeOK /\ StreamTypeOK => TypeOK
    BY DEF StreamTypeOK, TypeOK
  <1> QED
    BY <1>1, StreamInvariant, PTL

(* A response is the tunnel's, a polled one or an error, and stays that. *)
THEOREM ResponsesAreOne == StreamSpec => []OneResponse
  <1>1. StreamTypeOK /\ HeadInv => OneResponse
    BY DEF StreamTypeOK, HeadInv, OneResponse
  <1> QED
    BY <1>1, StreamInvariant, PTL
=============================================================================
