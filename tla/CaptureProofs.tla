---------------------------- MODULE CaptureProofs ---------------------------
(***************************************************************************)
(* What is proved of Capture for every number of callers and all limits.   *)
(***************************************************************************)
EXTENDS Capture, TLAPS

(* Every step of a caller is one of four kinds; the proofs look at these   *)
(* and at the few actions that are of no kind.                             *)
Returns(c) == Deliver(c) /\ pc[c] \in {"http", "rtsp", "fresh", "tunnel"}
              /\ shmStale' \in {shmStale, FALSE}
Falls(c) == \E to \in {"signal", "shm", "tunnel", "report"} : 
              /\ pc[c] \in {"http", "rtsp", "dump", "fresh", "tunnel"}
              /\ Fall(c, to)
Proceeds(c) == \E to \in {"mute", "tunnel", "dump"} :
                 pc[c] \in {"rtsp", "shm"} /\ Proceed(c, to)

LEMMA StepKinds ==
    ASSUME NEW c \in Callers, CallStep(c)
    PROVE  \/ Returns(c) \/ Falls(c) \/ Proceeds(c)
           \/ StateAnswers(c) \/ StateUnknown(c) \/ CompareHash(c)
           \/ Report(c) \/ Mute(c)
  <1>1. CASE HttpOK(c) \/ RtspOK(c) \/ ShmFresh(c) \/ TunnelOK(c)
    BY <1>1 DEF HttpOK, RtspOK, ShmFresh, TunnelOK, Returns
  <1>2. CASE HttpFails(c) \/ RtspFails(c) \/ DumpFails(c) \/ ShmStale(c) \/ TunnelFails(c)
    BY <1>2 DEF HttpFails, RtspFails, DumpFails, ShmStale, TunnelFails, Falls
  <1>3. CASE NoSSH(c)
    BY <1>3 DEF NoSSH, Proceeds
  <1>4. CASE CheckStale(c)
    BY <1>4 DEF CheckStale, Proceeds
  <1> QED
    BY <1>1, <1>2, <1>3, <1>4 DEF CallStep

(* A caller that moves to "to" keeps pc well typed, and the lock with its  *)
(* owner when neither end of the move is "state".                          *)
Owned == \A c \in Callers : pc[c] = "state" <=> lock = c

LEMMA GotoTyped ==
    ASSUME NEW c \in Callers, NEW to \in PCs, pc \in [Callers -> PCs], Goto(c, to)
    PROVE  /\ pc' \in [Callers -> PCs]
           /\ (Owned /\ pc[c] # "state" /\ to # "state" /\ lock' = lock) => Owned'
  BY DEF Goto, Owned

(* So does a change of muted keep its type. *)
LEMMA MutedTyped ==
    ASSUME NEW c \in Callers, NEW b \in BOOLEAN, muted \in [Callers -> BOOLEAN],
           muted' = [muted EXCEPT ![c] = b]
    PROVE  muted' \in [Callers -> BOOLEAN]
  OBVIOUS

(* TypeOK is inductive. *)
LEMMA TypeInductive == CaptureTypeOK /\ [Next]_captureVars => CaptureTypeOK'
  <1> SUFFICES ASSUME CaptureTypeOK, [Next]_captureVars PROVE CaptureTypeOK'
    OBVIOUS
  <1> USE DEF Owned
  <1>0. CaptureTypeOK <=>
          /\ alive \in BOOLEAN /\ downAge \in 0 .. Horizon /\ ssh \in BOOLEAN
          /\ lock \in Callers \cup {Nobody}
          /\ ask \in [age : 0 .. Timeout, seen : SUBSET BOOLEAN]
          /\ signalOK \in BOOLEAN /\ cacheAge \in 0 .. SignalTTL
          /\ muteLeft \in 0 .. MuteFor /\ shmStale \in BOOLEAN
          /\ pc \in [Callers -> PCs]
          /\ muted \in [Callers -> BOOLEAN]
          /\ news \in {"none", "told", "hidden", "overlap"}
          /\ Owned
    BY DEF CaptureTypeOK
  <1>1. CASE UNCHANGED captureVars
    BY <1>1 DEF CaptureTypeOK, captureVars, worldVars, signalVars
  <1>2. CASE Flip
    <2>1. downAge' \in 0 .. Horizon
      BY <1>2, CaptureAssumption DEF Flip, CaptureTypeOK, Horizon
    <2>2. ask' \in [age : 0 .. Timeout, seen : SUBSET BOOLEAN]
      BY <1>2 DEF Flip, CaptureTypeOK
    <2> QED
      BY <1>2, <2>1, <2>2 DEF Flip, CaptureTypeOK
  <1>3. CASE Tick
    <2>1. downAge' \in 0 .. Horizon /\ cacheAge' \in 0 .. SignalTTL
      BY <1>3, CaptureAssumption DEF Tick, CaptureTypeOK, Older, Horizon
    <2>2. ask' \in [age : 0 .. Timeout, seen : SUBSET BOOLEAN]
      BY <1>3, CaptureAssumption DEF Tick, CaptureTypeOK
    <2>3. muteLeft' \in 0 .. MuteFor
      BY <1>3, CaptureAssumption DEF Tick, CaptureTypeOK
    <2> QED
      BY <1>3, <2>1, <2>2, <2>3 DEF Tick, CaptureTypeOK
  <1>4. ASSUME NEW c \in Callers, Call(c) \/ UseFrame(c) PROVE CaptureTypeOK'
    <2>1. pc' \in [Callers -> PCs] /\ Owned'
      BY <1>4, <1>0, GotoTyped DEF Call, UseFrame, PCs, signalVars
    <2>2. muted' \in [Callers -> BOOLEAN]
      <3>1. (muteLeft > 0) \in BOOLEAN
        OBVIOUS
      <3> QED
        BY <1>0, <1>4, <3>1, MutedTyped DEF Call, UseFrame
    <2>3. news' \in {"none", "told", "hidden", "overlap"}
      BY <1>0, <1>4 DEF Call, UseFrame
    <2>4. UNCHANGED <<worldVars, signalVars, muteLeft, shmStale>>
      BY <1>4 DEF Call, UseFrame
    <2> QED
      BY <1>0, <2>1, <2>2, <2>3, <2>4 DEF CaptureTypeOK, Owned, worldVars, signalVars
  <1>5. ASSUME NEW c \in Callers, CheckSignal(c) PROVE CaptureTypeOK'
    <2>1. CASE CheckCached(c)
      <3>1. pc' \in [Callers -> PCs] /\ Owned'
        BY <2>1, <1>0, GotoTyped DEF CheckCached, Proceed, Verdict, PCs, signalVars
      <3> QED
        BY <1>0, <2>1, <3>1 DEF CheckCached, Proceed, CaptureTypeOK, worldVars, signalVars
    <2>2. CASE AskState(c)
      <3>1. pc' \in [Callers -> PCs] /\ Owned'
        BY <2>2, <1>0, CaptureAssumption DEF AskState, Goto, PCs
      <3>2. ask' \in [age : 0 .. Timeout, seen : SUBSET BOOLEAN]
        BY <2>2, CaptureAssumption DEF AskState, CaptureTypeOK
      <3> QED
        BY <1>0, <2>2, <3>1, <3>2 DEF AskState, CaptureTypeOK, worldVars
    <2> QED
      BY <1>5, <2>1, <2>2 DEF CheckSignal
  <1>6. ASSUME NEW c \in Callers, CallStep(c) PROVE CaptureTypeOK'
    <2>1. CASE Returns(c)
      <3>1. pc' \in [Callers -> PCs] /\ Owned'
        BY <2>1, <1>0, GotoTyped DEF Returns, Deliver, PCs, signalVars
      <3>2. muted' \in [Callers -> BOOLEAN]
        BY <1>0, <2>1, MutedTyped DEF Returns, Deliver
      <3>3. /\ news' \in {"none", "told", "hidden", "overlap"}
            /\ muteLeft' \in 0 .. MuteFor
        BY <1>0, <2>1, CaptureAssumption DEF Returns, Deliver
      <3>4. shmStale' \in BOOLEAN
        BY <1>0, <2>1, Zenon DEF Returns
      <3>5. UNCHANGED <<worldVars, signalVars>>
        BY <2>1 DEF Returns, Deliver
      <3> QED
        BY <1>0, <3>1, <3>2, <3>3, <3>4, <3>5 DEF CaptureTypeOK, Owned, worldVars, signalVars
    <2>2. CASE Falls(c)
      <3>1. pc' \in [Callers -> PCs] /\ Owned'
        BY <2>2, <1>0, GotoTyped DEF Falls, Fall, PCs, signalVars
      <3> QED
        BY <1>0, <2>2, <3>1 DEF Falls, Fall, Logged, CaptureTypeOK, worldVars, signalVars
    <2>3. CASE Proceeds(c)
      <3>1. pc' \in [Callers -> PCs] /\ Owned'
        BY <2>3, <1>0, GotoTyped DEF Proceeds, Proceed, PCs, signalVars
      <3> QED
        BY <1>0, <2>3, <3>1 DEF Proceeds, Proceed, CaptureTypeOK, worldVars, signalVars
    <2>4. CASE StateAnswers(c)
      <3>1. PICK ok \in ask.seen : signalOK' = ok /\ Goto(c, Verdict(ok))
        BY <2>4 DEF StateAnswers
      <3>2. pc' \in [Callers -> PCs] /\ Owned'
        BY <2>4, <3>1, <1>0, CaptureAssumption DEF StateAnswers, Unlock, Goto, Verdict, PCs
      <3>3. ask' \in [age : 0 .. Timeout, seen : SUBSET BOOLEAN]
        BY <2>4, CaptureAssumption DEF StateAnswers, Unlock, NoAsk
      <3>4. signalOK' \in BOOLEAN /\ cacheAge' \in 0 .. SignalTTL
        BY <2>4, <3>1, CaptureAssumption DEF StateAnswers, CaptureTypeOK
      <3> QED
        BY <1>0, <2>4, <3>2, <3>3, <3>4 DEF StateAnswers, Unlock, CaptureTypeOK, worldVars
    <2>5. CASE StateUnknown(c)
      <3>1. pc' \in [Callers -> PCs] /\ Owned'
        BY <2>5, <1>0, CaptureAssumption DEF StateUnknown, Unlock, Goto, PCs
      <3>2. ask' \in [age : 0 .. Timeout, seen : SUBSET BOOLEAN]
        BY <2>5, CaptureAssumption DEF StateUnknown, Unlock, NoAsk
      <3> QED
        BY <1>0, <2>5, <3>1, <3>2 DEF StateUnknown, Unlock, CaptureTypeOK, worldVars
    <2>6. CASE CompareHash(c)
      <3>1. pc' \in [Callers -> PCs] /\ Owned'
        BY <2>6, <1>0, GotoTyped DEF CompareHash, PCs, signalVars
      <3> QED
        BY <1>0, <2>6, <3>1 DEF CompareHash, CaptureTypeOK, worldVars, signalVars
    <2>7. CASE Report(c)
      <3>1. pc' \in [Callers -> PCs] /\ Owned'
        BY <2>7, <1>0, GotoTyped DEF Report, PCs, signalVars
      <3> QED
        BY <1>0, <2>7, <3>1 DEF Report, Logged, CaptureTypeOK, worldVars, signalVars
    <2>8. CASE Mute(c)
      <3>1. pc' \in [Callers -> PCs] /\ Owned'
        BY <2>8, <1>0, GotoTyped DEF Mute, PCs, signalVars
      <3>2. muted' \in [Callers -> BOOLEAN]
        BY <1>0, <2>8, MutedTyped DEF Mute
      <3>3. /\ news' \in {"none", "told", "hidden", "overlap"}
            /\ muteLeft' \in 0 .. MuteFor
        BY <1>0, <2>8, CaptureAssumption DEF Mute
      <3>4. UNCHANGED <<worldVars, signalVars, shmStale>>
        BY <2>8 DEF Mute
      <3> QED
        BY <1>0, <3>1, <3>2, <3>3, <3>4 DEF CaptureTypeOK, Owned, worldVars, signalVars
    <2> QED
      BY <1>6, <2>1, <2>2, <2>3, <2>4, <2>5, <2>6, <2>7, <2>8, StepKinds
  <1> QED
    BY <1>1, <1>2, <1>3, <1>4, <1>5, <1>6 DEF Next, World

(* Type correctness of Screenshot's shared state, and that signalMu is     *)
(* held by exactly the caller that waits for /api/state.                   *)
THEOREM CaptureTypeCorrect == Spec => []CaptureTypeOK
  <1>1. Init => CaptureTypeOK
    <2> SUFFICES ASSUME Init PROVE CaptureTypeOK
      OBVIOUS
    <2>1. /\ downAge \in 0 .. Horizon /\ cacheAge \in 0 .. SignalTTL
          /\ muteLeft \in 0 .. MuteFor
      BY CaptureAssumption DEF Init, Horizon
    <2>2. ask \in [age : 0 .. Timeout, seen : SUBSET BOOLEAN]
      BY CaptureAssumption DEF Init, NoAsk
    <2>3. \A c \in Callers : pc[c] = "idle" /\ lock # c
      BY CaptureAssumption DEF Init
    <2> QED
      BY <2>1, <2>2, <2>3 DEF Init, CaptureTypeOK, PCs
  <1> QED
    BY <1>1, TypeInductive, PTL DEF Spec

-----------------------------------------------------------------------------
(* The signal cache. An answer FALSE in the cache, and FALSE among the     *)
(* answers still possible, are evidence that the machine was down a        *)
(* bounded time ago.                                                       *)
SignalInv ==
    /\ ~alive => downAge = 0
    /\ ~signalOK /\ CacheValid => downAge <= Timeout + cacheAge
    /\ FALSE \in ask.seen => lock # Nobody /\ downAge <= ask.age

(* SignalInv is inductive, given the types. *)
LEMMA SignalInductive ==
    CaptureTypeOK /\ SignalInv /\ [Next]_captureVars => SignalInv'
  <1> SUFFICES ASSUME CaptureTypeOK, SignalInv, [Next]_captureVars PROVE SignalInv'
    OBVIOUS
  <1>0. /\ downAge \in Nat /\ cacheAge \in Nat /\ ask.age \in 0 .. Timeout
        /\ SignalTTL \in Nat \ {0} /\ Timeout \in Nat /\ ask.seen \subseteq BOOLEAN
        /\ ask = [age |-> ask.age, seen |-> ask.seen]
    BY CaptureAssumption DEF CaptureTypeOK, Horizon
  <1>1. CASE UNCHANGED <<worldVars, signalVars>>
    BY <1>1 DEF SignalInv, CacheValid, worldVars, signalVars
  <1>2. CASE Flip
    <2>1. CASE alive'
      <3>1. FALSE \in ask'.seen => FALSE \in ask.seen /\ ask'.age = ask.age
        BY <1>0, <1>2, <2>1 DEF Flip
      <3>2. UNCHANGED <<downAge, lock, signalOK, cacheAge>>
        BY <1>2, <2>1 DEF Flip
      <3> QED
        BY <2>1, <3>1, <3>2 DEF SignalInv, CacheValid
    <2>2. CASE ~alive'
      <3>1. downAge' = 0 /\ cacheAge' = cacheAge /\ lock' = lock
        BY <1>2, <2>2 DEF Flip
      <3>2. ask'.age = ask.age
        BY <1>0, <1>2 DEF Flip
      <3>3. FALSE \in ask'.seen => lock # Nobody
        BY <1>0, <1>2 DEF Flip, SignalInv
      <3>4. downAge' <= Timeout + cacheAge' /\ downAge' <= ask'.age
        BY <1>0, <3>1, <3>2
      <3> QED
        BY <3>1, <3>3, <3>4 DEF SignalInv
    <2> QED
      BY <2>1, <2>2
  <1>3. CASE Tick
    <2>1. downAge' <= downAge + 1 /\ (~alive' => downAge' = 0)
      BY <1>0, <1>3, CaptureAssumption DEF Tick, Older, Horizon, CaptureTypeOK
    <2>2. CacheValid' => CacheValid /\ cacheAge' = cacheAge + 1
      BY <1>0, <1>3 DEF Tick, Older, CacheValid
    <2>3. FALSE \in ask'.seen =>
            /\ FALSE \in ask.seen /\ lock' # Nobody
            /\ ask'.age = ask.age + 1
      BY <1>0, <1>3 DEF Tick, SignalInv
    <2>4. signalOK' = signalOK
      BY <1>3 DEF Tick
    <2>5. downAge' \in Nat
      BY <1>0, <1>3, CaptureAssumption DEF Tick, Older, Horizon
    <2>6. ~signalOK' /\ CacheValid' => downAge' <= Timeout + cacheAge'
      BY <1>0, <2>1, <2>2, <2>4, <2>5 DEF SignalInv
    <2>7. FALSE \in ask'.seen => lock' # Nobody /\ downAge' <= ask'.age
      BY <1>0, <2>1, <2>3, <2>5 DEF SignalInv
    <2> QED
      BY <2>1, <2>6, <2>7 DEF SignalInv
  <1>4. ASSUME NEW c \in Callers, AskState(c) PROVE SignalInv'
    <2>1. /\ ask'.age = 0 /\ ask'.seen = {alive} /\ lock' = c
          /\ UNCHANGED <<alive, downAge, signalOK, cacheAge>>
      BY <1>4 DEF AskState, worldVars
    <2>2. c # Nobody
      BY CaptureAssumption
    <2>3. FALSE \in ask'.seen => ~alive
      BY <2>1, Zenon
    <2>4. FALSE \in ask'.seen => lock' # Nobody /\ downAge' <= ask'.age
      BY <1>0, <2>1, <2>2, <2>3 DEF SignalInv
    <2> QED
      BY <2>1, <2>4 DEF SignalInv, CacheValid
  <1>5. ASSUME NEW c \in Callers, StateAnswers(c) PROVE SignalInv'
    <2>1. /\ ask'.seen = {} /\ cacheAge' = 0 /\ signalOK' \in ask.seen
          /\ UNCHANGED <<alive, downAge>>
      BY <1>5 DEF StateAnswers, Unlock, NoAsk, worldVars
    <2>2. ~signalOK' => FALSE \in ask.seen
      BY <1>0, <2>1, Zenon
    <2>3. ~signalOK' => downAge' <= Timeout + cacheAge'
      BY <1>0, <2>1, <2>2 DEF SignalInv
    <2> QED
      BY <2>1, <2>3 DEF SignalInv
  <1>6. ASSUME NEW c \in Callers, StateUnknown(c) PROVE SignalInv'
    <2>1. /\ ask'.seen = {}
          /\ UNCHANGED <<alive, downAge, signalOK, cacheAge>>
      BY <1>6 DEF StateUnknown, Unlock, NoAsk, worldVars
    <2> QED
      BY <2>1 DEF SignalInv, CacheValid
  <1>7. ASSUME NEW c \in Callers,
               Call(c) \/ UseFrame(c) \/ CheckCached(c) \/ Returns(c) \/ Falls(c)
               \/ Proceeds(c) \/ CompareHash(c) \/ Report(c) \/ Mute(c)
        PROVE  UNCHANGED <<worldVars, signalVars>>
    BY <1>7 DEF Call, UseFrame, CheckCached, Returns, Deliver, Falls, Fall, Proceeds,
                Proceed, CompareHash, Report, Mute
  <1>8. CASE UNCHANGED captureVars
    BY <1>1, <1>8 DEF captureVars
  <1> QED
    BY <1>1, <1>2, <1>3, <1>4, <1>5, <1>6, <1>7, <1>8, StepKinds
       DEF Next, World, CheckSignal

(* ErrNoSignal is always justified: for any number of callers sharing the  *)
(* cache and any limits, checkSignal sends a capture away only when the    *)
(* machine was down less than SignalTTL + Timeout ago.                     *)
THEOREM RefusalsJustified == Spec => RefusalJustified
  <1>1. Init => SignalInv
    BY CaptureAssumption DEF Init, SignalInv, CacheValid, NoAsk, Horizon
  <1>2. CaptureTypeOK /\ SignalInv /\ [Next]_captureVars
          => [\A c \in Callers : Refuses(c) => downAge < Horizon]_captureVars
    <2> SUFFICES ASSUME CaptureTypeOK, SignalInv, Next, NEW c \in Callers, Refuses(c)
                 PROVE  downAge < Horizon
      OBVIOUS
    <2>0. /\ downAge \in Nat /\ cacheAge \in Nat /\ ask.age \in 0 .. Timeout
          /\ SignalTTL \in Nat \ {0} /\ Timeout \in Nat /\ ask.seen \subseteq BOOLEAN
          /\ pc \in [Callers -> PCs] /\ signalOK \in BOOLEAN
      BY CaptureAssumption DEF CaptureTypeOK, Horizon
    <2>1. PICK d \in Callers : CheckSignal(d) \/ CallStep(d) \/ Call(d) \/ UseFrame(d)
      BY DEF Next, World, Flip, Tick, Refuses
    <2>2. d = c
      <3>1. \E to : Goto(d, to)
        BY <2>1, StepKinds
           DEF CheckSignal, CheckCached, AskState, Call, UseFrame, Returns, Deliver, Falls,
               Fall, Proceeds, Proceed, StateAnswers, StateUnknown, CompareHash, Report, Mute
      <3> QED
        BY <3>1, <2>0 DEF Goto, Refuses
    <2>3. CASE CheckCached(c)
      <3>1. ~signalOK /\ CacheValid
        BY <2>0, <2>3 DEF CheckCached, Proceed, Goto, Verdict, Refuses
      <3> QED
        BY <2>0, <3>1 DEF SignalInv, CacheValid, Horizon
    <2>4. CASE StateAnswers(c)
      <3>1. PICK ok \in ask.seen : Goto(c, Verdict(ok))
        BY <2>4 DEF StateAnswers
      <3>2. ~ok
        BY <2>0, <3>1 DEF Goto, Verdict, Refuses
      <3>3. FALSE \in ask.seen
        BY <2>0, <3>1, <3>2, Zenon
      <3> QED
        BY <2>0, <3>3 DEF SignalInv, Horizon
    <2>5. CASE ~CheckCached(c) /\ ~StateAnswers(c)
      <3>1. AskState(c) \/ StateUnknown(c) \/ pc[c] \notin {"signal", "state"}
        BY <2>1, <2>2, <2>5, StepKinds
           DEF CheckSignal, Call, UseFrame, Returns, Falls, Proceeds, CompareHash, Report, Mute
      <3> QED
        BY <2>0, <3>1 DEF AskState, StateUnknown, Goto, Refuses
    <2> QED
      BY <2>3, <2>4, <2>5
  <1> QED
    BY <1>1, <1>2, SignalInductive, TypeInductive, CaptureTypeCorrect, PTL
       DEF Spec, RefusalJustified

-----------------------------------------------------------------------------
(* The capture log. As long as the log has nothing to say, it is not muted *)
(* and a call under way has not yet passed its first tier.                 *)
NewsInv ==
    /\ news # "hidden"
    /\ news = "none" =>
        /\ muteLeft = 0
        /\ \A c \in Callers : Calling(c) => pc[c] = "http" /\ ~muted[c]

(* NewsInv is inductive, given the types. *)
LEMMA NewsInductive == CaptureTypeOK /\ NewsInv /\ [Next]_captureVars => NewsInv'
  <1> SUFFICES ASSUME CaptureTypeOK, NewsInv, [Next]_captureVars PROVE NewsInv'
    OBVIOUS
  <1>0. /\ pc \in [Callers -> PCs] /\ muted \in [Callers -> BOOLEAN]
        /\ muteLeft \in Nat /\ MuteFor \in Nat
    BY CaptureAssumption DEF CaptureTypeOK
  <1>1. CASE UNCHANGED <<pc, muted, news, muteLeft>>
    BY <1>1 DEF NewsInv, Calling
  <1>2. CASE World
    <2>1. UNCHANGED <<pc, muted, news>> /\ (muteLeft = 0 => muteLeft' = 0)
      BY <1>0, <1>2 DEF World, Flip, Tick
    <2> QED
      BY <2>1 DEF NewsInv, Calling
  <1>3. ASSUME NEW c \in Callers, Call(c) PROVE NewsInv'
    <2>1. /\ pc' = [pc EXCEPT ![c] = "http"] /\ muteLeft' = muteLeft
          /\ muted' = [muted EXCEPT ![c] = (muteLeft > 0)]
          /\ news' \in {"overlap", news}
      BY <1>3 DEF Call, Goto
    <2>2. ASSUME news' = "none" PROVE muteLeft' = 0
      BY <2>1, <2>2 DEF NewsInv
    <2>3. ASSUME news' = "none", NEW d \in Callers, Calling(d)'
          PROVE  pc'[d] = "http" /\ ~muted'[d]
      <3>1. news = "none" /\ muteLeft = 0
        BY <2>1, <2>3 DEF NewsInv
      <3>2. CASE d = c
        <4>1. ~(muteLeft > 0)
          BY <3>1
        <4> QED
          BY <1>0, <2>1, <3>2, <4>1
      <3>3. CASE d # c
        BY <1>0, <2>1, <2>3, <3>1, <3>3 DEF NewsInv, Calling
      <3> QED
        BY <3>2, <3>3
    <2>4. news' # "hidden"
      BY <2>1 DEF NewsInv
    <2> QED
      BY <2>2, <2>3, <2>4 DEF NewsInv
  <1>4. ASSUME NEW c \in Callers, Returns(c) PROVE NewsInv'
    <2>1. /\ pc' = [pc EXCEPT ![c] = "frame"] /\ muteLeft' = 0
          /\ muted' = [muted EXCEPT ![c] = FALSE]
          /\ news' = IF Others(c) = {} THEN "none" ELSE news
      BY <1>4 DEF Returns, Deliver, Goto
    <2>2. Others(c) = {} => \A d \in Callers \ {c} : ~Calling(d)
      BY DEF Others
    <2> QED
      BY <1>0, <2>1, <2>2 DEF NewsInv, Calling
  <1>5. ASSUME NEW c \in Callers, Falls(c) PROVE NewsInv'
    <2>1. /\ muteLeft' = muteLeft /\ muted' = muted
          /\ news' = IF muted[c] THEN news ELSE Logged
          /\ Calling(c)
      BY <1>5 DEF Falls, Fall, Calling
    <2>2. news' # "none" /\ news' # "hidden"
      BY <2>1 DEF NewsInv, Logged
    <2> QED
      BY <2>2 DEF NewsInv
  <1>6. ASSUME NEW c \in Callers,
               CheckSignal(c) \/ StateAnswers(c) \/ StateUnknown(c) \/ Proceeds(c)
               \/ CompareHash(c)
        PROVE  NewsInv'
    <2>1. news' = news /\ pc[c] # "http" /\ Calling(c)
      BY <1>6 DEF CheckSignal, CheckCached, AskState, StateAnswers, StateUnknown, Proceeds,
                  Proceed, CompareHash, Calling
    <2> QED
      BY <2>1 DEF NewsInv
  <1>7. ASSUME NEW c \in Callers, Report(c) \/ Mute(c) PROVE NewsInv'
    <2>1. pc[c] # "http" /\ Calling(c) /\ news' \in {news, Logged, "hidden"}
          /\ (news # "none" => news' # "hidden")
      BY <1>7 DEF Report, Mute, Calling, NewsInv, Logged
    <2> QED
      BY <2>1 DEF NewsInv, Logged
  <1>8. ASSUME NEW c \in Callers, UseFrame(c) PROVE NewsInv'
    <2>1. pc' = [pc EXCEPT ![c] = "idle"] /\ UNCHANGED <<muted, news, muteLeft>>
      BY <1>8 DEF UseFrame, Goto
    <2> QED
      BY <1>0, <2>1 DEF NewsInv, Calling
  <1> QED
    BY <1>1, <1>2, <1>3, <1>4, <1>5, <1>6, <1>7, <1>8, StepKinds DEF Next, captureVars

(* Between two successes, captures that do not overlap never fail without  *)
(* an entry in the capture log, however long the log is muted.             *)
THEOREM FailuresTold == Spec => []FailureTold
  <1>1. Init => NewsInv
    BY DEF Init, NewsInv, Calling
  <1>2. NewsInv => FailureTold
    BY DEF NewsInv, FailureTold
  <1> QED
    BY <1>1, <1>2, NewsInductive, CaptureTypeCorrect, PTL DEF Spec
=============================================================================
