--------------------------- MODULE RecorderProofs ---------------------------
(***************************************************************************)
(* What is proved of Recorder for every number of loops, requests, ffmpeg  *)
(* processes and hours.                                                    *)
(***************************************************************************)
EXTENDS Recorder, TLAPS

-----------------------------------------------------------------------------
(* Type correctness.                                                       *)

(* A loop that goes to a program point with well-typed locals keeps the    *)
(* two per-loop functions well-typed.                                      *)
LEMMA GotoType ==
    ASSUME pc \in [Gens -> PCs], loc \in [Gens -> LocalType],
           NEW g \in Gens, NEW to \in PCs, NEW l \in LocalType, Goto(g, to, l)
    PROVE  pc' \in [Gens -> PCs] /\ loc' \in [Gens -> LocalType]
  BY DEF Goto

(* The initial locals are well-typed. *)
LEMMA NoLocalsType == NoLocals \in LocalType
  BY RecorderAssumption DEF NoLocals, LocalType, Hours

(* Calling closeVideoWriter with any return point keeps the types. *)
LEMMA CallCloseType ==
    ASSUME pc \in [Gens -> PCs], loc \in [Gens -> LocalType],
           NEW g \in Gens, NEW l \in LocalType, NEW ok \in BOOLEAN,
           NEW ret \in {"spawn", "jpeg", "record", "done"}, CallClose(g, l, ret, ok)
    PROVE  pc' \in [Gens -> PCs] /\ loc' \in [Gens -> LocalType]
  <1>1. [l EXCEPT !.ret = ret, !.ok = ok] \in LocalType
    BY DEF LocalType
  <1> QED
    BY <1>1, GotoType DEF CallClose, PCs

(* Returning from closeVideoWriter keeps the types. *)
LEMMA ReturnType ==
    ASSUME pc \in [Gens -> PCs], loc \in [Gens -> LocalType],
           NEW g \in Gens, Return(g)
    PROVE  pc' \in [Gens -> PCs] /\ loc' \in [Gens -> LocalType]
  <1>1. loc[g] \in LocalType
    OBVIOUS
  <1>2. loc[g].ret \in PCs
    BY <1>1 DEF LocalType, PCs
  <1>3. 0 \in 0 .. MaxSegs
    BY RecorderAssumption
  <1>4. [loc[g] EXCEPT !.w = 0, !.ret = "record"] \in LocalType
    BY <1>1, <1>3 DEF LocalType
  <1> QED
    BY <1>2, <1>4, GotoType DEF Return

(* Start, Restart: the counters and the functions stay well-typed. *)
LEMMA LaunchType ==
    ASSUME TypeOK, Launch
    PROVE  /\ gens' \in 0 .. MaxGen /\ stopCh' \in {0, gens'}
           /\ closed' \subseteq 1 .. gens'
           /\ pc' \in [Gens -> PCs] /\ loc' \in [Gens -> LocalType]
  <1>1. gens + 1 \in Gens /\ "top" \in PCs
    BY RecorderAssumption DEF TypeOK, Launch, Gens, PCs
  <1>2. pc' \in [Gens -> PCs] /\ loc' \in [Gens -> LocalType]
    BY <1>1, NoLocalsType DEF TypeOK, Launch
  <1> QED
    BY <1>2, RecorderAssumption DEF TypeOK, Launch

(* Crash loads a configuration and clears what the process held. *)
LEMMA CrashType == ASSUME TypeOK, Crash PROVE TypeOK'
  <1>1. cfg' \in ConfigType /\ disk' \in ConfigType \cup {Torn}
    BY RecorderAssumption DEF TypeOK, Crash, Load
  <1>2. hpc' \in [Handlers -> {"idle", "marshal", "write", "restart"}]
        /\ hbuf' \in [Handlers -> ConfigType]
    BY RecorderAssumption DEF Crash
  <1>3. pc' \in [Gens -> PCs] /\ loc' \in [Gens -> LocalType]
    BY NoLocalsType DEF Crash, PCs
  <1>4. gens' \in 0 .. MaxGen /\ stopCh' \in {0, gens'} /\ closed' \subseteq 1 .. gens'
    BY RecorderAssumption DEF TypeOK, Crash
  <1>5. spawned' \in 0 .. MaxSegs /\ vw' \in 0 .. MaxSegs
        /\ pipes' \subseteq Writers /\ reaped' \subseteq 0 .. MaxSegs
    BY RecorderAssumption DEF TypeOK, Crash, Writers
  <1> QED
    BY <1>1, <1>2, <1>3, <1>4, <1>5 DEF TypeOK, Crash, fileVars

(* TypeOK is inductive. *)
LEMMA TypeStep == ASSUME TypeOK, [Next]_vars PROVE TypeOK'
  <1> USE DEF confVars, loopVars, ffmpegVars, fileVars
  <1>1. CASE UNCHANGED vars
    BY <1>1 DEF TypeOK, vars
  <1>2. CASE Start
    BY <1>2, LaunchType DEF Start, TypeOK
  <1>3. CASE Crash
    BY <1>3, CrashType
  <1>4. CASE Panic
    BY <1>4, CrashType DEF Panic
  <1>5. ASSUME NEW h \in Handlers, SaveStep(h) PROVE TypeOK'
    <2>1. CASE MarshalConfig(h)
      BY <2>1 DEF MarshalConfig, TypeOK
    <2>2. CASE WriteConfig(h)
      BY <2>2 DEF WriteConfig, TypeOK
    <2>3. CASE WriteConfigFails(h)
      BY <2>3 DEF WriteConfigFails, TypeOK
    <2>4. CASE Restart(h)
      BY <2>4, LaunchType DEF Restart, TypeOK
    <2> QED
      BY <1>5, <2>1, <2>2, <2>3, <2>4 DEF SaveStep
  <1>6. ASSUME NEW h \in Handlers, NEW c \in Configs, PostConfig(h, c) PROVE TypeOK'
    BY <1>6, RecorderAssumption DEF PostConfig, TypeOK
  <1>7. ASSUME NEW g \in Gens, LoopStep(g) PROVE TypeOK'
    <2> DEFINE LoopsTyped == pc' \in [Gens -> PCs] /\ loc' \in [Gens -> LocalType]
    <2>0. /\ pc \in [Gens -> PCs] /\ loc \in [Gens -> LocalType]
          /\ loc[g] \in LocalType
      BY DEF TypeOK
    <2>1. CASE Begin(g)
      <3>1. [NoLocals EXCEPT !.cfg = cfg] \in LocalType
        BY NoLocalsType DEF TypeOK, LocalType
      <3>2. LoopsTyped
        BY <2>0, <2>1, <3>1, NoLocalsType, GotoType, CallCloseType DEF Begin, PCs
      <3> QED
        BY <2>1, <3>2 DEF Begin, TypeOK, Overlaps
    <2>2. CASE ShotFails(g)
      <3>1. [loc[g] EXCEPT !.ok = FALSE] \in LocalType
        BY <2>0 DEF LocalType
      <3>2. LoopsTyped
        BY <2>0, <2>2, <3>1, GotoType DEF ShotFails, PCs
      <3> QED
        BY <2>2, <3>2 DEF ShotFails, TypeOK
    <2>3. ASSUME NEW f \in Frames, ShotReturns(g, f) PROVE TypeOK'
      <3>1. /\ [loc[g] EXCEPT !.ok = TRUE] \in LocalType
            /\ [loc[g] EXCEPT !.frame = f] \in LocalType
        BY <2>0 DEF LocalType
      <3>2. LoopsTyped
        BY <2>0, <2>3, <3>1, GotoType DEF ShotReturns, PCs
      <3> QED
        BY <2>3, <3>2 DEF ShotReturns, TypeOK
    <2>4. CASE StoreLast(g)
      <3>1. [loc[g] EXCEPT !.hour = now] \in LocalType
        BY <2>0 DEF LocalType, TypeOK
      <3>2. LoopsTyped
        BY <2>0, <2>4, <3>1, GotoType, CallCloseType DEF StoreLast, PCs
      <3>3. lastFrame' \in Frames \cup {NoFrame}
        BY <2>0, <2>4 DEF StoreLast, LocalType
      <3> QED
        BY <2>4, <3>2, <3>3 DEF StoreLast, TypeOK
    <2>5. CASE WriteJPEG(g)
      <3>1. /\ [loc[g] EXCEPT !.ok = TRUE] \in LocalType
            /\ [loc[g] EXCEPT !.ok = FALSE] \in LocalType
        BY <2>0 DEF LocalType
      <3>2. LoopsTyped
        BY <2>0, <2>5, <3>1, GotoType DEF WriteJPEG, PCs
      <3>3. loc[g].frame \in Frames \cup {NoFrame}
        BY <2>0 DEF LocalType
      <3> QED
        BY <2>5, <3>2, <3>3 DEF WriteJPEG, TypeOK
    <2>6. CASE EnsureWriter(g)
      <3>1. LoopsTyped
        BY <2>0, <2>6, GotoType, CallCloseType DEF EnsureWriter, PCs
      <3> QED
        BY <2>6, <3>1 DEF EnsureWriter, TypeOK
    <2>7. CASE Spawn(g)
      <3>1. LoopsTyped
        BY <2>0, <2>7, GotoType DEF Spawn, PCs
      <3>2. spawned + 1 \in Writers
        BY <2>7, RecorderAssumption DEF Spawn, TypeOK, Writers
      <3>3. loc[g].hour \in Hours
        BY <2>0 DEF LocalType
      <3>4. /\ spawned' \in 0 .. MaxSegs /\ vw' \in 0 .. MaxSegs
            /\ pipes' \subseteq Writers
        BY <2>7, <3>2, RecorderAssumption DEF Spawn, TypeOK, Writers
      <3>5. whour' \in [Writers -> Hours] /\ video' \in [Hours -> SUBSET (Frames \cup {NoFrame})]
        BY <2>7, <3>3 DEF Spawn, TypeOK
      <3> QED
        BY <2>7, <3>1, <3>4, <3>5 DEF Spawn, TypeOK
    <2>8. CASE SpawnFails(g)
      <3>1. [loc[g] EXCEPT !.ok = FALSE] \in LocalType
        BY <2>0 DEF LocalType
      <3>2. LoopsTyped
        BY <2>0, <2>8, <3>1, GotoType DEF SpawnFails, PCs
      <3> QED
        BY <2>8, <3>2 DEF SpawnFails, TypeOK
    <2>9. CASE CheckWriter(g)
      <3>1. /\ [loc[g] EXCEPT !.ok = FALSE] \in LocalType
            /\ [loc[g] EXCEPT !.w = vw] \in LocalType
        BY <2>0 DEF LocalType, TypeOK
      <3>2. LoopsTyped
        BY <2>0, <2>9, <3>1, GotoType DEF CheckWriter, PCs
      <3> QED
        BY <2>9, <3>2 DEF CheckWriter, TypeOK
    <2>10. CASE WriteVideo(g)
      <3>1. [loc[g] EXCEPT !.ok = TRUE] \in LocalType
        BY <2>0 DEF LocalType
      <3>2. LoopsTyped
        BY <2>0, <2>10, <3>1, GotoType, CallCloseType DEF WriteVideo, PCs
      <3>3. loc[g].frame \in Frames \cup {NoFrame}
        BY <2>0 DEF LocalType
      <3>4. PICK w \in {loc[g].w, vw} \ {0} :
              \/ /\ w \in pipes
                 /\ video' = [video EXCEPT ![whour[w]] = @ \cup {loc[g].frame}]
              \/ UNCHANGED video
        BY <2>10 DEF WriteVideo
      <3>5. w \in pipes => whour[w] \in Hours
        BY DEF TypeOK
      <3>6. video' \in [Hours -> SUBSET (Frames \cup {NoFrame})]
        BY <3>3, <3>4, <3>5 DEF TypeOK
      <3> QED
        BY <2>10, <3>2, <3>6 DEF WriteVideo, TypeOK
    <2>11. CASE CloseReads(g)
      <3>1. [loc[g] EXCEPT !.w = vw] \in LocalType
        BY <2>0 DEF LocalType, TypeOK
      <3>2. LoopsTyped
        BY <2>0, <2>11, <3>1, GotoType, ReturnType DEF CloseReads, PCs
      <3> QED
        BY <2>11, <3>2 DEF CloseReads, TypeOK
    <2>12. CASE CloseClears(g)
      <3>1. LoopsTyped
        BY <2>0, <2>12, ReturnType DEF CloseClears
      <3>2. 0 \in 0 .. MaxSegs /\ loc[g].w \in 0 .. MaxSegs
        BY <2>0, RecorderAssumption DEF LocalType
      <3> QED
        BY <2>12, <3>1, <3>2 DEF CloseClears, TypeOK
    <2>13. CASE Record(g)
      <3>1. LoopsTyped /\ loc[g].ok \in BOOLEAN
        BY <2>0, <2>13, NoLocalsType, GotoType DEF Record, PCs, LocalType
      <3> QED
        BY <2>13, <3>1 DEF Record, TypeOK
    <2>14. CASE TimerFires(g)
      <3>1. LoopsTyped
        BY <2>0, <2>14, NoLocalsType, GotoType DEF TimerFires, PCs
      <3> QED
        BY <2>14, <3>1 DEF TimerFires, TypeOK
    <2>15. CASE Stop(g)
      <3>1. LoopsTyped
        BY <2>0, <2>15, NoLocalsType, CallCloseType DEF Stop
      <3> QED
        BY <2>15, <3>1 DEF Stop, TypeOK, Overlaps
    <2> QED
      BY <1>7, <2>1, <2>2, <2>3, <2>4, <2>5, <2>6, <2>7, <2>8, <2>9, <2>10,
         <2>11, <2>12, <2>13, <2>14, <2>15 DEF LoopStep
  <1>8. ASSUME NEW w \in Writers, Finalize(w) PROVE TypeOK'
    BY <1>8 DEF Finalize, TypeOK
  <1>9. CASE HourPasses
    BY <1>9, RecorderAssumption DEF HourPasses, TypeOK, Hours
  <1> QED
    BY <1>1, <1>2, <1>3, <1>4, <1>5, <1>6, <1>7, <1>8, <1>9 DEF Next

(* Every variable of the recorder keeps its type, whatever the             *)
(* interleaving of loops, requests and crashes.                            *)
THEOREM TypeCorrect == Spec => []TypeOK
  <1>1. Init => TypeOK
    <2> SUFFICES ASSUME Init PROVE TypeOK
      OBVIOUS
    <2>1. cfg \in ConfigType /\ disk \in ConfigType \cup {Torn}
      BY RecorderAssumption DEF Init
    <2>2. hpc \in [Handlers -> {"idle", "marshal", "write", "restart"}]
          /\ hbuf \in [Handlers -> ConfigType]
      BY RecorderAssumption DEF Init
    <2>3. pc \in [Gens -> PCs] /\ loc \in [Gens -> LocalType]
      BY NoLocalsType DEF Init, PCs
    <2>4. 0 \in Hours
      BY RecorderAssumption DEF Hours
    <2>5. whour \in [Writers -> Hours] /\ video \in [Hours -> SUBSET (Frames \cup {NoFrame})]
          /\ jpegs \in [Hours -> SUBSET (Frames \cup {NoFrame})]
      BY <2>4 DEF Init
    <2>6. gens \in 0 .. MaxGen /\ stopCh \in {0, gens} /\ closed \subseteq 1 .. gens
          /\ spawned \in 0 .. MaxSegs /\ vw \in 0 .. MaxSegs
          /\ pipes \subseteq Writers /\ reaped \subseteq 0 .. MaxSegs
      BY RecorderAssumption DEF Init
    <2> QED
      BY <2>1, <2>2, <2>3, <2>5, <2>6 DEF Init, TypeOK
  <1> QED
    BY <1>1, TypeStep, PTL DEF Spec

-----------------------------------------------------------------------------
(* One live loop.                                                          *)

(* Loops are launched in order, and every launched loop but the last has   *)
(* its stop channel closed.                                                *)
LaunchInv ==
    \A g \in Gens : /\ g > gens => pc[g] = "none"
                    /\ g <= gens => g \in closed \/ g = stopCh

(* A step of a loop leaves the loops that are not launched alone. *)
LEMMA LoopKeepsLaunchInv ==
    ASSUME TypeOK, LaunchInv, NEW g \in Gens, LoopStep(g)
    PROVE  LaunchInv'
  <1>1. pc[g] # "none"
    BY DEF LoopStep, Begin, ShotFails, ShotReturns, StoreLast, WriteJPEG,
           EnsureWriter, Spawn, SpawnFails, CheckWriter, WriteVideo, CloseReads,
           CloseClears, Record, TimerFires, Stop
  <1>2. UNCHANGED loopVars
    BY DEF LoopStep, Begin, ShotFails, ShotReturns, StoreLast, WriteJPEG,
           EnsureWriter, Spawn, SpawnFails, CheckWriter, WriteVideo, CloseReads,
           CloseClears, Record, TimerFires, Stop
  <1>3. \A i \in Gens \ {g} : pc'[i] = pc[i]
    BY DEF TypeOK, Goto, CallClose, Return, LoopStep, Begin, ShotFails, ShotReturns,
           StoreLast, WriteJPEG, EnsureWriter, Spawn, SpawnFails, CheckWriter,
           WriteVideo, CloseReads, CloseClears, Record, TimerFires, Stop
  <1> QED
    BY <1>1, <1>2, <1>3 DEF LaunchInv, loopVars

(* Launch closes the channel it replaces. *)
LEMMA LaunchKeepsLaunchInv ==
    ASSUME TypeOK, LaunchInv, Launch PROVE LaunchInv'
  <1> SUFFICES ASSUME NEW g \in Gens
               PROVE  /\ g > gens' => pc'[g] = "none"
                      /\ g <= gens' => g \in closed' \/ g = stopCh'
    BY DEF LaunchInv
  <1>1. g \in Nat \ {0} /\ gens \in Nat
    BY RecorderAssumption DEF TypeOK, Gens
  <1>2. g > gens' => pc'[g] = "none"
    BY <1>1 DEF Launch, LaunchInv, TypeOK
  <1>3. g <= gens' => g \in closed' \/ g = stopCh'
    BY <1>1 DEF Launch, LaunchInv, TypeOK
  <1> QED
    BY <1>2, <1>3

(* At most one loop keeps going, however requests and crashes interleave:  *)
(* Restart leaves no second loop with an open stop channel.                *)
THEOREM LiveLoopUnique == Spec => []OneLiveLoop
  <1>1. Init => LaunchInv
    BY RecorderAssumption DEF Init, LaunchInv, Gens
  <1>2. TypeOK /\ LaunchInv /\ [Next]_vars => LaunchInv'
    <2> SUFFICES ASSUME TypeOK, LaunchInv, [Next]_vars PROVE LaunchInv'
      OBVIOUS
    <2>1. CASE UNCHANGED vars
      BY <2>1 DEF vars, loopVars, LaunchInv
    <2>2. CASE Start
      BY <2>2, LaunchKeepsLaunchInv DEF Start
    <2>3. CASE Crash
      <3>1. \A g \in Gens : g \in Nat \ {0}
        BY RecorderAssumption DEF Gens
      <3> QED
        BY <2>3, <3>1, RecorderAssumption DEF Crash, LaunchInv, TypeOK
    <2>4. CASE Panic
      <3>1. \A g \in Gens : g \in Nat \ {0}
        BY RecorderAssumption DEF Gens
      <3> QED
        BY <2>4, <3>1, RecorderAssumption DEF Panic, Crash, LaunchInv, TypeOK
    <2>5. ASSUME NEW h \in Handlers, SaveStep(h) PROVE LaunchInv'
      BY <2>5, LaunchKeepsLaunchInv
         DEF SaveStep, MarshalConfig, WriteConfig, WriteConfigFails, Restart,
             loopVars, LaunchInv
    <2>6. ASSUME NEW h \in Handlers, NEW c \in Configs, PostConfig(h, c)
          PROVE  LaunchInv'
      BY <2>6 DEF PostConfig, loopVars, LaunchInv
    <2>7. ASSUME NEW g \in Gens, LoopStep(g) PROVE LaunchInv'
      BY <2>7, LoopKeepsLaunchInv
    <2>8. ASSUME NEW w \in Writers, Finalize(w) PROVE LaunchInv'
      BY <2>8 DEF Finalize, loopVars, LaunchInv
    <2>9. CASE HourPasses
      BY <2>9 DEF HourPasses, loopVars, LaunchInv
    <2> QED
      BY <2>1, <2>2, <2>3, <2>4, <2>5, <2>6, <2>7, <2>8, <2>9 DEF Next
  <1>3. TypeOK /\ LaunchInv => OneLiveLoop
    <2>1. TypeOK => gens \in Nat /\ \A g \in Gens : g \in Nat
      BY RecorderAssumption DEF TypeOK, Gens
    <2> QED
      BY <2>1 DEF LaunchInv, OneLiveLoop
  <1> QED
    BY <1>1, <1>2, <1>3, TypeCorrect, PTL DEF Spec

-----------------------------------------------------------------------------
(* The configuration file.                                                 *)

(* While requests come one at a time, what the one in flight marshalled,   *)
(* and then what it wrote, is the configuration in effect.                 *)
SaveInv ==
    ~contended =>
        /\ \A h, i \in Handlers : Busy(h) /\ Busy(i) => h = i
        /\ \A h \in Handlers : hpc[h] = "write" => hbuf[h] = cfg
        /\ \A h \in Handlers : hpc[h] = "restart" => disk = cfg
        /\ (\A h \in Handlers : ~Busy(h)) => Load(disk) = cfg

(* Requests that do not overlap and whose save succeeds leave a file that  *)
(* restores the configuration in effect (HandleConfig, loadConfig).        *)
THEOREM ConfigSurvives == Spec => []ConfigPersisted
  <1>1. Init => SaveInv
    BY RecorderAssumption DEF Init, SaveInv, Busy, Load
  <1>2. TypeOK /\ SaveInv /\ [Next]_vars => SaveInv'
    <2> SUFFICES ASSUME TypeOK, SaveInv, [Next]_vars PROVE SaveInv'
      OBVIOUS
    <2> USE DEF SaveInv, Busy, confVars
    <2>1. CASE UNCHANGED <<cfg, confVars>>
      BY <2>1 DEF Load
    <2>2. CASE Start
      BY <2>1, <2>2 DEF Start
    <2>3. CASE Crash
      BY <2>3 DEF Crash
    <2>4. CASE Panic
      BY <2>4 DEF Panic, Crash
    <2>5. ASSUME NEW h \in Handlers, SaveStep(h) PROVE SaveInv'
      <3>1. CASE MarshalConfig(h)
        BY <3>1 DEF MarshalConfig, TypeOK, Load
      <3>2. CASE WriteConfig(h)
        BY <3>2 DEF WriteConfig, TypeOK
      <3>3. CASE WriteConfigFails(h)
        BY <3>3 DEF WriteConfigFails
      <3>4. CASE Restart(h)
        BY <3>4, RecorderAssumption DEF Restart, TypeOK, Load
      <3> QED
        BY <2>5, <3>1, <3>2, <3>3, <3>4 DEF SaveStep
    <2>6. ASSUME NEW h \in Handlers, NEW c \in Configs, PostConfig(h, c)
          PROVE  SaveInv'
      BY <2>6 DEF PostConfig, TypeOK
    <2>7. ASSUME NEW g \in Gens, LoopStep(g) PROVE SaveInv'
      <3>1. UNCHANGED <<cfg, confVars>>
        BY <2>7 DEF LoopStep, Begin, ShotFails, ShotReturns, StoreLast, WriteJPEG,
           EnsureWriter, Spawn, SpawnFails, CheckWriter, WriteVideo, CloseReads,
           CloseClears, Record, TimerFires, Stop
      <3> QED
        BY <2>1, <3>1
    <2>8. ASSUME NEW w \in Writers, Finalize(w) PROVE SaveInv'
      BY <2>1, <2>8 DEF Finalize
    <2>9. CASE HourPasses
      BY <2>1, <2>9 DEF HourPasses
    <2> QED
      BY <2>1, <2>2, <2>3, <2>4, <2>5, <2>6, <2>7, <2>8, <2>9 DEF Next, vars
  <1>3. SaveInv => ConfigPersisted
    BY DEF SaveInv, ConfigPersisted
  <1> QED
    BY <1>1, <1>2, <1>3, TypeCorrect, PTL DEF Spec

-----------------------------------------------------------------------------
(* The writer while loops do not overlap.                                  *)

(* What the loops know of r.vw and of the ffmpeg processes as long as at   *)
(* most one of them is inside an iteration.                                *)
OneActive == \A g, i \in Gens : Active(g) /\ Active(i) => g = i

WriterInv ==
    /\ pipes = {vw} \ {0}
    /\ 1 .. spawned = pipes \cup reaped

LoopKnows(g) ==
    /\ pc[g] \in {"spawn", "jpeg"} => vw = 0
    /\ pc[g] = "clear" => vw # 0 /\ loc[g].w = vw
    /\ pc[g] \in {"check", "write"} => vw # 0 /\ whour[vw] = loc[g].hour
    /\ pc[g] = "write" => loc[g].w = vw

SoloInv == ~overlapped => OneActive /\ WriterInv /\ \A g \in Gens : LoopKnows(g)

(* A step of loop g moves no other loop. *)
LEMMA OthersStay ==
    ASSUME TypeOK, NEW g \in Gens, LoopStep(g)
    PROVE  /\ \A i \in Gens \ {g} : pc'[i] = pc[i] /\ loc'[i] = loc[i]
           /\ pc[g] \notin {"none", "done"}
           /\ overlapped => overlapped'
  BY DEF TypeOK, Goto, CallClose, Return, LoopStep, Begin, ShotFails, ShotReturns,
         StoreLast, WriteJPEG, EnsureWriter, Spawn, SpawnFails, CheckWriter,
         WriteVideo, CloseReads, CloseClears, Record, TimerFires, Stop

(* A loop alone inside an iteration keeps what is known of the writer.     *)
LEMMA SoloStep ==
    ASSUME TypeOK, SoloInv, NEW g \in Gens, LoopStep(g) PROVE SoloInv'
  <1> SUFFICES ASSUME ~overlapped'
               PROVE  /\ OneActive' /\ WriterInv'
                      /\ \A i \in Gens : LoopKnows(i)'
    BY DEF SoloInv
  <1>1. /\ OneActive /\ WriterInv /\ \A i \in Gens : LoopKnows(i)
        /\ \A i \in Gens \ {g} : pc'[i] = pc[i] /\ loc'[i] = loc[i]
    BY OthersStay DEF SoloInv
  <1>2. CASE TimerFires(g)
    <2>1. pc'[g] = "top" /\ UNCHANGED <<vw, ffmpegVars>>
      BY <1>2 DEF TimerFires, Goto, TypeOK
    <2> QED
      BY <1>1, <2>1 DEF OneActive, WriterInv, LoopKnows, Active, ffmpegVars
  <1>3. CASE ~TimerFires(g)
    <2>1. \A i \in Gens \ {g} : ~Active(i)
      <3>1. CASE Active(g)
        BY <1>1, <3>1 DEF OneActive
      <3>2. CASE ~Active(g)
        <4>1. Begin(g) \/ Stop(g)
          BY <1>3, <3>2 DEF Active, LoopStep, ShotFails, ShotReturns, StoreLast,
             WriteJPEG, EnsureWriter, Spawn, SpawnFails, CheckWriter, WriteVideo,
             CloseReads, CloseClears, Record
        <4> QED
          BY <4>1 DEF Begin, Stop, Overlaps
      <3> QED
        BY <3>1, <3>2
    <2>2. \A i \in Gens \ {g} : ~Active(i)' /\ LoopKnows(i)'
      BY <1>1, <2>1 DEF Active, LoopKnows
    <2>3. OneActive'
      BY <2>2 DEF OneActive
    <2>4. /\ pc \in [Gens -> PCs] /\ loc \in [Gens -> LocalType]
          /\ loc[g] \in LocalType
      BY DEF TypeOK
    <2>5. LoopKnows(g) /\ WriterInv
      BY <1>1
    <2>6. SUFFICES WriterInv' /\ LoopKnows(g)'
      BY <2>2, <2>3
    <2> USE <2>4, <2>5 DEF WriterInv, LoopKnows, ffmpegVars, Goto, CallClose, LocalType
    <2>7. CASE Begin(g)
      BY <2>7 DEF Begin
    <2>8. CASE ShotFails(g)
      BY <2>8 DEF ShotFails
    <2>9. ASSUME NEW f \in Frames, ShotReturns(g, f) PROVE WriterInv' /\ LoopKnows(g)'
      BY <2>9 DEF ShotReturns
    <2>10. CASE StoreLast(g)
      BY <2>10 DEF StoreLast
    <2>11. CASE WriteJPEG(g)
      BY <2>11 DEF WriteJPEG
    <2>12. CASE EnsureWriter(g)
      BY <2>12 DEF EnsureWriter
    <2>13. CASE Spawn(g)
      <3>1. /\ spawned' = spawned + 1 /\ vw' = spawned + 1 /\ spawned \in Nat
            /\ pipes' = pipes \cup {spawned + 1} /\ reaped' = reaped
            /\ pc'[g] = "check" /\ loc'[g] = loc[g]
        BY <2>13, RecorderAssumption DEF Spawn, TypeOK
      <3>2. pipes = {} /\ reaped = 1 .. spawned
        BY <2>13 DEF Spawn
      <3>3. WriterInv'
        <4>1. 1 .. (spawned + 1) = (1 .. spawned) \cup {spawned + 1}
          BY <3>1
        <4>2. pipes' = {vw'}
          BY <3>1, <3>2, Zenon
        <4>3. vw' # 0
          BY <3>1
        <4>4. pipes' = {vw'} \ {0}
          BY <4>2, <4>3, Zenon
        <4>5. 1 .. spawned' = pipes' \cup reaped'
          BY <3>1, <3>2, <4>1, Zenon
        <4> QED
          BY <4>4, <4>5
      <3>4. whour'[vw'] = loc[g].hour
        <4>1. spawned + 1 \in Writers
          BY <2>13, <3>1, RecorderAssumption DEF Spawn, TypeOK, Writers
        <4> QED
          BY <2>13, <3>1, <4>1 DEF Spawn, TypeOK
      <3> QED
        BY <3>1, <3>3, <3>4
    <2>14. CASE SpawnFails(g)
      BY <2>14 DEF SpawnFails
    <2>15. CASE CheckWriter(g)
      BY <2>15 DEF CheckWriter
    <2>16. CASE WriteVideo(g)
      BY <2>16 DEF WriteVideo
    <2>17. CASE CloseReads(g)
      BY <2>17 DEF CloseReads, Return
    <2>18. CASE CloseClears(g)
      <3>1. vw' = 0 /\ pipes' = {} /\ reaped' = reaped \cup {vw} /\ spawned' = spawned
        BY <2>18 DEF CloseClears
      <3>2. pipes = {vw}
        BY <2>18 DEF CloseClears
      <3>3. WriterInv'
        BY <3>1, <3>2
      <3>4. pc'[g] \in {"spawn", "jpeg", "record", "done"}
        BY <2>18 DEF CloseClears, Return
      <3> QED
        BY <3>1, <3>3, <3>4
    <2>19. CASE Record(g)
      BY <2>19 DEF Record
    <2>20. CASE Stop(g)
      BY <2>20 DEF Stop
    <2> QED
      BY <1>3, <2>7, <2>8, <2>9, <2>10, <2>11, <2>12, <2>13, <2>14, <2>15, <2>16,
         <2>17, <2>18, <2>19, <2>20 DEF LoopStep
  <1> QED
    BY <1>2, <1>3

(* Launching a loop, saving and the environment keep it. *)
LEMMA SoloLaunch ==
    ASSUME TypeOK, SoloInv, Launch, UNCHANGED <<vw, ffmpegVars, overlapped>>
    PROVE  SoloInv'
  <1>1. \A g \in Gens : \/ pc'[g] = "top"
                        \/ pc'[g] = pc[g] /\ loc'[g] = loc[g]
    BY DEF Launch, TypeOK
  <1> QED
    BY <1>1 DEF SoloInv, OneActive, WriterInv, LoopKnows, Active, ffmpegVars

(* A crash leaves no writer and no loop. *)
LEMMA SoloCrash == ASSUME TypeOK, Crash PROVE SoloInv'
  <1>1. \A g \in Gens : pc'[g] \in {"done", "none"}
    BY DEF Crash
  <1>2. WriterInv'
    BY DEF Crash, WriterInv
  <1> QED
    BY <1>1, <1>2 DEF SoloInv, OneActive, LoopKnows, Active

(* SoloInv is inductive, given the types. *)
LEMMA SoloInductive == Spec => []SoloInv
  <1>1. Init => SoloInv
    BY DEF Init, SoloInv, OneActive, WriterInv, LoopKnows, Active
  <1>2. TypeOK /\ SoloInv /\ [Next]_vars => SoloInv'
    <2> SUFFICES ASSUME TypeOK, SoloInv, [Next]_vars PROVE SoloInv'
      OBVIOUS
    <2>1. CASE UNCHANGED <<pc, loc, vw, ffmpegVars, overlapped>>
      BY <2>1 DEF SoloInv, OneActive, WriterInv, LoopKnows, Active, ffmpegVars
    <2>2. CASE Start
      BY <2>2, SoloLaunch DEF Start
    <2>3. CASE Crash
      BY <2>3, SoloCrash
    <2>4. CASE Panic
      BY <2>4, SoloCrash DEF Panic
    <2>5. ASSUME NEW h \in Handlers, SaveStep(h) PROVE SoloInv'
      BY <2>1, <2>5, SoloLaunch
         DEF SaveStep, MarshalConfig, WriteConfig, WriteConfigFails, Restart
    <2>6. ASSUME NEW h \in Handlers, NEW c \in Configs, PostConfig(h, c)
          PROVE  SoloInv'
      BY <2>1, <2>6 DEF PostConfig
    <2>7. ASSUME NEW g \in Gens, LoopStep(g) PROVE SoloInv'
      BY <2>7, SoloStep
    <2>8. ASSUME NEW w \in Writers, Finalize(w) PROVE SoloInv'
      <3>1. overlapped
        BY <2>8 DEF Finalize, SoloInv, WriterInv
      <3> QED
        BY <2>8, <3>1 DEF Finalize, SoloInv
    <2>9. CASE HourPasses
      BY <2>1, <2>9 DEF HourPasses
    <2> QED
      BY <2>1, <2>2, <2>3, <2>4, <2>5, <2>6, <2>7, <2>8, <2>9 DEF Next, vars
  <1> QED
    BY <1>1, <1>2, TypeCorrect, PTL DEF Spec

(* Until two loops overlap inside an iteration, the only open ffmpeg is    *)
(* the one r.vw refers to (ensureVideoWriter, closeVideoWriter).           *)
THEOREM WriterUnique == Spec => []SingleWriter
  <1>1. SoloInv => SingleWriter
    BY DEF SoloInv, WriterInv, SingleWriter
  <1> QED
    BY <1>1, SoloInductive, PTL

(* Until then every ffmpeg is open or waited for (closeVideoWriter). *)
THEOREM NoZombie == Spec => []FfmpegReaped
  <1>1. SoloInv => FfmpegReaped
    BY DEF SoloInv, WriterInv, FfmpegReaped
  <1> QED
    BY <1>1, SoloInductive, PTL

(* Until then a frame is written to the segment of its hour, through a     *)
(* writer that is not nil (writeVideoFrame).                               *)
THEOREM RightHour == Spec => []FrameInItsHour
  <1>1. SoloInv => FrameInItsHour
    BY DEF SoloInv, LoopKnows, FrameInItsHour
  <1> QED
    BY <1>1, SoloInductive, PTL

(* Until then no ffmpeg is open when a JPEG is written (writeJPEGFrame). *)
THEOREM NoFfmpegDuringJpeg == Spec => []JpegAlone
  <1>1. SoloInv => JpegAlone
    BY DEF SoloInv, WriterInv, LoopKnows, JpegAlone
  <1> QED
    BY <1>1, SoloInductive, PTL

-----------------------------------------------------------------------------
(* What holds although loops overlap.                                      *)

(* The writers there are, and the ones loops remember, have been spawned;  *)
(* none is open and waited for, and r.vw refers to an open one.            *)
OpenInv ==
    /\ vw # 0 => vw \in pipes
    /\ pipes \cap reaped = {}
    /\ \A w \in pipes \cup reaped : w <= spawned
    /\ \A g \in Gens : loc[g].w <= spawned

(* A loop remembers what it knew, nothing, or what r.vw refers to. *)
LEMMA RememberedStep ==
    ASSUME TypeOK, NEW g \in Gens, LoopStep(g)
    PROVE  loc'[g].w \in {loc[g].w, 0, vw}
  <1>1. loc[g] \in LocalType /\ g \in DOMAIN loc
    BY DEF TypeOK
  <1>2. ASSUME NEW to, NEW l, Goto(g, to, l) PROVE loc'[g] = l
    BY <1>1, <1>2 DEF Goto
  <1>3. ASSUME NEW l \in LocalType, l.w \in {loc[g].w, 0}, NEW ret, NEW ok,
               CallClose(g, l, ret, ok)
        PROVE  loc'[g].w \in {loc[g].w, 0}
    BY <1>2, <1>3 DEF CallClose, LocalType
  <1>4. ASSUME Return(g) PROVE loc'[g].w = 0
    BY <1>1, <1>2, <1>4 DEF Return, LocalType
  <1>5. NoLocals \in LocalType /\ NoLocals.w = 0
    BY NoLocalsType DEF NoLocals
  <1>6. CASE Begin(g) \/ Stop(g)
    BY <1>2, <1>3, <1>5, <1>6 DEF Begin, Stop, NoLocals
  <1>7. CASE ShotFails(g) \/ (\E f \in Frames : ShotReturns(g, f))
    BY <1>1, <1>2, <1>7 DEF ShotFails, ShotReturns, LocalType
  <1>8. CASE StoreLast(g)
    BY <1>1, <1>2, <1>3, <1>8 DEF StoreLast, LocalType
  <1>9. CASE WriteJPEG(g) \/ SpawnFails(g) \/ Spawn(g) \/ CheckWriter(g)
    BY <1>1, <1>2, <1>9 DEF WriteJPEG, SpawnFails, Spawn, CheckWriter, LocalType
  <1>10. CASE EnsureWriter(g)
    BY <1>1, <1>2, <1>3, <1>10 DEF EnsureWriter
  <1>11. CASE WriteVideo(g)
    <2>1. \/ Goto(g, "record", [loc[g] EXCEPT !.ok = TRUE])
          \/ CallClose(g, loc[g], "record", FALSE)
      BY <1>11 DEF WriteVideo
    <2> QED
      BY <1>1, <1>2, <1>3, <2>1 DEF LocalType
  <1>12. CASE CloseReads(g) \/ CloseClears(g)
    BY <1>1, <1>2, <1>4, <1>12 DEF CloseReads, CloseClears, LocalType
  <1>13. CASE Record(g) \/ TimerFires(g)
    BY <1>2, <1>5, <1>13 DEF Record, TimerFires
  <1> QED
    BY <1>6, <1>7, <1>8, <1>9, <1>10, <1>11, <1>12, <1>13 DEF LoopStep

LEMMA OpenStep == ASSUME TypeOK, OpenInv, NEW g \in Gens, LoopStep(g) PROVE OpenInv'
  <1>0. /\ spawned \in Nat /\ vw \in Nat /\ vw <= spawned
        /\ \A i \in Gens : loc[i].w \in Nat
        /\ pipes \subseteq Nat /\ reaped \subseteq Nat
    BY RecorderAssumption DEF TypeOK, OpenInv, LocalType, Writers
  <1>1. \A i \in Gens \ {g} : loc'[i] = loc[i]
    BY OthersStay
  <1>2. \A i \in Gens : loc'[i].w <= spawned
    BY <1>0, <1>1, RememberedStep DEF OpenInv
  <1>3. CASE UNCHANGED <<vw, ffmpegVars>>
    BY <1>2, <1>3 DEF OpenInv, ffmpegVars
  <1>4. CASE Spawn(g)
    <2>1. /\ spawned' = spawned + 1 /\ vw' = spawned + 1
          /\ pipes' = pipes \cup {spawned + 1} /\ reaped' = reaped
      BY <1>4 DEF Spawn
    <2>2. \A i \in Gens : loc'[i].w <= spawned'
      <3>1. \A i \in Gens : loc'[i].w \in Nat
        BY <1>0, <1>1, RememberedStep
      <3> QED
        BY <1>0, <1>2, <2>1, <3>1
    <2> QED
      BY <1>0, <2>1, <2>2 DEF OpenInv
  <1>5. CASE CloseClears(g)
    <2>1. /\ spawned' = spawned /\ vw' = 0
          /\ pipes' = pipes \ {loc[g].w} /\ reaped' = reaped \cup {loc[g].w}
      BY <1>5 DEF CloseClears
    <2> QED
      BY <1>2, <2>1 DEF OpenInv
  <1> QED
    BY <1>3, <1>4, <1>5 DEF LoopStep, Begin, ShotFails, ShotReturns, StoreLast, WriteJPEG,
       EnsureWriter, SpawnFails, CheckWriter, WriteVideo, CloseReads, Record, TimerFires, Stop

LEMMA OpenInductive == Spec => []OpenInv
  <1>1. Init => OpenInv
    BY DEF Init, OpenInv, NoLocals
  <1>2. TypeOK /\ OpenInv /\ [Next]_vars => OpenInv'
    <2> SUFFICES ASSUME TypeOK, OpenInv, [Next]_vars PROVE OpenInv'
      OBVIOUS
    <2>0. spawned \in Nat
      BY RecorderAssumption DEF TypeOK
    <2>1. CASE UNCHANGED <<loc, vw, ffmpegVars>>
      BY <2>1 DEF OpenInv, ffmpegVars
    <2>2. CASE Launch /\ UNCHANGED <<vw, ffmpegVars>>
      <3>1. \A g \in Gens : loc'[g] = loc[g] \/ loc'[g].w = 0
        BY <2>2 DEF Launch, NoLocals, TypeOK
      <3>2. \A g \in Gens : loc'[g].w <= spawned
        BY <2>0, <3>1 DEF OpenInv
      <3> QED
        BY <2>2, <3>2 DEF OpenInv, ffmpegVars
    <2>3. CASE Crash
      <3>1. /\ vw' = 0 /\ pipes' = {} /\ reaped' = 1 .. spawned /\ spawned' = spawned
            /\ \A g \in Gens : loc'[g].w = 0
        BY <2>3 DEF Crash, NoLocals
      <3> QED
        BY <2>0, <3>1 DEF OpenInv
    <2>4. ASSUME NEW h \in Handlers, SaveStep(h) PROVE OpenInv'
      BY <2>1, <2>2, <2>4
         DEF SaveStep, MarshalConfig, WriteConfig, WriteConfigFails, Restart, loopVars
    <2>5. ASSUME NEW w \in Writers, Finalize(w) PROVE OpenInv'
      BY <2>5 DEF Finalize, OpenInv
    <2> QED
      BY <2>1, <2>2, <2>3, <2>4, <2>5, OpenStep
         DEF Next, Start, Panic, PostConfig, HourPasses, vars, loopVars
  <1> QED
    BY <1>1, <1>2, TypeCorrect, PTL DEF Spec

(* Whatever loops overlap, and wherever requests and crashes come, r.vw    *)
(* never refers to an ffmpeg that was closed (closeVideoWriter).           *)
THEOREM WriterStaysUsable == Spec => []WriterUsable
  <1>1. OpenInv => WriterUsable
    BY DEF OpenInv, WriterUsable
  <1> QED
    BY <1>1, OpenInductive, PTL

-----------------------------------------------------------------------------
(* The recorder keeps the promise of Footage.                              *)

(* Between the assignment to r.lastFrame and the end of the write. *)
Holding(g) ==
    \/ pc[g] \in {"ensure", "spawn", "check", "write", "jpeg"}
    \/ pc[g] \in {"closing", "clear"} /\ loc[g].ret \in {"spawn", "jpeg"}

(* A loop stores a frame, and as long as it captures alone the frame it    *)
(* has to write is the one in r.lastFrame.                                 *)
HeldInv ==
    \A g \in Gens :
        /\ pc[g] = "store" => loc[g].frame \in Frames
        /\ ~overlapped /\ Holding(g) => loc[g].frame = lastFrame /\ lastFrame \in Frames

(* Where a loop is after a move, a call of closeVideoWriter, its return.    *)
LEMMA GotoIs ==
    ASSUME TypeOK, NEW g \in Gens, NEW to, NEW l, Goto(g, to, l)
    PROVE  pc'[g] = to /\ loc'[g] = l
  BY DEF Goto, TypeOK

LEMMA CallCloseIs ==
    ASSUME TypeOK, NEW g \in Gens, NEW l \in LocalType, NEW ret, NEW ok,
           CallClose(g, l, ret, ok)
    PROVE  pc'[g] = "closing" /\ loc'[g].ret = ret /\ loc'[g].frame = l.frame
  <1>1. pc'[g] = "closing" /\ loc'[g] = [l EXCEPT !.ret = ret, !.ok = ok]
    BY GotoIs DEF CallClose
  <1> QED
    BY <1>1 DEF LocalType

LEMMA ReturnIs ==
    ASSUME TypeOK, NEW g \in Gens, Return(g)
    PROVE  pc'[g] = loc[g].ret /\ loc'[g].frame = loc[g].frame
  <1>1. pc'[g] = loc[g].ret /\ loc'[g] = [loc[g] EXCEPT !.w = 0, !.ret = "record"]
    BY GotoIs DEF Return
  <1>2. loc[g] \in LocalType
    BY DEF TypeOK
  <1> QED
    BY <1>1, <1>2 DEF LocalType

LEMMA HeldStep ==
    ASSUME TypeOK, SoloInv, HeldInv, NEW g \in Gens, LoopStep(g) PROVE HeldInv'
  <1>1. \A i \in Gens \ {g} : pc'[i] = pc[i] /\ loc'[i] = loc[i]
    BY OthersStay
  <1>2. overlapped => overlapped'
    BY OthersStay
  <1>3. /\ pc \in [Gens -> PCs] /\ loc \in [Gens -> LocalType] /\ loc[g] \in LocalType
    BY DEF TypeOK
  <1>4. lastFrame' = lastFrame \/ StoreLast(g)
    BY DEF LoopStep, Begin, ShotFails, ShotReturns, WriteJPEG, EnsureWriter, Spawn,
       SpawnFails, CheckWriter, WriteVideo, CloseReads, CloseClears, Record, TimerFires,
       Stop
  <1>5. ASSUME NEW i \in Gens \ {g}
        PROVE  /\ pc'[i] = "store" => loc'[i].frame \in Frames
               /\ ~overlapped' /\ Holding(i)' =>
                      loc'[i].frame = lastFrame' /\ lastFrame' \in Frames
    <2>1. pc'[i] = pc[i] /\ loc'[i] = loc[i]
      BY <1>1
    <2>2. Holding(i)' <=> Holding(i)
      BY <2>1 DEF Holding
    <2>3. ASSUME ~overlapped, Holding(i) PROVE lastFrame' = lastFrame
      <3>1. Active(i)
        BY <2>3 DEF Holding, Active
      <3>2. ~Active(g)
        BY <2>3, <3>1 DEF SoloInv, OneActive
      <3> QED
        BY <1>4, <3>2 DEF StoreLast, Active
    <2> QED
      BY <1>2, <2>1, <2>2, <2>3 DEF HeldInv
  <1>6. /\ pc'[g] = "store" => loc'[g].frame \in Frames
        /\ ~overlapped' /\ Holding(g)' => loc'[g].frame = lastFrame' /\ lastFrame' \in Frames
    <2>1. CASE Begin(g) \/ Stop(g)
      <3>1. \/ pc'[g] = "shot"
            \/ pc'[g] = "closing" /\ loc'[g].ret \in {"record", "done"}
        BY <2>1, NoLocalsType, GotoIs, CallCloseIs DEF Begin, Stop
      <3> QED
        BY <3>1 DEF Holding
    <2>2. CASE \E f \in Frames : ShotReturns(g, f)
      <3>1. PICK f \in Frames : ShotReturns(g, f)
        BY <2>2
      <3>2. \/ pc'[g] = "record"
            \/ pc'[g] = "store" /\ loc'[g] = [loc[g] EXCEPT !.frame = f]
        BY <3>1, GotoIs DEF ShotReturns
      <3> QED
        BY <1>3, <3>2 DEF Holding, LocalType
    <2>3. CASE StoreLast(g)
      <3>1. loc[g].frame \in Frames /\ lastFrame' = loc[g].frame
        BY <2>3 DEF StoreLast, HeldInv
      <3>2. pc'[g] # "store" /\ loc'[g].frame = loc[g].frame
        <4>1. CASE loc[g].cfg.mode = "video"
          <5>1. pc'[g] = "ensure" /\ loc'[g] = [loc[g] EXCEPT !.hour = now]
            BY <2>3, <4>1, GotoIs DEF StoreLast
          <5> QED
            BY <1>3, <5>1 DEF LocalType
        <4>2. CASE loc[g].cfg.mode # "video"
          BY <1>3, <2>3, <4>2, CallCloseIs DEF StoreLast
        <4> QED
          BY <4>1, <4>2
      <3> QED
        BY <3>1, <3>2
    <2>4. CASE ShotFails(g) \/ WriteJPEG(g) \/ SpawnFails(g) \/ Record(g) \/ TimerFires(g)
      <3>1. pc'[g] \in {"record", "select", "top"}
        BY <2>4, GotoIs DEF ShotFails, WriteJPEG, SpawnFails, Record, TimerFires
      <3> QED
        BY <3>1 DEF Holding
    <2>5. CASE EnsureWriter(g) \/ Spawn(g) \/ CheckWriter(g)
      <3>1. Holding(g) /\ lastFrame' = lastFrame
        BY <2>5 DEF EnsureWriter, Spawn, CheckWriter, Holding
      <3>2. loc'[g].frame = loc[g].frame /\ pc'[g] # "store"
        <4>1. CASE EnsureWriter(g)
          <5>1. Goto(g, "check", loc[g]) \/ CallClose(g, loc[g], "spawn", FALSE)
            BY <4>1 DEF EnsureWriter
          <5>2. CASE Goto(g, "check", loc[g])
            BY <5>2, GotoIs
          <5>3. CASE CallClose(g, loc[g], "spawn", FALSE)
            BY <1>3, <5>3, CallCloseIs
          <5> QED
            BY <5>1, <5>2, <5>3
        <4>2. CASE Spawn(g)
          BY <4>2, GotoIs DEF Spawn
        <4>3. CASE CheckWriter(g)
          <5>1. \/ pc'[g] = "record" /\ loc'[g] = [loc[g] EXCEPT !.ok = FALSE]
                \/ pc'[g] = "write" /\ loc'[g] = [loc[g] EXCEPT !.w = vw]
            BY <4>3, GotoIs DEF CheckWriter
          <5> QED
            BY <1>3, <5>1 DEF LocalType
        <4> QED
          BY <2>5, <4>1, <4>2, <4>3
      <3> QED
        BY <1>2, <3>1, <3>2 DEF HeldInv
    <2>6. CASE WriteVideo(g)
      <3>1. \/ pc'[g] = "record"
            \/ pc'[g] = "closing" /\ loc'[g].ret = "record"
        <4>1. \/ Goto(g, "record", [loc[g] EXCEPT !.ok = TRUE])
              \/ CallClose(g, loc[g], "record", FALSE)
          BY <2>6 DEF WriteVideo
        <4>2. CASE Goto(g, "record", [loc[g] EXCEPT !.ok = TRUE])
          BY <4>2, GotoIs
        <4>3. CASE CallClose(g, loc[g], "record", FALSE)
          BY <1>3, <4>3, CallCloseIs
        <4> QED
          BY <4>1, <4>2, <4>3
      <3> QED
        BY <3>1 DEF Holding
    <2>7. CASE CloseReads(g) \/ CloseClears(g)
      <3>1. /\ \/ pc'[g] = "clear" /\ loc'[g].ret = loc[g].ret
               \/ pc'[g] = loc[g].ret
            /\ loc'[g].frame = loc[g].frame
        <4>1. CASE Return(g)
          BY <4>1, ReturnIs
        <4>2. CASE Goto(g, "clear", [loc[g] EXCEPT !.w = vw])
          <5>1. pc'[g] = "clear" /\ loc'[g] = [loc[g] EXCEPT !.w = vw]
            BY <4>2, GotoIs
          <5> QED
            BY <1>3, <5>1 DEF LocalType
        <4> QED
          BY <2>7, <4>1, <4>2 DEF CloseReads, CloseClears
      <3>2. loc[g].ret \in {"spawn", "jpeg", "record", "done"} /\ pc[g] \in {"closing", "clear"}
        BY <1>3, <2>7 DEF CloseReads, CloseClears, LocalType
      <3>3. (Holding(g)' => Holding(g)) /\ pc'[g] # "store"
        BY <3>1, <3>2 DEF Holding
      <3>4. lastFrame' = lastFrame
        BY <2>7 DEF CloseReads, CloseClears
      <3> QED
        BY <1>2, <3>1, <3>3, <3>4 DEF HeldInv
    <2> QED
      BY <2>1, <2>2, <2>3, <2>4, <2>5, <2>6, <2>7 DEF LoopStep
  <1> QED
    BY <1>5, <1>6 DEF HeldInv

LEMMA HeldLaunch ==
    ASSUME TypeOK, HeldInv, Launch, UNCHANGED <<lastFrame, overlapped>>
    PROVE  HeldInv'
  <1>1. \A g \in Gens : \/ pc'[g] = "top"
                        \/ pc'[g] = pc[g] /\ loc'[g] = loc[g]
    BY DEF Launch, TypeOK
  <1> QED
    BY <1>1 DEF HeldInv, Holding

LEMMA HeldInductive == Spec => []HeldInv
  <1>1. Init => HeldInv
    BY DEF Init, HeldInv, Holding
  <1>2. TypeOK /\ SoloInv /\ HeldInv /\ [Next]_vars => HeldInv'
    <2> SUFFICES ASSUME TypeOK, SoloInv, HeldInv, [Next]_vars PROVE HeldInv'
      OBVIOUS
    <2>1. CASE UNCHANGED <<pc, loc, lastFrame, overlapped>>
      BY <2>1 DEF HeldInv, Holding
    <2>2. CASE Start
      BY <2>2, HeldLaunch DEF Start
    <2>3. CASE Crash \/ Panic
      <3>1. \A g \in Gens : pc'[g] \in {"done", "none"}
        BY <2>3 DEF Crash, Panic
      <3> QED
        BY <3>1 DEF HeldInv, Holding
    <2>4. ASSUME NEW h \in Handlers, SaveStep(h) PROVE HeldInv'
      BY <2>1, <2>4, HeldLaunch
         DEF SaveStep, MarshalConfig, WriteConfig, WriteConfigFails, Restart
    <2>5. ASSUME NEW h \in Handlers, NEW c \in Configs, PostConfig(h, c)
          PROVE  HeldInv'
      BY <2>1, <2>5 DEF PostConfig
    <2>6. ASSUME NEW g \in Gens, LoopStep(g) PROVE HeldInv'
      BY <2>6, HeldStep
    <2>7. CASE HourPasses \/ \E w \in Writers : Finalize(w)
      BY <2>1, <2>7 DEF HourPasses, Finalize
    <2> QED
      BY <2>1, <2>2, <2>3, <2>4, <2>5, <2>6, <2>7 DEF Next, vars
  <1> QED
    BY <1>1, <1>2, TypeCorrect, SoloInductive, PTL DEF Spec

LEMMA FootageInit == Init => Store!Init
  <1> SUFFICES ASSUME Init PROVE Store!Init
    OBVIOUS
  <1>1. {whour[w] : w \in pipes} = {}
    BY DEF Init
  <1> QED
    BY <1>1 DEF Init, Store!Init

(* A crash, whatever happened before, is a restart. *)
LEMMA FootageCrash == ASSUME Crash PROVE Store!Next
  <1>1. {whour'[w] : w \in pipes'} = {}
    BY DEF Crash
  <1>2. Store!Restart
    BY <1>1 DEF Crash, Store!Restart, fileVars
  <1> QED
    BY <1>2 DEF Store!Next

(* A step of a loop that captures alone is a step of Footage. *)
LEMMA FootageLoop ==
    ASSUME TypeOK, SoloInv, HeldInv, NEW g \in Gens, LoopStep(g)
    PROVE  [Store!Next]_(Store!footageVars)
  <1>1. CASE overlapped'
    BY <1>1 DEF Store!Next, Store!Forfeit
  <1>2. CASE ~overlapped'
    <2>1. ~overlapped /\ overlapped = FALSE /\ overlapped' = FALSE
      BY <1>2, OthersStay DEF TypeOK, LoopStep, Begin, ShotFails, ShotReturns, StoreLast,
         WriteJPEG, EnsureWriter, Spawn, SpawnFails, CheckWriter, WriteVideo, CloseReads,
         CloseClears, Record, TimerFires, Stop
    <2>2. WriterInv /\ LoopKnows(g)
      BY <2>1 DEF SoloInv
    <2>3. CASE UNCHANGED <<pipes, whour, lastFrame, video, jpegs, overlapped>>
      BY <2>3 DEF Store!footageVars
    <2>4. CASE StoreLast(g)
      <3>1. lastFrame' \in Frames
        BY <2>4 DEF StoreLast, HeldInv
      <3>2. Store!Take
        BY <2>1, <2>4, <3>1 DEF StoreLast, ffmpegVars, fileVars, Store!Take, Store!Valid
      <3> QED
        BY <3>2 DEF Store!Next
    <2>5. CASE Spawn(g)
      <3>1. pipes = {} /\ loc[g].hour \in Hours
        BY <2>2, <2>5 DEF Spawn, LoopKnows, WriterInv, TypeOK, LocalType
      <3>2. PICK h \in Hours : h = loc[g].hour
        BY <3>1
      <3>3. pipes' = {spawned + 1} /\ whour'[spawned + 1] = h
        <4>1. spawned + 1 \in Writers
          BY <2>5, RecorderAssumption DEF Spawn, TypeOK, Writers
        <4> QED
          BY <2>5, <3>1, <3>2, <4>1 DEF Spawn, TypeOK
      <3>4. {whour[w] : w \in pipes} = {} /\ {whour'[w] : w \in pipes'} = {h}
        BY <3>1, <3>3
      <3>5. Store!Open(h)
        BY <2>1, <2>5, <3>2, <3>4 DEF Spawn, Store!Open, Store!Valid
      <3> QED
        BY <3>5 DEF Store!Next
    <2>6. CASE WriteVideo(g)
      <3>1. pipes = {vw} /\ vw # 0 /\ loc[g].w = vw /\ whour[vw] = loc[g].hour
        BY <2>2, <2>6 DEF WriteVideo, LoopKnows, WriterInv
      <3>2. loc[g].frame = lastFrame /\ lastFrame \in Frames /\ loc[g].hour \in Hours
        BY <2>1, <2>6 DEF WriteVideo, HeldInv, Holding, TypeOK, LocalType
      <3>3. {whour[w] : w \in pipes} = {loc[g].hour}
        BY <3>1
      <3>4. \/ video' = [video EXCEPT ![loc[g].hour] = @ \cup {lastFrame}]
            \/ video' = video
        BY <2>6, <3>1, <3>2 DEF WriteVideo
      <3>5. UNCHANGED <<pipes, whour, lastFrame, jpegs, overlapped>>
        BY <2>6 DEF WriteVideo, ffmpegVars
      <3>6. {whour'[w] : w \in pipes'} = {loc[g].hour}
        BY <3>3, <3>5
      <3>7. CASE video' = [video EXCEPT ![loc[g].hour] = @ \cup {lastFrame}]
        <4>1. Store!Extend(loc[g].hour)
          BY <2>1, <3>2, <3>3, <3>5, <3>6, <3>7 DEF Store!Extend, Store!Valid
        <4> QED
          BY <3>2, <4>1 DEF Store!Next
      <3> QED
        BY <2>3, <3>4, <3>5, <3>7
    <2>7. CASE WriteJPEG(g)
      <3>1. pipes = {} /\ loc[g].frame = lastFrame /\ lastFrame \in Frames /\ now \in Hours
        BY <2>1, <2>2, <2>7 DEF WriteJPEG, LoopKnows, WriterInv, HeldInv, Holding, TypeOK
      <3>2. UNCHANGED <<pipes, whour, lastFrame, video, overlapped>>
        BY <2>7 DEF WriteJPEG, ffmpegVars
      <3>3. {whour[w] : w \in pipes} = {} /\ {whour'[w] : w \in pipes'} = {}
        BY <3>1, <3>2
      <3>4. CASE jpegs' = [jpegs EXCEPT ![now] = @ \cup {lastFrame}]
        <4>1. Store!Picture(now)
          BY <2>1, <3>1, <3>2, <3>3, <3>4 DEF Store!Picture, Store!Valid
        <4> QED
          BY <3>1, <4>1 DEF Store!Next
      <3>5. CASE jpegs' = jpegs
        BY <2>3, <3>2, <3>5
      <3> QED
        BY <2>7, <3>1, <3>4, <3>5 DEF WriteJPEG
    <2>8. CASE CloseClears(g)
      <3>1. pipes' = {}
        BY <2>2, <2>8 DEF CloseClears, LoopKnows, WriterInv
      <3>2. {whour'[w] : w \in pipes'} = {}
        BY <3>1
      <3>3. Store!Close
        BY <2>1, <2>8, <3>2 DEF CloseClears, fileVars, Store!Close, Store!Valid
      <3> QED
        BY <3>3 DEF Store!Next
    <2>9. CASE Begin(g) \/ ShotFails(g) \/ (\E f \in Frames : ShotReturns(g, f))
               \/ EnsureWriter(g) \/ SpawnFails(g) \/ CheckWriter(g) \/ CloseReads(g)
               \/ Record(g) \/ TimerFires(g) \/ Stop(g)
      <3>1. UNCHANGED <<ffmpegVars, lastFrame, fileVars>>
        BY <2>9 DEF Begin, ShotFails, ShotReturns, EnsureWriter, SpawnFails, CheckWriter,
           CloseReads, Record, TimerFires, Stop
      <3> QED
        BY <2>1, <2>3, <3>1 DEF ffmpegVars, fileVars
    <2> QED
      BY <2>4, <2>5, <2>6, <2>7, <2>8, <2>9 DEF LoopStep
  <1> QED
    BY <1>1, <1>2

(* As long as no two captures meet, the recorder with its loops, pipes and *)
(* processes does what Footage says, step by step.                         *)
THEOREM RecorderImplementsFootage == Spec => FootageProvided
  <1>1. TypeOK /\ SoloInv /\ HeldInv /\ [Next]_vars => [Store!Next]_(Store!footageVars)
    <2> SUFFICES ASSUME TypeOK, SoloInv, HeldInv, [Next]_vars
                 PROVE  [Store!Next]_(Store!footageVars)
      OBVIOUS
    <2>1. CASE UNCHANGED <<pipes, whour, lastFrame, video, jpegs, overlapped>>
      BY <2>1 DEF Store!footageVars
    <2>2. CASE Crash \/ Panic
      BY <2>2, FootageCrash DEF Panic
    <2>3. ASSUME NEW g \in Gens, LoopStep(g) PROVE [Store!Next]_(Store!footageVars)
      BY <2>3, FootageLoop
    <2>4. ASSUME NEW w \in Writers, Finalize(w) PROVE [Store!Next]_(Store!footageVars)
      <3>1. overlapped
        BY <2>4 DEF Finalize, SoloInv, WriterInv
      <3>2. overlapped' = TRUE
        BY <2>4, <3>1 DEF Finalize, TypeOK
      <3> QED
        BY <3>2 DEF Store!Next, Store!Forfeit
    <2>5. CASE Start \/ HourPasses
      BY <2>1, <2>5 DEF Start, HourPasses, ffmpegVars, fileVars
    <2>6. CASE \E h \in Handlers : SaveStep(h) \/ \E c \in Configs : PostConfig(h, c)
      BY <2>1, <2>6 DEF SaveStep, MarshalConfig, WriteConfig, WriteConfigFails, Restart,
         PostConfig, ffmpegVars, fileVars
    <2>7. CASE UNCHANGED vars
      BY <2>1, <2>7 DEF vars, ffmpegVars, fileVars
    <2> QED
      BY <2>2, <2>3, <2>4, <2>5, <2>6, <2>7 DEF Next
  <1> QED
    BY <1>1, FootageInit, TypeCorrect, SoloInductive, HeldInductive, PTL
    DEF Spec, FootageProvided, Store!Spec
=============================================================================
