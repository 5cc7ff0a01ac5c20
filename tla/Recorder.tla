------------------------------ MODULE Recorder ------------------------------
(***************************************************************************)
(* The recorder of internal/server/recording.go: capture loops that take   *)
(* screenshots and store them as JPEG files or pipe them into an ffmpeg    *)
(* process per hour, and the HTTP handler that replaces the configuration, *)
(* saves it and restarts the loops.                                        *)
(*                                                                         *)
(* Restart closes the stop channel of the running loop and launches a new  *)
(* loop without waiting for the old one, so several loops can be alive.    *)
(* r.vw and r.lastFrame are shared by them and not protected by r.mu: each *)
(* read and each write of them is a step of its own here.                  *)
(***************************************************************************)
EXTENDS Naturals, FiniteSets

CONSTANTS
    Frames,      \* screen contents, up to framesAreSimilar
    Undecoded,   \* those that are no JPEG image framesAreSimilar can decode
    NoFrame,     \* r.lastFrame = nil
    Configs,     \* configurations a client may POST
    Default,     \* defaultRecordingConfig()
    Torn,        \* a config file cut short by a crash or by two writers
    Handlers,    \* HTTP requests in flight at a time
    MaxGen,      \* bound: capture loops launched
    MaxSegs,     \* bound: ffmpeg processes spawned
    MaxHour      \* bound: the clock, in hours

Hours   == 0 .. MaxHour
Gens    == 1 .. MaxGen
Writers == 1 .. MaxSegs

(* What a loop reads of RecordingConfig. "hours" is the schedule: Days,    *)
(* StartHour and EndHour as the set of hours they select.                  *)
ConfigType == [enabled : BOOLEAN, mode : {"video", "jpeg"},
               skip : BOOLEAN, hours : SUBSET Hours]

ASSUME RecorderAssumption ==
    /\ MaxGen \in Nat /\ MaxSegs \in Nat /\ MaxHour \in Nat
    /\ Configs \subseteq ConfigType
    /\ Default \in ConfigType
    /\ NoFrame \notin Frames /\ Undecoded \subseteq Frames
    /\ Torn \notin ConfigType

VARIABLES
    cfg,           \* r.cfg
    disk,          \* the file at r.cfgPath
    hpc,           \* per request: what HandleConfig does next
    hbuf,          \* per request: the bytes saveConfig marshalled
    stopCh,        \* the loop whose channel is r.stopCh, 0 when nil
    closed,        \* the loops whose stop channel is closed
    gens,          \* loops launched so far
    pc,            \* per loop: what it does next
    loc,           \* per loop: its local variables
    vw,            \* r.vw, 0 when nil
    spawned,       \* ffmpeg processes spawned so far
    pipes,         \* ffmpeg processes whose stdin is open
    reaped,        \* ffmpeg processes closeVideoWriter waits for
    whour,         \* per ffmpeg process: the hour of its segment
    lastFrame,     \* r.lastFrame
    lastCaptured,  \* r.lastCaptured
    video,         \* per hour: the frames in its segment file
    jpegs,         \* per hour: the frames in JPEG files
    now,           \* the wall clock, in hours
    overlapped,    \* history: two loops were inside an iteration at once
    contended      \* history: two requests overlapped, or a save failed

confVars  == <<disk, hpc, hbuf, contended>>
loopVars  == <<stopCh, closed, gens>>
ffmpegVars == <<spawned, pipes, reaped, whour>>
fileVars  == <<video, jpegs>>
vars == <<cfg, confVars, loopVars, pc, loc, vw, ffmpegVars, lastFrame,
          lastCaptured, fileVars, now, overlapped>>

NoLocals == [cfg |-> Default, frame |-> NoFrame, hour |-> 0, w |-> 0,
             ok |-> FALSE, ret |-> "record"]

LocalType == [cfg : ConfigType, frame : Frames \cup {NoFrame}, hour : Hours,
              w : 0 .. MaxSegs, ok : BOOLEAN,
              ret : {"spawn", "jpeg", "record", "done"}]

PCs == {"none", "top", "shot", "store", "ensure", "closing", "clear", "spawn",
        "check", "write", "jpeg", "record", "select", "done"}

Init ==
    /\ disk \in Configs \cup {Default}
    /\ cfg = disk
    /\ hpc = [h \in Handlers |-> "idle"]
    /\ hbuf = [h \in Handlers |-> Default]
    /\ stopCh = 0 /\ closed = {} /\ gens = 0
    /\ pc = [g \in Gens |-> "none"]
    /\ loc = [g \in Gens |-> NoLocals]
    /\ vw = 0 /\ spawned = 0 /\ pipes = {} /\ reaped = {}
    /\ whour = [w \in Writers |-> 0]
    /\ lastFrame = NoFrame /\ lastCaptured = FALSE
    /\ video = [h \in Hours |-> {}]
    /\ jpegs = [h \in Hours |-> {}]
    /\ now \in Hours
    /\ overlapped = FALSE /\ contended = FALSE

-----------------------------------------------------------------------------
(* Lifecycle: Start, Restart, the process dying and coming back.           *)

(* Mutant: the old channel is not closed. *)
LaunchKeepsOld ==
    /\ gens < MaxGen /\ gens' = gens + 1
    /\ stopCh' = gens + 1 /\ closed' = closed
    /\ pc' = [pc EXCEPT ![gens + 1] = "top"]
    /\ loc' = [loc EXCEPT ![gens + 1] = NoLocals]

(* The body Start and Restart share: close the old channel, make a new one *)
(* and run captureLoop on it.                                              *)
Launch ==
    /\ gens < MaxGen
    /\ gens' = gens + 1
    /\ stopCh' = gens + 1
    /\ closed' = closed \cup ({stopCh} \ {0})
    /\ pc' = [pc EXCEPT ![gens + 1] = "top"]
    /\ loc' = [loc EXCEPT ![gens + 1] = NoLocals]

Start ==
    /\ stopCh = 0
    /\ Launch
    /\ UNCHANGED <<cfg, confVars, vw, ffmpegVars, lastFrame, lastCaptured,
                   fileVars, now, overlapped>>

(* Mutant: the file is used as it is. *)
LoadUnchecked(file) == file

(* loadConfig: a missing or malformed file gives the defaults.             *)
Load(file) == IF file = Torn THEN Default ELSE file

(* The process dies: every goroutine is gone, the pipes reach end of file  *)
(* and NewRecorder loads what the disk holds. os.WriteFile truncates       *)
(* before it writes, so a save under way may leave a torn file.            *)
Crash ==
    /\ stopCh # 0
    /\ disk' \in {disk} \cup {Torn : h \in {i \in Handlers : hpc[i] = "write"}}
    /\ cfg' = Load(disk')
    /\ hpc' = [h \in Handlers |-> "idle"]
    /\ hbuf' = [h \in Handlers |-> Default]
    /\ stopCh' = 0 /\ closed' = 1 .. gens /\ gens' = gens
    /\ pc' = [g \in Gens |-> IF g <= gens THEN "done" ELSE "none"]
    /\ loc' = [g \in Gens |-> NoLocals]
    /\ vw' = 0 /\ pipes' = {} /\ reaped' = 1 .. spawned
    /\ UNCHANGED <<spawned, whour>>
    /\ lastFrame' = NoFrame /\ lastCaptured' = FALSE
    /\ overlapped' = FALSE /\ contended' = FALSE
    /\ UNCHANGED <<fileVars, now>>
-----------------------------------------------------------------------------
(* HandleConfig, POST: set r.cfg under the lock, save it without the lock, *)
(* restart the loops. Each is a step, so two requests interleave.          *)

Busy(h) == hpc[h] # "idle"

(* A body that does not decode changes nothing and is not modelled. The    *)
(* second conjunct leaves a loop to launch for every request in flight.    *)
PostConfig(h, c) ==
    /\ stopCh # 0 /\ ~Busy(h)
    /\ gens + Cardinality({i \in Handlers : Busy(i)}) < MaxGen
    /\ cfg' = c
    /\ hpc' = [hpc EXCEPT ![h] = "marshal"]
    /\ contended' = (contended \/ \E i \in Handlers : Busy(i))
    /\ UNCHANGED <<disk, hbuf, loopVars, pc, loc, vw, ffmpegVars, lastFrame,
                   lastCaptured, fileVars, now, overlapped>>

(* Mutant: HandleConfig restarts without saving. *)
MarshalSkipped(h) ==
    /\ hpc[h] = "marshal"
    /\ hpc' = [hpc EXCEPT ![h] = "restart"]
    /\ UNCHANGED <<cfg, disk, hbuf, contended, loopVars, pc, loc, vw, ffmpegVars,
                   lastFrame, lastCaptured, fileVars, now, overlapped>>

(* saveConfig marshals r.cfg as it is now, without r.mu. *)
MarshalConfig(h) ==
    /\ hpc[h] = "marshal"
    /\ hbuf' = [hbuf EXCEPT ![h] = cfg]
    /\ hpc' = [hpc EXCEPT ![h] = "write"]
    /\ UNCHANGED <<cfg, disk, contended, loopVars, pc, loc, vw, ffmpegVars,
                   lastFrame, lastCaptured, fileVars, now, overlapped>>

(* os.WriteFile. Two writers at once may leave a mix of the two. *)
WriteConfig(h) ==
    /\ hpc[h] = "write"
    /\ \/ disk' = hbuf[h]
       \/ /\ \E i \in Handlers \ {h} : hpc[i] = "write"
          /\ disk' = Torn
    /\ hpc' = [hpc EXCEPT ![h] = "restart"]
    /\ UNCHANGED <<cfg, hbuf, contended, loopVars, pc, loc, vw, ffmpegVars,
                   lastFrame, lastCaptured, fileVars, now, overlapped>>

(* The write fails: HandleConfig answers 500 and does not restart. The     *)
(* file may already be truncated.                                          *)
WriteConfigFails(h) ==
    /\ hpc[h] = "write"
    /\ disk' \in {disk, Torn}
    /\ hpc' = [hpc EXCEPT ![h] = "idle"]
    /\ contended' = TRUE
    /\ UNCHANGED <<cfg, hbuf, loopVars, pc, loc, vw, ffmpegVars, lastFrame,
                   lastCaptured, fileVars, now, overlapped>>

Restart(h) ==
    /\ hpc[h] = "restart"
    /\ Launch
    /\ hpc' = [hpc EXCEPT ![h] = "idle"]
    /\ UNCHANGED <<cfg, disk, hbuf, contended, vw, ffmpegVars, lastFrame,
                   lastCaptured, fileVars, now, overlapped>>

-----------------------------------------------------------------------------
(* captureLoop(stop). The actions of loop g, in program order.             *)

(* Inside an iteration, or in the deferred closeVideoWriter. *)
Active(g) == pc[g] \notin {"none", "top", "select", "done"}

Overlaps(g) == \E i \in Gens \ {g} : Active(i)

InSchedule(c) == now \in c.hours

(* g goes to "to", its locals becoming l. *)
Goto(g, to, l) == /\ pc' = [pc EXCEPT ![g] = to]
                  /\ loc' = [loc EXCEPT ![g] = l]

(* Call closeVideoWriter and continue at ret with the result ok. *)
CallClose(g, l, ret, ok) == Goto(g, "closing", [l EXCEPT !.ret = ret, !.ok = ok])

(* Mutant: outside the schedule the writer is left open. *)
BeginLeavesOpen(g) ==
    /\ pc[g] = "top"
    /\ overlapped' = (overlapped \/ Overlaps(g))
    /\ IF cfg.enabled /\ InSchedule(cfg)
       THEN Goto(g, "shot", [NoLocals EXCEPT !.cfg = cfg])
       ELSE Goto(g, "record", NoLocals)
    /\ UNCHANGED <<cfg, confVars, loopVars, vw, ffmpegVars, lastFrame,
                   lastCaptured, fileVars, now>>

(* A snapshot of r.cfg and of the clock decides the iteration: capture, or *)
(* close the writer and record that nothing was captured.                  *)
Begin(g) ==
    /\ pc[g] = "top"
    /\ overlapped' = (overlapped \/ Overlaps(g))
    /\ IF cfg.enabled /\ InSchedule(cfg)
       THEN Goto(g, "shot", [NoLocals EXCEPT !.cfg = cfg])
       ELSE CallClose(g, NoLocals, "record", FALSE)
    /\ UNCHANGED <<cfg, confVars, loopVars, vw, ffmpegVars, lastFrame,
                   lastCaptured, fileVars, now>>

(* captureFrame has no usable frame: no client, an error, no signal, or    *)
(* data that is not a JPEG.                                                *)
ShotFails(g) ==
    /\ pc[g] = "shot"
    /\ Goto(g, "record", [loc[g] EXCEPT !.ok = FALSE])
    /\ UNCHANGED <<cfg, confVars, loopVars, vw, ffmpegVars, lastFrame,
                   lastCaptured, fileVars, now, overlapped>>

(* framesAreSimilar: what does not decode is like nothing, not even itself. *)
Similar(f, g) == f = g /\ f \notin Undecoded

(* A frame arrives and is compared with r.lastFrame: an unchanged one is a *)
(* success with nothing to write.                                          *)
ShotReturns(g, f) ==
    /\ pc[g] = "shot"
    /\ IF loc[g].cfg.skip /\ lastFrame # NoFrame /\ Similar(lastFrame, f)
       THEN Goto(g, "record", [loc[g] EXCEPT !.ok = TRUE])
       ELSE Goto(g, "store", [loc[g] EXCEPT !.frame = f])
    /\ UNCHANGED <<cfg, confVars, loopVars, vw, ffmpegVars, lastFrame,
                   lastCaptured, fileVars, now, overlapped>>

(* Mutant: writeJPEGFrame does not close the writer. *)
StoreLeavesOpen(g) ==
    /\ pc[g] = "store"
    /\ lastFrame' = loc[g].frame
    /\ Goto(g, IF loc[g].cfg.mode = "video" THEN "ensure" ELSE "jpeg",
            [loc[g] EXCEPT !.hour = now])
    /\ UNCHANGED <<cfg, confVars, loopVars, vw, ffmpegVars, lastCaptured,
                   fileVars, now, overlapped>>

(* Mutant: only a frame for the video becomes r.lastFrame. *)
StoreVideoOnly(g) ==
    /\ pc[g] = "store"
    /\ IF loc[g].cfg.mode = "video"
       THEN /\ lastFrame' = loc[g].frame
            /\ Goto(g, "ensure", [loc[g] EXCEPT !.hour = now])
       ELSE /\ CallClose(g, loc[g], "jpeg", FALSE)
            /\ UNCHANGED lastFrame
    /\ UNCHANGED <<cfg, confVars, loopVars, vw, ffmpegVars, lastCaptured,
                   fileVars, now, overlapped>>

(* r.lastFrame = data, before anything is written. *)
StoreLast(g) ==
    /\ pc[g] = "store"
    /\ lastFrame' = loc[g].frame
    /\ IF loc[g].cfg.mode = "video"
       THEN Goto(g, "ensure", [loc[g] EXCEPT !.hour = now])
       ELSE CallClose(g, loc[g], "jpeg", FALSE)
    /\ UNCHANGED <<cfg, confVars, loopVars, vw, ffmpegVars, lastCaptured,
                   fileVars, now, overlapped>>

(* writeJPEGFrame after its closeVideoWriter; the file name has the time   *)
(* of the write.                                                           *)
WriteJPEG(g) ==
    /\ pc[g] = "jpeg"
    /\ \/ /\ jpegs' = [jpegs EXCEPT ![now] = @ \cup {loc[g].frame}]
          /\ Goto(g, "record", [loc[g] EXCEPT !.ok = TRUE])
       \/ /\ Goto(g, "record", [loc[g] EXCEPT !.ok = FALSE])
          /\ UNCHANGED jpegs
    /\ UNCHANGED <<cfg, confVars, loopVars, vw, ffmpegVars, lastFrame,
                   lastCaptured, video, now, overlapped>>

(* Mutants: a rotation that does not close the old writer, and an open     *)
(* writer that is kept whatever its hour.                                  *)
EnsureLeavesOpen(g) ==
    /\ pc[g] = "ensure"
    /\ Goto(g, IF vw # 0 /\ whour[vw] = loc[g].hour THEN "check" ELSE "spawn", loc[g])
    /\ UNCHANGED <<cfg, confVars, loopVars, vw, ffmpegVars, lastFrame,
                   lastCaptured, fileVars, now, overlapped>>

EnsureAnyHour(g) ==
    /\ pc[g] = "ensure"
    /\ Goto(g, IF vw # 0 THEN "check" ELSE "spawn", loc[g])
    /\ UNCHANGED <<cfg, confVars, loopVars, vw, ffmpegVars, lastFrame,
                   lastCaptured, fileVars, now, overlapped>>

(* ensureVideoWriter: keep the writer of this hour, else close what is     *)
(* open and spawn another.                                                 *)
EnsureWriter(g) ==
    /\ pc[g] = "ensure"
    /\ IF vw # 0 /\ whour[vw] = loc[g].hour
       THEN Goto(g, "check", loc[g])
       ELSE CallClose(g, loc[g], "spawn", FALSE)
    /\ UNCHANGED <<cfg, confVars, loopVars, vw, ffmpegVars, lastFrame,
                   lastCaptured, fileVars, now, overlapped>>

(* cmd.Start and r.vw = ...; ffmpeg -y truncates the segment of the hour.  *)
Spawn(g) ==
    /\ pc[g] = "spawn"
    /\ spawned < MaxSegs
    /\ LET w == spawned + 1 IN
       /\ spawned' = w
       /\ pipes' = pipes \cup {w}
       /\ whour' = [whour EXCEPT ![w] = loc[g].hour]
       /\ vw' = w
    /\ video' = [video EXCEPT ![loc[g].hour] = {}]
    /\ Goto(g, "check", loc[g])
    /\ UNCHANGED <<cfg, confVars, loopVars, reaped, lastFrame, lastCaptured,
                   jpegs, now, overlapped>>

(* mkdir, the pipe or cmd.Start fails. *)
SpawnFails(g) ==
    /\ pc[g] = "spawn"
    /\ Goto(g, "record", [loc[g] EXCEPT !.ok = FALSE])
    /\ UNCHANGED <<cfg, confVars, loopVars, vw, ffmpegVars, lastFrame,
                   lastCaptured, fileVars, now, overlapped>>

(* if r.vw == nil { return false } *)
CheckWriter(g) ==
    /\ pc[g] = "check"
    /\ IF vw = 0
       THEN Goto(g, "record", [loc[g] EXCEPT !.ok = FALSE])
       ELSE Goto(g, "write", [loc[g] EXCEPT !.w = vw])
    /\ UNCHANGED <<cfg, confVars, loopVars, vw, ffmpegVars, lastFrame,
                   lastCaptured, fileVars, now, overlapped>>

(* r.vw.stdin.Write(data): r.vw is read again, or the build reuses what    *)
(* the nil check read.                                                     *)
WriteVideo(g) ==
    /\ pc[g] = "write"
    /\ \E w \in {loc[g].w, vw} \ {0} :
       \/ /\ w \in pipes
          /\ video' = [video EXCEPT ![whour[w]] = @ \cup {loc[g].frame}]
          /\ Goto(g, "record", [loc[g] EXCEPT !.ok = TRUE])
       \/ /\ CallClose(g, loc[g], "record", FALSE)
          /\ UNCHANGED video
    /\ UNCHANGED <<cfg, confVars, loopVars, vw, ffmpegVars, lastFrame,
                   lastCaptured, jpegs, now, overlapped>>

(* closeVideoWriter returns to its caller. *)
Return(g) == Goto(g, loc[g].ret, [loc[g] EXCEPT !.w = 0, !.ret = "record"])

(* Mutant: the pipe is closed before r.vw is cleared. *)
CloseBeforeClear(g) ==
    /\ pc[g] = "closing"
    /\ IF vw = 0
       THEN Return(g) /\ UNCHANGED pipes
       ELSE Goto(g, "clear", [loc[g] EXCEPT !.w = vw]) /\ pipes' = pipes \ {vw}
    /\ UNCHANGED <<cfg, confVars, loopVars, vw, spawned, reaped, whour, lastFrame,
                   lastCaptured, fileVars, now, overlapped>>

(* closeVideoWriter reads r.vw ... *)
CloseReads(g) ==
    /\ pc[g] = "closing"
    /\ IF vw = 0
       THEN Return(g)
       ELSE Goto(g, "clear", [loc[g] EXCEPT !.w = vw])
    /\ UNCHANGED <<cfg, confVars, loopVars, vw, ffmpegVars, lastFrame,
                   lastCaptured, fileVars, now, overlapped>>

(* Mutant: nobody waits for ffmpeg. *)
CloseNeverWaits(g) ==
    /\ pc[g] = "clear"
    /\ vw' = 0
    /\ pipes' = pipes \ {loc[g].w}
    /\ Return(g)
    /\ UNCHANGED <<cfg, confVars, loopVars, spawned, reaped, whour, lastFrame,
                   lastCaptured, fileVars, now, overlapped>>

(* ... and then clears it, closes the pipe it read and waits for ffmpeg in *)
(* a goroutine.                                                            *)
CloseClears(g) ==
    /\ pc[g] = "clear"
    /\ vw' = 0
    /\ pipes' = pipes \ {loc[g].w}
    /\ reaped' = reaped \cup {loc[g].w}
    /\ Return(g)
    /\ UNCHANGED <<cfg, confVars, loopVars, spawned, whour, lastFrame,
                   lastCaptured, fileVars, now, overlapped>>

(* r.lastCaptured = ok under the lock, then the select. *)
Record(g) ==
    /\ pc[g] = "record"
    /\ lastCaptured' = loc[g].ok
    /\ Goto(g, "select", NoLocals)
    /\ UNCHANGED <<cfg, confVars, loopVars, vw, ffmpegVars, lastFrame,
                   fileVars, now, overlapped>>

(* Mutant: the select does not watch the stop channel. *)
TimerIgnoresStop(g) ==
    /\ pc[g] = "select"
    /\ Goto(g, "top", NoLocals)
    /\ UNCHANGED <<cfg, confVars, loopVars, vw, ffmpegVars, lastFrame,
                   lastCaptured, fileVars, now, overlapped>>

(* time.After fires before the stop channel is closed. *)
TimerFires(g) ==
    /\ pc[g] = "select" /\ g \notin closed
    /\ Goto(g, "top", NoLocals)
    /\ UNCHANGED <<cfg, confVars, loopVars, vw, ffmpegVars, lastFrame,
                   lastCaptured, fileVars, now, overlapped>>

(* The stop channel is closed: return, through the deferred                *)
(* closeVideoWriter.                                                       *)
Stop(g) ==
    /\ pc[g] = "select" /\ g \in closed
    /\ overlapped' = (overlapped \/ Overlaps(g))
    /\ CallClose(g, NoLocals, "done", FALSE)
    /\ UNCHANGED <<cfg, confVars, loopVars, vw, ffmpegVars, lastFrame,
                   lastCaptured, fileVars, now>>

-----------------------------------------------------------------------------
(* The environment.                                                        *)

(* A write through a nil r.vw panics and takes the process down; so does   *)
(* closeVideoWriter when its second read of r.vw gives nil.                *)
Panic == /\ \E g \in Gens : pc[g] \in {"write", "clear"} /\ vw = 0
         /\ Crash

(* Go's runtime closes a pipe nothing refers to any more; nobody waits for *)
(* that ffmpeg.                                                            *)
Finalize(w) ==
    /\ w \in pipes /\ w # vw
    /\ \A g \in Gens : loc[g].w # w
    /\ pipes' = pipes \ {w}
    /\ UNCHANGED <<cfg, confVars, loopVars, pc, loc, vw, spawned, reaped, whour,
                   lastFrame, lastCaptured, fileVars, now, overlapped>>

HourPasses ==
    /\ now < MaxHour
    /\ now' = now + 1
    /\ UNCHANGED <<cfg, confVars, loopVars, pc, loc, vw, ffmpegVars, lastFrame,
                   lastCaptured, fileVars, overlapped>>

LoopStep(g) ==
    \/ Begin(g) \/ ShotFails(g) \/ StoreLast(g) \/ WriteJPEG(g)
    \/ EnsureWriter(g) \/ Spawn(g) \/ SpawnFails(g) \/ CheckWriter(g)
    \/ WriteVideo(g) \/ CloseReads(g) \/ CloseClears(g) \/ Record(g)
    \/ TimerFires(g) \/ Stop(g)
    \/ \E f \in Frames : ShotReturns(g, f)

SaveStep(h) == \/ MarshalConfig(h) \/ WriteConfig(h) \/ WriteConfigFails(h)
               \/ Restart(h)

Next ==
    \/ Start
    \/ Crash
    \/ Panic
    \/ \E h \in Handlers : SaveStep(h) \/ \E c \in Configs : PostConfig(h, c)
    \/ \E g \in Gens : LoopStep(g)
    \/ \E w \in Writers : Finalize(w)
    \/ HourPasses

Spec == Init /\ [][Next]_vars

(* Goroutines that can run do run, and every call they make returns:       *)
(* Screenshot under its 12 s context, ffmpeg's pipe and the disk.          *)
Fairness ==
    /\ WF_vars(Start)
    /\ \A h \in Handlers : WF_vars(SaveStep(h))
    /\ \A g \in Gens : WF_vars(LoopStep(g))

FairSpec == Spec /\ Fairness
-----------------------------------------------------------------------------
(* Properties.                                                             *)

(* Type invariant. *)
TypeOK ==
    /\ cfg \in ConfigType
    /\ disk \in ConfigType \cup {Torn}
    /\ hpc \in [Handlers -> {"idle", "marshal", "write", "restart"}]
    /\ hbuf \in [Handlers -> ConfigType]
    /\ gens \in 0 .. MaxGen /\ stopCh \in {0, gens} /\ closed \subseteq 1 .. gens
    /\ pc \in [Gens -> PCs] /\ loc \in [Gens -> LocalType]
    /\ spawned \in 0 .. MaxSegs /\ vw \in 0 .. MaxSegs
    /\ pipes \subseteq Writers /\ reaped \subseteq 0 .. MaxSegs
    /\ whour \in [Writers -> Hours]
    /\ lastFrame \in Frames \cup {NoFrame} /\ lastCaptured \in BOOLEAN
    /\ video \in [Hours -> SUBSET (Frames \cup {NoFrame})]
    /\ jpegs \in [Hours -> SUBSET (Frames \cup {NoFrame})]
    /\ now \in Hours
    /\ overlapped \in BOOLEAN /\ contended \in BOOLEAN

(* However requests and crashes interleave, at most one loop keeps going:  *)
(* the stop channel of every other loop is closed (Start, Restart).        *)
OneLiveLoop ==
    \A g \in Gens : pc[g] \notin {"none", "done"} => g \in closed \/ g = stopCh

(* However loops overlap, r.vw refers to no ffmpeg whose pipe was closed   *)
(* or that was waited for: overlapping loops can lose a writer, never keep *)
(* one to which every later write fails (ensureVideoWriter reuses r.vw for *)
(* an hour, closeVideoWriter clears it whatever it refers to by then).     *)
WriterUsable == vw # 0 => vw \in pipes /\ vw \notin reaped

(* As long as no two loops were inside an iteration at once, the open      *)
(* ffmpeg is the one r.vw refers to: none is orphaned by a rotation, a     *)
(* write error, a mode change or a restart.                                *)
SingleWriter == ~overlapped => pipes = {vw} \ {0}

(* Under the same condition every ffmpeg spawned is either open or waited  *)
(* for: closeVideoWriter leaves no zombie.                                 *)
FfmpegReaped == ~overlapped => 1 .. spawned = pipes \cup reaped

(* Under the same condition a frame goes to the writer of the hour it was  *)
(* taken in, and r.vw is not nil when writeVideoFrame dereferences it.     *)
FrameInItsHour ==
    ~overlapped => \A g \in Gens : pc[g] = "write" =>
        vw # 0 /\ loc[g].w = vw /\ whour[vw] = loc[g].hour

(* Under the same condition no ffmpeg runs when a JPEG is written.         *)
JpegAlone == ~overlapped => \A g \in Gens : pc[g] = "jpeg" => pipes = {}

(* Under the same condition the recorder is one that captures one frame at *)
(* a time: what goes into a segment, or a picture, is what r.lastFrame     *)
(* holds, it goes into the segment of the only ffmpeg, and a segment is    *)
(* truncated only when it is opened while none is.                         *)
Store == INSTANCE Footage WITH
    open   <- {whour[w] : w \in pipes},
    latest <- lastFrame,
    void   <- overlapped

FootageProvided == Store!Spec

(* Requests that do not overlap and are saved leave a file from which a    *)
(* restart of the process reads the configuration in effect.               *)
ConfigPersisted ==
    ~contended /\ (\A h \in Handlers : ~Busy(h)) => Load(disk) = cfg

(* A loop that Restart stopped does end, through its deferred close.       *)
StoppedLoopsExit ==
    \A g \in Gens : (g \in closed) ~> (pc[g] = "done")

(* Once recording stays disabled, the recorder settles: no writer is left  *)
(* and the status says that nothing is captured, whatever loops were still *)
(* in the middle of a capture.                                             *)
DisabledSettles == <>[](~cfg.enabled) => <>[](vw = 0 /\ ~lastCaptured)

-----------------------------------------------------------------------------
(* What comments of the code say, and the code does not always do.         *)

(* "Fragmented MP4: playable immediately, grows as frames arrive": the     *)
(* segment of an hour only grows.                                          *)
SegmentsGrow == [][\A h \in Hours : video[h] \subseteq video'[h]]_vars

(* Status().Recording *)
StatusRecording == cfg.enabled /\ InSchedule(cfg) /\ lastCaptured

(* "actually writing frames right now": between iterations, a recorder     *)
(* that says so has stored the last frame it captured.                     *)
RecordingMeansStored ==
    StatusRecording /\ (\A g \in Gens : ~Active(g)) =>
        \E h \in Hours : lastFrame \in video[h] \cup jpegs[h]

(* "ensure no lingering ffmpeg process" *)
NoLingeringFfmpeg == \A g \in Gens : pc[g] = "jpeg" => pipes = {}
=============================================================================
