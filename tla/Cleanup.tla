------------------------------- MODULE Cleanup -------------------------------
(***************************************************************************)
(* The cleanup loops of internal/server/recording.go. Each Start and each  *)
(* Restart launches one beside the capture loop, on the same stop channel; *)
(* it runs runCleanup at once and then every hour. A loop that is stopped  *)
(* finishes the run it is in, so that runs of several loops meet: they     *)
(* share nothing but the files, which the recorder writes meanwhile.       *)
(*                                                                         *)
(* Time is counted in half days, so that the local clock and the UTC dates *)
(* time.Parse makes of the directory names can be apart.                   *)
(***************************************************************************)
EXTENDS Integers, FiniteSets, FiniteSetsExt

CONSTANTS
    Limits,     \* configurations: RetentionDays (keep) and MaxSizeMB (max)
    West,       \* half days by which the local clock is behind UTC
    Stuck,      \* days whose directory RemoveAll cannot remove
    MaxLoops,   \* bound: cleanup loops launched
    MaxNow,     \* bound: the clock, in half days
    MaxSize     \* bound: the size of a day

LimitType == [keep : Nat, max : Nat]
Days == 0 .. MaxNow \div 2
Loops == 1 .. MaxLoops

ASSUME CleanupAssumption ==
    /\ Limits \subseteq LimitType
    /\ West \in -1 .. 1
    /\ Stuck \subseteq Days
    /\ MaxLoops \in Nat /\ MaxNow \in Nat /\ MaxSize \in Nat

VARIABLES
    cfg,         \* r.cfg
    now,         \* the local clock
    dirs,        \* the day directories in r.dataDir
    size,        \* per day: the size of its files
    open,        \* the day of the segment under way, NoDay if its file is gone
    gens,        \* loops launched so far
    closed,      \* the loops whose stop channel is closed
    pc,          \* per loop: what runCleanup does next
    loc,         \* per loop: its local variables
    lost         \* history, per loop: what the others took from the total it found

fileVars == <<dirs, size, open>>
loopVars == <<cfg, gens, closed>>
vars == <<loopVars, now, fileVars, pc, loc, lost>>

NoDay == -1
Today == now \div 2

(* r.cfg and the cutoff of a run, the days it has still to look at, and    *)
(* the day it is to remove.                                                *)
LocalType == [cfg : LimitType, cutoff : Int, todo : SUBSET Days, day : Days]

NoLocals == [cfg |-> [keep |-> 0, max |-> 0], cutoff |-> 0, todo |-> {}, day |-> 0]

PCs == {"none", "begin", "list", "age", "total", "oldest", "remove", "wait", "done"}

Init ==
    /\ cfg \in Limits
    /\ now \in 0 .. MaxNow
    /\ dirs \in SUBSET (0 .. Today)
    /\ size \in [Days -> 0 .. MaxSize]
    /\ \A d \in Days \ dirs : size[d] = 0
    /\ open = NoDay
    /\ gens = 0 /\ closed = {}
    /\ pc = [c \in Loops |-> "none"]
    /\ loc = [c \in Loops |-> NoLocals]
    /\ lost = [c \in Loops |-> 0]

-----------------------------------------------------------------------------
(* The recorder and the clock.                                             *)

(* Of the n bytes that go, not by loop c, every other run that has taken   *)
(* its total and not acted on it keeps count, up to more than its limit.   *)
AtMost(n, m) == IF n <= m THEN n ELSE m

Gone(c, n) ==
    lost' = [i \in Loops |->
                 IF i # c /\ pc[i] \in {"oldest", "remove"}
                 THEN AtMost(lost[i] + n, loc[i].cfg.max + 1) ELSE 0]

(* A segment, or a JPEG file, is created in today's directory. *)
CreateFile ==
    /\ dirs' = dirs \cup {Today}
    /\ size[Today] < MaxSize
    /\ size' = [size EXCEPT ![Today] = @ + 1]
    /\ open' = Today
    /\ UNCHANGED <<loopVars, now, pc, loc, lost>>

(* A file of today is written anew under its name: ffmpeg -y truncates the *)
(* segment of the hour when its writer is reopened, os.WriteFile the JPEG  *)
(* of the same second. The day may be smaller then.                        *)
ReplaceFile ==
    /\ Today \in dirs
    /\ \E n \in 0 .. size[Today] :
       /\ size' = [size EXCEPT ![Today] = @ - n]
       /\ Gone(0, n)
    /\ open' = Today
    /\ UNCHANGED <<loopVars, now, dirs, pc, loc>>

(* The segment under way grows, in the directory it was created in. When   *)
(* that was removed, ffmpeg goes on writing to a file without a name.      *)
GrowFile ==
    /\ open # NoDay /\ size[open] < MaxSize
    /\ size' = [size EXCEPT ![open] = @ + 1]
    /\ UNCHANGED <<loopVars, now, dirs, open, pc, loc, lost>>

HalfDayPasses ==
    /\ now < MaxNow
    /\ now' = now + 1
    /\ UNCHANGED <<loopVars, fileVars, pc, loc, lost>>

-----------------------------------------------------------------------------
(* The loops.                                                              *)

(* HandleConfig sets r.cfg before it restarts the loops. *)
PostConfig(l) ==
    /\ cfg' = l
    /\ UNCHANGED <<gens, closed, now, fileVars, pc, loc, lost>>

(* Start or Restart: the loop before is stopped and another launched.      *)
Launch ==
    /\ gens < MaxLoops
    /\ gens' = gens + 1
    /\ closed' = closed \cup ({gens} \ {0})
    /\ pc' = [pc EXCEPT ![gens + 1] = "begin"]
    /\ UNCHANGED <<cfg, now, fileVars, loc, lost>>

(* Loop c goes to "to", its locals becoming l. *)
Goto(c, to, l) == /\ pc' = [pc EXCEPT ![c] = to]
                  /\ loc' = [loc EXCEPT ![c] = l]

EndRun(c) == Goto(c, "wait", NoLocals)

Cleaning(c) == pc[c] \in {"list", "age", "total", "oldest", "remove"}

(* Mutant: the retention counts the days before today only. *)
CutoffEarly(l) == now - 2 * l.keep + 2

(* time.Now().AddDate(0, 0, -RetentionDays) *)
Cutoff(l) == now - 2 * l.keep

(* A run begins: the snapshot of r.cfg and the cutoff. *)
BeginRun(c) ==
    /\ pc[c] = "begin"
    /\ Goto(c, "list", [NoLocals EXCEPT !.cfg = cfg, !.cutoff = Cutoff(cfg)])
    /\ UNCHANGED <<loopVars, now, fileVars, lost>>

(* os.ReadDir, whose failure ends the run. *)
ListDays(c) ==
    /\ pc[c] = "list"
    /\ Goto(c, "age", [loc[c] EXCEPT !.todo = dirs]) \/ EndRun(c)
    /\ UNCHANGED <<loopVars, now, fileVars, lost>>

(* Mutant: the segment under way survives its directory. *)
RemoveKeepsOpen(c, d) ==
    IF d \in Stuck THEN UNCHANGED <<fileVars, lost>>
    ELSE /\ dirs' = dirs \ {d}
         /\ size' = [size EXCEPT ![d] = 0]
         /\ Gone(c, size[d])
         /\ UNCHANGED open

(* os.RemoveAll of a day by loop c, its error ignored. *)
RemoveAll(c, d) ==
    IF d \in Stuck THEN UNCHANGED <<fileVars, lost>>
    ELSE /\ dirs' = dirs \ {d}
         /\ size' = [size EXCEPT ![d] = 0]
         /\ Gone(c, size[d])
         /\ open' = IF open = d THEN NoDay ELSE open

(* The date of a directory name is read as midnight UTC, which the local   *)
(* clock, half days counted as begun, had or has at 2 * d - West.          *)
Expired(d, cutoff) == 2 * d - West <= cutoff

(* A day of the listing, which ReadDir sorts: removed when it is before    *)
(* the cutoff.                                                             *)
AgeRule(c) ==
    /\ pc[c] = "age" /\ loc[c].todo # {}
    /\ \E d \in loc[c].todo :
       /\ \A e \in loc[c].todo : d <= e
       /\ IF Expired(d, loc[c].cutoff) THEN RemoveAll(c, d) ELSE UNCHANGED <<fileVars, lost>>
       /\ Goto(c, "age", [loc[c] EXCEPT !.todo = @ \ {d}])
    /\ UNCHANGED <<loopVars, now>>

(* The listing is done: the size rule, when MaxSizeMB > 0. *)
AgeDone(c) ==
    /\ pc[c] = "age" /\ loc[c].todo = {}
    /\ IF loc[c].cfg.max > 0 THEN Goto(c, "total", loc[c]) ELSE EndRun(c)
    /\ UNCHANGED <<loopVars, now, fileVars, lost>>

(* totalSizeBytes *)
TotalSize == MapThenSumSet(LAMBDA d : size[d], dirs)

(* The total, and whether it is above the limit. The walk over the files   *)
(* is one step.                                                            *)
CheckTotal(c) ==
    /\ pc[c] = "total"
    /\ IF TotalSize <= loc[c].cfg.max THEN EndRun(c) ELSE Goto(c, "oldest", loc[c])
    /\ lost' = [lost EXCEPT ![c] = 0]
    /\ UNCHANGED <<loopVars, now, fileVars>>

(* Mutant: the names are sorted the other way round. *)
PickNewest(c) ==
    /\ pc[c] = "oldest"
    /\ \/ EndRun(c)
       \/ \E d \in dirs : /\ \A e \in dirs : e <= d
                          /\ Goto(c, "remove", [loc[c] EXCEPT !.day = d])
    /\ UNCHANGED <<loopVars, now, fileVars, lost>>

(* oldestDay; without a directory, or when ReadDir fails, the run ends. *)
PickOldest(c) ==
    /\ pc[c] = "oldest"
    /\ \/ /\ EndRun(c)
          /\ lost' = [lost EXCEPT ![c] = 0]
       \/ \E d \in dirs : /\ \A e \in dirs : d <= e
                          /\ Goto(c, "remove", [loc[c] EXCEPT !.day = d])
                          /\ UNCHANGED lost
    /\ UNCHANGED <<loopVars, now, fileVars>>

(* Mutants: the total is not taken again, and the path that is removed is  *)
(* not that of the day.                                                    *)
RemoveOnAndOn(c) ==
    /\ pc[c] = "remove"
    /\ RemoveAll(c, loc[c].day)
    /\ Goto(c, "oldest", loc[c])
    /\ UNCHANGED <<loopVars, now>>

RemoveNothing(c) ==
    /\ pc[c] = "remove"
    /\ Goto(c, "total", loc[c])
    /\ UNCHANGED <<loopVars, now, fileVars, lost>>

(* The day that was the oldest is removed, and the total taken again. *)
RemoveOldest(c) ==
    /\ pc[c] = "remove"
    /\ RemoveAll(c, loc[c].day)
    /\ Goto(c, "total", loc[c])
    /\ UNCHANGED <<loopVars, now>>

(* The ticker, while the stop channel is open: runs end within the hour,   *)
(* so that the two are not ready at once.                                  *)
Tick(c) ==
    /\ pc[c] = "wait" /\ c \notin closed
    /\ Goto(c, "begin", NoLocals)
    /\ UNCHANGED <<loopVars, now, fileVars, lost>>

Exit(c) ==
    /\ pc[c] = "wait" /\ c \in closed
    /\ Goto(c, "done", NoLocals)
    /\ UNCHANGED <<loopVars, now, fileVars, lost>>

LoopStep(c) ==
    \/ BeginRun(c) \/ ListDays(c) \/ AgeRule(c) \/ AgeDone(c) \/ CheckTotal(c)
    \/ PickOldest(c) \/ RemoveOldest(c) \/ Tick(c) \/ Exit(c)

Next ==
    \/ CreateFile
    \/ ReplaceFile
    \/ GrowFile
    \/ HalfDayPasses
    \/ \E l \in Limits : PostConfig(l)
    \/ Launch
    \/ \E c \in Loops : LoopStep(c)

Spec == Init /\ [][Next]_vars

(* The loops run; the disk answers. *)
Fairness == \A c \in Loops : WF_vars(LoopStep(c))

FairSpec == Spec /\ Fairness

-----------------------------------------------------------------------------
(* Properties.                                                             *)

(* Type invariant; what is removed is gone, the segment under way too. *)
TypeOK ==
    /\ cfg \in LimitType
    /\ now \in 0 .. MaxNow
    /\ dirs \subseteq 0 .. Today
    /\ size \in [Days -> 0 .. MaxSize]
    /\ \A d \in Days \ dirs : size[d] = 0
    /\ open \in dirs \cup {NoDay}
    /\ gens \in 0 .. MaxLoops /\ closed \subseteq 1 .. gens
    /\ pc \in [Loops -> PCs] /\ loc \in [Loops -> LocalType]
    /\ lost \in [Loops -> Nat]

(* However runs with different configurations meet, and whatever the       *)
(* recorder writes meanwhile, no day is removed while an older one that    *)
(* can be removed is kept (runCleanup's sorted listing, oldestDay).        *)
OldestFirst ==
    [][\A d \in dirs \ dirs' : \A e \in dirs' : d < e \/ e \in Stuck]_vars

(* A run of the size rule that removes a day below its limit does so by no *)
(* more than the others took from the files since it looked: another run   *)
(* that met it, or the recorder that wrote a file anew. Without either no  *)
(* day is removed below the limit (the total is taken again after each     *)
(* day, runCleanup).                                                       *)
NoOverDelete ==
    \A c \in Loops : pc[c] = "remove" => TotalSize + lost[c] > loc[c].cfg.max

(* "Age-based: delete directories older than retention": the age rule      *)
(* keeps today and the RetentionDays - 1 days before it. It holds where    *)
(* the local clock is not behind UTC.                                      *)
RetentionHonoured ==
    [][\A c \in Loops : pc[c] = "age" /\ loc'[c] # loc[c] =>
           \A d \in dirs \ dirs' : d + loc[c].cfg.keep <= Today]_vars

(* The steps the run of loop c can still take, if no day is created.       *)
StepsLeft(c) ==
    LET days == Cardinality(dirs)
    IN  CASE pc[c] = "list"   -> 4 * days + 4
          [] pc[c] = "age"    -> 3 * days + 3 + Cardinality(loc[c].todo)
          [] pc[c] = "total"  -> 3 * days + 2
          [] pc[c] = "oldest" -> 3 * days + 1
          [] pc[c] = "remove" -> 3 * days + IF loc[c].day \in dirs THEN 0 ELSE 3
          [] OTHER            -> 0

(* Every step of a run brings it nearer to its end, but for the removal of *)
(* a day that cannot be removed, and what the other runs do never takes it *)
(* farther from it: of what the recorder does only a new day can (the      *)
(* rounds of runCleanup, each of which takes the total and lists the days  *)
(* anew).                                                                  *)
InVain(c) == pc[c] = "remove" /\ loc[c].day \in Stuck

RunsGetOn ==
    [][dirs' \subseteq dirs =>
           \A c \in Loops : Cleaning(c) /\ ~InVain(c) =>
               IF pc'[c] = pc[c] /\ loc'[c] = loc[c] THEN StepsLeft(c)' <= StepsLeft(c)
               ELSE StepsLeft(c)' < StepsLeft(c)]_vars

(* A loop that was stopped ends, when days can be removed: the run it is   *)
(* in does, although each round starts with a new total, unless the        *)
(* recorder makes days anew as fast as they are removed.                   *)
RecorderPauses == <>[][dirs' \subseteq dirs]_vars

StoppedCleanersExit ==
    RecorderPauses => \A c \in Loops : (c \in closed) ~> (pc[c] = "done")
=============================================================================
