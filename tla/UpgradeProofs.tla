---------------------------- MODULE UpgradeProofs ---------------------------
(***************************************************************************)
(* What is proved of Upgrade for every number of tabs, jobs, output lines  *)
(* and faults.                                                             *)
(***************************************************************************)
EXTENDS Upgrade, FiniteSetTheorems, TLAPS

(* The slot: jobs are started in order, and the one that has not finished  *)
(* is the one curJob refers to; a closed channel means a finished job.     *)
SlotInv ==
    /\ njobs \in Nat /\ curJob \in Nat /\ curJob <= njobs
    /\ jpc \in [Jobs -> JobPCs] /\ DOMAIN log = Jobs
    /\ \A j \in Jobs : /\ j > njobs => jpc[j] = "none"
                       /\ Running(j) => j = curJob
    /\ done \subseteq {j \in Jobs : jpc[j] = "done"}

(* The actions of the streams leave the jobs alone. *)
LEMMA StreamKeepsJobs ==
    ASSUME NEW t \in Tabs, StreamStep(t) \/ Drop(t)
    PROVE  UNCHANGED <<jobVars, jpc, fileVars, done>>
  BY DEF StreamStep, OpenStream, ScanLog, KeepTailing, SendDone, Drop, StreamReturns

(* What the proofs need of a step of job j: it moves no other job, and     *)
(* closes the done channel only as its last move.                          *)
MovesAlone(j) ==
    /\ UNCHANGED jobVars
    /\ \E to \in JobPCs \ {"none"} : jpc' = [jpc EXCEPT ![j] = to]
    /\ DOMAIN log' = Jobs
    /\ \A i \in Jobs \ {j} : log'[i] = log[i]
    /\ UNCHANGED done \/ (jpc'[j] = "done" /\ done' = done \cup {j})

(* Writing a line, or moving on without one, is such a step. *)
LEMMA LineMovesAlone ==
    ASSUME DOMAIN log = Jobs, NEW j \in Jobs, NEW line, NEW to \in JobPCs \ {"none"},
           WriteLine(j, line, to) \/ Proceed(j, to)
    PROVE  MovesAlone(j)
  BY DEF WriteLine, Proceed, MovesAlone, fileVars

(* A step of job j is taken by a running job, and moves no other. *)
LEMMA JobMovesAlone ==
    ASSUME jpc \in [Jobs -> JobPCs], DOMAIN log = Jobs, NEW j \in Jobs, JobStep(j)
    PROVE  Running(j) /\ MovesAlone(j)
  <1>1. Running(j)
    BY DEF Running, JobStep, CreateLog, Connect, Dial, OpenSession, Output, LongLine,
           CommandEnds, CloseDone
  <1> DEFINE Targets == {"dial", "session", "output", "stuck", "closing"}
  <1>2. Targets \subseteq JobPCs \ {"none"}
    BY DEF JobPCs
  <1>3. CASE CreateLog(j)
    <2>1. \E to \in JobPCs \ {"none"} : jpc' = [jpc EXCEPT ![j] = to]
      BY <1>3 DEF CreateLog, JobPCs
    <2> QED
      BY <1>1, <1>3, <2>1 DEF CreateLog, MovesAlone
  <1>4. CASE CloseDone(j)
    <2>1. "done" \in JobPCs \ {"none"}
      BY DEF JobPCs
    <2>2. jpc' = [jpc EXCEPT ![j] = "done"] /\ log' = log
          /\ done' = done \cup {j} /\ UNCHANGED jobVars
      BY <1>4 DEF CloseDone, fileVars
    <2> QED
      BY <1>1, <2>1, <2>2 DEF MovesAlone
  <1>5. CASE \/ Connect(j) \/ Dial(j) \/ OpenSession(j) \/ Output(j) \/ LongLine(j)
             \/ CommandEnds(j)
    <2>1. \E line \in Lines, to \in Targets : WriteLine(j, line, to) \/ Proceed(j, to)
      BY <1>5 DEF Connect, Dial, OpenSession, Output, LongLine, CommandEnds, Lines
    <2>2. PICK line \in Lines, to \in Targets : WriteLine(j, line, to) \/ Proceed(j, to)
      BY <2>1
    <2>3. to \in JobPCs \ {"none"}
      BY <1>2, <2>2
    <2> QED
      BY <1>1, <2>2, <2>3, LineMovesAlone
  <1> QED
    BY <1>1, <1>3, <1>4, <1>5 DEF JobStep

(* SlotInv is inductive. *)
LEMMA SlotInductive == Spec => []SlotInv
  <1>1. Init => SlotInv
    BY DEF Init, SlotInv, Jobs, JobPCs, Running
  <1>2. SlotInv /\ [Next]_vars => SlotInv'
    <2> SUFFICES ASSUME SlotInv, [Next]_vars PROVE SlotInv'
      OBVIOUS
    <2>0. \A j \in Jobs : j \in Nat /\ j # 0
      BY UpgradeAssumption DEF Jobs
    <2>1. CASE UNCHANGED <<jobVars, jpc, fileVars, done>>
      BY <2>1 DEF SlotInv, Running, jobVars, fileVars
    <2>2. ASSUME NEW t \in Tabs, RunUpgrade(t) PROVE SlotInv'
      <3>1. \A j \in Jobs : ~Running(j)
        BY <2>0, <2>2 DEF RunUpgrade, JobSlotFree, SlotInv, Running
      <3>2. njobs + 1 \in Jobs
        BY <2>2, UpgradeAssumption DEF RunUpgrade, SlotInv, Jobs
      <3>3. jpc' \in [Jobs -> JobPCs]
        BY <2>2 DEF RunUpgrade, SlotInv, JobPCs
      <3>4. njobs + 1 \notin done
        BY <3>2 DEF SlotInv
      <3>5. \A j \in Jobs \ {njobs + 1} : jpc'[j] = jpc[j]
        BY <2>2 DEF RunUpgrade, SlotInv
      <3>6. /\ njobs' = njobs + 1 /\ curJob' = njobs + 1 /\ done' = done
            /\ njobs' \in Nat
        BY <2>2 DEF RunUpgrade, SlotInv
      <3>7. done' \subseteq {j \in Jobs : jpc'[j] = "done"}
        BY <3>4, <3>5, <3>6 DEF SlotInv
      <3>8. \A j \in Jobs : /\ j > njobs' => jpc'[j] = "none"
                            /\ Running(j)' => j = curJob'
        BY <2>0, <3>1, <3>5, <3>6 DEF SlotInv, Running
      <3>9. DOMAIN log' = Jobs
        BY <2>2 DEF RunUpgrade, fileVars, SlotInv
      <3> QED
        BY <3>3, <3>6, <3>7, <3>8, <3>9 DEF SlotInv
    <2>3. ASSUME NEW t \in Tabs, StreamStep(t) \/ Drop(t) PROVE SlotInv'
      BY <2>1, <2>3, StreamKeepsJobs
    <2>4. ASSUME NEW j \in Jobs, JobStep(j) PROVE SlotInv'
      <3>1. Running(j) /\ UNCHANGED jobVars
        BY <2>4, JobMovesAlone DEF SlotInv, MovesAlone
      <3>2. PICK to \in JobPCs : jpc' = [jpc EXCEPT ![j] = to]
        BY <2>4, JobMovesAlone DEF SlotInv, MovesAlone
      <3>3. UNCHANGED done \/ (jpc'[j] = "done" /\ done' = done \cup {j})
        BY <2>4, JobMovesAlone DEF SlotInv, MovesAlone
      <3>4. j \notin done
        BY <3>1 DEF SlotInv, Running
      <3>5. done' \subseteq {i \in Jobs : jpc'[i] = "done"}
        BY <3>2, <3>3, <3>4 DEF SlotInv
      <3>6. ~(j > njobs)
        BY <3>1 DEF SlotInv, Running
      <3>7. DOMAIN log' = Jobs
        BY <2>4, JobMovesAlone DEF SlotInv, MovesAlone
      <3> QED
        BY <3>1, <3>2, <3>5, <3>6, <3>7 DEF SlotInv, Running, jobVars
    <2>5. CASE ServerRestart
      <3>1. /\ njobs' = njobs /\ curJob' = 0 /\ done' = done
            /\ \A j \in Jobs : jpc'[j] = IF jpc[j] \in {"none", "done"} THEN jpc[j]
                                         ELSE "killed"
        BY <2>5 DEF ServerRestart
      <3>2. jpc' \in [Jobs -> JobPCs]
        BY <2>5 DEF ServerRestart, SlotInv, JobPCs
      <3>3. DOMAIN log' = Jobs
        BY <2>5 DEF ServerRestart, fileVars, SlotInv
      <3> QED
        BY <3>1, <3>2, <3>3 DEF SlotInv, Running
    <2> QED
      BY <2>1, <2>2, <2>3, <2>4, <2>5 DEF Next, vars
  <1> QED
    BY <1>1, <1>2, PTL DEF Spec

(* No two upgrades run at a time (upgradeRun). *)
THEOREM UpgradeExclusive == Spec => []OneUpgrade
  <1>1. SlotInv => OneUpgrade
    BY DEF SlotInv, OneUpgrade
  <1> QED
    BY <1>1, SlotInductive, PTL

(* Once job.done is closed the log is complete: no line is added to it     *)
(* (runUpgradeAsync defers the close before it defers anything else).      *)
THEOREM FinishedLogFrozen == Spec => LogFrozen
  <1>1. SlotInv /\ [Next]_vars => [\A j \in done : log'[j] = log[j]]_vars
    <2> SUFFICES ASSUME SlotInv, Next, NEW j \in done PROVE log'[j] = log[j]
      OBVIOUS
    <2>1. ASSUME NEW t \in Tabs, RunUpgrade(t) PROVE log'[j] = log[j]
      BY <2>1 DEF RunUpgrade, fileVars
    <2>2. ASSUME NEW t \in Tabs, StreamStep(t) \/ Drop(t) PROVE log'[j] = log[j]
      BY <2>2, StreamKeepsJobs DEF fileVars
    <2>3. ASSUME NEW i \in Jobs, JobStep(i) PROVE log'[j] = log[j]
      <3>1. Running(i) /\ \A k \in Jobs \ {i} : log'[k] = log[k]
        BY <2>3, JobMovesAlone DEF SlotInv, MovesAlone
      <3>2. j \in Jobs /\ jpc[j] = "done"
        BY DEF SlotInv
      <3> QED
        BY <3>1, <3>2 DEF Running
    <2>4. CASE ServerRestart
      BY <2>4 DEF ServerRestart, fileVars
    <2> QED
      BY <2>1, <2>2, <2>3, <2>4 DEF Next
  <1> QED
    BY <1>1, SlotInductive, PTL DEF Spec, LogFrozen

-----------------------------------------------------------------------------
(* Each line of a file ends behind the one before it. *)
FilesInv ==
    /\ log \in [Jobs -> Seq(Lines)] /\ ends \in [Jobs -> Seq(Nat)]
    /\ \A j \in Jobs :
           /\ Len(ends[j]) = Len(log[j])
           /\ \A i \in 1 .. Len(log[j]) : ends[j][i] > 0
           /\ \A i, k \in 1 .. Len(log[j]) : i < k => ends[j][i] < ends[j][k]

(* The types of the jobs and their logs. *)
JobInv ==
    /\ SlotInv
    /\ njobs <= MaxJobs
    /\ created \subseteq Jobs
    /\ FilesInv

(* What a step of job j does to its file, in an arbitrary step. *)
Grows(j) ==
    \/ UNCHANGED <<log, ends>>
    \/ \E line \in Lines :
          /\ log' = [log EXCEPT ![j] = Append(@, line)]
          /\ ends' = [ends EXCEPT ![j] = Append(@, Size(j) + Width[line])]

LEMMA JobStepGrows ==
    ASSUME NEW j \in Jobs, JobStep(j)
    PROVE  /\ Grows(j) /\ UNCHANGED <<njobs, tabVars, faults>>
           /\ created' \in {created, created \cup {j}}
  <1>1. CASE CreateLog(j) \/ LongLine(j) \/ CloseDone(j)
    BY <1>1 DEF CreateLog, LongLine, CloseDone, Proceed, Grows, fileVars, jobVars
  <1>2. CASE Connect(j) \/ Dial(j) \/ OpenSession(j) \/ Output(j) \/ CommandEnds(j)
    <2>1. \E to \in JobPCs : Proceed(j, to) \/ \E line \in Lines : WriteLine(j, line, to)
      BY <1>2 DEF Connect, Dial, OpenSession, Output, CommandEnds, Lines, JobPCs
    <2> QED
      BY <2>1 DEF WriteLine, Proceed, Grows, fileVars, jobVars
  <1> QED
    BY <1>1, <1>2 DEF JobStep

(* The lines that are in the files keep their place. *)
FilesKept ==
    /\ FilesInv'
    /\ \A i \in Jobs :
           /\ Len(log[i]) \in Nat /\ Len(log'[i]) \in Nat /\ Len(log'[i]) >= Len(log[i])
           /\ \A n \in 1 .. Len(log[i]) : log'[i][n] = log[i][n] /\ ends'[i][n] = ends[i][n]

(* A new line ends behind them. *)
LEMMA FilesGrow ==
    ASSUME FilesInv, UNCHANGED <<log, ends>> \/ \E j \in Jobs : Grows(j)
    PROVE  FilesKept
  <1>1. CASE UNCHANGED <<log, ends>>
    BY <1>1 DEF FilesInv, FilesKept
  <1>2. ASSUME NEW j \in Jobs, NEW line \in Lines,
               log' = [log EXCEPT ![j] = Append(@, line)],
               ends' = [ends EXCEPT ![j] = Append(@, Size(j) + Width[line])]
        PROVE  FilesKept
    <2> DEFINE e == Size(j) + Width[line]
    <2>1. /\ log[j] \in Seq(Lines) /\ ends[j] \in Seq(Nat) /\ Len(ends[j]) = Len(log[j])
          /\ Len(log[j]) \in Nat
      BY DEF FilesInv
    <2>2. /\ Width[line] \in Nat /\ Width[line] > 0 /\ Size(j) \in Nat
      BY <2>1, UpgradeAssumption DEF Size, End
    <2>3. e \in Nat /\ e > 0 /\ \A i \in 1 .. Len(log[j]) : ends[j][i] < e
      <3>1. ASSUME NEW i \in 1 .. Len(log[j]) PROVE ends[j][i] <= Size(j)
        <4>1. ends[j][i] \in Nat
          BY <2>1
        <4>2. CASE i = Len(log[j])
          BY <2>1, <4>1, <4>2 DEF Size, End
        <4>3. CASE i < Len(log[j])
          <5>1. Len(log[j]) \in 1 .. Len(log[j]) /\ Size(j) = ends[j][Len(log[j])]
            BY <2>1, <4>3 DEF Size, End
          <5>2. ends[j][i] < ends[j][Len(log[j])]
            BY <4>3, <5>1 DEF FilesInv
          <5> QED
            BY <2>2, <4>1, <5>1, <5>2
        <4> QED
          BY <2>1, <4>2, <4>3
      <3>2. e \in Nat /\ e > Size(j)
        BY <2>2
      <3> HIDE DEF e
      <3>3. ASSUME NEW i \in 1 .. Len(log[j]) PROVE ends[j][i] < e
        <4>1. ends[j][i] \in Nat
          BY <2>1
        <4> QED
          BY <2>2, <3>1, <3>2, <4>1
      <3> QED
        BY <2>2, <3>2, <3>3
    <2> HIDE DEF e
    <2>4. /\ log'[j] = Append(log[j], line) /\ ends'[j] = Append(ends[j], e)
          /\ \A i \in Jobs \ {j} : log'[i] = log[i] /\ ends'[i] = ends[i]
      BY <1>2 DEF FilesInv, e
    <2>5. /\ log'[j] \in Seq(Lines) /\ ends'[j] \in Seq(Nat)
          /\ Len(log'[j]) = Len(log[j]) + 1 /\ Len(ends'[j]) = Len(log[j]) + 1
          /\ \A n \in 1 .. Len(log[j]) : log'[j][n] = log[j][n] /\ ends'[j][n] = ends[j][n]
          /\ ends'[j][Len(log[j]) + 1] = e
      BY <2>1, <2>3, <2>4
    <2>6. log' \in [Jobs -> Seq(Lines)] /\ ends' \in [Jobs -> Seq(Nat)]
      BY <1>2, <2>4, <2>5 DEF FilesInv
    <2>7. /\ \A i \in 1 .. Len(log'[j]) : ends'[j][i] > 0
          /\ \A i, k \in 1 .. Len(log'[j]) : i < k => ends'[j][i] < ends'[j][k]
      <3>1. /\ \A i \in 1 .. Len(log[j]) : ends[j][i] > 0
            /\ \A i, k \in 1 .. Len(log[j]) : i < k => ends[j][i] < ends[j][k]
        BY DEF FilesInv
      <3>2. \A i \in 1 .. Len(log[j]) + 1 : i \in 1 .. Len(log[j]) \/ i = Len(log[j]) + 1
        BY <2>1
      <3>3. ASSUME NEW i \in 1 .. Len(log'[j]) PROVE ends'[j][i] > 0
        BY <2>3, <2>5, <3>1, <3>2
      <3>4. ASSUME NEW i \in 1 .. Len(log'[j]), NEW k \in 1 .. Len(log'[j]), i < k
            PROVE  ends'[j][i] < ends'[j][k]
        <4>1. i \in 1 .. Len(log[j])
          BY <2>1, <2>5, <3>4
        <4>2. CASE k \in 1 .. Len(log[j])
          BY <2>5, <3>1, <3>4, <4>1, <4>2
        <4>3. CASE k = Len(log[j]) + 1
          BY <2>3, <2>5, <4>1, <4>3
        <4> QED
          BY <2>5, <3>2, <4>2, <4>3
      <3> QED
        BY <3>3, <3>4
    <2>8. FilesInv'
      BY <2>4, <2>5, <2>6, <2>7 DEF FilesInv
    <2>9. ASSUME NEW i \in Jobs
          PROVE  /\ Len(log[i]) \in Nat /\ Len(log'[i]) \in Nat /\ Len(log'[i]) >= Len(log[i])
                 /\ \A n \in 1 .. Len(log[i]) : /\ log'[i][n] = log[i][n]
                                              /\ ends'[i][n] = ends[i][n]
      <3>1. Len(log[i]) \in Nat
        BY DEF FilesInv
      <3>2. CASE i = j
        BY <2>1, <2>5, <3>2
      <3>3. CASE i # j
        BY <2>4, <3>1, <3>3
      <3> QED
        BY <3>2, <3>3
    <2> QED
      BY <2>8, <2>9 DEF FilesKept
  <1> QED
    BY <1>1, <1>2 DEF Grows

LEMMA JobInvariant == Spec => []JobInv
  <1>1. Init => JobInv
    <2> SUFFICES ASSUME Init PROVE JobInv
      OBVIOUS
    <2>1. SlotInv
      BY DEF Init, SlotInv, Jobs, JobPCs, Running
    <2> QED
      BY <2>1, UpgradeAssumption DEF Init, JobInv, FilesInv
  <1>2. JobInv /\ SlotInv' /\ [Next]_vars => JobInv'
    <2> SUFFICES ASSUME JobInv, SlotInv', [Next]_vars PROVE JobInv'
      OBVIOUS
    <2>1. CASE UNCHANGED <<njobs, log, ends, created>>
      BY <2>1 DEF JobInv, FilesInv
    <2>2. ASSUME NEW t \in Tabs, RunUpgrade(t) PROVE JobInv'
      <3>1. njobs' = njobs + 1 /\ njobs < MaxJobs /\ UNCHANGED <<log, ends, created>>
        BY <2>2 DEF RunUpgrade, fileVars
      <3>2. njobs' <= MaxJobs
        BY <3>1, UpgradeAssumption DEF JobInv, SlotInv
      <3> QED
        BY <3>1, <3>2 DEF JobInv, FilesInv
    <2>3. ASSUME NEW t \in Tabs, StreamStep(t) \/ Drop(t) PROVE JobInv'
      BY <2>1, <2>3, StreamKeepsJobs DEF jobVars, fileVars
    <2>4. ASSUME NEW j \in Jobs, JobStep(j) PROVE JobInv'
      BY <2>4, JobStepGrows, FilesGrow DEF JobInv, FilesKept
    <2>5. CASE ServerRestart
      BY <2>1, <2>5 DEF ServerRestart, fileVars
    <2> QED
      BY <2>1, <2>2, <2>3, <2>4, <2>5 DEF Next, vars, jobVars, fileVars
  <1> QED
    BY <1>1, <1>2, SlotInductive, PTL DEF Spec

-----------------------------------------------------------------------------
(* The refinement. *)
ActiveJob == IF curJob \in Jobs /\ Running(curJob) THEN curJob ELSE 0

(* A step maps to a step of UpgradeService or a stutter. *)
LEMMA StepIsService ==
    JobInv /\ JobInv' /\ [Next]_vars => [Service!Next]_(Service!serviceVars)
  <1> SUFFICES ASSUME JobInv, JobInv', Next
               PROVE  Service!Next \/ UNCHANGED <<ActiveJob, njobs, log>>
    BY DEF vars, jobVars, fileVars, Running, Service!serviceVars, ActiveJob
  <1>0. /\ SlotInv /\ SlotInv' /\ \A j \in Jobs : j \in Nat /\ j # 0
    BY UpgradeAssumption DEF JobInv, Jobs
  <1>1. ASSUME NEW t \in Tabs, RunUpgrade(t) PROVE Service!Start
    <2>1. ActiveJob = 0
      BY <1>0, <1>1 DEF RunUpgrade, JobSlotFree, SlotInv, Running, ActiveJob
    <2>2. njobs + 1 \in Jobs
      BY <1>0, <1>1, UpgradeAssumption DEF RunUpgrade, SlotInv, Jobs
    <2>3. ActiveJob' = njobs + 1
      BY <1>0, <1>1, <2>2 DEF RunUpgrade, SlotInv, Running, ActiveJob
    <2> QED
      BY <1>1, <2>1, <2>2, <2>3 DEF RunUpgrade, fileVars, Service!Start, ActiveJob
  <1>2. ASSUME NEW t \in Tabs, StreamStep(t) \/ Drop(t)
        PROVE  UNCHANGED <<ActiveJob, njobs, log>>
    BY <1>2, StreamKeepsJobs DEF jobVars, fileVars, ActiveJob, Running
  <1>3. ASSUME NEW j \in Jobs, JobStep(j)
        PROVE  Service!Next \/ UNCHANGED <<ActiveJob, njobs, log>>
    <2>1. Running(j) /\ UNCHANGED jobVars /\ Grows(j)
      BY <1>0, <1>3, JobMovesAlone, JobStepGrows DEF SlotInv, MovesAlone
    <2>2. PICK to \in JobPCs \ {"none"} : jpc' = [jpc EXCEPT ![j] = to]
      BY <1>0, <1>3, JobMovesAlone DEF SlotInv, MovesAlone
    <2>3. j = curJob /\ ActiveJob = j /\ j # 0
      BY <1>0, <2>1 DEF SlotInv, ActiveJob
    <2>4. CASE UNCHANGED log
      <3>1. ActiveJob' \in {0, j}
        BY <2>1, <2>3 DEF ActiveJob, jobVars
      <3>2. CASE ActiveJob' = 0
        <4>1. Service!Finish
          BY <2>1, <2>3, <2>4, <3>2 DEF Service!Finish, ActiveJob, jobVars
        <4> QED
          BY <4>1 DEF Service!Next
      <3>3. CASE ActiveJob' = j
        BY <2>1, <2>3, <2>4, <3>3 DEF jobVars
      <3> QED
        BY <3>1, <3>2, <3>3
    <2>5. CASE log' # log
      <3>1. \E line \in Lines : WriteLine(j, line, jpc'[j])
        BY <1>0, <1>3, <2>2, <2>5
           DEF Lines, JobStep, CreateLog, Connect, Dial, OpenSession, Output, LongLine, CommandEnds,
               CloseDone, WriteLine, Proceed, fileVars, SlotInv
      <3>2. Running(j)'
        BY <1>0, <1>3, <2>5
           DEF JobStep, CreateLog, Connect, Dial, OpenSession, Output, LongLine, CommandEnds,
               CloseDone, WriteLine, Proceed, fileVars, SlotInv, Running
      <3>3. ActiveJob' = j
        BY <2>1, <2>3, <3>2 DEF ActiveJob, jobVars, Running
      <3>4. Service!Write
        BY <2>1, <2>3, <3>1, <3>3 DEF Service!Write, WriteLine, ActiveJob, jobVars
      <3> QED
        BY <3>4 DEF Service!Next
    <2> QED
      BY <2>4, <2>5
  <1>4. CASE ServerRestart
    <2>1. ActiveJob' = 0 /\ njobs' = njobs /\ log' = log
      BY <1>0, <1>4 DEF ServerRestart, ActiveJob, fileVars
    <2>2. CASE ActiveJob = 0
      BY <2>1, <2>2
    <2>3. CASE ActiveJob # 0
      BY <2>1, <2>3 DEF Service!Finish, Service!Next, ActiveJob
    <2> QED
      BY <2>2, <2>3
  <1> QED
    BY <1>1, <1>2, <1>3, <1>4 DEF Next, Service!Next

(* The jobs of upgrade.go implement UpgradeService: one at a time, in      *)
(* order, and lines added to the log of the running one only.              *)
THEOREM UpgradeImplementsService == Spec => ServiceProvided
  <1>1. Init => Service!Init
    BY UpgradeAssumption DEF Init, Service!Init, Jobs
  <1> QED
    BY <1>1, StepIsService, JobInvariant, PTL DEF Spec, ServiceProvided, Service!Spec

-----------------------------------------------------------------------------
(* Scans.                                                                  *)

(* The byte a file ends at, and where it ends after some of its lines. *)
LEMMA EndsRise ==
    ASSUME FilesInv, NEW j \in Jobs, NEW m \in 0 .. Len(log[j])
    PROVE  /\ Len(log[j]) \in Nat /\ End(j, m) \in Nat /\ Size(j) \in Nat
           /\ End(j, m) <= Size(j)
           /\ \A i \in 1 .. Len(log[j]) : ends[j][i] \in Nat /\ ends[j][i] <= Size(j)
           /\ \A i \in 1 .. Len(log[j]) : i <= m <=> ends[j][i] <= End(j, m)
  <1>1. /\ Len(log[j]) \in Nat /\ ends[j] \in Seq(Nat) /\ Len(ends[j]) = Len(log[j])
        /\ \A i \in 1 .. Len(log[j]) : ends[j][i] > 0
        /\ \A i, k \in 1 .. Len(log[j]) : i < k => ends[j][i] < ends[j][k]
    BY DEF FilesInv
  <1>2. \A i \in 1 .. Len(log[j]) : ends[j][i] \in Nat
    BY <1>1
  <1>3. ASSUME NEW k \in 0 .. Len(log[j])
        PROVE  /\ End(j, k) \in Nat
               /\ \A i \in 1 .. Len(log[j]) : i <= k <=> ends[j][i] <= End(j, k)
    <2>1. CASE k = 0
      BY <1>1, <1>2, <2>1 DEF End
    <2>2. CASE k # 0
      <3>1. k \in 1 .. Len(log[j]) /\ End(j, k) = ends[j][k]
        BY <1>1, <2>2 DEF End
      <3>2. ASSUME NEW i \in 1 .. Len(log[j]) PROVE i <= k <=> ends[j][i] <= ends[j][k]
        <4>1. i < k \/ i = k \/ k < i
          BY <1>1
        <4>2. ends[j][i] \in Nat /\ ends[j][k] \in Nat
          BY <1>2, <3>1
        <4> QED
          BY <1>1, <3>1, <4>1, <4>2
      <3> QED
        BY <1>2, <3>1, <3>2
    <2> QED
      BY <2>1, <2>2
  <1>4. Len(log[j]) \in 0 .. Len(log[j])
    BY <1>1
  <1>5. Size(j) \in Nat /\ \A i \in 1 .. Len(log[j]) : ends[j][i] <= Size(j)
    BY <1>1, <1>3, <1>4 DEF Size
  <1>6. End(j, m) <= Size(j)
    BY <1>1, <1>5 DEF End
  <1> QED
    BY <1>1, <1>2, <1>3, <1>5, <1>6

(* LinesBefore is the last line that ends by a byte. *)
LEMMA LinesBeforeIsLast ==
    ASSUME FilesInv, NEW j \in Jobs, NEW n \in Nat
    PROVE  /\ LinesBefore(j, n) \in 0 .. Len(log[j])
           /\ \A i \in 1 .. Len(log[j]) : ends[j][i] <= n <=> i <= LinesBefore(j, n)
  <1> DEFINE Behind == {i \in 1 .. Len(log[j]) : ends[j][i] <= n}
             m == Cardinality(Behind)
  <1>1. /\ Len(log[j]) \in Nat /\ \A i \in 1 .. Len(log[j]) : ends[j][i] \in Nat
        /\ \A i, k \in 1 .. Len(log[j]) : i < k => ends[j][i] < ends[j][k]
    BY DEF FilesInv
  <1>2. \A k \in Nat : IsFiniteSet(1 .. k) /\ Cardinality(1 .. k) = k
    <2> TAKE k \in Nat
    <2>1. 1 \in Int /\ k \in Int /\ (1 > k => k = 0) /\ k - 1 + 1 = k
      OBVIOUS
    <2> QED
      BY <2>1, FS_Interval
  <1>3. Behind \in SUBSET (1 .. Len(log[j]))
    OBVIOUS
  <1> HIDE DEF m
  <1>4. IsFiniteSet(Behind) /\ m \in Nat /\ m <= Len(log[j])
    BY <1>1, <1>2, <1>3, FS_Subset, FS_CardinalityType DEF m
  <1>5. ASSUME NEW i \in 1 .. Len(log[j]), ends[j][i] <= n PROVE i <= m
    <2>1. 1 .. i \in SUBSET Behind
      <3> SUFFICES ASSUME NEW k \in 1 .. i PROVE k \in 1 .. Len(log[j]) /\ ends[j][k] <= n
        OBVIOUS
      <3>1. k \in 1 .. Len(log[j]) /\ (k < i \/ k = i)
        BY <1>1
      <3> QED
        BY <1>1, <1>5, <3>1
    <2>2. Cardinality(1 .. i) = i
      BY <1>1, <1>2
    <2> QED
      BY <1>4, <2>1, <2>2, FS_Subset DEF m
  <1>6. ASSUME NEW i \in 1 .. Len(log[j]), ~(ends[j][i] <= n) PROVE ~(i <= m)
    <2>1. Behind \in SUBSET (1 .. i - 1)
      <3> SUFFICES ASSUME NEW k \in Behind PROVE k \in 1 .. i - 1
        OBVIOUS
      <3>1. k \in 1 .. Len(log[j]) /\ ends[j][k] <= n
        OBVIOUS
      <3>2. ends[j][k] \in Nat /\ ends[j][i] \in Nat
        BY <1>1, <3>1
      <3>3. ~(i < k)
        <4> SUFFICES ASSUME i < k PROVE FALSE
          OBVIOUS
        <4>1. ends[j][i] < ends[j][k]
          BY <1>1, <3>1
        <4> QED
          BY <1>6, <3>1, <3>2, <4>1
      <3>4. k # i
        BY <1>6, <3>1
      <3> QED
        BY <1>1, <3>1, <3>3, <3>4
    <2>2. i - 1 \in Nat /\ IsFiniteSet(1 .. i - 1) /\ Cardinality(1 .. i - 1) = i - 1
      BY <1>1, <1>2
    <2>3. m <= i - 1
      BY <2>1, <2>2, FS_Subset DEF m
    <2> QED
      BY <1>1, <1>4, <2>3
  <1> QED
    BY <1>1, <1>4, <1>5, <1>6 DEF LinesBefore, m

(* A scan takes the offset forward, never past the end of the file, and to *)
(* it when no line of the file ends in a carriage return.                  *)
LEMMA OffsetAdvances ==
    ASSUME FilesInv, NEW j \in Jobs, NEW n \in Nat, n <= Size(j)
    PROVE  /\ NextOffset(j, n) \in Nat
           /\ n <= NextOffset(j, n) /\ NextOffset(j, n) <= Size(j)
           /\ (\A i \in 1 .. Len(log[j]) : log[j][i] \notin CRLines) => NextOffset(j, n) = Size(j)
  <1> DEFINE Cut == Stripped(j, n)
             Bytes == n + 1 .. Size(j)
             f == [i \in Cut |-> ends[j][i]]
  <1>1. /\ Len(log[j]) \in Nat /\ Size(j) \in Nat
        /\ \A i \in 1 .. Len(log[j]) : ends[j][i] \in Nat /\ ends[j][i] <= Size(j)
    <2>1. 0 \in 0 .. Len(log[j])
      BY DEF FilesInv
    <2> QED
      BY <2>1, EndsRise
  <1>2. \A i, k \in 1 .. Len(log[j]) : i < k => ends[j][i] < ends[j][k]
    BY DEF FilesInv
  <1>3. \A i \in Cut : i \in 1 .. Len(log[j]) /\ ends[j][i] \in Bytes
    BY <1>1 DEF Stripped
  <1>4. \A i, k \in Cut : ends[j][i] = ends[j][k] => i = k
    <2> SUFFICES ASSUME NEW i \in Cut, NEW k \in Cut, ends[j][i] = ends[j][k] PROVE i = k
      OBVIOUS
    <2>1. i \in 1 .. Len(log[j]) /\ k \in 1 .. Len(log[j])
      BY <1>3
    <2>2. i < k \/ i = k \/ k < i
      BY <1>1, <2>1
    <2> QED
      BY <1>1, <1>2, <2>1, <2>2
  <1>5. f \in Injection(Cut, Bytes)
    BY <1>3, <1>4 DEF Injection, IsInjective
  <1>6. IsFiniteSet(Bytes) /\ Cardinality(Bytes) = Size(j) - n
    <2>1. n + 1 \in Int /\ Size(j) \in Int /\ (n + 1 > Size(j) => Size(j) - n = 0)
      BY <1>1
    <2>2. Size(j) - (n + 1) + 1 = Size(j) - n
      BY <1>1
    <2> QED
      BY <2>1, <2>2, FS_Interval
  <1> HIDE DEF f, Cut, Bytes
  <1>7. /\ IsFiniteSet(Cut) /\ Cardinality(Cut) <= Size(j) - n
        /\ Cardinality(Cut) \in Nat
    BY <1>5, <1>6, FS_Injection, FS_CardinalityType
  <1>8. ASSUME \A i \in 1 .. Len(log[j]) : log[j][i] \notin CRLines
        PROVE  Cardinality(Cut) = 0
    <2>1. Cut = {}
      BY <1>8 DEF Cut, Stripped
    <2> QED
      BY <2>1, FS_EmptySet
  <1> QED
    BY <1>1, <1>7, <1>8 DEF NextOffset, Cut

(* The tabs and their streams. *)
TabTypeOK ==
    /\ tpc \in [Tabs -> TabPCs] /\ tjob \in [Tabs -> 0 .. MaxJobs]
    /\ offset \in [Tabs -> Nat] /\ seen \in [Tabs -> Seq(Jobs \X Nat \X Nat)]
    /\ verdict \in [Tabs -> {"none", "complete", "failed"}]
    /\ drops \in [Tabs -> Nat] /\ faults \in 0 .. MaxFaults

(* s shows the first m lines of job j, from which a scan from byte n does  *)
(* not leave out any; it goes on exactly behind them while none of them    *)
(* ends in a carriage return.                                              *)
Covers(s, j, n, m) ==
    /\ m \in 0 .. Len(log[j]) /\ n <= End(j, m)
    /\ InOrder(s, j) /\ OnceUntilCR(s, j)
    /\ \A k \in DOMAIN s : s[k][2] \in 1 .. m
    /\ \A i \in 1 .. m : \E k \in DOMAIN s : s[k] = <<j, i, 0>>
    /\ (\A i \in 1 .. m : log[j][i] \notin CRLines) => Len(s) = m /\ n = End(j, m)

(* The stream of a tab is within the file, and has shown what is before.   *)
Following(t) ==
    /\ tjob[t] \in Jobs /\ offset[t] <= Size(tjob[t])
    /\ drops[t] = 0 => \E m \in Nat : Covers(seen[t], tjob[t], offset[t], m)

StreamInv ==
    \A t \in Tabs :
        /\ tpc[t] \in {"tick", "check"} => Following(t)
        /\ tpc[t] = "connect" /\ drops[t] = 0 => seen[t] = <<>>

TabInv == TabTypeOK /\ StreamInv

(* A stream that does not move still follows a file that grows. *)
LEMMA StillFollowing ==
    ASSUME FilesInv, FilesKept, NEW t \in Tabs, TabTypeOK, Following(t),
           tjob'[t] = tjob[t], offset'[t] = offset[t], seen'[t] = seen[t], drops'[t] = drops[t]
    PROVE  Following(t)'
  <1>0. PICK j \in Jobs, s \in Seq(Jobs \X Nat \X Nat), n \in Nat :
            tjob[t] = j /\ seen[t] = s /\ offset[t] = n
    BY DEF Following, TabTypeOK
  <1>1. n <= Size(j) /\ Len(log[j]) \in 0 .. Len(log[j])
    BY <1>0 DEF Following, FilesInv
  <1>2. /\ Len(log[j]) \in Nat /\ Len(log'[j]) \in Nat /\ Len(log'[j]) >= Len(log[j])
        /\ \A i \in 1 .. Len(log[j]) : log'[j][i] = log[j][i] /\ ends'[j][i] = ends[j][i]
    BY DEF FilesKept
  <1>3. ASSUME NEW m \in 0 .. Len(log[j]) PROVE End(j, m)' = End(j, m)
    BY <1>2 DEF End
  <1>4. n <= Size(j)'
    <2>1. Size(j) \in Nat /\ ends'[j] \in Seq(Nat) /\ Len(ends'[j]) = Len(log'[j])
      BY <1>1, EndsRise DEF FilesKept, FilesInv
    <2>2. CASE Len(log[j]) = 0
      BY <1>1, <1>2, <2>1, <2>2 DEF Size, End
    <2>3. CASE Len(log[j]) # 0 /\ Len(log'[j]) = Len(log[j])
      BY <1>1, <1>2, <2>3 DEF Size, End
    <2>4. CASE Len(log[j]) # 0 /\ Len(log'[j]) > Len(log[j])
      <3>1. Len(log[j]) \in 1 .. Len(log'[j]) /\ Len(log'[j]) \in 1 .. Len(log'[j])
        BY <1>2, <2>4
      <3>2. ends'[j][Len(log[j])] < ends'[j][Len(log'[j])]
        BY <2>4, <3>1 DEF FilesKept, FilesInv
      <3>3. Size(j) = ends'[j][Len(log[j])] /\ Size(j)' = ends'[j][Len(log'[j])]
        <4>1. Len(log[j]) \in 1 .. Len(log[j])
          BY <1>2, <2>4
        <4>2. Size(j) = ends[j][Len(log[j])] /\ ends[j][Len(log[j])] = ends'[j][Len(log[j])]
          BY <1>2, <2>4, <4>1 DEF Size, End
        <4>3. Len(log'[j]) # 0
          BY <1>2, <2>4
        <4> QED
          BY <4>2, <4>3 DEF Size, End
      <3>4. Size(j)' \in Nat
        BY <2>1, <3>1, <3>3
      <3> QED
        BY <1>1, <2>1, <3>2, <3>3, <3>4
    <2>5. \/ Len(log[j]) = 0
          \/ Len(log[j]) # 0 /\ Len(log'[j]) = Len(log[j])
          \/ Len(log[j]) # 0 /\ Len(log'[j]) > Len(log[j])
      BY <1>2
    <2> QED
      BY <2>2, <2>3, <2>4, <2>5
  <1>5. ASSUME NEW m \in Nat, Covers(s, j, n, m) PROVE Covers(s, j, n, m)'
    <2>1. m \in 0 .. Len(log[j]) /\ m \in 0 .. Len(log'[j]) /\ End(j, m)' = End(j, m)
      <3>1. m \in 0 .. Len(log[j])
        BY <1>5 DEF Covers
      <3>2. m \in 0 .. Len(log'[j])
        BY <1>2, <3>1
      <3> QED
        BY <1>3, <3>1, <3>2
    <2>2. \A k \in DOMAIN s : s[k][2] \in 1 .. m
      BY <1>5 DEF Covers
    <2>3. \A i \in 1 .. m : log'[j][i] = log[j][i]
      BY <1>2, <2>1
    <2>4. DOMAIN s = 1 .. Len(s) /\ Len(s) \in Nat
      OBVIOUS
    <2>5. \A x \in DOMAIN s : \A k \in 1 .. x - 1 : k \in DOMAIN s
      BY <2>4
    <2>6. \A x \in DOMAIN s : \A k \in 1 .. x - 1 : log'[j][s[k][2]] = log[j][s[k][2]]
      BY <2>2, <2>3, <2>5
    <2>7. OnceUntilCR(s, j)'
      BY <1>5, <2>6 DEF Covers, OnceUntilCR
    <2>8. InOrder(s, j)' /\ \A i \in 1 .. m : \E k \in DOMAIN s : s[k] = <<j, i, 0>>
      BY <1>5 DEF Covers, InOrder
    <2>9. /\ n <= End(j, m)
          /\ (\A i \in 1 .. m : log'[j][i] \notin CRLines) => Len(s) = m /\ n = End(j, m)
      BY <1>5, <2>3 DEF Covers
    <2> QED
      BY <2>1, <2>2, <2>7, <2>8, <2>9 DEF Covers
  <1>6. /\ tjob'[t] = j /\ seen'[t] = s /\ offset'[t] = n
        /\ drops'[t] = 0 => \E m \in Nat : Covers(s, j, n, m)
    BY <1>0 DEF Following
  <1>7. drops'[t] = 0 => \E m \in Nat : Covers(s, j, n, m)'
    BY <1>5, <1>6
  <1> QED
    BY <1>4, <1>6, <1>7 DEF Following

(* What a scan sends are lines of the file. *)
LEMMA ScanTyped ==
    ASSUME FilesInv, NEW j \in Jobs, NEW n \in Nat, NEW s \in Seq(Jobs \X Nat \X Nat)
    PROVE  s \o NewLines(j, n) \in Seq(Jobs \X Nat \X Nat)
  <1> DEFINE b == LinesBefore(j, n)
             L == Len(log[j])
             new == NewLines(j, n)
  <1>1. /\ L \in Nat /\ b \in 0 .. L /\ End(j, b) \in Nat
        /\ \A i \in 1 .. L : ends[j][i] <= n <=> i <= b
    BY EndsRise, LinesBeforeIsLast
  <1>2. new = [i \in 1 .. L - b |-> <<j, b + i, IF i = 1 THEN n - End(j, b) ELSE 0>>]
    BY DEF NewLines
  <1> HIDE DEF b, L, new
  <1>3. n - End(j, b) \in Nat
    <2>1. CASE b = 0
      BY <1>1, <2>1 DEF End
    <2>2. CASE b # 0
      BY <1>1, <2>2 DEF End
    <2> QED
      BY <2>1, <2>2
  <1>4. new \in Seq(Jobs \X Nat \X Nat)
    BY <1>1, <1>2, <1>3
  <1> QED
    BY <1>4 DEF new

(* The parts of what a tab has seen and what it is sent. *)
LEMMA ConcatParts ==
    ASSUME NEW s \in Seq(Jobs \X Nat \X Nat), NEW u \in Seq(Jobs \X Nat \X Nat)
    PROVE  /\ Len(s) \in Nat /\ s \o u \in Seq(Jobs \X Nat \X Nat)
           /\ Len(s \o u) = Len(s) + Len(u)
           /\ DOMAIN s = 1 .. Len(s) /\ DOMAIN (s \o u) = 1 .. Len(s) + Len(u)
           /\ \A i \in 1 .. Len(s) : (s \o u)[i] = s[i]
           /\ \A i \in 1 .. Len(u) : (s \o u)[Len(s) + i] = u[i]
  OBVIOUS

(* What a scan sends keeps a stream in order, and goes to the end of the   *)
(* file.                                                                   *)
LEMMA ScanCovers ==
    ASSUME FilesInv, NEW j \in Jobs, NEW n \in Nat, n <= Size(j), NEW m \in Nat,
           NEW s \in Seq(Jobs \X Nat \X Nat), Covers(s, j, n, m)
    PROVE  Covers(s \o NewLines(j, n), j, NextOffset(j, n), Len(log[j]))
  <1> DEFINE b == LinesBefore(j, n)
             L == Len(log[j])
             new == NewLines(j, n)
             s2 == s \o new
  <1>1. /\ L \in Nat /\ m \in 0 .. L /\ b \in 0 .. L /\ End(j, m) \in Nat /\ End(j, b) \in Nat
        /\ \A i \in 1 .. L : ends[j][i] <= n <=> i <= b
        /\ \A i \in 1 .. L : i <= m <=> ends[j][i] <= End(j, m)
        /\ \A i \in 1 .. L : ends[j][i] \in Nat
        /\ n <= End(j, m)
    BY EndsRise, LinesBeforeIsLast DEF Covers
  <1>2. /\ new = [i \in 1 .. L - b |-> <<j, b + i, IF i = 1 THEN n - End(j, b) ELSE 0>>]
        /\ Len(new) = L - b /\ L - b \in Nat
    BY <1>1 DEF NewLines
  <1>0. L \in Nat /\ m \in 0 .. L /\ b \in 0 .. L
    BY <1>1
  <1> HIDE DEF b, L, new
  <1>3. b <= m
    <2> SUFFICES ASSUME b > m PROVE FALSE
      BY <1>1
    <2>1. b \in 1 .. L /\ ends[j][b] <= n
      BY <1>1
    <2> QED
      BY <1>1, <2>1
  <1>4. End(j, b) <= n
    <2>1. CASE b = 0
      BY <2>1 DEF End
    <2>2. CASE b # 0
      BY <1>1, <2>2 DEF End
    <2> QED
      BY <2>1, <2>2
  <1>5. \A i \in 1 .. L - b : /\ new[i][1] = j /\ new[i][2] = b + i /\ new[i][2] \in 1 .. L
                              /\ i # 1 \/ b = m => new[i][3] = 0
                              /\ new[i] = <<j, b + i, new[i][3]>> /\ new[i][3] \in Nat
    BY <1>1, <1>2, <1>4
  <1>6. new \in Seq(Jobs \X Nat \X Nat)
    <2>1. ASSUME NEW i \in 1 .. L - b PROVE new[i] \in Jobs \X Nat \X Nat
      <3>1. \E x \in Nat, y \in Nat : new[i] = <<j, y, x>>
        <4>1. b + i \in Nat /\ new[i][3] \in Nat /\ new[i] = <<j, b + i, new[i][3]>>
          BY <1>0, <1>5
        <4> QED
          BY <4>1, Zenon
      <3>2. \A x \in Nat, y \in Nat : <<j, y, x>> \in Jobs \X Nat \X Nat
        OBVIOUS
      <3> QED
        BY <3>1, <3>2, Zenon
    <2>2. new = [i \in 1 .. L - b |-> new[i]]
      BY <1>2
    <2> QED
      BY <1>2, <2>1, <2>2
  <1>7. /\ Len(s) \in Nat /\ s2 \in Seq(Jobs \X Nat \X Nat) /\ Len(s2) = Len(s) + (L - b)
        /\ DOMAIN s = 1 .. Len(s) /\ DOMAIN s2 = 1 .. Len(s) + (L - b)
        /\ \A i \in 1 .. Len(s) : s2[i] = s[i]
        /\ \A i \in 1 .. L - b : s2[Len(s) + i] = new[i]
    <2>1. Len(new) = L - b
      BY <1>2
    <2>2. /\ Len(s) \in Nat /\ s2 \in Seq(Jobs \X Nat \X Nat) /\ Len(s2) = Len(s) + Len(new)
          /\ DOMAIN s = 1 .. Len(s) /\ DOMAIN s2 = 1 .. Len(s) + Len(new)
          /\ \A i \in 1 .. Len(s) : s2[i] = s[i]
          /\ \A i \in 1 .. Len(new) : s2[Len(s) + i] = new[i]
      BY <1>6, ConcatParts
    <2> QED
      BY <2>1, <2>2, Zenon
  <1> HIDE DEF s2
  <1>8. \A x \in 1 .. Len(s) : \A k \in 1 .. x - 1 : s2[k] = s[k]
    <2> SUFFICES ASSUME NEW x \in 1 .. Len(s), NEW k \in 1 .. x - 1 PROVE s2[k] = s[k]
      OBVIOUS
    <2>1. Len(s) \in Nat
      BY <1>7
    <2>2. k \in 1 .. Len(s)
      BY <2>1
    <2> QED
      BY <1>7, <2>2
  <1>9. \A l \in 1 .. L : l > m => /\ l - b \in 1 .. L - b
                                   /\ s2[Len(s) + (l - b)] = <<j, l, 0>>
    <2> SUFFICES ASSUME NEW l \in 1 .. L, l > m
                 PROVE  l - b \in 1 .. L - b /\ s2[Len(s) + (l - b)] = <<j, l, 0>>
      OBVIOUS
    <2>1. l - b \in 1 .. L - b /\ (l - b = 1 => b = m) /\ b + (l - b) = l
      BY <1>0, <1>3
    <2>2. new[l - b] = <<j, l, 0>>
      BY <1>5, <2>1
    <2> QED
      BY <1>7, <2>1, <2>2
  <1>10. \A l \in 1 .. m : \E k \in 1 .. Len(s) : s2[k] = <<j, l, 0>>
    BY <1>7 DEF Covers
  <1>11. \A l \in 1 .. L : \E k \in DOMAIN s2 : s2[k] = <<j, l, 0>>
    <2> SUFFICES ASSUME NEW l \in 1 .. L PROVE \E k \in DOMAIN s2 : s2[k] = <<j, l, 0>>
      OBVIOUS
    <2>1. CASE l <= m
      <3>1. PICK k \in 1 .. Len(s) : s2[k] = <<j, l, 0>>
        <4>1. l \in 1 .. m
          BY <1>0, <2>1
        <4> QED
          BY <1>10, <4>1, Zenon
      <3>2. k \in DOMAIN s2
        BY <1>2, <1>7, <3>1
      <3> QED
        BY <3>1, <3>2
    <2>2. CASE l > m
      <3>1. Len(s) + (l - b) \in DOMAIN s2
        BY <1>0, <1>7, <1>9, <2>2
      <3> QED
        BY <1>9, <2>2, <3>1
    <2> QED
      BY <1>1, <2>1, <2>2
  <1>12. \A x \in DOMAIN s2 : x \in 1 .. Len(s) \/ \E i \in 1 .. L - b : x = Len(s) + i
    <2> SUFFICES ASSUME NEW x \in 1 .. Len(s) + (L - b), x \notin 1 .. Len(s)
                 PROVE  \E i \in 1 .. L - b : x = Len(s) + i
      BY <1>7
    <2>1. x - Len(s) \in 1 .. L - b /\ x = Len(s) + (x - Len(s))
      BY <1>2
    <2> QED
      BY <2>1
  <1>13. \A x \in DOMAIN s2 : s2[x][2] \in 1 .. L
    <2> SUFFICES ASSUME NEW x \in DOMAIN s2 PROVE s2[x][2] \in 1 .. L
      OBVIOUS
    <2>1. CASE x \in 1 .. Len(s)
      <3>1. s2[x][2] \in 1 .. m
        BY <1>7, <2>1 DEF Covers
      <3> QED
        BY <1>0, <3>1
    <2>2. CASE \E i \in 1 .. L - b : x = Len(s) + i
      <3>1. PICK i \in 1 .. L - b : x = Len(s) + i
        BY <2>2
      <3>2. s2[x] = new[i] /\ new[i][2] \in 1 .. L
        BY <1>5, <1>7, <3>1
      <3> QED
        BY <3>2, Zenon
    <2> QED
      BY <1>12, <2>1, <2>2
  <1>14. InOrder(s2, j)
    <2>1. ASSUME NEW x \in 1 .. Len(s)
          PROVE  /\ s2[x][1] = j
                 /\ \A l \in 1 .. s2[x][2] :
                        l < s2[x][2] \/ s2[x][3] > 0 => \E k \in 1 .. x - 1 : s2[k] = <<j, l, 0>>
      <3>1. /\ s[x][1] = j
            /\ \A l \in 1 .. s[x][2] :
                   l < s[x][2] \/ s[x][3] > 0 => \E k \in 1 .. x - 1 : s[k] = <<j, l, 0>>
        BY <1>7 DEF Covers, InOrder
      <3>2. \A k \in 1 .. x - 1 : s2[k] = s[k]
        BY <1>8
      <3> QED
        BY <1>7, <3>1, <3>2
    <2>2. ASSUME NEW i \in 1 .. L - b, NEW l \in 1 .. b + i, l < b + i \/ new[i][3] > 0
          PROVE  \E k \in 1 .. Len(s) + i - 1 : s2[k] = <<j, l, 0>>
      <3>1. CASE l <= m
        <4>1. PICK k \in 1 .. Len(s) : s2[k] = <<j, l, 0>>
          <5>1. l \in 1 .. m
            BY <1>0, <3>1
          <5> QED
            BY <1>10, <5>1, Zenon
        <4>2. k \in 1 .. Len(s) + i - 1
          BY <1>2, <1>7, <4>1
        <4> QED
          BY <4>1, <4>2
      <3>2. CASE l > m
        <4>1. l < b + i
          <5> SUFFICES ASSUME ~(l < b + i) PROVE FALSE
            OBVIOUS
          <5>1. i # 1 \/ b = m
            BY <1>0, <1>3, <3>2
          <5>2. new[i][3] = 0
            BY <1>5, <5>1
          <5> QED
            BY <2>2, <5>2
        <4>2. l \in 1 .. L /\ Len(s) + (l - b) \in 1 .. Len(s) + i - 1
          <5>1. Len(s) \in Nat
            BY <1>7
          <5> QED
            BY <1>0, <1>3, <3>2, <4>1, <5>1
        <4> QED
          BY <1>9, <3>2, <4>2
      <3> QED
        BY <1>0, <3>1, <3>2
    <2>3. ASSUME NEW i \in 1 .. L - b
          PROVE  /\ s2[Len(s) + i][1] = j /\ s2[Len(s) + i][2] = b + i
                 /\ s2[Len(s) + i][3] = new[i][3]
      BY <1>5, <1>7
    <2>4. ASSUME NEW x \in DOMAIN s2
          PROVE  /\ s2[x][1] = j
                 /\ \A l \in 1 .. s2[x][2] :
                        l < s2[x][2] \/ s2[x][3] > 0 => \E k \in 1 .. x - 1 : s2[k] = <<j, l, 0>>
      <3>1. CASE x \in 1 .. Len(s)
        BY <2>1, <3>1
      <3>2. ASSUME NEW i \in 1 .. L - b, x = Len(s) + i
            PROVE  /\ s2[x][1] = j
                   /\ \A l \in 1 .. s2[x][2] :
                          l < s2[x][2] \/ s2[x][3] > 0 => \E k \in 1 .. x - 1 : s2[k] = <<j, l, 0>>
        <4>1. s2[x][1] = j /\ s2[x][2] = b + i /\ s2[x][3] = new[i][3]
          BY <2>3, <3>2
        <4>2. x - 1 = Len(s) + i - 1
          BY <3>2
        <4>3. \A l \in 1 .. b + i :
                  l < b + i \/ new[i][3] > 0 =>
                      \E k \in 1 .. Len(s) + i - 1 : s2[k] = <<j, l, 0>>
          BY <2>2, <3>2
        <4> QED
          BY <4>1, <4>2, <4>3, Zenon
      <3> QED
        BY <1>12, <3>1, <3>2
    <2> QED
      BY <2>4 DEF InOrder
  <1>15. (\A i \in 1 .. m : log[j][i] \notin CRLines) => Len(s) = m /\ b = m
    <2> SUFFICES ASSUME \A i \in 1 .. m : log[j][i] \notin CRLines PROVE Len(s) = m /\ b = m
      OBVIOUS
    <2>1. Len(s) = m /\ n = End(j, m)
      BY DEF Covers
    <2>2. CASE m = 0
      BY <1>1, <1>3, <2>1, <2>2
    <2>3. CASE m # 0
      <3>1. m \in 1 .. L /\ ends[j][m] <= n
        BY <1>1, <2>1, <2>3
      <3> QED
        BY <1>1, <1>3, <2>1, <3>1
    <2> QED
      BY <2>2, <2>3
  <1>16. OnceUntilCR(s2, j)
    <2>1. ASSUME NEW x \in 1 .. Len(s), \A k \in 1 .. x - 1 : log[j][s2[k][2]] \notin CRLines
          PROVE  s2[x] = <<j, x, 0>>
      <3>1. \A k \in 1 .. x - 1 : s2[k] = s[k]
        BY <1>8
      <3> QED
        BY <1>7, <2>1, <3>1 DEF Covers, OnceUntilCR
    <2>2. ASSUME NEW i \in 1 .. L - b,
                 \A k \in 1 .. Len(s) + i - 1 : log[j][s2[k][2]] \notin CRLines
          PROVE  s2[Len(s) + i] = <<j, Len(s) + i, 0>>
      <3>1. \A l \in 1 .. m : log[j][l] \notin CRLines
        <4> SUFFICES ASSUME NEW l \in 1 .. m PROVE log[j][l] \notin CRLines
          OBVIOUS
        <4>1. PICK k \in 1 .. Len(s) : s2[k] = <<j, l, 0>>
          BY <1>10
        <4>2. k \in 1 .. Len(s) + i - 1 /\ s2[k][2] = l
          BY <1>2, <1>7, <4>1
        <4> QED
          BY <2>2, <4>2
      <3>2. Len(s) = m /\ b = m
        BY <1>15, <3>1
      <3> QED
        BY <1>5, <1>7, <3>2
    <2>3. ASSUME NEW x \in DOMAIN s2, \A k \in 1 .. x - 1 : log[j][s2[k][2]] \notin CRLines
          PROVE  s2[x] = <<j, x, 0>>
      <3>1. CASE x \in 1 .. Len(s)
        BY <2>1, <2>3, <3>1
      <3>2. ASSUME NEW i \in 1 .. L - b, x = Len(s) + i
            PROVE  s2[x] = <<j, x, 0>>
        <4>1. x - 1 = Len(s) + i - 1
          BY <3>2
        <4>2. \A k \in 1 .. Len(s) + i - 1 : log[j][s2[k][2]] \notin CRLines
          BY <2>3, <4>1, Zenon
        <4>3. s2[Len(s) + i] = <<j, Len(s) + i, 0>>
          BY <2>2, <3>2, <4>2, Zenon
        <4> QED
          BY <3>2, <4>3, Zenon
      <3> QED
        BY <1>12, <3>1, <3>2
    <2> QED
      BY <2>3 DEF OnceUntilCR
  <1>17. NextOffset(j, n) <= Size(j) /\ End(j, L) = Size(j)
    BY OffsetAdvances DEF Size, L
  <1>18. ASSUME \A i \in 1 .. L : log[j][i] \notin CRLines
         PROVE  Len(s2) = L /\ NextOffset(j, n) = Size(j)
    <2>1. \A i \in 1 .. m : log[j][i] \notin CRLines
      BY <1>1, <1>18
    <2>2. Len(s2) = L
      <3>1. Len(s) = m /\ b = m
        BY <1>15, <2>1
      <3> QED
        BY <1>0, <1>7, <3>1
    <2> QED
      BY <1>18, <2>2, OffsetAdvances DEF L
  <1>19. L \in 0 .. L
    BY <1>1
  <1> QED
    BY <1>11, <1>13, <1>14, <1>16, <1>17, <1>18, <1>19 DEF Covers, s2, new, L

(* TabInv is inductive. *)
LEMMA TabInductive == JobInv /\ TabInv /\ [Next]_vars => TabInv'
  <1> SUFFICES ASSUME JobInv, TabInv, [Next]_vars PROVE TabInv'
    OBVIOUS
  <1>0. TabTypeOK /\ curJob \in 0 .. MaxJobs /\ FilesInv
    BY UpgradeAssumption DEF TabInv, JobInv, SlotInv
  <1> DEFINE Stays(t) == /\ tjob'[t] = tjob[t] /\ offset'[t] = offset[t]
                         /\ seen'[t] = seen[t] /\ drops'[t] = drops[t]
  <1>a. ASSUME UNCHANGED <<log, ends>> \/ \E j \in Jobs : Grows(j),
               NEW t \in Tabs, tpc[t] \in {"tick", "check"}, Stays(t)
        PROVE  Following(t)'
    <2>1. Following(t) /\ FilesKept
      BY <1>0, <1>a, FilesGrow DEF TabInv, StreamInv
    <2> QED
      BY <1>0, <1>a, <2>1, StillFollowing
  <1>1. CASE UNCHANGED <<tabVars, faults>> /\ (UNCHANGED <<log, ends>> \/ \E j \in Jobs : Grows(j))
    <2>1. ASSUME NEW t \in Tabs PROVE Stays(t) /\ tpc'[t] = tpc[t]
      BY <1>1 DEF tabVars
    <2>2. StreamInv'
      BY <1>1, <1>a, <2>1 DEF TabInv, StreamInv
    <2> QED
      BY <1>0, <1>1, <2>2 DEF tabVars, TabInv, TabTypeOK
  <1>2. ASSUME NEW t \in Tabs, RunUpgrade(t) PROVE TabInv'
    <2>1. /\ tpc' = [tpc EXCEPT ![t] = "connect"] /\ seen' = [seen EXCEPT ![t] = <<>>]
          /\ verdict' = [verdict EXCEPT ![t] = "none"] /\ drops' = [drops EXCEPT ![t] = 0]
          /\ UNCHANGED <<tjob, offset, log, ends, faults>>
      BY <1>2 DEF RunUpgrade, fileVars
    <2>2. TabTypeOK'
      <3>1. seen' \in [Tabs -> Seq(Jobs \X Nat \X Nat)]
        <4>1. <<>> \in Seq(Jobs \X Nat \X Nat)
          OBVIOUS
        <4> QED
          BY <1>0, <2>1, <4>1, Zenon DEF TabTypeOK
      <3>2. /\ tpc' \in [Tabs -> TabPCs] /\ drops' \in [Tabs -> Nat]
            /\ verdict' \in [Tabs -> {"none", "complete", "failed"}]
        BY <1>0, <2>1 DEF TabTypeOK, TabPCs
      <3> QED
        BY <1>0, <2>1, <3>1, <3>2 DEF TabTypeOK
    <2>3. StreamInv'
      <3>1. ASSUME NEW u \in Tabs, u # t PROVE Stays(u) /\ tpc'[u] = tpc[u]
        BY <1>0, <2>1, <3>1 DEF TabTypeOK
      <3>2. tpc'[t] = "connect" /\ seen'[t] = <<>>
        BY <1>0, <2>1 DEF TabTypeOK
      <3> QED
        BY <1>a, <2>1, <3>1, <3>2 DEF TabInv, StreamInv
    <2> QED
      BY <2>2, <2>3 DEF TabInv
  <1>3. ASSUME NEW t \in Tabs, OpenStream(t) PROVE TabInv'
    <2>1. /\ UNCHANGED <<seen, verdict, drops, faults, log, ends>> /\ tpc[t] = "connect"
          /\ \/ /\ tpc' = [tpc EXCEPT ![t] = "gone"] /\ UNCHANGED <<tjob, offset>>
             \/ /\ tpc' = [tpc EXCEPT ![t] = "tick"] /\ curJob # 0
                /\ tjob' = [tjob EXCEPT ![t] = curJob] /\ offset' = [offset EXCEPT ![t] = 0]
      BY <1>3 DEF OpenStream, fileVars
    <2>2. TabTypeOK'
      <3>1. tpc' \in [Tabs -> TabPCs]
        BY <1>0, <2>1 DEF TabTypeOK, TabPCs
      <3>2. tjob' \in [Tabs -> 0 .. MaxJobs] /\ offset' \in [Tabs -> Nat]
        <4>1. CASE UNCHANGED <<tjob, offset>>
          BY <1>0, <4>1 DEF TabTypeOK
        <4>2. CASE /\ tjob' = [tjob EXCEPT ![t] = curJob]
                   /\ offset' = [offset EXCEPT ![t] = 0]
          BY <1>0, <4>2 DEF TabTypeOK
        <4> QED
          BY <2>1, <4>1, <4>2
      <3> QED
        BY <1>0, <2>1, <3>1, <3>2 DEF TabTypeOK
    <2>3. StreamInv'
      <3>1. ASSUME NEW u \in Tabs, u # t PROVE Stays(u) /\ tpc'[u] = tpc[u]
        BY <1>0, <2>1, <3>1 DEF TabTypeOK
      <3>2. tpc'[t] = "gone" \/ (tpc'[t] = "tick" /\ Following(t)')
        <4> SUFFICES ASSUME tpc'[t] # "gone" PROVE tpc'[t] = "tick" /\ Following(t)'
          OBVIOUS
        <4>1. tpc'[t] = "tick" /\ curJob # 0 /\ tjob'[t] = curJob /\ offset'[t] = 0
          BY <1>0, <2>1 DEF TabTypeOK
        <4>2. PICK j \in Jobs : j = curJob
          BY <1>0, <4>1, UpgradeAssumption DEF Jobs
        <4>3. 0 \in 0 .. Len(log[j]) /\ Size(j) \in Nat
          BY <1>0, EndsRise DEF FilesInv
        <4>4. Size(j)' = Size(j)
          BY <2>1 DEF Size, End
        <4>5. Covers(<<>>, j, 0, 0)'
          BY <2>1, <4>3 DEF Covers, InOrder, OnceUntilCR, End
        <4>6. drops'[t] = 0 => seen'[t] = <<>>
          BY <2>1 DEF TabInv, StreamInv
        <4>7. tjob'[t] = j /\ offset'[t] = 0 /\ 0 <= Size(j)'
          BY <4>1, <4>2, <4>3, <4>4
        <4> QED
          BY <4>1, <4>7, <4>5, <4>6 DEF Following
      <3> QED
        BY <1>a, <2>1, <3>1, <3>2 DEF TabInv, StreamInv
    <2> QED
      BY <2>2, <2>3 DEF TabInv
  <1>4. ASSUME NEW t \in Tabs, ScanLog(t) PROVE TabInv'
    <2>1. /\ tpc[t] = "tick" /\ tpc' = [tpc EXCEPT ![t] = "check"]
          /\ seen' = [seen EXCEPT ![t] = seen[t] \o NewLines(tjob[t], offset[t])]
          /\ offset' = [offset EXCEPT ![t] = NextOffset(tjob[t], offset[t])]
          /\ UNCHANGED <<tjob, verdict, drops, faults, log, ends>>
      BY <1>4 DEF ScanLog, fileVars
    <2>2. Following(t)
      BY <2>1 DEF TabInv, StreamInv
    <2>3. PICK j \in Jobs, n \in Nat, s \in Seq(Jobs \X Nat \X Nat) :
              /\ tjob[t] = j /\ offset[t] = n /\ seen[t] = s /\ n <= Size(j)
              /\ drops[t] = 0 => \E m \in Nat : Covers(s, j, n, m)
      BY <1>0, <2>2 DEF TabTypeOK, Following
    <2>4. /\ NextOffset(j, n) \in Nat /\ NextOffset(j, n) <= Size(j)
          /\ s \o NewLines(j, n) \in Seq(Jobs \X Nat \X Nat)
      BY <1>0, <2>3, OffsetAdvances, ScanTyped
    <2>5. PICK n2 \in Nat, s2 \in Seq(Jobs \X Nat \X Nat) :
              n2 = NextOffset(j, n) /\ s2 = s \o NewLines(j, n)
      BY <2>4
    <2>6. /\ tpc' = [tpc EXCEPT ![t] = "check"]
          /\ seen' = [seen EXCEPT ![t] = s2] /\ offset' = [offset EXCEPT ![t] = n2]
      BY <2>1, <2>3, <2>5
    <2>7. TabTypeOK'
      <3>1. seen' \in [Tabs -> Seq(Jobs \X Nat \X Nat)] /\ offset' \in [Tabs -> Nat]
        BY <1>0, <2>6 DEF TabTypeOK
      <3>2. tpc' \in [Tabs -> TabPCs]
        BY <1>0, <2>6 DEF TabTypeOK, TabPCs
      <3> QED
        BY <1>0, <2>1, <3>1, <3>2 DEF TabTypeOK
    <2>8. ASSUME drops[t] = 0 PROVE Covers(s2, j, n2, Len(log[j]))
      BY <1>0, <2>3, <2>5, <2>8, ScanCovers
    <2>9. ASSUME drops[t] = 0 PROVE \E m \in Nat : Covers(s2, j, n2, m)'
      <3>1. Covers(s2, j, n2, Len(log[j])) /\ Len(log[j]) \in Nat
        BY <1>0, <2>8, <2>9 DEF FilesInv
      <3>2. PICK m \in Nat : Covers(s2, j, n2, m)
        BY <3>1
      <3>3. Covers(s2, j, n2, m)'
        BY <2>1, <3>2 DEF Covers, InOrder, OnceUntilCR, End
      <3> QED
        BY <3>3
    <2>10. StreamInv'
      <3>1. ASSUME NEW u \in Tabs, u # t PROVE Stays(u) /\ tpc'[u] = tpc[u]
        BY <1>0, <2>1, <3>1 DEF TabTypeOK
      <3>2. /\ tpc'[t] = "check" /\ seen'[t] = s2 /\ offset'[t] = n2 /\ tjob'[t] = j
            /\ drops'[t] = drops[t]
        BY <1>0, <2>1, <2>3, <2>6 DEF TabTypeOK
      <3>3. Size(j)' = Size(j)
        BY <2>1 DEF Size, End
      <3>4. Following(t)'
        BY <2>4, <2>5, <2>9, <3>2, <3>3 DEF Following
      <3> QED
        BY <1>a, <2>1, <3>1, <3>2, <3>4 DEF TabInv, StreamInv
    <2> QED
      BY <2>7, <2>10 DEF TabInv
  <1>5. ASSUME NEW t \in Tabs, KeepTailing(t) PROVE TabInv'
    <2>1. /\ tpc[t] = "check" /\ tpc' = [tpc EXCEPT ![t] = "tick"]
          /\ UNCHANGED <<tjob, offset, seen, verdict, drops, faults, log, ends>>
      BY <1>5 DEF KeepTailing, fileVars
    <2>2. ASSUME NEW u \in Tabs
          PROVE  Stays(u) /\ (tpc'[u] = tpc[u] \/ (tpc[u] = "check" /\ tpc'[u] = "tick"))
      BY <1>0, <2>1 DEF TabTypeOK
    <2>3. StreamInv'
      BY <1>a, <2>1, <2>2 DEF TabInv, StreamInv
    <2> QED
      BY <1>0, <2>1, <2>3 DEF TabTypeOK, TabPCs, TabInv
  <1>6. ASSUME NEW t \in Tabs, SendDone(t) \/ Drop(t) PROVE TabInv'
    <2>1. /\ tjob' = [tjob EXCEPT ![t] = 0] /\ offset' = [offset EXCEPT ![t] = 0]
          /\ UNCHANGED <<seen, log, ends>>
          /\ \/ /\ tpc' = [tpc EXCEPT ![t] = "idle"] /\ UNCHANGED <<drops, faults>>
                /\ verdict' \in {[verdict EXCEPT ![t] = v] : v \in {"failed", "complete"}}
             \/ /\ tpc' = [tpc EXCEPT ![t] = "connect"] /\ verdict' = verdict
                /\ drops' = [drops EXCEPT ![t] = drops[t] + 1]
                /\ faults < MaxFaults /\ faults' = faults + 1
      BY <1>6 DEF SendDone, Drop, StreamReturns, fileVars
    <2>2. verdict' \in [Tabs -> {"none", "complete", "failed"}]
      BY <1>0, <2>1 DEF TabTypeOK
    <2>3. TabTypeOK'
      <3>1. /\ tjob' \in [Tabs -> 0 .. MaxJobs] /\ offset' \in [Tabs -> Nat]
            /\ tpc' \in [Tabs -> TabPCs]
        <4>1. tjob' \in [Tabs -> 0 .. MaxJobs]
          BY <1>0, <2>1, UpgradeAssumption DEF TabTypeOK
        <4>2. offset' \in [Tabs -> Nat]
          BY <1>0, <2>1 DEF TabTypeOK
        <4>3. tpc' \in [Tabs -> TabPCs]
          BY <1>0, <2>1 DEF TabTypeOK, TabPCs
        <4> QED
          BY <4>1, <4>2, <4>3
      <3>2. drops' \in [Tabs -> Nat] /\ faults' \in 0 .. MaxFaults
        <4>1. CASE UNCHANGED <<drops, faults>>
          BY <1>0, <4>1 DEF TabTypeOK
        <4>2. CASE /\ drops' = [drops EXCEPT ![t] = drops[t] + 1]
                   /\ faults < MaxFaults /\ faults' = faults + 1
          <5>1. drops' \in [Tabs -> Nat]
            BY <1>0, <4>2 DEF TabTypeOK
          <5> QED
            BY <1>0, <4>2, <5>1, UpgradeAssumption DEF TabTypeOK
        <4> QED
          BY <2>1, <4>1, <4>2
      <3> QED
        BY <1>0, <2>1, <2>2, <3>1, <3>2 DEF TabTypeOK
    <2>4. StreamInv'
      <3>1. ASSUME NEW u \in Tabs, u # t PROVE Stays(u) /\ tpc'[u] = tpc[u]
        BY <1>0, <2>1, <3>1 DEF TabTypeOK
      <3>2. tpc'[t] = "idle" \/ (tpc'[t] = "connect" /\ drops'[t] # 0)
        BY <1>0, <2>1 DEF TabTypeOK
      <3> QED
        BY <1>a, <2>1, <3>1, <3>2 DEF TabInv, StreamInv
    <2> QED
      BY <2>3, <2>4 DEF TabInv
  <1>7. ASSUME NEW j \in Jobs, JobStep(j) PROVE TabInv'
    BY <1>1, <1>7, JobStepGrows
  <1>8. CASE ServerRestart
    <2>1. /\ tpc' = [t \in Tabs |-> IF tpc[t] \in {"tick", "check"} THEN "connect" ELSE tpc[t]]
          /\ drops' = [t \in Tabs |-> IF tpc[t] \in {"tick", "check"} THEN drops[t] + 1
                                      ELSE drops[t]]
          /\ tjob' = [t \in Tabs |-> 0] /\ offset' = [t \in Tabs |-> 0]
          /\ UNCHANGED <<log, ends, seen, verdict>>
          /\ faults < MaxFaults /\ faults' = faults + 1
      BY <1>8 DEF ServerRestart, fileVars
    <2>2. TabTypeOK'
      BY <1>0, <2>1, UpgradeAssumption DEF TabTypeOK, TabPCs
    <2>3. StreamInv'
      BY <1>0, <2>1 DEF TabTypeOK, TabInv, StreamInv
    <2> QED
      BY <2>2, <2>3 DEF TabInv
  <1> QED
    BY <1>1, <1>2, <1>3, <1>4, <1>5, <1>6, <1>7, <1>8 DEF Next, StreamStep, vars, fileVars

(* The invariant of jobs and tabs together. *)
LEMMA TabInvariant == Spec => [](JobInv /\ TabInv)
  <1>1. Init => TabInv
    BY UpgradeAssumption DEF Init, TabInv, TabTypeOK, StreamInv, TabPCs
  <1> QED
    BY <1>1, TabInductive, JobInvariant, PTL DEF Spec

(* Type correctness. *)
THEOREM UpgradeTypeCorrect == Spec => []TypeOK
  <1>1. JobInv /\ TabInv => TypeOK
    BY DEF JobInv, SlotInv, FilesInv, TabInv, TabTypeOK, TypeOK
  <1> QED
    BY <1>1, TabInvariant, PTL

(* A connection that was not dropped shows the lines of its job's log in   *)
(* order, none missing and none cut; each once until one that ends in a    *)
(* carriage return (the byte offset of upgradeStream).                     *)
THEOREM StreamsAreExact == Spec => []StreamExact
  <1>1. TabInv => StreamExact
    BY DEF TabInv, StreamInv, Following, Covers, StreamExact
  <1> QED
    BY <1>1, TabInvariant, PTL
=============================================================================
