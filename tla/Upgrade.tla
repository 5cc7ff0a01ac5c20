------------------------------ MODULE Upgrade -------------------------------
(***************************************************************************)
(* The PiKVM upgrade of internal/server/upgrade.go and runUpgrade() of     *)
(* web/pikvm/static/app.js. upgradeRun starts a job unless one is running; *)
(* the job (runUpgradeAsync) writes lines to its log file and closes       *)
(* job.done last; upgradeStream tails the file every 150 ms for each       *)
(* browser tab and sends "done"; the tab then reads its verdict off the    *)
(* last line it has.                                                       *)
(*                                                                         *)
(* A tab and the upgradeStream call that serves it are one process: the    *)
(* connection is reliable until it drops, and EventSource reconnects.      *)
(***************************************************************************)
EXTENDS Naturals, Sequences, FiniteSets

CONSTANTS
    Tabs,       \* browser tabs
    Printed,    \* lines the remote command prints, as the log stores them
    CRLines,    \* those that still end in a carriage return there
    Width,      \* per line: its bytes in the log, the newline included
    MaxJobs,    \* bound: jobs started
    MaxOut,     \* bound: lines the remote command prints
    MaxFaults   \* bound: dropped connections and server restarts

(* A line of the job itself is information or an error. *)
Lines == {"info", "error"} \cup Printed

ASSUME UpgradeAssumption ==
    /\ MaxJobs \in Nat /\ MaxOut \in Nat /\ MaxFaults \in Nat
    /\ CRLines \subseteq Printed /\ Width \in [Lines -> Nat \ {0}]
    /\ \A l \in CRLines : Width[l] > 1

Jobs == 1 .. MaxJobs

VARIABLES
    curJob,   \* curJob, 0 when nil
    njobs,    \* jobs started so far
    jpc,      \* per job: what runUpgradeAsync does next
    log,      \* per job: the lines of its log file
    ends,     \* per job: the byte of the file each of them ends at
    created,  \* jobs whose log file exists
    done,     \* jobs whose done channel is closed
    tpc,      \* per tab: what it, or the stream that serves it, does next
    tjob,     \* per tab: the job upgradeStream read
    offset,   \* per tab: the byte of the file upgradeStream goes on from
    seen,     \* per tab: upgradeLog, each a job, a line and the byte it starts at
    verdict,  \* per tab: the toast runUpgrade() ends with
    drops,    \* per tab: history, connections lost in this run
    faults    \* faults so far

jobVars  == <<curJob, njobs>>
fileVars == <<log, ends, created>>
tabVars  == <<tpc, tjob, offset, seen, verdict, drops>>
vars == <<jobVars, jpc, fileVars, done, tabVars, faults>>

JobPCs == {"none", "create", "host", "dial", "session", "output", "stuck",
           "closing", "done", "killed"}
TabPCs == {"idle", "connect", "tick", "check", "gone"}

Init ==
    /\ curJob = 0 /\ njobs = 0
    /\ jpc = [j \in Jobs |-> "none"]
    /\ log = [j \in Jobs |-> <<>>] /\ ends = [j \in Jobs |-> <<>>]
    /\ created = {} /\ done = {}
    /\ tpc = [t \in Tabs |-> "idle"]
    /\ tjob = [t \in Tabs |-> 0]
    /\ offset = [t \in Tabs |-> 0]
    /\ seen = [t \in Tabs |-> <<>>]
    /\ verdict = [t \in Tabs |-> "none"]
    /\ drops = [t \in Tabs |-> 0]
    /\ faults = 0

-----------------------------------------------------------------------------
(* upgradeRun, called by runUpgrade() of a tab that has none running.      *)

(* Mutant: a running job does not refuse another. *)
AlwaysFree == TRUE

(* No job, or the last one has finished; otherwise the answer is 409 and   *)
(* the tab stays idle.                                                     *)
JobSlotFree == curJob = 0 \/ curJob \in done

(* Mutant: the new job takes the number, and the log, of the last one. *)
RunUpgradeSameLog(t) ==
    /\ tpc[t] = "idle" /\ njobs < MaxJobs
    /\ JobSlotFree
    /\ curJob' = njobs + 1
    /\ jpc' = [jpc EXCEPT ![njobs + 1] = "create"]
    /\ tpc' = [tpc EXCEPT ![t] = "connect"]
    /\ seen' = [seen EXCEPT ![t] = <<>>]
    /\ verdict' = [verdict EXCEPT ![t] = "none"]
    /\ drops' = [drops EXCEPT ![t] = 0]
    /\ UNCHANGED <<njobs, fileVars, done, tjob, offset, faults>>

(* The check and the assignment are under jobMu; the goroutine follows.    *)
RunUpgrade(t) ==
    /\ tpc[t] = "idle" /\ njobs < MaxJobs
    /\ JobSlotFree
    /\ njobs' = njobs + 1
    /\ curJob' = njobs + 1
    /\ jpc' = [jpc EXCEPT ![njobs + 1] = "create"]
    /\ tpc' = [tpc EXCEPT ![t] = "connect"]
    /\ seen' = [seen EXCEPT ![t] = <<>>]
    /\ verdict' = [verdict EXCEPT ![t] = "none"]
    /\ drops' = [drops EXCEPT ![t] = 0]
    /\ UNCHANGED <<fileVars, done, tjob, offset, faults>>

-----------------------------------------------------------------------------
(* runUpgradeAsync(job).                                                   *)

(* The byte at which the first n lines of the log of j end. *)
End(j, n) == IF n = 0 THEN 0 ELSE ends[j][n]

Size(j) == End(j, Len(log[j]))

(* writeLine: append a line to the log, then go to "to". *)
WriteLine(j, line, to) ==
    /\ log' = [log EXCEPT ![j] = Append(@, line)]
    /\ ends' = [ends EXCEPT ![j] = Append(@, Size(j) + Width[line])]
    /\ jpc' = [jpc EXCEPT ![j] = to]
    /\ UNCHANGED <<jobVars, created, done, tabVars, faults>>

(* Move on without writing. *)
Proceed(j, to) ==
    /\ jpc' = [jpc EXCEPT ![j] = to]
    /\ UNCHANGED <<jobVars, fileVars, done, tabVars, faults>>

(* Mutant: one log path for every job, which os.Create truncates. *)
CreateLogSamePath(j) ==
    /\ jpc[j] = "create"
    /\ log' = [i \in Jobs |-> <<>>] /\ ends' = [i \in Jobs |-> <<>>]
    /\ created' = Jobs
    /\ jpc' = [jpc EXCEPT ![j] = "host"]
    /\ UNCHANGED <<jobVars, done, tabVars, faults>>

(* os.Create, whose failure ends the job without a log file. *)
CreateLog(j) ==
    /\ jpc[j] = "create"
    /\ \/ /\ created' = created \cup {j}
          /\ jpc' = [jpc EXCEPT ![j] = "host"]
       \/ /\ jpc' = [jpc EXCEPT ![j] = "closing"]
          /\ UNCHANGED created
    /\ UNCHANGED <<jobVars, log, ends, done, tabVars, faults>>

(* host == "", or "Connecting to ...". *)
Connect(j) ==
    /\ jpc[j] = "host"
    /\ WriteLine(j, "error", "closing") \/ WriteLine(j, "info", "dial")

(* sshConfig or ssh.Dial fails, or "Connected. Running ...", with the      *)
(* empty line after it.                                                    *)
Dial(j) ==
    /\ jpc[j] = "dial"
    /\ WriteLine(j, "error", "closing") \/ WriteLine(j, "info", "session")

(* NewSession or session.Start fails, or the command runs. *)
OpenSession(j) ==
    /\ jpc[j] = "session"
    /\ WriteLine(j, "error", "closing") \/ Proceed(j, "output")

(* A line of the command, whose output starts after two lines. The scanner *)
(* drops the carriage return before the newline; of "\r\r\n" one is left.  *)
(* A line that speaks of an error, which the tab would take for a failure  *)
(* when it is the last, counts as any other here.                          *)
Output(j) ==
    /\ jpc[j] = "output" /\ Len(log[j]) < 2 + MaxOut
    /\ \E line \in Printed : WriteLine(j, line, "output")

(* A line over bufio.Scanner's 64 KB stops the scanner. Nobody reads the   *)
(* pipe any more, session.Wait never returns and <-cmdDone blocks.         *)
LongLine(j) == jpc[j] = "output" /\ Proceed(j, "stuck")

(* Mutant: job.done is closed before the last line is written. *)
CommandEndsDone(j) ==
    /\ jpc[j] = "output"
    /\ done' = done \cup {j}
    /\ jpc' = [jpc EXCEPT ![j] = "dial"]
    /\ UNCHANGED <<jobVars, fileVars, tabVars, faults>>

(* The command ends: session.Wait's error is a last line. *)
CommandEnds(j) ==
    /\ jpc[j] = "output"
    /\ WriteLine(j, "error", "closing") \/ Proceed(j, "closing")

(* The deferred close(job.done), after every other deferred call. *)
CloseDone(j) ==
    /\ jpc[j] = "closing"
    /\ done' = done \cup {j}
    /\ jpc' = [jpc EXCEPT ![j] = "done"]
    /\ UNCHANGED <<jobVars, fileVars, tabVars, faults>>

-----------------------------------------------------------------------------
(* upgradeStream, and the EventSource of the tab.                          *)

(* curJob is read once. Without a job the answer is 404, after which an    *)
(* EventSource does not reconnect.                                         *)
OpenStream(t) ==
    /\ tpc[t] = "connect"
    /\ IF curJob = 0
       THEN /\ tpc' = [tpc EXCEPT ![t] = "gone"]
            /\ UNCHANGED <<tjob, offset>>
       ELSE /\ tpc' = [tpc EXCEPT ![t] = "tick"]
            /\ tjob' = [tjob EXCEPT ![t] = curJob]
            /\ offset' = [offset EXCEPT ![t] = 0]
    /\ UNCHANGED <<jobVars, jpc, fileVars, done, seen, verdict, drops, faults>>

(* How many lines of the log of j end within its first n bytes. *)
LinesBefore(j, n) == Cardinality({i \in 1 .. Len(log[j]) : ends[j][i] <= n})

(* What a scan from byte n to the end of the file reads: the lines after   *)
(* it, the first from where byte n is in it.                               *)
NewLines(j, n) ==
    LET m == LinesBefore(j, n)
    IN  [i \in 1 .. Len(log[j]) - m |->
             <<j, m + i, IF i = 1 THEN n - End(j, m) ELSE 0>>]

(* The lines of that scan whose carriage return ScanLines drops. *)
Stripped(j, n) == {i \in 1 .. Len(log[j]) : log[j][i] \in CRLines /\ ends[j][i] > n + 1}

(* The offset after the scan: len(scanner.Text()) + 1 for each line, which *)
(* is a byte short of each that was stripped.                              *)
NextOffset(j, n) == Size(j) - Cardinality(Stripped(j, n))

(* Mutant: the offset is not advanced. *)
RescanLog(t) ==
    /\ tpc[t] = "tick" /\ tjob[t] \in created
    /\ seen' = [seen EXCEPT ![t] = @ \o NewLines(tjob[t], offset[t])]
    /\ tpc' = [tpc EXCEPT ![t] = "check"]
    /\ UNCHANGED <<jobVars, jpc, fileVars, done, offset, tjob, verdict, drops, faults>>

(* Mutant: a tick that finds no new line does not look at job.done. *)
ScanNewOnly(t) ==
    /\ tpc[t] = "tick" /\ tjob[t] \in created
    /\ Size(tjob[t]) > offset[t]
    /\ seen' = [seen EXCEPT ![t] = @ \o NewLines(tjob[t], offset[t])]
    /\ offset' = [offset EXCEPT ![t] = NextOffset(tjob[t], @)]
    /\ tpc' = [tpc EXCEPT ![t] = "check"]
    /\ UNCHANGED <<jobVars, jpc, fileVars, done, tjob, verdict, drops, faults>>

(* A tick: without the file, wait for the next one; else send the lines    *)
(* after the offset and go on to look at job.done. Behind a stripped line  *)
(* the next tick sends the end of what it has sent once more.              *)
ScanLog(t) ==
    /\ tpc[t] = "tick" /\ tjob[t] \in created
    /\ seen' = [seen EXCEPT ![t] = @ \o NewLines(tjob[t], offset[t])]
    /\ offset' = [offset EXCEPT ![t] = NextOffset(tjob[t], @)]
    /\ tpc' = [tpc EXCEPT ![t] = "check"]
    /\ UNCHANGED <<jobVars, jpc, fileVars, done, tjob, verdict, drops, faults>>

(* job.done is open: wait for the next tick. *)
KeepTailing(t) ==
    /\ tpc[t] = "check" /\ tjob[t] \notin done
    /\ tpc' = [tpc EXCEPT ![t] = "tick"]
    /\ UNCHANGED <<jobVars, jpc, fileVars, done, tjob, offset, seen, verdict,
                   drops, faults>>

(* The last line of the tab is an error. Not one that is the end of an     *)
(* error line sent once more, behind its "ERROR".                          *)
LastIsError(t) ==
    /\ seen[t] # <<>>
    /\ LET l == seen[t][Len(seen[t])] IN l[3] = 0 /\ log[l[1]][l[2]] = "error"

(* upgradeStream returns. *)
StreamReturns(t, to) == /\ tpc' = [tpc EXCEPT ![t] = to]
                        /\ tjob' = [tjob EXCEPT ![t] = 0]
                        /\ offset' = [offset EXCEPT ![t] = 0]

(* "event: done", on which the tab judges by the last line of its log. *)
SendDone(t) ==
    /\ tpc[t] = "check" /\ tjob[t] \in done
    /\ StreamReturns(t, "idle")
    /\ verdict' = [verdict EXCEPT
                     ![t] = IF LastIsError(t) THEN "failed" ELSE "complete"]
    /\ UNCHANGED <<jobVars, jpc, fileVars, done, seen, drops, faults>>

-----------------------------------------------------------------------------
(* Faults.                                                                 *)

(* The connection drops; EventSource opens another, and the server starts  *)
(* over. The tab keeps the lines it has.                                   *)
Drop(t) ==
    /\ tpc[t] \in {"tick", "check"} /\ faults < MaxFaults
    /\ StreamReturns(t, "connect")
    /\ drops' = [drops EXCEPT ![t] = @ + 1]
    /\ faults' = faults + 1
    /\ UNCHANGED <<jobVars, jpc, fileVars, done, seen, verdict>>

(* The server restarts: jobs and streams are gone, the log files are not. *)
ServerRestart ==
    /\ faults < MaxFaults
    /\ faults' = faults + 1
    /\ curJob' = 0
    /\ jpc' = [j \in Jobs |-> IF jpc[j] \in {"none", "done"} THEN jpc[j] ELSE "killed"]
    /\ tpc' = [t \in Tabs |-> IF tpc[t] \in {"tick", "check"} THEN "connect" ELSE tpc[t]]
    /\ drops' = [t \in Tabs |-> IF tpc[t] \in {"tick", "check"} THEN drops[t] + 1
                                ELSE drops[t]]
    /\ tjob' = [t \in Tabs |-> 0] /\ offset' = [t \in Tabs |-> 0]
    /\ UNCHANGED <<njobs, fileVars, done, seen, verdict>>

-----------------------------------------------------------------------------

JobStep(j) == \/ CreateLog(j) \/ Connect(j) \/ Dial(j) \/ OpenSession(j)
              \/ Output(j) \/ LongLine(j) \/ CommandEnds(j) \/ CloseDone(j)

StreamStep(t) == OpenStream(t) \/ ScanLog(t) \/ KeepTailing(t) \/ SendDone(t)

Next ==
    \/ \E t \in Tabs : RunUpgrade(t) \/ StreamStep(t) \/ Drop(t)
    \/ \E j \in Jobs : JobStep(j)
    \/ ServerRestart

Spec == Init /\ [][Next]_vars

(* Goroutines that can run do run, ssh and the remote command return. *)
Fairness == /\ \A t \in Tabs : WF_vars(StreamStep(t))
            /\ \A j \in Jobs : WF_vars(JobStep(j))

FairSpec == Spec /\ Fairness

-----------------------------------------------------------------------------
(* Properties.                                                             *)

(* Type invariant. *)
TypeOK ==
    /\ njobs \in 0 .. MaxJobs /\ curJob \in 0 .. njobs
    /\ jpc \in [Jobs -> JobPCs]
    /\ log \in [Jobs -> Seq(Lines)] /\ ends \in [Jobs -> Seq(Nat)]
    /\ \A j \in Jobs : Len(ends[j]) = Len(log[j])
    /\ created \subseteq Jobs /\ done \subseteq Jobs
    /\ tpc \in [Tabs -> TabPCs] /\ tjob \in [Tabs -> 0 .. MaxJobs]
    /\ offset \in [Tabs -> Nat] /\ seen \in [Tabs -> Seq(Jobs \X Nat \X Nat)]
    /\ verdict \in [Tabs -> {"none", "complete", "failed"}]
    /\ drops \in [Tabs -> Nat] /\ faults \in 0 .. MaxFaults

Running(j) == jpc[j] \notin {"none", "done", "killed"}

(* The server never has two jobs under way, whichever tabs ask for one and *)
(* in whatever order they do (upgradeRun's check of curJob.done). What a   *)
(* command does on the PiKVM after its server died is not counted.         *)
OneUpgrade == \A i, j \in Jobs : Running(i) /\ Running(j) => i = j

(* The jobs, with curJob, files and channels, are what UpgradeService      *)
(* promises: started one at a time and in order, and a line is only ever   *)
(* added to the log of the job under way.                                  *)
Service == INSTANCE UpgradeService WITH
    Numbers <- Jobs,
    Lines   <- Lines,
    active  <- IF curJob \in Jobs /\ Running(curJob) THEN curJob ELSE 0,
    started <- njobs,
    text    <- log

ServiceProvided == Service!Spec

(* The sequence s of lines shows those of job j in order, none missing:    *)
(* before a line come all earlier ones, whole, and before a piece of a     *)
(* line the whole of it.                                                   *)
InOrder(s, j) ==
    \A n \in DOMAIN s :
        /\ s[n][1] = j
        /\ \A i \in 1 .. s[n][2] :
               i < s[n][2] \/ s[n][3] > 0 => \E k \in 1 .. n - 1 : s[k] = <<j, i, 0>>

(* Up to the first line that ends in a carriage return it shows each once. *)
OnceUntilCR(s, j) ==
    \A n \in DOMAIN s :
        (\A k \in 1 .. n - 1 : log[j][s[k][2]] \notin CRLines) => s[n] = <<j, n, 0>>

(* A connection that was not dropped shows the lines of its job's log in   *)
(* order, none missing and none cut, whatever the lines are; and each once *)
(* as long as none ended in a carriage return (the byte offset of          *)
(* upgradeStream, kept from the text of lines that ScanLines has stripped: *)
(* it may fall behind the file, and never gets ahead of it).               *)
StreamExact ==
    \A t \in Tabs : drops[t] = 0 /\ tpc[t] \in {"tick", "check"} =>
        InOrder(seen[t], tjob[t]) /\ OnceUntilCR(seen[t], tjob[t])

(* Once job.done is closed its log does not change any more: the close is  *)
(* deferred first and runs last.                                           *)
LogFrozen == [][\A j \in done : log'[j] = log[j]]_vars

(* A stream whose job has finished and has a log ends with "done".         *)
StreamEnds ==
    \A t \in Tabs : (tpc[t] \in {"tick", "check"} /\ tjob[t] \in done \cap created)
                        ~> (tpc[t] \notin {"tick", "check"})

-----------------------------------------------------------------------------
(* "Drain any remaining lines (flush above already read them)": when a     *)
(* stream ends, every line of the log has been sent. It does not hold:     *)
(* lines written after the scan and before job.done is looked at are lost, *)
(* the ERROR line of a failure among them.                                 *)
DoneMeansAll ==
    [][\A t \in Tabs : tpc[t] = "check" /\ tpc'[t] = "idle" =>
           \A i \in DOMAIN log[tjob[t]] :
               \E n \in DOMAIN seen[t] : seen[t][n] = <<tjob[t], i, 0>>]_vars
=============================================================================
