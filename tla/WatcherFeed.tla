---------------------------- MODULE WatcherFeed -----------------------------
(***************************************************************************)
(* The go2rtc health watcher of internal/server/go2rtc_watcher.go: a loop  *)
(* that polls go2rtc, tries to restart it over SSH when it stays down and  *)
(* broadcasts events, and the SSE handlers that subscribe to them.         *)
(*                                                                         *)
(* broadcast and subscribe hold w.mu only while they touch lastEvent and   *)
(* subs; the sends on the channels come after the unlock. Each critical    *)
(* section and each send is a step.                                        *)
(***************************************************************************)
EXTENDS Naturals, Sequences

CONSTANTS
    Subs,       \* SSE connections (HandleEvents)
    QueueCap,   \* capacity of a subscriber's channel
    MaxEvents,  \* bound: events emitted
    MaxFails    \* bound: consecutive failed polls

ASSUME WatcherAssumption ==
    MaxEvents \in Nat /\ MaxFails \in Nat /\ QueueCap \in Nat \ {0}

VARIABLES
    wpc,        \* the watcher: what loop does next
    fails,      \* consecutive failed polls
    checks,     \* polls so far; past 11 only what checks % 10 needs
    outbox,     \* the watcher: the statuses it still has to emit in this check
    pending,    \* the watcher: channels broadcast has still to send to
    last,       \* w.lastEvent: its number and status, number 0 for nil
    subs,       \* w.subs
    spc,        \* per connection: what HandleEvents does next
    snap,       \* per connection: the event subscribe read
    queue,      \* per connection: its channel, by event number
    shown,      \* per connection: the last event written to the browser
    clean       \* history: connections with no dropped and no overtaken event

watchVars == <<wpc, fails, checks, outbox, pending>>
connVars  == <<spc, snap, queue, shown, clean>>
vars == <<watchVars, last, subs, connVars>>

NoEvent == [n |-> 0, ok |-> FALSE]

Init ==
    /\ wpc = "timer" /\ fails = 0 /\ checks = 0 /\ outbox = <<>> /\ pending = {}
    /\ last = NoEvent /\ subs = {}
    /\ spc = [c \in Subs |-> "none"]
    /\ snap = [c \in Subs |-> 0]
    /\ queue = [c \in Subs |-> <<>>]
    /\ shown = [c \in Subs |-> 0]
    /\ clean = {}

-----------------------------------------------------------------------------
(* loop: a check, then the events it emits, then the timer again.          *)

(* checks++. From 2 on only the remainder by 10 matters. *)
NextCheck == IF checks = 11 THEN 2 ELSE checks + 1

Heartbeat(n) == n = 1 \/ n = 10

(* Mutant: fails is reset before wasDown is computed. *)
RecoveredNever == FALSE

(* wasDown := fails > 0 *)
WasDown == fails > 0

(* The statuses a good check emits: "recovered", else a heartbeat on the   *)
(* first check and on every tenth.                                         *)
GoodNews == IF WasDown \/ Heartbeat(NextCheck) THEN <<TRUE>> ELSE <<>>

(* The statuses the n-th bad check emits: one, and another for the outcome *)
(* of tryRestart when it is the second or a multiple of six.               *)
BadNews(n) == IF n = 2 \/ n % 6 = 0 THEN <<FALSE, FALSE>> ELSE <<FALSE>>

(* poll() and what follows from it. Every event of a check is numbered     *)
(* before MaxEvents is reached.                                            *)
Check(up) ==
    /\ wpc = "timer"
    /\ last.n + 2 <= MaxEvents
    /\ up \/ fails < MaxFails
    /\ checks' = NextCheck
    /\ fails' = IF up THEN 0 ELSE fails + 1
    /\ outbox' = IF up THEN GoodNews ELSE BadNews(fails + 1)
    /\ wpc' = IF outbox' = <<>> THEN "timer" ELSE "emit"
    /\ UNCHANGED <<pending, last, subs, connVars>>

(* Mutant: subs is copied before the critical section that sets lastEvent, *)
(* so that the copy can miss a connection that has subscribed since.       *)
BroadcastSkipsOne ==
    /\ wpc = "emit"
    /\ last' = [n |-> last.n + 1, ok |-> Head(outbox)]
    /\ outbox' = Tail(outbox)
    /\ \/ subs = {} /\ pending' = {}
       \/ \E c \in subs : pending' = subs \ {c}
    /\ wpc' = "send"
    /\ clean' = clean \ {c \in subs : spc[c] = "greet"}
    /\ UNCHANGED <<fails, checks, subs, spc, snap, queue, shown>>

(* broadcast under w.mu: set lastEvent and copy the subscribers. One that  *)
(* is still to send the event it read will be overtaken by this one.       *)
Broadcast ==
    /\ wpc = "emit"
    /\ last' = [n |-> last.n + 1, ok |-> Head(outbox)]
    /\ outbox' = Tail(outbox)
    /\ pending' = subs
    /\ wpc' = "send"
    /\ clean' = clean \ {c \in subs : spc[c] = "greet"}
    /\ UNCHANGED <<fails, checks, subs, spc, snap, queue, shown>>

(* Mutant: an event is sent to a subscriber twice. *)
SendTwice(c) ==
    /\ wpc = "send" /\ c \in pending
    /\ Len(queue[c]) < QueueCap
    /\ queue' = [queue EXCEPT ![c] = Append(@, last.n)]
    /\ UNCHANGED <<watchVars, last, subs, spc, snap, shown, clean>>

(* broadcast without the lock: a send that does not block, and drops the   *)
(* event when the channel is full.                                         *)
Send(c) ==
    /\ wpc = "send" /\ c \in pending
    /\ pending' = pending \ {c}
    /\ IF Len(queue[c]) < QueueCap
       THEN /\ queue' = [queue EXCEPT ![c] = Append(@, last.n)]
            /\ UNCHANGED clean
       ELSE /\ clean' = clean \ {c}
            /\ UNCHANGED queue
    /\ UNCHANGED <<wpc, fails, checks, outbox, last, subs, spc, snap, shown>>

(* broadcast returns: the next event of the check, after tryRestart's SSH  *)
(* call if there was one, or the timer.                                    *)
EndBroadcast ==
    /\ wpc = "send" /\ pending = {}
    /\ wpc' = IF outbox = <<>> THEN "timer" ELSE "emit"
    /\ UNCHANGED <<fails, checks, outbox, pending, last, subs, connVars>>

-----------------------------------------------------------------------------
(* HandleEvents and subscribe.                                             *)

(* subscribe under w.mu: register and read lastEvent. *)
Subscribe(c) ==
    /\ spc[c] = "none"
    /\ subs' = subs \cup {c}
    /\ snap' = [snap EXCEPT ![c] = last.n]
    /\ spc' = [spc EXCEPT ![c] = "greet"]
    /\ clean' = clean \cup {c}
    /\ UNCHANGED <<watchVars, last, queue, shown>>

(* Mutant: the event is sent even when there has been none. *)
GreetNil(c) ==
    /\ spc[c] = "greet" /\ Len(queue[c]) < QueueCap
    /\ queue' = [queue EXCEPT ![c] = Append(@, snap[c])]
    /\ spc' = [spc EXCEPT ![c] = "stream"]
    /\ UNCHANGED <<watchVars, last, subs, snap, shown, clean>>

(* subscribe without the lock: a blocking send of the event it read. *)
Greet(c) ==
    /\ spc[c] = "greet"
    /\ \/ /\ snap[c] = 0
          /\ UNCHANGED queue
       \/ /\ snap[c] # 0 /\ Len(queue[c]) < QueueCap
          /\ queue' = [queue EXCEPT ![c] = Append(@, snap[c])]
    /\ spc' = [spc EXCEPT ![c] = "stream"]
    /\ UNCHANGED <<watchVars, last, subs, snap, shown, clean>>

(* Mutant: an event is not flushed before the next one is there. *)
DeliverUnflushed(c) ==
    /\ spc[c] = "stream" /\ Len(queue[c]) > 1
    /\ shown' = [shown EXCEPT ![c] = Head(queue[c])]
    /\ queue' = [queue EXCEPT ![c] = Tail(@)]
    /\ UNCHANGED <<watchVars, last, subs, spc, snap, clean>>

(* Mutant: the channel is drained and only its newest event is shown. *)
DeliverNewest(c) ==
    /\ spc[c] = "stream" /\ queue[c] # <<>>
    /\ shown' = [shown EXCEPT ![c] = queue[c][Len(queue[c])]]
    /\ queue' = [queue EXCEPT ![c] = <<>>]
    /\ UNCHANGED <<watchVars, last, subs, spc, snap, clean>>

(* An event goes from the channel to the browser. *)
Deliver(c) ==
    /\ spc[c] = "stream" /\ queue[c] # <<>>
    /\ shown' = [shown EXCEPT ![c] = Head(queue[c])]
    /\ queue' = [queue EXCEPT ![c] = Tail(@)]
    /\ UNCHANGED <<watchVars, last, subs, spc, snap, clean>>

(* The browser goes away: the deferred unsubscribe. A broadcast under way  *)
(* may still send to the channel, which nobody reads any more.             *)
Unsubscribe(c) ==
    /\ spc[c] = "stream"
    /\ subs' = subs \ {c}
    /\ spc' = [spc EXCEPT ![c] = "gone"]
    /\ clean' = clean \ {c}
    /\ UNCHANGED <<watchVars, last, snap, queue, shown>>

-----------------------------------------------------------------------------

Watch == \/ \E up \in BOOLEAN : Check(up)
         \/ Broadcast
         \/ \E c \in Subs : Send(c)
         \/ EndBroadcast

Next ==
    \/ Watch
    \/ \E c \in Subs : Subscribe(c) \/ Greet(c) \/ Deliver(c) \/ Unsubscribe(c)

Spec == Init /\ [][Next]_vars

(* The watcher goes on as long as poll and SSHRun return, and a connected  *)
(* browser is written to.                                                  *)
Fairness ==
    /\ WF_vars(Watch)
    /\ \A c \in Subs : WF_vars(Greet(c)) /\ WF_vars(Deliver(c))

FairSpec == Spec /\ Fairness

-----------------------------------------------------------------------------
(* Properties.                                                             *)

(* Type invariant. *)
TypeOK ==
    /\ wpc \in {"timer", "emit", "send"}
    /\ fails \in 0 .. MaxFails /\ checks \in 0 .. 11
    /\ outbox \in Seq(BOOLEAN) /\ pending \subseteq Subs
    /\ last \in [n : 0 .. MaxEvents, ok : BOOLEAN]
    /\ subs \subseteq Subs
    /\ spc \in [Subs -> {"none", "greet", "stream", "gone"}]
    /\ snap \in [Subs -> 0 .. MaxEvents]
    /\ queue \in [Subs -> Seq(1 .. MaxEvents)]
    /\ \A c \in Subs : Len(queue[c]) <= QueueCap
    /\ shown \in [Subs -> 0 .. MaxEvents]
    /\ clean \subseteq subs

(* Between checks, what a new subscriber is told is what the last poll     *)
(* found: no change of health goes by without an event.                    *)
LastEventTruthful ==
    wpc = "timer" /\ checks # 0 => last.n # 0 /\ last.ok = (fails = 0)

(* A connection that no event overtook and none was dropped for gets every *)
(* event after the one it starts with, in order and once: subscribe's      *)
(* critical section loses none to, and repeats none of, a broadcast.       *)
FeedContiguous ==
    \A c \in clean : spc[c] = "stream" /\ shown[c] # 0 =>
        /\ queue[c] = [i \in 1 .. Len(queue[c]) |-> shown[c] + i]
        /\ shown[c] + Len(queue[c]) = IF c \in pending THEN last.n - 1 ELSE last.n

(* The connections that HealthFeed follows, and where each of them is: past *)
(* what the browser was shown, or before what subscribe read.              *)
Following == {c \in clean : spc[c] = "stream"}

Place(c) == IF shown[c] # 0 \/ snap[c] = 0 THEN shown[c] ELSE snap[c] - 1

(* What the browsers are shown is what HealthFeed promises: a connection   *)
(* starts with the last event and gets the later ones one by one, through  *)
(* any interleaving of subscribe, of broadcast outside its lock and of the *)
(* handlers, for as long as none of its events was dropped or overtaken.   *)
Feed == INSTANCE HealthFeed WITH
    Readers   <- Subs,
    top       <- last.n,
    ok        <- last.ok,
    following <- Following,
    place     <- [c \in Subs |-> IF c \in Following THEN Place(c) ELSE 0]

FeedProvided == Feed!Spec

(* Such a connection, when it stays, gets to every event that is the last  *)
(* one while it is there, without another having to push it.               *)
FeedCatchesUp ==
    \A c \in Subs, n \in 1 .. MaxEvents :
        (spc[c] = "stream" /\ c \in clean /\ last.n = n) ~>
            (c \notin clean \/ shown[c] >= n)

-----------------------------------------------------------------------------
(* "most recent event, sent to new subscribers immediately": a connection  *)
(* that has read all it was sent shows the last event, unless some were    *)
(* dropped. It does not hold: the event subscribe read can be sent after a *)
(* newer one.                                                              *)
SubscriberIsCurrent ==
    \A c \in Subs : spc[c] = "stream" /\ queue[c] = <<>> /\ c \notin pending =>
        shown[c] = last.n
=============================================================================
