------------------------------ MODULE Capture -------------------------------
(***************************************************************************)
(* Client.Screenshot of internal/client/client.go. A Client is shared by   *)
(* the recorder's loops, the handlers and the polling streams, which call  *)
(* it at the same time. A call tries the HTTP snapshot, asks whether the   *)
(* machine is on (checkSignal, whose answer is kept for SignalTTL), and    *)
(* goes through three SSH tiers. Failures are logged until they are muted. *)
(*                                                                         *)
(* signalMu protects the signal cache and is held during its HTTP request. *)
(* shmStale and logMuteUntil have no lock: a read and a later write are    *)
(* two steps.                                                              *)
(*                                                                         *)
(* The code compares times with time.Now(). Here every time is kept as its *)
(* distance from now, up to the point where it makes no difference, so the *)
(* clock needs no bound.                                                   *)
(***************************************************************************)
EXTENDS Naturals

CONSTANTS
    Callers,    \* goroutines that call Screenshot
    Nobody,     \* not a caller
    SignalTTL,  \* 10 s
    Timeout,    \* what a caller's context leaves the request for the state
    MuteFor     \* 60 s

ASSUME CaptureAssumption ==
    /\ Nobody \notin Callers
    /\ SignalTTL \in Nat \ {0} /\ Timeout \in Nat /\ MuteFor \in Nat

(* The oldest moment a decision may still rest on. *)
Horizon == SignalTTL + Timeout

VARIABLES
    alive,      \* power || hdmi, as the PiKVM would answer now
    downAge,    \* history: time since alive was last false, up to Horizon
    ssh,        \* sshCfg # nil
    lock,       \* who holds signalMu
    ask,        \* its request: how long under way, what alive has been
    signalOK,   \* c.signalOK
    cacheAge,   \* time since c.signalChecked, up to SignalTTL
    muteLeft,   \* time until c.logMuteUntil, 0 when past
    shmStale,   \* c.shmStale
    pc,         \* per caller: what Screenshot does next
    muted,      \* per caller: its local variable muted
    news        \* history: what the log says since the last success

worldVars  == <<alive, downAge, ssh>>
signalVars == <<lock, ask, signalOK, cacheAge>>
captureVars == <<worldVars, signalVars, muteLeft, shmStale, pc, muted, news>>

NoAsk == [age |-> 0, seen |-> {}]

Init ==
    /\ alive \in BOOLEAN /\ ssh \in BOOLEAN
    /\ downAge = IF alive THEN Horizon ELSE 0
    /\ lock = Nobody /\ ask = NoAsk
    /\ signalOK = FALSE /\ cacheAge = SignalTTL
    /\ muteLeft = 0 /\ shmStale = FALSE
    /\ pc = [c \in Callers |-> "idle"]
    /\ muted = [c \in Callers |-> FALSE]
    /\ news = "none"

Calling(c) == pc[c] \notin {"idle", "frame"}
Others(c) == {d \in Callers \ {c} : Calling(d)}

Goto(c, to) == pc' = [pc EXCEPT ![c] = to]

-----------------------------------------------------------------------------
(* Screenshot up to its first tier, and its results.                       *)

Call(c) ==
    /\ pc[c] = "idle"
    /\ Goto(c, "http")
    /\ muted' = [muted EXCEPT ![c] = muteLeft > 0]
    /\ news' = IF Others(c) # {} THEN "overlap" ELSE news
    /\ UNCHANGED <<worldVars, signalVars, muteLeft, shmStale>>

(* Mutant: a success leaves the mute as it is. *)
DeliverMuted(c) ==
    /\ muted' = [muted EXCEPT ![c] = FALSE]
    /\ Goto(c, "frame")
    /\ news' = IF Others(c) = {} THEN "none" ELSE news
    /\ UNCHANGED <<worldVars, signalVars, muteLeft>>

(* A tier delivered: clear the mute, log the success whether muted or not. *)
(* The caller has its frame at "frame".                                    *)
Deliver(c) ==
    /\ muteLeft' = 0
    /\ muted' = [muted EXCEPT ![c] = FALSE]
    /\ Goto(c, "frame")
    /\ news' = IF Others(c) = {} THEN "none" ELSE news
    /\ UNCHANGED <<worldVars, signalVars>>

(* The caller is done with the frame. *)
UseFrame(c) ==
    /\ pc[c] = "frame"
    /\ Goto(c, "idle")
    /\ UNCHANGED <<worldVars, signalVars, muteLeft, shmStale, muted, news>>

(* A failure gets an entry in the capture log. "news" starts anew when a   *)
(* call succeeds with no other under way, and is "overlap" from the moment *)
(* two calls meet until then; "hidden" is a failure without an entry.      *)
Logged == IF news = "overlap" THEN news ELSE "told"

(* A tier failed: logf unless muted, and go on. *)
Fall(c, to) ==
    /\ news' = IF muted[c] THEN news ELSE Logged
    /\ Goto(c, to)
    /\ UNCHANGED <<worldVars, signalVars, muteLeft, shmStale, muted>>

(* Go on without logging or writing anything. *)
Proceed(c, to) ==
    /\ Goto(c, to)
    /\ UNCHANGED <<worldVars, signalVars, muteLeft, shmStale, muted, news>>

HttpOK(c)    == pc[c] = "http" /\ Deliver(c) /\ shmStale' = FALSE
HttpFails(c) == pc[c] = "http" /\ Fall(c, "signal")

-----------------------------------------------------------------------------
(* checkSignal.                                                            *)

(* What Screenshot does with its answer. *)
Verdict(ok) == IF ok THEN "rtsp" ELSE "report"

(* Mutant: an answer as old as the limit still counts. *)
SlowExpiry == cacheAge <= SignalTTL

(* time.Since(c.signalChecked) < 10*time.Second *)
CacheValid == cacheAge < SignalTTL

CheckCached(c) ==
    /\ pc[c] = "signal" /\ lock = Nobody
    /\ CacheValid
    /\ Proceed(c, Verdict(signalOK))

(* The lock is held while the request is under way. *)
AskState(c) ==
    /\ pc[c] = "signal" /\ lock = Nobody
    /\ ~CacheValid
    /\ lock' = c /\ ask' = [age |-> 0, seen |-> {alive}]
    /\ Goto(c, "state")
    /\ UNCHANGED <<worldVars, signalOK, cacheAge, muteLeft, shmStale, muted,
                   news>>

Unlock == lock' = Nobody /\ ask' = NoAsk

(* The answer is what held at some moment since the request was sent. *)
StateAnswers(c) ==
    /\ pc[c] = "state"
    /\ \E ok \in ask.seen :
        /\ signalOK' = ok
        /\ Goto(c, Verdict(ok))
    /\ cacheAge' = 0
    /\ Unlock
    /\ UNCHANGED <<worldVars, muteLeft, shmStale, muted, news>>

(* Mutant: the error path returns without unlocking. *)
StateKeepsLock(c) == pc[c] = "state" /\ Proceed(c, "rtsp")

(* No answer in time or none that parses: assume a signal, keep the cache. *)
StateUnknown(c) ==
    /\ pc[c] = "state"
    /\ Unlock
    /\ Goto(c, "rtsp")
    /\ UNCHANGED <<worldVars, signalOK, cacheAge, muteLeft, shmStale,
                   muted, news>>

-----------------------------------------------------------------------------
(* The SSH tiers.                                                          *)

(* go2rtc's RTSP server; the stale flag of the next tier is left alone. *)
RtspOK(c) ==
    /\ pc[c] = "rtsp" /\ ssh
    /\ Deliver(c) /\ UNCHANGED shmStale

RtspFails(c) == pc[c] = "rtsp" /\ ssh /\ Fall(c, "shm")

(* No capture source without SSH: mute, with no entry of its own. *)
NoSSH(c) == pc[c] = "rtsp" /\ ~ssh /\ Proceed(c, "mute")

(* The shared-memory sink is not read while it is known to be stale. *)
CheckStale(c) ==
    /\ pc[c] = "shm"
    /\ Proceed(c, IF shmStale THEN "tunnel" ELSE "dump")

DumpFails(c) == pc[c] = "dump" /\ Fall(c, "tunnel")

(* screenshotViaSHM compares its frame with the last one any caller got. *)
CompareHash(c) ==
    /\ pc[c] = "dump"
    /\ shmStale' \in BOOLEAN
    /\ Goto(c, "fresh")
    /\ UNCHANGED <<worldVars, signalVars, muteLeft, muted, news>>

(* Screenshot reads shmStale again, which another caller may have set or   *)
(* cleared since.                                                          *)
ShmFresh(c) ==
    /\ pc[c] = "fresh" /\ ~shmStale
    /\ Deliver(c) /\ UNCHANGED shmStale

ShmStale(c) == pc[c] = "fresh" /\ shmStale /\ Fall(c, "tunnel")

TunnelOK(c) ==
    /\ pc[c] = "tunnel"
    /\ Deliver(c) /\ UNCHANGED shmStale

TunnelFails(c) == pc[c] = "tunnel" /\ Fall(c, "report")

-----------------------------------------------------------------------------
(* The failing exits: "state" or "all" is logged past the mute only.       *)

Report(c) ==
    /\ pc[c] = "report"
    /\ news' = IF muteLeft = 0 THEN Logged ELSE news
    /\ Goto(c, "mute")
    /\ UNCHANGED <<worldVars, signalVars, muteLeft, shmStale, muted>>

(* Every failure mutes the log anew. *)
Mute(c) ==
    /\ pc[c] = "mute"
    /\ muteLeft' = MuteFor
    /\ news' = IF news = "none" THEN "hidden" ELSE news
    /\ muted' = [muted EXCEPT ![c] = FALSE]
    /\ Goto(c, "idle")
    /\ UNCHANGED <<worldVars, signalVars, shmStale>>

-----------------------------------------------------------------------------
(* The world: the machine goes on and off, and time passes, but no context *)
(* outlives its deadline.                                                  *)

Flip ==
    /\ alive' = ~alive
    /\ downAge' = IF alive' THEN downAge ELSE 0
    /\ ask' = IF lock = Nobody THEN ask ELSE [ask EXCEPT !.seen = @ \cup {alive'}]
    /\ UNCHANGED <<ssh, lock, signalOK, cacheAge, muteLeft, shmStale, pc, muted,
                   news>>

Older(age, limit) == IF age < limit THEN age + 1 ELSE limit

Tick ==
    /\ lock # Nobody => ask.age < Timeout
    /\ downAge' = IF alive THEN Older(downAge, Horizon) ELSE 0
    /\ ask' = IF lock = Nobody THEN ask ELSE [ask EXCEPT !.age = @ + 1]
    /\ cacheAge' = Older(cacheAge, SignalTTL)
    /\ muteLeft' = IF muteLeft > 0 THEN muteLeft - 1 ELSE 0
    /\ UNCHANGED <<alive, ssh, lock, signalOK, shmStale, pc, muted, news>>

-----------------------------------------------------------------------------

CheckSignal(c) == CheckCached(c) \/ AskState(c)

CallStep(c) ==
    \/ HttpOK(c) \/ HttpFails(c) \/ StateAnswers(c) \/ StateUnknown(c)
    \/ RtspOK(c) \/ RtspFails(c) \/ NoSSH(c)
    \/ CheckStale(c) \/ DumpFails(c) \/ CompareHash(c) \/ ShmFresh(c) \/ ShmStale(c)
    \/ TunnelOK(c) \/ TunnelFails(c) \/ Report(c) \/ Mute(c)

World == Flip \/ Tick

Next == \/ World
        \/ \E c \in Callers :
               Call(c) \/ CheckSignal(c) \/ CallStep(c) \/ UseFrame(c)

Spec == Init /\ [][Next]_captureVars

(* Requests and SSH sessions return, and sync.Mutex serves everyone who    *)
(* waits (its starvation mode), hence strong fairness of the lock.         *)
Fairness == \A c \in Callers : /\ WF_captureVars(CallStep(c))
                               /\ SF_captureVars(CheckSignal(c))

FairSpec == Spec /\ Fairness

-----------------------------------------------------------------------------
(* Properties.                                                             *)

PCs == {"idle", "frame", "http", "signal", "state", "rtsp", "shm", "dump", "fresh",
        "tunnel", "report", "mute"}

(* Type invariant; the lock belongs to the one caller that asks. *)
CaptureTypeOK ==
    /\ alive \in BOOLEAN /\ downAge \in 0 .. Horizon /\ ssh \in BOOLEAN
    /\ lock \in Callers \cup {Nobody}
    /\ ask \in [age : 0 .. Timeout, seen : SUBSET BOOLEAN]
    /\ signalOK \in BOOLEAN /\ cacheAge \in 0 .. SignalTTL
    /\ muteLeft \in 0 .. MuteFor /\ shmStale \in BOOLEAN
    /\ pc \in [Callers -> PCs]
    /\ muted \in [Callers -> BOOLEAN]
    /\ news \in {"none", "told", "hidden", "overlap"}
    /\ \A c \in Callers : pc[c] = "state" <=> lock = c

(* A capture is refused for want of a signal only if the machine really    *)
(* was off and without HDMI less than SignalTTL, and the time of one       *)
(* request, ago: whoever filled the cache, and however requests and cached *)
(* answers interleave with the machine coming up.                          *)
Refuses(c) == pc[c] \in {"signal", "state"} /\ pc'[c] = "report"

RefusalJustified ==
    [][\A c \in Callers : Refuses(c) => downAge < Horizon]_captureVars

(* Muting hides repetitions, never the failure itself: when calls do not   *)
(* overlap, a failure that is going on has an entry in the capture log.    *)
FailureTold == news # "hidden"

(* Every call returns, whoever else captures at the time and whatever the  *)
(* requests give: nobody leaves checkSignal with the lock.                 *)
CallsReturn == \A c \in Callers : Calling(c) ~> ~Calling(c)
=============================================================================
