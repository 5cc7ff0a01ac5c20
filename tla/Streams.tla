------------------------------ MODULE Streams -------------------------------
(***************************************************************************)
(* mjpegStream of internal/server/handlers.go with StreamViaSSHTunnel of   *)
(* internal/client/client.go: the response to GET /api/stream, which is    *)
(* the MJPEG stream of the PiKVM through an SSH tunnel, or frames that     *)
(* Screenshot polls, while the recorder and other requests capture too.    *)
(*                                                                         *)
(* A stream is one of the callers of Capture: it polls by calling          *)
(* Screenshot, whose steps are Capture's.                                  *)
(***************************************************************************)
EXTENDS Capture

CONSTANT Viewers   \* goroutines that serve GET /api/stream

ASSUME ViewersAssumption == Viewers \subseteq Callers

VARIABLES
    spc,      \* per stream: what mjpegStream does next
    mode,     \* per stream: the ?mode= of the request, until it is no longer read
    browser,  \* per stream: whether the browser is still there
    heads     \* per stream: the kinds of response begun, in a correct run one

streamVars == <<spc, mode, browser, heads>>
vars == <<captureVars, streamVars>>

StreamInit ==
    /\ Init
    /\ spc = [s \in Viewers |-> "none"]
    /\ mode \in [Viewers -> {"tunnel", "poll", "auto"}]
    /\ browser = [s \in Viewers |-> TRUE]
    /\ heads = [s \in Viewers |-> {}]

Move(s, to) == spc' = [spc EXCEPT ![s] = to]

(* The first write of a response sends its header. *)
Begin(s, kind) == heads' = [heads EXCEPT ![s] = @ \cup {kind}]

-----------------------------------------------------------------------------
(* The tunnel.                                                             *)

(* Without a tunnel: 503 when the mode asks for one, polling otherwise. *)
Otherwise(s) ==
    IF mode[s] = "tunnel"
    THEN Move(s, "ended") /\ Begin(s, "error")
    ELSE Move(s, "poll") /\ UNCHANGED heads

Open(s) ==
    /\ spc[s] = "none"
    /\ IF mode[s] # "poll" /\ ssh
       THEN Move(s, "dial") /\ UNCHANGED heads
       ELSE Otherwise(s)
    /\ mode' = [mode EXCEPT ![s] = IF spc'[s] = "dial" THEN @ ELSE "any"]
    /\ UNCHANGED <<captureVars, browser>>

(* StreamViaSSHTunnel fails before it has written anything. *)
TunnelRefused(s) ==
    /\ spc[s] = "dial"
    /\ Otherwise(s)
    /\ mode' = [mode EXCEPT ![s] = "any"]
    /\ UNCHANGED <<captureVars, browser>>

(* The header is uStreamer's, with its boundary. *)
TunnelUp(s) ==
    /\ spc[s] = "dial"
    /\ Move(s, "forward") /\ Begin(s, "tunnel")
    /\ mode' = [mode EXCEPT ![s] = "any"]
    /\ UNCHANGED <<captureVars, browser>>

(* Mutant: the end of the tunnel is an error, as before the header. *)
TunnelCutFallsBack(s) ==
    /\ spc[s] = "forward"
    /\ Move(s, "poll")
    /\ UNCHANGED <<captureVars, mode, browser, heads>>

(* The tunnel breaks, or the browser is found to be gone between two       *)
(* reads: no error is returned, whatever happened.                         *)
TunnelCut(s) ==
    /\ spc[s] = "forward"
    /\ Move(s, "ended")
    /\ UNCHANGED <<captureVars, mode, browser, heads>>

-----------------------------------------------------------------------------
(* Polling.                                                                *)

(* Mutant: the context is not looked at before a capture. *)
PollAlways(s) ==
    /\ spc[s] = "poll"
    /\ Move(s, "shot") /\ Call(s)
    /\ UNCHANGED <<mode, browser, heads>>

(* r.Context() is looked at, then Screenshot is called. *)
Poll(s) ==
    /\ spc[s] = "poll"
    /\ IF browser[s]
       THEN Move(s, "shot") /\ Call(s)
       ELSE Move(s, "ended") /\ UNCHANGED captureVars
    /\ UNCHANGED <<mode, browser, heads>>

(* Screenshot failed: sleep and try again. *)
PollFailed(s) ==
    /\ spc[s] = "shot" /\ pc[s] = "idle"
    /\ Move(s, "poll")
    /\ UNCHANGED <<captureVars, mode, browser, heads>>

(* A frame is written. A write to a browser that is gone fails, or goes    *)
(* into a buffer.                                                          *)
WriteFrame(s) ==
    /\ spc[s] = "shot" /\ UseFrame(s)
    /\ Begin(s, "frames")
    /\ \/ Move(s, "poll")
       \/ ~browser[s] /\ Move(s, "ended")
    /\ UNCHANGED <<mode, browser>>

Leave(s) ==
    /\ spc[s] # "ended" /\ browser[s]
    /\ browser' = [browser EXCEPT ![s] = FALSE]
    /\ UNCHANGED <<captureVars, spc, mode, heads>>

-----------------------------------------------------------------------------

PollStep(s) == Poll(s) \/ PollFailed(s) \/ WriteFrame(s)

StreamStep(s) ==
    \/ Open(s) \/ TunnelRefused(s) \/ TunnelUp(s) \/ TunnelCut(s)
    \/ PollStep(s) \/ Leave(s)

StreamNext ==
    \/ World /\ UNCHANGED streamVars
    \/ \E c \in Callers : (CheckSignal(c) \/ CallStep(c)) /\ UNCHANGED streamVars
    \/ \E c \in Callers \ Viewers : (Call(c) \/ UseFrame(c)) /\ UNCHANGED streamVars
    \/ \E s \in Viewers : StreamStep(s)

StreamSpec == StreamInit /\ [][StreamNext]_vars

(* As for Capture; a polling stream goes on, a forwarding one may wait in  *)
(* a read that never returns.                                              *)
StreamFairSpec ==
    /\ StreamSpec
    /\ Fairness
    /\ \A s \in Viewers : WF_vars(PollStep(s))

-----------------------------------------------------------------------------
(* Properties.                                                             *)

(* Type invariant; a stream calls Screenshot only while it polls. *)
TypeOK ==
    /\ CaptureTypeOK
    /\ spc \in [Viewers -> {"none", "dial", "forward", "poll", "shot", "ended"}]
    /\ mode \in [Viewers -> {"tunnel", "poll", "auto", "any"}]
    /\ browser \in [Viewers -> BOOLEAN]
    /\ heads \in [Viewers -> SUBSET {"tunnel", "frames", "error"}]
    /\ \A s \in Viewers : spc[s] # "shot" => pc[s] = "idle"

(* A response is of one kind: JPEG parts never follow the header of the    *)
(* tunnel, whose boundary is another, and neither follows an error.        *)
OneResponse == \A s \in Viewers : \A k, l \in heads[s] : k = l

(* A polling stream whose browser has gone ends, even if there is never    *)
(* a frame to write.                                                       *)
PollingEnds ==
    \A s \in Viewers : (spc[s] \in {"poll", "shot"} /\ ~browser[s]) ~> (spc[s] = "ended")
=============================================================================
