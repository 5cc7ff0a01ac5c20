-------------------------------- MODULE Keys --------------------------------
(***************************************************************************)
(* Requests that use h.kvm while the settings change: a key that is        *)
(* pressed and released on the machine behind the PiKVM (POST /api/key,    *)
(* sendKey of handlers.go, SendKey of client.go), and the handlers that    *)
(* check for SSH and then fetch the client again (edid.go).                *)
(*                                                                         *)
(* One key stands for all. Whether a request that fails has taken effect   *)
(* is open; h.ctx() ends a press and its release together after 10 s.      *)
(***************************************************************************)
EXTENDS Settings

CONSTANTS Typists, Operators   \* requests POST /api/key, /api/edid/...

VARIABLES
    tpc,     \* per key request: its next step
    target,  \* per key request: the host of the client it holds, or None
    held,    \* the hosts on which the key is down
    blamed,  \* history: hosts whose key a failure or a restart left down
    opc,     \* per operator: its next step
    ready    \* per operator: whether the client it holds is one

keyVars == <<tpc, target, held, blamed, opc, ready>>
vars == <<settingsVars, keyVars>>

NoPress  == [t \in Typists |-> "idle"]
NoTarget == [t \in Typists |-> None]
NoRun    == [o \in Operators |-> "idle"]
NotReady == [o \in Operators |-> FALSE]

Init ==
    /\ SettingsInit
    /\ tpc = NoPress /\ target = NoTarget /\ held = {} /\ blamed = {}
    /\ opc = NoRun /\ ready = NotReady

-----------------------------------------------------------------------------
(* sendKey and SendKey.                                                    *)

(* requireKVM: 503 without a client. *)
TakeClient(t) ==
    /\ tpc[t] = "idle" /\ kvm # None
    /\ target' = [target EXCEPT ![t] = kvm.host]
    /\ tpc' = [tpc EXCEPT ![t] = "press"]
    /\ UNCHANGED <<settingsVars, held, blamed, opc, ready>>

Done(t) ==
    /\ tpc' = [tpc EXCEPT ![t] = "idle"]
    /\ target' = [target EXCEPT ![t] = None]
    /\ UNCHANGED <<settingsVars, opc, ready>>

Press(t) ==
    /\ tpc[t] = "press"
    /\ held' = held \cup {target[t]}
    /\ tpc' = [tpc EXCEPT ![t] = "release"]
    /\ UNCHANGED <<settingsVars, target, blamed, opc, ready>>

(* No release after a press that failed. *)
PressFails(t) ==
    /\ tpc[t] = "press"
    /\ held' \in {held, held \cup {target[t]}}
    /\ blamed' = blamed \cup {target[t]}
    /\ Done(t)

(* Mutant: the release goes to the client of the moment. *)
ReleaseCurrent(t) ==
    /\ tpc[t] = "release" /\ kvm # None
    /\ held' = held \ {kvm.host} /\ blamed' = blamed \ {kvm.host}
    /\ Done(t)

Release(t) ==
    /\ tpc[t] = "release"
    /\ held' = held \ {target[t]} /\ blamed' = blamed \ {target[t]}
    /\ Done(t)

ReleaseFails(t) ==
    /\ tpc[t] = "release"
    /\ held' \in {held, held \ {target[t]}}
    /\ blamed' = blamed \cup {target[t]}
    /\ Done(t)

-----------------------------------------------------------------------------
(* The handlers of edid.go.                                                *)

(* requireSSH: 503 without a client; one that SetSSH has configured has    *)
(* SSH.                                                                    *)
RequireSSH(o) ==
    /\ opc[o] = "idle" /\ kvm # None
    /\ opc' = [opc EXCEPT ![o] = "fetch"]
    /\ UNCHANGED <<settingsVars, tpc, target, held, blamed, ready>>

(* h.kvm is read a second time. *)
FetchClient(o) ==
    /\ opc[o] = "fetch"
    /\ ready' = [ready EXCEPT ![o] = (kvm # None)]
    /\ opc' = [opc EXCEPT ![o] = "run"]
    /\ UNCHANGED <<settingsVars, tpc, target, held, blamed>>

SSHRun(o) ==
    /\ opc[o] = "run"
    /\ ready' = [ready EXCEPT ![o] = FALSE]
    /\ opc' = [opc EXCEPT ![o] = "idle"]
    /\ UNCHANGED <<settingsVars, tpc, target, held, blamed>>

-----------------------------------------------------------------------------

(* Requests end with the process; the PiKVM keeps the key down. *)
RestartAll ==
    /\ Restart
    /\ tpc' = NoPress /\ target' = NoTarget
    /\ opc' = NoRun /\ ready' = NotReady
    /\ blamed' = blamed \cup {target[t] : t \in {u \in Typists : tpc[u] = "release"}}
    /\ UNCHANGED held

KeyStep(t) ==
    TakeClient(t) \/ Press(t) \/ PressFails(t) \/ Release(t) \/ ReleaseFails(t)

OperatorStep(o) == RequireSSH(o) \/ FetchClient(o) \/ SSHRun(o)

Next ==
    \/ RestartAll
    \/ \E s \in Savers : SaveStep(s) /\ UNCHANGED keyVars
    \/ \E t \in Typists : KeyStep(t)
    \/ \E o \in Operators : OperatorStep(o)

Spec == Init /\ [][Next]_vars

-----------------------------------------------------------------------------
(* Properties.                                                             *)

(* Type invariant. *)
TypeOK ==
    /\ SettingsTypeOK
    /\ tpc \in [Typists -> {"idle", "press", "release"}]
    /\ target \in [Typists -> Hosts \cup {None}]
    /\ held \subseteq Hosts /\ blamed \subseteq Hosts
    /\ opc \in [Operators -> {"idle", "fetch", "run"}]
    /\ ready \in [Operators -> BOOLEAN]

(* A key is down on a machine only while a request that will release it    *)
(* there is under way, or since a request failed or was cut: changing the  *)
(* host between press and release, or two requests for the same key, leave *)
(* none down.                                                              *)
KeysComeUp ==
    \A h \in held \ blamed : \E t \in Typists : tpc[t] = "release" /\ target[t] = h

(* A handler that has passed requireSSH finds a client, and one with SSH,  *)
(* when it fetches it again.                                               *)
FetchedClientIsReady ==
    \A o \in Operators : opc[o] = "run" => ready[o]
=============================================================================
