--------------------------- MODULE WatcherProofs ----------------------------
(***************************************************************************)
(* Proofs about WatcherFeed: what the watcher knows of go2rtc's health,    *)
(* what each connection is sent, and the refinement of HealthFeed.         *)
(***************************************************************************)
EXTENDS WatcherFeed, TLAPS

(* The watcher: what is still to emit fits what the last poll found, and   *)
(* what has been emitted does when nothing is.                             *)
WatchInv ==
    /\ wpc \in {"timer", "emit", "send"}
    /\ fails \in 0 .. MaxFails /\ checks \in 0 .. 11
    /\ outbox \in IF fails = 0 THEN {<<>>, <<TRUE>>}
                 ELSE {<<>>, <<FALSE>>, <<FALSE, FALSE>>}
    /\ last \in [n : 0 .. MaxEvents, ok : BOOLEAN]
    /\ last.n + Len(outbox) <= MaxEvents
    /\ wpc = "timer" => outbox = <<>>
    /\ wpc = "emit" => outbox # <<>>
    /\ wpc = "send" => last.n # 0
    /\ checks = 0 => fails = 0
    /\ outbox = <<>> /\ checks # 0 => last.n # 0 /\ last.ok = (fails = 0)

(* A finite sequence that goes on from n, one by one. *)
GoesOn(s, n) == \A i \in 1 .. Len(s) : s[i] = n + i

(* The connections: who is where, and what is in the channel of one that   *)
(* has missed nothing.                                                     *)
ConnTypeOK ==
    /\ pending \subseteq Subs /\ subs \subseteq Subs /\ clean \subseteq subs
    /\ spc \in [Subs -> {"none", "greet", "stream", "gone"}]
    /\ snap \in [Subs -> 0 .. MaxEvents]
    /\ queue \in [Subs -> Seq(1 .. MaxEvents)]
    /\ \A c \in Subs : Len(queue[c]) <= QueueCap
    /\ shown \in [Subs -> 0 .. MaxEvents]

ConnInv ==
    /\ wpc # "send" => pending = {}
    /\ \A c \in subs : spc[c] \in {"greet", "stream"}
    /\ \A c \in pending : spc[c] # "none"
    /\ \A c \in Subs : spc[c] = "none" => queue[c] = <<>> /\ shown[c] = 0
    /\ \A c \in Subs : spc[c] = "greet" => shown[c] = 0
    /\ \A c \in clean : spc[c] = "greet" =>
          snap[c] = last.n /\ queue[c] = <<>> /\ c \notin pending
    /\ \A c \in clean : spc[c] = "stream" =>
          /\ GoesOn(queue[c], Place(c))
          /\ Place(c) + Len(queue[c]) = IF c \in pending THEN last.n - 1 ELSE last.n

FeedInv == WatchInv /\ ConnTypeOK /\ ConnInv

-----------------------------------------------------------------------------
(* The watcher alone. *)

(* Adding to a sequence, and taking its head. *)
LEMMA AppendGoesOn ==
    \A m, n \in Nat : \A s \in Seq(1 .. m), e \in 1 .. m :
        GoesOn(s, n) /\ e = n + Len(s) + 1 => GoesOn(Append(s, e), n)
  <1> SUFFICES ASSUME NEW m \in Nat, NEW n \in Nat, NEW s \in Seq(1 .. m), NEW e \in 1 .. m,
                      GoesOn(s, n), e = n + Len(s) + 1
               PROVE  GoesOn(Append(s, e), n)
    BY Zenon
  <1>1. Len(Append(s, e)) = Len(s) + 1 /\ Len(s) \in Nat
    OBVIOUS
  <1>2. ASSUME NEW i \in 1 .. Len(s) PROVE Append(s, e)[i] = n + i
    BY DEF GoesOn
  <1>3. Append(s, e)[Len(s) + 1] = n + (Len(s) + 1)
    OBVIOUS
  <1>4. ASSUME NEW i \in 1 .. Len(Append(s, e)) PROVE Append(s, e)[i] = n + i
    <2>1. i \in 1 .. Len(s) \/ i = Len(s) + 1
      BY <1>1
    <2> QED
      BY <1>2, <1>3, <2>1, Zenon
  <1> QED
    BY <1>4, Zenon DEF GoesOn

LEMMA TailGoesOn ==
    \A m, n \in Nat : \A s \in Seq(1 .. m) :
        GoesOn(s, n) /\ s # <<>> => Head(s) = n + 1 /\ GoesOn(Tail(s), n + 1)
  BY DEF GoesOn

LEMMA TailShorter ==
    \A S : \A s \in Seq(S) : s # <<>> =>
        Head(s) \in S /\ Tail(s) \in Seq(S) /\ Len(Tail(s)) = Len(s) - 1
  OBVIOUS

(* The outboxes there can be. *)
LEMMA Outboxes ==
    /\ Len(<<>>) = 0 /\ Len(<<TRUE>>) = 1 /\ Len(<<FALSE>>) = 1 /\ Len(<<FALSE, FALSE>>) = 2
    /\ <<TRUE>> # <<>> /\ <<FALSE>> # <<>> /\ <<FALSE, FALSE>> # <<>>
    /\ Head(<<TRUE>>) = TRUE /\ Head(<<FALSE>>) = FALSE /\ Head(<<FALSE, FALSE>>) = FALSE
    /\ Tail(<<TRUE>>) = <<>> /\ Tail(<<FALSE>>) = <<>> /\ Tail(<<FALSE, FALSE>>) = <<FALSE>>
  <1>1. \A x : Len(<<x>>) = 1 /\ <<x>> # <<>> /\ Head(<<x>>) = x /\ Tail(<<x>>) = <<>>
    OBVIOUS
  <1>2. \A x, y : /\ Len(<<x, y>>) = 2 /\ <<x, y>> # <<>>
                  /\ Head(<<x, y>>) = x /\ Tail(<<x, y>>) = <<y>>
    OBVIOUS
  <1>3. Len(<<>>) = 0
    OBVIOUS
  <1> QED
    BY <1>1, <1>2, <1>3, Zenon

LEMMA WatchInductive == WatchInv /\ [Next]_vars => WatchInv'
  <1> SUFFICES ASSUME WatchInv, [Next]_vars PROVE WatchInv'
    OBVIOUS
  <1>0. /\ last.n \in 0 .. MaxEvents /\ last.ok \in BOOLEAN
        /\ MaxEvents \in Nat /\ MaxFails \in Nat
    BY WatcherAssumption DEF WatchInv
  <1>1. ASSUME NEW up \in BOOLEAN, Check(up) PROVE WatchInv'
    <2>1. /\ checks' = NextCheck /\ fails' = IF up THEN 0 ELSE fails + 1
          /\ outbox' = IF up THEN GoodNews ELSE BadNews(fails + 1)
          /\ wpc' = IF outbox' = <<>> THEN "timer" ELSE "emit"
          /\ last' = last /\ last.n + 2 <= MaxEvents /\ wpc = "timer"
          /\ up \/ fails < MaxFails
      BY <1>1 DEF Check
    <2>2. /\ checks' \in 1 .. 11 /\ (checks = 0 => checks' = 1)
          /\ fails' \in 0 .. MaxFails /\ (fails' = 0 <=> up)
      BY <1>0, <2>1 DEF NextCheck, WatchInv
    <2>3. /\ outbox' \in IF up THEN {<<>>, <<TRUE>>} ELSE {<<FALSE>>, <<FALSE, FALSE>>}
          /\ Len(outbox') \in 0 .. 2
      <3>1. outbox' \in IF up THEN {<<>>, <<TRUE>>} ELSE {<<FALSE>>, <<FALSE, FALSE>>}
        BY <2>1, Zenon DEF GoodNews, BadNews
      <3>2. Len(outbox') = 0 \/ Len(outbox') = 1 \/ Len(outbox') = 2
        BY <3>1, Outboxes, Zenon
      <3>3. Len(outbox') \in 0 .. 2
        BY <3>2
      <3> QED
        BY <3>1, <3>3, Zenon
    <2>4. ASSUME outbox' = <<>> PROVE last.n # 0 /\ last.ok = (fails' = 0)
      <3>1. up
        BY <2>3, <2>4, Outboxes
      <3>2. fails = 0 /\ ~Heartbeat(NextCheck)
        <4>1. ~(WasDown \/ Heartbeat(NextCheck))
          BY <2>1, <2>4, <3>1, Outboxes, Zenon DEF GoodNews
        <4> QED
          BY <4>1 DEF WasDown, WatchInv
      <3>3. checks # 0 /\ outbox = <<>>
        BY <2>1, <2>2, <3>2 DEF Heartbeat, WatchInv
      <3>4. last.n # 0 /\ last.ok = (fails = 0)
        BY <3>3 DEF WatchInv
      <3>5. fails' = fails
        BY <2>1, <3>1, <3>2
      <3> QED
        BY <3>4, <3>5
    <2>5. outbox' \in IF fails' = 0 THEN {<<>>, <<TRUE>>}
                     ELSE {<<>>, <<FALSE>>, <<FALSE, FALSE>>}
      BY <2>2, <2>3, Zenon
    <2>6. last'.n + Len(outbox') <= MaxEvents
      <3>1. /\ Len(outbox') \in 0 .. 2 /\ last'.n = last.n /\ last.n + 2 <= MaxEvents
            /\ last.n \in 0 .. MaxEvents /\ MaxEvents \in Nat
        BY <1>0, <2>1, <2>3, Zenon
      <3>2. \A n, m \in Nat, k \in 0 .. 2 : n + 2 <= m => n + k <= m
        OBVIOUS
      <3>3. last.n \in Nat
        BY <3>1
      <3> QED
        BY <3>1, <3>2, <3>3, Zenon
    <2>7. /\ last' \in [n : 0 .. MaxEvents, ok : BOOLEAN] /\ wpc' \in {"timer", "emit"}
          /\ wpc' = "timer" => outbox' = <<>>
          /\ wpc' = "emit" => outbox' # <<>>
      BY <2>1, Zenon DEF WatchInv
    <2>8. outbox' = <<>> /\ checks' # 0 => last'.n # 0 /\ last'.ok = (fails' = 0)
      BY <2>1, <2>4, Zenon
    <2>9. checks' \in 0 .. 11 /\ checks' # 0 /\ fails' \in 0 .. MaxFails /\ wpc' # "send"
      BY <2>2, <2>7
    <2> HIDE DEF WatchInv
    <2> QED
      BY <2>5, <2>6, <2>7, <2>8, <2>9, Zenon DEF WatchInv
  <1>2. CASE Broadcast
    <2>1. /\ outbox # <<>> /\ outbox' = Tail(outbox) /\ wpc' = "send"
          /\ last' = [n |-> last.n + 1, ok |-> Head(outbox)]
          /\ UNCHANGED <<fails, checks>>
      BY <1>2 DEF Broadcast, WatchInv
    <2>2. Head(outbox) = (fails = 0)
      <3>1. CASE fails = 0
        BY <2>1, <3>1, Outboxes DEF WatchInv
      <3>2. CASE fails # 0
        BY <2>1, <3>2, Outboxes DEF WatchInv
      <3> QED
        BY <3>1, <3>2
    <2>3. /\ Len(outbox) = Len(outbox') + 1 /\ Len(outbox') \in 0 .. 1
          /\ outbox' \in IF fails = 0 THEN {<<>>} ELSE {<<>>, <<FALSE>>}
      <3>1. \/ /\ fails = 0 /\ outbox' = <<>>
               /\ Len(outbox) = 1 /\ Len(outbox') = 0
            \/ /\ fails # 0 /\ outbox' = <<>>
               /\ Len(outbox) = 1 /\ Len(outbox') = 0
            \/ /\ fails # 0 /\ outbox' = <<FALSE>>
               /\ Len(outbox) = 2 /\ Len(outbox') = 1
        BY <2>1, Outboxes, Zenon DEF WatchInv
      <3>2. Len(outbox) = Len(outbox') + 1 /\ Len(outbox') \in 0 .. 1
        <4> DEFINE a == Len(outbox)
                   b == Len(outbox')
        <4>1. (a = 1 /\ b = 0) \/ (a = 2 /\ b = 1)
          BY <3>1, Zenon
        <4> HIDE DEF a, b
        <4>2. a = b + 1 /\ b \in 0 .. 1
          BY <4>1
        <4> QED
          BY <4>2 DEF a, b
      <3>3. outbox' \in IF fails = 0 THEN {<<>>} ELSE {<<>>, <<FALSE>>}
        BY <3>1, Zenon
      <3> QED
        BY <3>2, <3>3, Zenon
    <2>4. last.n + 1 \in 0 .. MaxEvents
      BY <1>0, <2>3 DEF WatchInv
    <2>5. last' \in [n : 0 .. MaxEvents, ok : BOOLEAN] /\ last'.n = last.n + 1
          /\ last'.ok = (fails = 0)
      BY <2>1, <2>2, <2>4
    <2>6. last'.n + Len(outbox') <= MaxEvents /\ last'.n # 0
      BY <1>0, <2>3, <2>5 DEF WatchInv
    <2> QED
      BY <2>1, <2>3, <2>5, <2>6 DEF WatchInv
  <1>3. CASE EndBroadcast
    BY <1>3 DEF EndBroadcast, WatchInv
  <1>4. CASE UNCHANGED <<wpc, fails, checks, outbox, last>>
    BY <1>4 DEF WatchInv
  <1> QED
    BY <1>1, <1>2, <1>3, <1>4
       DEF Next, Watch, vars, watchVars, Send, Subscribe, Greet, Deliver, Unsubscribe

LEMMA WatchInvariant == Spec => []WatchInv
  <1>1. Init => WatchInv
    BY WatcherAssumption DEF Init, NoEvent, WatchInv
  <1> QED
    BY <1>1, WatchInductive, PTL DEF Spec

(* Between checks, the last event tells what the last poll found (loop).   *)
THEOREM LastEventIsTruthful == Spec => []LastEventTruthful
  <1>1. WatchInv => LastEventTruthful
    BY DEF WatchInv, LastEventTruthful
  <1> QED
    BY <1>1, WatchInvariant, PTL

-----------------------------------------------------------------------------
(* The connections. *)

(* What a connection that has missed nothing has in its channel. *)
Current(c) ==
    /\ GoesOn(queue[c], Place(c))
    /\ Place(c) + Len(queue[c]) = IF c \in pending THEN last.n - 1 ELSE last.n

LEMMA PlaceIsNat ==
    ASSUME ConnTypeOK, NEW c \in Subs
    PROVE  Place(c) \in Nat /\ Len(queue[c]) \in Nat
  BY WatcherAssumption DEF ConnTypeOK, Place

(* One connection moves, and the others stay as they are. *)
Others(c) == \A d \in Subs \ {c} :
    /\ spc'[d] = spc[d] /\ snap'[d] = snap[d] /\ queue'[d] = queue[d] /\ shown'[d] = shown[d]
    /\ (d \in pending' <=> d \in pending) /\ (d \in clean' <=> d \in clean)
    /\ (d \in subs' <=> d \in subs)

(* Then it is enough to look at that connection. *)
LEMMA OneMoves ==
    ASSUME ConnTypeOK, ConnInv, ConnTypeOK', NEW c \in Subs, Others(c),
           last' = last, wpc' = wpc, wpc # "send" => pending' = {},
           c \in subs' => spc'[c] \in {"greet", "stream"},
           c \in pending' => spc'[c] # "none",
           spc'[c] = "none" => queue'[c] = <<>> /\ shown'[c] = 0,
           spc'[c] = "greet" => shown'[c] = 0,
           c \in clean' /\ spc'[c] = "greet" =>
               snap'[c] = last.n /\ queue'[c] = <<>> /\ c \notin pending',
           c \in clean' /\ spc'[c] = "stream" => Current(c)'
    PROVE  ConnInv'
  <1>1. ASSUME NEW d \in Subs, d # c
        PROVE  /\ spc'[d] = spc[d] /\ snap'[d] = snap[d] /\ queue'[d] = queue[d]
               /\ shown'[d] = shown[d] /\ (Current(d)' <=> Current(d))
               /\ (d \in pending' <=> d \in pending) /\ (d \in clean' <=> d \in clean)
               /\ (d \in subs' <=> d \in subs)
    BY <1>1, Zenon DEF Others, Current, GoesOn, Place
  <1>2. \A d \in Subs : d \in subs' => spc'[d] \in {"greet", "stream"}
    BY <1>1, Zenon DEF ConnInv
  <1>3. \A d \in Subs : d \in pending' => spc'[d] # "none"
    BY <1>1, Zenon DEF ConnInv
  <1>4. \A d \in Subs : spc'[d] = "none" => queue'[d] = <<>> /\ shown'[d] = 0
    BY <1>1, Zenon DEF ConnInv
  <1>5. \A d \in Subs : spc'[d] = "greet" => shown'[d] = 0
    BY <1>1, Zenon DEF ConnInv
  <1>6. \A d \in Subs : d \in clean' /\ spc'[d] = "greet" =>
            snap'[d] = last'.n /\ queue'[d] = <<>> /\ d \notin pending'
    BY <1>1, Zenon DEF ConnInv
  <1>7. \A d \in Subs : d \in clean' /\ spc'[d] = "stream" => Current(d)'
    BY <1>1, Zenon DEF ConnInv, Current
  <1> QED
    BY <1>2, <1>3, <1>4, <1>5, <1>6, <1>7 DEF ConnInv, ConnTypeOK, Current

LEMMA ConnInductive ==
    WatchInv /\ ConnTypeOK /\ ConnInv /\ [Next]_vars => ConnTypeOK' /\ ConnInv'
  <1> SUFFICES ASSUME WatchInv, ConnTypeOK, ConnInv, [Next]_vars
               PROVE  ConnTypeOK' /\ ConnInv'
    OBVIOUS
  <1>0. last.n \in 0 .. MaxEvents /\ MaxEvents \in Nat /\ QueueCap \in Nat
    BY WatcherAssumption DEF WatchInv
  <1>1. CASE UNCHANGED <<wpc, pending, last, subs, connVars>>
    BY <1>1 DEF ConnTypeOK, ConnInv, connVars, GoesOn, Place
  <1>2. ASSUME NEW up \in BOOLEAN, Check(up) PROVE ConnTypeOK' /\ ConnInv'
    <2>1. wpc = "timer" /\ wpc' # "send" /\ UNCHANGED <<pending, last, subs, connVars>>
      BY <1>2 DEF Check
    <2> QED
      BY <2>1 DEF ConnTypeOK, ConnInv, connVars, GoesOn, Place
  <1>3. CASE EndBroadcast
    <2>1. wpc = "send" /\ pending = {} /\ wpc' # "send"
          /\ UNCHANGED <<pending, last, subs, connVars>>
      BY <1>3 DEF EndBroadcast
    <2> QED
      BY <2>1 DEF ConnTypeOK, ConnInv, connVars, GoesOn, Place
  <1>4. CASE Broadcast
    <2>1. /\ wpc = "emit" /\ wpc' = "send" /\ pending = {} /\ pending' = subs
          /\ last'.n = last.n + 1 /\ clean' = clean \ {c \in subs : spc[c] = "greet"}
          /\ UNCHANGED <<subs, spc, snap, queue, shown>>
      BY <1>4 DEF Broadcast, ConnInv
    <2>2. ConnTypeOK'
      BY <2>1 DEF ConnTypeOK
    <2>3. ASSUME NEW c \in clean', spc'[c] = "stream" PROVE Current(c)'
      <3>1. c \in clean /\ c \in subs /\ spc[c] = "stream" /\ c \in Subs
        BY <2>1, <2>3 DEF ConnTypeOK
      <3>2. GoesOn(queue[c], Place(c)) /\ Place(c) + Len(queue[c]) = last.n
        BY <2>1, <3>1 DEF ConnInv
      <3>3. Place(c)' = Place(c) /\ Place(c) \in Nat
        BY <2>1, <3>1, PlaceIsNat DEF Place
      <3> QED
        BY <1>0, <2>1, <3>1, <3>2, <3>3 DEF Current, GoesOn
    <2>4. ConnInv'
      BY <2>1, <2>3 DEF ConnInv, ConnTypeOK, Current
    <2> QED
      BY <2>2, <2>4
  <1>5. ASSUME NEW c \in Subs, Send(c) PROVE ConnTypeOK' /\ ConnInv'
    <2>1. /\ wpc = "send" /\ c \in pending /\ pending' = pending \ {c}
          /\ UNCHANGED <<wpc, last, subs, spc, snap, shown>>
      BY <1>5 DEF Send
    <2>2. CASE /\ Len(queue[c]) < QueueCap
               /\ queue' = [queue EXCEPT ![c] = Append(@, last.n)] /\ UNCHANGED clean
      <3>1. last.n \in 1 .. MaxEvents /\ queue[c] \in Seq(1 .. MaxEvents)
        BY <1>0, <2>1 DEF WatchInv, ConnTypeOK
      <3>2. Append(queue[c], last.n) \in Seq(1 .. MaxEvents)
            /\ Len(Append(queue[c], last.n)) = Len(queue[c]) + 1
        BY <3>1
      <3>3. queue'[c] = Append(queue[c], last.n)
        BY <2>2 DEF ConnTypeOK
      <3>4. queue' \in [Subs -> Seq(1 .. MaxEvents)]
        BY <2>2, <3>2 DEF ConnTypeOK
      <3>5. \A d \in Subs : Len(queue'[d]) <= QueueCap
        <4>1. Len(queue'[c]) <= QueueCap
          BY <1>0, <2>2, <3>1, <3>2, <3>3
        <4>2. \A d \in Subs : d # c => queue'[d] = queue[d]
          BY <2>2 DEF ConnTypeOK
        <4> QED
          BY <4>1, <4>2 DEF ConnTypeOK
      <3>6. ConnTypeOK'
        BY <2>1, <2>2, <3>4, <3>5 DEF ConnTypeOK
      <3>7. ASSUME c \in clean, spc[c] = "stream" PROVE Current(c)'
        <4>1. GoesOn(queue[c], Place(c)) /\ Place(c) + Len(queue[c]) = last.n - 1
          BY <2>1, <3>7 DEF ConnInv
        <4>2. Place(c) \in Nat /\ Place(c)' = Place(c)
          BY <2>1, PlaceIsNat DEF Place
        <4>3. last.n = Place(c) + Len(queue[c]) + 1
          BY <1>0, <3>1, <4>1, <4>2
        <4>4. GoesOn(queue'[c], Place(c))
          BY <1>0, <3>1, <3>3, <4>1, <4>2, <4>3, AppendGoesOn, Zenon
        <4>5. Place(c) + Len(queue'[c]) = last.n
          <5>1. Len(queue'[c]) = Len(queue[c]) + 1 /\ Len(queue[c]) \in Nat
            BY <3>1, <3>2, <3>3
          <5> QED
            BY <4>2, <4>3, <5>1
        <4> QED
          BY <2>1, <4>2, <4>4, <4>5 DEF Current
      <3>8. Others(c)
        BY <2>1, <2>2, <3>4 DEF Others, ConnTypeOK
      <3>9. c \in clean => spc[c] # "greet"
        BY <2>1 DEF ConnInv
      <3> QED
        BY <2>1, <2>2, <3>6, <3>7, <3>8, <3>9, OneMoves DEF ConnInv
    <2>3. CASE clean' = clean \ {c} /\ UNCHANGED queue
      <3>1. ConnTypeOK'
        BY <2>1, <2>3 DEF ConnTypeOK
      <3>2. Others(c)
        BY <2>1, <2>3 DEF Others
      <3> QED
        BY <2>1, <2>3, <3>1, <3>2, OneMoves DEF ConnInv
    <2> QED
      BY <1>5, <2>2, <2>3 DEF Send
  <1>6. ASSUME NEW c \in Subs, Subscribe(c) PROVE ConnTypeOK' /\ ConnInv'
    <2>1. /\ spc[c] = "none" /\ subs' = subs \cup {c} /\ clean' = clean \cup {c}
          /\ snap' = [snap EXCEPT ![c] = last.n] /\ spc' = [spc EXCEPT ![c] = "greet"]
          /\ UNCHANGED <<wpc, pending, last, queue, shown>>
      BY <1>6 DEF Subscribe, watchVars
    <2>2. ConnTypeOK'
      BY <1>0, <2>1 DEF ConnTypeOK
    <2>3. /\ spc'[c] = "greet" /\ snap'[c] = last.n /\ queue'[c] = <<>> /\ shown'[c] = 0
          /\ c \notin pending'
      BY <2>1 DEF ConnTypeOK, ConnInv
    <2>4. Others(c)
      BY <2>1 DEF Others, ConnTypeOK
    <2> QED
      BY <2>1, <2>2, <2>3, <2>4, OneMoves DEF ConnInv
  <1>7. ASSUME NEW c \in Subs, Greet(c) PROVE ConnTypeOK' /\ ConnInv'
    <2>1. /\ spc[c] = "greet" /\ spc' = [spc EXCEPT ![c] = "stream"]
          /\ UNCHANGED <<wpc, pending, last, subs, snap, shown, clean>>
          /\ \/ snap[c] = 0 /\ queue' = queue
             \/ /\ snap[c] # 0 /\ Len(queue[c]) < QueueCap
                /\ queue' = [queue EXCEPT ![c] = Append(@, snap[c])]
      BY <1>7 DEF Greet, watchVars
    <2>2. /\ spc'[c] = "stream" /\ shown[c] = 0 /\ snap[c] \in 0 .. MaxEvents
          /\ queue[c] \in Seq(1 .. MaxEvents)
      BY <2>1 DEF ConnTypeOK, ConnInv
    <2>3. c \in clean => queue[c] = <<>> /\ snap[c] = last.n /\ c \notin pending
      BY <2>1 DEF ConnInv
    <2>4. Place(c)' = Place(c) /\ Place(c) = IF snap[c] = 0 THEN 0 ELSE snap[c] - 1
      BY <2>1, <2>2 DEF Place
    <2>5. CASE snap[c] = 0 /\ queue' = queue
      <3>1. ConnTypeOK'
        BY <2>1, <2>5 DEF ConnTypeOK
      <3>2. Others(c)
        BY <2>1, <2>5 DEF Others, ConnTypeOK
      <3>3. c \in clean => Current(c)'
        BY <2>1, <2>3, <2>4, <2>5 DEF Current, GoesOn
      <3> QED
        BY <2>1, <2>2, <3>1, <3>2, <3>3, OneMoves DEF ConnInv
    <2>6. CASE /\ snap[c] # 0 /\ Len(queue[c]) < QueueCap
               /\ queue' = [queue EXCEPT ![c] = Append(@, snap[c])]
      <3>1. /\ Append(queue[c], snap[c]) \in Seq(1 .. MaxEvents)
            /\ Len(Append(queue[c], snap[c])) = Len(queue[c]) + 1
        BY <1>0, <2>2, <2>6
      <3>2. queue'[c] = Append(queue[c], snap[c])
        BY <2>6 DEF ConnTypeOK
      <3>3. queue' \in [Subs -> Seq(1 .. MaxEvents)]
        BY <2>6, <3>1 DEF ConnTypeOK
      <3>4. \A d \in Subs : Len(queue'[d]) <= QueueCap
        <4>1. Len(queue'[c]) <= QueueCap
          BY <1>0, <2>2, <2>6, <3>1, <3>2
        <4>2. \A d \in Subs : d # c => queue'[d] = queue[d]
          BY <2>6 DEF ConnTypeOK
        <4> QED
          BY <4>1, <4>2 DEF ConnTypeOK
      <3>5. ConnTypeOK'
        BY <2>1, <3>3, <3>4 DEF ConnTypeOK
      <3>6. Others(c)
        BY <2>1, <2>6 DEF Others, ConnTypeOK
      <3>7. ASSUME c \in clean PROVE Current(c)'
        <4>1. Len(queue[c]) = 0 /\ GoesOn(queue[c], Place(c))
          BY <2>3, <3>7 DEF GoesOn
        <4>2. Place(c) \in Nat /\ snap[c] = Place(c) + Len(queue[c]) + 1
          BY <2>2, <2>4, <2>6, <4>1
        <4>3. GoesOn(queue'[c], Place(c)) /\ Len(queue'[c]) = 1
          <5>1. snap[c] \in 1 .. MaxEvents
            BY <1>0, <2>2, <2>6
          <5>2. GoesOn(queue'[c], Place(c))
            BY <1>0, <2>2, <3>2, <4>1, <4>2, <5>1, AppendGoesOn, Zenon
          <5>3. Len(queue'[c]) = 1
            BY <3>1, <3>2, <4>1
          <5> QED
            BY <5>2, <5>3
        <4> QED
          BY <1>0, <2>1, <2>3, <2>4, <3>7, <4>1, <4>2, <4>3 DEF Current
      <3> QED
        BY <2>1, <2>2, <3>5, <3>6, <3>7, OneMoves DEF ConnInv
    <2> QED
      BY <2>1, <2>5, <2>6
  <1>8. ASSUME NEW c \in Subs, Deliver(c) PROVE ConnTypeOK' /\ ConnInv'
    <2>1. /\ spc[c] = "stream" /\ queue[c] # <<>>
          /\ shown' = [shown EXCEPT ![c] = Head(queue[c])]
          /\ queue' = [queue EXCEPT ![c] = Tail(@)]
          /\ UNCHANGED <<wpc, pending, last, subs, spc, snap, clean>>
      BY <1>8 DEF Deliver, watchVars
    <2>2. queue[c] \in Seq(1 .. MaxEvents) /\ Len(queue[c]) <= QueueCap
      BY DEF ConnTypeOK
    <2>3. /\ Head(queue[c]) \in 1 .. MaxEvents /\ Tail(queue[c]) \in Seq(1 .. MaxEvents)
          /\ Len(Tail(queue[c])) = Len(queue[c]) - 1
      BY <2>1, <2>2, TailShorter, Zenon
    <2>4. queue'[c] = Tail(queue[c]) /\ shown'[c] = Head(queue[c])
      BY <2>1 DEF ConnTypeOK
    <2>5. ConnTypeOK'
      <3>1. queue' \in [Subs -> Seq(1 .. MaxEvents)] /\ shown' \in [Subs -> 0 .. MaxEvents]
        BY <1>0, <2>1, <2>3 DEF ConnTypeOK
      <3>2. \A d \in Subs : Len(queue'[d]) <= QueueCap
        <4>1. Len(queue'[c]) <= QueueCap
          BY <1>0, <2>2, <2>3, <2>4
        <4>2. \A d \in Subs : d # c => queue'[d] = queue[d]
          BY <2>1 DEF ConnTypeOK
        <4> QED
          BY <4>1, <4>2 DEF ConnTypeOK
      <3> QED
        BY <2>1, <3>1, <3>2 DEF ConnTypeOK
    <2>6. Others(c)
      BY <2>1 DEF Others, ConnTypeOK
    <2>7. ASSUME c \in clean PROVE Current(c)'
      <3>1. Current(c) /\ Place(c) \in Nat
        BY <2>1, <2>7, PlaceIsNat DEF ConnInv, Current
      <3>2. Head(queue[c]) = Place(c) + 1 /\ GoesOn(Tail(queue[c]), Place(c) + 1)
        BY <1>0, <2>1, <2>2, <3>1, TailGoesOn, Zenon DEF Current
      <3>3. Place(c)' = Place(c) + 1
        BY <1>0, <2>3, <2>4, <3>2 DEF Place
      <3>4. Place(c) + 1 + (Len(queue[c]) - 1) = Place(c) + Len(queue[c])
        BY <2>2, <3>1
      <3> QED
        BY <2>1, <2>3, <2>4, <3>1, <3>2, <3>3, <3>4 DEF Current
    <2> QED
      BY <2>1, <2>5, <2>6, <2>7, OneMoves DEF ConnInv
  <1>9. ASSUME NEW c \in Subs, Unsubscribe(c) PROVE ConnTypeOK' /\ ConnInv'
    <2>1. /\ spc[c] = "stream" /\ subs' = subs \ {c} /\ clean' = clean \ {c}
          /\ spc' = [spc EXCEPT ![c] = "gone"]
          /\ UNCHANGED <<wpc, pending, last, snap, queue, shown>>
      BY <1>9 DEF Unsubscribe, watchVars
    <2>2. ConnTypeOK' /\ spc'[c] = "gone"
      BY <2>1 DEF ConnTypeOK
    <2>3. Others(c)
      BY <2>1 DEF Others, ConnTypeOK
    <2> QED
      BY <2>1, <2>2, <2>3, OneMoves DEF ConnInv
  <1> QED
    BY <1>1, <1>2, <1>3, <1>4, <1>5, <1>6, <1>7, <1>8, <1>9
       DEF Next, Watch, vars, watchVars

LEMMA FeedInvariant == Spec => []FeedInv
  <1>1. Init => ConnTypeOK /\ ConnInv
    BY WatcherAssumption DEF Init, ConnTypeOK, ConnInv
  <1> QED
    BY <1>1, WatchInvariant, ConnInductive, PTL DEF Spec, FeedInv

(* Type correctness. *)
THEOREM WatcherTypeCorrect == Spec => []TypeOK
  <1>1. FeedInv => TypeOK
    <2> SUFFICES ASSUME FeedInv PROVE TypeOK
      OBVIOUS
    <2>1. <<>> \in Seq(BOOLEAN) /\ <<TRUE>> \in Seq(BOOLEAN) /\ <<FALSE>> \in Seq(BOOLEAN)
          /\ <<FALSE, FALSE>> \in Seq(BOOLEAN)
      OBVIOUS
    <2>2. outbox \in Seq(BOOLEAN)
      BY <2>1, Zenon DEF FeedInv, WatchInv
    <2> QED
      BY <2>2 DEF FeedInv, WatchInv, ConnTypeOK, TypeOK
  <1> QED
    BY <1>1, FeedInvariant, PTL

(* A connection that missed nothing gets every later event, in order and   *)
(* once (subscribe's critical section against broadcast's).                *)
THEOREM FeedsAreContiguous == Spec => []FeedContiguous
  <1>1. FeedInv => FeedContiguous
    <2> SUFFICES ASSUME FeedInv, NEW c \in clean, spc[c] = "stream", shown[c] # 0
                 PROVE  /\ queue[c] = [i \in 1 .. Len(queue[c]) |-> shown[c] + i]
                        /\ shown[c] + Len(queue[c]) = IF c \in pending THEN last.n - 1
                                                      ELSE last.n
      BY DEF FeedContiguous
    <2>1. Place(c) = shown[c] /\ queue[c] \in Seq(1 .. MaxEvents)
      BY DEF FeedInv, ConnTypeOK, Place
    <2>2. GoesOn(queue[c], shown[c])
          /\ shown[c] + Len(queue[c]) = IF c \in pending THEN last.n - 1 ELSE last.n
      BY <2>1 DEF FeedInv, ConnInv
    <2>3. \A S : \A s \in Seq(S) : s = [i \in 1 .. Len(s) |-> s[i]]
      OBVIOUS
    <2>4. [i \in 1 .. Len(queue[c]) |-> queue[c][i]]
            = [i \in 1 .. Len(queue[c]) |-> shown[c] + i]
      BY <2>2 DEF GoesOn
    <2>5. queue[c] = [i \in 1 .. Len(queue[c]) |-> shown[c] + i]
      BY <2>1, <2>3, <2>4, Zenon
    <2> QED
      BY <2>2, <2>5
  <1> QED
    BY <1>1, FeedInvariant, PTL

-----------------------------------------------------------------------------
(* The refinement. *)
Places == [c \in Subs |-> IF c \in Following THEN Place(c) ELSE 0]

(* A step maps to a step of HealthFeed or a stutter. *)
LEMMA StepIsFeed ==
    FeedInv /\ FeedInv' /\ [Next]_vars => [Feed!Next]_(Feed!feedVars)
  <1> SUFFICES ASSUME FeedInv, FeedInv', Next
               PROVE  Feed!Next \/ UNCHANGED <<last.n, last.ok, Following, Places>>
    BY DEF vars, watchVars, connVars, Feed!feedVars, Following, Place, Places
  <1>0. ConnTypeOK /\ ConnTypeOK' /\ ConnInv /\ ConnInv' /\ WatchInv /\ Following \subseteq Subs
    BY DEF FeedInv, ConnTypeOK, Following
  <1>1. CASE UNCHANGED <<last, spc, snap, shown, clean>>
    BY <1>1 DEF Following, Place, Places
  <1>2. CASE Broadcast
    <2>1. /\ last'.n = last.n + 1 /\ last'.ok \in BOOLEAN
          /\ clean' = clean \ {c \in subs : spc[c] = "greet"}
          /\ UNCHANGED <<spc, snap, shown>>
      BY <1>2 DEF Broadcast, FeedInv, WatchInv
    <2>2. Following' = Following
      BY <2>1 DEF Following
    <2>3. Places' = Places
      BY <2>1, <2>2 DEF Places, Place
    <2> QED
      BY <2>1, <2>2, <2>3, Zenon DEF Feed!Next, Feed!Publish, Places
  <1>3. ASSUME NEW c \in Subs, Send(c) \/ Unsubscribe(c)
        PROVE  Feed!Next \/ UNCHANGED <<last.n, last.ok, Following, Places>>
    <2>1. /\ UNCHANGED <<last, snap, shown>> /\ Following' \in {Following, Following \ {c}}
      BY <1>0, <1>3 DEF Send, Unsubscribe, Following, watchVars, ConnTypeOK
    <2>2. CASE Following' = Following
      <3>1. Places' = Places
        BY <2>1, <2>2 DEF Places, Place
      <3> QED
        BY <2>1, <2>2, <3>1
    <2>3. CASE c \in Following /\ Following' = Following \ {c}
      <3>1. Places' = [Places EXCEPT ![c] = 0]
        BY <2>1, <2>3 DEF Places, Place
      <3>2. Feed!LetGo(c)
        BY <2>1, <2>3, <3>1 DEF Feed!LetGo, Places
      <3> QED
        BY <3>2 DEF Feed!Next
    <2> QED
      BY <2>1, <2>2, <2>3
  <1>4. ASSUME NEW c \in Subs, Subscribe(c)
        PROVE  UNCHANGED <<last.n, last.ok, Following, Places>>
    <2>1. /\ last' = last /\ Following' = Following /\ c \notin Following
          /\ \A d \in Subs : d # c => snap'[d] = snap[d] /\ shown'[d] = shown[d]
      BY <1>0, <1>4 DEF Subscribe, Following, ConnTypeOK
    <2>2. Places' = Places
      BY <1>0, <2>1 DEF Places, Place
    <2> QED
      BY <2>1, <2>2
  <1>5. ASSUME NEW c \in Subs, Greet(c)
        PROVE  Feed!Next \/ UNCHANGED <<last.n, last.ok, Following, Places>>
    <2>1. /\ spc[c] = "greet" /\ shown[c] = 0 /\ snap[c] \in 0 .. MaxEvents
          /\ c \notin Following /\ UNCHANGED <<last, snap, shown, clean>>
      BY <1>0, <1>5 DEF Greet, Following, ConnTypeOK, ConnInv, watchVars
    <2>2. CASE c \notin clean
      <3>1. Following' = Following
        BY <1>0, <1>5, <2>2 DEF Greet, Following, ConnTypeOK
      <3>2. Places' = Places
        BY <2>1, <3>1 DEF Places, Place
      <3> QED
        BY <2>1, <3>1, <3>2
    <2>3. CASE c \in clean
      <3>1. Following' = Following \cup {c}
        BY <1>0, <1>5, <2>3 DEF Greet, Following, ConnTypeOK
      <3>2. snap[c] = last.n
        BY <1>0, <2>1, <2>3 DEF ConnInv
      <3>3. Place(c)' = IF last.n = 0 THEN 0 ELSE last.n - 1
        BY <2>1, <3>2 DEF Place
      <3>4. Places' = [Places EXCEPT ![c] = IF last.n = 0 THEN 0 ELSE last.n - 1]
        BY <2>1, <3>1, <3>3 DEF Places, Place
      <3>5. Feed!Join(c)
        BY <2>1, <3>1, <3>4 DEF Feed!Join, Places
      <3> QED
        BY <3>5 DEF Feed!Next
    <2> QED
      BY <2>2, <2>3
  <1>6. ASSUME NEW c \in Subs, Deliver(c)
        PROVE  Feed!Next \/ UNCHANGED <<last.n, last.ok, Following, Places>>
    <2>1. /\ spc[c] = "stream" /\ queue[c] # <<>> /\ queue[c] \in Seq(1 .. MaxEvents)
          /\ shown' = [shown EXCEPT ![c] = Head(queue[c])]
          /\ UNCHANGED <<last, spc, snap, clean>> /\ Following' = Following
      BY <1>0, <1>6 DEF Deliver, Following, ConnTypeOK, watchVars
    <2>2. CASE c \notin Following
      <3>1. Places' = Places
        BY <1>0, <2>1, <2>2 DEF Places, Place, ConnTypeOK
      <3> QED
        BY <2>1, <3>1
    <2>3. CASE c \in Following
      <3>1. GoesOn(queue[c], Place(c)) /\ Place(c) \in Nat
            /\ Place(c) + Len(queue[c]) = IF c \in pending THEN last.n - 1 ELSE last.n
        BY <1>0, <2>3, PlaceIsNat DEF ConnInv, Following
      <3>2. Head(queue[c]) = Place(c) + 1
        BY <2>1, <3>1, TailGoesOn, WatcherAssumption, Zenon
      <3>3. Len(queue[c]) \in Nat \ {0} /\ last.n \in Nat
        BY <1>0, <2>1 DEF WatchInv
      <3>4. Place(c) < last.n
        BY <3>1, <3>3
      <3>5. Place(c)' = Place(c) + 1
        BY <1>0, <2>1, <3>1, <3>2 DEF Place, ConnTypeOK
      <3>6. Places' = [Places EXCEPT ![c] = Place(c) + 1]
        BY <1>0, <2>1, <2>3, <3>5 DEF Places, Place, ConnTypeOK
      <3>7. Places[c] = Place(c)
        BY <2>3 DEF Places
      <3>8. Feed!Advance(c)
        BY <2>1, <2>3, <3>4, <3>6, <3>7 DEF Feed!Advance, Places
      <3> QED
        BY <3>8 DEF Feed!Next
    <2> QED
      BY <2>2, <2>3
  <1>7. ASSUME NEW up \in BOOLEAN, Check(up) PROVE UNCHANGED <<last, spc, snap, shown, clean>>
    BY <1>7 DEF Check, connVars
  <1>8. CASE EndBroadcast
    BY <1>1, <1>8 DEF EndBroadcast, connVars
  <1> QED
    BY <1>1, <1>2, <1>3, <1>4, <1>5, <1>6, <1>7, <1>8 DEF Next, Watch

(* The watcher and its handlers implement HealthFeed. *)
THEOREM WatcherImplementsFeed == Spec => FeedProvided
  <1>1. Init => Feed!Init
    BY DEF Init, Feed!Init, NoEvent, Following
  <1> QED
    BY <1>1, StepIsFeed, FeedInvariant, PTL DEF Spec, FeedProvided, Feed!Spec

=============================================================================
