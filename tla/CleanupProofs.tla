---------------------------- MODULE CleanupProofs ---------------------------
(***************************************************************************)
(* What is proved of Cleanup for any number of loops, configurations, days *)
(* and sizes.                                                              *)
(***************************************************************************)
EXTENDS Cleanup, SetSums, TLAPS

(* A half day belongs to one day. *)
LEMMA HalfDays ==
    ASSUME NEW n \in Nat
    PROVE  n \div 2 \in Nat /\ 2 * (n \div 2) <= n /\ n < 2 * (n \div 2) + 2
  OBVIOUS

LEMMA DaysAreNat == Days \subseteq Nat /\ (\A n \in 0 .. MaxNow : n \div 2 \in Days)
  <1>1. MaxNow \in Nat
    BY CleanupAssumption
  <1>2. MaxNow \div 2 \in Nat
    BY <1>1, HalfDays
  <1>3. ASSUME NEW n \in 0 .. MaxNow PROVE n \div 2 \in Days
    <2>1. n \in Nat /\ n <= MaxNow
      BY <1>1
    <2>2. n \div 2 \in Nat /\ n \div 2 <= MaxNow \div 2
      BY <1>1, <2>1
    <2> QED
      BY <1>2, <2>2 DEF Days
  <1> QED
    BY <1>2, <1>3 DEF Days

LEMMA NoLocalsType == NoLocals \in LocalType
  <1>1. 0 \in Days
    BY DaysAreNat, HalfDays, CleanupAssumption DEF Days
  <1> QED
    BY <1>1 DEF NoLocals, LocalType, LimitType

(* A move with typed locals keeps the loops typed. *)
LEMMA GotoType ==
    ASSUME pc \in [Loops -> PCs], loc \in [Loops -> LocalType],
           NEW c \in Loops, NEW to \in PCs, NEW l \in LocalType, Goto(c, to, l)
    PROVE  pc' \in [Loops -> PCs] /\ loc' \in [Loops -> LocalType]
  BY DEF Goto, EndRun

-----------------------------------------------------------------------------
(* Types.                                                                  *)

(* The files and the clock. *)
FilesOK ==
    /\ now \in 0 .. MaxNow
    /\ dirs \subseteq 0 .. Today
    /\ size \in [Days -> 0 .. MaxSize]
    /\ \A d \in Days \ dirs : size[d] = 0
    /\ open \in dirs \cup {NoDay}

LEMMA TodayIsDay == ASSUME FilesOK PROVE Today \in Days /\ Today \in Nat
  BY DaysAreNat DEF FilesOK, Today

LEMMA DirsAreDays == ASSUME FilesOK PROVE dirs \subseteq Days
  <1>1. MaxNow \div 2 \in Nat /\ Today \in Nat /\ Today <= MaxNow \div 2
    BY TodayIsDay, HalfDays, CleanupAssumption DEF Days
  <1> QED
    BY <1>1 DEF FilesOK, Days

(* What is lost is counted in naturals. *)
LEMMA GoneType ==
    ASSUME lost \in [Loops -> Nat], loc \in [Loops -> LocalType],
           NEW c, NEW n \in Nat, Gone(c, n)
    PROVE  lost' \in [Loops -> Nat]
  <1>1. ASSUME NEW i \in Loops PROVE AtMost(lost[i] + n, loc[i].cfg.max + 1) \in Nat
    <2>1. lost[i] \in Nat /\ loc[i].cfg.max \in Nat
      BY DEF LocalType, LimitType
    <2> QED
      BY <2>1 DEF AtMost
  <1> QED
    BY <1>1 DEF Gone

(* Removing a day keeps the files typed and creates no day. *)
LEMMA RemoveKeepsFiles ==
    ASSUME FilesOK, lost \in [Loops -> Nat], loc \in [Loops -> LocalType],
           NEW c \in Loops, NEW d \in Days, RemoveAll(c, d), UNCHANGED now
    PROVE  FilesOK' /\ dirs' \subseteq dirs /\ lost' \in [Loops -> Nat]
  <1>1. CASE d \in Stuck
    BY <1>1 DEF RemoveAll, fileVars, FilesOK, Today
  <1>2. CASE d \notin Stuck
    <2>1. /\ dirs' = dirs \ {d}
          /\ size' = [size EXCEPT ![d] = 0]
          /\ open' = IF open = d THEN NoDay ELSE open
          /\ Gone(c, size[d])
      BY <1>2 DEF RemoveAll
    <2>2. 0 \in 0 .. MaxSize
      BY CleanupAssumption
    <2>3. size' \in [Days -> 0 .. MaxSize] /\ \A e \in Days \ dirs' : size'[e] = 0
      BY <2>1, <2>2 DEF FilesOK
    <2>4. size[d] \in Nat
      BY CleanupAssumption DEF FilesOK
    <2>5. lost' \in [Loops -> Nat]
      BY <2>1, <2>4, GoneType
    <2> QED
      BY <2>1, <2>3, <2>5 DEF FilesOK, Today
  <1> QED
    BY <1>1, <1>2

(* A step of a loop keeps what the other variables have. *)
LEMMA LoopTypeStep ==
    ASSUME TypeOK, NEW c \in Loops, LoopStep(c)
    PROVE  TypeOK'
  <1> USE DEF TypeOK
  <1>0. FilesOK /\ loc[c] \in LocalType /\ pc \in [Loops -> PCs] /\ loc \in [Loops -> LocalType]
    BY DEF FilesOK
  <1>w. EndRun(c) => pc' \in [Loops -> PCs] /\ loc' \in [Loops -> LocalType]
    BY <1>0, NoLocalsType, GotoType DEF EndRun, PCs
  <1>1. CASE BeginRun(c)
    <2>1. Cutoff(cfg) \in Int
      BY DEF Cutoff, LimitType
    <2>2. [NoLocals EXCEPT !.cfg = cfg, !.cutoff = Cutoff(cfg)] \in LocalType
      BY <2>1, NoLocalsType DEF LocalType
    <2>3. pc' \in [Loops -> PCs] /\ loc' \in [Loops -> LocalType]
      BY <1>0, <1>1, <2>2, GotoType DEF BeginRun, PCs
    <2> QED
      BY <1>1, <2>3 DEF BeginRun, loopVars, fileVars, Today
  <1>2. CASE ListDays(c)
    <2>1. dirs \subseteq Days
      BY <1>0, DirsAreDays
    <2>2. [loc[c] EXCEPT !.todo = dirs] \in LocalType
      BY <1>0, <2>1 DEF LocalType
    <2>3. pc' \in [Loops -> PCs] /\ loc' \in [Loops -> LocalType]
      BY <1>0, <1>2, <1>w, <2>2, GotoType DEF ListDays, PCs
    <2> QED
      BY <1>2, <2>3 DEF ListDays, loopVars, fileVars, Today
  <1>3. CASE AgeRule(c)
    <2>1. PICK d \in loc[c].todo :
            /\ IF Expired(d, loc[c].cutoff) THEN RemoveAll(c, d) ELSE UNCHANGED <<fileVars, lost>>
            /\ Goto(c, "age", [loc[c] EXCEPT !.todo = @ \ {d}])
      BY <1>3 DEF AgeRule
    <2>2. d \in Days /\ UNCHANGED now /\ UNCHANGED loopVars
      BY <1>0, <1>3 DEF AgeRule, LocalType
    <2>3. [loc[c] EXCEPT !.todo = @ \ {d}] \in LocalType
      BY <1>0 DEF LocalType
    <2>4. pc' \in [Loops -> PCs] /\ loc' \in [Loops -> LocalType]
      BY <1>0, <2>1, <2>3, GotoType DEF PCs
    <2>5. FilesOK' /\ lost' \in [Loops -> Nat]
      BY <1>0, <2>1, <2>2, RemoveKeepsFiles DEF FilesOK, fileVars, Today
    <2> QED
      BY <2>2, <2>4, <2>5 DEF FilesOK, loopVars
  <1>4. CASE AgeDone(c)
    <2>1. pc' \in [Loops -> PCs] /\ loc' \in [Loops -> LocalType]
      BY <1>0, <1>4, <1>w, GotoType DEF AgeDone, PCs
    <2> QED
      BY <1>4, <2>1 DEF AgeDone, loopVars, fileVars, Today
  <1>5. CASE CheckTotal(c)
    <2>1. pc' \in [Loops -> PCs] /\ loc' \in [Loops -> LocalType]
      BY <1>0, <1>5, <1>w, GotoType DEF CheckTotal, PCs
    <2> QED
      BY <1>5, <2>1 DEF CheckTotal, loopVars, fileVars, Today
  <1>6. CASE PickOldest(c)
    <2>1. dirs \subseteq Days
      BY <1>0, DirsAreDays
    <2>2. \A d \in dirs : [loc[c] EXCEPT !.day = d] \in LocalType
      BY <1>0, <2>1 DEF LocalType
    <2>3. pc' \in [Loops -> PCs] /\ loc' \in [Loops -> LocalType]
      BY <1>0, <1>6, <1>w, <2>2, GotoType DEF PickOldest, PCs
    <2>4. lost' = lost \/ lost' = [lost EXCEPT ![c] = 0]
      BY <1>6 DEF PickOldest
    <2>5. lost' \in [Loops -> Nat]
      BY <2>4
    <2> QED
      BY <1>6, <2>3, <2>5 DEF PickOldest, loopVars, fileVars, Today
  <1>7. CASE RemoveOldest(c)
    <2>1. loc[c].day \in Days /\ UNCHANGED now /\ UNCHANGED loopVars
      BY <1>0, <1>7 DEF RemoveOldest, LocalType
    <2>2. pc' \in [Loops -> PCs] /\ loc' \in [Loops -> LocalType]
      BY <1>0, <1>7, GotoType DEF RemoveOldest, PCs
    <2>3. FilesOK' /\ lost' \in [Loops -> Nat]
      BY <1>0, <1>7, <2>1, RemoveKeepsFiles DEF RemoveOldest
    <2> QED
      BY <2>1, <2>2, <2>3 DEF FilesOK, loopVars
  <1>8. CASE Tick(c) \/ Exit(c)
    <2>1. pc' \in [Loops -> PCs] /\ loc' \in [Loops -> LocalType]
      BY <1>0, <1>8, NoLocalsType, GotoType DEF Tick, Exit, PCs
    <2> QED
      BY <1>8, <2>1 DEF Tick, Exit, loopVars, fileVars, Today
  <1> QED
    BY <1>1, <1>2, <1>3, <1>4, <1>5, <1>6, <1>7, <1>8 DEF LoopStep

(* A file is created, written anew, or grows. *)
LEMMA WriteTypeStep ==
    ASSUME TypeOK, CreateFile \/ ReplaceFile \/ GrowFile
    PROVE  TypeOK'
  <1> USE DEF TypeOK
  <1>1. Today \in Days /\ Today \in Nat /\ MaxSize \in Nat
    BY TodayIsDay, CleanupAssumption DEF FilesOK
  <1>2. dirs \subseteq Days
    BY DirsAreDays DEF FilesOK
  <1>3. CASE CreateFile
    <2>1. size' \in [Days -> 0 .. MaxSize] /\ \A d \in Days \ dirs' : size'[d] = 0
      BY <1>1, <1>3 DEF CreateFile
    <2> QED
      BY <1>1, <1>3, <2>1 DEF CreateFile, loopVars, Today
  <1>4. CASE ReplaceFile
    <2>1. PICK n \in 0 .. size[Today] : size' = [size EXCEPT ![Today] = @ - n] /\ Gone(0, n)
      BY <1>4 DEF ReplaceFile
    <2>2. size[Today] \in 0 .. MaxSize /\ n \in Nat /\ size[Today] - n \in 0 .. MaxSize
      BY <1>1, <2>1
    <2>3. lost' \in [Loops -> Nat]
      BY <2>1, <2>2, GoneType
    <2>4. size' \in [Days -> 0 .. MaxSize] /\ \A d \in Days \ dirs : size'[d] = 0
      BY <1>1, <1>4, <2>1, <2>2 DEF ReplaceFile
    <2> QED
      BY <1>4, <2>3, <2>4 DEF ReplaceFile, loopVars, Today
  <1>5. CASE GrowFile
    <2>1. open \in dirs
      BY <1>5 DEF GrowFile
    <2>2. size' \in [Days -> 0 .. MaxSize] /\ \A d \in Days \ dirs' : size'[d] = 0
      BY <1>1, <1>2, <1>5, <2>1 DEF GrowFile
    <2> QED
      BY <1>5, <2>2 DEF GrowFile, loopVars, Today
  <1> QED
    BY <1>3, <1>4, <1>5

(* Every step keeps the type invariant. *)
LEMMA TypeStep == ASSUME TypeOK, [Next]_vars PROVE TypeOK'
  <1>1. CASE UNCHANGED vars
    BY <1>1 DEF vars, loopVars, fileVars, TypeOK, Today
  <1>2. CASE CreateFile \/ ReplaceFile \/ GrowFile
    BY <1>2, WriteTypeStep
  <1>3. CASE HalfDayPasses
    <2>1. now \in Nat /\ now + 1 \in 0 .. MaxNow
      BY <1>3, CleanupAssumption DEF HalfDayPasses, TypeOK
    <2>2. now \div 2 <= (now + 1) \div 2 /\ (now + 1) \div 2 \in Nat
      BY <2>1, HalfDays
    <2>3. dirs' \subseteq 0 .. Today'
      BY <1>3, <2>1, <2>2, HalfDays DEF HalfDayPasses, TypeOK, Today, fileVars
    <2> QED
      BY <1>3, <2>1, <2>3 DEF HalfDayPasses, TypeOK, loopVars, fileVars
  <1>4. ASSUME NEW l \in Limits, PostConfig(l) PROVE TypeOK'
    BY <1>4, CleanupAssumption DEF PostConfig, TypeOK, fileVars, Today
  <1>5. CASE Launch
    <2>1. gens' \in 0 .. MaxLoops /\ closed' \subseteq 1 .. gens'
      BY <1>5, CleanupAssumption DEF Launch, TypeOK
    <2>2. pc' \in [Loops -> PCs]
      BY <1>5 DEF Launch, TypeOK, PCs
    <2> QED
      BY <1>5, <2>1, <2>2 DEF Launch, TypeOK, fileVars, Today
  <1>6. ASSUME NEW c \in Loops, LoopStep(c) PROVE TypeOK'
    BY <1>6, LoopTypeStep
  <1> QED
    BY <1>1, <1>2, <1>3, <1>4, <1>5, <1>6 DEF Next

LEMMA InitType == Init => TypeOK
  <1> SUFFICES ASSUME Init PROVE TypeOK
    OBVIOUS
  <1>1. loc \in [Loops -> LocalType] /\ pc \in [Loops -> PCs]
    BY NoLocalsType DEF Init, PCs
  <1>2. gens \in 0 .. MaxLoops /\ closed \subseteq 1 .. gens /\ cfg \in LimitType
    BY CleanupAssumption DEF Init
  <1> QED
    BY <1>1, <1>2 DEF Init, TypeOK

(* Types: a removed day is gone, and the segment under way with it. *)
THEOREM TypeCorrect == Spec => []TypeOK
  BY InitType, TypeStep, PTL DEF Spec

-----------------------------------------------------------------------------
(* The order of the removals.                                              *)

(* A listing under way is passed in order: a day that is not in it is one  *)
(* the age rule kept, or one created since, which is no older than any in  *)
(* the listing.                                                            *)
AgeOrder(c) ==
    pc[c] = "age" =>
        /\ \A d \in loc[c].todo : d <= Today
        /\ \A e \in dirs : \/ e \in loc[c].todo \/ e \in Stuck
                           \/ ~Expired(e, loc[c].cutoff)
                           \/ \A d \in loc[c].todo : d <= e

(* The day to remove is still the oldest, or was removed by another run. *)
RemoveOrder(c) ==
    pc[c] = "remove" => loc[c].day <= Today /\ \A e \in dirs : loc[c].day <= e

OrderInv == \A c \in Loops : AgeOrder(c) /\ RemoveOrder(c)

(* Steps that leave a loop alone and create no day but today keep its      *)
(* order.                                                                  *)
LEMMA OrderKept ==
    ASSUME TypeOK, TypeOK', NEW c \in Loops, AgeOrder(c), RemoveOrder(c),
           pc'[c] = pc[c], loc'[c] = loc[c],
           Today <= Today', dirs' \subseteq dirs \cup {Today'}
    PROVE  AgeOrder(c)' /\ RemoveOrder(c)'
  <1>1. dirs \subseteq Nat /\ loc[c] \in LocalType /\ Days \subseteq Nat
    BY DirsAreDays, DaysAreNat DEF TypeOK, FilesOK
  <1>2. Today \in Nat /\ Today' \in Nat
    <2>1. now \in Nat /\ now' \in Nat
      BY CleanupAssumption DEF TypeOK
    <2>2. now \div 2 \in Nat /\ now' \div 2 \in Nat
      BY <2>1, HalfDays
    <2> QED
      BY <2>2 DEF Today
  <1>3. loc[c].day \in Nat /\ loc[c].todo \subseteq Nat
    BY <1>1 DEF LocalType
  <1>4. AgeOrder(c)'
    <2> SUFFICES ASSUME pc[c] = "age"
                 PROVE  /\ \A d \in loc[c].todo : d <= Today'
                        /\ \A e \in dirs' : \/ e \in loc[c].todo \/ e \in Stuck
                                            \/ ~(2 * e - West <= loc[c].cutoff)
                                            \/ \A d \in loc[c].todo : d <= e
      BY DEF AgeOrder, Expired
    <2>1. \A d \in loc[c].todo : d <= Today
      BY DEF AgeOrder
    <2>2. \A d \in loc[c].todo : d <= Today'
      BY <1>2, <1>3, <2>1
    <2>3. \A e \in dirs : \/ e \in loc[c].todo \/ e \in Stuck
                         \/ ~(2 * e - West <= loc[c].cutoff)
                         \/ \A d \in loc[c].todo : d <= e
      BY DEF AgeOrder, Expired
    <2> QED
      BY <2>2, <2>3
  <1>5. RemoveOrder(c)'
    BY <1>1, <1>2, <1>3 DEF RemoveOrder
  <1> QED
    BY <1>4, <1>5

(* A step of loop c moves no other loop, no clock, and creates no day. *)
LEMMA OthersStay ==
    ASSUME TypeOK, NEW c \in Loops, LoopStep(c)
    PROVE  /\ now' = now /\ dirs' \subseteq dirs
           /\ \A i \in Loops \ {c} : pc'[i] = pc[i] /\ loc'[i] = loc[i]
  <1>1. \A d : RemoveAll(c, d) => dirs' \subseteq dirs
    BY DEF RemoveAll, fileVars
  <1> QED
    BY <1>1 DEF LoopStep, TypeOK, BeginRun, ListDays, AgeRule, AgeDone, CheckTotal,
       PickOldest, RemoveOldest, Tick, Exit, Goto, EndRun, fileVars

(* Loop c itself keeps to the order. *)
LEMMA OwnOrder ==
    ASSUME TypeOK, NEW c \in Loops, LoopStep(c), AgeOrder(c), RemoveOrder(c)
    PROVE  AgeOrder(c)' /\ RemoveOrder(c)'
  <1>a. Days \subseteq Nat /\ dirs \subseteq Nat /\ Today \in Nat
    BY TodayIsDay, DaysAreNat, DirsAreDays DEF TypeOK, FilesOK
  <1>b. /\ pc \in [Loops -> PCs] /\ loc \in [Loops -> LocalType] /\ loc[c] \in LocalType
        /\ \A d \in dirs : d <= Today
    BY <1>a DEF TypeOK
  <1>0. /\ pc \in [Loops -> PCs] /\ loc \in [Loops -> LocalType] /\ loc[c] \in LocalType
        /\ Today \in Nat /\ dirs \subseteq Nat /\ loc[c].todo \subseteq Nat
        /\ \A d \in dirs : d <= Today
    BY <1>a, <1>b DEF LocalType
  <1>1. CASE BeginRun(c) \/ AgeDone(c) \/ CheckTotal(c) \/ RemoveOldest(c) \/ Tick(c) \/ Exit(c)
    <2>1. pc'[c] \notin {"age", "remove"}
      BY <1>0, <1>1 DEF BeginRun, AgeDone, CheckTotal, RemoveOldest, Tick, Exit, Goto, EndRun
    <2> QED
      BY <2>1 DEF AgeOrder, RemoveOrder
  <1>2. CASE ListDays(c)
    <2>1. CASE Goto(c, "age", [loc[c] EXCEPT !.todo = dirs])
      <3>1. pc'[c] = "age" /\ loc'[c].todo = dirs /\ dirs' = dirs /\ Today' = Today
        BY <1>0, <1>2, <2>1 DEF ListDays, Goto, EndRun, LocalType, fileVars, Today
      <3> QED
        BY <1>0, <3>1 DEF AgeOrder, RemoveOrder
    <2>2. CASE EndRun(c)
      BY <1>0, <2>2 DEF EndRun, Goto, AgeOrder, RemoveOrder
    <2> QED
      BY <1>2, <2>1, <2>2 DEF ListDays
  <1>3. CASE AgeRule(c)
    <2>1. PICK d \in loc[c].todo :
            /\ \A e \in loc[c].todo : d <= e
            /\ IF Expired(d, loc[c].cutoff) THEN RemoveAll(c, d) ELSE UNCHANGED <<fileVars, lost>>
            /\ Goto(c, "age", [loc[c] EXCEPT !.todo = @ \ {d}])
      BY <1>3 DEF AgeRule
    <2>2. /\ pc[c] = "age" /\ pc'[c] = "age" /\ Today' = Today
          /\ loc'[c].todo = loc[c].todo \ {d} /\ loc'[c].cutoff = loc[c].cutoff
      BY <1>0, <1>3, <2>1 DEF AgeRule, Goto, EndRun, LocalType, Today
    <2>3. dirs' \subseteq dirs /\ (d \in dirs' => d \in Stuck \/ ~Expired(d, loc[c].cutoff))
      BY <2>1 DEF RemoveAll, fileVars
    <2>4. AgeOrder(c)'
      BY <2>2, <2>3 DEF AgeOrder, Expired
    <2> QED
      BY <2>2, <2>4 DEF RemoveOrder
  <1>4. CASE PickOldest(c)
    <2>1. dirs' = dirs /\ Today' = Today
      BY <1>4 DEF PickOldest, fileVars, Today
    <2>2. CASE EndRun(c)
      BY <1>0, <2>2 DEF EndRun, Goto, AgeOrder, RemoveOrder
    <2>3. ASSUME NEW d \in dirs, \A e \in dirs : d <= e,
                 Goto(c, "remove", [loc[c] EXCEPT !.day = d])
          PROVE  AgeOrder(c)' /\ RemoveOrder(c)'
      <3>1. pc'[c] = "remove" /\ loc'[c].day = d
        BY <1>0, <2>3 DEF Goto, EndRun, LocalType
      <3> QED
        BY <1>0, <2>1, <2>3, <3>1 DEF AgeOrder, RemoveOrder
    <2> QED
      BY <1>4, <2>2, <2>3 DEF PickOldest
  <1> QED
    BY <1>1, <1>2, <1>3, <1>4 DEF LoopStep

LEMMA OrderStep == ASSUME TypeOK, TypeOK', OrderInv, [Next]_vars PROVE OrderInv'
  <1>0. \A n \in 0 .. MaxNow : n \in Nat /\ n \div 2 \in Nat
    BY HalfDays, CleanupAssumption
  <1>1. now \in Nat /\ Today \in Nat
    BY <1>0 DEF TypeOK, Today
  <1>2. ASSUME pc' = pc, loc' = loc, Today <= Today', dirs' \subseteq dirs \cup {Today'}
        PROVE  OrderInv'
    BY <1>2, OrderKept DEF OrderInv
  <1>3. CASE UNCHANGED vars
    BY <1>1, <1>2, <1>3 DEF vars, fileVars, Today
  <1>4. CASE CreateFile \/ ReplaceFile \/ GrowFile \/ \E l \in Limits : PostConfig(l)
    BY <1>1, <1>2, <1>4 DEF CreateFile, ReplaceFile, GrowFile, PostConfig, fileVars, Today
  <1>5. CASE HalfDayPasses
    <2>1. now' = now + 1 /\ dirs' = dirs /\ pc' = pc /\ loc' = loc
      BY <1>5 DEF HalfDayPasses, fileVars
    <2>2. Today <= Today'
      BY <1>1, <2>1, HalfDays DEF Today
    <2> QED
      BY <1>2, <2>1, <2>2
  <1>6. CASE Launch
    <2>1. Today' = Today /\ dirs' = dirs /\ loc' = loc
      BY <1>6 DEF Launch, fileVars, Today
    <2>2. ASSUME NEW c \in Loops PROVE pc'[c] = pc[c] \/ pc'[c] = "begin"
      BY <1>6 DEF Launch, TypeOK
    <2>3. ASSUME NEW c \in Loops PROVE AgeOrder(c)' /\ RemoveOrder(c)'
      <3>1. CASE pc'[c] = "begin"
        BY <3>1 DEF AgeOrder, RemoveOrder
      <3>2. CASE pc'[c] = pc[c]
        BY <1>1, <2>1, <3>2, OrderKept DEF OrderInv
      <3> QED
        BY <2>2, <3>1, <3>2
    <2> QED
      BY <2>3 DEF OrderInv
  <1>7. ASSUME NEW c \in Loops, LoopStep(c) PROVE OrderInv'
    <2>1. /\ now' = now /\ dirs' \subseteq dirs
          /\ \A i \in Loops \ {c} : pc'[i] = pc[i] /\ loc'[i] = loc[i]
      BY <1>7, OthersStay
    <2>2. AgeOrder(c)' /\ RemoveOrder(c)'
      BY <1>7, OwnOrder DEF OrderInv
    <2>3. ASSUME NEW i \in Loops \ {c} PROVE AgeOrder(i)' /\ RemoveOrder(i)'
      <3>1. Today <= Today' /\ dirs' \subseteq dirs \cup {Today'}
        BY <1>1, <2>1 DEF Today
      <3> QED
        BY <2>1, <3>1, OrderKept DEF OrderInv
    <2> QED
      BY <2>2, <2>3 DEF OrderInv
  <1> QED
    BY <1>3, <1>4, <1>5, <1>6, <1>7 DEF Next

(* However loops with different configurations interleave with each other  *)
(* and with the recorder, a day is removed only when no older removable    *)
(* day is kept.                                                            *)
THEOREM RemovalsInOrder == Spec => OldestFirst
  <1> DEFINE Older == \A d \in dirs \ dirs' : \A e \in dirs' : d < e \/ e \in Stuck
  <1>1. ASSUME TypeOK, OrderInv, Next PROVE Older
    <2>0. dirs \subseteq Nat
      BY <1>1, DirsAreDays, DaysAreNat DEF TypeOK, FilesOK
    <2>1. CASE dirs \subseteq dirs'
      BY <2>1
    <2>2. ASSUME NEW c \in Loops, LoopStep(c), ~(dirs \subseteq dirs') PROVE Older
      <3>0. dirs' \subseteq dirs /\ AgeOrder(c) /\ RemoveOrder(c)
        BY <1>1, <2>2, OthersStay DEF OrderInv
      <3>1. CASE AgeRule(c)
        <4>1. PICK d \in loc[c].todo :
                /\ \A e \in loc[c].todo : d <= e
                /\ IF Expired(d, loc[c].cutoff) THEN RemoveAll(c, d) ELSE UNCHANGED <<fileVars, lost>>
          BY <3>1 DEF AgeRule
        <4>2. Expired(d, loc[c].cutoff) /\ dirs' = dirs \ {d}
          BY <2>2, <4>1 DEF RemoveAll, fileVars
        <4>3. d \in dirs /\ d \in Nat
          BY <2>0, <2>2, <4>2
        <4>4. ASSUME NEW e \in dirs', e \notin Stuck PROVE d < e
          <5>1. e \in dirs /\ e \in Nat /\ e # d
            BY <2>0, <4>2
          <5>2. \/ e \in loc[c].todo \/ ~Expired(e, loc[c].cutoff)
                \/ \A i \in loc[c].todo : i <= e
            BY <3>0, <3>1, <4>4, <5>1 DEF AgeOrder, AgeRule
          <5>3. CASE ~Expired(e, loc[c].cutoff)
            <6>1. loc[c].cutoff \in Int /\ West \in Int
              BY <1>1, CleanupAssumption DEF TypeOK, LocalType
            <6> QED
              BY <4>2, <4>3, <5>1, <5>3, <6>1 DEF Expired
          <5> QED
            BY <4>1, <4>3, <5>1, <5>2, <5>3
        <4> QED
          BY <4>2, <4>4
      <3>2. CASE RemoveOldest(c)
        <4>1. dirs' = dirs \ {loc[c].day}
          BY <2>2, <3>2 DEF RemoveOldest, RemoveAll, fileVars
        <4> QED
          BY <2>0, <2>2, <3>0, <3>2, <4>1 DEF RemoveOrder, RemoveOldest
      <3>3. CASE ~AgeRule(c) /\ ~RemoveOldest(c)
        BY <2>2, <3>3 DEF LoopStep, BeginRun, ListDays, AgeDone, CheckTotal, PickOldest,
           Tick, Exit, fileVars
      <3> QED
        BY <3>1, <3>2, <3>3
    <2>3. dirs \subseteq dirs' \/ \E c \in Loops : LoopStep(c)
      BY <1>1 DEF Next, CreateFile, ReplaceFile, GrowFile, HalfDayPasses, PostConfig, Launch, fileVars
    <2> QED
      BY <2>1, <2>2, <2>3
  <1>2. TypeOK /\ TypeOK' /\ OrderInv /\ [Next]_vars => OrderInv' /\ [Older]_vars
    BY <1>1, OrderStep DEF OrderInv
  <1>3. Init => OrderInv
    BY DEF Init, OrderInv, AgeOrder, RemoveOrder
  <1> QED
    BY <1>2, <1>3, InitType, TypeStep, PTL DEF Spec, OldestFirst

-----------------------------------------------------------------------------
(* The age rule.                                                           *)

(* The cutoff of a run that lists and removes is that of its configuration *)
(* at some time passed. *)
CutoffInv ==
    \A c \in Loops : pc[c] \in {"list", "age"} =>
        loc[c].cutoff <= now - 2 * loc[c].cfg.keep

LEMMA CutoffStep == ASSUME TypeOK, TypeOK', CutoffInv, [Next]_vars PROVE CutoffInv'
  <1>0. /\ now \in Int /\ now' \in Int
        /\ pc \in [Loops -> PCs] /\ loc \in [Loops -> LocalType]
        /\ \A c \in Loops : loc[c].cutoff \in Int /\ loc[c].cfg.keep \in Int
    BY CleanupAssumption DEF TypeOK, LocalType, LimitType
  <1>1. ASSUME NEW c \in Loops, now <= now', loc'[c] = loc[c],
               pc'[c] \notin {"list", "age"} \/ pc'[c] = pc[c], pc'[c] \in {"list", "age"}
        PROVE  loc'[c].cutoff <= now' - 2 * loc'[c].cfg.keep
    BY <1>0, <1>1 DEF CutoffInv
  <1>2. CASE UNCHANGED vars \/ CreateFile \/ ReplaceFile \/ GrowFile \/ \E l \in Limits : PostConfig(l)
    BY <1>0, <1>1, <1>2 DEF vars, CreateFile, ReplaceFile, GrowFile, PostConfig, CutoffInv
  <1>3. CASE HalfDayPasses
    BY <1>0, <1>1, <1>3 DEF HalfDayPasses, CutoffInv
  <1>4. CASE Launch
    <2>1. \A c \in Loops : pc'[c] = pc[c] \/ pc'[c] = "begin"
      BY <1>0, <1>4 DEF Launch
    <2> QED
      BY <1>0, <1>1, <1>4, <2>1 DEF Launch, CutoffInv
  <1>5. ASSUME NEW c \in Loops, LoopStep(c) PROVE CutoffInv'
    <2>1. now' = now /\ \A i \in Loops \ {c} : pc'[i] = pc[i] /\ loc'[i] = loc[i]
      BY <1>5, OthersStay
    <2>2. ASSUME pc'[c] \in {"list", "age"} PROVE loc'[c].cutoff <= now' - 2 * loc'[c].cfg.keep
      <3>1. CASE BeginRun(c)
        <4>1. loc'[c].cutoff = now - 2 * cfg.keep /\ loc'[c].cfg = cfg
          BY <1>0, <3>1, NoLocalsType DEF BeginRun, Goto, EndRun, Cutoff, LocalType
        <4>2. cfg.keep \in Nat
          BY DEF TypeOK, LimitType
        <4> QED
          BY <1>0, <2>1, <4>1, <4>2
      <3>2. CASE ListDays(c) \/ AgeRule(c)
        <4>1. /\ pc[c] \in {"list", "age"}
              /\ loc'[c].cutoff = loc[c].cutoff /\ loc'[c].cfg = loc[c].cfg
          BY <1>0, <2>2, <3>2 DEF ListDays, AgeRule, Goto, EndRun, LocalType
        <4> QED
          BY <2>1, <4>1 DEF CutoffInv
      <3>3. CASE ~BeginRun(c) /\ ~ListDays(c) /\ ~AgeRule(c)
        BY <1>0, <1>5, <2>2, <3>3 DEF LoopStep, AgeDone, CheckTotal, PickOldest,
           RemoveOldest, Tick, Exit, Goto, EndRun
      <3> QED
        BY <3>1, <3>2, <3>3
    <2> QED
      BY <1>0, <1>1, <2>1, <2>2 DEF CutoffInv
  <1> QED
    BY <1>2, <1>3, <1>4, <1>5 DEF Next

(* Where the local clock is not behind UTC, the age rule keeps today and   *)
(* the RetentionDays - 1 days before, whatever the configuration becomes   *)
(* meanwhile.                                                              *)
THEOREM RetentionKept == ASSUME West <= 0 PROVE Spec => RetentionHonoured
  <1> DEFINE Kept == \A c \in Loops : pc[c] = "age" /\ loc'[c] # loc[c] =>
                         \A d \in dirs \ dirs' : d + loc[c].cfg.keep <= Today
  <1>1. ASSUME TypeOK, CutoffInv, Next PROVE Kept
    <2> SUFFICES ASSUME NEW c \in Loops, pc[c] = "age", loc'[c] # loc[c],
                        NEW d \in dirs \ dirs'
                 PROVE  d + loc[c].cfg.keep <= Today
      OBVIOUS
    <2>1. LoopStep(c)
      <3>1. PICK i \in Loops : LoopStep(i)
        BY <1>1 DEF Next, CreateFile, ReplaceFile, GrowFile, HalfDayPasses, PostConfig, Launch
      <3> QED
        BY <1>1, <3>1, OthersStay
    <2>2. PICK e \in loc[c].todo :
            IF Expired(e, loc[c].cutoff) THEN RemoveAll(c, e) ELSE UNCHANGED <<fileVars, lost>>
      BY <2>1 DEF LoopStep, BeginRun, ListDays, AgeRule, AgeDone, CheckTotal, PickOldest,
         RemoveOldest, Tick, Exit, fileVars
    <2>3. Expired(d, loc[c].cutoff)
      BY <2>2 DEF RemoveAll, fileVars
    <2>4. /\ d \in Nat /\ West \in Int /\ now \in Nat
          /\ loc[c].cutoff \in Int /\ loc[c].cfg.keep \in Nat
      BY <1>1, DirsAreDays, DaysAreNat, CleanupAssumption
      DEF TypeOK, FilesOK, LocalType, LimitType
    <2>5. 2 * (d + loc[c].cfg.keep) <= now
      BY <1>1, <2>3, <2>4 DEF CutoffInv, Expired
    <2> QED
      BY <2>4, <2>5, HalfDays DEF Today
  <1>2. TypeOK /\ TypeOK' /\ CutoffInv /\ [Next]_vars => CutoffInv' /\ [Kept]_vars
    BY <1>1, CutoffStep
  <1>3. Init => CutoffInv
    BY DEF Init, CutoffInv
  <1> QED
    BY <1>2, <1>3, InitType, TypeStep, PTL DEF Spec, RetentionHonoured

-----------------------------------------------------------------------------
(* The size rule.                                                          *)

(* What a run found above its limit still is, with what the others took.   *)
LimitInv ==
    \A c \in Loops : pc[c] \in {"oldest", "remove"} =>
        TotalSize + lost[c] > loc[c].cfg.max

LEMMA TotalIsSum == TotalSize = Sum(size, dirs)
  BY DEF TotalSize, Sum

LEMMA DirsFinite ==
    FilesOK => IsFiniteSet(dirs) /\ \A d \in dirs : d \in Days /\ size[d] \in Nat
  <1> SUFFICES ASSUME FilesOK
               PROVE  IsFiniteSet(dirs) /\ \A d \in dirs : d \in Days /\ size[d] \in Nat
    OBVIOUS
  <1>1. IsFiniteSet(0 .. Today)
    BY TodayIsDay, FS_Interval
  <1>2. IsFiniteSet(dirs)
    BY <1>1, FS_Subset DEF FilesOK
  <1> QED
    BY <1>2, DirsAreDays, CleanupAssumption DEF FilesOK

LEMMA TotalIsNat == FilesOK => TotalSize \in Nat
  BY DirsFinite, SumType, TotalIsSum

(* Writing adds to the total. *)
LEMMA WritingGrows ==
    ASSUME TypeOK, TypeOK', CreateFile \/ GrowFile
    PROVE  TotalSize <= TotalSize'
  <1>1. FilesOK /\ FilesOK'
    BY DEF TypeOK, FilesOK
  <1>0. (FilesOK => IsFiniteSet(dirs) /\ \A d \in dirs : d \in Days /\ size[d] \in Nat)'
    BY DirsFinite, PTL
  <1>2. dirs \subseteq dirs' /\ \A d \in dirs : size[d] <= size'[d]
    <2>1. Today \in Days /\ open \in dirs \cup {NoDay} /\ size \in [Days -> 0 .. MaxSize]
      BY <1>1, TodayIsDay DEF FilesOK
    <2>2. \A d \in dirs : d \in Days /\ size[d] \in Nat
      BY <1>1, DirsFinite
    <2> QED
      BY <2>1, <2>2 DEF CreateFile, GrowFile
  <1>3. IsFiniteSet(dirs) /\ IsFiniteSet(dirs')
    BY <1>0, <1>1, DirsFinite
  <1>4. \A d \in dirs : size[d] \in Nat
    BY <1>1, DirsFinite
  <1>5. \A d \in dirs' : size'[d] \in Nat
    BY <1>0, <1>1
  <1>6. Sum(size, dirs) <= Sum(size', dirs)
    BY <1>2, <1>3, <1>4, <1>5, SumMonotone
  <1>7. Sum(size', dirs) <= Sum(size', dirs')
    BY <1>2, <1>3, <1>5, SumSubset
  <1>8. Sum(size, dirs) \in Nat /\ Sum(size', dirs) \in Nat /\ Sum(size', dirs') \in Nat
    BY <1>2, <1>3, <1>4, <1>5, SumType
  <1>9. (TotalSize = Sum(size, dirs))'
    BY TotalIsSum, PTL
  <1> QED
    BY <1>6, <1>7, <1>8, <1>9, TotalIsSum

LEMMA SameTotal == ASSUME UNCHANGED <<dirs, size>> PROVE TotalSize' = TotalSize
  <1>1. (TotalSize = Sum(size, dirs))'
    BY TotalIsSum, PTL
  <1> QED
    BY <1>1, TotalIsSum

(* Sums of functions that differ at one place differ as they do there. *)
LEMMA SumChange ==
    ASSUME NEW f, NEW g, NEW S, IsFiniteSet(S), NEW y \in S,
           \A x \in S : f[x] \in Nat /\ g[x] \in Nat,
           \A x \in S \ {y} : f[x] = g[x]
    PROVE  Sum(f, S) + g[y] <= Sum(g, S) + f[y]
  <1> DEFINE rest == S \ {y}
  <1>1. IsFiniteSet(rest)
    BY FS_Subset
  <1>2. Sum(f, S) = f[y] + Sum(f, rest)
    BY SumRemove
  <1>3. Sum(g, S) = g[y] + Sum(g, rest)
    BY SumRemove
  <1>4. \A x \in rest : f[x] \in Nat /\ g[x] \in Nat /\ f[x] <= g[x]
    OBVIOUS
  <1>5. Sum(f, rest) <= Sum(g, rest)
    BY <1>1, <1>4, SumMonotone
  <1>6. Sum(f, rest) \in Nat /\ Sum(g, rest) \in Nat
    BY <1>1, <1>4, SumType
  <1> QED
    BY <1>2, <1>3, <1>5, <1>6

(* A file written anew takes from the total what it loses. *)
LEMMA ReplacingLoses ==
    ASSUME TypeOK, TypeOK', Today \in dirs, dirs' = dirs, NEW n \in 0 .. size[Today],
           size' = [size EXCEPT ![Today] = @ - n]
    PROVE  TotalSize <= TotalSize' + n
  <1> DEFINE g == [size EXCEPT ![Today] = @ - n]
  <1>1. IsFiniteSet(dirs) /\ \A d \in dirs : d \in Days /\ size[d] \in Nat
    BY DirsFinite DEF TypeOK, FilesOK
  <1>2. n \in Nat /\ g[Today] = size[Today] - n /\ g[Today] \in Nat
    BY <1>1 DEF TypeOK
  <1>3. \A d \in dirs \ {Today} : size[d] = g[d]
    BY <1>1 DEF TypeOK
  <1>4. \A d \in dirs : size[d] \in Nat /\ g[d] \in Nat
    BY <1>1, <1>2, <1>3
  <1>5. (TotalSize = Sum(size, dirs))'
    BY TotalIsSum, PTL
  <1>6. TotalSize' = Sum(g, dirs)
    BY <1>5
  <1> HIDE DEF g
  <1>7. Sum(size, dirs) + g[Today] <= Sum(g, dirs) + size[Today]
    BY <1>1, <1>3, <1>4, SumChange
  <1>8. Sum(size, dirs) \in Nat /\ Sum(g, dirs) \in Nat
    BY <1>1, <1>4, SumType
  <1>9. size[Today] \in Nat
    BY <1>1
  <1>10. Sum(size, dirs) <= Sum(g, dirs) + n
    BY <1>2, <1>7, <1>8, <1>9
  <1> QED
    BY <1>6, <1>10, TotalIsSum

(* A removed day takes its size from the total. *)
LEMMA RemovingLoses ==
    ASSUME TypeOK, NEW d \in Days, dirs' = dirs \ {d}, size' = [size EXCEPT ![d] = 0]
    PROVE  TotalSize <= TotalSize' + size[d]
  <1>1. IsFiniteSet(dirs) /\ \A e \in dirs : e \in Days /\ size[e] \in Nat
    BY DirsFinite DEF TypeOK, FilesOK
  <1>2. IsFiniteSet(dirs')
    BY <1>1, FS_Subset
  <1>a. \A e \in dirs' : size[e] \in Nat /\ size'[e] = size[e]
    BY <1>1 DEF TypeOK
  <1>b. \A e \in dirs' : size[e] \in Nat /\ size'[e] \in Nat /\ size[e] <= size'[e]
    BY <1>a
  <1>3. Sum(size, dirs') <= Sum(size', dirs')
    BY <1>2, <1>b, SumMonotone
  <1>c. Sum(size, dirs') \in Nat /\ Sum(size', dirs') \in Nat
    BY <1>2, <1>b, SumType
  <1>d. size[d] \in Nat
    BY CleanupAssumption DEF TypeOK
  <1>4. Sum(size, dirs') \in Nat /\ Sum(size', dirs') \in Nat /\ size[d] \in Nat
    BY <1>c, <1>d
  <1>5. Sum(size, dirs) <= size[d] + Sum(size, dirs')
    <2>1. CASE d \in dirs
      BY <1>1, <1>4, <2>1, SumRemove
    <2>2. CASE d \notin dirs
      <3>1. dirs' = dirs
        BY <2>2
      <3> QED
        BY <1>4, <3>1
    <2> QED
      BY <2>1, <2>2
  <1>6. (TotalSize = Sum(size, dirs))'
    BY TotalIsSum, PTL
  <1>7. Sum(size, dirs) \in Nat
    BY <1>1, SumType
  <1>8. Sum(size, dirs) <= Sum(size', dirs') + size[d]
    BY <1>3, <1>4, <1>5, <1>7
  <1> QED
    BY <1>6, <1>8, TotalIsSum

LEMMA CountEnough ==
    ASSUME NEW t \in Nat, NEW u \in Nat, NEW l \in Nat, NEW n \in Nat, NEW m \in Nat,
           t <= u + n, t + l > m
    PROVE  u + AtMost(l + n, m + 1) > m
  BY DEF AtMost

(* A loop that is left alone keeps its bound when the total does not fall, *)
(* and when what goes is counted.                                          *)
LEMMA LimitKept ==
    ASSUME TypeOK, TotalSize \in Nat, TotalSize' \in Nat, LimitInv,
           NEW c \in Loops, NEW n \in Nat, pc'[c] = pc[c], loc'[c] = loc[c],
           pc[c] \in {"oldest", "remove"}, TotalSize <= TotalSize' + n,
           lost'[c] = AtMost(lost[c] + n, loc[c].cfg.max + 1)
    PROVE  TotalSize' + lost'[c] > loc'[c].cfg.max
  <1>1. lost[c] \in Nat /\ loc[c].cfg.max \in Nat
    BY DEF TypeOK, LocalType, LimitType
  <1>2. TotalSize + lost[c] > loc[c].cfg.max
    BY DEF LimitInv
  <1>3. TotalSize' + AtMost(lost[c] + n, loc[c].cfg.max + 1) > loc[c].cfg.max
    BY <1>1, <1>2, CountEnough
  <1> QED
    BY <1>3

LEMMA LimitSame ==
    ASSUME TypeOK, TotalSize \in Nat, TotalSize' \in Nat, LimitInv,
           NEW c \in Loops, pc'[c] = pc[c], loc'[c] = loc[c],
           pc[c] \in {"oldest", "remove"}, TotalSize <= TotalSize', lost'[c] = lost[c]
    PROVE  TotalSize' + lost'[c] > loc'[c].cfg.max
  <1>1. lost[c] \in Nat /\ loc[c].cfg.max \in Nat
    BY DEF TypeOK, LocalType, LimitType
  <1>2. TotalSize + lost[c] > loc[c].cfg.max
    BY DEF LimitInv
  <1> QED
    BY <1>1, <1>2

(* What loop c removes, every other run has counted. *)
LEMMA LimitRemove ==
    ASSUME TypeOK, TotalSize \in Nat, TotalSize' \in Nat, LimitInv,
           NEW c \in Loops, NEW d \in Days, RemoveAll(c, d),
           NEW i \in Loops \ {c}, pc'[i] = pc[i], loc'[i] = loc[i],
           pc[i] \in {"oldest", "remove"}
    PROVE  TotalSize' + lost'[i] > loc'[i].cfg.max
  <1>1. CASE d \in Stuck
    <2>1. UNCHANGED <<dirs, size, lost>>
      BY <1>1 DEF RemoveAll, fileVars
    <2>2. TotalSize <= TotalSize'
      BY <2>1, SameTotal
    <2> QED
      BY <2>1, <2>2, LimitSame
  <1>2. CASE d \notin Stuck
    <2>1. dirs' = dirs \ {d} /\ size' = [size EXCEPT ![d] = 0] /\ Gone(c, size[d])
      BY <1>2 DEF RemoveAll
    <2>2. TotalSize <= TotalSize' + size[d] /\ size[d] \in Nat
      <3>1. size[d] \in Nat
        BY CleanupAssumption DEF TypeOK
      <3> QED
        BY <2>1, <3>1, RemovingLoses
    <2>3. lost'[i] = AtMost(lost[i] + size[d], loc[i].cfg.max + 1)
      BY <2>1 DEF Gone
    <2> QED
      BY <2>2, <2>3, LimitKept
  <1> QED
    BY <1>1, <1>2

(* A loop moves: it has just taken its total, or goes on from it. *)
LEMMA LimitLoopStep ==
    ASSUME TypeOK, TypeOK', TotalSize \in Nat, TotalSize' \in Nat, LimitInv,
           NEW c \in Loops, LoopStep(c)
    PROVE  LimitInv'
  <1>0. /\ pc \in [Loops -> PCs] /\ loc \in [Loops -> LocalType] /\ loc[c] \in LocalType
        /\ lost \in [Loops -> Nat] /\ loc[c].cfg.max \in Nat
    BY DEF TypeOK, LocalType, LimitType
  <1>1. \A i \in Loops \ {c} : pc'[i] = pc[i] /\ loc'[i] = loc[i]
    BY OthersStay
  <1>2. ASSUME NEW i \in Loops \ {c}, pc'[i] \in {"oldest", "remove"}
        PROVE  TotalSize' + lost'[i] > loc'[i].cfg.max
    <2>1. CASE AgeRule(c)
      <3>1. PICK d \in loc[c].todo :
              IF Expired(d, loc[c].cutoff) THEN RemoveAll(c, d) ELSE UNCHANGED <<fileVars, lost>>
        BY <2>1 DEF AgeRule
      <3>2. d \in Days
        BY <1>0 DEF LocalType
      <3>3. CASE RemoveAll(c, d)
        BY <1>1, <1>2, <3>2, <3>3, LimitRemove
      <3>4. CASE UNCHANGED <<fileVars, lost>>
        <4>1. TotalSize <= TotalSize' /\ lost' = lost
          BY <3>4, SameTotal DEF fileVars
        <4> QED
          BY <1>1, <1>2, <4>1, LimitSame
      <3> QED
        BY <3>1, <3>3, <3>4
    <2>2. CASE RemoveOldest(c)
      <3>1. RemoveAll(c, loc[c].day) /\ loc[c].day \in Days
        BY <1>0, <2>2 DEF RemoveOldest, LocalType
      <3> QED
        BY <1>1, <1>2, <3>1, LimitRemove
    <2>3. CASE ~AgeRule(c) /\ ~RemoveOldest(c)
      <3>1. UNCHANGED <<dirs, size>> /\ lost'[i] = lost[i]
        BY <1>0, <2>3 DEF LoopStep, BeginRun, ListDays, AgeDone, CheckTotal, PickOldest,
           Tick, Exit, fileVars
      <3>2. TotalSize <= TotalSize'
        BY <3>1, SameTotal
      <3> QED
        BY <1>1, <1>2, <3>1, <3>2, LimitSame
    <2> QED
      BY <2>1, <2>2, <2>3
  <1>3. ASSUME pc'[c] \in {"oldest", "remove"}
        PROVE  TotalSize' + lost'[c] > loc'[c].cfg.max
    <2>1. CASE CheckTotal(c)
      <3>1. TotalSize' = TotalSize /\ lost'[c] = 0
        BY <1>0, <2>1, SameTotal DEF CheckTotal, fileVars
      <3>2. loc'[c] = loc[c] /\ ~(TotalSize <= loc[c].cfg.max)
        BY <1>0, <1>3, <2>1 DEF CheckTotal, Goto, EndRun
      <3> QED
        BY <1>0, <3>1, <3>2
    <2>2. CASE PickOldest(c)
      <3>1. PICK d \in dirs : Goto(c, "remove", [loc[c] EXCEPT !.day = d]) /\ UNCHANGED lost
        BY <1>0, <1>3, <2>2 DEF PickOldest, Goto, EndRun
      <3>2. TotalSize' = TotalSize
        BY <2>2, SameTotal DEF PickOldest, fileVars
      <3>3. loc'[c].cfg = loc[c].cfg /\ pc[c] = "oldest"
        BY <1>0, <2>2, <3>1 DEF PickOldest, Goto, LocalType
      <3> QED
        BY <3>1, <3>2, <3>3 DEF LimitInv
    <2>3. CASE ~CheckTotal(c) /\ ~PickOldest(c)
      BY <1>0, <1>3, <2>3 DEF LoopStep, BeginRun, ListDays, AgeRule, AgeDone,
         RemoveOldest, Tick, Exit, Goto, EndRun
    <2> QED
      BY <2>1, <2>2, <2>3
  <1> QED
    BY <1>2, <1>3 DEF LimitInv

LEMMA LimitStep == ASSUME TypeOK, TypeOK', LimitInv, [Next]_vars PROVE LimitInv'
  <1>1. TotalSize \in Nat /\ TotalSize' \in Nat
    <2>1. (FilesOK => TotalSize \in Nat)'
      BY TotalIsNat, PTL
    <2> QED
      BY <2>1, TotalIsNat DEF TypeOK, FilesOK
  <1>2. ASSUME TotalSize <= TotalSize', lost' = lost, loc' = loc,
               \A c \in Loops : pc'[c] = pc[c] \/ pc'[c] = "begin"
        PROVE  LimitInv'
    BY <1>1, <1>2, LimitSame DEF LimitInv
  <1>3. CASE UNCHANGED vars \/ HalfDayPasses \/ (\E l \in Limits : PostConfig(l)) \/ Launch
    <2>1. UNCHANGED <<dirs, size, loc, lost>>
      BY <1>3 DEF vars, HalfDayPasses, PostConfig, Launch, fileVars
    <2>2. \A c \in Loops : pc'[c] = pc[c] \/ pc'[c] = "begin"
      BY <1>3 DEF vars, HalfDayPasses, PostConfig, Launch, TypeOK
    <2>3. TotalSize' = TotalSize
      BY <2>1, SameTotal
    <2>4. TotalSize <= TotalSize'
      BY <1>1, <2>3
    <2> QED
      BY <1>2, <2>1, <2>2, <2>4
  <1>4. CASE CreateFile \/ GrowFile
    BY <1>2, <1>4, WritingGrows DEF CreateFile, GrowFile
  <1>5. CASE ReplaceFile
    <2>1. PICK n \in 0 .. size[Today] : size' = [size EXCEPT ![Today] = @ - n] /\ Gone(0, n)
      BY <1>5 DEF ReplaceFile
    <2>2. TotalSize <= TotalSize' + n
      BY <1>5, <2>1, ReplacingLoses DEF ReplaceFile
    <2>3. n \in Nat /\ UNCHANGED <<pc, loc>>
      <3>1. size[Today] \in Nat
        BY TodayIsDay, CleanupAssumption DEF TypeOK, FilesOK
      <3> QED
        BY <1>5, <2>1, <3>1 DEF ReplaceFile
    <2>4. ASSUME NEW c \in Loops, pc[c] \in {"oldest", "remove"}
          PROVE  TotalSize' + lost'[c] > loc'[c].cfg.max
      <3>1. lost'[c] = AtMost(lost[c] + n, loc[c].cfg.max + 1)
        BY <2>1, <2>4, CleanupAssumption DEF Gone, Loops
      <3> QED
        BY <1>1, <2>2, <2>3, <2>4, <3>1, LimitKept
    <2> QED
      BY <2>3, <2>4 DEF LimitInv
  <1>6. ASSUME NEW c \in Loops, LoopStep(c) PROVE LimitInv'
    BY <1>1, <1>6, LimitLoopStep
  <1> QED
    BY <1>3, <1>4, <1>5, <1>6 DEF Next

(* However runs meet and the recorder writes, a run removes a day below    *)
(* its limit only by what the others took from the files since it looked.  *)
THEOREM NothingRemovedInVain == Spec => []NoOverDelete
  <1>1. Init => LimitInv
    BY DEF Init, LimitInv
  <1>2. LimitInv => NoOverDelete
    BY DEF LimitInv, NoOverDelete
  <1>3. TypeOK /\ TypeOK' /\ LimitInv /\ [Next]_vars => LimitInv'
    BY LimitStep
  <1> QED
    BY <1>1, <1>2, <1>3, InitType, TypeStep, PTL DEF Spec

-----------------------------------------------------------------------------
(* Runs come to their end.                                                 *)

LEMMA DaysCounted ==
    TypeOK => /\ IsFiniteSet(dirs) /\ Cardinality(dirs) \in Nat
              /\ \A c \in Loops : IsFiniteSet(loc[c].todo) /\ Cardinality(loc[c].todo) \in Nat
  <1> SUFFICES ASSUME TypeOK, NEW c \in Loops
               PROVE  /\ IsFiniteSet(dirs) /\ Cardinality(dirs) \in Nat
                      /\ IsFiniteSet(loc[c].todo) /\ Cardinality(loc[c].todo) \in Nat
    BY DirsFinite, FS_CardinalityType DEF TypeOK, FilesOK
  <1>1. IsFiniteSet(dirs)
    BY DirsFinite DEF TypeOK, FilesOK
  <1>2. IsFiniteSet(loc[c].todo)
    <2>1. loc[c].todo \subseteq 0 .. MaxNow \div 2
      BY DEF TypeOK, LocalType, Days
    <2>2. IsFiniteSet(0 .. MaxNow \div 2)
      BY HalfDays, CleanupAssumption, FS_Interval
    <2> QED
      BY <2>1, <2>2, FS_Subset
  <1> QED
    BY <1>1, <1>2, FS_CardinalityType

(* A loop that is left alone is no farther from its end when days go. *)
LEMMA OthersHelp ==
    ASSUME TypeOK, dirs' \subseteq dirs, NEW c \in Loops, Cleaning(c),
           pc'[c] = pc[c], loc'[c] = loc[c]
    PROVE  StepsLeft(c)' <= StepsLeft(c)
  <1>1. Cardinality(dirs) \in Nat /\ Cardinality(loc[c].todo) \in Nat /\ IsFiniteSet(dirs)
    BY DaysCounted
  <1>2. /\ Cardinality(dirs') \in Nat /\ Cardinality(dirs') <= Cardinality(dirs)
        /\ dirs' # dirs => Cardinality(dirs') < Cardinality(dirs)
    <2>1. IsFiniteSet(dirs') /\ Cardinality(dirs') <= Cardinality(dirs)
          /\ (Cardinality(dirs') = Cardinality(dirs) => dirs' = dirs)
      BY <1>1, FS_Subset
    <2> QED
      BY <1>1, <2>1, FS_CardinalityType
  <1> QED
    BY <1>1, <1>2 DEF StepsLeft, Cleaning

(* A step of the run's own takes it nearer. *)
LEMMA OwnStepHelps ==
    ASSUME TypeOK, NEW c \in Loops, Cleaning(c), ~InVain(c), LoopStep(c)
    PROVE  StepsLeft(c)' < StepsLeft(c)
  <1>0. /\ Cardinality(dirs) \in Nat /\ Cardinality(loc[c].todo) \in Nat
        /\ IsFiniteSet(dirs) /\ IsFiniteSet(loc[c].todo)
        /\ pc \in [Loops -> PCs] /\ loc \in [Loops -> LocalType] /\ loc[c] \in LocalType
    BY DaysCounted DEF TypeOK
  <1>1. CASE ListDays(c)
    <2>1. dirs' = dirs /\ pc[c] = "list"
      BY <1>1 DEF ListDays, fileVars
    <2>2. \/ pc'[c] = "age" /\ loc'[c].todo = dirs
          \/ pc'[c] = "wait"
      BY <1>0, <1>1 DEF ListDays, Goto, EndRun, LocalType
    <2> QED
      BY <1>0, <2>1, <2>2 DEF StepsLeft
  <1>2. CASE AgeRule(c)
    <2>1. PICK d \in loc[c].todo :
            /\ IF Expired(d, loc[c].cutoff) THEN RemoveAll(c, d) ELSE UNCHANGED <<fileVars, lost>>
            /\ Goto(c, "age", [loc[c] EXCEPT !.todo = @ \ {d}])
      BY <1>2 DEF AgeRule
    <2>2. pc[c] = "age" /\ pc'[c] = "age" /\ loc'[c].todo = loc[c].todo \ {d}
      BY <1>0, <1>2, <2>1 DEF AgeRule, Goto, EndRun, LocalType
    <2>3. Cardinality(loc[c].todo \ {d}) = Cardinality(loc[c].todo) - 1
      BY <1>0, FS_RemoveElement
    <2>4. dirs' \subseteq dirs
      BY <2>1 DEF RemoveAll, fileVars
    <2>5. Cardinality(dirs') \in Nat /\ Cardinality(dirs') <= Cardinality(dirs)
      BY <1>0, <2>4, FS_Subset, FS_CardinalityType
    <2> QED
      BY <1>0, <2>2, <2>3, <2>5 DEF StepsLeft
  <1>3. CASE AgeDone(c)
    <2>1. dirs' = dirs /\ pc[c] = "age" /\ pc'[c] \in {"total", "wait"}
      BY <1>0, <1>3 DEF AgeDone, Goto, EndRun, fileVars
    <2> QED
      BY <1>0, <2>1 DEF StepsLeft
  <1>4. CASE CheckTotal(c)
    <2>1. dirs' = dirs /\ pc[c] = "total" /\ pc'[c] \in {"oldest", "wait"}
      BY <1>0, <1>4 DEF CheckTotal, Goto, EndRun, fileVars
    <2> QED
      BY <1>0, <2>1 DEF StepsLeft
  <1>5. CASE PickOldest(c)
    <2>1. dirs' = dirs /\ pc[c] = "oldest"
      BY <1>5 DEF PickOldest, fileVars
    <2>2. pc'[c] = "wait" \/ (pc'[c] = "remove" /\ loc'[c].day \in dirs)
      BY <1>0, <1>5 DEF PickOldest, Goto, EndRun, LocalType
    <2> QED
      BY <1>0, <2>1, <2>2 DEF StepsLeft
  <1>6. CASE RemoveOldest(c)
    <2>1. dirs' = dirs \ {loc[c].day} /\ pc[c] = "remove" /\ pc'[c] = "total"
      BY <1>0, <1>6 DEF RemoveOldest, RemoveAll, Goto, EndRun, InVain
    <2>2. CASE loc[c].day \in dirs
      <3>1. Cardinality(dirs') = Cardinality(dirs) - 1
        BY <1>0, <2>1, <2>2, FS_RemoveElement
      <3> QED
        BY <1>0, <2>1, <2>2, <3>1 DEF StepsLeft
    <2>3. CASE loc[c].day \notin dirs
      <3>1. dirs' = dirs
        BY <2>1, <2>3
      <3>2. StepsLeft(c) = 3 * Cardinality(dirs) + 3
        BY <2>1, <2>3 DEF StepsLeft
      <3>3. StepsLeft(c)' = 3 * Cardinality(dirs) + 2
        BY <2>1, <3>1 DEF StepsLeft
      <3> QED
        BY <1>0, <3>2, <3>3
    <2> QED
      BY <2>2, <2>3
  <1> QED
    BY <1>1, <1>2, <1>3, <1>4, <1>5, <1>6 DEF LoopStep, Cleaning, BeginRun, Tick, Exit

(* The loops not launched yet have not begun. *)
FreshInv == \A c \in Loops : c > gens => pc[c] = "none"

LEMMA FreshStep == ASSUME TypeOK, FreshInv, [Next]_vars PROVE FreshInv'
  <1>0. gens \in Int /\ Loops \subseteq Int /\ pc \in [Loops -> PCs]
    BY CleanupAssumption DEF TypeOK, Loops
  <1>1. CASE UNCHANGED vars \/ CreateFile \/ ReplaceFile \/ GrowFile \/ HalfDayPasses
             \/ (\E l \in Limits : PostConfig(l))
    BY <1>1 DEF vars, loopVars, CreateFile, ReplaceFile, GrowFile, HalfDayPasses, PostConfig, FreshInv
  <1>2. CASE Launch
    BY <1>0, <1>2 DEF Launch, FreshInv
  <1>3. ASSUME NEW c \in Loops, LoopStep(c) PROVE FreshInv'
    <2>1. gens' = gens /\ pc[c] # "none"
      BY <1>3 DEF LoopStep, BeginRun, ListDays, AgeRule, AgeDone, CheckTotal, PickOldest,
         RemoveOldest, Tick, Exit, loopVars
    <2>2. \A i \in Loops \ {c} : pc'[i] = pc[i]
      BY <1>3, OthersStay
    <2> QED
      BY <2>1, <2>2 DEF FreshInv
  <1> QED
    BY <1>1, <1>2, <1>3 DEF Next

(* The run of a loop ends after a number of its own steps that other runs  *)
(* cannot raise, nor files that grow: only a day created anew can, and a   *)
(* day that RemoveAll fails to remove.                                     *)
THEOREM RunsGetToTheirEnd == Spec => RunsGetOn
  <1> DEFINE On == dirs' \subseteq dirs =>
                       \A c \in Loops : Cleaning(c) /\ ~InVain(c) =>
                           IF pc'[c] = pc[c] /\ loc'[c] = loc[c]
                           THEN StepsLeft(c)' <= StepsLeft(c)
                           ELSE StepsLeft(c)' < StepsLeft(c)
  <1>1. ASSUME TypeOK, FreshInv, Next PROVE On
    <2> SUFFICES ASSUME dirs' \subseteq dirs, NEW c \in Loops, Cleaning(c), ~InVain(c)
                 PROVE  IF pc'[c] = pc[c] /\ loc'[c] = loc[c]
                        THEN StepsLeft(c)' <= StepsLeft(c)
                        ELSE StepsLeft(c)' < StepsLeft(c)
      OBVIOUS
    <2>1. CASE pc'[c] = pc[c] /\ loc'[c] = loc[c]
      BY <1>1, <2>1, OthersHelp
    <2>2. CASE ~(pc'[c] = pc[c] /\ loc'[c] = loc[c])
      <3>1. CASE Launch
        <4>1. pc[c] = "none"
          <5>1. gens \in Int /\ c \in Int
            BY <1>1, CleanupAssumption DEF TypeOK, Loops
          <5>2. c = gens + 1
            BY <1>1, <2>2, <3>1 DEF Launch, TypeOK
          <5> QED
            BY <1>1, <5>1, <5>2 DEF FreshInv
        <4> QED
          BY <4>1 DEF Cleaning
      <3>2. ASSUME NEW i \in Loops, LoopStep(i) PROVE i = c
        BY <1>1, <2>2, <3>2, OthersStay
      <3> QED
        BY <1>1, <2>2, <3>1, <3>2, OwnStepHelps
        DEF Next, CreateFile, ReplaceFile, GrowFile, HalfDayPasses, PostConfig
    <2> QED
      BY <2>1, <2>2
  <1>2. TypeOK /\ FreshInv /\ [Next]_vars => FreshInv' /\ [On]_vars
    BY <1>1, FreshStep
  <1>3. Init => FreshInv
    BY DEF Init, FreshInv
  <1> QED
    BY <1>2, <1>3, InitType, TypeStep, PTL DEF Spec, RunsGetOn
=============================================================================
