------------------------------- MODULE SetSums ------------------------------
(***************************************************************************)
(* Induction over finite sets, for sets instead of predicates so that the  *)
(* provers can instantiate it, and what it gives for the sums over finite  *)
(* sets that the specifications take with MapThenSumSet.                   *)
(***************************************************************************)
EXTENDS Integers, FiniteSetsExt, FiniteSetTheorems, TLAPS

(* What contains a finite set's subsets as soon as it contains all smaller *)
(* ones contains them all.                                                 *)
LEMMA SubsetInduction ==
    ASSUME NEW S, IsFiniteSet(S), NEW Good,
           \A T \in SUBSET S : (\A U \in SUBSET T : U # T => U \in Good) => T \in Good
    PROVE  SUBSET S \subseteq Good
  <1> DEFINE R == StrictSubsetOrdering(S)
             Bad == {T \in SUBSET S : T \notin Good}
  <1>1. IsWellFoundedOn(R, SUBSET S)
    BY FS_StrictSubsetOrderingWellFounded, FS_FiniteSubsetsOfFinite
  <1>2. SUFFICES ASSUME Bad # {} PROVE FALSE
    OBVIOUS
  <1>3. Bad \subseteq SUBSET S
    OBVIOUS
  <1> HIDE DEF R, Bad
  <1>4. PICK T \in Bad : \A U \in Bad : ~(<<U, T>> \in R)
    BY <1>1, <1>2, <1>3, WFMin
  <1>5. ASSUME NEW U \in SUBSET T, U # T PROVE U \in Good
    <2>1. U \in SUBSET S /\ T \in SUBSET S
      BY <1>3, <1>4
    <2>2. <<U, T>> \in R
      BY <1>5, <2>1 DEF R, StrictSubsetOrdering
    <2> QED
      BY <1>4, <2>1, <2>2 DEF Bad
  <1> QED
    BY <1>4, <1>5 DEF Bad

-----------------------------------------------------------------------------
(* The sum as a function on the subsets of a set.                          *)

Sum(f, S) == MapThenSumSet(LAMBDA x : f[x], S)

Pick(s) == CHOOSE x \in s : TRUE

(* g gives every subset of S its sum. *)
Sums(f, S, g) ==
    g = [s \in SUBSET S |-> IF s = {} THEN 0 ELSE f[Pick(s)] + g[s \ {Pick(s)}]]

LEMMA SumDef == ASSUME NEW f, NEW S PROVE Sum(f, S) = (CHOOSE g : Sums(f, S, g))[S]
  BY DEF Sum, MapThenSumSet, MapThenFoldSet, Sums, Pick

LEMMA PickIn == ASSUME NEW s, s # {} PROVE Pick(s) \in s
  BY DEF Pick

(* Such a function is determined by its equation. *)
LEMMA SumsAgree ==
    ASSUME NEW f, NEW S, NEW T, IsFiniteSet(S), S \subseteq T,
           NEW g, NEW h, Sums(f, S, g), Sums(f, T, h)
    PROVE  \A s \in SUBSET S : g[s] = h[s]
  <1> DEFINE Good == {s \in SUBSET S : g[s] = h[s]}
  <1>1. ASSUME NEW s \in SUBSET S, \A u \in SUBSET s : u # s => u \in Good
        PROVE  s \in Good
    <2>1. CASE s = {}
      BY <2>1 DEF Sums
    <2>2. CASE s # {}
      <3>1. Pick(s) \in s
        BY <2>2, PickIn
      <3>2. s \ {Pick(s)} \in SUBSET s /\ s \ {Pick(s)} # s
        BY <3>1
      <3>3. g[s \ {Pick(s)}] = h[s \ {Pick(s)}]
        BY <1>1, <3>2
      <3>4. g[s] = f[Pick(s)] + g[s \ {Pick(s)}]
        BY <2>2 DEF Sums
      <3>5. h[s] = f[Pick(s)] + h[s \ {Pick(s)}]
        BY <2>2 DEF Sums
      <3> QED
        BY <3>3, <3>4, <3>5
    <2> QED
      BY <2>1, <2>2
  <1>2. SUBSET S \subseteq Good
    <2> HIDE DEF Good
    <2> QED
      BY <1>1, SubsetInduction
  <1> QED
    BY <1>2

LEMMA SumsExist == ASSUME NEW f, NEW S, IsFiniteSet(S) PROVE \E g : Sums(f, S, g)
  <1> DEFINE Good == {T \in SUBSET S : \E g : Sums(f, T, g)}
             Val(s) == (CHOOSE g : Sums(f, s, g))[s]
  <1>1. ASSUME NEW T \in SUBSET S, \A U \in SUBSET T : U # T => U \in Good
        PROVE  T \in Good
    <2> DEFINE p == Pick(T)
               h == [s \in SUBSET T |-> IF s = T /\ T # {} THEN f[p] + Val(T \ {p}) ELSE Val(s)]
    <2>1. ASSUME NEW s \in SUBSET T, s # T \/ T = {}
          PROVE  Val(s) = IF s = {} THEN 0 ELSE f[Pick(s)] + Val(s \ {Pick(s)})
      <3>1. CASE s = {}
        <4> DEFINE g0 == [u \in SUBSET {} |-> 0]
        <4>1. Sums(f, {}, g0)
          BY DEF Sums
        <4>2. Sums(f, {}, CHOOSE g : Sums(f, {}, g))
          BY <4>1
        <4> QED
          BY <3>1, <4>2 DEF Sums
      <3>2. CASE s # {}
        <4> DEFINE u == s \ {Pick(s)}
                   gs == CHOOSE g : Sums(f, s, g)
                   gu == CHOOSE g : Sums(f, u, g)
        <4>1. Pick(s) \in s /\ u \in SUBSET s /\ u \in SUBSET T /\ u # T
          BY <2>1, <3>2, PickIn
        <4>2. s \in Good /\ u \in Good
          BY <1>1, <2>1, <3>2, <4>1
        <4>3. Sums(f, s, gs) /\ Sums(f, u, gu)
          BY <4>2
        <4>4. IsFiniteSet(u)
          BY <4>1, FS_Subset
        <4> HIDE DEF u, gs, gu
        <4>5. u \subseteq s
          BY <4>1
        <4>6. gu[u] = gs[u]
          BY <4>3, <4>4, <4>5, SumsAgree
        <4>7. gs[s] = f[Pick(s)] + gs[s \ {Pick(s)}]
          BY <3>2, <4>3 DEF Sums
        <4>8. u = s \ {Pick(s)} /\ Val(s) = gs[s] /\ Val(u) = gu[u]
          BY DEF u, gs, gu
        <4> HIDE DEF Val
        <4> QED
          BY <3>2, <4>6, <4>7, <4>8
      <3> QED
        BY <3>1, <3>2
    <2>2. ASSUME NEW s \in SUBSET T, s # {}
          PROVE  Pick(s) \in s /\ s \ {Pick(s)} \in SUBSET T /\ s \ {Pick(s)} # T
      BY <2>2, PickIn
    <2> HIDE DEF Val
    <2>3. ASSUME NEW s \in SUBSET T
          PROVE  h[s] = IF s = {} THEN 0 ELSE f[Pick(s)] + h[s \ {Pick(s)}]
      BY <2>1, <2>2
    <2>4. h = [s \in SUBSET T |-> IF s = {} THEN 0 ELSE f[Pick(s)] + h[s \ {Pick(s)}]]
      <3> DEFINE k == [s \in SUBSET T |-> IF s = {} THEN 0 ELSE f[Pick(s)] + h[s \ {Pick(s)}]]
      <3>1. \A s \in SUBSET T : h[s] = k[s]
        BY <2>3
      <3>2. h = [s \in SUBSET T |-> h[s]] /\ k = [s \in SUBSET T |-> k[s]]
        OBVIOUS
      <3> HIDE DEF h, k
      <3>3. h = k
        BY <3>1, <3>2
      <3> QED
        BY <3>3 DEF k
    <2> HIDE DEF h
    <2>5. Sums(f, T, h)
      BY <2>4 DEF Sums
    <2> QED
      BY <2>5
  <1>2. SUBSET S \subseteq Good
    <2> HIDE DEF Good
    <2> QED
      BY <1>1, SubsetInduction
  <1> QED
    BY <1>2

(* The equation the sum is computed by. *)
LEMMA SumEquation ==
    ASSUME NEW f, NEW S, IsFiniteSet(S)
    PROVE  Sum(f, S) = IF S = {} THEN 0 ELSE f[Pick(S)] + Sum(f, S \ {Pick(S)})
  <1> DEFINE u == S \ {Pick(S)}
             gs == CHOOSE g : Sums(f, S, g)
             gu == CHOOSE g : Sums(f, u, g)
  <1>1. IsFiniteSet(u) /\ u \subseteq S
    BY FS_Subset
  <1>2. Sums(f, S, gs) /\ Sums(f, u, gu)
    BY <1>1, SumsExist
  <1>3. gu[u] = gs[u]
    <2> HIDE DEF u, gs, gu
    <2> QED
      BY <1>1, <1>2, SumsAgree
  <1>4. gs[S] = IF S = {} THEN 0 ELSE f[Pick(S)] + gs[S \ {Pick(S)}]
    <2> HIDE DEF gs
    <2> QED
      BY <1>2 DEF Sums
  <1>5. Sum(f, S) = gs[S] /\ Sum(f, u) = gu[u]
    BY SumDef
  <1> HIDE DEF gs, gu
  <1> QED
    BY <1>3, <1>4, <1>5

-----------------------------------------------------------------------------
(* Sums of natural numbers.                                                *)

LEMMA SumType ==
    ASSUME NEW f, NEW S, IsFiniteSet(S), \A x \in S : f[x] \in Nat
    PROVE  Sum(f, S) \in Nat
  <1> DEFINE Good == {T \in SUBSET S : Sum(f, T) \in Nat}
  <1>1. ASSUME NEW T \in SUBSET S, \A U \in SUBSET T : U # T => U \in Good
        PROVE  T \in Good
    <2>1. IsFiniteSet(T)
      BY FS_Subset
    <2>2. Sum(f, T) = IF T = {} THEN 0 ELSE f[Pick(T)] + Sum(f, T \ {Pick(T)})
      BY <2>1, SumEquation
    <2>3. T # {} => f[Pick(T)] \in Nat /\ Sum(f, T \ {Pick(T)}) \in Nat
      BY <1>1, PickIn
    <2> QED
      BY <2>2, <2>3
  <1>2. SUBSET S \subseteq Good
    <2> HIDE DEF Good
    <2> QED
      BY <1>1, SubsetInduction
  <1> QED
    BY <1>2

(* Any term can be taken out of a sum, not only the one it starts with. *)
LEMMA SumRemove ==
    ASSUME NEW f, NEW S, IsFiniteSet(S), \A x \in S : f[x] \in Nat, NEW y \in S
    PROVE  Sum(f, S) = f[y] + Sum(f, S \ {y})
  <1> DEFINE Good == {T \in SUBSET S : \A x \in T : Sum(f, T) = f[x] + Sum(f, T \ {x})}
  <1>1. ASSUME NEW T \in SUBSET S, \A U \in SUBSET T : U # T => U \in Good, NEW x \in T
        PROVE  Sum(f, T) = f[x] + Sum(f, T \ {x})
    <2> DEFINE p == Pick(T)
    <2>1. \A U \in SUBSET T : IsFiniteSet(U) /\ Sum(f, U) \in Nat
      <3>1. ASSUME NEW U \in SUBSET T PROVE IsFiniteSet(U)
        BY FS_Subset
      <3>2. ASSUME NEW U \in SUBSET T PROVE \A e \in U : f[e] \in Nat
        OBVIOUS
      <3> QED
        BY <3>1, <3>2, SumType
    <2>2. p \in T /\ Sum(f, T) = f[p] + Sum(f, T \ {p})
      BY <2>1, SumEquation, PickIn
    <2> HIDE DEF p
    <2>3. CASE x = p
      BY <2>2, <2>3
    <2>4. CASE x # p
      <3>1. Sum(f, T \ {p}) = f[x] + Sum(f, (T \ {p}) \ {x})
        BY <1>1, <2>2, <2>4
      <3>2. Sum(f, T \ {x}) = f[p] + Sum(f, (T \ {x}) \ {p})
        BY <1>1, <2>2, <2>4
      <3>3. (T \ {p}) \ {x} = (T \ {x}) \ {p}
        OBVIOUS
      <3>4. Sum(f, (T \ {x}) \ {p}) \in Nat /\ f[x] \in Nat /\ f[p] \in Nat
        BY <2>1, <2>2
      <3> DEFINE r == Sum(f, (T \ {x}) \ {p})
                 sp == Sum(f, T \ {p})
                 sx == Sum(f, T \ {x})
      <3>5. sp = f[x] + r /\ sx = f[p] + r /\ r \in Nat
        BY <3>1, <3>2, <3>3, <3>4
      <3>6. Sum(f, T) = f[p] + sp
        BY <2>2
      <3> HIDE DEF r, sp, sx
      <3>7. Sum(f, T) = f[x] + sx
        BY <3>4, <3>5, <3>6
      <3> QED
        BY <3>7 DEF sx
    <2> QED
      BY <2>3, <2>4
  <1>2. \A T \in SUBSET S : (\A U \in SUBSET T : U # T => U \in Good) => T \in Good
    BY <1>1
  <1>3. SUBSET S \subseteq Good
    <2> HIDE DEF Good
    <2> QED
      BY <1>2, SubsetInduction
  <1> QED
    BY <1>3

(* More terms, a larger sum. *)
LEMMA SumSubset ==
    ASSUME NEW f, NEW S, IsFiniteSet(S), \A x \in S : f[x] \in Nat, NEW V \in SUBSET S
    PROVE  Sum(f, V) <= Sum(f, S)
  <1> DEFINE Good == {T \in SUBSET S : V \subseteq T => Sum(f, V) <= Sum(f, T)}
  <1>0. ASSUME NEW T \in SUBSET S
        PROVE  IsFiniteSet(T) /\ Sum(f, T) \in Nat /\ \A x \in T : f[x] \in Nat
    <2>1. IsFiniteSet(T)
      BY FS_Subset
    <2> QED
      BY <2>1, SumType
  <1>1. ASSUME NEW T \in SUBSET S, \A U \in SUBSET T : U # T => U \in Good, V \subseteq T
        PROVE  Sum(f, V) <= Sum(f, T)
    <2>0. Sum(f, V) \in Nat /\ Sum(f, T) \in Nat
      BY <1>0
    <2>1. CASE V = T
      BY <2>0, <2>1
    <2>2. ASSUME NEW x \in T, x \notin V PROVE Sum(f, V) <= Sum(f, T)
      <3>1. Sum(f, T) = f[x] + Sum(f, T \ {x})
        BY <1>0, <2>2, SumRemove
      <3>2. Sum(f, V) <= Sum(f, T \ {x})
        BY <1>1, <2>2
      <3>3. f[x] \in Nat /\ Sum(f, T \ {x}) \in Nat
        BY <1>0, <2>2
      <3> QED
        BY <2>0, <3>1, <3>2, <3>3
    <2> QED
      BY <1>1, <2>1, <2>2
  <1>2. \A T \in SUBSET S : (\A U \in SUBSET T : U # T => U \in Good) => T \in Good
    BY <1>1
  <1>3. SUBSET S \subseteq Good
    <2> HIDE DEF Good
    <2> QED
      BY <1>2, SubsetInduction
  <1> QED
    BY <1>3

(* Larger terms, a larger sum. *)
THEOREM SumMonotone ==
    ASSUME NEW f, NEW g, NEW S, IsFiniteSet(S),
           \A x \in S : f[x] \in Nat /\ g[x] \in Nat /\ f[x] <= g[x]
    PROVE  Sum(f, S) <= Sum(g, S)
  <1> DEFINE Good == {T \in SUBSET S : Sum(f, T) <= Sum(g, T)}
  <1>1. ASSUME NEW T \in SUBSET S, \A U \in SUBSET T : U # T => U \in Good
        PROVE  Sum(f, T) <= Sum(g, T)
    <2>1. IsFiniteSet(T) /\ IsFiniteSet(T \ {Pick(T)})
      BY FS_Subset
    <2>2. CASE T = {}
      <3>1. Sum(f, T) = 0 /\ Sum(g, T) = 0
        BY <2>1, <2>2, SumEquation
      <3> QED
        BY <3>1
    <2>3. CASE T # {}
      <3> DEFINE p == Pick(T)
      <3>1. p \in T
        BY <2>3, PickIn
      <3>2. Sum(f, T) = f[p] + Sum(f, T \ {p}) /\ Sum(g, T) = g[p] + Sum(g, T \ {p})
        BY <2>1, <2>3, SumEquation
      <3>3. Sum(f, T \ {p}) \in Nat /\ Sum(g, T \ {p}) \in Nat
        BY <2>1, SumType
      <3>4. Sum(f, T \ {p}) <= Sum(g, T \ {p})
        BY <1>1, <3>1
      <3>5. f[p] \in Nat /\ g[p] \in Nat /\ f[p] <= g[p]
        BY <3>1
      <3> HIDE DEF p
      <3> QED
        BY <3>2, <3>3, <3>4, <3>5
    <2> QED
      BY <2>2, <2>3
  <1>2. \A T \in SUBSET S : (\A U \in SUBSET T : U # T => U \in Good) => T \in Good
    BY <1>1
  <1>3. SUBSET S \subseteq Good
    <2> HIDE DEF Good
    <2> QED
      BY <1>2, SubsetInduction
  <1> QED
    BY <1>3
=============================================================================
