----------------------------- MODULE Recursion -----------------------------
(***************************************************************************)
(* Facts about recursive functions of 0..N that the proofs about ledgers   *)
(* and hops share: minimal counterexamples, in the place of an induction,  *)
(* and that a function defined by its steps exists.                        *)
(***************************************************************************)
EXTENDS Integers, WellFoundedInduction, TLAPS
(* A nonempty set of natural numbers has a least element.                  *)
LEMMA LeastNat ==
    ASSUME NEW S, S \subseteq Nat, S # {}
    PROVE  \E n \in S : \A m \in S : n <= m
<1>1. PICK n \in S : \A m \in S : ~ (<<m, n>> \in OpToRel(<, Nat))
  BY WFMin, NatLessThanWellFounded
<1>2. ASSUME NEW m \in S, m < n PROVE FALSE
  <2>1. <<m, n>> \in Nat \X Nat /\ <<m, n>>[1] = m /\ <<m, n>>[2] = n
    OBVIOUS
  <2>2. <<m, n>>[1] < <<m, n>>[2]
    BY <1>2, <2>1
  <2>3. <<m, n>> \in OpToRel(<, Nat)
    BY <2>1, <2>2, Zenon DEF OpToRel
  <2>. QED
    BY <1>1, <2>3
<1>3. \A m \in S : n <= m
  BY <1>2
<1>. QED
  BY <1>3

(* A nonempty set of positions of a sequence has a greatest element.       *)
LEMMA GreatestPos ==
    ASSUME NEW N \in Nat, NEW S, S \subseteq 0..N, S # {}
    PROVE  \E n \in S : \A m \in S : m <= n
<1>. DEFINE T == {N - m : m \in S}
<1>0. PICK m0 \in S : TRUE
  OBVIOUS
<1>1. T \subseteq Nat /\ N - m0 \in T
  OBVIOUS
<1>2. PICK t \in T : \A u \in T : t <= u
  BY <1>1, LeastNat, Zenon
<1>3. PICK n \in S : t = N - n
  OBVIOUS
<1>4. ASSUME NEW m \in S PROVE m <= n
  <2>1. t <= N - m
    BY <1>2
  <2>. QED
    BY <1>3, <2>1
<1>. QED
  BY <1>4

(* A function of 0..N that takes a first value on by a step at a time.     *)
HasIteration(N, X, base, h) ==
    \E f \in [0..N -> X] : f[0] = base /\ \A k \in 1..N : f[k] = h[k][f[k - 1]]

LEMMA Iteration ==
    ASSUME NEW N, N \in Nat, NEW X, NEW base, base \in X,
           NEW h, h \in [1..N -> [X -> X]]
    PROVE  HasIteration(N, X, base, h)
<1>. DEFINE Upto(n, f) == f[0] = base /\ \A k \in 1..n : f[k] = h[k][f[k - 1]]
            Missing == {n \in 0..N : \A f \in [0..n -> X] : ~ Upto(n, f)}
<1>1. Missing = {}
  <2>. SUFFICES ASSUME Missing # {} PROVE FALSE
    OBVIOUS
  <2>1. PICK n \in Missing : \A m \in Missing : n <= m
    <3>1. Missing \subseteq Nat
      OBVIOUS
    <3>. HIDE DEF Missing
    <3>. QED
      BY <3>1, LeastNat
  <2>2. CASE n = 0
    <3>. DEFINE f == [k \in 0..n |-> base]
    <3>1. f \in [0..n -> X] /\ Upto(n, f)
      BY <2>2
    <3>. QED
      BY <3>1
  <2>3. CASE n # 0
    <3>0. n \in 0..N
      OBVIOUS
    <3>0a. \A m \in Missing : n <= m
      BY <2>1
    <3>1. n \in 1..N /\ n - 1 \in 0..N /\ n - 1 \notin Missing
      <4>. HIDE DEF Missing
      <4>. QED
        BY <2>3, <3>0, <3>0a
    <3>2. PICK f \in [0..(n - 1) -> X] : Upto(n - 1, f)
      BY <3>1
    <3>. DEFINE g == [k \in 0..n |-> IF k = n THEN h[n][f[n - 1]] ELSE f[k]]
    <3>3. f[n - 1] \in X /\ h[n][f[n - 1]] \in X
      BY <3>1
    <3>4. g \in [0..n -> X]
      BY <3>1, <3>3
    <3>5. g[0] = base
      BY <3>1, <3>2
    <3>6. ASSUME NEW k \in 1..n PROVE g[k] = h[k][g[k - 1]]
      <4>1. k - 1 \in 0..(n - 1) /\ k - 1 # n /\ g[k - 1] = f[k - 1]
        BY <3>1
      <4>2. CASE k = n
        BY <4>1, <4>2
      <4>3. CASE k # n
        BY <3>1, <3>2, <4>1, <4>3
      <4>. QED
        BY <4>2, <4>3
    <3>. QED
      BY <3>4, <3>5, <3>6
  <2>. QED
    BY <2>2, <2>3
<1>2. \E f \in [0..N -> X] : Upto(N, f)
  BY <1>1, SMTT(30)
<1>. QED
  BY <1>2 DEF HasIteration
==============================================================================
