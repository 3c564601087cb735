------------------------------- MODULE Induction -------------------------------
(***************************************************************************)
(* Induction over the naturals, with sets in place of predicates, and what *)
(* it gives for loops: that a loop written as a function of the number of  *)
(* turns exists, and what holds after each turn.                           *)
(***************************************************************************)
EXTENDS Integers, FiniteSetTheorems, WellFoundedInduction, TLAPS

\* A set of positions has a first one.  The intervals below its members are
\* well-founded by inclusion.
LEMMA FirstOfSet ==
    ASSUME NEW n \in Nat, NEW K \in SUBSET (1 .. n), K # {}
    PROVE  \E k \in K : \A j \in K : k <= j
  <1> DEFINE T == {1 .. k : k \in K}
  <1>1. T \subseteq FiniteSubsetsOf(1 .. n)
    <2>1. FiniteSubsetsOf(1 .. n) = SUBSET (1 .. n)
      <3>1. IsFiniteSet(1 .. n)
        BY FS_Interval
      <3> QED BY <3>1, FS_FiniteSubsetsOfFinite
    <2> QED BY <2>1
  <1>2. T # {}
    OBVIOUS
  <1> HIDE DEF T
  <1>3. PICK x \in T : \A y \in T : <<y, x>> \notin StrictSubsetOrdering(1 .. n)
    BY <1>1, <1>2, FS_StrictSubsetOrderingWellFounded, WFMin
  <1>4. PICK k \in K : x = 1 .. k
    BY DEF T
  <1>5. ASSUME NEW j \in K, j < k PROVE FALSE
    <2>1. 1 .. j \in T
      BY DEF T
    <2>2. 1 .. j \subseteq 1 .. k /\ k \in 1 .. k /\ k \notin 1 .. j
      BY <1>5
    <2>3. 1 .. j \in SUBSET (1 .. n) /\ 1 .. k \in SUBSET (1 .. n)
      OBVIOUS
    <2>4. <<1 .. j, 1 .. k>> \in StrictSubsetOrdering(1 .. n)
      BY <2>2, <2>3, Zenon DEF StrictSubsetOrdering
    <2> QED BY <1>3, <1>4, <2>1, <2>4
  <1> QED BY <1>5

\* Induction up to n.
LEMMA CountUp ==
    ASSUME NEW n \in Nat, NEW K, 0 \in K,
           \A k \in 1 .. n : k - 1 \in K => k \in K
    PROVE  0 .. n \subseteq K
  <1> DEFINE M == {k \in 1 .. n : k \notin K}
  <1>1. CASE M = {}
    BY <1>1
  <1>2. CASE M # {}
    <2>1. PICK k \in M : \A j \in M : k <= j
      BY <1>2, FirstOfSet
    <2>2. k \in 1 .. n /\ k \notin K
      BY <2>1
    <2>3. k - 1 \in K
      <3>1. CASE k = 1
        BY <3>1
      <3>2. CASE k # 1
        <4>1. k - 1 \in 1 .. n /\ ~(k <= k - 1)
          BY <2>2, <3>2
        <4> QED BY <2>1, <4>1
      <3> QED BY <3>1, <3>2
    <2> QED BY <2>2, <2>3
  <1> QED BY <1>1, <1>2

\* What holds before the first turn, and is kept by each, holds throughout.
LEMMA LoopInvariant ==
    ASSUME NEW n \in Nat, NEW S, NEW g, g[0] \in S,
           \A k \in 1 .. n : g[k - 1] \in S => g[k] \in S
    PROVE  \A k \in 0 .. n : g[k] \in S
  <1> DEFINE K == {k \in 0 .. n : g[k] \in S}
  <1>1. 0 \in K
    OBVIOUS
  <1>2. \A k \in 1 .. n : k - 1 \in K => k \in K
    OBVIOUS
  <1> HIDE DEF K
  <1>3. 0 .. n \subseteq K
    BY <1>1, <1>2, CountUp
  <1> QED BY <1>3 DEF K

\* g[k] is what k turns T make of s0.
Turns(m, S, T, s0, g) ==
    /\ g \in [0 .. m -> S]
    /\ g[0] = s0
    /\ \A k \in 1 .. m : g[k] = T[g[k - 1]]

\* A loop may be defined by recursion on the number of turns.
LEMMA LoopExists ==
    ASSUME NEW n \in Nat, NEW S, NEW T \in [S -> S], NEW s0 \in S
    PROVE  \E g : Turns(n, S, T, s0, g)
  <1> DEFINE K == {m \in Nat : \E g : Turns(m, S, T, s0, g)}
  <1>1. 0 \in K
    <2> DEFINE g == [k \in 0 .. 0 |-> s0]
    <2>1. Turns(0, S, T, s0, g)
      BY DEF Turns
    <2> QED BY <2>1
  <1>2. ASSUME NEW m \in 1 .. n, m - 1 \in K PROVE m \in K
    <2>1. PICK g : Turns(m - 1, S, T, s0, g)
      BY <1>2
    <2> DEFINE h == [k \in 0 .. m |-> IF k = m THEN T[g[m - 1]] ELSE g[k]]
    <2>2. \A k \in 0 .. m : k = m \/ k \in 0 .. m - 1
      OBVIOUS
    <2>3. m - 1 \in 0 .. m - 1
      OBVIOUS
    <2>4. h \in [0 .. m -> S]
      BY <2>1, <2>2, <2>3 DEF Turns
    <2>5. h[0] = s0
      BY <2>1 DEF Turns
    <2>6. ASSUME NEW k \in 1 .. m PROVE h[k] = T[h[k - 1]]
      <3>1. h[k - 1] = g[k - 1]
        OBVIOUS
      <3>2. CASE k = m
        BY <3>1, <3>2
      <3>3. CASE k # m
        <4>1. k \in 1 .. m - 1
          BY <3>3
        <4> QED BY <2>1, <3>1, <3>3, <4>1 DEF Turns
      <3> QED BY <3>2, <3>3
    <2>7. Turns(m, S, T, s0, h)
      BY <2>4, <2>5, <2>6 DEF Turns
    <2> QED BY <2>7
  <1> HIDE DEF K
  <1>3. n \in K
    BY <1>1, <1>2, CountUp
  <1>4. PICK g : Turns(n, S, T, s0, g)
    BY <1>3 DEF K
  <1> QED BY <1>4

\* A loop whose turns get on until n is done ends within n turns.
LEMMA LoopEnds ==
    ASSUME NEW n \in Nat, NEW S, NEW g, g[0] \in S,
           \A s \in S : s.done \in 0 .. n,
           \A k \in 1 .. n : g[k - 1] \in S =>
              /\ g[k] \in S
              /\ g[k - 1].done < n => g[k].done > g[k - 1].done
              /\ g[k - 1].done = n => g[k].done = n
    PROVE  g[n] \in S /\ g[n].done = n
  <1> DEFINE K == {k \in 0 .. n : g[k] \in S /\ k <= g[k].done}
  <1>1. 0 \in K
    <2>1. g[0].done \in 0 .. n
      OBVIOUS
    <2> QED BY <2>1
  <1>2. ASSUME NEW k \in 1 .. n, k - 1 \in K PROVE k \in K
    <2>1. g[k - 1] \in S /\ k - 1 <= g[k - 1].done
      BY <1>2
    <2>2. /\ g[k] \in S
          /\ g[k - 1].done < n => g[k].done > g[k - 1].done
          /\ g[k - 1].done = n => g[k].done = n
      BY <2>1
    <2>3. g[k - 1].done \in 0 .. n /\ g[k].done \in 0 .. n
      BY <2>1, <2>2
    <2>4. k <= g[k].done
      BY <2>1, <2>2, <2>3
    <2> QED BY <2>2, <2>4
  <1> HIDE DEF K
  <1>3. n \in K
    BY <1>1, <1>2, CountUp
  <1>4. g[n] \in S /\ n <= g[n].done
    BY <1>3 DEF K
  <1>5. g[n].done \in 0 .. n
    BY <1>4
  <1> QED BY <1>4, <1>5
=============================================================================
