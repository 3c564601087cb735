------------------------------ MODULE WordsProof ------------------------------
(***************************************************************************)
(* Arithmetic of Words: powers of two, sums over sets of positions, and    *)
(* what a bit pattern is worth.                                            *)
(***************************************************************************)
EXTENDS Words, Induction

\* The powers that occur, one by one: the prover does not know ^ for an
\* exponent it does not see.
LEMMA Powers ==
    \A n \in 0 .. 32 : 2^n \in Nat \ {0} /\ 2^(n + 1) = 2 * 2^n
  <1> DEFINE Fine == {n \in Nat : 2^n \in Nat \ {0} /\ 2^(n + 1) = 2 * 2^n}
  <1>1. {0, 1, 2, 3, 4, 5, 6, 7, 8, 9, 10} \subseteq Fine
    OBVIOUS
  <1>2. {11, 12, 13, 14, 15, 16, 17, 18, 19, 20, 21} \subseteq Fine
    OBVIOUS
  <1>3. {22, 23, 24, 25, 26, 27, 28, 29, 30, 31, 32} \subseteq Fine
    OBVIOUS
  <1> HIDE DEF Fine
  <1>4. 0 .. 32 \subseteq Fine
    BY <1>1, <1>2, <1>3
  <1> QED BY <1>4 DEF Fine

LEMMA PowerSum ==
    \A m, n \in 0 .. 32 : m + n <= 32 => 2^(m + n) = 2^m * 2^n
  <1> SUFFICES ASSUME NEW m \in 0 .. 32
               PROVE  \A n \in 0 .. 32 : m + n <= 32 => 2^(m + n) = 2^m * 2^n
    OBVIOUS
  <1> DEFINE K == {n \in 0 .. 32 : m + n <= 32 => 2^(m + n) = 2^m * 2^n}
  <1>1. 0 \in K
    <2>1. 2^0 = 1
      OBVIOUS
    <2>2. 2^m \in Nat \ {0}
      BY Powers, Zenon
    <2>3. m + 0 = m
      OBVIOUS
    <2> QED BY <2>1, <2>2, <2>3
  <1>2. ASSUME NEW n \in 1 .. 32, n - 1 \in K PROVE n \in K
    <2> SUFFICES ASSUME m + n <= 32 PROVE 2^(m + n) = 2^m * 2^n
      OBVIOUS
    <2>1. 2^(m + (n - 1)) = 2^m * 2^(n - 1)
      BY <1>2
    <2>2. 2^n = 2 * 2^(n - 1)
      <3>1. n - 1 \in 0 .. 32 /\ (n - 1) + 1 = n
        OBVIOUS
      <3> QED BY <3>1, Powers
    <2>3. 2^(m + n) = 2 * 2^(m + (n - 1))
      <3>1. m + (n - 1) \in 0 .. 32 /\ (m + (n - 1)) + 1 = m + n
        OBVIOUS
      <3> QED BY <3>1, Powers
    <2>4. 2^m \in Nat \ {0} /\ 2^(n - 1) \in Nat \ {0}
      <3>1. n - 1 \in 0 .. 32
        OBVIOUS
      <3> QED BY <3>1, Powers, Zenon
    <2> QED BY <2>1, <2>2, <2>3, <2>4
  <1> HIDE DEF K
  <1>3. 0 .. 32 \subseteq K
    BY <1>1, <1>2, CountUp
  <1> QED BY <1>3 DEF K

-----------------------------------------------------------------------------
(***************************************************************************)
(* Division and remainder.                                                 *)
(***************************************************************************)
\* Division with remainder has one result.
LEMMA DivisionUnique ==
    ASSUME NEW a \in Int, NEW d \in Nat \ {0}, NEW q \in Int, NEW r \in 0 .. d - 1,
           a = (q * d) + r
    PROVE  a \div d = q /\ a % d = r
  <1>1. a = ((a \div d) * d) + (a % d) /\ a % d \in 0 .. d - 1 /\ a \div d \in Int
    OBVIOUS
  <1> DEFINE p == a \div d
             s == a % d
  <1>2. p \in Int /\ s \in 0 .. d - 1 /\ (p * d) + s = (q * d) + r
    BY <1>1
  <1> HIDE DEF p, s
  <1>3. ASSUME p < q PROVE FALSE
    <2>1. (q - p) * d >= d
      BY <1>2, <1>3
    <2>2. (q - p) * d = s - r
      BY <1>2
    <2> QED BY <1>2, <2>1, <2>2
  <1>4. ASSUME p > q PROVE FALSE
    <2>1. (p - q) * d >= d
      BY <1>2, <1>4
    <2>2. (p - q) * d = r - s
      BY <1>2
    <2> QED BY <1>2, <2>1, <2>2
  <1>5. p = q
    BY <1>2, <1>3, <1>4
  <1>6. s = r
    BY <1>2, <1>5
  <1> QED BY <1>5, <1>6 DEF p, s

LEMMA DivMod ==
    ASSUME NEW a \in Int, NEW d \in Nat \ {0}
    PROVE  /\ a = ((a \div d) * d) + (a % d)
           /\ a % d \in 0 .. d - 1
           /\ a \div d \in Int
  OBVIOUS

\* Dividing twice.
LEMMA DivTwice ==
    ASSUME NEW a \in Int, NEW d \in Nat \ {0}, NEW e \in Nat \ {0}
    PROVE  /\ a \div (d * e) = (a \div d) \div e
           /\ a % (d * e) = (((a \div d) % e) * d) + (a % d)
  <1> DEFINE q == a \div d
             r == a % d
             p == q \div e
             s == q % e
  <1>1. a = (q * d) + r /\ r \in 0 .. d - 1 /\ q \in Int
    BY DivMod
  <1> HIDE DEF q, r
  <1>2. q = (p * e) + s /\ s \in 0 .. e - 1 /\ p \in Int
    BY <1>1, DivMod
  <1> HIDE DEF p, s
  <1>3. a = (p * (d * e)) + ((s * d) + r)
    BY <1>1, <1>2
  <1>4. (s * d) + r \in 0 .. (d * e) - 1
    <2>1. s * d \in Nat /\ d * e \in Nat
      BY <1>2
    <2>2. s * d <= (e - 1) * d
      BY <1>2
    <2>3. (e - 1) * d = (d * e) - d
      OBVIOUS
    <2> QED BY <1>1, <2>1, <2>2, <2>3
  <1>5. d * e \in Nat \ {0} /\ (s * d) + r \in Int
    BY <1>1, <1>2
  <1>6. ASSUME NEW f \in Nat \ {0}, NEW t \in 0 .. f - 1, a = (p * f) + t
        PROVE  a \div f = p /\ a % f = t
    BY <1>2, <1>6, DivisionUnique
  <1>7. a \div (d * e) = p /\ a % (d * e) = (s * d) + r
    BY <1>3, <1>4, <1>5, <1>6
  <1> QED BY <1>7 DEF p, s, q, r

-----------------------------------------------------------------------------
(***************************************************************************)
(* Sums over sets.                                                         *)
(***************************************************************************)
\* h[s] is the sum of f over s, whatever the order.
IsSum(n, f, h) ==
    /\ h \in [SUBSET (0 .. n - 1) -> Int]
    /\ h[{}] = 0
    /\ \A s \in SUBSET (0 .. n - 1) : \A x \in s : h[s] = f[x] + h[s \ {x}]

LEMMA SumExists ==
    ASSUME NEW n \in Nat, NEW f \in [0 .. n - 1 -> Int]
    PROVE  \E h : IsSum(n, f, h)
  <1> DEFINE K == {m \in 0 .. n : \E h : IsSum(m, f, h)}
  <1>1. 0 \in K
    <2> DEFINE h == [s \in SUBSET (0 .. 0 - 1) |-> 0]
    <2>1. 0 .. 0 - 1 = {}
      OBVIOUS
    <2>2. IsSum(0, f, h)
      BY <2>1 DEF IsSum
    <2> QED BY <2>2
  <1>2. ASSUME NEW m \in 1 .. n, m - 1 \in K PROVE m \in K
    <2> DEFINE U == 0 .. m - 1
               V == 0 .. (m - 1) - 1
               l == m - 1
    <2>1. PICK g : IsSum(m - 1, f, g)
      BY <1>2
    <2>2. /\ g \in [SUBSET V -> Int]
          /\ g[{}] = 0
          /\ \A s \in SUBSET V : \A x \in s : g[s] = f[x] + g[s \ {x}]
      BY <2>1 DEF IsSum
    <2>3. \A s \in SUBSET U : s \ {l} \in SUBSET V
      OBVIOUS
    <2>4. \A x \in U : f[x] \in Int
      OBVIOUS
    <2>5. l \in U /\ l \notin V
      OBVIOUS
    <2> HIDE DEF U, V, l
    <2> DEFINE h == [s \in SUBSET U |-> IF l \in s THEN f[l] + g[s \ {l}] ELSE g[s \ {l}]]
    <2>6. h \in [SUBSET U -> Int]
      BY <2>2, <2>3, <2>4, <2>5
    <2>7. h[{}] = 0
      BY <2>2
    <2>8. ASSUME NEW s \in SUBSET U, NEW x \in s
          PROVE  h[s] = f[x] + h[s \ {x}]
      <3>1. s \ {x} \in SUBSET U /\ x \in U
        OBVIOUS
      <3>2. CASE x = l
        <4>1. (s \ {x}) \ {l} = s \ {l} /\ l \notin s \ {x}
          BY <3>2
        <4> QED BY <3>1, <3>2, <4>1
      <3>3. CASE x # l
        <4>1. (s \ {x}) \ {l} = (s \ {l}) \ {x} /\ (l \in s <=> l \in s \ {x}) /\ x \in s \ {l}
          BY <3>3
        <4>2. g[s \ {l}] = f[x] + g[(s \ {l}) \ {x}]
          BY <2>2, <2>3, <4>1
        <4>3. (s \ {l}) \ {x} \in SUBSET V
          BY <2>3
        <4>4. f[x] \in Int /\ f[l] \in Int /\ g[(s \ {l}) \ {x}] \in Int
          BY <2>2, <2>4, <2>5, <3>1, <4>3
        <4>5. CASE l \in s
          <5>1. h[s] = f[l] + g[s \ {l}]
            BY <4>5
          <5>2. h[s \ {x}] = f[l] + g[(s \ {l}) \ {x}]
            BY <3>1, <4>1, <4>5
          <5> QED BY <4>2, <4>4, <5>1, <5>2
        <4>6. CASE l \notin s
          <5>1. h[s] = g[s \ {l}]
            BY <4>6
          <5>2. h[s \ {x}] = g[(s \ {l}) \ {x}]
            BY <3>1, <4>1, <4>6
          <5> QED BY <4>2, <5>1, <5>2
        <4> QED BY <4>5, <4>6
      <3> QED BY <3>2, <3>3
    <2> HIDE DEF h
    <2>9. IsSum(m, f, h)
      BY <2>6, <2>7, <2>8 DEF IsSum, U
    <2> QED BY <2>9
  <1> HIDE DEF K
  <1>3. 0 .. n \subseteq K
    BY <1>1, <1>2, CountUp
  <1>4. n \in K
    BY <1>3
  <1> QED BY <1>4 DEF K

Any(s) == CHOOSE x \in s : TRUE

\* g is the recursive function by which MapThenSumSet computes the sum.
Recursion(S, f, g) ==
    g = [s \in SUBSET S |-> IF s = {} THEN 0 ELSE f[Any(s)] + g[s \ {Any(s)}]]

LEMMA SumIs ==
    ASSUME NEW n \in Nat, NEW f, NEW h, IsSum(n, f, h), NEW S \in SUBSET (0 .. n - 1)
    PROVE  /\ \E g : Recursion(S, f, g)
           /\ \A g : Recursion(S, f, g) => g[S] = h[S]
  <1> DEFINE U == 0 .. n - 1
             hS == [s \in SUBSET S |-> h[s]]
  <1>1. \A s \in SUBSET S : s # {} => Any(s) \in s /\ s \ {Any(s)} \in SUBSET S
    BY DEF Any
  <1>2. \A s \in SUBSET S : s # {} => h[s] = f[Any(s)] + h[s \ {Any(s)}]
    BY <1>1 DEF IsSum
  <1>3. h[{}] = 0
    BY DEF IsSum
  <1>4. Recursion(S, f, hS)
    BY <1>1, <1>2, <1>3 DEF Recursion
  <1> SUFFICES ASSUME NEW g, Recursion(S, f, g) PROVE g[S] = h[S]
    BY <1>4
  <1>6. /\ g[{}] = 0
        /\ \A s \in SUBSET S : s # {} => g[s] = f[Any(s)] + g[s \ {Any(s)}]
    BY DEF Recursion
  <1> DEFINE Wrong == {s \in SUBSET S : g[s] # h[s]}
  <1>7. CASE Wrong = {}
    BY <1>7
  <1>8. CASE Wrong # {}
    <2>1. Wrong \subseteq FiniteSubsetsOf(U)
      <3>1. IsFiniteSet(U)
        BY FS_Interval
      <3>2. FiniteSubsetsOf(U) = SUBSET U
        BY <3>1, FS_FiniteSubsetsOfFinite
      <3> QED BY <3>2
    <2> HIDE DEF Wrong
    <2>2. PICK s \in Wrong : \A t \in Wrong : <<t, s>> \notin StrictSubsetOrdering(U)
      BY <1>8, <2>1, FS_StrictSubsetOrderingWellFounded, WFMin
    <2>3. s \in SUBSET S /\ g[s] # h[s] /\ s # {}
      BY <1>3, <1>6, <2>2 DEF Wrong
    <2> DEFINE t == s \ {Any(s)}
    <2>4. t \in SUBSET S /\ t \subseteq s /\ t # s
      BY <1>1, <2>3
    <2>5. g[t] # h[t]
      BY <1>2, <1>6, <2>3
    <2>6. t \in Wrong
      BY <2>4, <2>5 DEF Wrong
    <2>7. <<t, s>> \in StrictSubsetOrdering(U)
      <3>1. t \in SUBSET U /\ s \in SUBSET U
        BY <2>3, <2>4
      <3> QED BY <2>4, <3>1, Zenon DEF StrictSubsetOrdering
    <2> QED BY <2>2, <2>6, <2>7
  <1> QED BY <1>7, <1>8

\* What the number of a set of positions is.
LEMMA NumberStep ==
    /\ Number({}) = 0
    /\ \A S \in SUBSET (0 .. 32) :
          /\ Number(S) \in Int
          /\ \A x \in S : Number(S) = 2^x + Number(S \ {x})
  <1> DEFINE f == [k \in 0 .. 32 |-> 2^k]
  <1>1. f \in [0 .. 33 - 1 -> Int]
    <2>1. \A k \in 0 .. 32 : 2^k \in Int
      BY Powers
    <2>2. 33 - 1 = 32
      OBVIOUS
    <2> QED BY <2>1, <2>2
  <1>2. PICK h : IsSum(33, f, h)
    BY <1>1, SumExists
  <1>3. ASSUME NEW S \in SUBSET (0 .. 32) PROVE Number(S) = h[S]
    <2>1. \A s \in SUBSET S : s # {} => f[Any(s)] = 2^Any(s)
      <3>1. \A s \in SUBSET S : s # {} => Any(s) \in 0 .. 32
        BY DEF Any
      <3> QED BY <3>1
    <2> HIDE DEF f
    <2> DEFINE P(g) == g = [s \in SUBSET S |->
                              IF s = {} THEN 0 ELSE 2^Any(s) + g[s \ {Any(s)}]]
    <2>2. \A g : P(g) <=> Recursion(S, f, g)
      BY <2>1 DEF Recursion
    <2>3. Number(S) = (CHOOSE g : P(g))[S]
      BY DEF Number, MapThenSumSet, MapThenFoldSet, Any
    <2>4. 33 - 1 = 32
      OBVIOUS
    <2>5. (\E g : Recursion(S, f, g)) /\ \A g : Recursion(S, f, g) => g[S] = h[S]
      BY <1>2, <2>4, SumIs
    <2> HIDE DEF P
    <2>6. P(CHOOSE g : P(g))
      BY <2>2, <2>5, Zenon
    <2> QED BY <2>2, <2>3, <2>5, <2>6
  <1>4. 33 - 1 = 32
    OBVIOUS
  <1>5. /\ h \in [SUBSET (0 .. 32) -> Int]
        /\ h[{}] = 0
        /\ \A s \in SUBSET (0 .. 32) : \A x \in s : h[s] = f[x] + h[s \ {x}]
    BY <1>2, <1>4 DEF IsSum
  <1>6. Number({}) = 0
    BY <1>3, <1>5
  <1>7. ASSUME NEW S \in SUBSET (0 .. 32)
        PROVE  Number(S) \in Int /\ \A x \in S : Number(S) = 2^x + Number(S \ {x})
    <2>1. Number(S) \in Int
      BY <1>3, <1>5
    <2>2. ASSUME NEW x \in S PROVE Number(S) = 2^x + Number(S \ {x})
      <3> DEFINE T == S \ {x}
      <3>1. T \in SUBSET (0 .. 32) /\ f[x] = 2^x
        OBVIOUS
      <3> HIDE DEF f
      <3>2. Number(S) = h[S] /\ h[S] = f[x] + h[T]
        BY <1>3, <1>5
      <3> HIDE DEF T
      <3>3. Number(T) = h[T]
        BY <1>3, <3>1
      <3>4. Number(S) = 2^x + Number(T)
        BY <3>1, <3>2, <3>3, Zenon
      <3> QED BY <3>4 DEF T
    <2> QED BY <2>1, <2>2
  <1> QED BY <1>6, <1>7

-----------------------------------------------------------------------------
(***************************************************************************)
(* Bit patterns.                                                           *)
(***************************************************************************)
LEMMA BitsIn ==
    \A v \in Int, n \in Nat : Bits(v, n) \subseteq 0 .. n - 1
  BY DEF Bits

\* One more bit.
LEMMA BitsStep ==
    ASSUME NEW v \in Int, NEW n \in 1 .. 32
    PROVE  /\ Bits(v, n) \ {n - 1} = Bits(v, n - 1)
           /\ n - 1 \in Bits(v, n) <=> (v \div 2^(n - 1)) % 2 = 1
  <1>1. 0 .. n - 1 = (0 .. (n - 1) - 1) \cup {n - 1}
    OBVIOUS
  <1>2. n - 1 \notin 0 .. (n - 1) - 1
    OBVIOUS
  <1> QED BY <1>1, <1>2 DEF Bits

\* The n low bits of v are worth v modulo 2^n.
LEMMA NumberOfBits ==
    ASSUME NEW v \in Int
    PROVE  \A n \in 0 .. 32 : Number(Bits(v, n)) = v % 2^n
  <1> DEFINE K == {n \in 0 .. 32 : Number(Bits(v, n)) = v % 2^n}
  <1>1. 0 \in K
    <2>1. Bits(v, 0) = {}
      <3>1. 0 .. 0 - 1 = {}
        OBVIOUS
      <3> QED BY <3>1 DEF Bits
    <2>2. v % 2^0 = 0
      <3>1. 2^0 = 1
        OBVIOUS
      <3>2. v % 1 = 0
        OBVIOUS
      <3> QED BY <3>1, <3>2
    <2> QED BY <2>1, <2>2, NumberStep
  <1>2. ASSUME NEW n \in 1 .. 32, n - 1 \in K PROVE n \in K
    <2> DEFINE B == Bits(v, n)
               d == 2^(n - 1)
               bit == (v \div d) % 2
    <2>1. d \in Nat \ {0} /\ 2^n = d * 2
      <3>1. n - 1 \in 0 .. 32 /\ (n - 1) + 1 = n
        OBVIOUS
      <3>2. 2^(n - 1) \in Nat \ {0} /\ 2^((n - 1) + 1) = 2 * 2^(n - 1)
        BY <3>1, Powers, Zenon
      <3> QED BY <3>1, <3>2
    <2>2. Number(Bits(v, n - 1)) = v % d
      BY <1>2
    <2>3. B \ {n - 1} = Bits(v, n - 1) /\ (n - 1 \in B <=> bit = 1)
      BY BitsStep
    <2>4. B \in SUBSET (0 .. 32)
      BY BitsIn
    <2>5. bit \in {0, 1}
      <3> HIDE DEF d
      <3>1. v \div d \in Int
        BY <2>1
      <3> QED BY <3>1
    <2>6. v % (d * 2) = (bit * d) + (v % d)
      <3> HIDE DEF d
      <3>1. 2 \in Nat \ {0}
        OBVIOUS
      <3> QED BY <2>1, <3>1, DivTwice, Zenon
    <2>7. v % d \in Int
      <3> HIDE DEF d
      <3> QED BY <2>1
    <2>8. CASE bit = 1
      <3>1. Number(B) = d + Number(B \ {n - 1})
        <4>1. n - 1 \in B
          BY <2>3, <2>8
        <4> QED BY <2>4, <4>1, NumberStep
      <3>2. 1 * d = d
        BY <2>1
      <3> HIDE DEF B, d, bit
      <3>3. Number(B) = v % 2^n
        BY <2>1, <2>2, <2>3, <2>6, <2>7, <2>8, <3>1, <3>2
      <3> QED BY <3>3 DEF B
    <2>9. CASE bit = 0
      <3>1. B = B \ {n - 1}
        BY <2>3, <2>9
      <3>2. Number(B) = v % d
        BY <2>2, <2>3, <3>1, Zenon
      <3> HIDE DEF B, d, bit
      <3>3. v % (d * 2) = v % d
        BY <2>1, <2>6, <2>7, <2>9
      <3>4. Number(B) = v % 2^n
        BY <2>1, <3>2, <3>3, Zenon
      <3> QED BY <3>4 DEF B
    <2> QED BY <2>5, <2>8, <2>9
  <1> HIDE DEF K
  <1>3. 0 .. 32 \subseteq K
    BY <1>1, <1>2, CountUp
  <1> QED BY <1>3 DEF K

\* n positions make a number of n bits.
LEMMA NumberRange ==
    \A n \in 0 .. 32 : \A S \in SUBSET (0 .. n - 1) : Number(S) \in 0 .. 2^n - 1
  <1> DEFINE K == {n \in 0 .. 32 : \A S \in SUBSET (0 .. n - 1) : Number(S) \in 0 .. 2^n - 1}
  <1>1. 0 \in K
    <2>1. \A S \in SUBSET (0 .. 0 - 1) : S = {}
      OBVIOUS
    <2>2. 0 \in 0 .. 2^0 - 1
      <3>1. 2^0 = 1
        OBVIOUS
      <3> QED BY <3>1
    <2>3. 0 \in 0 .. 32
      OBVIOUS
    <2> QED BY <2>1, <2>2, <2>3, NumberStep, Zenon
  <1>2. ASSUME NEW n \in 1 .. 32, n - 1 \in K PROVE n \in K
    <2> SUFFICES ASSUME NEW S \in SUBSET (0 .. n - 1)
                 PROVE  Number(S) \in 0 .. 2^n - 1
      OBVIOUS
    <2> DEFINE d == 2^(n - 1)
               R == S \ {n - 1}
    <2>1. d \in Nat \ {0} /\ 2^n = d * 2
      <3>1. n - 1 \in 0 .. 32 /\ (n - 1) + 1 = n
        OBVIOUS
      <3>2. 2^(n - 1) \in Nat \ {0} /\ 2^((n - 1) + 1) = 2 * 2^(n - 1)
        BY <3>1, Powers, Zenon
      <3> QED BY <3>1, <3>2
    <2>2. R \in SUBSET (0 .. (n - 1) - 1)
      OBVIOUS
    <2>3. Number(R) \in 0 .. d - 1
      BY <1>2, <2>2
    <2>4. S = R \/ Number(S) = d + Number(R)
      <3>1. S \in SUBSET (0 .. 32)
        OBVIOUS
      <3>2. CASE n - 1 \in S
        BY <3>1, <3>2, NumberStep
      <3>3. CASE n - 1 \notin S
        BY <3>3
      <3> QED BY <3>2, <3>3
    <2> HIDE DEF d, R
    <2> QED BY <2>1, <2>3, <2>4
  <1> HIDE DEF K
  <1>3. 0 .. 32 \subseteq K
    BY <1>1, <1>2, CountUp
  <1> QED BY <1>3 DEF K

\* Two's complement: the bits of -1 - v are those v does not have.
LEMMA Complement ==
    ASSUME NEW v \in Int, NEW n \in 0 .. 32
    PROVE  Bits(-1 - v, n) = (0 .. n - 1) \ Bits(v, n)
  <1>1. ASSUME NEW k \in 0 .. n - 1
        PROVE  ((-1 - v) \div 2^k) % 2 = 1 <=> (v \div 2^k) % 2 # 1
    <2> DEFINE d == 2^k
               q == v \div d
               r == v % d
    <2>1. d \in Nat \ {0}
      <3>1. k \in 0 .. 32
        OBVIOUS
      <3> QED BY <3>1, Powers, Zenon
    <2> HIDE DEF d
    <2>2. v = (q * d) + r /\ q \in Int /\ r \in 0 .. d - 1
      BY <2>1, DivMod
    <2> HIDE DEF q, r
    <2>3. -1 - v = ((-1 - q) * d) + ((d - 1) - r) /\ (d - 1) - r \in 0 .. d - 1
      BY <2>1, <2>2
    <2>4. -1 - v \in Int /\ -1 - q \in Int
      BY <2>2
    <2>5. (-1 - v) \div d = -1 - q
      BY <2>1, <2>3, <2>4, DivisionUnique
    <2>6. (-1 - q) % 2 = 1 <=> q % 2 # 1
      BY <2>2
    <2> QED BY <2>5, <2>6 DEF q, d
  <1> QED BY <1>1 DEF Bits

LEMMA PowersGrow ==
    \A m, n \in 0 .. 32 : m <= n => 2^m <= 2^n
  <1> SUFFICES ASSUME NEW m \in 0 .. 32, NEW n \in 0 .. 32, m <= n PROVE 2^m <= 2^n
    OBVIOUS
  <1> DEFINE k == n - m
  <1>1. k \in 0 .. 32 /\ m + k = n /\ m + k <= 32
    OBVIOUS
  <1> HIDE DEF k
  <1>2. 2^n = 2^m * 2^k
    <2>1. 2^(m + k) = 2^m * 2^k
      BY <1>1, PowerSum, Zenon
    <2> QED BY <1>1, <2>1
  <1>3. 2^m \in Nat \ {0} /\ 2^k \in Nat \ {0}
    BY <1>1, Powers, Zenon
  <1>4. \A x, y \in Nat \ {0} : x <= x * y
    OBVIOUS
  <1> QED BY <1>2, <1>3, <1>4

\* From the sign bit on, all bits of an integer are the same.
LEMMA SignBits ==
    ASSUME NEW n \in 1 .. 32, NEW v \in -(2^(n - 1)) .. 2^(n - 1) - 1,
           NEW k \in n - 1 .. 31
    PROVE  (v \div 2^k) % 2 = 1 <=> v < 0
  <1> DEFINE c == 2^(n - 1)
             d == 2^k
  <1>1. c \in Nat \ {0} /\ d \in Nat \ {0} /\ c <= d
    <2>1. n - 1 \in 0 .. 32 /\ k \in 0 .. 32 /\ n - 1 <= k
      OBVIOUS
    <2> QED BY <2>1, Powers, PowersGrow, Zenon
  <1>2. v \in -c .. c - 1
    OBVIOUS
  <1> HIDE DEF c, d
  <1>3. v \in Int
    BY <1>1, <1>2
  <1>4. CASE v < 0
    <2>1. v = ((-1) * d) + (v + d) /\ v + d \in 0 .. d - 1
      BY <1>1, <1>2, <1>4
    <2>2. v \div d = -1
      BY <1>1, <1>3, <2>1, DivisionUnique
    <2>3. (v \div d) % 2 = 1
      BY <2>2
    <2> QED BY <1>4, <2>3, Zenon DEF d
  <1>5. CASE ~(v < 0)
    <2>1. v = (0 * d) + v /\ v \in 0 .. d - 1
      BY <1>1, <1>2, <1>5
    <2>2. v \div d = 0
      BY <1>1, <1>3, <2>1, DivisionUnique
    <2>3. (v \div d) % 2 = 0
      BY <2>2
    <2>4. 0 # 1
      OBVIOUS
    <2> QED BY <1>5, <2>3, <2>4, Zenon DEF d
  <1> QED BY <1>4, <1>5

-----------------------------------------------------------------------------
(***************************************************************************)
(* Words: numbers modulo 2^WordBits.                                       *)
(***************************************************************************)
LEMMA WordSizes ==
    /\ ByteBits \in 1 .. 8 /\ WordBits \in 4 .. 32 /\ WordBits = 4 * ByteBits
    /\ 2^WordBits \in Nat \ {0} /\ 2^ByteBits \in Nat \ {0}
    /\ 2^(WordBits - 1) \in Nat \ {0} /\ 2^WordBits = 2 * 2^(WordBits - 1)
    /\ Word \subseteq Nat /\ 0 \in Word
    /\ Byte \subseteq Nat /\ 0 \in Byte
  <1>1. ByteBits \in 1 .. 8 /\ WordBits \in 4 .. 32 /\ WordBits = 4 * ByteBits
    BY ByteBitsOK DEF WordBits
  <1>2. WordBits \in 0 .. 32 /\ ByteBits \in 0 .. 32 /\ WordBits - 1 \in 0 .. 32
        /\ (WordBits - 1) + 1 = WordBits
    BY <1>1
  <1>3. 2^WordBits \in Nat \ {0} /\ 2^ByteBits \in Nat \ {0}
        /\ 2^(WordBits - 1) \in Nat \ {0} /\ 2^((WordBits - 1) + 1) = 2 * 2^(WordBits - 1)
    BY <1>2, Powers, Zenon
  <1>4. 2^WordBits = 2 * 2^(WordBits - 1)
    BY <1>2, <1>3, Zenon
  <1>5. Word \subseteq Nat /\ 0 \in Word /\ Byte \subseteq Nat /\ 0 \in Byte
    BY <1>3 DEF Word, Byte
  <1> QED BY <1>1, <1>3, <1>4, <1>5

LEMMA WordInt == \A x \in Word : x \in Nat /\ x \in Int
  BY WordSizes

\* a and b are the same number as words.
Same(a, b) == \E k \in Int : a = b + k * 2^WordBits

LEMMA WrapWord ==
    /\ \A i \in Int : Wrap(i) \in Word
    /\ \A x \in Word : Wrap(x) = x
  <1> DEFINE M == 2^WordBits
  <1>1. M \in Nat \ {0}
    BY WordSizes
  <1> HIDE DEF M
  <1>2. \A i \in Int : i % M \in 0 .. M - 1
    BY <1>1
  <1>3. \A x \in 0 .. M - 1 : x % M = x
    BY <1>1
  <1> QED BY <1>2, <1>3 DEF Wrap, Word, M

LEMMA SameWrap ==
    /\ \A i \in Int : Same(Wrap(i), i)
    /\ \A x \in Word : Same(Signed(x), x) /\ Signed(x) \in Int
    /\ \A i \in Int : Same(i, i)
  <1> DEFINE M == 2^WordBits
             H == 2^(WordBits - 1)
  <1>1. M \in Nat \ {0} /\ H \in Nat
    BY WordSizes
  <1>2. Word = 0 .. M - 1
    BY DEF Word
  <1>3. \A i \in Int : Wrap(i) = i % M
    BY DEF Wrap
  <1>4. \A x : Signed(x) = IF x >= H THEN x - M ELSE x
    BY DEF Signed
  <1>5. \A a, b : Same(a, b) <=> \E k \in Int : a = b + k * M
    BY DEF Same
  <1> HIDE DEF M, H
  <1>6. ASSUME NEW i \in Int PROVE Same(Wrap(i), i)
    <2> DEFINE q == i \div M
               r == i % M
    <2>1. q \in Int /\ r \in Int /\ i = (q * M) + r
      BY <1>1
    <2> HIDE DEF q, r
    <2>2. -q \in Int /\ r = i + (-q) * M
      BY <2>1, <1>1
    <2> QED BY <2>2, <1>3, <1>5 DEF r
  <1>7. ASSUME NEW x \in Word PROVE Same(Signed(x), x) /\ Signed(x) \in Int
    <2>1. x \in Int
      BY <1>2
    <2>2. x - M = x + (-1) * M /\ x = x + 0 * M
      BY <1>1, <2>1
    <2>3. Signed(x) \in {x, x - M}
      BY <1>4
    <2>4. Same(x, x) /\ Same(x - M, x)
      BY <1>5, <2>2
    <2>5. x - M \in Int
      BY <1>1, <2>1
    <2> QED BY <2>1, <2>3, <2>4, <2>5
  <1>8. ASSUME NEW i \in Int PROVE Same(i, i)
    <2>1. i = i + 0 * M
      BY <1>1
    <2> QED BY <2>1, <1>5
  <1> QED BY <1>6, <1>7, <1>8

LEMMA WrapSame ==
    \A a, b \in Int : Same(a, b) => Wrap(a) = Wrap(b)
  <1> SUFFICES ASSUME NEW a \in Int, NEW b \in Int, Same(a, b) PROVE Wrap(a) = Wrap(b)
    OBVIOUS
  <1> DEFINE M == 2^WordBits
  <1>1. M \in Nat \ {0}
    BY WordSizes
  <1>2. PICK k \in Int : a = b + k * M
    BY DEF Same
  <1> HIDE DEF M
  <1> DEFINE q == b \div M
             r == b % M
  <1>3. q \in Int /\ r \in 0 .. M - 1 /\ b = (q * M) + r
    BY <1>1
  <1> HIDE DEF q, r
  <1>4. q + k \in Int /\ a = ((q + k) * M) + r
    <2>1. (q + k) * M = (q * M) + (k * M)
      BY <1>1, <1>3
    <2> QED BY <1>1, <1>2, <1>3, <2>1
  <1>5. a % M = r
    BY <1>1, <1>3, <1>4, DivisionUnique
  <1> QED BY <1>5 DEF Wrap, M, r

LEMMA SameSum ==
    \A a, b, c, d \in Int :
        Same(a, b) /\ Same(c, d) =>
            Same(a + c, b + d) /\ Same(a - c, b - d) /\ Same(a * c, b * d)
  <1> SUFFICES ASSUME NEW a \in Int, NEW b \in Int, NEW c \in Int, NEW d \in Int,
                      Same(a, b), Same(c, d)
               PROVE  Same(a + c, b + d) /\ Same(a - c, b - d) /\ Same(a * c, b * d)
    OBVIOUS
  <1> DEFINE M == 2^WordBits
  <1>1. M \in Nat \ {0}
    BY WordSizes
  <1>2. PICK k \in Int : a = b + k * M
    BY DEF Same
  <1>3. PICK j \in Int : c = d + j * M
    BY DEF Same
  <1>4. \A x, y : Same(x, y) <=> \E n \in Int : x = y + n * M
    BY DEF Same
  <1> HIDE DEF M
  <1>5. a + c = (b + d) + (k + j) * M /\ k + j \in Int
    BY <1>1, <1>2, <1>3
  <1>6. a - c = (b - d) + (k - j) * M /\ k - j \in Int
    BY <1>1, <1>2, <1>3
  <1>7. a * c = (b * d) + ((b * j) + (k * d) + ((k * j) * M)) * M
        /\ (b * j) + (k * d) + ((k * j) * M) \in Int
    BY <1>1, <1>2, <1>3
  <1> QED BY <1>4, <1>5, <1>6, <1>7

LEMMA SameTrans ==
    \A a, b, c \in Int : /\ Same(a, b) => Same(b, a)
                         /\ Same(a, b) /\ Same(b, c) => Same(a, c)
  <1> DEFINE M == 2^WordBits
  <1>1. M \in Nat \ {0}
    BY WordSizes
  <1>4. \A x, y : Same(x, y) <=> \E n \in Int : x = y + n * M
    BY DEF Same
  <1> HIDE DEF M
  <1> SUFFICES ASSUME NEW a \in Int, NEW b \in Int, NEW c \in Int, Same(a, b)
               PROVE  Same(b, a) /\ (Same(b, c) => Same(a, c))
    OBVIOUS
  <1>2. PICK k \in Int : a = b + k * M
    BY <1>4
  <1>3. b = a + (-k) * M /\ -k \in Int
    BY <1>1, <1>2
  <1>5. ASSUME Same(b, c) PROVE Same(a, c)
    <2>1. PICK j \in Int : b = c + j * M
      BY <1>4, <1>5
    <2>2. a = c + (j + k) * M /\ j + k \in Int
      BY <1>1, <1>2, <2>1
    <2> QED BY <2>2, <1>4
  <1> QED BY <1>3, <1>4, <1>5

\* Words below the sign bit are not negative.
LEMMA SignedIs ==
    \A x \in Word :
        /\ Signed(x) \in -(2^(WordBits - 1)) .. 2^(WordBits - 1) - 1
        /\ Signed(x) = 0 <=> x = 0
  <1> DEFINE M == 2^WordBits
             H == 2^(WordBits - 1)
  <1>1. M \in Nat \ {0} /\ H \in Nat \ {0} /\ M = 2 * H
    BY WordSizes
  <1>2. Word = 0 .. M - 1
    BY DEF Word
  <1>3. \A x : Signed(x) = IF x >= H THEN x - M ELSE x
    BY DEF Signed
  <1> HIDE DEF M, H
  <1>4. \A x \in Word : Signed(x) \in -H .. H - 1 /\ (Signed(x) = 0 <=> x = 0)
    BY <1>1, <1>2, <1>3
  <1> QED BY <1>4 DEF H

LEMMA Bitwise ==
    \A x, y \in Word : And(x, y) \in Word /\ Or(x, y) \in Word /\ Xor(x, y) \in Word
  <1> SUFFICES ASSUME NEW x \in Word, NEW y \in Word
               PROVE  And(x, y) \in Word /\ Or(x, y) \in Word /\ Xor(x, y) \in Word
    OBVIOUS
  <1> DEFINE X == Bits(x, WordBits)
             Y == Bits(y, WordBits)
             U == 0 .. WordBits - 1
  <1>1. X \in SUBSET U /\ Y \in SUBSET U
    BY DEF Bits
  <1>2. WordBits \in 0 .. 32
    BY WordSizes
  <1>3. \A S \in SUBSET U : Number(S) \in Word
    BY <1>2, NumberRange, Zenon DEF Word
  <1>4. And(x, y) = Number(X \cap Y) /\ Or(x, y) = Number(X \cup Y)
        /\ Xor(x, y) = Number((X \ Y) \cup (Y \ X))
    BY DEF And, Or, Xor
  <1> HIDE DEF X, Y, U
  <1>5. X \cap Y \in SUBSET U /\ X \cup Y \in SUBSET U /\ (X \ Y) \cup (Y \ X) \in SUBSET U
    BY <1>1
  <1> QED BY <1>3, <1>4, <1>5

LEMMA QuotientRange ==
    \A a \in Nat, d \in Nat \ {0} : a \div d \in 0 .. a
  <1> SUFFICES ASSUME NEW a \in Nat, NEW d \in Nat \ {0} PROVE a \div d \in 0 .. a
    OBVIOUS
  <1> DEFINE q == a \div d
             r == a % d
  <1>1. q \in Int /\ r \in 0 .. d - 1 /\ a = (q * d) + r
    OBVIOUS
  <1> HIDE DEF q, r
  <1>2. q >= 0
    <2>1. q < 0 => (q + 1) * d <= 0
      BY <1>1
    <2>2. (q + 1) * d = (q * d) + d
      BY <1>1
    <2> QED BY <1>1, <2>1, <2>2
  <1>3. q <= q * d
    BY <1>1, <1>2
  <1>4. q <= a
    BY <1>1, <1>2, <1>3
  <1> QED BY <1>1, <1>2, <1>4 DEF q

\* Shifting right and the high half of a product.
LEMMA QuotientWord ==
    /\ \A x \in Word, d \in Nat \ {0} : x \div d \in Word /\ x % d \in Word
    /\ \A x, y \in Word : (x * y) \div 2^WordBits \in Word
  <1> DEFINE M == 2^WordBits
  <1>1. M \in Nat \ {0}
    BY WordSizes
  <1>2. Word = 0 .. M - 1
    BY DEF Word
  <1> HIDE DEF M
  <1>3. ASSUME NEW x \in Word, NEW d \in Nat \ {0} PROVE x \div d \in Word /\ x % d \in Word
    <2>1. x \in Nat
      BY <1>2, <1>1
    <2>2. x \div d \in 0 .. x
      BY <2>1, QuotientRange
    <2>3. x % d \in 0 .. x
      <3> DEFINE q == x \div d
      <3>1. x % d \in Nat /\ x = (q * d) + (x % d) /\ q \in Nat
        BY <2>1, <2>2
      <3> HIDE DEF q
      <3>2. q * d \in Nat
        BY <3>1
      <3> QED BY <3>1, <3>2, <2>1
    <2> QED BY <1>1, <1>2, <2>2, <2>3
  <1>4. ASSUME NEW x \in Word, NEW y \in Word PROVE (x * y) \div M \in Word
    <2>1. x \in Nat /\ y \in Nat /\ x <= M - 1 /\ y <= M - 1
      BY <1>1, <1>2
    <2>2. x * y \in Nat
      BY <2>1
    <2>3. x * y <= (M - 1) * (M - 1)
      <3>1. x * y <= x * (M - 1)
        BY <2>1, <1>1
      <3>2. x * (M - 1) <= (M - 1) * (M - 1)
        BY <2>1, <1>1
      <3>3. x * (M - 1) \in Int /\ (M - 1) * (M - 1) \in Int
        BY <2>1, <1>1
      <3> QED BY <2>2, <3>1, <3>2, <3>3
    <2> DEFINE p == x * y
               q == p \div M
               r == p % M
    <2>5. p < M * M /\ p \in Nat
      BY <2>3, <1>1, <2>2
    <2> HIDE DEF p
    <2>4. q \in Nat /\ r \in 0 .. M - 1 /\ p = (q * M) + r
      BY <1>1, <2>5, QuotientRange
    <2> HIDE DEF q, r
    <2>6. q < M
      <3>1. q >= M => q * M >= M * M
        BY <1>1, <2>4
      <3>2. q * M \in Nat /\ M * M \in Nat /\ p >= q * M
        BY <1>1, <2>4
      <3> QED BY <1>1, <2>4, <2>5, <3>1, <3>2
    <2> QED BY <1>1, <1>2, <2>4, <2>6 DEF p, q
  <1> QED BY <1>3, <1>4 DEF M

-----------------------------------------------------------------------------
(***************************************************************************)
(* Bytes in memory.                                                        *)
(***************************************************************************)
\* h[0 .. n - 1] is the sum of the n bytes of memory m at a, each at its place.
Adds(n, m, a, f, h) ==
    /\ f \in [0 .. n - 1 -> Nat]
    /\ IsSum(n, f, h)
    /\ \A k \in 0 .. n - 1 : f[k] = m[a + k] * 2^(ByteBits * k)

HoldsBytes(n, m, a) == \A k \in 0 .. n - 1 : m[a + k] \in Byte

LEMMA LittleEndianIs ==
    ASSUME NEW n \in 1 .. 4, NEW m, NEW a, NEW f, NEW h, Adds(n, m, a, f, h)
    PROVE  LittleEndian(m, a, n) = h[0 .. n - 1]
  <1> DEFINE S == 0 .. n - 1
             g(k) == m[a + k] * 2^(ByteBits * k)
             P(r) == r = [s \in SUBSET S |->
                            IF s = {} THEN 0 ELSE g(Any(s)) + r[s \ {Any(s)}]]
  <1>1. \A s \in SUBSET S : s # {} => f[Any(s)] = g(Any(s))
    <2>1. \A s \in SUBSET S : s # {} => Any(s) \in S
      BY DEF Any
    <2> QED BY <2>1 DEF Adds
  <1>2. LittleEndian(m, a, n) = (CHOOSE r : P(r))[S]
    BY DEF LittleEndian, MapThenSumSet, MapThenFoldSet, Any
  <1> HIDE DEF g
  <1>3. \A r : P(r) <=> Recursion(S, f, r)
    BY <1>1 DEF Recursion
  <1>4. (\E r : Recursion(S, f, r)) /\ \A r : Recursion(S, f, r) => r[S] = h[S]
    <2>1. n \in Nat /\ S \in SUBSET S /\ IsSum(n, f, h)
      BY DEF Adds
    <2> QED BY <2>1, SumIs
  <1> HIDE DEF P
  <1>5. P(CHOOSE r : P(r))
    BY <1>3, <1>4, Zenon
  <1> QED BY <1>3, <1>2, <1>4, <1>5

LEMMA BytesSum ==
    ASSUME NEW n \in 1 .. 4, NEW m, NEW a, HoldsBytes(n, m, a)
    PROVE  \E f, h : Adds(n, m, a, f, h)
  <1> DEFINE g(k) == m[a + k] * 2^(ByteBits * k)
             f == [k \in 0 .. n - 1 |-> g(k)]
  <1>1. \A k \in 0 .. n - 1 : g(k) \in Nat
    <2>1. \A k \in 0 .. n - 1 : ByteBits * k \in 0 .. 32
      BY ByteBitsOK
    <2>2. \A k \in 0 .. n - 1 : 2^(ByteBits * k) \in Nat
      BY <2>1, Powers
    <2>3. \A k \in 0 .. n - 1 : m[a + k] \in Nat
      BY WordSizes DEF HoldsBytes
    <2> QED BY <2>2, <2>3
  <1>2. \A k \in 0 .. n - 1 : f[k] = g(k)
    OBVIOUS
  <1> HIDE DEF g
  <1>3. f \in [0 .. n - 1 -> Nat] /\ f \in [0 .. n - 1 -> Int]
    BY <1>1
  <1> HIDE DEF f
  <1>4. PICK h : IsSum(n, f, h)
    <2>1. n \in Nat
      OBVIOUS
    <2> QED BY <1>3, <2>1, SumExists
  <1>5. Adds(n, m, a, f, h)
    BY <1>2, <1>3, <1>4 DEF Adds, g
  <1> QED BY <1>5

\* Memories that agree on the bytes hold the same number.
LEMMA SameBytes ==
    ASSUME NEW n \in 1 .. 4, NEW m, NEW a, NEW u, NEW b, HoldsBytes(n, m, a),
           \A k \in 0 .. n - 1 : u[b + k] = m[a + k]
    PROVE  LittleEndian(u, b, n) = LittleEndian(m, a, n)
  <1>1. PICK f, h : Adds(n, m, a, f, h)
    BY BytesSum, Zenon
  <1>2. Adds(n, u, b, f, h)
    BY <1>1 DEF Adds
  <1>3. LittleEndian(m, a, n) = h[0 .. n - 1]
    BY <1>1, LittleEndianIs, Zenon
  <1>4. LittleEndian(u, b, n) = h[0 .. n - 1]
    BY <1>2, LittleEndianIs, Zenon
  <1> QED BY <1>3, <1>4

LEMMA LittleEndianRange ==
    ASSUME NEW n \in 1 .. 4, NEW m, NEW a, HoldsBytes(n, m, a)
    PROVE  LittleEndian(m, a, n) \in 0 .. 2^(ByteBits * n) - 1
  <1>1. PICK f, h : Adds(n, m, a, f, h)
    BY BytesSum, Zenon
  <1> DEFINE K == {j \in 0 .. n : h[0 .. j - 1] \in 0 .. 2^(ByteBits * j) - 1}
  <1>2. 0 \in K
    <2>1. 0 .. 0 - 1 = {} /\ ByteBits * 0 = 0 /\ 2^0 = 1 /\ 0 \in 0 .. n /\ 0 \in 0 .. 1 - 1
      BY ByteBitsOK
    <2>2. h[{}] = 0
      BY <1>1 DEF Adds, IsSum
    <2>3. h[0 .. 0 - 1] \in 0 .. 2^(ByteBits * 0) - 1
      BY <2>1, <2>2, Zenon
    <2> QED BY <2>1, <2>3
  <1>3. ASSUME NEW j \in 1 .. n, j - 1 \in K PROVE j \in K
    <2> DEFINE l == j - 1
               p == 2^(ByteBits * l)
               q == 2^ByteBits
               x == m[a + l]
               y == h[0 .. l - 1]
    <2>1. l \in 0 .. n - 1 /\ (0 .. j - 1) \ {l} = 0 .. l - 1 /\ l \in 0 .. j - 1
          /\ 0 .. j - 1 \in SUBSET (0 .. n - 1)
      OBVIOUS
    <2>2. h[0 .. j - 1] = f[l] + y
      <3> HIDE DEF l
      <3>1. \A s \in SUBSET (0 .. n - 1) : \A z \in s : h[s] = f[z] + h[s \ {z}]
        BY <1>1 DEF Adds, IsSum
      <3>2. h[0 .. j - 1] = f[l] + h[(0 .. j - 1) \ {l}]
        BY <2>1, <3>1, Zenon
      <3> QED BY <2>1, <3>2
    <2>3. y \in 0 .. p - 1
      BY <1>3
    <2>4. f[l] = x * p /\ x \in 0 .. q - 1
      <3> HIDE DEF l
      <3> QED BY <1>1, <2>1 DEF Byte, Adds, HoldsBytes
    <2>5. 2^(ByteBits * j) = p * q /\ p \in Nat \ {0} /\ q \in Nat \ {0}
      <3>1. ByteBits * l \in 0 .. 32 /\ ByteBits \in 0 .. 32
            /\ (ByteBits * l) + ByteBits = ByteBits * j /\ ByteBits * j <= 32
        BY ByteBitsOK
      <3>2. (ByteBits * l) + ByteBits <= 32
        BY <3>1
      <3> HIDE DEF l
      <3> QED BY <3>1, <3>2, PowerSum, Powers, Zenon
    <2> HIDE DEF l, p, q, x, y
    <2>6. (x * p) + y \in 0 .. (p * q) - 1
      <3>1. x * p \in Nat /\ x * p <= (q - 1) * p
        BY <2>3, <2>4, <2>5
      <3>2. (q - 1) * p = (p * q) - p /\ p * q \in Nat
        BY <2>5
      <3> QED BY <2>5, <2>3, <2>4, <3>1, <3>2
    <2>7. h[0 .. j - 1] \in 0 .. 2^(ByteBits * j) - 1
      BY <2>2, <2>4, <2>5, <2>6
    <2> QED BY <2>7
  <1> HIDE DEF K
  <1>4. 0 .. n \subseteq K
    <2>1. n \in Nat
      OBVIOUS
    <2> QED BY <1>2, <1>3, <2>1, CountUp
  <1>5. n \in K
    BY <1>4
  <1>6. h[0 .. n - 1] \in 0 .. 2^(ByteBits * n) - 1
    BY <1>5 DEF K
  <1>7. LittleEndian(m, a, n) = h[0 .. n - 1]
    BY <1>1, LittleEndianIs, Zenon
  <1> QED BY <1>6, <1>7

LEMMA ByteOfRange ==
    \A x \in Word, k \in 0 .. 3 : ByteOf(x, k) \in Byte
  <1> SUFFICES ASSUME NEW x \in Word, NEW k \in 0 .. 3 PROVE ByteOf(x, k) \in Byte
    OBVIOUS
  <1> DEFINE d == 2^(ByteBits * k)
             e == 2^ByteBits
  <1>1. d \in Nat \ {0} /\ e \in Nat \ {0}
    <2>1. ByteBits * k \in 0 .. 32 /\ ByteBits \in 0 .. 32
      BY ByteBitsOK
    <2> QED BY <2>1, Powers, Zenon
  <1>2. x \in Int
    BY WordSizes
  <1>3. ByteOf(x, k) = (x \div d) % e /\ Byte = 0 .. e - 1
    BY DEF ByteOf, Byte
  <1> HIDE DEF d, e
  <1>4. x \div d \in Int
    BY <1>1, <1>2
  <1> QED BY <1>1, <1>3, <1>4
=============================================================================
