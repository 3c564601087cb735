----------------------------- MODULE MachineProof -----------------------------
(***************************************************************************)
(* Proofs about Machine: the decoder undoes the encoding of the toolchain, *)
(* whatever the instruction, its registers and its immediate; every state  *)
(* is well formed; and the machine implements ISA, as long as no access    *)
(* reaches over the end of its page.                                       *)
(***************************************************************************)
EXTENDS Machine, WordsProof, SequenceTheorems

-----------------------------------------------------------------------------
(***************************************************************************)
(* What the toolchain puts into a word comes out of it again.              *)
(***************************************************************************)
Bit(v, k) == (v \div 2^k) % 2 = 1

LEMMA BitsAre ==
    ASSUME NEW v \in Int, NEW n \in Nat
    PROVE  Bits(v, n) = {k \in 0 .. n - 1 : Bit(v, k)}
  BY DEF Bits, Bit

\* S has bits lo .. hi of v from position at on, and nothing else.
Spans(S, at, hi, lo, v) ==
    /\ S \subseteq at .. at + hi - lo
    /\ \A b \in at .. at + hi - lo : b \in S <=> Bit(v, b - at + lo)

LEMMA PutIs ==
    \A v \in Int, hi \in Nat, lo \in Nat, at \in Nat :
        lo <= hi => Spans(Put(v, hi, lo, at), at, hi, lo, v)
  <1> SUFFICES ASSUME NEW v \in Int, NEW hi \in Nat, NEW lo \in Nat, NEW at \in Nat,
                      lo <= hi
               PROVE  Spans(Put(v, hi, lo, at), at, hi, lo, v)
    OBVIOUS
  <1> DEFINE B == Bits(v, hi + 1) \cap (lo .. hi)
  <1>1. B = {k \in lo .. hi : Bit(v, k)}
    <2>1. hi + 1 \in Nat
      OBVIOUS
    <2>2. Bits(v, hi + 1) = {k \in 0 .. (hi + 1) - 1 : Bit(v, k)}
      BY <2>1, BitsAre
    <2> HIDE DEF B
    <2>3. B = {k \in 0 .. (hi + 1) - 1 : Bit(v, k)} \cap (lo .. hi)
      BY <2>2 DEF B
    <2> QED BY <2>3
  <1>2. Put(v, hi, lo, at) = {at + k - lo : k \in B}
    BY DEF Put
  <1> HIDE DEF B
  <1>3. ASSUME NEW b \in Put(v, hi, lo, at) PROVE b \in at .. at + hi - lo
    BY <1>1, <1>2
  <1>4. ASSUME NEW b \in at .. at + hi - lo
        PROVE  b \in Put(v, hi, lo, at) <=> Bit(v, b - at + lo)
    <2> DEFINE k == b - at + lo
    <2>1. k \in lo .. hi /\ b = at + k - lo
      OBVIOUS
    <2>2. ASSUME NEW j \in B, b = at + j - lo PROVE j = k
      BY <1>1, <2>2
    <2> HIDE DEF k
    <2>3. b \in Put(v, hi, lo, at) <=> k \in B
      BY <1>2, <2>1, <2>2
    <2>4. k \in B <=> Bit(v, k)
      BY <1>1, <2>1
    <2> QED BY <2>3, <2>4 DEF k
  <1> QED BY <1>3, <1>4 DEF Spans

\* Bits lo .. hi of w are those of v.
Holds(w, lo, hi, v) ==
    w \in SUBSET Int /\ \A b \in lo .. hi : b \in w <=> Bit(v, b - lo)

\* A field that was put into w is what the decoder cuts out.
LEMMA Field ==
    ASSUME NEW w, NEW v \in Int, NEW lo \in Nat, NEW n \in Nat, lo + n <= 31,
           Holds(w, lo, lo + n, v)
    PROVE  /\ extractBits(w, lo, lo + n) = Bits(v, n + 1)
           /\ Number(extractBits(w, lo, lo + n)) = v % 2^(n + 1)
  <1>1. n + 1 \in Nat /\ n + 1 \in 0 .. 32 /\ 0 .. (n + 1) - 1 = 0 .. n
    OBVIOUS
  <1>2. Bits(v, n + 1) = {k \in 0 .. n : Bit(v, k)}
    BY <1>1, BitsAre
  <1>3. ASSUME NEW k \in extractBits(w, lo, lo + n) PROVE k \in 0 .. n /\ Bit(v, k)
    <2>1. PICK b \in w \cap (lo .. lo + n) : k = b - lo
      BY DEF extractBits
    <2> QED BY <2>1 DEF Holds
  <1>4. ASSUME NEW k \in 0 .. n, Bit(v, k) PROVE k \in extractBits(w, lo, lo + n)
    <2>1. k + lo \in lo .. lo + n /\ (k + lo) - lo = k
      OBVIOUS
    <2>2. k + lo \in w
      BY <1>4, <2>1 DEF Holds
    <2> QED BY <2>1, <2>2 DEF extractBits
  <1>5. extractBits(w, lo, lo + n) = Bits(v, n + 1)
    BY <1>2, <1>3, <1>4
  <1>6. \A m \in 0 .. 32 : Number(Bits(v, m)) = v % 2^m
    BY NumberOfBits, Zenon
  <1>7. Number(Bits(v, n + 1)) = v % 2^(n + 1)
    <2> DEFINE m == n + 1
    <2>1. m \in 0 .. 32
      BY <1>1
    <2> HIDE DEF m
    <2>2. Number(Bits(v, m)) = v % 2^m
      BY <2>1, <1>6, Zenon
    <2> QED BY <2>2 DEF m
  <1> QED BY <1>5, <1>7

\* w holds the first m bits of v at lo .. hi.
Stands(w, lo, hi, v, m) ==
    /\ v \in Int /\ lo \in Nat /\ m \in 1 .. 32 /\ hi = lo + (m - 1) /\ hi <= 31
    /\ Holds(w, lo, hi, v)

\* The decoder reads v there.
CutsOut(w, lo, hi, v, m) == Number(extractBits(w, lo, hi)) = v % 2^m

LEMMA FieldIs ==
    \A w, lo, hi, v, m : Stands(w, lo, hi, v, m) => CutsOut(w, lo, hi, v, m)
  <1> SUFFICES ASSUME NEW w, NEW lo, NEW hi, NEW v, NEW m, Stands(w, lo, hi, v, m)
               PROVE  CutsOut(w, lo, hi, v, m)
    OBVIOUS
  <1> DEFINE n == m - 1
  <1>1. v \in Int /\ lo \in Nat /\ n \in Nat /\ hi = lo + n /\ lo + n <= 31 /\ m = n + 1
        /\ Holds(w, lo, hi, v)
    BY DEF Stands
  <1> HIDE DEF n
  <1>2. Number(extractBits(w, lo, lo + n)) = v % 2^(n + 1)
    BY <1>1, Field
  <1> QED BY <1>1, <1>2, Zenon DEF CutsOut

LEMMA Field7 ==
    ASSUME NEW w, NEW v \in 0 .. 127, NEW lo \in 0 .. 25, Holds(w, lo, lo + 6, v)
    PROVE  Number(extractBits(w, lo, lo + 6)) = v
  <1>1. Stands(w, lo, lo + 6, v, 7)
    BY DEF Stands
  <1>2. v % 128 = v /\ 2^7 = 128
    OBVIOUS
  <1>3. CutsOut(w, lo, lo + 6, v, 7)
    BY <1>1, FieldIs, Zenon
  <1> QED BY <1>2, <1>3 DEF CutsOut

LEMMA Field5 ==
    ASSUME NEW w, NEW v \in 0 .. 31, NEW lo \in 0 .. 27, Holds(w, lo, lo + 4, v)
    PROVE  Number(extractBits(w, lo, lo + 4)) = v
  <1>1. Stands(w, lo, lo + 4, v, 5)
    BY DEF Stands
  <1>2. v % 32 = v /\ 2^5 = 32
    OBVIOUS
  <1>3. CutsOut(w, lo, lo + 4, v, 5)
    BY <1>1, FieldIs, Zenon
  <1> QED BY <1>2, <1>3 DEF CutsOut

LEMMA Field3 ==
    ASSUME NEW w, NEW v \in 0 .. 7, NEW lo \in 0 .. 29, Holds(w, lo, lo + 2, v)
    PROVE  Number(extractBits(w, lo, lo + 2)) = v
  <1>1. Stands(w, lo, lo + 2, v, 3)
    BY DEF Stands
  <1>2. v % 8 = v /\ 2^3 = 8
    OBVIOUS
  <1>3. CutsOut(w, lo, lo + 2, v, 3)
    BY <1>1, FieldIs, Zenon
  <1> QED BY <1>2, <1>3 DEF CutsOut

\* The fields of an instruction word, by the width they have in every format.
LEMMA Fields ==
    ASSUME NEW w
    PROVE  /\ \A v \in 0 .. 127 : Holds(w, 0, 6, v) => opcode(w) = v
           /\ \A v \in 0 .. 31 : Holds(w, 7, 11, v) => rd(w) = v
           /\ \A v \in 0 .. 7 : Holds(w, 12, 14, v) => func3(w) = v
           /\ \A v \in 0 .. 31 : Holds(w, 15, 19, v) => rs1(w) = v
           /\ \A v \in 0 .. 31 : Holds(w, 20, 24, v) => rs2(w) = v
           /\ \A v \in 0 .. 127 : Holds(w, 25, 31, v) => func7(w) = v
  <1>1. /\ 0 + 6 = 6 /\ 7 + 4 = 11 /\ 12 + 2 = 14 /\ 15 + 4 = 19 /\ 20 + 4 = 24
        /\ 25 + 6 = 31
        /\ 0 \in 0 .. 25 /\ 25 \in 0 .. 25 /\ 12 \in 0 .. 29
        /\ 7 \in 0 .. 27 /\ 15 \in 0 .. 27 /\ 20 \in 0 .. 27
    OBVIOUS
  <1>2. \A v \in 0 .. 127, lo \in 0 .. 25 : \A hi :
           hi = lo + 6 /\ Holds(w, lo, hi, v) => Number(extractBits(w, lo, hi)) = v
    BY Field7, Zenon
  <1>3. \A v \in 0 .. 31, lo \in 0 .. 27 : \A hi :
           hi = lo + 4 /\ Holds(w, lo, hi, v) => Number(extractBits(w, lo, hi)) = v
    BY Field5, Zenon
  <1>4. \A v \in 0 .. 7, lo \in 0 .. 29 : \A hi :
           hi = lo + 2 /\ Holds(w, lo, hi, v) => Number(extractBits(w, lo, hi)) = v
    BY Field3, Zenon
  <1>5. \A v \in 0 .. 127 : Holds(w, 0, 6, v) => opcode(w) = v
    BY <1>1, <1>2, Zenon DEF opcode
  <1>6. \A v \in 0 .. 31 : Holds(w, 7, 11, v) => rd(w) = v
    BY <1>1, <1>3, Zenon DEF rd
  <1>7. \A v \in 0 .. 7 : Holds(w, 12, 14, v) => func3(w) = v
    BY <1>1, <1>4, Zenon DEF func3
  <1>8. \A v \in 0 .. 31 : Holds(w, 15, 19, v) => rs1(w) = v
    BY <1>1, <1>3, Zenon DEF rs1
  <1>9. \A v \in 0 .. 31 : Holds(w, 20, 24, v) => rs2(w) = v
    BY <1>1, <1>3, Zenon DEF rs2
  <1>10. \A v \in 0 .. 127 : Holds(w, 25, 31, v) => func7(w) = v
    BY <1>1, <1>2, Zenon DEF func7
  <1> QED BY <1>5, <1>6, <1>7, <1>8, <1>9, <1>10, Zenon

\* w is a word of format R with these fields.
IsR(w, op, f3, f7, d, s, t) ==
    /\ op \in 0 .. 127 /\ f3 \in 0 .. 7 /\ f7 \in 0 .. 127
    /\ d \in 0 .. 31 /\ s \in 0 .. 31 /\ t \in 0 .. 31
    /\ w = UNION {Put(op, 6, 0, 0), Put(f3, 2, 0, 12), Put(f7, 6, 0, 25),
                  Put(d, 4, 0, 7), Put(s, 4, 0, 15), Put(t, 4, 0, 20)}

LEMMA FormatR ==
    ASSUME NEW w, NEW op, NEW f3, NEW f7, NEW d, NEW s, NEW t,
           IsR(w, op, f3, f7, d, s, t)
    PROVE  /\ w \subseteq 0 .. 31
           /\ opcode(w) = op /\ func3(w) = f3 /\ func7(w) = f7
           /\ rd(w) = d /\ rs1(w) = s /\ rs2(w) = t
           /\ Holds(w, 20, 24, t)
  <1> USE DEF IsR
  <1>1. Spans(Put(op, 6, 0, 0), 0, 6, 0, op)
    BY PutIs
  <1>2. Spans(Put(f3, 2, 0, 12), 12, 2, 0, f3)
    BY PutIs
  <1>3. Spans(Put(f7, 6, 0, 25), 25, 6, 0, f7)
    BY PutIs
  <1>4. Spans(Put(d, 4, 0, 7), 7, 4, 0, d)
    BY PutIs
  <1>5. Spans(Put(s, 4, 0, 15), 15, 4, 0, s)
    BY PutIs
  <1>6. Spans(Put(t, 4, 0, 20), 20, 4, 0, t)
    BY PutIs
  <1>7. w \subseteq 0 .. 31
    BY <1>1, <1>2, <1>3, <1>4, <1>5, <1>6 DEF Spans
  <1>8. Holds(w, 0, 6, op)
    BY <1>1, <1>2, <1>3, <1>4, <1>5, <1>6, <1>7 DEF Spans, Holds
  <1>9. Holds(w, 12, 14, f3)
    BY <1>1, <1>2, <1>3, <1>4, <1>5, <1>6, <1>7 DEF Spans, Holds
  <1>10. Holds(w, 25, 31, f7)
    BY <1>1, <1>2, <1>3, <1>4, <1>5, <1>6, <1>7 DEF Spans, Holds
  <1>11. Holds(w, 7, 11, d)
    BY <1>1, <1>2, <1>3, <1>4, <1>5, <1>6, <1>7 DEF Spans, Holds
  <1>12. Holds(w, 15, 19, s)
    BY <1>1, <1>2, <1>3, <1>4, <1>5, <1>6, <1>7 DEF Spans, Holds
  <1>13. Holds(w, 20, 24, t)
    BY <1>1, <1>2, <1>3, <1>4, <1>5, <1>6, <1>7 DEF Spans, Holds
  <1> QED BY <1>7, <1>8, <1>9, <1>10, <1>11, <1>12, <1>13, Fields

\* S has bits lo .. hi of w from position n on, and nothing else.
Moved(S, n, w, lo, hi) ==
    /\ S \subseteq n .. n + hi - lo
    /\ \A k \in n .. n + hi - lo : k \in S <=> k - n + lo \in w

LEMMA MovedIs ==
    \A w \in SUBSET Int, lo \in Nat, hi \in Nat : lo <= hi =>
        /\ Moved(extractBits(w, lo, hi), 0, w, lo, hi)
        /\ \A n \in Nat : Moved(ShiftLeft(extractBits(w, lo, hi), n), n, w, lo, hi)
  <1> SUFFICES ASSUME NEW w \in SUBSET Int, NEW lo \in Nat, NEW hi \in Nat, lo <= hi
               PROVE  /\ Moved(extractBits(w, lo, hi), 0, w, lo, hi)
                      /\ \A n \in Nat :
                            Moved(ShiftLeft(extractBits(w, lo, hi), n), n, w, lo, hi)
    OBVIOUS
  <1> DEFINE E == extractBits(w, lo, hi)
  <1>1. E \subseteq 0 .. hi - lo
    BY DEF extractBits
  <1>2. ASSUME NEW k \in 0 .. hi - lo PROVE k \in E <=> k + lo \in w
    <2>1. k + lo \in lo .. hi /\ k = (k + lo) - lo
      OBVIOUS
    <2>2. ASSUME NEW b \in w \cap (lo .. hi), k = b - lo PROVE b = k + lo
      BY <2>2
    <2> QED BY <2>1, <2>2 DEF extractBits
  <1> HIDE DEF E
  <1>3. Moved(E, 0, w, lo, hi)
    BY <1>1, <1>2 DEF Moved
  <1>4. ASSUME NEW n \in Nat PROVE Moved(ShiftLeft(E, n), n, w, lo, hi)
    <2>1. ShiftLeft(E, n) \subseteq n .. n + hi - lo
      BY <1>1 DEF ShiftLeft
    <2>2. ASSUME NEW k \in n .. n + hi - lo
          PROVE  k \in ShiftLeft(E, n) <=> k - n + lo \in w
      <3>1. k = (k - n) + n /\ k - n \in 0 .. hi - lo
        OBVIOUS
      <3>2. ASSUME NEW b \in E, k = b + n PROVE b = k - n
        BY <1>1, <3>2
      <3>3. k \in ShiftLeft(E, n) <=> k - n \in E
        BY <3>1, <3>2 DEF ShiftLeft
      <3> QED BY <1>2, <3>1, <3>3
    <2> QED BY <2>1, <2>2 DEF Moved
  <1> QED BY <1>3, <1>4 DEF E

LEMMA SignedRangeInt ==
    \A n \in 1 .. 32 : SignedRange(n) \subseteq Int
  <1> SUFFICES ASSUME NEW n \in 1 .. 32 PROVE SignedRange(n) \subseteq Int
    OBVIOUS
  <1>1. n - 1 \in 0 .. 32
    OBVIOUS
  <1>2. 2^(n - 1) \in Nat \ {0}
    BY <1>1, Powers, Zenon
  <1> QED BY <1>2 DEF SignedRange

\* S is bits lo .. hi of v.
Part(S, lo, hi, v) == S \subseteq lo .. hi /\ \A k \in lo .. hi : k \in S <=> Bit(v, k)

\* The n bits of an integer that has no more are extended to all its bits.
LEMMA SignExtended ==
    \A n \in 1 .. 31 : \A v \in SignedRange(n) : \A S :
        Part(S, 0, n - 1, v) => signExtend(S, n) = Bits(v, 32)
  <1> SUFFICES ASSUME NEW n \in 1 .. 31, NEW v \in SignedRange(n), NEW S, Part(S, 0, n - 1, v)
               PROVE  signExtend(S, n) = Bits(v, 32)
    OBVIOUS
  <1>1. v \in Int
    BY SignedRangeInt
  <1>2. Bits(v, 32) = {k \in 0 .. 31 : Bit(v, k)}
    <2>1. Bits(v, 32) = {k \in 0 .. 32 - 1 : Bit(v, k)}
      BY <1>1, BitsAre
    <2>2. 32 - 1 = 31
      OBVIOUS
    <2> QED BY <2>1, <2>2
  <1>3. \A k \in n - 1 .. 31 : Bit(v, k) <=> v < 0
    <2>1. n \in 1 .. 32
      OBVIOUS
    <2> QED BY <2>1, SignBits, Zenon DEF Bit, SignedRange
  <1>4. n - 1 \in n - 1 .. 31
    OBVIOUS
  <1>5. CASE v < 0
    <2>1. n - 1 \in S
      BY <1>3, <1>4, <1>5 DEF Part
    <2>2. ASSUME NEW k \in 0 .. 31 PROVE k \in S \cup n .. 31 <=> Bit(v, k)
      BY <1>3, <1>5 DEF Part
    <2>3. S \cup n .. 31 \subseteq 0 .. 31
      BY DEF Part
    <2>4. S \cup n .. 31 = Bits(v, 32)
      BY <1>2, <2>2, <2>3
    <2> QED BY <2>1, <2>4 DEF signExtend
  <1>6. CASE ~(v < 0)
    <2>1. n - 1 \notin S
      BY <1>3, <1>4, <1>6 DEF Part
    <2>2. ASSUME NEW k \in 0 .. 31 PROVE k \in S <=> Bit(v, k)
      BY <1>3, <1>6 DEF Part
    <2>3. S \subseteq 0 .. 31
      BY DEF Part
    <2>4. S = Bits(v, 32)
      BY <1>2, <2>2, <2>3
    <2> QED BY <2>1, <2>4 DEF signExtend
  <1> QED BY <1>5, <1>6

\* w is a word of format I with these fields.
IsI(w, op, f3, d, s, imm) ==
    /\ op \in 0 .. 127 /\ f3 \in 0 .. 7 /\ d \in 0 .. 31
    /\ s \in 0 .. 31 /\ imm \in SignedRange(12)
    /\ w = UNION {Put(op, 6, 0, 0), Put(f3, 2, 0, 12), Put(d, 4, 0, 7),
                  Put(s, 4, 0, 15), Put(imm, 11, 0, 20)}

LEMMA FormatI ==
    ASSUME NEW w, NEW op, NEW f3, NEW d, NEW s, NEW imm,
           IsI(w, op, f3, d, s, imm)
    PROVE  /\ w \subseteq 0 .. 31
           /\ opcode(w) = op /\ func3(w) = f3 /\ rd(w) = d /\ rs1(w) = s
           /\ immI(w) = Bits(imm, 32)
  <1> USE DEF IsI
  <1>1. Spans(Put(op, 6, 0, 0), 0, 6, 0, op)
    BY PutIs
  <1>2. Spans(Put(f3, 2, 0, 12), 12, 2, 0, f3)
    BY PutIs
  <1>3. Spans(Put(d, 4, 0, 7), 7, 4, 0, d)
    BY PutIs
  <1>4. Spans(Put(s, 4, 0, 15), 15, 4, 0, s)
    BY PutIs
  <1>5. Spans(Put(imm, 11, 0, 20), 20, 11, 0, imm)
    <2>1. imm \in Int
      BY SignedRangeInt
    <2> QED BY <2>1, PutIs
  <1>6. w \subseteq 0 .. 31
    BY <1>1, <1>2, <1>3, <1>4, <1>5 DEF Spans
  <1>7. Holds(w, 0, 6, op)
    BY <1>1, <1>2, <1>3, <1>4, <1>5, <1>6 DEF Spans, Holds
  <1>8. Holds(w, 12, 14, f3)
    BY <1>1, <1>2, <1>3, <1>4, <1>5, <1>6 DEF Spans, Holds
  <1>9. Holds(w, 7, 11, d)
    BY <1>1, <1>2, <1>3, <1>4, <1>5, <1>6 DEF Spans, Holds
  <1>10. Holds(w, 15, 19, s)
    BY <1>1, <1>2, <1>3, <1>4, <1>5, <1>6 DEF Spans, Holds
  <1>11. Holds(w, 20, 31, imm)
    BY <1>1, <1>2, <1>3, <1>4, <1>5, <1>6 DEF Spans, Holds
  <1>12. immI(w) = Bits(imm, 32)
    <2>1. w \in SUBSET Int
      BY <1>6
    <2>2. Moved(extractBits(w, 20, 31), 0, w, 20, 31)
      BY <2>1, MovedIs
    <2>3. Part(extractBits(w, 20, 31), 0, 11, imm)
      BY <1>11, <2>2 DEF Moved, Holds, Part
    <2>4. 12 \in 1 .. 31 /\ 12 - 1 = 11
      OBVIOUS
    <2> QED BY <2>3, <2>4, SignExtended, Zenon DEF immI
  <1> QED BY <1>6, <1>7, <1>8, <1>9, <1>10, <1>12, Fields

LEMMA Joined ==
    \A A, B, v : \A lo, m, l, hi \in Nat :
        lo <= m /\ l = m + 1 /\ l <= hi /\ Part(A, lo, m, v) /\ Part(B, l, hi, v)
            => Part(A \cup B, lo, hi, v)
  BY DEF Part

\* Bits n .. last of v are at lo .. hi in w.
Stored(w, lo, hi, v, n) == \A b \in lo .. hi : b \in w <=> Bit(v, b - lo + n)

LEMMA PartIs ==
    \A S, w, v : \A lo, hi, n, last \in Nat :
        /\ lo <= hi /\ last = n + hi - lo
        /\ Moved(S, n, w, lo, hi)
        /\ Stored(w, lo, hi, v, n)
        => Part(S, n, last, v)
  <1> SUFFICES ASSUME NEW S, NEW w, NEW v, NEW lo \in Nat, NEW hi \in Nat, NEW n \in Nat,
                      lo <= hi, Moved(S, n, w, lo, hi), Stored(w, lo, hi, v, n)
               PROVE  Part(S, n, n + hi - lo, v)
    OBVIOUS
  <1>1. ASSUME NEW k \in n .. n + hi - lo PROVE k \in S <=> Bit(v, k)
    <2>1. k - n + lo \in lo .. hi /\ (k - n + lo) - lo + n = k
      OBVIOUS
    <2>2. k - n + lo \in w <=> Bit(v, (k - n + lo) - lo + n)
      BY <2>1 DEF Stored
    <2> QED BY <2>1, <2>2 DEF Moved
  <1> QED BY <1>1 DEF Moved, Part

\* w is a word of format S with these fields.
IsS(w, op, f3, s, t, imm) ==
    /\ op \in 0 .. 127 /\ f3 \in 0 .. 7 /\ s \in 0 .. 31
    /\ t \in 0 .. 31 /\ imm \in SignedRange(12)
    /\ w = UNION {Put(op, 6, 0, 0), Put(f3, 2, 0, 12),
                  Put(s, 4, 0, 15), Put(t, 4, 0, 20),
                  Put(imm, 11, 5, 25), Put(imm, 4, 0, 7)}

LEMMA FormatS ==
    ASSUME NEW w, NEW op, NEW f3, NEW s, NEW t, NEW imm,
           IsS(w, op, f3, s, t, imm)
    PROVE  /\ w \subseteq 0 .. 31
           /\ opcode(w) = op /\ func3(w) = f3 /\ rs1(w) = s /\ rs2(w) = t
           /\ immS(w) = Bits(imm, 32)
  <1> USE DEF IsS
  <1>1. imm \in Int
    BY SignedRangeInt
  <1>2. Spans(Put(op, 6, 0, 0), 0, 6, 0, op)
    BY PutIs
  <1>3. Spans(Put(f3, 2, 0, 12), 12, 2, 0, f3)
    BY PutIs
  <1>4. Spans(Put(s, 4, 0, 15), 15, 4, 0, s)
    BY PutIs
  <1>5. Spans(Put(t, 4, 0, 20), 20, 4, 0, t)
    BY PutIs
  <1>6. Spans(Put(imm, 11, 5, 25), 25, 11, 5, imm)
    BY <1>1, PutIs
  <1>7. Spans(Put(imm, 4, 0, 7), 7, 4, 0, imm)
    BY <1>1, PutIs
  <1>8. w \subseteq 0 .. 31
    BY <1>2, <1>3, <1>4, <1>5, <1>6, <1>7 DEF Spans
  <1>9. Holds(w, 0, 6, op)
    BY <1>2, <1>3, <1>4, <1>5, <1>6, <1>7, <1>8 DEF Spans, Holds
  <1>10. Holds(w, 12, 14, f3)
    BY <1>2, <1>3, <1>4, <1>5, <1>6, <1>7, <1>8 DEF Spans, Holds
  <1>11. Holds(w, 15, 19, s)
    BY <1>2, <1>3, <1>4, <1>5, <1>6, <1>7, <1>8 DEF Spans, Holds
  <1>12. Holds(w, 20, 24, t)
    BY <1>2, <1>3, <1>4, <1>5, <1>6, <1>7, <1>8 DEF Spans, Holds
  <1>13. w \in SUBSET Int
    BY <1>8
  <1>14. Part(ShiftLeft(extractBits(w, 25, 31), 5), 5, 11, imm)
    <2>1. Moved(ShiftLeft(extractBits(w, 25, 31), 5), 5, w, 25, 31)
      BY <1>13, MovedIs
    <2>2. Stored(w, 25, 31, imm, 5)
      BY <1>2, <1>3, <1>4, <1>5, <1>6, <1>7 DEF Spans, Stored
    <2> QED BY <2>1, <2>2, PartIs
  <1>15. Part(extractBits(w, 7, 11), 0, 4, imm)
    <2>1. Moved(extractBits(w, 7, 11), 0, w, 7, 11)
      BY <1>13, MovedIs
    <2>2. Stored(w, 7, 11, imm, 0)
      BY <1>2, <1>3, <1>4, <1>5, <1>6, <1>7 DEF Spans, Stored
    <2> QED BY <2>1, <2>2, PartIs
  <1>16. Part(ShiftLeft(extractBits(w, 25, 31), 5) \cup extractBits(w, 7, 11),
             0, 11, imm)
    <2> DEFINE P == extractBits(w, 7, 11)
               Q == ShiftLeft(extractBits(w, 25, 31), 5)
    <2>1. Part(P, 0, 4, imm) /\ Part(Q, 5, 11, imm)
      BY <1>15, <1>14
    <2>2. UNION {P, Q} = ShiftLeft(extractBits(w, 25, 31), 5) \cup extractBits(w, 7, 11)
      OBVIOUS
    <2> HIDE DEF P, Q
    <2>3. Part(P \cup Q, 0, 11, imm)
      BY <2>1, Joined
    <2>4. UNION {P, Q} = P \cup Q
      OBVIOUS
    <2> QED BY <2>2, <2>3, <2>4, Zenon
  <1>17. 12 \in 1 .. 31 /\ 12 - 1 = 11
    OBVIOUS
  <1>18. \A S : Part(S, 0, 11, imm) => signExtend(S, 12) = Bits(imm, 32)
    BY <1>17, SignExtended, Zenon
  <1>19. immS(w) = Bits(imm, 32)
    BY <1>16, <1>18, Zenon DEF immS
  <1> QED BY <1>8, <1>9, <1>10, <1>11, <1>12, <1>19, Fields

\* w is a word of format B with these fields.
IsB(w, op, f3, s, t, imm) ==
    /\ op \in 0 .. 127 /\ f3 \in 0 .. 7 /\ s \in 0 .. 31
    /\ t \in 0 .. 31 /\ imm \in SignedRange(13) /\ imm % 2 = 0
    /\ w = UNION {Put(op, 6, 0, 0), Put(f3, 2, 0, 12),
                  Put(s, 4, 0, 15), Put(t, 4, 0, 20),
                  Put(imm, 12, 12, 31), Put(imm, 10, 5, 25),
                  Put(imm, 4, 1, 8), Put(imm, 11, 11, 7)}

LEMMA FormatB ==
    ASSUME NEW w, NEW op, NEW f3, NEW s, NEW t, NEW imm,
           IsB(w, op, f3, s, t, imm)
    PROVE  /\ w \subseteq 0 .. 31
           /\ opcode(w) = op /\ func3(w) = f3 /\ rs1(w) = s /\ rs2(w) = t
           /\ immB(w) = Bits(imm, 32)
  <1> USE DEF IsB
  <1>1. imm \in Int
    BY SignedRangeInt
  <1>2. Spans(Put(op, 6, 0, 0), 0, 6, 0, op)
    BY PutIs
  <1>3. Spans(Put(f3, 2, 0, 12), 12, 2, 0, f3)
    BY PutIs
  <1>4. Spans(Put(s, 4, 0, 15), 15, 4, 0, s)
    BY PutIs
  <1>5. Spans(Put(t, 4, 0, 20), 20, 4, 0, t)
    BY PutIs
  <1>6. Spans(Put(imm, 12, 12, 31), 31, 12, 12, imm)
    BY <1>1, PutIs
  <1>7. Spans(Put(imm, 10, 5, 25), 25, 10, 5, imm)
    BY <1>1, PutIs
  <1>8. Spans(Put(imm, 4, 1, 8), 8, 4, 1, imm)
    BY <1>1, PutIs
  <1>9. Spans(Put(imm, 11, 11, 7), 7, 11, 11, imm)
    BY <1>1, PutIs
  <1>10. w \subseteq 0 .. 31
    BY <1>2, <1>3, <1>4, <1>5, <1>6, <1>7, <1>8, <1>9 DEF Spans
  <1>11. Holds(w, 0, 6, op)
    BY <1>2, <1>3, <1>4, <1>5, <1>6, <1>7, <1>8, <1>9, <1>10 DEF Spans, Holds
  <1>12. Holds(w, 12, 14, f3)
    BY <1>2, <1>3, <1>4, <1>5, <1>6, <1>7, <1>8, <1>9, <1>10 DEF Spans, Holds
  <1>13. Holds(w, 15, 19, s)
    BY <1>2, <1>3, <1>4, <1>5, <1>6, <1>7, <1>8, <1>9, <1>10 DEF Spans, Holds
  <1>14. Holds(w, 20, 24, t)
    BY <1>2, <1>3, <1>4, <1>5, <1>6, <1>7, <1>8, <1>9, <1>10 DEF Spans, Holds
  <1>15. w \in SUBSET Int
    BY <1>10
  <1>16. Part(ShiftLeft(extractBits(w, 31, 31), 12), 12, 12, imm)
    <2>1. Moved(ShiftLeft(extractBits(w, 31, 31), 12), 12, w, 31, 31)
      BY <1>15, MovedIs
    <2>2. Stored(w, 31, 31, imm, 12)
      BY <1>2, <1>3, <1>4, <1>5, <1>6, <1>7, <1>8, <1>9 DEF Spans, Stored
    <2> QED BY <2>1, <2>2, PartIs
  <1>17. Part(ShiftLeft(extractBits(w, 7, 7), 11), 11, 11, imm)
    <2>1. Moved(ShiftLeft(extractBits(w, 7, 7), 11), 11, w, 7, 7)
      BY <1>15, MovedIs
    <2>2. Stored(w, 7, 7, imm, 11)
      BY <1>2, <1>3, <1>4, <1>5, <1>6, <1>7, <1>8, <1>9 DEF Spans, Stored
    <2> QED BY <2>1, <2>2, PartIs
  <1>18. Part(ShiftLeft(extractBits(w, 25, 30), 5), 5, 10, imm)
    <2>1. Moved(ShiftLeft(extractBits(w, 25, 30), 5), 5, w, 25, 30)
      BY <1>15, MovedIs
    <2>2. Stored(w, 25, 30, imm, 5)
      BY <1>2, <1>3, <1>4, <1>5, <1>6, <1>7, <1>8, <1>9 DEF Spans, Stored
    <2> QED BY <2>1, <2>2, PartIs
  <1>19. Part(ShiftLeft(extractBits(w, 8, 11), 1), 1, 4, imm)
    <2>1. Moved(ShiftLeft(extractBits(w, 8, 11), 1), 1, w, 8, 11)
      BY <1>15, MovedIs
    <2>2. Stored(w, 8, 11, imm, 1)
      BY <1>2, <1>3, <1>4, <1>5, <1>6, <1>7, <1>8, <1>9 DEF Spans, Stored
    <2> QED BY <2>1, <2>2, PartIs
  <1>20. Part({}, 0, 0, imm)
    <2>1. 2^0 = 1 /\ imm \div 1 = imm
      BY <1>1
    <2>2. ~Bit(imm, 0)
      BY <2>1 DEF Bit
    <2> QED BY <2>2 DEF Part
  <1>21. Part(UNION {ShiftLeft(extractBits(w, 31, 31), 12),
                   ShiftLeft(extractBits(w, 7, 7), 11),
                   ShiftLeft(extractBits(w, 25, 30), 5),
                   ShiftLeft(extractBits(w, 8, 11), 1)},
             0, 12, imm)
    <2> DEFINE P == {}
               Q == ShiftLeft(extractBits(w, 8, 11), 1)
               R == ShiftLeft(extractBits(w, 25, 30), 5)
               S == ShiftLeft(extractBits(w, 7, 7), 11)
               T == ShiftLeft(extractBits(w, 31, 31), 12)
    <2>1. Part(P, 0, 0, imm) /\ Part(Q, 1, 4, imm) /\ Part(R, 5, 10, imm) /\ Part(S, 11, 11, imm) /\ Part(T, 12, 12, imm)
      BY <1>20, <1>19, <1>18, <1>17, <1>16
    <2>2. UNION {P, Q, R, S, T} = UNION {ShiftLeft(extractBits(w, 31, 31), 12),
                   ShiftLeft(extractBits(w, 7, 7), 11),
                   ShiftLeft(extractBits(w, 25, 30), 5),
                   ShiftLeft(extractBits(w, 8, 11), 1)}
      OBVIOUS
    <2> HIDE DEF P, Q, R, S, T
    <2>3. Part((P \cup Q), 0, 4, imm)
      BY <2>1, Joined
    <2>4. Part(((P \cup Q) \cup R), 0, 10, imm)
      BY <2>1, <2>3, Joined
    <2>5. Part((((P \cup Q) \cup R) \cup S), 0, 11, imm)
      BY <2>1, <2>4, Joined
    <2>6. Part((((P \cup Q) \cup R) \cup S) \cup T, 0, 12, imm)
      BY <2>1, <2>5, Joined
    <2>7. UNION {P, Q, R, S, T} = (((P \cup Q) \cup R) \cup S) \cup T
      OBVIOUS
    <2> DEFINE U == UNION {P, Q, R, S, T}
    <2>8. Part(U, 0, 12, imm)
      BY <2>6, <2>7
    <2> HIDE DEF U
    <2> QED BY <2>2, <2>8 DEF U
  <1>22. 13 \in 1 .. 31 /\ 13 - 1 = 12
    OBVIOUS
  <1>23. \A S : Part(S, 0, 12, imm) => signExtend(S, 13) = Bits(imm, 32)
    BY <1>22, SignExtended, Zenon
  <1>24. immB(w) = Bits(imm, 32)
    BY <1>21, <1>23, Zenon DEF immB
  <1> QED BY <1>10, <1>11, <1>12, <1>13, <1>14, <1>24, Fields

\* w is a word of format J with these fields.
IsJ(w, op, d, imm) ==
    /\ op \in 0 .. 127 /\ d \in 0 .. 31 /\ imm \in SignedRange(21)
    /\ imm % 2 = 0
    /\ w = UNION {Put(op, 6, 0, 0), Put(d, 4, 0, 7),
                  Put(imm, 20, 20, 31), Put(imm, 10, 1, 21),
                  Put(imm, 11, 11, 20), Put(imm, 19, 12, 12)}

LEMMA FormatJ ==
    ASSUME NEW w, NEW op, NEW d, NEW imm,
           IsJ(w, op, d, imm)
    PROVE  /\ w \subseteq 0 .. 31
           /\ opcode(w) = op /\ rd(w) = d /\ immJ(w) = Bits(imm, 32)
  <1> USE DEF IsJ
  <1>1. imm \in Int
    BY SignedRangeInt
  <1>2. Spans(Put(op, 6, 0, 0), 0, 6, 0, op)
    BY PutIs
  <1>3. Spans(Put(d, 4, 0, 7), 7, 4, 0, d)
    BY PutIs
  <1>4. Spans(Put(imm, 20, 20, 31), 31, 20, 20, imm)
    BY <1>1, PutIs
  <1>5. Spans(Put(imm, 10, 1, 21), 21, 10, 1, imm)
    BY <1>1, PutIs
  <1>6. Spans(Put(imm, 11, 11, 20), 20, 11, 11, imm)
    BY <1>1, PutIs
  <1>7. Spans(Put(imm, 19, 12, 12), 12, 19, 12, imm)
    BY <1>1, PutIs
  <1>8. w \subseteq 0 .. 31
    BY <1>2, <1>3, <1>4, <1>5, <1>6, <1>7 DEF Spans
  <1>9. Holds(w, 0, 6, op)
    BY <1>2, <1>3, <1>4, <1>5, <1>6, <1>7, <1>8 DEF Spans, Holds
  <1>10. Holds(w, 7, 11, d)
    BY <1>2, <1>3, <1>4, <1>5, <1>6, <1>7, <1>8 DEF Spans, Holds
  <1>11. w \in SUBSET Int
    BY <1>8
  <1>12. Part(ShiftLeft(extractBits(w, 31, 31), 20), 20, 20, imm)
    <2>1. Moved(ShiftLeft(extractBits(w, 31, 31), 20), 20, w, 31, 31)
      BY <1>11, MovedIs
    <2>2. Stored(w, 31, 31, imm, 20)
      BY <1>2, <1>3, <1>4, <1>5, <1>6, <1>7 DEF Spans, Stored
    <2> QED BY <2>1, <2>2, PartIs
  <1>13. Part(ShiftLeft(extractBits(w, 12, 19), 12), 12, 19, imm)
    <2>1. Moved(ShiftLeft(extractBits(w, 12, 19), 12), 12, w, 12, 19)
      BY <1>11, MovedIs
    <2>2. Stored(w, 12, 19, imm, 12)
      BY <1>2, <1>3, <1>4, <1>5, <1>6, <1>7 DEF Spans, Stored
    <2> QED BY <2>1, <2>2, PartIs
  <1>14. Part(ShiftLeft(extractBits(w, 20, 20), 11), 11, 11, imm)
    <2>1. Moved(ShiftLeft(extractBits(w, 20, 20), 11), 11, w, 20, 20)
      BY <1>11, MovedIs
    <2>2. Stored(w, 20, 20, imm, 11)
      BY <1>2, <1>3, <1>4, <1>5, <1>6, <1>7 DEF Spans, Stored
    <2> QED BY <2>1, <2>2, PartIs
  <1>15. Part(ShiftLeft(extractBits(w, 21, 30), 1), 1, 10, imm)
    <2>1. Moved(ShiftLeft(extractBits(w, 21, 30), 1), 1, w, 21, 30)
      BY <1>11, MovedIs
    <2>2. Stored(w, 21, 30, imm, 1)
      BY <1>2, <1>3, <1>4, <1>5, <1>6, <1>7 DEF Spans, Stored
    <2> QED BY <2>1, <2>2, PartIs
  <1>16. Part({}, 0, 0, imm)
    <2>1. 2^0 = 1 /\ imm \div 1 = imm
      BY <1>1
    <2>2. ~Bit(imm, 0)
      BY <2>1 DEF Bit
    <2> QED BY <2>2 DEF Part
  <1>17. Part(UNION {ShiftLeft(extractBits(w, 31, 31), 20),
                   ShiftLeft(extractBits(w, 12, 19), 12),
                   ShiftLeft(extractBits(w, 20, 20), 11),
                   ShiftLeft(extractBits(w, 21, 30), 1)},
             0, 20, imm)
    <2> DEFINE P == {}
               Q == ShiftLeft(extractBits(w, 21, 30), 1)
               R == ShiftLeft(extractBits(w, 20, 20), 11)
               S == ShiftLeft(extractBits(w, 12, 19), 12)
               T == ShiftLeft(extractBits(w, 31, 31), 20)
    <2>1. Part(P, 0, 0, imm) /\ Part(Q, 1, 10, imm) /\ Part(R, 11, 11, imm) /\ Part(S, 12, 19, imm) /\ Part(T, 20, 20, imm)
      BY <1>16, <1>15, <1>14, <1>13, <1>12
    <2>2. UNION {P, Q, R, S, T} = UNION {ShiftLeft(extractBits(w, 31, 31), 20),
                   ShiftLeft(extractBits(w, 12, 19), 12),
                   ShiftLeft(extractBits(w, 20, 20), 11),
                   ShiftLeft(extractBits(w, 21, 30), 1)}
      OBVIOUS
    <2> HIDE DEF P, Q, R, S, T
    <2>3. Part((P \cup Q), 0, 10, imm)
      BY <2>1, Joined
    <2>4. Part(((P \cup Q) \cup R), 0, 11, imm)
      BY <2>1, <2>3, Joined
    <2>5. Part((((P \cup Q) \cup R) \cup S), 0, 19, imm)
      BY <2>1, <2>4, Joined
    <2>6. Part((((P \cup Q) \cup R) \cup S) \cup T, 0, 20, imm)
      BY <2>1, <2>5, Joined
    <2>7. UNION {P, Q, R, S, T} = (((P \cup Q) \cup R) \cup S) \cup T
      OBVIOUS
    <2> DEFINE U == UNION {P, Q, R, S, T}
    <2>8. Part(U, 0, 20, imm)
      BY <2>6, <2>7
    <2> HIDE DEF U
    <2> QED BY <2>2, <2>8 DEF U
  <1>18. 21 \in 1 .. 31 /\ 21 - 1 = 20
    OBVIOUS
  <1>19. \A S : Part(S, 0, 20, imm) => signExtend(S, 21) = Bits(imm, 32)
    BY <1>18, SignExtended, Zenon
  <1>20. immJ(w) = Bits(imm, 32)
    BY <1>17, <1>19, Zenon DEF immJ
  <1> QED BY <1>8, <1>9, <1>10, <1>20, Fields

LEMMA ShiftedBits ==
    ASSUME NEW v \in Int, NEW n \in 0 .. 31, NEW k \in 0 .. 31
    PROVE  Bit(v * 2^n, k) <=> k >= n /\ Bit(v, k - n)
  <1> DEFINE c == 2^n
             d == 2^k
  <1>1. c \in Nat \ {0} /\ d \in Nat \ {0}
    <2>1. n \in 0 .. 32 /\ k \in 0 .. 32
      OBVIOUS
    <2> QED BY <2>1, Powers, Zenon
  <1>2. CASE k >= n
    <2> DEFINE e == 2^(k - n)
    <2>1. e \in Nat \ {0} /\ d = c * e
      <3>1. n \in 0 .. 32 /\ k - n \in 0 .. 32 /\ n + (k - n) = k /\ n + (k - n) <= 32
        BY <1>2
      <3>2. 2^(n + (k - n)) = 2^n * 2^(k - n)
        BY <3>1, PowerSum, Zenon
      <3>3. 2^(k - n) \in Nat \ {0}
        BY <3>1, Powers, Zenon
      <3> QED BY <3>1, <3>2, <3>3
    <2> HIDE DEF c, d, e
    <2>2. v * c \in Int
      BY <1>1
    <2>3. (v * c) \div (c * e) = ((v * c) \div c) \div e
      BY <1>1, <2>1, <2>2, DivTwice, Zenon
    <2>4. (v * c) \div c = v
      <3>1. v * c = (v * c) + 0 /\ 0 \in 0 .. c - 1
        BY <1>1
      <3> QED BY <1>1, <2>2, <3>1, DivisionUnique
    <2>5. (v * c) \div d = v \div e
      BY <2>1, <2>3, <2>4, Zenon
    <2> QED BY <1>2, <2>5, Zenon DEF Bit, c, d, e
  <1>3. CASE ~(k >= n)
    <2> DEFINE j == n - k - 1
               e == 2^j
    <2>1. e \in Nat \ {0} /\ c = (e * 2) * d
      <3>1. j \in 0 .. 32 /\ j + 1 \in 0 .. 32 /\ k \in 0 .. 32 /\ (j + 1) + k = n
            /\ (j + 1) + k <= 32
        BY <1>3
      <3> HIDE DEF j
      <3>2. 2^((j + 1) + k) = 2^(j + 1) * 2^k
        BY <3>1, PowerSum, Zenon
      <3>3. 2^j \in Nat \ {0} /\ 2^(j + 1) = 2 * 2^j
        BY <3>1, Powers, Zenon
      <3>4. 2^n = 2^(j + 1) * 2^k
        BY <3>1, <3>2, Zenon
      <3>5. 2^(j + 1) = 2^j * 2
        BY <3>3
      <3> QED BY <3>3, <3>4, <3>5, Zenon
    <2> HIDE DEF c, d, e, j
    <2>2. v * c = (((v * e) * 2) * d) + 0 /\ 0 \in 0 .. d - 1
      BY <1>1, <2>1
    <2>3. v * c \in Int /\ (v * e) * 2 \in Int
      BY <1>1, <2>1
    <2>4. (v * c) \div d = (v * e) * 2
      BY <1>1, <2>2, <2>3, DivisionUnique
    <2>5. ((v * e) * 2) % 2 = 0
      <3>1. v * e \in Int
        BY <2>1
      <3> QED BY <3>1
    <2>6. ((v * c) \div d) % 2 = 0
      BY <2>4, <2>5
    <2>7. 0 # 1
      OBVIOUS
    <2> QED BY <1>3, <2>6, <2>7, Zenon DEF Bit, c, d
  <1> QED BY <1>2, <1>3

\* The value of the upper bits.
Upper(v) == v * 4096

\* w is a word of format U with these fields.
IsU(w, op, d, imm) ==
    /\ op \in 0 .. 127 /\ d \in 0 .. 31 /\ imm \in SignedRange(20)
    /\ w = UNION {Put(op, 6, 0, 0), Put(d, 4, 0, 7), Put(imm, 19, 0, 12)}

LEMMA FormatU ==
    ASSUME NEW w, NEW op, NEW d, NEW imm,
           IsU(w, op, d, imm)
    PROVE  /\ w \subseteq 0 .. 31
           /\ opcode(w) = op /\ rd(w) = d /\ immU(w) = Bits(Upper(imm), 32)
  <1> USE DEF IsU
  <1>1. imm \in Int
    BY SignedRangeInt
  <1>2. Spans(Put(op, 6, 0, 0), 0, 6, 0, op)
    BY PutIs
  <1>3. Spans(Put(d, 4, 0, 7), 7, 4, 0, d)
    BY PutIs
  <1>4. Spans(Put(imm, 19, 0, 12), 12, 19, 0, imm)
    BY <1>1, PutIs
  <1>5. w \subseteq 0 .. 31
    BY <1>2, <1>3, <1>4 DEF Spans
  <1>6. Holds(w, 0, 6, op)
    BY <1>2, <1>3, <1>4, <1>5 DEF Spans, Holds
  <1>7. Holds(w, 7, 11, d)
    BY <1>2, <1>3, <1>4, <1>5 DEF Spans, Holds
  <1>8. Holds(w, 12, 31, imm)
    BY <1>2, <1>3, <1>4, <1>5 DEF Spans, Holds
  <1>9. Moved(immU(w), 12, w, 12, 31)
    BY <1>5, MovedIs DEF immU
  <1> DEFINE v == imm * 4096
  <1>10. Bits(v, 32) = {k \in 0 .. 31 : Bit(v, k)}
    <2>1. v \in Int
      BY <1>1
    <2> HIDE DEF v
    <2>2. Bits(v, 32) = {k \in 0 .. 32 - 1 : Bit(v, k)}
      BY <2>1, BitsAre
    <2>3. 32 - 1 = 31
      OBVIOUS
    <2> QED BY <2>2, <2>3
  <1>11. ASSUME NEW k \in 0 .. 31
         PROVE  Bit(v, k) <=> k >= 12 /\ Bit(imm, k - 12)
    <2>1. 12 \in 0 .. 31
      OBVIOUS
    <2>2. Bit(imm * 2^12, k) <=> k >= 12 /\ Bit(imm, k - 12)
      BY <1>1, <2>1, ShiftedBits, Zenon
    <2>3. v = imm * 2^12
      <3>1. 2^12 = 4096
        OBVIOUS
      <3> QED BY <1>1, <3>1
    <2> HIDE DEF v
    <2> QED BY <2>2, <2>3, Zenon
  <1> HIDE DEF v
  <1>12. immU(w) = Bits(v, 32)
    <2>1. ASSUME NEW k \in 0 .. 31 PROVE k \in immU(w) <=> Bit(v, k)
      <3>1. Bit(v, k) <=> k >= 12 /\ Bit(imm, k - 12)
        BY <1>11
      <3>2. CASE k < 12
        <4>1. k \notin immU(w)
          BY <1>9, <3>2 DEF Moved
        <4> QED BY <3>1, <3>2, <4>1
      <3>3. CASE k >= 12
        <4>1. k \in immU(w) <=> k \in w
          BY <1>9, <3>3 DEF Moved
        <4>2. k \in w <=> Bit(imm, k - 12)
          BY <1>8, <3>3 DEF Holds
        <4> QED BY <3>1, <3>3, <4>1, <4>2
      <3> QED BY <3>2, <3>3
    <2>2. immU(w) \subseteq 0 .. 31
      BY <1>9 DEF Moved
    <2> QED BY <1>10, <2>1, <2>2
  <1> QED BY <1>5, <1>6, <1>7, <1>12, Fields DEF v, Upper

-----------------------------------------------------------------------------
(***************************************************************************)
(* What an immediate is worth.                                             *)
(***************************************************************************)
LEMMA Int32OfBits ==
    \A v \in SignedRange(32) : Int32(Bits(v, 32)) = v
  <1> SUFFICES ASSUME NEW v \in SignedRange(32) PROVE Int32(Bits(v, 32)) = v
    OBVIOUS
  <1>1. v \in -(2^31) .. 2^31 - 1
    <2>1. 32 - 1 = 31
      OBVIOUS
    <2> QED BY <2>1 DEF SignedRange
  <1>6. v \in Int
    <2>1. 32 \in 1 .. 32
      OBVIOUS
    <2> QED BY <2>1, SignedRangeInt
  <1>2. Bits(v, 32) = {k \in 0 .. 31 : Bit(v, k)}
    <2>1. Bits(v, 32) = {k \in 0 .. 32 - 1 : Bit(v, k)}
      BY <1>6, BitsAre
    <2>2. 32 - 1 = 31
      OBVIOUS
    <2> QED BY <2>1, <2>2
  <1>3. 31 \in Bits(v, 32) <=> v < 0
    <2>1. 32 \in 1 .. 32 /\ 31 \in 32 - 1 .. 31
      OBVIOUS
    <2>2. Bit(v, 31) <=> v < 0
      BY <2>1, SignBits, Zenon DEF Bit, SignedRange
    <2> QED BY <1>2, <2>2
  <1>4. CASE v < 0
    <2>1. -1 - v \in Int /\ 31 \in 0 .. 32
      BY <1>6
    <2>2. 0 .. 30 \ Bits(v, 32) = Bits(-1 - v, 31)
      <3>1. Bits(-1 - v, 31) = (0 .. 31 - 1) \ Bits(v, 31)
        BY <1>6, <2>1, Complement
      <3>2. Bits(v, 31) = {k \in 0 .. 31 - 1 : Bit(v, k)}
        BY <1>6, BitsAre
      <3> QED BY <1>2, <3>1, <3>2
    <2>3. Number(Bits(-1 - v, 31)) = (-1 - v) % 2^31
      BY <2>1, NumberOfBits, Zenon
    <2>4. (-1 - v) % 2^31 = -1 - v
      <3>1. 2^31 = 2147483648
        OBVIOUS
      <3>2. (-1 - v) % 2147483648 = -1 - v
        BY <1>1, <1>4
      <3> QED BY <3>1, <3>2
    <2>5. -1 - (-1 - v) = v
      BY <1>1
    <2> QED BY <1>3, <1>4, <2>2, <2>3, <2>4, <2>5 DEF Int32
  <1>5. CASE ~(v < 0)
    <2>1. v \in Int /\ 32 \in 0 .. 32
      BY <1>1
    <2>2. Number(Bits(v, 32)) = v % 2^32
      BY <2>1, NumberOfBits
    <2>3. v % 2^32 = v
      <3>1. 2^32 = 4294967296
        OBVIOUS
      <3>2. v % 4294967296 = v
        BY <1>1, <1>5
      <3> QED BY <3>1, <3>2
    <2> QED BY <1>3, <1>5, <2>2, <2>3 DEF Int32
  <1> QED BY <1>4, <1>5

LEMMA SignedRangesGrow ==
    \A m, n \in 1 .. 32 : m <= n => SignedRange(m) \subseteq SignedRange(n)
  <1> SUFFICES ASSUME NEW m \in 1 .. 32, NEW n \in 1 .. 32, m <= n
               PROVE  SignedRange(m) \subseteq SignedRange(n)
    OBVIOUS
  <1>1. m - 1 \in 0 .. 32 /\ n - 1 \in 0 .. 32 /\ m - 1 <= n - 1
    OBVIOUS
  <1>2. 2^(m - 1) \in Nat \ {0} /\ 2^(n - 1) \in Nat \ {0} /\ 2^(m - 1) <= 2^(n - 1)
    BY <1>1, Powers, PowersGrow, Zenon
  <1> QED BY <1>2 DEF SignedRange

-----------------------------------------------------------------------------
(***************************************************************************)
(* The tables of the executors are the inverse of those of the toolchain.  *)
(***************************************************************************)
LEMMA Forms ==
    /\ DOMAIN RegisterForm =
          {"ADD", "SUB", "SLL", "SLT", "SLTU", "XOR", "SRL", "SRA", "OR", "AND",
           "MUL", "MULH", "MULHSU", "MULHU", "DIV", "DIVU", "REM", "REMU"}
    /\ DOMAIN ImmediateForm = {"ADDI", "SLTI", "SLTIU", "XORI", "ORI", "ANDI"}
    /\ DOMAIN ShiftForm = {"SLLI", "SRLI", "SRAI"}
    /\ DOMAIN LoadForm = {"LB", "LH", "LW", "LBU", "LHU"}
    /\ DOMAIN StoreForm = {"SB", "SH", "SW"}
    /\ DOMAIN BranchForm = {"BEQ", "BNE", "BLT", "BGE", "BLTU", "BGEU"}
  BY DEF RegisterForm, ImmediateForm, ShiftForm, LoadForm, StoreForm, BranchForm

\* Where Machine::execute sends a word with opcode R_Type.
RegisterTarget(f3, f7) ==
    IF f7 = 1 THEN MExtension[f3 + 1]
    ELSE CASE f7 = 0 -> Plain[f3 + 1]
           [] f7 = 32 -> Alternate[f3 + 1]
           [] OTHER -> ""

RegisterEntry(op, f3, f7) ==
    /\ f3 \in 0 .. 7 /\ f7 \in 0 .. 127
    /\ op = RegisterTarget(f3, f7)

LEMMA RegisterTable ==
    \A op \in DOMAIN RegisterForm :
        RegisterEntry(op, RegisterForm[op][1], RegisterForm[op][2])
  <1>1. /\ RegisterForm["ADD"] = <<0, 0>> /\ RegisterForm["SUB"] = <<0, 32>>
        /\ RegisterForm["SLL"] = <<1, 0>> /\ RegisterForm["SLT"] = <<2, 0>>
        /\ RegisterForm["SLTU"] = <<3, 0>> /\ RegisterForm["XOR"] = <<4, 0>>
        /\ RegisterForm["SRL"] = <<5, 0>> /\ RegisterForm["SRA"] = <<5, 32>>
        /\ RegisterForm["OR"] = <<6, 0>> /\ RegisterForm["AND"] = <<7, 0>>
        /\ RegisterForm["MUL"] = <<0, 1>> /\ RegisterForm["MULH"] = <<1, 1>>
        /\ RegisterForm["MULHSU"] = <<2, 1>> /\ RegisterForm["MULHU"] = <<3, 1>>
        /\ RegisterForm["DIV"] = <<4, 1>> /\ RegisterForm["DIVU"] = <<5, 1>>
        /\ RegisterForm["REM"] = <<6, 1>> /\ RegisterForm["REMU"] = <<7, 1>>
    BY DEF RegisterForm
  <1>2. /\ RegisterEntry("ADD", 0, 0) /\ RegisterEntry("SUB", 0, 32)
        /\ RegisterEntry("SLL", 1, 0) /\ RegisterEntry("SLT", 2, 0)
        /\ RegisterEntry("SLTU", 3, 0) /\ RegisterEntry("XOR", 4, 0)
        /\ RegisterEntry("SRL", 5, 0) /\ RegisterEntry("SRA", 5, 32)
        /\ RegisterEntry("OR", 6, 0) /\ RegisterEntry("AND", 7, 0)
        /\ RegisterEntry("MUL", 0, 1) /\ RegisterEntry("MULH", 1, 1)
        /\ RegisterEntry("MULHSU", 2, 1) /\ RegisterEntry("MULHU", 3, 1)
        /\ RegisterEntry("DIV", 4, 1) /\ RegisterEntry("DIVU", 5, 1)
        /\ RegisterEntry("REM", 6, 1) /\ RegisterEntry("REMU", 7, 1)
    BY DEF RegisterEntry, RegisterTarget, MExtension, Plain, Alternate
  <1>3. \A op, f3, f7 : RegisterForm[op] = <<f3, f7>> =>
            RegisterForm[op][1] = f3 /\ RegisterForm[op][2] = f7
    OBVIOUS
  <1> QED BY <1>1, <1>2, <1>3, Forms

ShiftEntry(op, f3, f7) ==
    /\ f3 \in {1, 5} /\ f7 \in {0, 32}
    /\ op = IF f3 = 1 THEN "SLLI" ELSE IF f7 = 0 THEN "SRLI" ELSE "SRAI"
    /\ f3 = 1 => f7 = 0

LEMMA ShiftTable ==
    \A op \in DOMAIN ShiftForm : ShiftEntry(op, ShiftForm[op][1], ShiftForm[op][2])
  <1>1. /\ ShiftForm["SLLI"] = <<1, 0>> /\ ShiftForm["SRLI"] = <<5, 0>>
        /\ ShiftForm["SRAI"] = <<5, 32>>
    BY DEF ShiftForm
  <1>2. /\ ShiftEntry("SLLI", 1, 0) /\ ShiftEntry("SRLI", 5, 0)
        /\ ShiftEntry("SRAI", 5, 32)
    BY DEF ShiftEntry
  <1>3. \A op, f3, f7 : ShiftForm[op] = <<f3, f7>> =>
            ShiftForm[op][1] = f3 /\ ShiftForm[op][2] = f7
    OBVIOUS
  <1> QED BY <1>1, <1>2, <1>3, Forms

LEMMA SmallTables ==
    /\ \A op \in DOMAIN ImmediateForm :
          /\ ImmediateForm[op] \in {0, 2, 3, 4, 6, 7}
          /\ Immediate[ImmediateForm[op] + 1] = op
    /\ \A op \in DOMAIN LoadForm :
          LoadForm[op] \in 0 .. 7 /\ Loads[LoadForm[op] + 1] = op
    /\ \A op \in DOMAIN StoreForm :
          StoreForm[op] \in 0 .. 7 /\ Stores[StoreForm[op] + 1] = op
    /\ \A op \in DOMAIN BranchForm :
          BranchForm[op] \in 0 .. 7 /\ Branches[BranchForm[op] + 1] = op
  <1>1. /\ ImmediateForm["ADDI"] = 0 /\ ImmediateForm["SLTI"] = 2 /\ ImmediateForm["SLTIU"] = 3
        /\ ImmediateForm["XORI"] = 4 /\ ImmediateForm["ORI"] = 6 /\ ImmediateForm["ANDI"] = 7
    BY DEF ImmediateForm
  <1>2. /\ Immediate[1] = "ADDI" /\ Immediate[3] = "SLTI" /\ Immediate[4] = "SLTIU"
        /\ Immediate[5] = "XORI" /\ Immediate[7] = "ORI" /\ Immediate[8] = "ANDI"
    BY DEF Immediate
  <1>3. ASSUME NEW op \in DOMAIN ImmediateForm
        PROVE  ImmediateForm[op] \in {0, 2, 3, 4, 6, 7} /\ Immediate[ImmediateForm[op] + 1] = op
    BY <1>1, <1>2, Forms
  <1>4. /\ LoadForm["LB"] = 0 /\ LoadForm["LH"] = 1 /\ LoadForm["LW"] = 2
        /\ LoadForm["LBU"] = 4 /\ LoadForm["LHU"] = 5
    BY DEF LoadForm
  <1>5. /\ Loads[1] = "LB" /\ Loads[2] = "LH" /\ Loads[3] = "LW"
        /\ Loads[5] = "LBU" /\ Loads[6] = "LHU"
    BY DEF Loads
  <1>6. ASSUME NEW op \in DOMAIN LoadForm
        PROVE  LoadForm[op] \in 0 .. 7 /\ Loads[LoadForm[op] + 1] = op
    BY <1>4, <1>5, Forms
  <1>7. /\ StoreForm["SB"] = 0 /\ StoreForm["SH"] = 1 /\ StoreForm["SW"] = 2
    BY DEF StoreForm
  <1>8. /\ Stores[1] = "SB" /\ Stores[2] = "SH" /\ Stores[3] = "SW"
    BY DEF Stores
  <1>9. ASSUME NEW op \in DOMAIN StoreForm
        PROVE  StoreForm[op] \in 0 .. 7 /\ Stores[StoreForm[op] + 1] = op
    BY <1>7, <1>8, Forms
  <1>10. /\ BranchForm["BEQ"] = 0 /\ BranchForm["BNE"] = 1 /\ BranchForm["BLT"] = 4
        /\ BranchForm["BGE"] = 5 /\ BranchForm["BLTU"] = 6 /\ BranchForm["BGEU"] = 7
    BY DEF BranchForm
  <1>11. /\ Branches[1] = "BEQ" /\ Branches[2] = "BNE" /\ Branches[5] = "BLT"
        /\ Branches[6] = "BGE" /\ Branches[7] = "BLTU" /\ Branches[8] = "BGEU"
    BY DEF Branches
  <1>12. ASSUME NEW op \in DOMAIN BranchForm
        PROVE  BranchForm[op] \in 0 .. 7 /\ Branches[BranchForm[op] + 1] = op
    BY <1>10, <1>11, Forms
  <1> QED BY <1>3, <1>6, <1>9, <1>12

-----------------------------------------------------------------------------
(***************************************************************************)
(* The decoder reads what the toolchain writes, format by format.          *)
(***************************************************************************)
LEMMA EncodeR ==
    \A i : i.op \in DOMAIN RegisterForm =>
        Encode(i) = UNION {Opcode(51), Funct3(RegisterForm[i.op][1]),
                           Funct7(RegisterForm[i.op][2]), Rd(i), Rs1(i), Rs2(i)}
  BY Forms DEF Encode

LEMMA EncodeImmediate ==
    \A i : i.op \in DOMAIN ImmediateForm =>
        Encode(i) = UNION {Opcode(19), Funct3(ImmediateForm[i.op]), Rd(i), Rs1(i),
                           ImmI(i)}
  BY Forms DEF Encode

LEMMA EncodeShift ==
    \A i : i.op \in DOMAIN ShiftForm =>
        Encode(i) = UNION {Opcode(19), Funct3(ShiftForm[i.op][1]),
                           Funct7(ShiftForm[i.op][2]), Rd(i), Rs1(i),
                           Put(i.imm, 4, 0, 20)}
  BY Forms DEF Encode

LEMMA EncodeLoad ==
    \A i : i.op \in DOMAIN LoadForm =>
        Encode(i) = UNION {Opcode(3), Funct3(LoadForm[i.op]), Rd(i), Rs1(i), ImmI(i)}
  BY Forms DEF Encode

LEMMA EncodeStore ==
    \A i : i.op \in DOMAIN StoreForm =>
        Encode(i) = UNION {Opcode(35), Funct3(StoreForm[i.op]), Rs1(i), Rs2(i), ImmS(i)}
  BY Forms DEF Encode

LEMMA EncodeBranch ==
    \A i : i.op \in DOMAIN BranchForm =>
        Encode(i) = UNION {Opcode(99), Funct3(BranchForm[i.op]), Rs1(i), Rs2(i), ImmB(i)}
  BY Forms DEF Encode

LEMMA EncodeOthers ==
    \A i :
        /\ i.op = "LUI" => Encode(i) = UNION {Opcode(55), Rd(i), ImmU(i)}
        /\ i.op = "AUIPC" => Encode(i) = UNION {Opcode(23), Rd(i), ImmU(i)}
        /\ i.op = "JAL" => Encode(i) = UNION {Opcode(111), Rd(i), ImmJ(i)}
        /\ i.op = "JALR" => Encode(i) = UNION {Opcode(103), Rd(i), Rs1(i), ImmI(i)}
        /\ i.op = "ECALL" => Encode(i) = Opcode(115)
        /\ i.op = "FENCE" => Encode(i) = Opcode(15) \cup ImmI(i)
  BY Forms DEF Encode

\* The branches of Machine::execute, one lemma for each opcode.
LEMMA DispatchRegister ==
    \A w : opcode(w) = 51 => Executor(w) = RegisterTarget(func3(w), func7(w))
  BY DEF Executor, ByFunc7, R_Type, I_Type, STORE, B_Type, LOAD, LUI, AUIPC, JAL, JALR,
         SYSTEM, MISC_MEM, RegisterTarget

LEMMA DispatchStore ==
    \A w : opcode(w) = 35 => Executor(w) = Stores[func3(w) + 1]
  BY DEF Executor, ByFunc7, R_Type, I_Type, STORE, B_Type, LOAD, LUI, AUIPC, JAL, JALR,
         SYSTEM, MISC_MEM

LEMMA DispatchBranch ==
    \A w : opcode(w) = 99 => Executor(w) = Branches[func3(w) + 1]
  BY DEF Executor, ByFunc7, R_Type, I_Type, STORE, B_Type, LOAD, LUI, AUIPC, JAL, JALR,
         SYSTEM, MISC_MEM

LEMMA DispatchLoad ==
    \A w : opcode(w) = 3 => Executor(w) = Loads[func3(w) + 1]
  BY DEF Executor, ByFunc7, R_Type, I_Type, STORE, B_Type, LOAD, LUI, AUIPC, JAL, JALR,
         SYSTEM, MISC_MEM

LEMMA DispatchLUI ==
    \A w : opcode(w) = 55 => Executor(w) = "LUI"
  BY DEF Executor, ByFunc7, R_Type, I_Type, STORE, B_Type, LOAD, LUI, AUIPC, JAL, JALR,
         SYSTEM, MISC_MEM

LEMMA DispatchAUIPC ==
    \A w : opcode(w) = 23 => Executor(w) = "AUIPC"
  BY DEF Executor, ByFunc7, R_Type, I_Type, STORE, B_Type, LOAD, LUI, AUIPC, JAL, JALR,
         SYSTEM, MISC_MEM

LEMMA DispatchJAL ==
    \A w : opcode(w) = 111 => Executor(w) = "JAL"
  BY DEF Executor, ByFunc7, R_Type, I_Type, STORE, B_Type, LOAD, LUI, AUIPC, JAL, JALR,
         SYSTEM, MISC_MEM

LEMMA DispatchJALR ==
    \A w : opcode(w) = 103 => Executor(w) = "JALR"
  BY DEF Executor, ByFunc7, R_Type, I_Type, STORE, B_Type, LOAD, LUI, AUIPC, JAL, JALR,
         SYSTEM, MISC_MEM

LEMMA DispatchSYSTEM ==
    \A w : opcode(w) = 115 =>
        Executor(w) = IF func3(w) + 1 = 1 /\ immI(w) = {} THEN "ECALL" ELSE ""
  BY DEF Executor, ByFunc7, R_Type, I_Type, STORE, B_Type, LOAD, LUI, AUIPC, JAL, JALR,
         SYSTEM, MISC_MEM

LEMMA DispatchFENCE ==
    \A w : opcode(w) = 15 => Executor(w) = IF func3(w) + 1 \in {1, 2} THEN "FENCE" ELSE ""
  BY DEF Executor, ByFunc7, R_Type, I_Type, STORE, B_Type, LOAD, LUI, AUIPC, JAL, JALR,
         SYSTEM, MISC_MEM

LEMMA DispatchImmediate ==
    ASSUME NEW w, opcode(w) = 19
    PROVE  Executor(w) = CASE func3(w) + 1 = 2 -> ByFunc7(w, "SLLI", "")
                           [] func3(w) + 1 = 6 -> ByFunc7(w, "SRLI", "SRAI")
                           [] OTHER -> Immediate[func3(w) + 1]
  BY DEF Executor, R_Type, I_Type, STORE, B_Type, LOAD, LUI, AUIPC, JAL, JALR, SYSTEM,
         MISC_MEM

LEMMA ZeroBits ==
    \A n \in 0 .. 33 : Bits(0, n) = {}
  <1> SUFFICES ASSUME NEW n \in 0 .. 33 PROVE Bits(0, n) = {}
    OBVIOUS
  <1>1. ASSUME NEW k \in 0 .. n - 1 PROVE (0 \div 2^k) % 2 # 1
    <2>1. k \in 0 .. 32
      OBVIOUS
    <2>2. 2^k \in Nat \ {0}
      BY <2>1, Powers, Zenon
    <2>3. \A d \in Nat \ {0} : 0 \div d = 0
      OBVIOUS
    <2>4. 0 \div 2^k = 0
      BY <2>2, <2>3, Zenon
    <2>5. 0 % 2 = 0 /\ 0 # 1
      OBVIOUS
    <2> QED BY <2>4, <2>5, Zenon
  <1> QED BY <1>1 DEF Bits

\* What the decoder cuts out of w is what i says.
Decoded(w, i) ==
    /\ w \subseteq 0 .. 31
    /\ Executor(w) = i.op
    /\ i.op \notin UNION {DOMAIN StoreForm, DOMAIN BranchForm, {"ECALL", "FENCE"}}
          => rd(w) = i.rd
    /\ i.op \notin {"LUI", "AUIPC", "JAL", "ECALL", "FENCE"} => rs1(w) = i.rs1
    /\ i.op \in UNION {DOMAIN RegisterForm, DOMAIN StoreForm, DOMAIN BranchForm}
          => rs2(w) = i.rs2
    /\ i.op \in DOMAIN ShiftForm => shamtI(w) = i.imm % 2^ShamtBits
    /\ i.op \in UNION {DOMAIN ImmediateForm, DOMAIN LoadForm, {"JALR"}}
          => immI(w) = Bits(i.imm, 32)
    /\ i.op \in DOMAIN StoreForm => immS(w) = Bits(i.imm, 32)
    /\ i.op \in DOMAIN BranchForm => immB(w) = Bits(i.imm, 32)
    /\ i.op = "JAL" => immJ(w) = Bits(i.imm, 32)
    /\ i.op \in {"LUI", "AUIPC"} => immU(w) = Bits(Upper(i.imm), 32)

LEMMA InstructionFields ==
    \A i \in Instruction :
        /\ i.op \in Mnemonic /\ Fits(i)
        /\ i.rd \in 0 .. 31 /\ i.rs1 \in 0 .. 31 /\ i.rs2 \in 0 .. 31 /\ i.imm \in Int
        /\ i.rd \in Reg /\ i.rs1 \in Reg /\ i.rs2 \in Reg
  BY MachineOK DEF Instruction

LEMMA PutZero ==
    \A hi \in 0 .. 32, lo, at \in Nat : lo <= hi => Put(0, hi, lo, at) = {}
  <1> SUFFICES ASSUME NEW hi \in 0 .. 32, NEW lo \in Nat, NEW at \in Nat, lo <= hi
               PROVE  Put(0, hi, lo, at) = {}
    OBVIOUS
  <1>1. hi + 1 \in 0 .. 33
    OBVIOUS
  <1>2. Bits(0, hi + 1) = {}
    BY <1>1, ZeroBits
  <1> QED BY <1>2 DEF Put

LEMMA DecodedRegister ==
    ASSUME NEW i \in Instruction, i.op \in DOMAIN RegisterForm
    PROVE  Decoded(Encode(i), i)
  <1> DEFINE w == Encode(i)
             f3 == RegisterForm[i.op][1]
             f7 == RegisterForm[i.op][2]
  <1>1. RegisterEntry(i.op, f3, f7)
    BY RegisterTable
  <1>2. f3 \in 0 .. 7 /\ f7 \in 0 .. 127
    BY <1>1 DEF RegisterEntry
  <1>3. i.rd \in 0 .. 31 /\ i.rs1 \in 0 .. 31 /\ i.rs2 \in 0 .. 31
    BY InstructionFields
  <1>4. IsR(w, 51, f3, f7, i.rd, i.rs1, i.rs2)
    <2>1. w = UNION {Put(51, 6, 0, 0), Put(f3, 2, 0, 12), Put(f7, 6, 0, 25),
                     Put(i.rd, 4, 0, 7), Put(i.rs1, 4, 0, 15), Put(i.rs2, 4, 0, 20)}
      BY EncodeR DEF Opcode, Funct3, Funct7, Rd, Rs1, Rs2
    <2> HIDE DEF w, f3, f7
    <2> QED BY <1>2, <1>3, <2>1 DEF IsR
  <1> HIDE DEF w, f3, f7
  <1>5. /\ w \subseteq 0 .. 31
        /\ opcode(w) = 51 /\ func3(w) = f3 /\ func7(w) = f7
        /\ rd(w) = i.rd /\ rs1(w) = i.rs1 /\ rs2(w) = i.rs2
        /\ Holds(w, 20, 24, i.rs2)
    BY <1>4, FormatR, Zenon
  <1>6. Executor(w) = i.op
    <2>1. Executor(w) = RegisterTarget(func3(w), func7(w))
      BY <1>5, DispatchRegister, Zenon
    <2> QED BY <1>1, <1>5, <2>1, Zenon DEF RegisterEntry
  <1> QED BY <1>5, <1>6, Forms DEF Decoded, w

LEMMA DecodedImmediate ==
    ASSUME NEW i \in Instruction, i.op \in DOMAIN ImmediateForm
    PROVE  Decoded(Encode(i), i)
  <1> DEFINE w == Encode(i)
             f3 == ImmediateForm[i.op]
  <1>1. f3 \in {0, 2, 3, 4, 6, 7} /\ Immediate[f3 + 1] = i.op
    BY SmallTables
  <1>2. i.rd \in 0 .. 31 /\ i.rs1 \in 0 .. 31
    BY InstructionFields
  <1>3. i.imm \in SignedRange(12)
    BY InstructionFields DEF Fits
  <1>4. IsI(w, 19, f3, i.rd, i.rs1, i.imm)
    <2>1. w = UNION {Put(19, 6, 0, 0), Put(f3, 2, 0, 12), Put(i.rd, 4, 0, 7),
                     Put(i.rs1, 4, 0, 15), Put(i.imm, 11, 0, 20)}
      BY EncodeImmediate DEF Opcode, Funct3, Rd, Rs1, ImmI
    <2>2. f3 \in 0 .. 7
      BY <1>1
    <2> HIDE DEF w, f3
    <2> QED BY <1>2, <1>3, <2>1, <2>2 DEF IsI
  <1> HIDE DEF w, f3
  <1>5. /\ w \subseteq 0 .. 31
        /\ opcode(w) = 19 /\ func3(w) = f3 /\ rd(w) = i.rd /\ rs1(w) = i.rs1
        /\ immI(w) = Bits(i.imm, 32)
    BY <1>4, FormatI, Zenon
  <1>6. Executor(w) = i.op
    <2>1. Executor(w) = Immediate[func3(w) + 1]
      <3>1. func3(w) + 1 # 2 /\ func3(w) + 1 # 6
        BY <1>1, <1>5
      <3> QED BY <1>5, <3>1, DispatchImmediate
    <2> QED BY <1>1, <1>5, <2>1, Zenon
  <1> QED BY <1>5, <1>6, Forms DEF Decoded, w

LEMMA DecodedLoad ==
    ASSUME NEW i \in Instruction, i.op \in DOMAIN LoadForm
    PROVE  Decoded(Encode(i), i)
  <1> DEFINE w == Encode(i)
             f3 == LoadForm[i.op]
  <1>1. f3 \in 0 .. 7 /\ Loads[f3 + 1] = i.op
    BY SmallTables
  <1>2. i.rd \in 0 .. 31 /\ i.rs1 \in 0 .. 31
    BY InstructionFields
  <1>3. i.imm \in SignedRange(12)
    BY InstructionFields DEF Fits
  <1>4. IsI(w, 3, f3, i.rd, i.rs1, i.imm)
    <2>1. w = UNION {Put(3, 6, 0, 0), Put(f3, 2, 0, 12), Put(i.rd, 4, 0, 7),
                     Put(i.rs1, 4, 0, 15), Put(i.imm, 11, 0, 20)}
      BY EncodeLoad DEF Opcode, Funct3, Rd, Rs1, ImmI
    <2>2. f3 \in 0 .. 7
      BY <1>1
    <2> HIDE DEF w, f3
    <2> QED BY <1>2, <1>3, <2>1, <2>2 DEF IsI
  <1> HIDE DEF w, f3
  <1>5. /\ w \subseteq 0 .. 31
        /\ opcode(w) = 3 /\ func3(w) = f3 /\ rd(w) = i.rd /\ rs1(w) = i.rs1
        /\ immI(w) = Bits(i.imm, 32)
    BY <1>4, FormatI, Zenon
  <1>6. Executor(w) = i.op
    <2>1. Executor(w) = Loads[func3(w) + 1]
      BY <1>5, DispatchLoad, Zenon
    <2> QED BY <1>1, <1>5, <2>1, Zenon
  <1> QED BY <1>5, <1>6, Forms DEF Decoded, w

LEMMA DecodedStore ==
    ASSUME NEW i \in Instruction, i.op \in DOMAIN StoreForm
    PROVE  Decoded(Encode(i), i)
  <1> DEFINE w == Encode(i)
             f3 == StoreForm[i.op]
  <1>1. f3 \in 0 .. 7 /\ Stores[f3 + 1] = i.op
    BY SmallTables
  <1>2. i.rs1 \in 0 .. 31 /\ i.rs2 \in 0 .. 31
    BY InstructionFields
  <1>3. i.imm \in SignedRange(12)
    BY InstructionFields DEF Fits
  <1>4. IsS(w, 35, f3, i.rs1, i.rs2, i.imm)
    <2>1. w = UNION {Put(35, 6, 0, 0), Put(f3, 2, 0, 12), Put(i.rs1, 4, 0, 15),
                     Put(i.rs2, 4, 0, 20), Put(i.imm, 11, 5, 25), Put(i.imm, 4, 0, 7)}
      BY EncodeStore DEF Opcode, Funct3, Rs1, Rs2, ImmS
    <2>2. f3 \in 0 .. 7
      BY <1>1
    <2> HIDE DEF w, f3
    <2> QED BY <1>2, <1>3, <2>1, <2>2 DEF IsS
  <1> HIDE DEF w, f3
  <1>5. /\ w \subseteq 0 .. 31
        /\ opcode(w) = 35 /\ func3(w) = f3 /\ rs1(w) = i.rs1 /\ rs2(w) = i.rs2
        /\ immS(w) = Bits(i.imm, 32)
    BY <1>4, FormatS, Zenon
  <1>6. Executor(w) = i.op
    <2>1. Executor(w) = Stores[func3(w) + 1]
      BY <1>5, DispatchStore, Zenon
    <2> QED BY <1>1, <1>5, <2>1, Zenon
  <1> QED BY <1>5, <1>6, Forms DEF Decoded, w

LEMMA DecodedBranch ==
    ASSUME NEW i \in Instruction, i.op \in DOMAIN BranchForm
    PROVE  Decoded(Encode(i), i)
  <1> DEFINE w == Encode(i)
             f3 == BranchForm[i.op]
  <1>1. f3 \in 0 .. 7 /\ Branches[f3 + 1] = i.op
    BY SmallTables
  <1>2. i.rs1 \in 0 .. 31 /\ i.rs2 \in 0 .. 31
    BY InstructionFields
  <1>3. i.imm \in SignedRange(13) /\ i.imm % 2 = 0
    BY InstructionFields DEF Fits
  <1>4. IsB(w, 99, f3, i.rs1, i.rs2, i.imm)
    <2>1. w = UNION {Put(99, 6, 0, 0), Put(f3, 2, 0, 12), Put(i.rs1, 4, 0, 15),
                     Put(i.rs2, 4, 0, 20), Put(i.imm, 12, 12, 31),
                     Put(i.imm, 10, 5, 25), Put(i.imm, 4, 1, 8), Put(i.imm, 11, 11, 7)}
      BY EncodeBranch DEF Opcode, Funct3, Rs1, Rs2, ImmB
    <2>2. f3 \in 0 .. 7
      BY <1>1
    <2> HIDE DEF w, f3
    <2> QED BY <1>2, <1>3, <2>1, <2>2 DEF IsB
  <1> HIDE DEF w, f3
  <1>5. /\ w \subseteq 0 .. 31
        /\ opcode(w) = 99 /\ func3(w) = f3 /\ rs1(w) = i.rs1 /\ rs2(w) = i.rs2
        /\ immB(w) = Bits(i.imm, 32)
    BY <1>4, FormatB, Zenon
  <1>6. Executor(w) = i.op
    <2>1. Executor(w) = Branches[func3(w) + 1]
      BY <1>5, DispatchBranch, Zenon
    <2> QED BY <1>1, <1>5, <2>1, Zenon
  <1> QED BY <1>5, <1>6, Forms DEF Decoded, w

LEMMA DecodedShift ==
    ASSUME NEW i \in Instruction, i.op \in DOMAIN ShiftForm
    PROVE  Decoded(Encode(i), i)
  <1> DEFINE w == Encode(i)
             f3 == ShiftForm[i.op][1]
             f7 == ShiftForm[i.op][2]
  <1>1. ShiftEntry(i.op, f3, f7)
    BY ShiftTable
  <1>2. i.rd \in 0 .. 31 /\ i.rs1 \in 0 .. 31 /\ i.imm \in 0 .. 31
    BY InstructionFields DEF Fits
  <1>3. f3 \in 0 .. 7 /\ f7 \in 0 .. 127
    BY <1>1 DEF ShiftEntry
  <1>4. IsR(w, 19, f3, f7, i.rd, i.rs1, i.imm)
    <2>1. w = UNION {Put(19, 6, 0, 0), Put(f3, 2, 0, 12), Put(f7, 6, 0, 25),
                     Put(i.rd, 4, 0, 7), Put(i.rs1, 4, 0, 15), Put(i.imm, 4, 0, 20)}
      BY EncodeShift DEF Opcode, Funct3, Funct7, Rd, Rs1
    <2> HIDE DEF w, f3, f7
    <2> QED BY <1>2, <1>3, <2>1 DEF IsR
  <1> HIDE DEF w, f3, f7
  <1>5. /\ w \subseteq 0 .. 31
        /\ opcode(w) = 19 /\ func3(w) = f3 /\ func7(w) = f7
        /\ rd(w) = i.rd /\ rs1(w) = i.rs1 /\ rs2(w) = i.imm
        /\ Holds(w, 20, 24, i.imm)
    BY <1>4, FormatR, Zenon
  <1>6. Executor(w) = i.op
    <2>1. Executor(w) = CASE func3(w) + 1 = 2 -> ByFunc7(w, "SLLI", "")
                           [] func3(w) + 1 = 6 -> ByFunc7(w, "SRLI", "SRAI")
                           [] OTHER -> Immediate[func3(w) + 1]
      BY <1>5, DispatchImmediate
    <2>2. CASE f3 = 1
      <3>1. func3(w) + 1 = 2 /\ func7(w) = 0 /\ i.op = "SLLI"
        BY <1>1, <1>5, <2>2 DEF ShiftEntry
      <3> QED BY <2>1, <3>1 DEF ByFunc7
    <2>3. CASE f3 = 5 /\ f7 = 0
      <3>1. func3(w) + 1 = 6 /\ func7(w) = 0 /\ i.op = "SRLI"
        BY <1>1, <1>5, <2>3 DEF ShiftEntry
      <3> QED BY <2>1, <3>1 DEF ByFunc7
    <2>4. CASE f3 = 5 /\ f7 = 32
      <3>1. func3(w) + 1 = 6 /\ func7(w) = 32 /\ i.op = "SRAI"
        BY <1>1, <1>5, <2>4 DEF ShiftEntry
      <3> QED BY <2>1, <3>1 DEF ByFunc7
    <2> QED BY <1>1, <2>2, <2>3, <2>4 DEF ShiftEntry
  <1>7. shamtI(w) = i.imm % 2^ShamtBits
    <2> DEFINE n == ShamtBits - 1
    <2>1. n \in Nat /\ 20 + n <= 31 /\ 20 + n = 19 + ShamtBits /\ n + 1 = ShamtBits
          /\ n \in 0 .. 4
      BY MachineOK
    <2> HIDE DEF n
    <2>2. Holds(w, 20, 20 + n, i.imm)
      <3>1. Holds(w, 20, 24, i.imm)
        BY <1>5
      <3> QED BY <2>1, <3>1 DEF Holds
    <2>3. 20 \in Nat /\ i.imm \in Int
      BY <1>2
    <2>4. Number(extractBits(w, 20, 20 + n)) = i.imm % 2^(n + 1)
      BY <2>1, <2>2, <2>3, Field, Zenon
    <2> QED BY <2>1, <2>4, Zenon DEF shamtI
  <1> QED BY <1>5, <1>6, <1>7, Forms DEF Decoded, w

LEMMA DecodedLUI ==
    ASSUME NEW i \in Instruction, i.op = "LUI"
    PROVE  Decoded(Encode(i), i)
  <1> DEFINE w == Encode(i)
  <1>1. i.rd \in 0 .. 31 /\ i.imm \in SignedRange(20)
    BY InstructionFields DEF Fits
  <1>2. IsU(w, 55, i.rd, i.imm)
    <2>1. w = UNION {Put(55, 6, 0, 0), Put(i.rd, 4, 0, 7), Put(i.imm, 19, 0, 12)}
      BY EncodeOthers DEF Opcode, Rd, ImmU
    <2> HIDE DEF w
    <2> QED BY <1>1, <2>1 DEF IsU
  <1> HIDE DEF w
  <1>3. /\ w \subseteq 0 .. 31
        /\ opcode(w) = 55 /\ rd(w) = i.rd /\ immU(w) = Bits(Upper(i.imm), 32)
    BY <1>2, FormatU, Zenon
  <1>4. Executor(w) = "LUI"
    BY <1>3, DispatchLUI, Zenon
  <1> QED BY <1>3, <1>4, Forms DEF Decoded, w

LEMMA DecodedAUIPC ==
    ASSUME NEW i \in Instruction, i.op = "AUIPC"
    PROVE  Decoded(Encode(i), i)
  <1> DEFINE w == Encode(i)
  <1>1. i.rd \in 0 .. 31 /\ i.imm \in SignedRange(20)
    BY InstructionFields DEF Fits
  <1>2. IsU(w, 23, i.rd, i.imm)
    <2>1. w = UNION {Put(23, 6, 0, 0), Put(i.rd, 4, 0, 7), Put(i.imm, 19, 0, 12)}
      BY EncodeOthers DEF Opcode, Rd, ImmU
    <2> HIDE DEF w
    <2> QED BY <1>1, <2>1 DEF IsU
  <1> HIDE DEF w
  <1>3. /\ w \subseteq 0 .. 31
        /\ opcode(w) = 23 /\ rd(w) = i.rd /\ immU(w) = Bits(Upper(i.imm), 32)
    BY <1>2, FormatU, Zenon
  <1>4. Executor(w) = "AUIPC"
    BY <1>3, DispatchAUIPC, Zenon
  <1> QED BY <1>3, <1>4, Forms DEF Decoded, w

LEMMA DecodedJAL ==
    ASSUME NEW i \in Instruction, i.op = "JAL"
    PROVE  Decoded(Encode(i), i)
  <1> DEFINE w == Encode(i)
  <1>1. i.rd \in 0 .. 31 /\ i.imm \in SignedRange(21) /\ i.imm % 2 = 0
    BY InstructionFields DEF Fits
  <1>2. IsJ(w, 111, i.rd, i.imm)
    <2>1. w = UNION {Put(111, 6, 0, 0), Put(i.rd, 4, 0, 7), Put(i.imm, 20, 20, 31),
                     Put(i.imm, 10, 1, 21), Put(i.imm, 11, 11, 20),
                     Put(i.imm, 19, 12, 12)}
      BY EncodeOthers DEF Opcode, Rd, ImmJ
    <2> HIDE DEF w
    <2> QED BY <1>1, <2>1 DEF IsJ
  <1> HIDE DEF w
  <1>3. /\ w \subseteq 0 .. 31
        /\ opcode(w) = 111 /\ rd(w) = i.rd /\ immJ(w) = Bits(i.imm, 32)
    BY <1>2, FormatJ, Zenon
  <1>4. Executor(w) = "JAL"
    BY <1>3, DispatchJAL, Zenon
  <1> QED BY <1>3, <1>4, Forms DEF Decoded, w

LEMMA DecodedJALR ==
    ASSUME NEW i \in Instruction, i.op = "JALR"
    PROVE  Decoded(Encode(i), i)
  <1> DEFINE w == Encode(i)
  <1>1. i.rd \in 0 .. 31 /\ i.rs1 \in 0 .. 31 /\ i.imm \in SignedRange(12)
    BY InstructionFields DEF Fits
  <1>2. IsI(w, 103, 0, i.rd, i.rs1, i.imm)
    <2>1. w = UNION {Put(103, 6, 0, 0), Put(i.rd, 4, 0, 7), Put(i.rs1, 4, 0, 15),
                     Put(i.imm, 11, 0, 20)}
      BY EncodeOthers DEF Opcode, Rd, Rs1, ImmI
    <2>2. Put(0, 2, 0, 12) = {} /\ Put(0, 4, 0, 7) = {} /\ Put(0, 4, 0, 15) = {}
          /\ Put(0, 11, 0, 20) = {}
      BY PutZero
    <2>3. 0 \in SignedRange(12)
      <3>1. 2^(12 - 1) = 2048
        OBVIOUS
      <3> QED BY <3>1 DEF SignedRange
    <2> HIDE DEF w
    <2> QED BY <1>1, <2>1, <2>2, <2>3 DEF IsI
  <1> HIDE DEF w
  <1>3. /\ w \subseteq 0 .. 31
        /\ opcode(w) = 103 /\ func3(w) = 0 /\ rd(w) = i.rd /\ rs1(w) = i.rs1
        /\ immI(w) = Bits(i.imm, 32)
    BY <1>2, FormatI, Zenon
  <1>4. Executor(w) = "JALR"
    BY <1>3, DispatchJALR, Zenon
  <1> QED BY <1>3, <1>4, Forms DEF Decoded, w

LEMMA DecodedECALL ==
    ASSUME NEW i \in Instruction, i.op = "ECALL"
    PROVE  Decoded(Encode(i), i)
  <1> DEFINE w == Encode(i)
  <1>1. i.rd \in 0 .. 31
    BY InstructionFields DEF Fits
  <1>2. IsI(w, 115, 0, 0, 0, 0)
    <2>1. w = Put(115, 6, 0, 0)
      BY EncodeOthers DEF Opcode
    <2>2. Put(0, 2, 0, 12) = {} /\ Put(0, 4, 0, 7) = {} /\ Put(0, 4, 0, 15) = {}
          /\ Put(0, 11, 0, 20) = {}
      BY PutZero
    <2>3. 0 \in SignedRange(12)
      <3>1. 2^(12 - 1) = 2048
        OBVIOUS
      <3> QED BY <3>1 DEF SignedRange
    <2> HIDE DEF w
    <2> QED BY <1>1, <2>1, <2>2, <2>3 DEF IsI
  <1> HIDE DEF w
  <1>3. /\ w \subseteq 0 .. 31
        /\ opcode(w) = 115 /\ func3(w) = 0 /\ rd(w) = 0 /\ rs1(w) = 0
        /\ immI(w) = Bits(0, 32)
    BY <1>2, FormatI, Zenon
  <1>4. Executor(w) = "ECALL"
    <2>1. Executor(w) = IF func3(w) + 1 = 1 /\ immI(w) = {} THEN "ECALL" ELSE ""
      BY <1>3, DispatchSYSTEM, Zenon
    <2>2. Bits(0, 32) = {}
      BY ZeroBits
    <2> QED BY <1>3, <2>1, <2>2
  <1> QED BY <1>3, <1>4, Forms DEF Decoded, w

LEMMA DecodedFENCE ==
    ASSUME NEW i \in Instruction, i.op = "FENCE"
    PROVE  Decoded(Encode(i), i)
  <1> DEFINE w == Encode(i)
  <1>1. i.imm \in SignedRange(12)
    BY InstructionFields DEF Fits
  <1>2. IsI(w, 15, 0, 0, 0, i.imm)
    <2>1. w = Put(15, 6, 0, 0) \cup Put(i.imm, 11, 0, 20)
      BY EncodeOthers DEF Opcode, ImmI
    <2>2. Put(0, 2, 0, 12) = {} /\ Put(0, 4, 0, 7) = {} /\ Put(0, 4, 0, 15) = {}
          /\ Put(0, 11, 0, 20) = {}
      BY PutZero
    <2>3. 0 \in SignedRange(12)
      <3>1. 2^(12 - 1) = 2048
        OBVIOUS
      <3> QED BY <3>1 DEF SignedRange
    <2> HIDE DEF w
    <2> QED BY <1>1, <2>1, <2>2, <2>3 DEF IsI
  <1> HIDE DEF w
  <1>3. /\ w \subseteq 0 .. 31
        /\ opcode(w) = 15 /\ func3(w) = 0 /\ rd(w) = 0 /\ rs1(w) = 0
        /\ immI(w) = Bits(i.imm, 32)
    BY <1>2, FormatI, Zenon
  <1>4. Executor(w) = "FENCE"
    <2>1. Executor(w) = IF func3(w) + 1 \in {1, 2} THEN "FENCE" ELSE ""
      BY <1>3, DispatchFENCE, Zenon
    <2> QED BY <1>3, <2>1
  <1> QED BY <1>3, <1>4, Forms DEF Decoded, w

\* Machine::execute dispatches the word of an instruction to the executor of that
\* name, and the fields Decoder.hpp cuts out of it are the instruction's.
THEOREM EncodedIsDecoded ==
    \A i \in Instruction : i.op # "word" => Decoded(Encode(i), i)
  <1> SUFFICES ASSUME NEW i \in Instruction, i.op # "word"
               PROVE  Decoded(Encode(i), i)
    OBVIOUS
  <1>1. \/ i.op \in DOMAIN RegisterForm \/ i.op \in DOMAIN ImmediateForm
        \/ i.op \in DOMAIN ShiftForm \/ i.op \in DOMAIN LoadForm
        \/ i.op \in DOMAIN StoreForm \/ i.op \in DOMAIN BranchForm
        \/ i.op \in {"LUI", "AUIPC", "JAL", "JALR", "ECALL", "FENCE"}
    BY InstructionFields DEF Mnemonic
  <1> QED BY <1>1, DecodedRegister, DecodedImmediate, DecodedShift, DecodedLoad,
             DecodedStore, DecodedBranch, DecodedLUI, DecodedAUIPC, DecodedJAL,
             DecodedJALR, DecodedECALL, DecodedFENCE

LEMMA Int32Of ==
    \A n \in 1 .. 32 : \A v \in SignedRange(n) : Int32(Bits(v, 32)) = v
  <1> SUFFICES ASSUME NEW n \in 1 .. 32, NEW v \in SignedRange(n)
               PROVE  Int32(Bits(v, 32)) = v
    OBVIOUS
  <1>1. 32 \in 1 .. 32 /\ n <= 32
    OBVIOUS
  <1>2. SignedRange(n) \subseteq SignedRange(32)
    BY <1>1, SignedRangesGrow, Zenon
  <1> QED BY <1>2, Int32OfBits, Zenon

LEMMA UpperRange ==
    \A v \in SignedRange(20) : Upper(v) \in SignedRange(32)
  <1> SUFFICES ASSUME NEW v \in SignedRange(20) PROVE Upper(v) \in SignedRange(32)
    OBVIOUS
  <1> DEFINE c == 2^(20 - 1)
             d == 2^(32 - 1)
  <1>1. c \in Nat \ {0} /\ d = c * 4096
    <2>1. 20 - 1 = 19 /\ 32 - 1 = 31 /\ 2^19 \in Nat \ {0} /\ 2^31 = 2^19 * 4096
      OBVIOUS
    <2> QED BY <2>1
  <1>2. v \in -c .. c - 1
    BY DEF SignedRange
  <1> HIDE DEF c, d
  <1>3. v * 4096 \in -d .. d - 1
    BY <1>1, <1>2
  <1> QED BY <1>3 DEF Upper, SignedRange, c, d

LEMMA DecodedIsRead ==
    ASSUME NEW i \in Instruction, NEW w, Decoded(w, i)
    PROVE  Reads(w, i)
  <1>1. 12 \in 1 .. 32 /\ 13 \in 1 .. 32 /\ 21 \in 1 .. 32 /\ 32 \in 1 .. 32
    OBVIOUS
  <1>2. ASSUME i.op \in UNION {DOMAIN ImmediateForm, DOMAIN LoadForm, {"JALR"}}
        PROVE  Int32(immI(w)) = i.imm
    <2>1. i.imm \in SignedRange(12) /\ immI(w) = Bits(i.imm, 32)
      BY <1>2, InstructionFields DEF Fits, Decoded
    <2> QED BY <1>1, <2>1, Int32Of, Zenon
  <1>3. ASSUME i.op \in DOMAIN StoreForm PROVE Int32(immS(w)) = i.imm
    <2>1. i.imm \in SignedRange(12) /\ immS(w) = Bits(i.imm, 32)
      BY <1>3, InstructionFields DEF Fits, Decoded
    <2> QED BY <1>1, <2>1, Int32Of, Zenon
  <1>4. ASSUME i.op \in DOMAIN BranchForm PROVE Int32(immB(w)) = i.imm
    <2>1. i.imm \in SignedRange(13) /\ immB(w) = Bits(i.imm, 32)
      BY <1>4, InstructionFields DEF Fits, Decoded
    <2> QED BY <1>1, <2>1, Int32Of, Zenon
  <1>5. ASSUME i.op = "JAL" PROVE Int32(immJ(w)) = i.imm
    <2>1. i.imm \in SignedRange(21) /\ immJ(w) = Bits(i.imm, 32)
      BY <1>5, InstructionFields DEF Fits, Decoded
    <2> QED BY <1>1, <2>1, Int32Of, Zenon
  <1>6. ASSUME i.op \in {"LUI", "AUIPC"} PROVE Int32(immU(w)) = i.imm * 4096
    <2>1. i.imm \in SignedRange(20) /\ immU(w) = Bits(Upper(i.imm), 32)
      BY <1>6, InstructionFields DEF Fits, Decoded
    <2>2. Int32(immU(w)) = Upper(i.imm)
      BY <1>1, <2>1, UpperRange, Int32Of, Zenon
    <2> QED BY <2>2 DEF Upper
  <1> QED BY <1>2, <1>3, <1>4, <1>5, <1>6 DEF Decoded, Reads

-----------------------------------------------------------------------------
(***************************************************************************)
(* The program is the one the thread started with.                         *)
(***************************************************************************)
\* A call is served before the program goes on.
StreamOK ==
    /\ stream \in Seq(Instruction)
    /\ trap.type = "Syscall" => stream # <<>>

LEMMA ExecuteStream ==
    ASSUME Execute
    PROVE  /\ stream # <<>> /\ trap.type # "Syscall"
           /\ \/ stream' = stream
              \/ stream' = Tail(stream) /\ trap' = trap
  <1>1. PICK w \in Fetched : \E name \in {Executor(w)} :
          \/ ExecRegister(w, name)
          \/ ExecMExtension(w, name)
          \/ ExecImmediate(w, name)
          \/ ExecLUI(w, name)
          \/ ExecAUIPC(w, name)
          \/ ExecJAL(w, name)
          \/ ExecJALR(w, name)
          \/ ExecBranch(w, name)
          \/ ExecLoad(w, name)
          \/ ExecStore(w, name)
          \/ ExecFENCE(w, name)
          \/ ExecECALL(w, name)
          \/ Illegal(w, name)
    BY DEF Execute
  <1>2. stream # <<>> /\ trap.type # "Syscall"
    BY <1>1 DEF Fetched, NoTrap
  <1>3. stream' = stream \/ (stream' = Tail(stream) /\ trap' = trap)
    BY <1>1 DEF ExecRegister, ExecMExtension, ExecImmediate, ExecLUI, ExecAUIPC, ExecJAL,
       ExecJALR, ExecBranch, ExecLoad, ExecStore, ExecFENCE, ExecECALL, Illegal, Advance,
       RaiseTrap, cpuVars
  <1> QED BY <1>2, <1>3

LEMMA StreamStep ==
    ASSUME StreamOK, [Next]_vars
    PROVE  StreamOK'
  <1>1. CASE Execute
    BY <1>1, ExecuteStream DEF StreamOK
  <1>2. CASE FetchFault
    BY <1>2 DEF FetchFault, RaiseTrap, cpuVars, StreamOK
  <1>3. CASE HandlePageFault
    BY <1>3 DEF HandlePageFault, NoTrap, cpuVars, StreamOK
  <1>4. CASE KillProcess
    BY <1>4 DEF KillProcess, NoTrap, cpuVars, StreamOK
  <1>5. CASE HandleSyscall
    BY <1>5 DEF HandleSyscall, NoTrap, cpuVars, StreamOK
  <1>6. CASE UnknownSyscall
    BY <1>6 DEF UnknownSyscall, NoTrap, cpuVars, StreamOK
  <1>7. CASE UNCHANGED vars
    BY <1>7 DEF vars, cpuVars, StreamOK
  <1> QED BY <1>1, <1>2, <1>3, <1>4, <1>5, <1>6, <1>7 DEF Next, Iteration, Halted

LEMMA StreamInvariant == Spec => []StreamOK
  <1>1. Init => StreamOK
    BY StartsOK DEF Init, NoTrap, StreamOK
  <1> QED BY <1>1, StreamStep, PTL DEF Spec

\* Whatever instruction is fetched goes to its executor, with the registers and
\* the immediate the toolchain encoded: Decoder.hpp undoes the encoding of all
\* six formats.
THEOREM DecodingCorrect == Spec => []DecodesAsWritten
  <1>1. StreamOK => DecodesAsWritten
    <2> SUFFICES ASSUME StreamOK, stream # <<>>, Head(stream).op # "word"
                 PROVE  Reads(word, Head(stream))
      BY DEF DecodesAsWritten
    <2>1. Head(stream) \in Instruction
      BY DEF StreamOK
    <2> QED BY <2>1, EncodedIsDecoded, DecodedIsRead DEF word
  <1> QED BY <1>1, StreamInvariant, PTL

-----------------------------------------------------------------------------
(***************************************************************************)
(* The arithmetic of the executors is that of the instruction set.         *)
(***************************************************************************)
\* ISA's words are those of Machine.
LEMMA SameWords ==
    /\ Reference!WordBits = WordBits /\ Reference!Word = Word
    /\ \A x : Reference!Wrap(x) = Wrap(x) /\ Reference!Signed(x) = Signed(x)
    /\ \A x, k : Reference!ByteOf(x, k) = ByteOf(x, k)
  BY DEF Reference!WordBits, WordBits, Reference!Word, Word, Reference!Wrap, Wrap,
     Reference!Signed, Signed, Reference!ByteOf, ByteOf

LEMMA SameSums ==
    /\ \A S : Reference!Number(S) = Number(S)
    /\ \A m, a, n : Reference!LittleEndian(m, a, n) = LittleEndian(m, a, n)
  BY DEF Number, LittleEndian, MapThenSumSet, MapThenFoldSet, Reference!Number,
     Reference!LittleEndian, Reference!MapThenSumSet, Reference!MapThenFoldSet

LEMMA SameBitwise ==
    \A x, y : /\ Reference!And(x, y) = And(x, y)
              /\ Reference!Or(x, y) = Or(x, y)
              /\ Reference!Xor(x, y) = Xor(x, y)
  <1>1. \A x, n : Reference!Bits(x, n) = Bits(x, n)
    BY DEF Bits, Reference!Bits
  <1> QED BY <1>1, SameWords, SameSums
          DEF And, Or, Xor, Reference!And, Reference!Or, Reference!Xor

\* Executor.cpp divides towards zero, by hand or by C++'s operators.
LEMMA QuotientIs ==
    ASSUME NEW a \in Int, NEW b \in Int \ {0}
    PROVE  /\ Reference!IsQuotient(a, b, Quotient(a, b))
           /\ Quotient(a, b) \in -Reference!Abs(a) .. Reference!Abs(a)
           /\ \A q \in Int : Reference!IsQuotient(a, b, q) => q = Quotient(a, b)
  <1> DEFINE A == Abs(a)
             B == Abs(b)
             p == A \div B
             r == A % B
  <1>1. A \in Nat /\ B \in Nat \ {0}
    BY DEF Abs
  <1>2. \A n \in Int : Reference!Abs(n) = Abs(n)
    BY DEF Abs, Reference!Abs, Reference!Sign
  <1>3. Quotient(a, b) = IF (a < 0) = (b < 0) THEN p ELSE -p
    BY DEF Quotient
  <1>4. \A q \in Int : Reference!IsQuotient(a, b, q) <=>
            Abs(a - b * q) < B /\ Reference!Sign(a - b * q) \in {0, Reference!Sign(a)}
    <2>1. \A q \in Int : a - b * q \in Int
      OBVIOUS
    <2> QED BY <1>2, <2>1 DEF Reference!IsQuotient
  <1>5. a = (IF a < 0 THEN -A ELSE A) /\ b = (IF b < 0 THEN -B ELSE B)
    BY DEF Abs
  <1> HIDE DEF A, B
  <1>6. r \in 0 .. B - 1 /\ A = (p * B) + r /\ p \in 0 .. A
    BY <1>1, QuotientRange
  <1>7. ASSUME NEW q \in Int, NEW s \in 0 .. B - 1, A = (q * B) + s
        PROVE  q = p
    BY <1>1, <1>7, DivisionUnique
  <1> HIDE DEF p, r
  <1>8. Quotient(a, b) \in -A .. A /\ Quotient(a, b) \in Int
    BY <1>1, <1>3, <1>6
  <1>9. a - b * Quotient(a, b) = IF a < 0 THEN -r ELSE r
    <2>1. CASE a < 0 /\ b < 0
      <3>1. (-B) * p = -(p * B) /\ p * B \in Int
        BY <1>1, <1>6
      <3>2. a = -A /\ b = -B /\ Quotient(a, b) = p
        BY <1>3, <1>5, <2>1
      <3> QED BY <1>1, <1>6, <2>1, <3>1, <3>2
    <2>2. CASE a < 0 /\ ~(b < 0)
      <3>1. B * (-p) = -(p * B) /\ p * B \in Int
        BY <1>1, <1>6
      <3>2. a = -A /\ b = B /\ Quotient(a, b) = -p
        BY <1>3, <1>5, <2>2
      <3> QED BY <1>1, <1>6, <2>2, <3>1, <3>2
    <2>3. CASE ~(a < 0) /\ b < 0
      <3>1. (-B) * (-p) = p * B /\ p * B \in Int
        BY <1>1, <1>6
      <3>2. a = A /\ b = -B /\ Quotient(a, b) = -p
        BY <1>3, <1>5, <2>3
      <3> QED BY <1>1, <1>6, <2>3, <3>1, <3>2
    <2>4. CASE ~(a < 0) /\ ~(b < 0)
      <3>1. B * p = p * B /\ p * B \in Int
        BY <1>1, <1>6
      <3>2. a = A /\ b = B /\ Quotient(a, b) = p
        BY <1>3, <1>5, <2>4
      <3> QED BY <1>1, <1>6, <2>4, <3>1, <3>2
    <2> QED BY <2>1, <2>2, <2>3, <2>4
  <1>10. Reference!IsQuotient(a, b, Quotient(a, b))
    <2> DEFINE t == a - b * Quotient(a, b)
    <2>1. t = IF a < 0 THEN -r ELSE r
      BY <1>9
    <2> HIDE DEF t
    <2>2. a = 0 => r = 0
      <3>1. 0 * B = 0 /\ (a = 0 => A = 0)
        BY <1>1, <1>5
      <3> QED BY <1>1, <1>6, <3>1
    <2>3. Abs(t) < B /\ Reference!Sign(t) \in {0, Reference!Sign(a)}
      BY <1>1, <1>6, <2>1, <2>2 DEF Abs, Reference!Sign
    <2> QED BY <1>4, <1>8, <2>3 DEF t
  <1>11. ASSUME NEW q \in Int, Reference!IsQuotient(a, b, q) PROVE q = Quotient(a, b)
    <2> DEFINE t == a - b * q
               s == IF a < 0 THEN -t ELSE t
    <2>1. t \in Int /\ Abs(t) < B /\ Reference!Sign(t) \in {0, Reference!Sign(a)}
      BY <1>4, <1>11
    <2>2. a = b * q + t /\ b * q \in Int
      OBVIOUS
    <2> HIDE DEF t
    <2>3. s \in 0 .. B - 1
      BY <1>1, <2>1 DEF Abs, Reference!Sign
    <2>4. A = (IF (a < 0) = (b < 0) THEN q ELSE -q) * B + s
      <3>1. CASE a < 0 /\ b < 0
        <4>1. (-B) * q = -(q * B) /\ q * B \in Int
          BY <1>1
        <4> QED BY <1>1, <1>5, <2>1, <2>2, <3>1, <4>1
      <3>2. CASE a < 0 /\ ~(b < 0)
        <4>1. B * q = -((-q) * B) /\ B * q \in Int
          BY <1>1
        <4> QED BY <1>1, <1>5, <2>1, <2>2, <3>2, <4>1
      <3>3. CASE ~(a < 0) /\ b < 0
        <4>1. (-B) * q = (-q) * B /\ (-q) * B \in Int
          BY <1>1
        <4> QED BY <1>1, <1>5, <2>1, <2>2, <3>3, <4>1
      <3>4. CASE ~(a < 0) /\ ~(b < 0)
        <4>1. B * q = q * B /\ q * B \in Int
          BY <1>1
        <4> QED BY <1>1, <1>5, <2>1, <2>2, <3>4, <4>1
      <3> QED BY <3>1, <3>2, <3>3, <3>4
    <2> HIDE DEF s
    <2>5. (IF (a < 0) = (b < 0) THEN q ELSE -q) = p
      BY <1>7, <2>3, <2>4
    <2> QED BY <1>3, <1>6, <2>5
  <1> QED BY <1>2, <1>8, <1>10, <1>11 DEF A

LEMMA QuotientsAgree ==
    /\ \A a \in Int, b \in Int \ {0} :
          Quotient(a, b) \in Int /\ Reference!Quotient(a, b) = Quotient(a, b)
    /\ \A x \in Nat, y \in Nat \ {0} :
          Quotient(x, y) = x \div y /\ x - y * (x \div y) = x % y
  <1>1. ASSUME NEW a \in Int, NEW b \in Int \ {0}
        PROVE  Quotient(a, b) \in Int /\ Reference!Quotient(a, b) = Quotient(a, b)
    <2> DEFINE P(q) == Reference!IsQuotient(a, b, q)
               D == -Reference!Abs(a) .. Reference!Abs(a)
    <2>1. P(Quotient(a, b)) /\ Quotient(a, b) \in D /\ \A q \in Int : P(q) => q = Quotient(a, b)
      BY QuotientIs
    <2>2. D \subseteq Int
      OBVIOUS
    <2>3. Reference!Quotient(a, b) = CHOOSE q \in D : P(q)
      BY DEF Reference!Quotient
    <2> HIDE DEF P, D
    <2>4. (CHOOSE q \in D : P(q)) \in D /\ P(CHOOSE q \in D : P(q))
      BY <2>1
    <2> QED BY <2>1, <2>2, <2>3, <2>4
  <1>2. ASSUME NEW x \in Nat, NEW y \in Nat \ {0}
        PROVE  Quotient(x, y) = x \div y /\ x - y * (x \div y) = x % y
    <2>1. Abs(x) = x /\ Abs(y) = y /\ ~(x < 0) /\ ~(y < 0)
      BY DEF Abs
    <2> DEFINE q == x \div y
               r == x % y
    <2>2. x = (q * y) + r /\ q \in Int /\ r \in Int
      OBVIOUS
    <2> HIDE DEF q, r
    <2>3. x - y * q = r
      BY <2>2
    <2> QED BY <2>1, <2>3 DEF Quotient, q, r
  <1> QED BY <1>1, <1>2

LEMMA ShiftAmounts ==
    \A v \in Int :
        /\ shamtR(v) \in 0 .. 31
        /\ shamtR(Wrap(v)) = shamtR(v)
        /\ shamtR(v % 2^ShamtBits) = shamtR(v)
        /\ v % 2^ShamtBits \in Word
  <1> SUFFICES ASSUME NEW v \in Int
               PROVE  /\ shamtR(v) \in 0 .. 31
                      /\ shamtR(Wrap(v)) = shamtR(v)
                      /\ shamtR(v % 2^ShamtBits) = shamtR(v)
                      /\ v % 2^ShamtBits \in Word
    OBVIOUS
  <1> DEFINE d == 2^ShamtBits
             e == 2^(WordBits - ShamtBits)
  <1>1. d \in Nat \ {0} /\ e \in Nat \ {0} /\ d <= 32 /\ 2^WordBits = d * e
    <2>1. ShamtBits \in 0 .. 32 /\ 5 \in 0 .. 32 /\ ShamtBits <= 5
          /\ WordBits - ShamtBits \in 0 .. 32 /\ WordBits <= 32
          /\ ShamtBits + (WordBits - ShamtBits) = WordBits
      BY MachineOK, WordSizes
    <2>2. ShamtBits + (WordBits - ShamtBits) <= 32
      BY <2>1
    <2>3. 2^5 = 32
      OBVIOUS
    <2>4. d <= 2^5
      BY <2>1, PowersGrow, Zenon
    <2> QED BY <2>1, <2>2, <2>3, <2>4, Powers, PowerSum, Zenon
  <1>2. \A x : shamtR(x) = x % d /\ Wrap(x) = x % (d * e)
    BY <1>1 DEF shamtR, Wrap
  <1>3. Word = 0 .. (d * e) - 1
    BY <1>1 DEF Word
  <1> HIDE DEF d, e
  <1> DEFINE r == v % d
             t == (v \div d) % e
  <1>4. r \in 0 .. d - 1 /\ t \in Int /\ v % (d * e) = (t * d) + r
    <2>1. v % (d * e) = (((v \div d) % e) * d) + (v % d)
      BY <1>1, DivTwice
    <2> QED BY <1>1, <2>1
  <1> HIDE DEF r, t
  <1>5. ((t * d) + r) % d = r
    <2>1. (t * d) + r \in Int
      BY <1>1, <1>4
    <2> QED BY <1>1, <1>4, <2>1, DivisionUnique
  <1>6. r % d = r
    BY <1>1, <1>4
  <1>7. d <= d * e
    BY <1>1
  <1>8. d * e \in Nat
    BY <1>1
  <1>9. shamtR(v) = r /\ shamtR(Wrap(v)) = r /\ shamtR(r) = r
    BY <1>2, <1>4, <1>5, <1>6, Zenon DEF r
  <1>10. r \in 0 .. 31 /\ r \in Word
    BY <1>1, <1>3, <1>4, <1>7, <1>8
  <1> QED BY <1>9, <1>10, Zenon DEF r, d

PlainOps == {"ADD", "ADDI", "SUB", "SLT", "SLTI", "SLTU", "SLTIU", "XOR", "XORI", "OR",
             "ORI", "AND", "ANDI"}
ShiftOps == {"SLL", "SLLI", "SRL", "SRLI", "SRA", "SRAI"}

\* Machine's result is ISA's, cut down to a word.
LEMMA AluValues ==
    ASSUME NEW x \in Word, NEW y \in Word
    PROVE  \A op \in PlainOps :
              Alu(op, x, y) \in Word /\ Alu(op, x, y) = Wrap(Reference!Value(op, x, y))
  <1>1. x \in Nat /\ y \in Nat /\ x \in Int /\ y \in Int
        /\ Signed(x) \in Int /\ Signed(y) \in Int
        /\ 0 \in Word /\ 1 \in Word
    <2>1. 1 \in Word
      <3> DEFINE M == 2^WordBits
                 H == 2^(WordBits - 1)
      <3>1. H \in Nat \ {0} /\ M = 2 * H
        BY WordSizes
      <3> HIDE DEF M, H
      <3>2. 1 \in 0 .. M - 1
        BY <3>1
      <3> QED BY <3>2 DEF Word, M
    <2> QED BY <2>1, WordSizes, SameWrap
  <1>2. Same(x, x) /\ Same(y, y) /\ Same(Signed(x), x) /\ Same(Signed(y), y)
        /\ Same(x, Signed(x)) /\ Same(y, Signed(y))
    BY <1>1, SameWrap, SameTrans
  <1>3. ASSUME NEW op \in {"ADD", "ADDI"}
        PROVE  Alu(op, x, y) \in Word /\ Alu(op, x, y) = Wrap(Reference!Value(op, x, y))
    <2>1. Alu(op, x, y) = Wrap(x + y)
      BY <1>3 DEF Alu
    <2>2. Reference!Value(op, x, y) = Signed(x) + Signed(y)
      BY <1>3, SameWords DEF Reference!Value
    <2>3. Same(x + y, Signed(x) + Signed(y))
      BY <1>1, <1>2, SameSum, Zenon
    <2>4. x + y \in Int /\ Signed(x) + Signed(y) \in Int
      BY <1>1
    <2> QED BY <2>1, <2>2, <2>3, <2>4, WrapSame, WrapWord
  <1>4. Alu("SUB", x, y) \in Word /\ Alu("SUB", x, y) = Wrap(Reference!Value("SUB", x, y))
    <2>1. Alu("SUB", x, y) = Wrap(x - y)
      BY DEF Alu
    <2>2. Reference!Value("SUB", x, y) = Signed(x) - Signed(y)
      BY SameWords DEF Reference!Value
    <2>3. Same(x - y, Signed(x) - Signed(y))
      BY <1>1, <1>2, SameSum, Zenon
    <2>4. x - y \in Int /\ Signed(x) - Signed(y) \in Int
      BY <1>1
    <2> QED BY <2>1, <2>2, <2>3, <2>4, WrapSame, WrapWord
  <1>5. ASSUME NEW op \in {"SLT", "SLTI", "SLTU", "SLTIU"}
        PROVE  Alu(op, x, y) \in Word /\ Alu(op, x, y) = Wrap(Reference!Value(op, x, y))
    <2>1. Alu(op, x, y) = Bool(IF op \in {"SLT", "SLTI"} THEN Signed(x) < Signed(y) ELSE x < y)
      BY <1>5 DEF Alu
    <2>2. Reference!Value(op, x, y) =
             Bool(IF op \in {"SLT", "SLTI"} THEN Signed(x) < Signed(y) ELSE x < y)
      BY <1>5, SameWords DEF Reference!Value, Reference!Truth, Bool
    <2>3. \A b : Bool(b) \in {0, 1}
      BY DEF Bool
    <2> QED BY <1>1, <2>1, <2>2, <2>3, WrapWord
  <1>6. ASSUME NEW op \in {"XOR", "XORI", "OR", "ORI", "AND", "ANDI"}
        PROVE  Alu(op, x, y) \in Word /\ Alu(op, x, y) = Wrap(Reference!Value(op, x, y))
    <2>1. Alu(op, x, y) = IF op \in {"XOR", "XORI"} THEN Xor(x, y)
                          ELSE IF op \in {"OR", "ORI"} THEN Or(x, y) ELSE And(x, y)
      BY <1>6 DEF Alu
    <2>2. Reference!Value(op, x, y) = Alu(op, x, y)
      BY <1>6, <2>1, SameBitwise DEF Reference!Value
    <2> QED BY <2>1, <2>2, Bitwise, WrapWord
  <1> QED BY <1>3, <1>4, <1>5, <1>6 DEF PlainOps

\* A shift in Machine's and in ISA's; z may have more bits than the shift amount.
LEMMA AluShifts ==
    \A x, y \in Word, op \in ShiftOps, z \in Int :
        shamtR(z) = shamtR(y) =>
            Alu(op, x, z) \in Word /\ Alu(op, x, z) = Wrap(Reference!Value(op, x, y))
  <1> SUFFICES ASSUME NEW x \in Word, NEW y \in Word,
                      NEW op \in ShiftOps,
                      NEW z \in Int, shamtR(z) = shamtR(y)
               PROVE  Alu(op, x, z) \in Word
                      /\ Alu(op, x, z) = Wrap(Reference!Value(op, x, y))
    OBVIOUS
  <1>1. x \in Int /\ y \in Int /\ Signed(x) \in Int
    BY WordSizes, SameWrap
  <1> DEFINE s == 2^shamtR(y)
  <1>2. s \in Nat \ {0}
    <2>1. shamtR(y) \in 0 .. 32
      BY <1>1, ShiftAmounts
    <2> QED BY <2>1, Powers, Zenon
  <1>3. 2^shamtR(z) = s /\ 2^(y % 2^ShamtBits) = s
    BY DEF shamtR
  <1> HIDE DEF s
  <1>4. CASE op \in {"SLL", "SLLI"}
    <2>1. Alu(op, x, z) = Wrap(x * s)
      BY <1>3, <1>4 DEF Alu
    <2>2. Reference!Value(op, x, y) = x * s
      BY <1>3, <1>4 DEF Reference!Value
    <2>3. x * s \in Int
      BY <1>1, <1>2
    <2> QED BY <2>1, <2>2, <2>3, WrapWord
  <1>5. CASE op \in {"SRL", "SRLI"}
    <2>1. Alu(op, x, z) = x \div s
      BY <1>3, <1>5 DEF Alu
    <2>2. Reference!Value(op, x, y) = x \div s
      BY <1>3, <1>5 DEF Reference!Value
    <2>3. x \div s \in Word
      BY <1>2, QuotientWord
    <2> QED BY <2>1, <2>2, <2>3, WrapWord
  <1>6. CASE op \in {"SRA", "SRAI"}
    <2>1. Alu(op, x, z) = Wrap(Signed(x) \div s)
      BY <1>3, <1>6 DEF Alu
    <2>2. Reference!Value(op, x, y) = Signed(x) \div s
      BY <1>3, <1>6, SameWords DEF Reference!Value
    <2>3. Signed(x) \div s \in Int
      BY <1>1, <1>2
    <2> QED BY <2>1, <2>2, <2>3, WrapWord
  <1> QED BY <1>4, <1>5, <1>6 DEF ShiftOps

LEMMA MultiplyDivideValues ==
    ASSUME NEW op \in {"MUL", "MULH", "MULHSU", "MULHU", "DIV", "DIVU", "REM", "REMU"},
           NEW x \in Word, NEW y \in Word
    PROVE  /\ MultiplyDivide(op, x, y) \in Word
           /\ MultiplyDivide(op, x, y) = Wrap(Reference!Value(op, x, y))
  <1> DEFINE M == 2^WordBits
             H == 2^(WordBits - 1)
             sx == Signed(x)
             sy == Signed(y)
             Q == Quotient(sx, sy)
             Fine == /\ MultiplyDivide(op, x, y) \in Word
                     /\ MultiplyDivide(op, x, y) = Wrap(Reference!Value(op, x, y))
  <1>1. M \in Nat \ {0} /\ H \in Nat \ {0} /\ M = 2 * H
    BY WordSizes
  <1>2. x \in Nat /\ y \in Nat /\ sx \in Int /\ sy \in Int /\ (sy = 0 <=> y = 0)
    BY WordSizes, SameWrap, SignedIs
  <1>3. sx \in -H .. H - 1 /\ sy \in -H .. H - 1
    BY SignedIs
  <1>4. sx = (IF x >= H THEN x - M ELSE x) /\ Word = 0 .. M - 1 /\ MinInt = -H
    BY DEF Signed, Word, MinInt
  <1>5. Reference!Signed(x) = sx /\ Reference!Signed(y) = sy
    BY SameWords
  <1>6. y # 0 => Q \in Int /\ Reference!Quotient(sx, sy) = Q
                /\ Reference!Quotient(x, y) = x \div y /\ x - y * (x \div y) = x % y
    <2>1. y # 0 => Q \in Int /\ Reference!Quotient(sx, sy) = Q
      BY <1>2, QuotientsAgree
    <2>2. y # 0 => Reference!Quotient(x, y) = Quotient(x, y)
      BY <1>2, QuotientsAgree
    <2>3. y # 0 => Quotient(x, y) = x \div y /\ x - y * (x \div y) = x % y
      BY <1>2, QuotientsAgree
    <2> QED BY <2>1, <2>2, <2>3
  <1> HIDE DEF sx, sy, Q
  <1>7. CASE op = "MUL"
    <2>1. MultiplyDivide(op, x, y) = Wrap(x * y)
      BY <1>7 DEF MultiplyDivide
    <2>2. Reference!Value(op, x, y) = sx * sy
      BY <1>5, <1>7 DEF Reference!Value
    <2>3. Same(x, sx) /\ Same(y, sy) /\ x \in Int /\ y \in Int
      BY <1>2, SameWrap, SameTrans DEF sx, sy
    <2>4. Same(x * y, sx * sy)
      BY <1>2, <2>3, SameSum, Zenon
    <2>5. x * y \in Int /\ sx * sy \in Int
      BY <1>2
    <2> QED BY <2>1, <2>2, <2>4, <2>5, WrapSame, WrapWord
  <1>8. CASE op \in {"MULH", "MULHSU"}
    <2> DEFINE p == IF op = "MULH" THEN sx * sy ELSE sx * y
    <2>1. MultiplyDivide(op, x, y) = Wrap(p \div M)
      BY <1>8 DEF MultiplyDivide, sx, sy
    <2>2. Reference!Value(op, x, y) = p \div M
      BY <1>5, <1>8, SameWords DEF Reference!Value
    <2>3. p \in Int
      BY <1>2
    <2> HIDE DEF p, M
    <2>4. p \div M \in Int
      BY <1>1, <2>3
    <2> QED BY <2>1, <2>2, <2>4, WrapWord
  <1>9. CASE op = "MULHU"
    <2>1. MultiplyDivide(op, x, y) = (x * y) \div M
      BY <1>9 DEF MultiplyDivide
    <2>2. Reference!Value(op, x, y) = (x * y) \div M
      BY <1>9, SameWords DEF Reference!Value
    <2>3. (x * y) \div M \in Word
      BY QuotientWord
    <2> QED BY <2>1, <2>2, <2>3, WrapWord
  <1>10. CASE op \in {"DIV", "DIVU", "REM", "REMU"} /\ y = 0
    <2>1. MultiplyDivide(op, x, y) = IF op \in {"DIV", "DIVU"} THEN Wrap(-1) ELSE x
      <3>1. y = 0 /\ Signed(y) = 0
        BY <1>2, <1>10 DEF sy
      <3> QED BY <1>10, <3>1 DEF MultiplyDivide
    <2>2. Reference!Value(op, x, y) = IF op \in {"DIV", "DIVU"} THEN -1 ELSE x
      BY <1>10 DEF Reference!Value
    <2>3. -1 \in Int
      OBVIOUS
    <2> QED BY <2>1, <2>2, <2>3, WrapWord
  <1>11. CASE op = "DIVU" /\ y # 0
    <2>1. MultiplyDivide(op, x, y) = x \div y
      BY <1>11 DEF MultiplyDivide
    <2>2. Reference!Value(op, x, y) = x \div y
      BY <1>6, <1>11 DEF Reference!Value
    <2>3. x \div y \in Word
      BY <1>2, <1>11, QuotientWord
    <2> QED BY <2>1, <2>2, <2>3, WrapWord
  <1>12. CASE op = "REMU" /\ y # 0
    <2>1. MultiplyDivide(op, x, y) = x % y
      BY <1>12 DEF MultiplyDivide
    <2>2. Reference!Value(op, x, y) = x - y * (x \div y)
      BY <1>6, <1>12 DEF Reference!Value
    <2>3. x % y \in Word
      BY <1>2, <1>12, QuotientWord
    <2> QED BY <1>6, <1>12, <2>1, <2>2, <2>3, WrapWord
  <1>13. CASE op \in {"DIV", "REM"} /\ y # 0 /\ ~(sx = MinInt /\ sy = -1)
    <2>1. MultiplyDivide(op, x, y) = Wrap(IF op = "DIV" THEN Q ELSE sx - sy * Q)
      BY <1>13 DEF MultiplyDivide, sx, sy, Q
    <2>2. Reference!Value(op, x, y) = IF op = "DIV" THEN Q ELSE sx - sy * Q
      BY <1>5, <1>6, <1>13 DEF Reference!Value
    <2>3. Q \in Int /\ sx - sy * Q \in Int
      BY <1>2, <1>6, <1>13
    <2> QED BY <2>1, <2>2, <2>3, WrapWord
  <1>14. CASE op \in {"DIV", "REM"} /\ y # 0 /\ sx = MinInt /\ sy = -1
    <2> HIDE DEF M, H
    <2>1. MultiplyDivide(op, x, y) = IF op = "DIV" THEN x ELSE 0
      BY <1>14 DEF MultiplyDivide, sx, sy
    <2>2. Reference!Value(op, x, y) = IF op = "DIV" THEN Q ELSE sx - sy * Q
      BY <1>5, <1>6, <1>14 DEF Reference!Value
    <2>3. Q = H
      <3>1. sx = -H /\ sy = -1 /\ H \in Nat \ {0}
        BY <1>1, <1>4, <1>14, Zenon
      <3> HIDE DEF sx, sy, H
      <3>3. Abs(sx) = H /\ Abs(sy) = 1 /\ sx < 0 /\ sy < 0
        <4>1. \A n \in Nat \ {0} : Abs(-n) = n /\ -n < 0
          BY DEF Abs
        <4>2. 1 \in Nat \ {0}
          OBVIOUS
        <4> QED BY <3>1, <4>1, <4>2, Zenon
      <3>2. H \div 1 = H
        BY <1>1
      <3> QED BY <3>2, <3>3 DEF Q, Quotient
    <2>4. x = H
      BY <1>1, <1>2, <1>4, <1>14
    <2>5. sx - sy * Q = 0
      BY <1>1, <1>4, <1>14, <2>3
    <2>6. 0 \in Word
      BY WordSizes
    <2> QED BY <2>1, <2>2, <2>3, <2>4, <2>5, <2>6, WrapWord
  <1> QED BY <1>7, <1>8, <1>9, <1>10, <1>11, <1>12, <1>13, <1>14

-----------------------------------------------------------------------------
(***************************************************************************)
(* The invariant.                                                          *)
(***************************************************************************)
CpuOK ==
    /\ regs \in [Reg -> Word] /\ regs[0] = 0
    /\ pc \in Word
    /\ trap \in Trap
    /\ status \in {"running", "killed", "crashed"}

MemOK ==
    /\ pageTable \in [Vpn -> PTE]
    /\ queue \in Seq(Vpn)
    /\ ram \in [PAddr -> Byte]
    /\ backing \in [Vpn -> [0 .. PageSize - 1 -> Byte]]

\* The queue lists the pages in memory, each once; frames are taken in order.
QueueOK ==
    /\ Len(queue) <= NumFrames
    /\ \A j, k \in 1 .. Len(queue) : queue[j] = queue[k] => j = k
    /\ \A v \in Vpn : pageTable[v].valid <=> \E k \in 1 .. Len(queue) : queue[k] = v
    /\ \A v \in Vpn : pageTable[v].valid => pageTable[v].ppn < Len(queue)

FramesApart ==
    \A u, v \in Vpn :
        /\ pageTable[u].valid /\ pageTable[v].valid
        /\ pageTable[u].ppn = pageTable[v].ppn
        => u = v

\* A page that was not written is what it was loaded from, so an eviction may
\* throw it away.
CopiesOK ==
    \A v \in Vpn :
        pageTable[v].valid /\ ~pageTable[v].dirty =>
            \A o \in 0 .. PageSize - 1 :
                ram[pageTable[v].ppn * PageSize + o] = backing[v][o]

\* What a page fault at address a is about.
Cause(a) ==
    LET i == Head(stream)
    IN  \/ a = pc /\ Faults(a, "x")
        \/ i.op \in DOMAIN LoadForm /\ i.rd # 0 /\ a = Target(i) /\ Faults(a, "r")
        \/ i.op \in DOMAIN StoreForm /\ a = Target(i) /\ Faults(a, "w")

\* A trap tells what the next instruction needs; nothing changes until it is served.
TrapOK ==
    /\ trap.type # "None" => status = "running" /\ stream # <<>>
    /\ trap.type = "Syscall" => trap.value \in SyscallIDs \cup {Wrap(-1)}
    /\ trap.type = "PageFault" => Cause(trap.value)

MachineInv ==
    /\ StreamOK /\ CpuOK /\ MemOK
    /\ QueueOK /\ FramesApart /\ CopiesOK
    /\ TrapOK

-----------------------------------------------------------------------------
(***************************************************************************)
(* What the executors do, in terms of the instruction.                     *)
(***************************************************************************)
\* Instruction i is at pc, is not kept from being fetched, and w is its word.
Fetches(w, i) ==
    /\ status = "running" /\ trap = NoTrap /\ stream # <<>>
    /\ i = Head(stream) /\ i \in Instruction
    /\ pc \in Word /\ ~Faults(pc, "x")
    /\ IF i.op = "word" THEN Executor(w) = "" ELSE Decoded(w, i)

LEMMA FetchedIs ==
    ASSUME StreamOK, CpuOK, NEW w \in Fetched
    PROVE  Fetches(w, Head(stream))
  <1>1. status = "running" /\ trap = NoTrap /\ stream # <<>> /\ ~Faults(pc, "x") /\ w = word
    BY DEF Fetched
  <1>2. Head(stream) \in Instruction
    BY <1>1 DEF StreamOK
  <1>3. Head(stream).op = "word" => Executor(w) = ""
    BY <1>1, <1>2 DEF Instruction, word
  <1>4. Head(stream).op # "word" => Decoded(w, Head(stream))
    BY <1>1, <1>2, EncodedIsDecoded DEF word
  <1> QED BY <1>1, <1>2, <1>3, <1>4 DEF Fetches, CpuOK

\* The names Machine::execute dispatches to.
LEMMA Names ==
    /\ (Range(Plain) \cup Range(Alternate)) \ {""} \subseteq
          {"ADD", "SLL", "SLT", "SLTU", "XOR", "SRL", "OR", "AND", "SUB", "SRA"}
    /\ Range(MExtension) \subseteq
          {"MUL", "MULH", "MULHSU", "MULHU", "DIV", "DIVU", "REM", "REMU"}
    /\ Range(Immediate) \cup Shifts \subseteq
          {"ADDI", "SLLI", "SLTI", "SLTIU", "XORI", "SRLI", "ORI", "ANDI", "SRAI"}
    /\ Range(Loads) \ {""} \subseteq {"LB", "LH", "LW", "LBU", "LHU"}
    /\ Range(Stores) \ {""} \subseteq {"SB", "SH", "SW"}
    /\ Range(Branches) \ {""} \subseteq {"BEQ", "BNE", "BLT", "BGE", "BLTU", "BGEU"}
  <1> DEFINE D == {1, 2, 3, 4, 5, 6, 7, 8}
             none == ""
  <1>1. DOMAIN Plain = D /\ DOMAIN Alternate = D /\ DOMAIN MExtension = D
        /\ DOMAIN Immediate = D /\ DOMAIN Loads = D /\ DOMAIN Stores = D /\ DOMAIN Branches = D
    BY DEF Plain, Alternate, MExtension, Immediate, Loads, Stores, Branches
  <1>9. /\ Alternate = <<"SUB", none, none, none, none, "SRA", none, none>>
        /\ Stores = <<"SB", "SH", "SW", none, none, none, none, none>>
        /\ Loads = <<"LB", "LH", "LW", none, "LBU", "LHU", none, none>>
        /\ Branches = <<"BEQ", "BNE", none, none, "BLT", "BGE", "BLTU", "BGEU">>
    BY DEF Alternate, Stores, Loads, Branches
  <1> HIDE DEF none
  <1>2. Range(Plain) \subseteq {"ADD", "SLL", "SLT", "SLTU", "XOR", "SRL", "OR", "AND"}
    <2>1. \A x \in D : Plain[x] \in {"ADD", "SLL", "SLT", "SLTU", "XOR", "SRL", "OR", "AND"}
      BY DEF Plain
    <2> QED BY <1>1, <2>1 DEF Range
  <1>3. Range(Alternate) \ {none} \subseteq {"SUB", "SRA"}
    <2>1. \A x \in D : Alternate[x] \in {"SUB", "SRA", none}
      BY <1>9
    <2> QED BY <1>1, <2>1 DEF Range
  <1>4. Range(MExtension) \subseteq
          {"MUL", "MULH", "MULHSU", "MULHU", "DIV", "DIVU", "REM", "REMU"}
    BY <1>1 DEF Range, MExtension
  <1>5. Range(Immediate) \cup Shifts \subseteq
          {"ADDI", "SLLI", "SLTI", "SLTIU", "XORI", "SRLI", "ORI", "ANDI", "SRAI"}
    BY <1>1 DEF Range, Immediate, Shifts
  <1>6. Range(Loads) \ {none} \subseteq {"LB", "LH", "LW", "LBU", "LHU"}
    <2>1. \A x \in D : Loads[x] \in {"LB", "LH", "LW", "LBU", "LHU", none}
      BY <1>9
    <2> QED BY <1>1, <2>1 DEF Range
  <1>7. Range(Stores) \ {none} \subseteq {"SB", "SH", "SW"}
    <2>1. \A x \in D : Stores[x] \in {"SB", "SH", "SW", none}
      BY <1>9
    <2> QED BY <1>1, <2>1 DEF Range
  <1>8. Range(Branches) \ {none} \subseteq {"BEQ", "BNE", "BLT", "BGE", "BLTU", "BGEU"}
    <2>1. \A x \in D : Branches[x] \in {"BEQ", "BNE", "BLT", "BGE", "BLTU", "BGEU", none}
      BY <1>9
    <2> QED BY <1>1, <2>1 DEF Range
  <1> QED BY <1>2, <1>3, <1>4, <1>5, <1>6, <1>7, <1>8 DEF none

\* An immediate in a register.
LEMMA ImmediateWords ==
    \A v \in Int : AsWord(Bits(v, 32)) = Wrap(v)
  <1> SUFFICES ASSUME NEW v \in Int PROVE AsWord(Bits(v, 32)) = Wrap(v)
    OBVIOUS
  <1>1. WordBits \in 0 .. 32
    BY WordSizes
  <1>2. Bits(v, 32) \cap 0 .. WordBits - 1 = Bits(v, WordBits)
    BY <1>1 DEF Bits
  <1>3. Number(Bits(v, WordBits)) = v % 2^WordBits
    BY <1>1, NumberOfBits
  <1> QED BY <1>2, <1>3 DEF AsWord, Wrap

\* Register r gets the value e, cut down to a word.
Writes(r, e) ==
    /\ Wrap(e) \in Word
    /\ regs' = IF r = 0 THEN regs ELSE [regs EXCEPT ![r] = Wrap(e)]

\* The instruction is done and the one at a is next.
GoesTo(a) ==
    /\ a \in Int
    /\ pc' = Wrap(a)
    /\ stream' = Tail(stream)
    /\ UNCHANGED <<trap, status>>

\* pc leaves the loop's 4 to be added, or holds back 4.
LEMMA AdvanceGoes ==
    ASSUME NEW a \in Int
    PROVE  /\ Advance(a) => GoesTo(a + 4)
           /\ Advance(Wrap(a - 4)) => GoesTo(a)
  <1>1. Same(Wrap(a - 4), a - 4) /\ Same(4, 4)
    BY SameWrap
  <1>2. Wrap(a - 4) \in Int
    BY WrapWord, WordInt
  <1>3. Same(Wrap(a - 4) + 4, (a - 4) + 4)
    <2>1. a - 4 \in Int /\ 4 \in Int
      OBVIOUS
    <2> QED BY <1>1, <1>2, <2>1, SameSum, Zenon
  <1>4. Wrap(Wrap(a - 4) + 4) = Wrap(a)
    <2>1. (a - 4) + 4 = a /\ Wrap(a - 4) + 4 \in Int
      BY <1>2
    <2> QED BY <1>3, <2>1, WrapSame
  <1> QED BY <1>4 DEF Advance, GoesTo

\* The second operand of an arithmetic instruction.
Operand(i) == IF i.op \in Reference!RegisterOps THEN regs[i.rs2] ELSE Wrap(i.imm)

ArithmeticDone(i) ==
    /\ i.op \in Reference!RegisterOps \cup Reference!ImmediateOps
    /\ Writes(i.rd, Reference!Value(i.op, regs[i.rs1], Operand(i)))
    /\ GoesTo(pc + 4)
    /\ UNCHANGED memVars

LEMMA WriteRegWrites ==
    \A r, x, e : WriteReg(r, x) /\ x = Wrap(e) /\ x \in Word => Writes(r, e)
  BY DEF WriteReg, Writes

LEMMA InstructionWords ==
    ASSUME CpuOK, NEW i \in Instruction
    PROVE  regs[i.rs1] \in Word /\ regs[i.rs2] \in Word /\ i.imm \in Int /\ Wrap(i.imm) \in Word
           /\ regs[i.rs1] \in Int
  BY InstructionFields, WrapWord, WordInt DEF CpuOK

LEMMA RegisterDone ==
    ASSUME CpuOK, NEW w, NEW i, Fetches(w, i),
           ExecRegister(w, Executor(w)) \/ ExecMExtension(w, Executor(w))
    PROVE  ArithmeticDone(i)
  <1> DEFINE x == regs[i.rs1]
             y == regs[i.rs2]
             plain == {"ADD", "SLL", "SLT", "SLTU", "XOR", "SRL", "OR", "AND", "SUB", "SRA"}
             mult == {"MUL", "MULH", "MULHSU", "MULHU", "DIV", "DIVU", "REM", "REMU"}
  <1>1. i \in Instruction /\ pc \in Int
    BY WordInt DEF Fetches
  <1>2. Executor(w) \in plain \cup mult
    BY Names DEF ExecRegister, ExecMExtension
  <1>3. Executor(w) = i.op /\ Decoded(w, i)
    BY <1>2 DEF Fetches, Decoded
  <1>4. i.op \in DOMAIN RegisterForm /\ i.op \in Reference!RegisterOps
    BY <1>2, <1>3, Forms DEF Reference!RegisterOps
  <1>5. i.op \notin DOMAIN StoreForm /\ i.op \notin DOMAIN BranchForm
        /\ i.op \notin {"LUI", "AUIPC", "JAL", "ECALL", "FENCE"}
    BY <1>2, <1>3, Forms
  <1>6. rd(w) = i.rd /\ src1(w) = x /\ src2(w) = y
    BY <1>3, <1>4, <1>5 DEF Decoded, src1, src2
  <1>7. x \in Word /\ y \in Word /\ y \in Int
    BY <1>1, InstructionWords, WordInt
  <1>8. Operand(i) = y
    BY <1>4 DEF Operand
  <1> HIDE DEF x, y
  <1>9. Advance(pc) /\ UNCHANGED memVars
    BY DEF ExecRegister, ExecMExtension
  <1>10. CASE i.op \in plain
    <2>1. ~ExecMExtension(w, Executor(w))
      BY <1>3, <1>10, Names DEF ExecMExtension
    <2>2. WriteReg(i.rd, Alu(i.op, x, y))
      BY <1>3, <1>6, <2>1 DEF ExecRegister
    <2>3. Alu(i.op, x, y) = Wrap(Reference!Value(i.op, x, y)) /\ Alu(i.op, x, y) \in Word
      <3>1. i.op \in PlainOps \/ i.op \in ShiftOps
        BY <1>10 DEF PlainOps, ShiftOps
      <3>2. CASE i.op \in PlainOps
        BY <1>7, <3>2, AluValues, Zenon
      <3>3. CASE i.op \in ShiftOps
        BY <1>7, <3>3, AluShifts, Zenon
      <3> QED BY <3>1, <3>2, <3>3
    <2> QED BY <1>1, <1>4, <1>8, <1>9, <2>2, <2>3, AdvanceGoes, WriteRegWrites
            DEF ArithmeticDone, x
  <1>11. CASE i.op \in mult
    <2>1. ~ExecRegister(w, Executor(w))
      BY <1>3, <1>11, Names DEF ExecRegister
    <2>2. WriteReg(i.rd, MultiplyDivide(i.op, x, y))
      BY <1>3, <1>6, <2>1 DEF ExecMExtension
    <2>3. /\ MultiplyDivide(i.op, x, y) = Wrap(Reference!Value(i.op, x, y))
          /\ MultiplyDivide(i.op, x, y) \in Word
      BY <1>7, <1>11, MultiplyDivideValues
    <2> QED BY <1>1, <1>4, <1>8, <1>9, <2>2, <2>3, AdvanceGoes, WriteRegWrites
            DEF ArithmeticDone, x
  <1> QED BY <1>2, <1>3, <1>10, <1>11

LEMMA ImmediateDone ==
    ASSUME CpuOK, NEW w, NEW i, Fetches(w, i), ExecImmediate(w, Executor(w))
    PROVE  ArithmeticDone(i)
  <1> DEFINE x == regs[i.rs1]
             z == IF i.op \in Shifts THEN i.imm % 2^ShamtBits ELSE Wrap(i.imm)
  <1>1. i \in Instruction /\ pc \in Int
    BY WordInt DEF Fetches
  <1>2. Executor(w) \in {"ADDI", "SLLI", "SLTI", "SLTIU", "XORI", "SRLI", "ORI", "ANDI", "SRAI"}
    BY Names DEF ExecImmediate
  <1>3. Executor(w) = i.op /\ Decoded(w, i)
    BY <1>2 DEF Fetches, Decoded
  <1>4. i.op \in Reference!ImmediateOps /\ i.op \notin Reference!RegisterOps
    BY <1>2, <1>3 DEF Reference!ImmediateOps, Reference!RegisterOps
  <1>5. i.op \notin UNION {DOMAIN StoreForm, DOMAIN BranchForm, {"ECALL", "FENCE"}}
        /\ i.op \notin {"LUI", "AUIPC", "JAL", "ECALL", "FENCE"}
        /\ (i.op \in Shifts => i.op \in DOMAIN ShiftForm)
        /\ (i.op \notin Shifts => i.op \in UNION {DOMAIN ImmediateForm, DOMAIN LoadForm, {"JALR"}})
    BY <1>2, <1>3, Forms DEF Shifts
  <1>6. rd(w) = i.rd /\ src1(w) = x
    BY <1>3, <1>5 DEF Decoded, src1
  <1>7. x \in Word /\ Wrap(i.imm) \in Word /\ i.imm \in Int
    BY <1>1, InstructionWords
  <1>8. Operand(i) = Wrap(i.imm)
    BY <1>4 DEF Operand
  <1>9. (IF Executor(w) \in Shifts THEN shamtI(w) ELSE AsWord(immI(w))) = z
    <2>1. i.op \in Shifts => shamtI(w) = i.imm % 2^ShamtBits
      BY <1>3, <1>5 DEF Decoded
    <2>2. i.op \notin Shifts => immI(w) = Bits(i.imm, 32)
      BY <1>3, <1>5 DEF Decoded
    <2>3. i.op \notin Shifts => AsWord(immI(w)) = Wrap(i.imm)
      BY <1>7, <2>2, ImmediateWords
    <2> QED BY <1>3, <2>1, <2>3
  <1>10. WriteReg(i.rd, Alu(i.op, x, z))
    BY <1>3, <1>6, <1>9 DEF ExecImmediate
  <1>11. Advance(pc) /\ UNCHANGED memVars
    BY DEF ExecImmediate
  <1> HIDE DEF x
  <1>12. Alu(i.op, x, z) \in Word /\ Alu(i.op, x, z) = Wrap(Reference!Value(i.op, x, Wrap(i.imm)))
    <2>1. CASE i.op \in Shifts
      <3>1. z = i.imm % 2^ShamtBits /\ z \in Int
        BY <1>7, <2>1, ShiftAmounts, WordInt
      <3>2. shamtR(z) = shamtR(Wrap(i.imm))
        BY <1>7, <3>1, ShiftAmounts
      <3>3. i.op \in ShiftOps
        BY <2>1 DEF Shifts, ShiftOps
      <3> DEFINE y == Wrap(i.imm)
      <3>4. y \in Word /\ shamtR(z) = shamtR(y)
        BY <1>7, <3>2
      <3> HIDE DEF z, y
      <3>5. Alu(i.op, x, z) \in Word /\ Alu(i.op, x, z) = Wrap(Reference!Value(i.op, x, y))
        BY <1>7, <3>1, <3>3, <3>4, AluShifts, Zenon
      <3> QED BY <3>5 DEF y
    <2>2. CASE i.op \notin Shifts
      <3>1. z = Wrap(i.imm)
        BY <2>2
      <3>2. i.op \in PlainOps
        BY <1>2, <1>3, <2>2 DEF Shifts, PlainOps
      <3> DEFINE y == Wrap(i.imm)
      <3>3. z = y /\ y \in Word
        BY <1>7, <3>1
      <3> HIDE DEF z, y
      <3>4. Alu(i.op, x, y) \in Word /\ Alu(i.op, x, y) = Wrap(Reference!Value(i.op, x, y))
        BY <1>7, <3>2, <3>3, AluValues, Zenon
      <3> QED BY <3>3, <3>4 DEF y
    <2> QED BY <2>1, <2>2
  <1> HIDE DEF z
  <1>13. Writes(i.rd, Reference!Value(i.op, x, Operand(i)))
    BY <1>8, <1>10, <1>12, WriteRegWrites
  <1> QED BY <1>1, <1>4, <1>11, <1>13, AdvanceGoes DEF ArithmeticDone, x

\* A wrapped sum stands for the sum.
LEMMA SumWraps ==
    \A a, b \in Int : /\ Same(a + Wrap(b), a + b) /\ a + Wrap(b) \in Int
                      /\ Wrap(a + Wrap(b)) = Wrap(a + b)
  <1> SUFFICES ASSUME NEW a \in Int, NEW b \in Int
               PROVE  /\ Same(a + Wrap(b), a + b) /\ a + Wrap(b) \in Int
                      /\ Wrap(a + Wrap(b)) = Wrap(a + b)
    OBVIOUS
  <1>1. Same(a, a) /\ Same(Wrap(b), b) /\ Wrap(b) \in Int
    BY SameWrap, WrapWord, WordInt
  <1>2. Same(a + Wrap(b), a + b)
    BY <1>1, SameSum, Zenon
  <1>3. a + Wrap(b) \in Int /\ a + b \in Int
    BY <1>1
  <1> QED BY <1>2, <1>3, WrapSame, Zenon

UpperDone(i) ==
    /\ i.op \in {"LUI", "AUIPC"}
    /\ Writes(i.rd, (i.imm * 4096) + (IF i.op = "AUIPC" THEN pc ELSE 0))
    /\ GoesTo(pc + 4)
    /\ UNCHANGED memVars

LEMMA LuiAuipcDone ==
    ASSUME CpuOK, NEW w, NEW i, Fetches(w, i),
           ExecLUI(w, Executor(w)) \/ ExecAUIPC(w, Executor(w))
    PROVE  UpperDone(i)
  <1> DEFINE u == i.imm * 4096
  <1>1. i \in Instruction /\ pc \in Int /\ i.imm \in Int
    BY WordInt, InstructionFields DEF Fetches
  <1>2. Executor(w) \in {"LUI", "AUIPC"}
    BY DEF ExecLUI, ExecAUIPC
  <1>3. Executor(w) = i.op /\ Decoded(w, i)
    BY <1>2 DEF Fetches, Decoded
  <1>4. i.op \notin UNION {DOMAIN StoreForm, DOMAIN BranchForm, {"ECALL", "FENCE"}}
    BY <1>2, <1>3, Forms
  <1>5. rd(w) = i.rd /\ immU(w) = Bits(u, 32)
    BY <1>2, <1>3, <1>4 DEF Decoded, Upper
  <1>6. u \in Int
    BY <1>1
  <1> HIDE DEF u
  <1>7. AsWord(immU(w)) = Wrap(u)
    BY <1>5, <1>6, ImmediateWords
  <1>8. Advance(pc) /\ UNCHANGED memVars
    BY DEF ExecLUI, ExecAUIPC
  <1>9. CASE i.op = "LUI"
    <2>1. WriteReg(i.rd, Wrap(u))
      BY <1>3, <1>5, <1>7, <1>9 DEF ExecLUI, ExecAUIPC
    <2>2. u + 0 = u /\ Wrap(u) \in Word
      BY <1>6, WrapWord
    <2>3. Writes(i.rd, u + 0)
      BY <2>1, <2>2, WriteRegWrites
    <2> QED BY <1>1, <1>8, <1>9, <2>3, AdvanceGoes DEF UpperDone, u
  <1>10. CASE i.op = "AUIPC"
    <2>1. WriteReg(i.rd, Wrap(pc + Wrap(u)))
      BY <1>3, <1>5, <1>7, <1>10 DEF ExecLUI, ExecAUIPC
    <2>3. Wrap(pc + Wrap(u)) = Wrap(pc + u) /\ pc + u \in Int /\ pc + u = u + pc
      BY <1>1, <1>6, SumWraps
    <2>4. Wrap(pc + Wrap(u)) = Wrap(u + pc) /\ Wrap(u + pc) \in Word
      BY <2>3, WrapWord
    <2>5. Writes(i.rd, u + pc)
      BY <2>1, <2>4, WriteRegWrites
    <2> QED BY <1>1, <1>8, <1>10, <2>5, AdvanceGoes DEF UpperDone, u
  <1> QED BY <1>2, <1>3, <1>9, <1>10

JumpDone(i) ==
    /\ i.op \in {"JAL", "JALR"}
    /\ Writes(i.rd, pc + 4)
    /\ LET target == regs[i.rs1] + i.imm
       IN  GoesTo(IF i.op = "JAL" THEN pc + i.imm ELSE target - (target % 2))
    /\ UNCHANGED memVars

\* Words are even when the numbers they stand for are.
LEMMA ParityKept ==
    \A a \in Int : Wrap(a) % 2 = a % 2
  <1> SUFFICES ASSUME NEW a \in Int PROVE Wrap(a) % 2 = a % 2
    OBVIOUS
  <1> DEFINE M == 2^WordBits
             H == 2^(WordBits - 1)
             q == a \div M
             r == a % M
  <1>1. M \in Nat \ {0} /\ H \in Nat \ {0} /\ M = 2 * H
    BY WordSizes
  <1> HIDE DEF M, H
  <1>2. q \in Int /\ r \in Int /\ a = (q * M) + r
    <2>1. r \in 0 .. M - 1 /\ q \in Int /\ a = (q * M) + r
      BY <1>1, DivMod
    <2> QED BY <2>1, <1>1
  <1> HIDE DEF q, r
  <1>3. q * M = 2 * (q * H) /\ q * H \in Int
    BY <1>1, <1>2
  <1> DEFINE t == q * H
  <1>4. a = 2 * t + r /\ t \in Int
    BY <1>2, <1>3
  <1> HIDE DEF t
  <1>5. a % 2 = r % 2
    BY <1>2, <1>4
  <1> QED BY <1>5 DEF Wrap, r, M

LEMMA JalJalrDone ==
    ASSUME CpuOK, NEW w, NEW i, Fetches(w, i),
           ExecJAL(w, Executor(w)) \/ ExecJALR(w, Executor(w))
    PROVE  JumpDone(i)
  <1> DEFINE x == regs[i.rs1]
             v == i.imm
  <1>1. i \in Instruction /\ pc \in Int /\ v \in Int
    BY WordInt, InstructionFields DEF Fetches
  <1>2. Executor(w) \in {"JAL", "JALR"}
    BY DEF ExecJAL, ExecJALR
  <1>3. Executor(w) = i.op /\ Decoded(w, i)
    BY <1>2 DEF Fetches, Decoded
  <1>4. i.op \notin UNION {DOMAIN StoreForm, DOMAIN BranchForm, {"ECALL", "FENCE"}}
    BY <1>2, <1>3, Forms
  <1>5. rd(w) = i.rd
    BY <1>3, <1>4 DEF Decoded
  <1>6. pc + 4 \in Int /\ Wrap(pc + 4) \in Word /\ UNCHANGED memVars /\ WriteReg(i.rd, Wrap(pc + 4))
    BY <1>1, <1>5, WrapWord DEF ExecJAL, ExecJALR
  <1>7. Writes(i.rd, pc + 4)
    BY <1>6, WriteRegWrites
  <1>8. CASE i.op = "JAL"
    <2>1. immJ(w) = Bits(v, 32)
      BY <1>3, <1>8 DEF Decoded
    <2>2. AsWord(immJ(w)) = Wrap(v)
      BY <1>1, <2>1, ImmediateWords
    <2>3. Advance(Wrap(pc + Wrap(v) - 4))
      BY <1>3, <1>8, <2>2 DEF ExecJAL, ExecJALR
    <2> HIDE DEF v
    <2>6. pc + Wrap(v) \in Int /\ Wrap(pc + Wrap(v)) = Wrap(pc + v)
      BY <1>1, SumWraps, Zenon
    <2> DEFINE b == pc + Wrap(v)
    <2>7. Advance(Wrap(b - 4)) /\ b \in Int
      <3>1. Wrap(v) \in Int
        BY <1>1, WrapWord, WordInt
      <3>2. pc + (Wrap(v) - 4) = (pc + Wrap(v)) - 4
        BY <1>1, <3>1
      <3> QED BY <2>3, <2>6, <3>2
    <2> HIDE DEF b
    <2>4. GoesTo(b)
      BY <2>7, AdvanceGoes
    <2>5. GoesTo(pc + v)
      BY <1>1, <2>4, <2>6 DEF GoesTo, b
    <2> QED BY <1>6, <1>7, <1>8, <2>5 DEF JumpDone, v
  <1>9. CASE i.op = "JALR"
    <2> DEFINE t == x + v
               a == Wrap(t)
    <2>1. immI(w) = Bits(v, 32) /\ src1(w) = x
      BY <1>3, <1>9, Forms DEF Decoded, src1
    <2>2. AsWord(immI(w)) = Wrap(v)
      BY <1>1, <2>1, ImmediateWords
    <2>3. x \in Int /\ t \in Int
      BY <1>1, InstructionWords
    <2>4. Wrap(x + Wrap(v)) = a
      BY <1>1, <2>3, SumWraps
    <2>5. Advance(Wrap(a - (a % 2) - 4))
      BY <1>3, <1>9, <2>1, <2>2, <2>4 DEF ExecJAL, ExecJALR
    <2>6. a % 2 = t % 2 /\ a \in Int /\ Same(a, t)
      BY <2>3, ParityKept, SameWrap, WrapWord, WordInt
    <2> HIDE DEF t, a
    <2>7. t % 2 \in Int /\ Same(t % 2, t % 2)
      BY <2>3, SameWrap
    <2> DEFINE p == a % 2
    <2>11. t % 2 = p /\ p \in Int /\ Same(p, p)
      BY <2>6, <2>7
    <2> HIDE DEF p
    <2>12. Same(a - p, t - p)
      BY <2>3, <2>6, <2>11, SameSum, Zenon
    <2>13. a - p \in Int /\ t - p \in Int
      BY <2>3, <2>6, <2>11
    <2>8. Same(a - (a % 2), t - (t % 2)) /\ a - (a % 2) \in Int /\ t - (t % 2) \in Int
      BY <2>11, <2>12, <2>13 DEF p
    <2>9. GoesTo(a - (a % 2)) /\ Wrap(a - (a % 2)) = Wrap(t - (t % 2))
      BY <2>5, <2>8, AdvanceGoes, WrapSame, Zenon
    <2>10. GoesTo(t - (t % 2))
      BY <2>8, <2>9 DEF GoesTo
    <2> QED BY <1>6, <1>7, <1>9, <2>10 DEF JumpDone, t
  <1> QED BY <1>2, <1>3, <1>8, <1>9

BranchDone(i) ==
    /\ i.op \in {"BEQ", "BNE", "BLT", "BGE", "BLTU", "BGEU"}
    /\ GoesTo(IF Reference!Taken(i.op, regs[i.rs1], regs[i.rs2]) THEN pc + i.imm ELSE pc + 4)
    /\ UNCHANGED <<regs, memVars>>

LEMMA BranchesDone ==
    ASSUME CpuOK, NEW w, NEW i, Fetches(w, i), ExecBranch(w, Executor(w))
    PROVE  BranchDone(i)
  <1> DEFINE x == regs[i.rs1]
             y == regs[i.rs2]
             v == i.imm
             ops == {"BEQ", "BNE", "BLT", "BGE", "BLTU", "BGEU"}
             taken == Taken(w, i.op)
  <1>1. i \in Instruction /\ pc \in Int /\ v \in Int
    BY WordInt, InstructionFields DEF Fetches
  <1>2. Executor(w) \in ops
    BY Names DEF ExecBranch
  <1>3. Executor(w) = i.op /\ Decoded(w, i)
    BY <1>2 DEF Fetches, Decoded
  <1>4. i.op \in DOMAIN BranchForm /\ i.op \notin {"LUI", "AUIPC", "JAL", "ECALL", "FENCE"}
    BY <1>2, <1>3, Forms
  <1>5. src1(w) = x /\ src2(w) = y /\ immB(w) = Bits(v, 32)
    BY <1>3, <1>4 DEF Decoded, src1, src2
  <1>6. AsWord(immB(w)) = Wrap(v)
    BY <1>1, <1>5, ImmediateWords
  <1>7. taken = Reference!Taken(i.op, x, y)
    BY <1>2, <1>3, <1>5, SameWords DEF Taken, Reference!Taken
  <1>8. /\ Advance(IF taken THEN Wrap(pc - 4 + Wrap(v)) ELSE pc)
        /\ UNCHANGED <<regs, memVars>>
    BY <1>3, <1>6 DEF ExecBranch
  <1> HIDE DEF taken, v
  <1>9. GoesTo(IF taken THEN pc + v ELSE pc + 4)
    <2>1. CASE ~taken
      BY <1>1, <1>8, <2>1, AdvanceGoes
    <2>2. CASE taken
      <3> DEFINE b == pc + Wrap(v)
      <3>1. b \in Int /\ Wrap(b) = Wrap(pc + v)
        BY <1>1, SumWraps, Zenon
      <3>2. (pc - 4) + Wrap(v) = b - 4
        <4>1. Wrap(v) \in Int
          BY <1>1, WrapWord, WordInt
        <4> QED BY <1>1, <4>1
      <3>3. Advance(Wrap(b - 4))
        BY <1>8, <2>2, <3>2
      <3> HIDE DEF b
      <3>4. GoesTo(b)
        BY <3>1, <3>3, AdvanceGoes
      <3> QED BY <1>1, <2>2, <3>1, <3>4 DEF GoesTo
    <2> QED BY <2>1, <2>2
  <1> QED BY <1>2, <1>3, <1>7, <1>8, <1>9 DEF BranchDone, v

FenceDone(i) ==
    /\ i.op = "FENCE"
    /\ GoesTo(pc + 4)
    /\ UNCHANGED <<regs, memVars>>

CallDone(i) ==
    /\ i.op = "ECALL"
    /\ RaiseTrap("Syscall", IF regs[17] \in SyscallIDs THEN regs[17] ELSE Wrap(-1))

IllegalDone(i) ==
    /\ i.op = "word"
    /\ status' = "crashed"
    /\ UNCHANGED <<cpuVars, trap, memVars>>

LEMMA OthersDone ==
    ASSUME CpuOK, NEW w, NEW i, Fetches(w, i)
    PROVE  /\ ExecFENCE(w, Executor(w)) => FenceDone(i)
           /\ ExecECALL(w, Executor(w)) => CallDone(i)
           /\ Illegal(w, Executor(w)) => IllegalDone(i)
  <1>1. pc \in Int
    BY WordInt DEF Fetches
  <1>2. Executor(w) \in {"FENCE", "ECALL"} => Executor(w) = i.op
    BY DEF Fetches, Decoded
  <1>3. ASSUME Executor(w) = "" PROVE i.op = "word"
    <2>1. i.op \in Mnemonic
      BY InstructionFields DEF Fetches
    <2>2. "" \notin Mnemonic
      BY Forms DEF Mnemonic
    <2> QED BY <1>3, <2>1, <2>2 DEF Fetches, Decoded
  <1> QED BY <1>1, <1>2, <1>3, AdvanceGoes
          DEF ExecFENCE, ExecECALL, Illegal, FenceDone, CallDone, IllegalDone

LEMMA Operators ==
    /\ DOMAIN Width = DOMAIN LoadForm \cup DOMAIN StoreForm
    /\ DOMAIN LoadForm = {"LB", "LH", "LW", "LBU", "LHU"}
    /\ DOMAIN StoreForm = {"SB", "SH", "SW"}
    /\ \A op \in DOMAIN Width : Width[op] = Reference!Size(op) /\ Width[op] \in {1, 2, 4}
  BY Forms DEF Width, Reference!Size

LoadDone(i) ==
    /\ i.op \in DOMAIN LoadForm
    /\ \/ /\ i.rd = 0
          /\ GoesTo(pc + 4)
          /\ UNCHANGED <<regs, memVars>>
       \/ /\ i.rd # 0
          /\ Faults(Target(i), "r")
          /\ RaiseTrap("PageFault", Target(i))
       \/ /\ i.rd # 0
          /\ ~Faults(Target(i), "r")
          /\ WriteReg(i.rd, SignedLoad(i.op, loadVirtualMemory(Target(i), Width[i.op])))
          /\ GoesTo(pc + 4)
          /\ UNCHANGED memVars

StoreDone(i) ==
    /\ i.op \in DOMAIN StoreForm
    /\ \/ /\ Faults(Target(i), "w")
          /\ RaiseTrap("PageFault", Target(i))
       \/ /\ ~Faults(Target(i), "w")
          /\ storeVirtualMemory(Target(i), Width[i.op], regs[i.rs2])
          /\ GoesTo(pc + 4)
          /\ UNCHANGED <<regs, queue, backing>>

LEMMA AccessesDone ==
    ASSUME CpuOK, NEW w, NEW i, Fetches(w, i)
    PROVE  /\ ExecLoad(w, Executor(w)) => LoadDone(i)
           /\ ExecStore(w, Executor(w)) => StoreDone(i)
  <1> DEFINE x == regs[i.rs1]
             v == i.imm
  <1>1. i \in Instruction /\ pc \in Int /\ v \in Int
    BY WordInt, InstructionFields DEF Fetches
  <1>2. x \in Int /\ Wrap(x + Wrap(v)) = Target(i)
    <2>1. x \in Int
      BY <1>1, InstructionWords
    <2> QED BY <1>1, <2>1, SumWraps DEF Target
  <1>3. Advance(pc) => GoesTo(pc + 4)
    BY <1>1, AdvanceGoes
  <1>4. ASSUME ExecLoad(w, Executor(w)) PROVE LoadDone(i)
    <2>1. Executor(w) \in DOMAIN LoadForm
      BY <1>4, Names, Operators DEF ExecLoad
    <2>2. Executor(w) = i.op /\ Decoded(w, i)
      BY <2>1, Forms DEF Fetches, Decoded
    <2>3. i.op \notin UNION {DOMAIN StoreForm, DOMAIN BranchForm, {"ECALL", "FENCE"}}
          /\ i.op \notin {"LUI", "AUIPC", "JAL", "ECALL", "FENCE"}
          /\ i.op \in UNION {DOMAIN ImmediateForm, DOMAIN LoadForm, {"JALR"}}
      BY <2>1, <2>2, Forms
    <2>4. rd(w) = i.rd /\ src1(w) = x /\ immI(w) = Bits(v, 32)
      BY <2>2, <2>3 DEF Decoded, src1
    <2>5. Wrap(src1(w) + AsWord(immI(w))) = Target(i)
      BY <1>1, <1>2, <2>4, ImmediateWords
    <2> QED BY <1>3, <1>4, <2>1, <2>2, <2>4, <2>5 DEF ExecLoad, LoadDone
  <1>5. ASSUME ExecStore(w, Executor(w)) PROVE StoreDone(i)
    <2>1. Executor(w) \in DOMAIN StoreForm
      BY <1>5, Names, Operators DEF ExecStore
    <2>2. Executor(w) = i.op /\ Decoded(w, i)
      BY <2>1, Forms DEF Fetches, Decoded
    <2>3. i.op \notin {"LUI", "AUIPC", "JAL", "ECALL", "FENCE"}
          /\ i.op \in UNION {DOMAIN RegisterForm, DOMAIN StoreForm, DOMAIN BranchForm}
      BY <2>1, <2>2, Forms
    <2>4. src1(w) = x /\ src2(w) = regs[i.rs2] /\ immS(w) = Bits(v, 32)
      BY <2>1, <2>2, <2>3 DEF Decoded, src1, src2
    <2>5. Wrap(src1(w) + AsWord(immS(w))) = Target(i)
      BY <1>1, <1>2, <2>4, ImmediateWords
    <2> QED BY <1>3, <1>5, <2>1, <2>2, <2>4, <2>5 DEF ExecStore, StoreDone
  <1> QED BY <1>4, <1>5

Done(i) ==
    \/ ArithmeticDone(i) \/ UpperDone(i) \/ JumpDone(i) \/ BranchDone(i)
    \/ LoadDone(i) \/ StoreDone(i) \/ FenceDone(i) \/ CallDone(i) \/ IllegalDone(i)

LEMMA ExecuteDone ==
    ASSUME StreamOK, CpuOK, Execute
    PROVE  /\ status = "running" /\ trap = NoTrap /\ stream # <<>> /\ ~Faults(pc, "x")
           /\ Head(stream) \in Instruction /\ Done(Head(stream))
  <1>1. PICK w \in Fetched : \E name \in {Executor(w)} :
          \/ ExecRegister(w, name)
          \/ ExecMExtension(w, name)
          \/ ExecImmediate(w, name)
          \/ ExecLUI(w, name)
          \/ ExecAUIPC(w, name)
          \/ ExecJAL(w, name)
          \/ ExecJALR(w, name)
          \/ ExecBranch(w, name)
          \/ ExecLoad(w, name)
          \/ ExecStore(w, name)
          \/ ExecFENCE(w, name)
          \/ ExecECALL(w, name)
          \/ Illegal(w, name)
    BY DEF Execute
  <1>2. Fetches(w, Head(stream))
    BY FetchedIs
  <1>3. Done(Head(stream))
    BY <1>1, <1>2, RegisterDone, ImmediateDone, LuiAuipcDone, JalJalrDone, BranchesDone,
       AccessesDone, OthersDone, Zenon DEF Done
  <1> QED BY <1>2, <1>3 DEF Fetches

-----------------------------------------------------------------------------
(***************************************************************************)
(* Pages and frames.                                                       *)
(***************************************************************************)
\* Byte o of frame f.
Cell(f, o) == f * PageSize + o

Frame == 0 .. NumFrames - 1
Offset == 0 .. PageSize - 1

LEMMA Cells ==
    /\ \A f \in Frame, o \in Offset :
          /\ Cell(f, o) \in PAddr
          /\ Cell(f, o) \div PageSize = f /\ Cell(f, o) % PageSize = o
    /\ \A b \in PAddr :
          /\ b \div PageSize \in Frame /\ b % PageSize \in Offset
          /\ b = Cell(b \div PageSize, b % PageSize)
    /\ \A f, g \in Frame, o, p \in Offset : Cell(f, o) = Cell(g, p) => f = g /\ o = p
  <1> DEFINE P == PageSize
             N == NumFrames
  <1>1. P \in Nat \ {0} /\ N \in Nat \ {0}
    BY MachineOK
  <1>2. ASSUME NEW f \in Frame, NEW o \in Offset
        PROVE  /\ Cell(f, o) \in PAddr
               /\ Cell(f, o) \div P = f /\ Cell(f, o) % P = o
    <2>1. f \in 0 .. N - 1 /\ o \in 0 .. P - 1 /\ Cell(f, o) = (f * P) + o /\ PAddr = 0 .. (N * P) - 1
      BY DEF Frame, Offset, Cell, PAddr
    <2> HIDE DEF P, N
    <2>2. f * P \in Nat /\ f * P <= (N - 1) * P /\ (N - 1) * P = (N * P) - P /\ N * P \in Nat
      BY <1>1, <2>1
    <2>3. Cell(f, o) \in PAddr
      BY <1>1, <2>1, <2>2
    <2>4. (f * P) + o \in Int /\ f \in Int
      BY <1>1, <2>1, <2>2
    <2>5. Cell(f, o) \div P = f /\ Cell(f, o) % P = o
      BY <1>1, <2>1, <2>4, DivisionUnique
    <2> QED BY <2>3, <2>5
  <1>3. ASSUME NEW b \in PAddr
        PROVE  /\ b \div P \in Frame /\ b % P \in Offset
               /\ b = Cell(b \div P, b % P)
    <2> DEFINE q == b \div P
               r == b % P
    <2>1. b \in 0 .. (N * P) - 1
      BY DEF PAddr
    <2>2. b \in Nat /\ b < N * P /\ N * P \in Nat
      BY <1>1, <2>1
    <2> HIDE DEF P, N
    <2>3. b = (q * P) + r /\ r \in 0 .. P - 1 /\ q \in Nat
      BY <1>1, <2>2, QuotientRange
    <2> HIDE DEF q, r
    <2>4. q < N
      <3>1. q >= N => q * P >= N * P
        BY <1>1, <2>3
      <3>2. q * P \in Nat
        BY <1>1, <2>3
      <3> QED BY <1>1, <2>2, <2>3, <3>1, <3>2
    <2>5. q \in 0 .. N - 1
      BY <1>1, <2>3, <2>4
    <2> QED BY <2>3, <2>5 DEF q, r, P, N, Frame, Offset, Cell
  <1>4. ASSUME NEW f \in Frame, NEW g \in Frame, NEW o \in Offset, NEW p \in Offset,
               Cell(f, o) = Cell(g, p)
        PROVE  f = g /\ o = p
    <2>1. Cell(f, o) \div P = f /\ Cell(f, o) % P = o /\ Cell(g, p) \div P = g /\ Cell(g, p) % P = p
      BY <1>2
    <2> QED BY <1>4, <2>1
  <1> QED BY <1>2, <1>3, <1>4

\* An access that stays in its page.
LEMMA SamePage ==
    \A a \in Word, k \in Nat :
        /\ Page(a) \in Nat /\ a % PageSize \in Offset
        /\ Page(a) \in Vpn /\ (a % PageSize) + k < PageSize =>
              a + k \in Word /\ Page(a + k) = Page(a) /\ (a + k) % PageSize = (a % PageSize) + k
  <1> SUFFICES ASSUME NEW a \in Word, NEW k \in Nat
               PROVE  /\ Page(a) \in Nat /\ a % PageSize \in Offset
                      /\ Page(a) \in Vpn /\ (a % PageSize) + k < PageSize =>
                            /\ a + k \in Word /\ Page(a + k) = Page(a)
                            /\ (a + k) % PageSize = (a % PageSize) + k
    OBVIOUS
  <1> DEFINE P == PageSize
             M == 2^WordBits
             q == a \div P
             r == a % P
  <1>1. P \in Nat \ {0} /\ a \in Nat /\ M \in Nat \ {0}
    BY MachineOK, WordInt, WordSizes
  <1>2. Word = 0 .. M - 1 /\ Page(a) = q /\ Page(a + k) = (a + k) \div P /\ Offset = 0 .. P - 1
    BY DEF Word, Page, Offset
  <1>3. q \in Vpn => (q + 1) * P <= M
    BY MachineOK
  <1> HIDE DEF M, P
  <1>4. q \in Nat /\ r \in 0 .. P - 1 /\ a = (q * P) + r
    BY <1>1, QuotientRange
  <1> HIDE DEF q, r
  <1>5. ASSUME q \in Vpn, r + k < P
        PROVE  /\ a + k \in Word /\ (a + k) \div P = q
               /\ (a + k) % P = r + k
    <2>1. r + k \in 0 .. P - 1 /\ a + k \in Int /\ a + k = (q * P) + (r + k) /\ q \in Int
      BY <1>1, <1>4, <1>5
    <2>2. (a + k) \div P = q /\ (a + k) % P = r + k
      BY <1>1, <2>1, DivisionUnique
    <2>3. (q + 1) * P = (q * P) + P /\ q * P \in Nat
      BY <1>1, <1>4
    <2>4. a + k \in 0 .. M - 1
      BY <1>1, <1>3, <1>5, <2>1, <2>3
    <2> QED BY <1>2, <2>2, <2>4
  <1> QED BY <1>2, <1>4, <1>5 DEF q, r, P

\* The same in physical memory.
LEMMA PhysicalIs ==
    ASSUME MemOK, NEW a \in Word, NEW mode, ~Faults(a, mode)
    PROVE  /\ Page(a) \in Vpn /\ pageTable[Page(a)].valid /\ mode \in Flags[Page(a)]
           /\ pageTable[Page(a)].ppn \in Frame /\ a % PageSize \in Offset
           /\ Physical(a) = Cell(pageTable[Page(a)].ppn, a % PageSize)
           /\ \A k \in Nat : (a % PageSize) + k < PageSize =>
                 Physical(a) + k = Cell(pageTable[Page(a)].ppn, (a % PageSize) + k)
  <1>1. Page(a) \in Vpn /\ pageTable[Page(a)].valid /\ mode \in Flags[Page(a)]
    BY DEF Faults
  <1>2. pageTable[Page(a)].ppn \in Frame
    BY <1>1 DEF MemOK, PTE, Frame
  <1>3. a % PageSize \in Offset
    <2>1. 0 \in Nat
      OBVIOUS
    <2> QED BY <2>1, SamePage
  <1>4. Physical(a) = Cell(pageTable[Page(a)].ppn, a % PageSize)
    BY DEF Physical, Cell
  <1>5. ASSUME NEW k \in Nat
        PROVE  Physical(a) + k = Cell(pageTable[Page(a)].ppn, (a % PageSize) + k)
    <2> DEFINE c == pageTable[Page(a)].ppn * PageSize
               o == a % PageSize
    <2>1. c \in Int /\ o \in Int
      <3>1. \A f \in Frame : f \in Int
        BY DEF Frame
      <3>2. \A p \in Offset : p \in Int
        BY DEF Offset
      <3>3. PageSize \in Nat
        BY MachineOK
      <3> QED BY <1>2, <1>3, <3>1, <3>2, <3>3
    <2>2. Physical(a) = c + o /\ Cell(pageTable[Page(a)].ppn, o + k) = c + (o + k)
      BY DEF Physical, Cell
    <2> HIDE DEF c, o
    <2>3. (c + o) + k = c + (o + k)
      BY <2>1
    <2> QED BY <2>2, <2>3 DEF o
  <1> QED BY <1>1, <1>2, <1>3, <1>4, <1>5

\* The memory the thread sees, and the system call it waits for.
Memory == [a \in {a \in Word : Page(a) \in Vpn} |-> Content(a)]
Request == IF trap.type = "Syscall" THEN trap.value ELSE -1

\* What a load delivers.
LEMMA LoadedIs ==
    ASSUME MemOK, NEW a \in Word, ~Faults(a, "r"), NEW op \in DOMAIN LoadForm,
           (a % PageSize) + Width[op] <= PageSize
    PROVE  LET n == Width[op]
               x == LittleEndian(Memory, a, n)
               negative == op \in {"LB", "LH"} /\ x >= 2^(ByteBits * n - 1)
               y == IF negative THEN x - 2^(ByteBits * n) ELSE x
           IN  /\ SignedLoad(op, loadVirtualMemory(a, n)) = Wrap(y)
               /\ Wrap(y) \in Word
  <1> DEFINE n == Width[op]
             x == LittleEndian(Memory, a, n)
             B == 2^(ByteBits * n)
             negative == op \in {"LB", "LH"} /\ x >= 2^(ByteBits * n - 1)
             y == IF negative THEN x - B ELSE x
  <1>1. n \in 1 .. 4 /\ n \in Nat
    BY Operators
  <1>2. ASSUME NEW k \in 0 .. n - 1
        PROVE  ram[Physical(a) + k] \in Byte /\ Memory[a + k] = ram[Physical(a) + k]
    <2> HIDE DEF n
    <2>1. k \in Nat /\ (a % PageSize) + k < PageSize
      <3>1. a % PageSize \in Int /\ PageSize \in Int
        BY PhysicalIs, MachineOK DEF Offset
      <3> QED BY <1>1, <3>1 DEF n
    <2>2. a + k \in Word /\ Page(a + k) = Page(a) /\ (a + k) % PageSize = (a % PageSize) + k
          /\ Page(a) \in Vpn /\ pageTable[Page(a)].valid
      BY <2>1, PhysicalIs, SamePage
    <2>3. (a + k) % PageSize \in Offset /\ pageTable[Page(a)].ppn \in Frame
      <3>1. 0 \in Nat
        OBVIOUS
      <3> QED BY <2>2, <3>1, SamePage, PhysicalIs
    <2>4. Physical(a) + k = Cell(pageTable[Page(a)].ppn, (a % PageSize) + k)
      BY <2>1, PhysicalIs
    <2>5. Physical(a) + k \in PAddr
      BY <2>2, <2>3, <2>4, Cells
    <2>6. Physical(a + k) = Physical(a) + k
      BY <2>2, <2>4 DEF Physical, Cell
    <2>7. Memory[a + k] = Content(a + k) /\ Content(a + k) = ram[Physical(a + k)]
      BY <2>2 DEF Memory, Content
    <2> QED BY <2>5, <2>6, <2>7 DEF MemOK
  <1> HIDE DEF n
  <1>3. HoldsBytes(n, ram, Physical(a))
    BY <1>2 DEF HoldsBytes
  <1>4. x = LittleEndian(ram, Physical(a), n)
    BY <1>1, <1>2, <1>3, SameBytes
  <1>5. x = loadVirtualMemory(a, n)
    BY <1>4 DEF loadVirtualMemory
  <1>6. x \in 0 .. B - 1
    BY <1>1, <1>3, <1>4, LittleEndianRange
  <1>7. B \in Nat \ {0} /\ B <= 2^WordBits
    <2>1. ByteBits * n \in 0 .. 32 /\ WordBits \in 0 .. 32 /\ ByteBits * n <= WordBits
      BY <1>1, ByteBitsOK DEF WordBits
    <2> QED BY <2>1, Powers, PowersGrow, Zenon
  <1>8. x \in Word /\ x \in Int
    <2> DEFINE M == 2^WordBits
    <2>1. M \in Nat \ {0}
      BY WordSizes
    <2>2. Word = 0 .. M - 1
      BY DEF Word
    <2> HIDE DEF B, x, M
    <2> QED BY <1>6, <1>7, <2>1, <2>2 DEF M
  <1> HIDE DEF x
  <1>9. SignedLoad(op, x) = IF negative THEN Wrap(x - B) ELSE x
    BY DEF SignedLoad, n
  <1> HIDE DEF B
  <1>10. x - B \in Int
    BY <1>7, <1>8
  <1>11. SignedLoad(op, x) = Wrap(y) /\ Wrap(y) \in Word
    BY <1>8, <1>9, <1>10, WrapWord
  <1> QED BY <1>5, <1>11 DEF x, B, n

-----------------------------------------------------------------------------
(***************************************************************************)
(* A page fault moves pages and changes no content.                        *)
(***************************************************************************)
\* Page v gets frame f, which the pages W had, one or none.
Swaps(v, f, W) ==
    /\ v \in Vpn /\ ~pageTable[v].valid /\ f \in Frame /\ W \subseteq Vpn
    /\ \A u \in Vpn : pageTable[u].valid /\ pageTable[u].ppn = f => u \in W
    /\ \A u \in W : pageTable[u].valid /\ pageTable[u].ppn = f
    /\ pageTable' = [u \in Vpn |->
          IF u = v THEN [ppn |-> f, valid |-> TRUE, dirty |-> FALSE]
          ELSE IF u \in W THEN [pageTable[u] EXCEPT !.valid = FALSE, !.dirty = FALSE]
          ELSE pageTable[u]]
    /\ Load(v, f)
    /\ backing' = [u \in Vpn |->
          IF u \in W /\ pageTable[u].dirty THEN FrameContent(f) ELSE backing[u]]

\* What that does to the entries, the frames and the copies, one at a time.
EntriesMoved(v, f, W) ==
    /\ v \in Vpn /\ f \in Frame /\ W \subseteq Vpn /\ v \notin W
    /\ \A u \in Vpn : pageTable'[u].valid <=> u = v \/ (pageTable[u].valid /\ u \notin W)
    /\ pageTable'[v] = [ppn |-> f, valid |-> TRUE, dirty |-> FALSE]
    /\ \A u \in Vpn \ (W \cup {v}) : pageTable'[u] = pageTable[u]
    /\ \A u \in W : pageTable'[u].ppn = f /\ ~pageTable'[u].valid

BytesMoved(v, f, W) ==
    /\ \A o \in Offset :
          /\ ram'[Cell(f, o)] = backing[v][o]
          /\ \A g \in Frame \ {f} : ram'[Cell(g, o)] = ram[Cell(g, o)]
    /\ \A u \in Vpn : ~(u \in W /\ pageTable[u].dirty) => backing'[u] = backing[u]
    /\ \A u \in W, o \in Offset :
          pageTable[u].dirty => backing'[u][o] = ram[Cell(f, o)]

LEMMA SwapsEntries ==
    ASSUME MemOK, NEW v, NEW f, NEW W, Swaps(v, f, W)
    PROVE  EntriesMoved(v, f, W) /\ BytesMoved(v, f, W) /\ pageTable' \in [Vpn -> PTE]
  <1>1. v \in Vpn /\ ~pageTable[v].valid /\ f \in Frame /\ W \subseteq Vpn
        /\ \A u \in W : pageTable[u].valid /\ pageTable[u].ppn = f
    BY DEF Swaps
  <1>2. v \notin W
    BY <1>1
  <1>3. \A u \in Vpn : pageTable'[u] =
          IF u = v THEN [ppn |-> f, valid |-> TRUE, dirty |-> FALSE]
          ELSE IF u \in W THEN [pageTable[u] EXCEPT !.valid = FALSE, !.dirty = FALSE]
          ELSE pageTable[u]
    BY DEF Swaps
  <1>4. \A u \in Vpn : pageTable[u] \in PTE
    BY DEF MemOK
  <1>5. \A u \in W : pageTable'[u] \in PTE /\ pageTable'[u].ppn = f /\ ~pageTable'[u].valid
    <2> SUFFICES ASSUME NEW u \in W
                 PROVE  pageTable'[u] \in PTE /\ pageTable'[u].ppn = f
                        /\ ~pageTable'[u].valid
      OBVIOUS
    <2> DEFINE e == pageTable[u]
    <2>1. u \in Vpn /\ u # v /\ e \in PTE /\ e.ppn = f
      BY <1>1, <1>2, <1>4
    <2>2. pageTable'[u] = [e EXCEPT !.valid = FALSE, !.dirty = FALSE]
      BY <1>3, <2>1
    <2> HIDE DEF e
    <2>3. /\ [e EXCEPT !.valid = FALSE, !.dirty = FALSE] \in PTE
          /\ [e EXCEPT !.valid = FALSE, !.dirty = FALSE].ppn = f
          /\ ~[e EXCEPT !.valid = FALSE, !.dirty = FALSE].valid
      BY <2>1 DEF PTE
    <2> QED BY <2>2, <2>3
  <1>6. pageTable'[v] = [ppn |-> f, valid |-> TRUE, dirty |-> FALSE] /\ pageTable'[v] \in PTE
    <2>1. pageTable'[v] = [ppn |-> f, valid |-> TRUE, dirty |-> FALSE]
      BY <1>1, <1>3
    <2>2. [ppn |-> f, valid |-> TRUE, dirty |-> FALSE] \in PTE
      BY <1>1 DEF PTE, Frame
    <2> QED BY <2>1, <2>2
  <1>7. \A u \in Vpn \ (W \cup {v}) : pageTable'[u] = pageTable[u]
    BY <1>3
  <1>8. \A u \in Vpn : pageTable'[u].valid <=> u = v \/ (pageTable[u].valid /\ u \notin W)
    BY <1>5, <1>6, <1>7
  <1>9. pageTable' \in [Vpn -> PTE]
    <2>1. \A u \in Vpn : pageTable'[u] \in PTE
      BY <1>4, <1>5, <1>6, <1>7
    <2>2. \E h : pageTable' = [u \in Vpn |-> h[u]]
      <3> DEFINE h == [u \in Vpn |->
            IF u = v THEN [ppn |-> f, valid |-> TRUE, dirty |-> FALSE]
            ELSE IF u \in W THEN [pageTable[u] EXCEPT !.valid = FALSE, !.dirty = FALSE]
            ELSE pageTable[u]]
      <3>1. pageTable' = h /\ h = [u \in Vpn |-> h[u]]
        BY Zenon DEF Swaps
      <3> QED BY <3>1, Zenon
    <2> QED BY <2>1, <2>2
  <1>10. ASSUME NEW o \in Offset, NEW g \in Frame
         PROVE  ram'[Cell(g, o)] = IF g = f THEN backing[v][o] ELSE ram[Cell(g, o)]
    <2>1. Cell(g, o) \in PAddr /\ Cell(g, o) \div PageSize = g /\ Cell(g, o) % PageSize = o
      BY Cells
    <2>2. \A a \in PAddr : ram'[a] = IF a \div PageSize = f THEN backing[v][a % PageSize] ELSE ram[a]
      BY DEF Swaps, Load
    <2> QED BY <2>1, <2>2
  <1>11. \A u \in Vpn : backing'[u] =
            IF u \in W /\ pageTable[u].dirty THEN FrameContent(f) ELSE backing[u]
    BY Zenon DEF Swaps
  <1>12. \A o \in Offset : FrameContent(f)[o] = ram[Cell(f, o)]
    BY DEF FrameContent, Offset, Cell
  <1>13. EntriesMoved(v, f, W)
    BY <1>1, <1>2, <1>5, <1>6, <1>7, <1>8 DEF EntriesMoved
  <1>14. BytesMoved(v, f, W)
    BY <1>1, <1>10, <1>11, <1>12 DEF BytesMoved
  <1> QED BY <1>9, <1>13, <1>14

LEMMA SwapsKeep ==
    ASSUME MemOK, FramesApart, CopiesOK, NEW v, NEW f, NEW W, Swaps(v, f, W),
           queue' \in Seq(Vpn)
    PROVE  MemOK' /\ FramesApart' /\ CopiesOK'
  <1> DEFINE stays(u) == u \in Vpn \ (W \cup {v}) /\ pageTable[u].valid
  <1>0. EntriesMoved(v, f, W) /\ BytesMoved(v, f, W) /\ pageTable' \in [Vpn -> PTE]
    BY SwapsEntries, Zenon
  <1>1. v \in Vpn /\ f \in Frame /\ W \subseteq Vpn
        /\ \A u \in Vpn : pageTable[u].valid /\ pageTable[u].ppn = f => u \in W
    BY DEF Swaps
  <1>2. \A u \in Vpn : pageTable[u].ppn \in Frame
    BY DEF MemOK, PTE, Frame
  <1>3. \A u \in Vpn : pageTable'[u].valid => u = v \/ stays(u)
    BY <1>0 DEF EntriesMoved, BytesMoved
  <1>4. \A u \in Vpn : stays(u) => pageTable'[u] = pageTable[u] /\ pageTable[u].ppn \in Frame \ {f}
    BY <1>1, <1>2, <1>0 DEF EntriesMoved, BytesMoved
  <1>5. pageTable'[v] = [ppn |-> f, valid |-> TRUE, dirty |-> FALSE] /\ v \notin W
    BY <1>0 DEF EntriesMoved, BytesMoved
  <1>6. FramesApart'
    BY <1>3, <1>4, <1>5 DEF FramesApart
  <1>7. CopiesOK'
    <2> SUFFICES ASSUME NEW u \in Vpn, pageTable'[u].valid, ~pageTable'[u].dirty,
                        NEW o \in Offset
                 PROVE  ram'[Cell(pageTable'[u].ppn, o)] = backing'[u][o]
      BY DEF CopiesOK, Offset, Cell
    <2>1. CASE u = v
      <3>1. ram'[Cell(f, o)] = backing[v][o] /\ backing'[v] = backing[v]
        BY <1>1, <1>5, <1>0 DEF EntriesMoved, BytesMoved
      <3>2. pageTable'[u].ppn = f
        BY <1>5, <2>1
      <3> QED BY <2>1, <3>1, <3>2
    <2>2. CASE u # v
      <3>1. stays(u) /\ pageTable'[u] = pageTable[u] /\ pageTable[u].ppn \in Frame \ {f}
        BY <1>3, <1>4, <2>2
      <3>2. ram'[Cell(pageTable[u].ppn, o)] = ram[Cell(pageTable[u].ppn, o)]
        BY <3>1, <1>0 DEF EntriesMoved, BytesMoved
      <3>3. backing'[u] = backing[u]
        BY <3>1, <1>0 DEF EntriesMoved, BytesMoved
      <3>4. ram[Cell(pageTable[u].ppn, o)] = backing[u][o]
        BY <3>1 DEF CopiesOK, Offset, Cell
      <3> QED BY <3>1, <3>2, <3>3, <3>4
    <2> QED BY <2>1, <2>2
  <1>8. ram' \in [PAddr -> Byte]
    <2>1. \A a \in PAddr : (IF a \div PageSize = f THEN backing[v][a % PageSize] ELSE ram[a]) \in Byte
      <3>1. \A a \in PAddr : a % PageSize \in Offset /\ ram[a] \in Byte
        BY Cells DEF MemOK
      <3>2. backing[v] \in [Offset -> Byte]
        BY <1>1 DEF MemOK, Offset
      <3> QED BY <3>1, <3>2
    <2>2. ram' = [a \in PAddr |-> IF a \div PageSize = f THEN backing[v][a % PageSize] ELSE ram[a]]
      BY DEF Swaps, Load
    <2> QED BY <2>1, <2>2
  <1>9. backing' \in [Vpn -> [0 .. PageSize - 1 -> Byte]]
    <2>1. \A o \in Offset : f * PageSize + o \in PAddr
      BY <1>1, Cells DEF Cell
    <2>2. FrameContent(f) \in [0 .. PageSize - 1 -> Byte]
      BY <2>1 DEF FrameContent, MemOK, Offset
    <2>3. \A u \in Vpn : (IF u \in W /\ pageTable[u].dirty THEN FrameContent(f) ELSE backing[u])
                           \in [0 .. PageSize - 1 -> Byte]
      BY <2>2 DEF MemOK
    <2>4. backing' = [u \in Vpn |->
             IF u \in W /\ pageTable[u].dirty THEN FrameContent(f) ELSE backing[u]]
      BY Zenon DEF Swaps
    <2> QED BY <2>3, <2>4
  <1>10. MemOK'
    BY <1>8, <1>9, <1>0 DEF MemOK, EntriesMoved, BytesMoved
  <1> QED BY <1>6, <1>7, <1>10

\* The thread sees the same memory.
LEMMA SwapsInvisible ==
    ASSUME MemOK, CopiesOK, NEW v, NEW f, NEW W, Swaps(v, f, W)
    PROVE  Memory' = Memory
  <1>0. EntriesMoved(v, f, W) /\ BytesMoved(v, f, W)
    BY SwapsEntries, Zenon
  <1>1. v \in Vpn /\ f \in Frame /\ W \subseteq Vpn /\ ~pageTable[v].valid
        /\ (\A u \in Vpn : pageTable[u].valid /\ pageTable[u].ppn = f => u \in W)
        /\ \A u \in W : pageTable[u].valid /\ pageTable[u].ppn = f
    BY DEF Swaps
  <1>2. ASSUME NEW a \in Word, Page(a) \in Vpn PROVE Content(a)' = Content(a)
    <2> DEFINE u == Page(a)
               o == a % PageSize
    <2>1. o \in Offset
      <3>1. 0 \in Nat
        OBVIOUS
      <3> QED BY <3>1, SamePage
    <2>2. /\ Content(a) = IF pageTable[u].valid THEN ram[Cell(pageTable[u].ppn, o)]
                          ELSE backing[u][o]
          /\ Content(a)' = IF pageTable'[u].valid THEN ram'[Cell(pageTable'[u].ppn, o)]
                           ELSE backing'[u][o]
      BY DEF Content, Physical, Cell
    <2>3. u \in Vpn /\ pageTable[u].ppn \in Frame
      BY <1>2 DEF MemOK, PTE, Frame
    <2> HIDE DEF u, o
    <2>4. CASE u = v
      <3>1. Content(a) = backing[v][o]
        BY <1>1, <2>2, <2>4
      <3>2. pageTable'[v].valid /\ pageTable'[v].ppn = f /\ ram'[Cell(f, o)] = backing[v][o]
        BY <2>1, <1>0 DEF EntriesMoved, BytesMoved
      <3> QED BY <2>2, <2>4, <3>1, <3>2
    <2>5. CASE u \in W
      <3>1. ~pageTable'[u].valid /\ pageTable[u].valid /\ pageTable[u].ppn = f
        BY <1>1, <2>5, <1>0 DEF EntriesMoved, BytesMoved
      <3>2. pageTable[u].dirty => backing'[u][o] = ram[Cell(f, o)]
        BY <2>1, <2>5, <1>0 DEF EntriesMoved, BytesMoved
      <3>3. ~pageTable[u].dirty => backing'[u][o] = backing[u][o]
        BY <2>3, <1>0 DEF EntriesMoved, BytesMoved
      <3>4. ~pageTable[u].dirty => ram[Cell(f, o)] = backing[u][o]
        BY <2>1, <2>3, <3>1 DEF CopiesOK, Offset, Cell
      <3> QED BY <2>2, <3>1, <3>2, <3>3, <3>4
    <2>6. CASE u # v /\ u \notin W
      <3>1. pageTable'[u] = pageTable[u] /\ backing'[u] = backing[u]
        BY <2>3, <2>6, <1>0 DEF EntriesMoved, BytesMoved
      <3>2. pageTable[u].valid => pageTable[u].ppn \in Frame \ {f}
        BY <1>1, <2>3, <2>6
      <3>3. pageTable[u].valid => ram'[Cell(pageTable[u].ppn, o)] = ram[Cell(pageTable[u].ppn, o)]
        BY <2>1, <3>2, <1>0 DEF EntriesMoved, BytesMoved
      <3> QED BY <2>2, <3>1, <3>3
    <2> QED BY <2>4, <2>5, <2>6
  <1> QED BY <1>2 DEF Memory

-----------------------------------------------------------------------------
(***************************************************************************)
(* The queue of resident pages.                                            *)
(***************************************************************************)
\* The queue r is q without its first page, and v at the end.
Moves(q, r, v) ==
    /\ r \in Seq(Vpn) /\ Len(r) = Len(q) /\ r[Len(q)] = v
    /\ \A k \in 1 .. Len(q) - 1 : r[k] = q[k + 1]

LEMMA FirstOut ==
    ASSUME NEW q \in Seq(Vpn), NEW v \in Vpn, Len(q) > 0
    PROVE  Moves(q, Append(Without(q, VictimIndex), v), v)
  <1> DEFINE n == Len(q)
             s == SubSeq(q, 2, n)
  <1>1. n \in Nat \ {0} /\ \A k \in 2 .. n : q[k] \in Vpn
    OBVIOUS
  <1>2. SubSeq(q, 1, 0) = <<>>
    BY SubSeqEmpty
  <1>3. /\ s \in Seq(Vpn) /\ Len(s) = n - 1
        /\ \A k \in 1 .. n - 1 : s[k] = q[k + 1]
    <2> HIDE DEF n
    <2>1. /\ SubSeq(q, 2, n) \in Seq(Vpn)
          /\ Len(SubSeq(q, 2, n)) = IF 2 <= n THEN n - 2 + 1 ELSE 0
          /\ \A k \in 1 .. n - 2 + 1 : SubSeq(q, 2, n)[k] = q[2 + k - 1]
      BY <1>1, SubSeqProperties
    <2>2. (n - 2) + 1 = n - 1 /\ \A k \in 1 .. n - 1 : 2 + k - 1 = k + 1
      BY <1>1
    <2> QED BY <1>1, <2>1, <2>2
  <1>4. Without(q, VictimIndex) = s
    <2>1. <<>> \o s = s
      BY <1>3, ConcatEmptySeq
    <2>2. Without(q, VictimIndex) = SubSeq(q, 1, 0) \o s
      BY DEF Without, VictimIndex
    <2> QED BY <1>2, <2>1, <2>2
  <1> HIDE DEF s
  <1>5. Append(s, v) \in Seq(Vpn) /\ Len(Append(s, v)) = n /\ Append(s, v)[n] = v
        /\ \A k \in 1 .. n - 1 : Append(s, v)[k] = s[k]
    BY <1>1, <1>3
  <1> QED BY <1>3, <1>4, <1>5 DEF Moves

LEMMA LastIn ==
    ASSUME NEW q \in Seq(Vpn), NEW v \in Vpn
    PROVE  /\ Append(q, v) \in Seq(Vpn) /\ Len(Append(q, v)) = Len(q) + 1
           /\ Append(q, v)[Len(q) + 1] = v
           /\ \A k \in 1 .. Len(q) : Append(q, v)[k] = q[k]
  OBVIOUS

\* A page fault that finds a free frame takes the next one; one that does not
\* takes the frame of the first page in the queue.
LEMMA PageFaultSwaps ==
    ASSUME MemOK, QueueOK, FramesApart, HandlePageFault
    PROVE  LET v == Page(trap.value)
           IN  \/ /\ Len(queue) < NumFrames
                  /\ Swaps(v, Len(queue), {})
                  /\ queue' = Append(queue, v)
               \/ /\ Len(queue) = NumFrames /\ NumFrames > 0
                  /\ Swaps(v, pageTable[queue[1]].ppn, {queue[1]})
                  /\ Moves(queue, queue', v)
  <1> DEFINE v == Page(trap.value)
             n == Len(queue)
             w == queue[1]
             f == pageTable[w].ppn
             X(g) == [ppn |-> g, valid |-> TRUE, dirty |-> FALSE]
  <1>1. v \in Vpn /\ ~pageTable[v].valid /\ n \in Nat /\ pageTable \in [Vpn -> PTE]
        /\ NumFrames \in Nat \ {0} /\ queue \in Seq(Vpn)
    BY MachineOK DEF HandlePageFault, MemOK
  <1>2. \A u \in Vpn : pageTable[u] \in PTE /\ pageTable[u].ppn \in Frame
    BY <1>1 DEF PTE, Frame
  <1>3. backing = [u \in Vpn |-> backing[u]]
    BY DEF MemOK
  <1>4. ASSUME n < NumFrames, Load(v, n), queue' = Append(queue, v),
               pageTable' = [pageTable EXCEPT ![v] = X(n)],
               UNCHANGED backing
        PROVE  Swaps(v, n, {}) /\ queue' = Append(queue, v)
    <2>1. n \in Frame
      BY <1>1, <1>4 DEF Frame
    <2>2. \A u \in Vpn : ~(pageTable[u].valid /\ pageTable[u].ppn = n)
      <3>1. \A u \in Vpn : pageTable[u].valid => pageTable[u].ppn < n
        BY DEF QueueOK
      <3>2. ~(n < n)
        BY <1>1
      <3> QED BY <3>1, <3>2
    <2>3. pageTable' = [u \in Vpn |->
            IF u = v THEN X(n)
            ELSE IF u \in {} THEN [pageTable[u] EXCEPT !.valid = FALSE, !.dirty = FALSE]
            ELSE pageTable[u]]
      BY <1>1, <1>4
    <2>4. backing' = [u \in Vpn |->
            IF u \in {} /\ pageTable[u].dirty THEN FrameContent(n) ELSE backing[u]]
      BY <1>3, <1>4
    <2> QED BY <1>1, <1>4, <2>1, <2>2, <2>3, <2>4 DEF Swaps
  <1>5. ASSUME n = NumFrames, Load(v, f),
               queue' = Append(Without(queue, VictimIndex), v),
               pageTable' = [pageTable EXCEPT
                  ![v] = X(f), ![w].valid = FALSE, ![w].dirty = FALSE],
               backing' = IF pageTable[w].dirty
                            THEN [backing EXCEPT ![w] = FrameContent(f)]
                            ELSE backing
        PROVE  Swaps(v, f, {w}) /\ Moves(queue, queue', v)
    <2>1. 1 \in 1 .. n /\ n > 0
      BY <1>1, <1>5
    <2>2. w \in Vpn /\ pageTable[w].valid
      BY <1>1, <2>1 DEF QueueOK
    <2>3. f \in Frame /\ w # v
      BY <1>1, <1>2, <2>2
    <2>4. \A u \in Vpn : pageTable[u].valid /\ pageTable[u].ppn = f => u \in {w}
      BY <2>2 DEF FramesApart
    <2>5. pageTable' = [u \in Vpn |->
            IF u = v THEN X(f)
            ELSE IF u \in {w} THEN [pageTable[u] EXCEPT !.valid = FALSE, !.dirty = FALSE]
            ELSE pageTable[u]]
      <3> DEFINE g == [pageTable EXCEPT ![v] = X(f)]
                 a == [g EXCEPT ![w].valid = FALSE]
                 b == [a EXCEPT ![w].dirty = FALSE]
      <3>1. pageTable' = b
        BY <1>5, Zenon
      <3>2. v \in Vpn /\ w \in Vpn /\ v # w /\ pageTable \in [Vpn -> PTE]
        BY <1>1, <2>2, <2>3
      <3>3. DOMAIN g = Vpn /\ \A u \in Vpn : g[u] = IF u = v THEN X(f) ELSE pageTable[u]
        <4> HIDE DEF w, f, v, n, X
        <4> QED BY <3>2
      <3> HIDE DEF g
      <3>4. DOMAIN a = Vpn /\ \A u \in Vpn : a[u] = IF u = w THEN [g[w] EXCEPT !.valid = FALSE] ELSE g[u]
        <4> HIDE DEF w, f, v, n, X
        <4> QED BY <3>2, <3>3
      <3> HIDE DEF a
      <3>5. b = [u \in Vpn |-> IF u = w THEN [a[w] EXCEPT !.dirty = FALSE] ELSE a[u]]
        <4> HIDE DEF w, f, v, n, X
        <4> QED BY <3>2, <3>4
      <3> HIDE DEF b
      <3>6. \A u \in Vpn :
              (IF u = w THEN [a[w] EXCEPT !.dirty = FALSE] ELSE a[u])
              = IF u = v THEN X(f)
                ELSE IF u \in {w} THEN [pageTable[u] EXCEPT !.valid = FALSE, !.dirty = FALSE]
                ELSE pageTable[u]
        <4>1. g[w] = pageTable[w]
          BY <3>2, <3>3
        <4>2. a[w] = [pageTable[w] EXCEPT !.valid = FALSE]
          BY <3>2, <3>4, <4>1, Zenon
        <4>3. [a[w] EXCEPT !.dirty = FALSE]
              = [pageTable[w] EXCEPT !.valid = FALSE, !.dirty = FALSE]
          BY <4>2
        <4>4. \A u \in Vpn : u # w => a[u] = IF u = v THEN X(f) ELSE pageTable[u]
          BY <3>2, <3>3, <3>4, Zenon
        <4> HIDE DEF w, f, v, n, X
        <4> QED BY <3>2, <4>3, <4>4
      <3> HIDE DEF w, f, v, n, X
      <3> QED BY <3>1, <3>5, <3>6
    <2>6. backing' = [u \in Vpn |->
            IF u \in {w} /\ pageTable[u].dirty THEN FrameContent(f) ELSE backing[u]]
      <3> HIDE DEF w, f, v, n
      <3> QED BY <1>3, <1>5, <2>2
    <2>7. Moves(queue, queue', v)
      BY <1>1, <1>5, <2>1, FirstOut
    <2>8. \A u \in {w} : pageTable[u].valid /\ pageTable[u].ppn = f
      BY <2>2
    <2> HIDE DEF w, f, v, n
    <2> QED BY <1>1, <1>5, <2>2, <2>3, <2>4, <2>5, <2>6, <2>7, <2>8 DEF Swaps
  <1>6. \/ /\ n < NumFrames /\ Load(v, n) /\ queue' = Append(queue, v)
           /\ pageTable' = [pageTable EXCEPT ![v] = X(n)]
           /\ UNCHANGED backing
        \/ /\ n = NumFrames /\ Load(v, f)
           /\ queue' = Append(Without(queue, VictimIndex), v)
           /\ pageTable' = [pageTable EXCEPT
                 ![v] = X(f), ![w].valid = FALSE, ![w].dirty = FALSE]
           /\ backing' = IF pageTable[w].dirty
                           THEN [backing EXCEPT ![w] = FrameContent(f)]
                           ELSE backing
    BY Zenon DEF HandlePageFault, VictimIndex
  <1>7. n = NumFrames => NumFrames > 0
    BY <1>1
  <1> QED BY <1>4, <1>5, <1>6, <1>7

LEMMA PageFaultQueue ==
    ASSUME MemOK, QueueOK, FramesApart, HandlePageFault
    PROVE  QueueOK' /\ queue' \in Seq(Vpn)
  <1> DEFINE v == Page(trap.value)
             n == Len(queue)
  <1>1. n \in Nat /\ NumFrames \in Nat \ {0} /\ queue \in Seq(Vpn) /\ n <= NumFrames
        /\ v \in Vpn /\ ~pageTable[v].valid
        /\ \A k \in 1 .. n : queue[k] \in Vpn
    BY MachineOK DEF HandlePageFault, MemOK, QueueOK
  <1>2. \A u \in Vpn : pageTable[u].valid <=> \E k \in 1 .. n : queue[k] = u
    BY DEF QueueOK
  <1>3. \A j, k \in 1 .. n : queue[j] = queue[k] => j = k
    BY DEF QueueOK
  <1>4. \A u \in Vpn : pageTable[u].valid => pageTable[u].ppn < n
    BY DEF QueueOK
  <1>5. \A k \in 1 .. n : queue[k] # v
    BY <1>1, <1>2
  <1>6. \A u \in Vpn : pageTable[u].ppn \in Int
    BY DEF MemOK, PTE
  <1>7. CASE n < NumFrames /\ Swaps(v, n, {}) /\ queue' = Append(queue, v)
    <2>1. EntriesMoved(v, n, {})
      BY <1>7, SwapsEntries, Zenon
    <2>2. /\ queue' \in Seq(Vpn) /\ Len(queue') = n + 1 /\ queue'[n + 1] = v
          /\ \A k \in 1 .. n : queue'[k] = queue[k]
      BY <1>1, <1>7, LastIn
    <2>3. \A u \in Vpn : pageTable'[u].valid <=> u = v \/ pageTable[u].valid
      BY <2>1 DEF EntriesMoved
    <2> HIDE DEF n, v
    <2>7. 1 .. n + 1 = (1 .. n) \cup {n + 1}
      BY <1>1
    <2>4. \A u \in Vpn : pageTable'[u].valid <=> \E k \in 1 .. n + 1 : queue'[k] = u
      BY <1>2, <2>2, <2>3, <2>7
    <2>5. \A j, k \in 1 .. n + 1 : queue'[j] = queue'[k] => j = k
      BY <1>3, <1>5, <2>2, <2>7
    <2>6. \A u \in Vpn : pageTable'[u].valid => pageTable'[u].ppn < n + 1
      <3>1. pageTable'[v].ppn = n
        BY <2>1 DEF EntriesMoved
      <3>2. \A u \in Vpn : u # v => pageTable'[u] = pageTable[u]
        BY <2>1 DEF EntriesMoved
      <3> QED BY <1>1, <1>4, <1>6, <2>3, <3>1, <3>2
    <2> QED BY <1>1, <1>7, <2>2, <2>4, <2>5, <2>6 DEF QueueOK
  <1>8. CASE n = NumFrames /\ Swaps(v, pageTable[queue[1]].ppn, {queue[1]})
             /\ Moves(queue, queue', v)
    <2> DEFINE w == queue[1]
               f == pageTable[w].ppn
    <2>1. EntriesMoved(v, f, {w})
      BY <1>8, SwapsEntries, Zenon
    <2>2. /\ queue' \in Seq(Vpn) /\ Len(queue') = n /\ queue'[n] = v
          /\ \A k \in 1 .. n - 1 : queue'[k] = queue[k + 1]
      BY <1>8 DEF Moves
    <2>3. \A u \in Vpn : pageTable'[u].valid <=> u = v \/ (pageTable[u].valid /\ u # w)
      BY <2>1 DEF EntriesMoved
    <2>4. n >= 1 /\ w \in Vpn /\ w # v /\ pageTable[w].valid
      BY <1>1, <1>2, <1>8
    <2> HIDE DEF f
    <2>5. \A u \in Vpn : pageTable'[u].valid <=> \E k \in 1 .. n : queue'[k] = u
      <3> SUFFICES ASSUME NEW u \in Vpn
                   PROVE  pageTable'[u].valid <=> \E k \in 1 .. n : queue'[k] = u
        OBVIOUS
      <3>1. ASSUME NEW k \in 1 .. n, queue[k] = u, k # 1
            PROVE  k - 1 \in 1 .. n - 1 /\ k - 1 \in 1 .. n /\ queue'[k - 1] = u
        <4>1. k - 1 \in 1 .. n - 1 /\ k - 1 \in 1 .. n /\ (k - 1) + 1 = k
          BY <1>1, <3>1
        <4> QED BY <2>2, <3>1, <4>1
      <3>2. ASSUME NEW k \in 1 .. n, queue'[k] = u, k # n
            PROVE  k + 1 \in 1 .. n /\ queue[k + 1] = u /\ k + 1 # 1
        <4>1. k \in 1 .. n - 1 /\ k + 1 \in 1 .. n /\ k + 1 # 1
          BY <1>1, <3>2
        <4> QED BY <2>2, <3>2, <4>1
      <3>3. pageTable'[u].valid => \E k \in 1 .. n : queue'[k] = u
        <4>1. n \in 1 .. n
          BY <1>1, <2>4
        <4>2. CASE u = v
          BY <2>2, <4>1, <4>2
        <4>3. ASSUME pageTable[u].valid, u # w PROVE \E k \in 1 .. n : queue'[k] = u
          <5>1. PICK k \in 1 .. n : queue[k] = u
            BY <1>2, <4>3
          <5>2. k # 1
            BY <4>3, <5>1
          <5> QED BY <3>1, <5>1, <5>2
        <4> QED BY <2>3, <4>2, <4>3
      <3>4. ASSUME NEW k \in 1 .. n, queue'[k] = u PROVE pageTable'[u].valid
        <4>1. CASE k = n
          BY <2>2, <2>3, <3>4, <4>1
        <4>2. CASE k # n
          <5>1. k + 1 \in 1 .. n /\ queue[k + 1] = u /\ k + 1 # 1
            BY <3>2, <3>4, <4>2
          <5>2. 1 \in 1 .. n
            BY <1>1, <2>4
          <5>3. pageTable[u].valid
            BY <1>2, <5>1
          <5>4. u # w
            BY <1>3, <5>1, <5>2
          <5> QED BY <2>3, <5>3, <5>4
        <4> QED BY <4>1, <4>2
      <3> QED BY <3>3, <3>4
    <2>6. \A j, k \in 1 .. n : queue'[j] = queue'[k] => j = k
      <3> SUFFICES ASSUME NEW j \in 1 .. n, NEW k \in 1 .. n, queue'[j] = queue'[k]
                   PROVE  j = k
        OBVIOUS
      <3>1. ASSUME NEW l \in 1 .. n, l # n PROVE l + 1 \in 1 .. n /\ queue'[l] = queue[l + 1]
        <4>1. l \in 1 .. n - 1 /\ l + 1 \in 1 .. n
          BY <1>1, <3>1
        <4> QED BY <2>2, <4>1
      <3>2. CASE j # n /\ k # n
        <4>1. j + 1 = k + 1
          BY <1>3, <3>1, <3>2
        <4> QED BY <1>1, <4>1
      <3>3. CASE j = n /\ k # n
        BY <1>5, <2>2, <3>1, <3>3
      <3>4. CASE j # n /\ k = n
        BY <1>5, <2>2, <3>1, <3>4
      <3> QED BY <3>2, <3>3, <3>4
    <2>7. \A u \in Vpn : pageTable'[u].valid => pageTable'[u].ppn < n
      <3>1. pageTable'[v].ppn = f /\ f < n
        BY <1>4, <2>1, <2>4 DEF EntriesMoved, f
      <3>2. \A u \in Vpn : u # v /\ u # w => pageTable'[u] = pageTable[u]
        BY <2>1 DEF EntriesMoved
      <3> QED BY <1>1, <1>4, <1>6, <2>3, <3>1, <3>2
    <2> QED BY <1>1, <2>2, <2>5, <2>6, <2>7 DEF QueueOK
  <1> QED BY <1>7, <1>8, PageFaultSwaps

-----------------------------------------------------------------------------
(***************************************************************************)
(* A store changes the bytes at its address and no others.                 *)
(***************************************************************************)
LEMMA SamePlace ==
    ASSUME NEW a \in Word, NEW b \in Word, NEW n \in 1 .. 4,
           Page(a) \in Vpn, (a % PageSize) + n <= PageSize
    PROVE  /\ b \in a .. a + n - 1 <=>
                 Page(b) = Page(a) /\ (b % PageSize) - (a % PageSize) \in 0 .. n - 1
           /\ Page(b) = Page(a) => b - a = (b % PageSize) - (a % PageSize)
  <1> DEFINE P == PageSize
             o == a % P
             p == b % P
  <1>1. P \in Nat \ {0} /\ a \in Nat /\ b \in Nat /\ n \in Nat
    BY MachineOK, WordInt
  <1>2. a = (Page(a) * P) + o /\ o \in Int /\ Page(a) \in Nat
    <2> HIDE DEF P
    <2>1. a = ((a \div P) * P) + (a % P) /\ a % P \in 0 .. P - 1 /\ a \div P \in Nat
      BY <1>1, QuotientRange
    <2> QED BY <2>1 DEF Page, P
  <1>3. b = (Page(b) * P) + p /\ p \in Int /\ Page(b) \in Nat
    <2> HIDE DEF P
    <2>1. b = ((b \div P) * P) + (b % P) /\ b % P \in 0 .. P - 1 /\ b \div P \in Nat
      BY <1>1, QuotientRange
    <2> QED BY <2>1 DEF Page, P
  <1>4. ASSUME Page(b) = Page(a) PROVE b - a = p - o
    <2> DEFINE c == Page(a) * P
    <2>1. c \in Int
      BY <1>1, <1>2
    <2>2. b = c + p /\ a = c + o
      BY <1>2, <1>3, <1>4
    <2> HIDE DEF c, p, o
    <2> QED BY <1>2, <1>3, <2>1, <2>2
  <1>5. ASSUME b \in a .. a + n - 1 PROVE Page(b) = Page(a) /\ p - o \in 0 .. n - 1
    <2> DEFINE k == b - a
    <2>1. k \in Nat /\ k <= n - 1 /\ a + k = b
      BY <1>1, <1>5
    <2>2. o + k < P
      <3> HIDE DEF o, P, k
      <3>1. o + n <= P
        BY DEF o, P
      <3> QED BY <1>1, <1>2, <2>1, <3>1
    <2> HIDE DEF k
    <2>3. Page(a + k) = Page(a)
      BY <2>1, <2>2, SamePage
    <2>4. k = p - o
      BY <1>4, <2>1, <2>3 DEF k
    <2> QED BY <1>1, <2>1, <2>3, <2>4
  <1>6. ASSUME Page(b) = Page(a), p - o \in 0 .. n - 1 PROVE b \in a .. a + n - 1
    BY <1>1, <1>4, <1>6
  <1> QED BY <1>4, <1>5, <1>6

\* What storeVirtualMemory does, byte by byte.
LEMMA StoredBytes ==
    ASSUME MemOK, NEW a \in Word, NEW n \in 1 .. 4, NEW x, ~Faults(a, "w"),
           (a % PageSize) + n <= PageSize, storeVirtualMemory(a, n, x)
    PROVE  \A g \in Frame, p \in Offset :
              ram'[Cell(g, p)] =
                  IF g = pageTable[Page(a)].ppn /\ p - (a % PageSize) \in 0 .. n - 1
                    THEN ByteOf(x, p - (a % PageSize)) ELSE ram[Cell(g, p)]
  <1> DEFINE f == pageTable[Page(a)].ppn
             o == a % PageSize
             P == PageSize
  <1>1. /\ f \in Frame /\ o \in Offset /\ Physical(a) = Cell(f, o)
        /\ \A k \in Nat : o + k < P => Physical(a) + k = Cell(f, o + k)
    BY PhysicalIs
  <1>2. P \in Nat \ {0} /\ o + n <= P /\ n \in Nat
    BY MachineOK
  <1>3. \A q \in Offset : q \in Nat /\ q < P
    BY <1>2 DEF Offset
  <1>4. \A q \in Nat : q < P => q \in Offset
    BY <1>2 DEF Offset
  <1>5. \A b \in PAddr : b \in Int
    BY <1>2, MachineOK DEF PAddr
  <1>6. \A b \in PAddr :
           ram'[b] = IF b - Physical(a) \in 0 .. n - 1
                       THEN ByteOf(x, b - Physical(a)) ELSE ram[b]
    BY DEF storeVirtualMemory
  <1> HIDE DEF f, o, P
  <1>7. ASSUME NEW g \in Frame, NEW p \in Offset
        PROVE  ram'[Cell(g, p)] = IF g = f /\ p - o \in 0 .. n - 1
                                    THEN ByteOf(x, p - o) ELSE ram[Cell(g, p)]
    <2> DEFINE b == Cell(g, p)
               c == Physical(a)
    <2>1. b \in PAddr /\ b \in Int /\ c \in Int
      BY <1>1, <1>5, Cells
    <2>2. ASSUME b - c \in 0 .. n - 1 PROVE g = f /\ p - o \in 0 .. n - 1 /\ b - c = p - o
      <3> DEFINE k == b - c
      <3>1. k \in Nat /\ k <= n - 1 /\ c + k = b
        <4> HIDE DEF b, c
        <4> QED BY <1>2, <2>1, <2>2
      <3> HIDE DEF k
      <3>2. o + k < P /\ o + k \in Nat
        BY <1>1, <1>2, <1>3, <3>1
      <3>3. b = Cell(f, o + k) /\ o + k \in Offset
        BY <1>1, <1>4, <3>1, <3>2
      <3>4. g = f /\ p = o + k
        BY <1>1, <3>3, Cells
      <3>5. k = p - o
        BY <1>1, <1>3, <3>1, <3>4
      <3>6. p - o \in 0 .. n - 1
        BY <1>2, <3>1, <3>5
      <3> QED BY <3>4, <3>5, <3>6 DEF k
    <2>3. ASSUME g = f, p - o \in 0 .. n - 1 PROVE b - c \in 0 .. n - 1
      <3> DEFINE k == p - o
      <3>1. k \in Nat /\ o + k = p
        BY <1>1, <1>3, <1>2, <2>3
      <3> HIDE DEF k
      <3>2. c + k = b
        BY <1>1, <1>3, <2>3, <3>1
      <3>3. b - c = k
        <4> HIDE DEF b, c
        <4> QED BY <2>1, <3>1, <3>2
      <3> QED BY <2>3, <3>3 DEF k
    <2>4. ram'[b] = IF b - c \in 0 .. n - 1 THEN ByteOf(x, b - c) ELSE ram[b]
      BY <1>6, <2>1
    <2> HIDE DEF b, c
    <2> QED BY <2>2, <2>3, <2>4 DEF b
  <1> QED BY <1>7 DEF f, o

LEMMA StoreKeeps ==
    ASSUME MemOK, QueueOK, FramesApart, CopiesOK,
           NEW a \in Word, NEW n \in 1 .. 4, NEW x \in Word, ~Faults(a, "w"),
           (a % PageSize) + n <= PageSize, storeVirtualMemory(a, n, x),
           UNCHANGED <<queue, backing>>
    PROVE  /\ MemOK' /\ QueueOK' /\ FramesApart' /\ CopiesOK'
           /\ Memory' = [b \in {b \in Word : Page(b) \in Vpn} |->
                 IF b \in a .. a + n - 1 THEN ByteOf(x, b - a) ELSE Memory[b]]
  <1> DEFINE v == Page(a)
             f == pageTable[v].ppn
             o == a % PageSize
  <1>1. v \in Vpn /\ pageTable[v].valid /\ f \in Frame /\ o \in Offset
    BY PhysicalIs
  <1>2. pageTable \in [Vpn -> PTE] /\ \A u \in Vpn : pageTable[u].ppn \in Frame
    BY DEF MemOK, PTE, Frame
  <1>3. pageTable' = [pageTable EXCEPT ![v] = [pageTable[v] EXCEPT !.dirty = TRUE]]
    BY DEF storeVirtualMemory
  <1>4. /\ \A u \in Vpn : /\ pageTable'[u].valid = pageTable[u].valid
                          /\ pageTable'[u].ppn = pageTable[u].ppn
                          /\ u # v => pageTable'[u].dirty = pageTable[u].dirty
        /\ pageTable'[v].dirty
        /\ pageTable' \in [Vpn -> PTE]
    <2>1. pageTable[v] \in PTE
      BY <1>1, <1>2
    <2>2. [pageTable[v] EXCEPT !.dirty = TRUE] \in PTE
          /\ [pageTable[v] EXCEPT !.dirty = TRUE].valid = pageTable[v].valid
          /\ [pageTable[v] EXCEPT !.dirty = TRUE].ppn = pageTable[v].ppn
          /\ [pageTable[v] EXCEPT !.dirty = TRUE].dirty
      BY <2>1 DEF PTE
    <2> HIDE DEF v
    <2> QED BY <1>1, <1>2, <1>3, <2>2
  <1>5. \A g \in Frame, p \in Offset :
           ram'[Cell(g, p)] = IF g = f /\ p - o \in 0 .. n - 1
                                THEN ByteOf(x, p - o) ELSE ram[Cell(g, p)]
    BY StoredBytes
  <1>6. backing' = backing /\ queue' = queue
    OBVIOUS
  <1>7. \A u \in Vpn : pageTable[u].valid /\ pageTable[u].ppn = f => u = v
    BY <1>1 DEF FramesApart
  <1> HIDE DEF v, f, o
  <1>8. QueueOK' /\ FramesApart'
    BY <1>4, <1>6 DEF QueueOK, FramesApart
  <1>9. CopiesOK'
    <2> SUFFICES ASSUME NEW u \in Vpn, pageTable'[u].valid, ~pageTable'[u].dirty,
                        NEW p \in Offset
                 PROVE  ram'[Cell(pageTable'[u].ppn, p)] = backing'[u][p]
      BY DEF CopiesOK, Offset, Cell
    <2>1. u # v /\ pageTable[u].valid /\ ~pageTable[u].dirty /\ pageTable'[u].ppn = pageTable[u].ppn
      BY <1>4
    <2>2. pageTable[u].ppn \in Frame /\ pageTable[u].ppn # f
      BY <1>2, <1>7, <2>1
    <2>3. ram'[Cell(pageTable[u].ppn, p)] = ram[Cell(pageTable[u].ppn, p)]
      BY <1>5, <2>2
    <2>4. ram[Cell(pageTable[u].ppn, p)] = backing[u][p]
      BY <2>1 DEF CopiesOK, Offset, Cell
    <2> QED BY <1>6, <2>1, <2>3, <2>4
  <1>10. MemOK'
    <2>1. \A k \in 0 .. n - 1 : k \in 0 .. 3
      OBVIOUS
    <2>2. \A b \in PAddr : (IF b - Physical(a) \in 0 .. n - 1
                             THEN ByteOf(x, b - Physical(a)) ELSE ram[b]) \in Byte
      BY <2>1, ByteOfRange DEF MemOK
    <2>3. ram' = [b \in PAddr |-> IF b - Physical(a) \in 0 .. n - 1
                                    THEN ByteOf(x, b - Physical(a)) ELSE ram[b]]
      BY Zenon DEF storeVirtualMemory
    <2>4. ram' \in [PAddr -> Byte]
      BY <2>2, <2>3
    <2> QED BY <1>4, <1>6, <2>4 DEF MemOK
  <1>11. ASSUME NEW b \in Word, Page(b) \in Vpn
         PROVE  Content(b)' = IF b \in a .. a + n - 1 THEN ByteOf(x, b - a) ELSE Content(b)
    <2> DEFINE u == Page(b)
               p == b % PageSize
    <2>1. p \in Offset
      <3>1. 0 \in Nat
        OBVIOUS
      <3> QED BY <3>1, SamePage
    <2>2. /\ b \in a .. a + n - 1 <=> u = v /\ p - o \in 0 .. n - 1
          /\ u = v => b - a = p - o
      <3>1. Page(a) \in Vpn
        BY <1>1 DEF v
      <3> HIDE DEF u, p
      <3> QED BY <3>1, SamePlace DEF u, p, v, o
    <2>3. /\ Content(b) = IF pageTable[u].valid THEN ram[Cell(pageTable[u].ppn, p)]
                          ELSE backing[u][p]
          /\ Content(b)' = IF pageTable'[u].valid THEN ram'[Cell(pageTable'[u].ppn, p)]
                           ELSE backing'[u][p]
      BY DEF Content, Physical, Cell
    <2>4. u \in Vpn /\ pageTable[u].ppn \in Frame
          /\ pageTable'[u].valid = pageTable[u].valid /\ pageTable'[u].ppn = pageTable[u].ppn
      BY <1>2, <1>4, <1>11
    <2> HIDE DEF u, p
    <2>5. CASE u = v
      <3>1. Content(b)' = ram'[Cell(f, p)] /\ Content(b) = ram[Cell(f, p)]
        BY <1>1, <2>3, <2>4, <2>5 DEF f
      <3>2. ram'[Cell(f, p)] = IF p - o \in 0 .. n - 1 THEN ByteOf(x, p - o) ELSE ram[Cell(f, p)]
        BY <1>1, <1>5, <2>1
      <3> QED BY <2>2, <2>5, <3>1, <3>2
    <2>6. CASE u # v
      <3>1. pageTable[u].valid => pageTable[u].ppn # f
        BY <1>7, <2>4, <2>6
      <3>2. pageTable[u].valid => ram'[Cell(pageTable[u].ppn, p)] = ram[Cell(pageTable[u].ppn, p)]
        BY <1>5, <2>1, <2>4, <3>1
      <3> QED BY <1>6, <2>2, <2>3, <2>4, <2>6, <3>2
    <2> QED BY <2>5, <2>6
  <1>12. Memory' = [b \in {b \in Word : Page(b) \in Vpn} |-> Content(b)']
    BY DEF Memory
  <1>13. \A b \in {c \in Word : Page(c) \in Vpn} : Memory[b] = Content(b)
    BY DEF Memory
  <1> QED BY <1>8, <1>9, <1>10, <1>11, <1>12, <1>13

-----------------------------------------------------------------------------
(***************************************************************************)
(* Every step keeps the invariant.                                         *)
(***************************************************************************)
Memories == MemOK /\ QueueOK /\ FramesApart /\ CopiesOK

LEMMA MemoryKept ==
    ASSUME UNCHANGED memVars
    PROVE  (Memories => Memories') /\ Memory' = Memory
  <1>1. pageTable' = pageTable /\ queue' = queue /\ ram' = ram /\ backing' = backing
    BY DEF memVars
  <1>2. \A a : Content(a)' = Content(a)
    BY <1>1 DEF Content, Physical
  <1>3. Memory' = Memory
    BY <1>2 DEF Memory
  <1>4. Memories => Memories'
    BY <1>1 DEF Memories, MemOK, QueueOK, FramesApart, CopiesOK
  <1> QED BY <1>3, <1>4

\* What the hypothesis says of an instruction that loads or stores.
InPage(i) ==
    i.op \in DOMAIN Width => (Target(i) % PageSize) + Width[i.op] <= PageSize

LEMMA Targets ==
    ASSUME CpuOK, NEW i \in Instruction
    PROVE  /\ Target(i) \in Word
           /\ i.op \in DOMAIN LoadForm \cup DOMAIN StoreForm =>
                 i.op \in DOMAIN Width /\ Width[i.op] \in 1 .. 4
  <1>1. regs[i.rs1] + i.imm \in Int
    BY InstructionWords
  <1>2. Target(i) \in Word
    BY <1>1, WrapWord DEF Target
  <1> QED BY <1>2, Operators

\* What the instruction does to memory.
StoreEffect(i) ==
    Memory' = [b \in {b \in Word : Page(b) \in Vpn} |->
        IF b \in Target(i) .. Target(i) + Width[i.op] - 1
          THEN ByteOf(regs[i.rs2], b - Target(i)) ELSE Memory[b]]

LEMMA DoneMemory ==
    ASSUME CpuOK, Memories, NEW i \in Instruction, InPage(i), Done(i)
    PROVE  /\ Memories'
           /\ ~StoreDone(i) \/ Faults(Target(i), "w") => Memory' = Memory
           /\ StoreDone(i) /\ ~Faults(Target(i), "w") => StoreEffect(i)
  <1>1. ASSUME UNCHANGED memVars PROVE Memories' /\ Memory' = Memory
    BY <1>1, MemoryKept
  <1>2. ASSUME Done(i), ~StoreDone(i) PROVE UNCHANGED memVars
    BY <1>2 DEF Done, ArithmeticDone, UpperDone, JumpDone, BranchDone, LoadDone, FenceDone,
       CallDone, IllegalDone, RaiseTrap, memVars
  <1>3. ASSUME StoreDone(i), Faults(Target(i), "w") PROVE UNCHANGED memVars
    BY <1>3 DEF StoreDone, RaiseTrap, memVars
  <1>4. ASSUME StoreDone(i), ~Faults(Target(i), "w") PROVE Memories' /\ StoreEffect(i)
    <2> DEFINE a == Target(i)
               n == Width[i.op]
               x == regs[i.rs2]
    <2>1. i.op \in DOMAIN StoreForm /\ storeVirtualMemory(a, n, x) /\ UNCHANGED <<queue, backing>>
      BY <1>4 DEF StoreDone
    <2>2. a \in Word /\ n \in 1 .. 4 /\ x \in Word /\ (a % PageSize) + n <= PageSize
      BY <2>1, Targets, InstructionWords DEF InPage
    <2>3. ~Faults(a, "w")
      BY <1>4
    <2>4. MemOK /\ QueueOK /\ FramesApart /\ CopiesOK
      BY DEF Memories
    <2> HIDE DEF a, n, x
    <2>5. /\ MemOK' /\ QueueOK' /\ FramesApart' /\ CopiesOK'
          /\ Memory' = [b \in {b \in Word : Page(b) \in Vpn} |->
                IF b \in a .. a + n - 1 THEN ByteOf(x, b - a) ELSE Memory[b]]
      BY <2>1, <2>2, <2>3, <2>4, StoreKeeps
    <2> QED BY <2>5, Zenon DEF Memories, StoreEffect, a, n, x
  <1> QED BY <1>1, <1>2, <1>3, <1>4

LEMMA WrittenRegs ==
    ASSUME CpuOK, NEW r \in Reg, NEW x \in Word,
           regs' = IF r = 0 THEN regs ELSE [regs EXCEPT ![r] = x]
    PROVE  regs' \in [Reg -> Word] /\ regs'[0] = 0
  <1>1. 0 \in Reg /\ regs \in [Reg -> Word] /\ regs[0] = 0
    BY MachineOK DEF CpuOK
  <1> QED BY <1>1

LEMMA Trapped ==
    ASSUME CpuOK, stream # <<>>, status = "running", NEW type, NEW x \in Word,
           RaiseTrap(type, x),
           \/ type = "Syscall" /\ x \in SyscallIDs \cup {Wrap(-1)}
           \/ type = "PageFault" /\ Cause(x)
    PROVE  CpuOK' /\ TrapOK'
  <1>1. trap' = [type |-> type, value |-> x] /\ UNCHANGED <<cpuVars, memVars, status>>
    BY DEF RaiseTrap
  <1>2. /\ regs' = regs /\ pc' = pc /\ stream' = stream /\ pageTable' = pageTable
        /\ status' = status
    BY <1>1 DEF cpuVars, memVars
  <1>3. trap'.type = type /\ trap'.value = x /\ trap' \in Trap
    BY <1>1 DEF Trap
  <1>4. CpuOK'
    BY <1>2, <1>3 DEF CpuOK
  <1>5. type = "PageFault" => Cause(trap.value)'
    <2> HAVE type = "PageFault"
    <2>1. Cause(x)
      OBVIOUS
    <2>2. \A a, m : Faults(a, m)' = Faults(a, m)
      BY <1>2 DEF Faults
    <2>3. \A j : Target(j)' = Target(j)
      BY <1>2 DEF Target
    <2> QED BY <1>2, <1>3, <2>1, <2>2, <2>3 DEF Cause
  <1>6. TrapOK'
    BY <1>2, <1>3, <1>5 DEF TrapOK
  <1> QED BY <1>4, <1>6

LEMMA CallWords ==
    /\ Wrap(-1) \in Word
    /\ (IF regs[17] \in SyscallIDs THEN regs[17] ELSE Wrap(-1)) \in SyscallIDs \cup {Wrap(-1)}
    /\ SyscallIDs \subseteq Word
  <1>1. -1 \in Int
    OBVIOUS
  <1>2. Wrap(-1) \in Word
    BY <1>1, WrapWord, Zenon
  <1>3. SyscallIDs \subseteq Word
    BY MachineOK
  <1> QED BY <1>2, <1>3, Zenon

LEMMA GoesOn ==
    ASSUME CpuOK, trap = NoTrap, NEW a, GoesTo(a), regs' \in [Reg -> Word], regs'[0] = 0
    PROVE  CpuOK' /\ TrapOK'
  <1>1. a \in Int /\ pc' = Wrap(a) /\ trap' = trap /\ status' = status
    BY DEF GoesTo
  <1>2. pc' \in Word
    BY <1>1, WrapWord
  <1>3. trap'.type = "None"
    BY <1>1 DEF NoTrap
  <1> QED BY <1>1, <1>2, <1>3 DEF CpuOK, TrapOK

LEMMA DoneCpu ==
    ASSUME CpuOK, Memories, trap = NoTrap, status = "running", stream # <<>>,
           Head(stream) \in Instruction, InPage(Head(stream)), Done(Head(stream))
    PROVE  CpuOK' /\ TrapOK'
  <1> DEFINE i == Head(stream)
  <1>1. i \in Instruction /\ i.rd \in Reg
    BY InstructionFields
  <1>2. regs \in [Reg -> Word] /\ regs[0] = 0
    BY DEF CpuOK
  <1>3. \A e : Writes(i.rd, e) => regs' \in [Reg -> Word] /\ regs'[0] = 0
    BY <1>1, WrittenRegs DEF Writes
  <1>4. ASSUME NEW a, GoesTo(a), regs' \in [Reg -> Word], regs'[0] = 0 PROVE CpuOK' /\ TrapOK'
    BY <1>4, GoesOn
  <1>5. Target(i) \in Word
    BY <1>1, Targets
  <1> HIDE DEF i
  <1>6. CASE ArithmeticDone(i)
    BY <1>3, <1>4, <1>6 DEF ArithmeticDone
  <1>7. CASE UpperDone(i)
    BY <1>3, <1>4, <1>7 DEF UpperDone
  <1>8. CASE JumpDone(i)
    BY <1>3, <1>4, <1>8 DEF JumpDone
  <1>9. CASE BranchDone(i)
    BY <1>2, <1>4, <1>9 DEF BranchDone
  <1>10. CASE LoadDone(i)
    <2>1. CASE i.rd = 0 /\ GoesTo(pc + 4) /\ UNCHANGED <<regs, memVars>>
      BY <1>2, <1>4, <2>1
    <2>2. CASE i.rd # 0 /\ Faults(Target(i), "r") /\ RaiseTrap("PageFault", Target(i))
      <3>1. Cause(Target(i))
        BY <1>10, <2>2 DEF Cause, LoadDone, i
      <3> QED BY <1>5, <2>2, <3>1, Trapped
    <2>3. CASE /\ i.rd # 0
               /\ ~Faults(Target(i), "r")
               /\ WriteReg(i.rd, SignedLoad(i.op, loadVirtualMemory(Target(i), Width[i.op])))
               /\ GoesTo(pc + 4)
      <3> DEFINE x == SignedLoad(i.op, loadVirtualMemory(Target(i), Width[i.op]))
      <3>1. i.op \in DOMAIN LoadForm /\ (Target(i) % PageSize) + Width[i.op] <= PageSize
        BY <1>1, <1>10, Targets DEF LoadDone, InPage, i
      <3>2. x \in Word
        BY <1>5, <2>3, <3>1, LoadedIs DEF Memories
      <3> HIDE DEF x
      <3>3. regs' = IF i.rd = 0 THEN regs ELSE [regs EXCEPT ![i.rd] = x]
        BY <2>3 DEF WriteReg, x
      <3>4. regs' \in [Reg -> Word] /\ regs'[0] = 0
        BY <1>1, <3>2, <3>3, WrittenRegs DEF i
      <3> QED BY <1>4, <2>3, <3>4
    <2> QED BY <1>10, <2>1, <2>2, <2>3 DEF LoadDone
  <1>11. CASE StoreDone(i)
    <2>1. CASE Faults(Target(i), "w") /\ RaiseTrap("PageFault", Target(i))
      <3>1. Cause(Target(i))
        BY <1>11, <2>1 DEF Cause, StoreDone, i
      <3> QED BY <1>5, <2>1, <3>1, Trapped
    <2>2. CASE GoesTo(pc + 4) /\ UNCHANGED <<regs, queue, backing>>
      BY <1>2, <1>4, <2>2
    <2> QED BY <1>11, <2>1, <2>2 DEF StoreDone
  <1>12. CASE FenceDone(i)
    BY <1>2, <1>4, <1>12 DEF FenceDone
  <1>13. CASE CallDone(i)
    <2> DEFINE x == IF regs[17] \in SyscallIDs THEN regs[17] ELSE Wrap(-1)
    <2>1. x \in SyscallIDs \cup {Wrap(-1)} /\ x \in Word
      BY CallWords, Zenon
    <2>2. RaiseTrap("Syscall", x)
      BY <1>13, Zenon DEF CallDone
    <2> HIDE DEF x
    <2> QED BY <2>1, <2>2, Trapped
  <1>14. CASE IllegalDone(i)
    BY <1>14 DEF IllegalDone, cpuVars, CpuOK, TrapOK, NoTrap
  <1>15. Done(i)
    BY DEF i
  <1> QED BY <1>6, <1>7, <1>8, <1>9, <1>10, <1>11, <1>12, <1>13, <1>14, <1>15 DEF Done

LEMMA StartsWell == Init => MachineInv
  <1> SUFFICES ASSUME Init PROVE MachineInv
    OBVIOUS
  <1>1. PICK s \in Starts : stream = s.program /\ regs = s.regs /\ pc = s.pc
    BY DEF Init
  <1>2. /\ stream \in Seq(Instruction) /\ regs \in [Reg -> Word] /\ regs[0] = 0 /\ pc \in Word
    BY <1>1, StartsOK
  <1>3. trap = NoTrap /\ trap.type = "None" /\ status = "running"
    BY DEF Init, NoTrap
  <1>4. NumFrames \in Nat \ {0} /\ Image \in [Vpn -> [0 .. PageSize - 1 -> Byte]]
    BY MachineOK
  <1>5. StreamOK /\ CpuOK /\ TrapOK
    <2>1. trap \in Trap
      BY <1>3, WordSizes DEF NoTrap, Trap
    <2> QED BY <1>2, <1>3, <2>1 DEF StreamOK, CpuOK, TrapOK
  <1>6. \A v \in Vpn : ~pageTable[v].valid
    BY DEF Init
  <1>7. queue = <<>> /\ Len(queue) = 0
    BY DEF Init
  <1>8. MemOK
    <2>1. pageTable \in [Vpn -> PTE]
      <3>1. [ppn |-> 0, valid |-> FALSE, dirty |-> FALSE] \in PTE
        BY <1>4 DEF PTE
      <3>2. pageTable = [v \in Vpn |-> [ppn |-> 0, valid |-> FALSE, dirty |-> FALSE]]
        BY DEF Init
      <3> QED BY <3>1, <3>2
    <2>2. ram \in [PAddr -> Byte]
      BY WordSizes DEF Init
    <2>3. backing = Image
      BY DEF Init
    <2> QED BY <1>4, <1>7, <2>1, <2>2, <2>3 DEF MemOK
  <1>9. QueueOK /\ FramesApart /\ CopiesOK
    BY <1>4, <1>6, <1>7 DEF QueueOK, FramesApart, CopiesOK
  <1> QED BY <1>5, <1>8, <1>9 DEF MachineInv

LEMMA Served ==
    ASSUME CpuOK, trap' = NoTrap,
           \/ UNCHANGED <<regs, pc>>
           \/ pc' = Wrap(pc + 4) /\ \E x \in Results : WriteReg(10, x),
           status' \in {"running", "killed", "crashed"}
    PROVE  CpuOK' /\ TrapOK'
  <1>1. trap' \in Trap /\ trap'.type = "None"
    BY WordSizes DEF NoTrap, Trap
  <1>2. CASE UNCHANGED <<regs, pc>>
    BY <1>1, <1>2 DEF CpuOK, TrapOK
  <1>3. CASE pc' = Wrap(pc + 4) /\ \E x \in Results : WriteReg(10, x)
    <2>1. PICK x \in Results : WriteReg(10, x)
      BY <1>3
    <2>2. 10 \in Reg /\ x \in Word
      BY MachineOK
    <2>3. regs' \in [Reg -> Word] /\ regs'[0] = 0
      BY <2>1, <2>2, WrittenRegs DEF WriteReg
    <2>4. pc + 4 \in Int
      BY WordInt DEF CpuOK
    <2>5. pc' \in Word
      BY <1>3, <2>4, WrapWord
    <2> QED BY <1>1, <2>3, <2>5 DEF CpuOK, TrapOK
  <1> QED BY <1>2, <1>3

LEMMA InvariantStep ==
    ASSUME MachineInv, AccessesInPage, [Next]_vars
    PROVE  MachineInv'
  <1> USE DEF MachineInv
  <1>1. StreamOK'
    BY StreamStep
  <1>2. Memories
    BY DEF Memories
  <1>3. SUFFICES CpuOK' /\ TrapOK' /\ Memories'
    BY <1>1 DEF Memories
  <1> USE <1>2
  <1>4. CASE Execute
    <2>1. status = "running" /\ trap = NoTrap /\ stream # <<>>
          /\ Head(stream) \in Instruction /\ Done(Head(stream))
      BY <1>4, ExecuteDone
    <2>2. InPage(Head(stream))
      BY <2>1 DEF AccessesInPage, InPage
    <2>3. Memories'
      BY <2>1, <2>2, DoneMemory
    <2>4. CpuOK' /\ TrapOK'
      BY <2>1, <2>2, DoneCpu
    <2> QED BY <2>3, <2>4
  <1>5. CASE FetchFault
    <2>1. /\ status = "running" /\ stream # <<>> /\ Faults(pc, "x") /\ RaiseTrap("PageFault", pc)
      BY <1>5 DEF FetchFault
    <2>2. Cause(pc) /\ pc \in Word
      BY <2>1 DEF Cause, CpuOK
    <2>3. CpuOK' /\ TrapOK'
      BY <2>1, <2>2, Trapped
    <2>4. Memories'
      BY <2>1, MemoryKept DEF RaiseTrap
    <2> QED BY <2>3, <2>4
  <1>6. CASE HandlePageFault
    <2>1. QueueOK' /\ queue' \in Seq(Vpn)
      BY <1>6, PageFaultQueue
    <2>2. \E v, f, W : Swaps(v, f, W)
      BY <1>6, PageFaultSwaps, Zenon
    <2>3. MemOK' /\ FramesApart' /\ CopiesOK'
      BY <2>1, <2>2, SwapsKeep
    <2>4. trap' = NoTrap /\ UNCHANGED <<cpuVars, status>>
      BY <1>6 DEF HandlePageFault
    <2>5. regs' = regs /\ pc' = pc /\ status' \in {"running", "killed", "crashed"}
      BY <2>4 DEF cpuVars, CpuOK
    <2>6. CpuOK' /\ TrapOK'
      BY <2>4, <2>5, Served
    <2> QED BY <2>1, <2>3, <2>6 DEF Memories
  <1>7. CASE KillProcess
    <2>1. trap' = NoTrap /\ status' = "killed" /\ UNCHANGED <<cpuVars, memVars>>
      BY <1>7 DEF KillProcess
    <2>2. regs' = regs /\ pc' = pc /\ status' \in {"running", "killed", "crashed"}
      BY <2>1 DEF cpuVars
    <2> QED BY <2>1, <2>2, Served, MemoryKept
  <1>8. CASE HandleSyscall
    <2>1. /\ trap' = NoTrap /\ UNCHANGED memVars
          /\ \/ (\E x \in Results : WriteReg(10, x)) /\ pc' = Wrap(pc + 4) /\ status' = status
             \/ UNCHANGED <<cpuVars, status>>
             \/ status' = "killed" /\ UNCHANGED cpuVars
      BY <1>8 DEF HandleSyscall
    <2>2. status' \in {"running", "killed", "crashed"}
      BY <2>1 DEF CpuOK
    <2>3. UNCHANGED <<regs, pc>> \/ (pc' = Wrap(pc + 4) /\ \E x \in Results : WriteReg(10, x))
      BY <2>1 DEF cpuVars
    <2> QED BY <2>1, <2>2, <2>3, Served, MemoryKept
  <1>9. CASE UnknownSyscall
    <2>1. trap' = NoTrap /\ status' = "crashed" /\ UNCHANGED <<cpuVars, memVars>>
      BY <1>9 DEF UnknownSyscall
    <2>2. regs' = regs /\ pc' = pc /\ status' \in {"running", "killed", "crashed"}
      BY <2>1 DEF cpuVars
    <2> QED BY <2>1, <2>2, Served, MemoryKept
  <1>10. CASE UNCHANGED vars
    <2>1. UNCHANGED memVars /\ regs' = regs /\ pc' = pc /\ stream' = stream /\ trap' = trap
          /\ status' = status /\ pageTable' = pageTable
      BY <1>10 DEF vars, cpuVars, memVars
    <2>2. CpuOK' /\ TrapOK'
      BY <2>1 DEF CpuOK, TrapOK, Cause, Target, Faults
    <2> QED BY <2>1, <2>2, MemoryKept
  <1> QED BY <1>4, <1>5, <1>6, <1>7, <1>8, <1>9, <1>10 DEF Next, Iteration, Halted

LEMMA Invariant == Spec /\ []AccessesInPage => []MachineInv
  BY StartsWell, InvariantStep, PTL DEF Spec

\* Registers and memory keep their widths, x0 stays zero, a page-table entry
\* never names a frame there is not, and no more pages are in memory than there
\* are frames, as long as no access reaches over the end of its page: what
\* translate in MMU.cpp does not look at.
THEOREM TypeCorrect == Spec /\ []AccessesInPage => []TypeOK
  <1>1. MachineInv => TypeOK
    BY DEF MachineInv, CpuOK, MemOK, QueueOK, TypeOK
  <1> QED BY <1>1, Invariant, PTL

-----------------------------------------------------------------------------
(***************************************************************************)
(* Every step is one of ISA, or none.                                      *)
(***************************************************************************)
LEMMA Allows ==
    /\ \A m : \A a \in Word, n \in 1 .. 4 :
          ~Faults(a, m) /\ (a % PageSize) + n <= PageSize => Reference!Allowed(a, n, m)
    /\ \A m : \A a \in Word : ~Faults(a, m) => Reference!Allowed(a, 1, m)
    /\ \A m : \A a \in Word, n \in 1 .. 4 :
          ~(Page(a) \in Vpn /\ m \in Flags[Page(a)]) => ~Reference!Allowed(a, n, m)
  <1>1. Reference!Address = {a \in Word : Page(a) \in Vpn}
    BY SameWords DEF Reference!Address, Page, Vpn
  <1>2. ASSUME NEW a \in Word, NEW n \in 1 .. 4, NEW m, ~Faults(a, m),
               (a % PageSize) + n <= PageSize
        PROVE  Reference!Allowed(a, n, m)
    <2> SUFFICES ASSUME NEW k \in 0 .. n - 1
                 PROVE  a + k \in Reference!Address /\ m \in Flags[Page(a + k)]
      BY DEF Reference!Allowed, Page
    <2>1. Page(a) \in Vpn /\ m \in Flags[Page(a)]
      BY <1>2 DEF Faults
    <2>2. k \in Nat /\ (a % PageSize) + k < PageSize
      <3>1. \A o \in Offset : o \in Int
        BY MachineOK DEF Offset
      <3>2. a % PageSize \in Int /\ PageSize \in Int
        <4>1. 0 \in Nat
          OBVIOUS
        <4>2. a % PageSize \in Offset
          BY <4>1, SamePage
        <4> QED BY <3>1, <4>2, MachineOK
      <3> QED BY <1>2, <3>2
    <2>3. a + k \in Word /\ Page(a + k) = Page(a)
      BY <2>1, <2>2, SamePage
    <2> QED BY <1>1, <2>1, <2>3
  <1>3. ASSUME NEW a \in Word, NEW m, ~Faults(a, m) PROVE Reference!Allowed(a, 1, m)
    <2>1. Page(a) \in Vpn /\ m \in Flags[Page(a)] /\ a \in Int
      BY <1>3, WordInt DEF Faults
    <2>2. \A k \in 0 .. 1 - 1 : a + k = a
      BY <2>1
    <2> QED BY <1>1, <2>1, <2>2 DEF Reference!Allowed, Page
  <1>4. ASSUME NEW a \in Word, NEW n \in 1 .. 4, NEW m, Reference!Allowed(a, n, m)
        PROVE  Page(a) \in Vpn /\ m \in Flags[Page(a)]
    <2>1. 0 \in 0 .. n - 1 /\ a + 0 = a
      BY WordInt
    <2>2. a + 0 \in Reference!Address /\ m \in Flags[(a + 0) \div PageSize]
      BY <1>4, <2>1 DEF Reference!Allowed
    <2> QED BY <1>1, <2>1, <2>2 DEF Page
  <1> QED BY <1>2, <1>3, <1>4

LEMMA SameActions ==
    /\ \A r, e : Writes(r, e) => Reference!SetReg(r, e)
    /\ \A a : GoesTo(a) => Reference!Goto(a)
    /\ CpuOK /\ status = "running" /\ trap = NoTrap /\ stream # <<>> /\ ~Faults(pc, "x") =>
          \A ops : Head(stream).op \in ops => Reference!At(ops)
  <1>1. \A r, e : Writes(r, e) => Reference!SetReg(r, e)
    BY SameWords DEF Writes, Reference!SetReg
  <1>2. \A a : GoesTo(a) => Reference!Goto(a)
    BY SameWords DEF GoesTo, Reference!Goto
  <1>3. ASSUME CpuOK, status = "running", trap = NoTrap, stream # <<>>, ~Faults(pc, "x"),
               NEW ops, Head(stream).op \in ops
        PROVE  Reference!At(ops)
    <2>1. Reference!Allowed(pc, 1, "x")
      BY <1>3, Allows DEF CpuOK
    <2>2. trap.type # "Syscall"
      BY <1>3 DEF NoTrap
    <2> QED BY <1>3, <2>1, <2>2 DEF Reference!At, Reference!NoRequest, Reference!i
  <1> QED BY <1>1, <1>2, <1>3

LEMMA InstructionIsISA ==
    ASSUME CpuOK, Memories, status = "running", trap = NoTrap, stream # <<>>,
           ~Faults(pc, "x"), Head(stream) \in Instruction, InPage(Head(stream)),
           Done(Head(stream))
    PROVE  Reference!Next \/ UNCHANGED Reference!vars
  <1> DEFINE i == Head(stream)
  <1>1. \A ops : i.op \in ops => Reference!At(ops)
    BY SameActions
  <1>2. ~StoreDone(i) \/ Faults(Target(i), "w") => Memory' = Memory
    BY DoneMemory
  <1>3. Target(i) \in Word /\ Reference!Target = Target(i)
    BY Targets, SameWords DEF Target, Reference!Target, Reference!i
  <1>4. \A r, e : Writes(r, e) => Reference!SetReg(r, e)
    BY SameActions
  <1>5. \A a : GoesTo(a) => Reference!Goto(a)
    BY SameActions
  <1>6. Reference!i = i
    BY DEF Reference!i
  <1>7. \A type, x : type # "Syscall" /\ RaiseTrap(type, x) /\ Memory' = Memory =>
           UNCHANGED Reference!vars
    BY DEF RaiseTrap, cpuVars, Reference!vars, Memory, NoTrap
  <1> HIDE DEF i
  <1>8. CASE ArithmeticDone(i)
    <2>1. Memory' = Memory
      BY <1>2, <1>8, Operators DEF ArithmeticDone, StoreDone, Reference!RegisterOps,
         Reference!ImmediateOps
    <2>2. /\ i.op \in Reference!RegisterOps \cup Reference!ImmediateOps
          /\ Reference!SetReg(i.rd, Reference!Value(i.op, regs[i.rs1], Operand(i)))
          /\ Reference!Goto(pc + 4)
      BY <1>4, <1>5, <1>8 DEF ArithmeticDone
    <2>3. Operand(i) = IF i.op \in Reference!RegisterOps THEN regs[i.rs2] ELSE Reference!Wrap(i.imm)
      BY SameWords DEF Operand
    <2>4. Reference!Arithmetic
      BY <1>1, <1>6, <2>1, <2>2, <2>3 DEF Reference!Arithmetic, Memory
    <2> QED BY <2>4 DEF Reference!Next
  <1>9. CASE UpperDone(i)
    <2>1. Memory' = Memory
      BY <1>2, <1>9, Operators DEF UpperDone, StoreDone
    <2>2. Reference!Upper
      BY <1>1, <1>4, <1>5, <1>6, <1>9, <2>1 DEF UpperDone, Reference!Upper, Memory
    <2> QED BY <2>2 DEF Reference!Next
  <1>10. CASE JumpDone(i)
    <2>1. Memory' = Memory
      BY <1>2, <1>10, Operators DEF JumpDone, StoreDone
    <2>2. Reference!Jump
      BY <1>1, <1>4, <1>5, <1>6, <1>10, <2>1 DEF JumpDone, Reference!Jump, Memory
    <2> QED BY <2>2 DEF Reference!Next
  <1>11. CASE BranchDone(i)
    <2>1. Memory' = Memory
      BY <1>2, <1>11, Operators DEF BranchDone, StoreDone
    <2>2. Reference!Branch
      BY <1>1, <1>5, <1>6, <1>11, <2>1 DEF BranchDone, Reference!Branch, Reference!BranchOps, Memory
    <2> QED BY <2>2 DEF Reference!Next
  <1>12. CASE LoadDone(i)
    <2>1. Memory' = Memory
      BY <1>2, <1>12, Operators DEF LoadDone, StoreDone
    <2>2. i.op \in Reference!LoadOps /\ i.op \in DOMAIN LoadForm
          /\ i.op \in DOMAIN Width
      BY <1>12, Operators DEF LoadDone, Reference!LoadOps
    <2>3. CASE i.rd # 0 /\ Faults(Target(i), "r") /\ RaiseTrap("PageFault", Target(i))
      BY <1>7, <2>1, <2>3
    <2>4. CASE i.rd = 0 /\ GoesTo(pc + 4) /\ UNCHANGED <<regs, memVars>>
      <3>1. Reference!Load
        BY <1>1, <1>5, <1>6, <2>1, <2>2, <2>4 DEF Reference!Load, Memory
      <3> QED BY <3>1 DEF Reference!Next
    <2>5. CASE /\ i.rd # 0
               /\ ~Faults(Target(i), "r")
               /\ WriteReg(i.rd, SignedLoad(i.op, loadVirtualMemory(Target(i), Width[i.op])))
               /\ GoesTo(pc + 4)
      <3> DEFINE n == Width[i.op]
                 x == LittleEndian(Memory, Target(i), n)
                 negative == i.op \in {"LB", "LH"} /\ x >= 2^(ByteBits * n - 1)
                 y == IF negative THEN x - 2^(ByteBits * n) ELSE x
      <3>1. n = Reference!Size(i.op) /\ n \in 1 .. 4 /\ (Target(i) % PageSize) + n <= PageSize
        BY <2>2, Operators DEF InPage, i
      <3>2. SignedLoad(i.op, loadVirtualMemory(Target(i), n)) = Wrap(y) /\ Wrap(y) \in Word
        BY <1>3, <2>2, <2>5, <3>1, LoadedIs DEF Memories
      <3>3. Writes(i.rd, y)
        <4> HIDE DEF y
        <4> QED BY <2>5, <3>2, WriteRegWrites
      <3>4. Reference!Allowed(Target(i), n, "r")
        BY <1>3, <2>5, <3>1, Allows
      <3>5. x = Reference!LittleEndian(Memory, Target(i), n)
        BY SameSums, Zenon
      <3>6. Reference!SetReg(i.rd, y) /\ Reference!Goto(pc + 4)
        BY <1>4, <1>5, <2>5, <3>3
      <3>7. Reference!Load
        BY <1>1, <1>3, <1>6, <2>1, <2>2, <2>5, <3>1, <3>4, <3>5, <3>6, Zenon
           DEF Reference!Load, Memory
      <3> QED BY <3>7 DEF Reference!Next
    <2> QED BY <1>12, <2>3, <2>4, <2>5 DEF LoadDone
  <1>13. CASE StoreDone(i)
    <2>1. i.op \in Reference!StoreOps /\ i.op \in DOMAIN Width
      BY <1>13, Operators DEF StoreDone, Reference!StoreOps
    <2>2. CASE Faults(Target(i), "w")
      <3>1. RaiseTrap("PageFault", Target(i)) /\ Memory' = Memory
        BY <1>2, <1>13, <2>2 DEF StoreDone
      <3> QED BY <1>7, <3>1
    <2>3. CASE ~Faults(Target(i), "w")
      <3> DEFINE n == Width[i.op]
      <3>1. n = Reference!Size(i.op) /\ n \in 1 .. 4 /\ (Target(i) % PageSize) + n <= PageSize
        BY <2>1, Operators DEF InPage, i
      <3>2. Reference!Allowed(Target(i), n, "w")
        BY <1>3, <2>3, <3>1, Allows
      <3>3. StoreEffect(i)
        BY <1>13, <2>3, DoneMemory DEF i
      <3>4. Reference!Goto(pc + 4) /\ regs' = regs
        BY <1>5, <1>13, <2>3 DEF StoreDone
      <3>5. Reference!Address = {a \in Word : Page(a) \in Vpn}
        BY SameWords DEF Reference!Address, Page, Vpn
      <3>6. \A z, k : Reference!ByteOf(z, k) = ByteOf(z, k)
        BY SameWords
      <3>7. Memory' = [b \in Reference!Address |->
               IF b \in Target(i) .. Target(i) + n - 1
                 THEN Reference!ByteOf(regs[i.rs2], b - Target(i)) ELSE Memory[b]]
        BY <3>3, <3>5, <3>6, Zenon DEF StoreEffect
      <3>8. Reference!Store
        BY <1>1, <1>3, <1>6, <2>1, <3>1, <3>2, <3>4, <3>7, Zenon DEF Reference!Store, Memory
      <3> QED BY <3>8 DEF Reference!Next
    <2> QED BY <2>2, <2>3
  <1>14. CASE FenceDone(i)
    <2>1. Memory' = Memory
      BY <1>2, <1>14, Operators DEF FenceDone, StoreDone
    <2>2. Reference!Fence
      BY <1>1, <1>5, <1>14, <2>1 DEF FenceDone, Reference!Fence, Memory
    <2> QED BY <2>2 DEF Reference!Next
  <1>15. CASE CallDone(i)
    <2> DEFINE x == IF regs[17] \in SyscallIDs THEN regs[17] ELSE Wrap(-1)
    <2>1. Memory' = Memory
      BY <1>2, <1>15, Operators DEF CallDone, StoreDone
    <2>2. i.op = "ECALL" /\ trap' = [type |-> "Syscall", value |-> x]
          /\ UNCHANGED <<regs, pc, stream, status>>
      BY <1>15, Zenon DEF CallDone, RaiseTrap, cpuVars
    <2>3. Request' = x
      <3> HIDE DEF x
      <3> QED BY <2>2 DEF Request
    <2>4. x = IF regs[17] \in SyscallIDs THEN regs[17] ELSE Reference!Unknown
      BY SameWords, Zenon DEF Reference!Unknown
    <2>5. Reference!Call
      BY <1>1, <2>1, <2>2, <2>3, <2>4, Zenon DEF Reference!Call, Memory, Request
    <2> QED BY <2>5 DEF Reference!Next
  <1>16. CASE IllegalDone(i)
    <2>1. Memory' = Memory
      BY <1>2, <1>16, Operators DEF IllegalDone, StoreDone
    <2>2. Reference!Illegal
      BY <1>1, <1>16, <2>1 DEF IllegalDone, cpuVars, Reference!Illegal, Memory
    <2> QED BY <2>2 DEF Reference!Next
  <1>17. Done(i)
    BY DEF i
  <1> QED BY <1>8, <1>9, <1>10, <1>11, <1>12, <1>13, <1>14, <1>15, <1>16, <1>17 DEF Done

LEMMA StepIsISA ==
    ASSUME MachineInv, AccessesInPage, [Next]_vars
    PROVE  Reference!Next \/ UNCHANGED Reference!vars
  <1>1. StreamOK /\ CpuOK /\ Memories /\ TrapOK
    BY DEF MachineInv, Memories
  <1>2. CASE Execute
    <2>1. status = "running" /\ trap = NoTrap /\ stream # <<>> /\ ~Faults(pc, "x")
          /\ Head(stream) \in Instruction /\ Done(Head(stream))
      BY <1>1, <1>2, ExecuteDone
    <2>2. InPage(Head(stream))
      BY <2>1 DEF AccessesInPage, InPage
    <2> QED BY <1>1, <2>1, <2>2, InstructionIsISA
  <1>3. CASE FetchFault
    <2>1. trap.type # "Syscall" /\ trap'.type # "Syscall" /\ UNCHANGED <<regs, pc, stream, status>>
          /\ UNCHANGED memVars
      BY <1>3 DEF FetchFault, RaiseTrap, NoTrap, cpuVars
    <2>2. Memory' = Memory
      BY <2>1, MemoryKept
    <2> QED BY <2>1, <2>2 DEF Reference!vars, Memory
  <1>4. CASE HandlePageFault
    <2>1. \E v, f, W : Swaps(v, f, W)
      BY <1>1, <1>4, PageFaultSwaps, Zenon DEF Memories
    <2>2. Memory' = Memory
      BY <1>1, <2>1, SwapsInvisible DEF Memories
    <2>3. trap.type # "Syscall" /\ trap'.type # "Syscall" /\ UNCHANGED <<regs, pc, stream, status>>
      BY <1>4 DEF HandlePageFault, NoTrap, cpuVars
    <2> QED BY <2>2, <2>3 DEF Reference!vars, Memory
  <1>5. CASE KillProcess
    <2> DEFINE a == trap.value
               i == Head(stream)
    <2>1. /\ status = "running" /\ trap.type = "PageFault" /\ trap'.type = "None"
          /\ (Page(a) \in Vpn => pageTable[Page(a)].valid)
          /\ status' = "killed" /\ UNCHANGED <<regs, pc, stream>> /\ UNCHANGED memVars
      BY <1>5 DEF KillProcess, NoTrap, cpuVars
    <2>2. stream # <<>> /\ Cause(a)
      BY <1>1, <2>1 DEF TrapOK
    <2>3. \A m : Faults(a, m) => ~(Page(a) \in Vpn /\ m \in Flags[Page(a)])
      BY <2>1 DEF Faults
    <2>4. i \in Instruction /\ pc \in Word
      BY <1>1, <2>2, HeadTailProperties DEF StreamOK, CpuOK
    <2>5. Target(i) \in Word /\ Reference!Target = Target(i) /\ Reference!i = i
      BY <1>1, <2>4, Targets, SameWords DEF Target, Reference!Target, Reference!i
    <2>6. i.op \in DOMAIN LoadForm \cup DOMAIN StoreForm =>
             Reference!Size(i.op) \in 1 .. 4
      BY Operators
    <2> HIDE DEF a, i
    <2>7. \/ ~Reference!Allowed(pc, 1, "x")
          \/ /\ i.op \in Reference!LoadOps
             /\ i.rd # 0
             /\ ~Reference!Allowed(Target(i), Reference!Size(i.op), "r")
          \/ /\ i.op \in Reference!StoreOps
             /\ ~Reference!Allowed(Target(i), Reference!Size(i.op), "w")
      <3>1. CASE a = pc /\ Faults(a, "x")
        <4>1. 1 \in 1 .. 4
          OBVIOUS
        <4> QED BY <2>3, <2>4, <3>1, <4>1, Allows
      <3>2. CASE i.op \in DOMAIN LoadForm /\ i.rd # 0 /\ a = Target(i) /\ Faults(a, "r")
        BY <2>3, <2>5, <2>6, <3>2, Allows, Operators DEF Reference!LoadOps
      <3>3. CASE i.op \in DOMAIN StoreForm /\ a = Target(i) /\ Faults(a, "w")
        BY <2>3, <2>5, <2>6, <3>3, Allows, Operators DEF Reference!StoreOps
      <3> QED BY <2>2, <3>1, <3>2, <3>3 DEF Cause, i
    <2>8. Memory' = Memory
      BY <2>1, MemoryKept
    <2>9. Reference!Kill
      BY <2>1, <2>2, <2>5, <2>7, <2>8 DEF Reference!Kill, Reference!NoRequest, Memory
    <2> QED BY <2>9 DEF Reference!Next
  <1>6. CASE HandleSyscall
    <2>1. /\ status = "running" /\ trap.type = "Syscall" /\ trap.value \in SyscallIDs
          /\ trap'.type = "None" /\ UNCHANGED memVars
          /\ \/ /\ \E x \in Results : WriteReg(10, x)
                /\ pc' = Wrap(pc + 4) /\ stream' = Tail(stream) /\ UNCHANGED status
             \/ UNCHANGED <<regs, pc, stream, status>>
             \/ status' = "killed" /\ UNCHANGED <<regs, pc, stream>>
      BY <1>6 DEF HandleSyscall, NoTrap, cpuVars
    <2>2. Memory' = Memory
      BY <2>1, MemoryKept
    <2>3. \A x \in Results : WriteReg(10, x) => x \in Reference!Word /\ regs' = [regs EXCEPT ![10] = x]
      BY MachineOK, SameWords DEF WriteReg
    <2>4. Reference!Wrap(pc + 4) = Wrap(pc + 4)
      BY SameWords
    <2>5. Reference!Served
      BY <2>1, <2>2, <2>3, <2>4 DEF Reference!Served, Reference!NoRequest, Memory
    <2> QED BY <2>5 DEF Reference!Next
  <1>7. CASE UnknownSyscall
    <2>1. /\ status = "running" /\ trap.type = "Syscall" /\ trap.value \notin SyscallIDs
          /\ trap'.type = "None" /\ UNCHANGED memVars
          /\ status' = "crashed" /\ UNCHANGED <<regs, pc, stream>>
      BY <1>7 DEF UnknownSyscall, NoTrap, cpuVars
    <2>2. Memory' = Memory
      BY <2>1, MemoryKept
    <2>3. trap.value = Reference!Unknown
      BY <1>1, <2>1, SameWords, Zenon DEF TrapOK, Reference!Unknown
    <2>4. Reference!NotServed
      BY <2>1, <2>2, <2>3 DEF Reference!NotServed, Reference!NoRequest, Memory
    <2> QED BY <2>4 DEF Reference!Next
  <1>8. CASE UNCHANGED vars
    <2>1. UNCHANGED <<regs, pc, stream, trap, status>> /\ UNCHANGED memVars
      BY <1>8 DEF vars, cpuVars
    <2>2. Memory' = Memory
      BY <2>1, MemoryKept
    <2> QED BY <2>1, <2>2 DEF Reference!vars, Memory
  <1> QED BY <1>2, <1>3, <1>4, <1>5, <1>6, <1>7, <1>8 DEF Next, Iteration, Halted

LEMMA StartIsISA == Init => Reference!Init
  <1> SUFFICES ASSUME Init PROVE Reference!Init
    OBVIOUS
  <1>1. StreamOK /\ CpuOK
    BY StartsWell DEF MachineInv
  <1>2. \A i \in Instruction : i \in Reference!Instruction
    <2> SUFFICES ASSUME NEW i \in Instruction PROVE i \in Reference!Instruction
      OBVIOUS
    <2>1. i \in [op : Mnemonic, rd : Reg, rs1 : Reg, rs2 : Reg, imm : Int]
      BY DEF Instruction
    <2>2. i.op \in Reference!Operation
      BY <2>1, Forms DEF Mnemonic, Reference!Operation, Reference!RegisterOps,
         Reference!ImmediateOps, Reference!BranchOps, Reference!LoadOps, Reference!StoreOps
    <2> QED BY <2>1, <2>2 DEF Reference!Instruction
  <1>3. stream \in Seq(Reference!Instruction)
    BY <1>1, <1>2 DEF StreamOK
  <1>4. /\ trap.type # "Syscall" /\ status = "running"
        /\ backing = Image
        /\ \A v \in Vpn : ~pageTable[v].valid
    BY DEF Init, NoTrap
  <1>5. \A a : Page(a) \in Vpn => Content(a) = Image[a \div PageSize][a % PageSize]
    BY <1>4 DEF Content, Page
  <1>6. Memory = [a \in Reference!Address |-> Image[a \div PageSize][a % PageSize]]
    <2>1. Reference!Address = {a \in Word : Page(a) \in Vpn}
      BY SameWords DEF Reference!Address, Page, Vpn
    <2> QED BY <1>5, <2>1 DEF Memory
  <1>7. regs \in [Reg -> Reference!Word] /\ regs[0] = 0 /\ pc \in Reference!Word
    BY <1>1, SameWords DEF CpuOK
  <1> QED BY <1>3, <1>4, <1>6, <1>7 DEF Reference!Init, Reference!NoRequest, Memory

\* The machine is an implementation of ISA: the decoder, the executors, the
\* retry of an instruction that faulted, frames, evictions and swapping are
\* invisible to the thread, whose program is executed one instruction after the
\* other (RV32UMOS::run, CPU::step, MMU::translate, handlePageFault).
THEOREM ImplementsISA == Spec /\ []AccessesInPage => ExecutesISA
  <1>1. MachineInv /\ AccessesInPage /\ [Next]_vars => [Reference!Next]_(Reference!vars)
    BY StepIsISA
  <1> QED BY <1>1, StartIsISA, Invariant, PTL DEF Spec, ExecutesISA, Reference!Spec
=============================================================================
