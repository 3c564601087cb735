----------------------------- MODULE LayoutProof -----------------------------
(***************************************************************************)
(* Proofs about module Layout, for every size of the address space, the    *)
(* pages and the stacks that LayoutOK and PagesOK allow.                   *)
(***************************************************************************)
EXTENDS Layout, SequenceTheorems, FiniteSetTheorems, TLAPS

G == GUARD_PAGE_SIZE
M == MAIN_STACK_SIZE
Stride == THREAD_STACK_SIZE + GUARD_PAGE_SIZE

\* The top of the stack of thread t, without the wrapping of addresses.
Place(t) == IF t = 0 THEN 4 * M ELSE 3 * M - G - (t - 1) * Stride

-----------------------------------------------------------------------------
(***************************************************************************)
(* Arithmetic.                                                             *)
(***************************************************************************)
LEMMA ModSmall ==
    ASSUME NEW w \in Nat, NEW a \in Nat, a < w
    PROVE  a % w = a
  OBVIOUS

LEMMA MulMono ==
    ASSUME NEW a \in Nat, NEW b \in Nat, NEW c \in Nat, a <= b
    PROVE  a * c <= b * c /\ a * c \in Nat
  OBVIOUS

LEMMA MulNext ==
    ASSUME NEW a \in Int, NEW c \in Int
    PROVE  (a + 1) * c = a * c + c
  OBVIOUS

LEMMA DivMul ==
    ASSUME NEW a \in Nat, NEW n \in Nat \ {0}
    PROVE  /\ n * (a \div n) <= a
           /\ a < n * (a \div n) + n
           /\ a \div n \in Nat
  OBVIOUS

LEMMA Multiple ==
    ASSUME NEW a \in Nat, NEW n \in Nat \ {0}, a % n = 0
    PROVE  a = n * (a \div n) /\ a \div n \in Nat
  OBVIOUS

-----------------------------------------------------------------------------
(***************************************************************************)
(* The regions.                                                            *)
(***************************************************************************)
LEMMA Sizes ==
    /\ M \in Nat /\ G \in Nat \ {0} /\ G <= M /\ Stride \in Nat
    /\ G <= Stride
    /\ KERNEL_PAGE_SIZE = G
    /\ STACK_TOP = 4 * M /\ STACK_REGION_BOTTOM = 2 * M
    /\ HEAP_START = M /\ HEAP_MAX_LIMIT = 2 * M
    /\ 2^AddrBits \in Nat /\ 4 * M < 2^AddrBits
    /\ MAX_THREADS - 1 \in Nat /\ MAX_THREADS \in Nat
    /\ (MAX_THREADS - 1) * Stride <= M
  <1>1. /\ VIRTUAL_MEMORY_SIZE = 4 * (VIRTUAL_MEMORY_SIZE \div 4)
        /\ VIRTUAL_MEMORY_SIZE \div 4 \in Nat
    BY LayoutOK
  <1>2. VIRTUAL_MEMORY_SIZE \div 2 = 2 * (VIRTUAL_MEMORY_SIZE \div 4)
    BY <1>1
  <1>3. M \in Nat /\ VIRTUAL_MEMORY_SIZE = 4 * M /\ VIRTUAL_MEMORY_SIZE \div 2 = 2 * M
    BY <1>1, <1>2 DEF M, MAIN_STACK_SIZE
  <1>4. /\ MAX_THREADS - 1 \in Nat \ {0}
        /\ Stride = M \div (MAX_THREADS - 1)
        /\ G \in Nat \ {0} /\ G <= M /\ KERNEL_PAGE_SIZE = G
        /\ THREAD_STACK_SIZE \in Nat /\ Stride = THREAD_STACK_SIZE + G
    <2>1. MAX_THREADS - 1 \in Nat \ {0} /\ MAX_THREADS \in Nat
      BY LayoutOK
    <2>2. M \div (MAX_THREADS - 1) \in Nat
      BY <1>3, <2>1, DivMul
    <2>3. THREAD_STACK_SIZE = M \div (MAX_THREADS - 1) - G /\ G \in Nat \ {0}
      BY LayoutOK DEF THREAD_STACK_SIZE, M, MAIN_STACK_SIZE, G, GUARD_PAGE_SIZE
    <2> QED BY <2>1, <2>2, <2>3, LayoutOK DEF Stride, G, M, GUARD_PAGE_SIZE
  <1>5. (MAX_THREADS - 1) * Stride <= M /\ Stride \in Nat /\ G <= Stride
    BY <1>3, <1>4, DivMul
  <1> QED BY <1>3, <1>4, <1>5, LayoutOK DEF STACK_TOP, STACK_REGION_BOTTOM, HEAP_START,
                                            HEAP_MAX_LIMIT, M, MAIN_STACK_SIZE

\* Where the stacks are: one below the other, all of them above the heap.
LEMMA Places ==
    ASSUME NEW t \in 0 .. MAX_THREADS - 1
    PROVE  /\ Place(t) \in Nat /\ Place(t) <= 4 * M
           /\ StackSize(t) \in Nat
           /\ Place(t) - StackSize(t) >= 2 * M
           /\ Place(t + 1) = Place(t) - StackSize(t) - G
           /\ Place(t + 1) \in Nat
  <1> USE Sizes
  <1>1. CASE t = 0
    <2>1. Place(0) = 4 * M /\ Place(1) = 3 * M - G /\ StackSize(0) = M
      <3>1. (1 - 1) * Stride = 0
        OBVIOUS
      <3> QED BY <3>1 DEF Place, StackSize, M
    <2> QED BY <1>1, <2>1
  <1>2. CASE t # 0
    <2>1. t - 1 \in Nat /\ t \in Nat /\ t <= MAX_THREADS - 1
      BY <1>2
    <2>2. t * Stride = (t - 1) * Stride + Stride
      BY <2>1, MulNext
    <2>3. (t - 1) * Stride \in Nat /\ t * Stride \in Nat /\ t * Stride <= M
      BY <2>1, MulMono
    <2>4. Place(t) = 3 * M - G - (t - 1) * Stride /\ Place(t + 1) = 3 * M - G - t * Stride
      <3>1. (t + 1) - 1 = t /\ t + 1 # 0
        BY <2>1
      <3> QED BY <1>2, <3>1 DEF Place
    <2>5. StackSize(t) = Stride - G /\ StackSize(t) \in Nat
      BY <1>2, LayoutOK DEF StackSize, Stride, G, GUARD_PAGE_SIZE
    <2> HIDE DEF Place
    <2> QED BY <2>2, <2>3, <2>4, <2>5
  <1> QED BY <1>1, <1>2

LEMMA PlacesInOrder ==
    ASSUME NEW n \in 0 .. MAX_THREADS - 1, NEW t \in 0 .. n, t < n
    PROVE  Place(n) + G <= Place(t) - StackSize(t)
  <1> USE Sizes
  <1>1. Place(t + 1) = Place(t) - StackSize(t) - G /\ Place(t) - StackSize(t) \in Int
    BY Places
  <1>2. t - 0 \in Nat /\ n \in Nat /\ n # 0 /\ t + 1 # 0 /\ (t + 1) - 1 = t
    OBVIOUS
  <1>3. Place(n) = 3 * M - G - (n - 1) * Stride /\ Place(t + 1) = 3 * M - G - t * Stride
    BY <1>2 DEF Place
  <1>4. t * Stride <= (n - 1) * Stride /\ t * Stride \in Nat /\ (n - 1) * Stride \in Nat
    BY <1>2, MulMono
  <1> QED BY <1>1, <1>3, <1>4

-----------------------------------------------------------------------------
(***************************************************************************)
(* The inductive invariant: no stack has wrapped around the address space. *)
(***************************************************************************)
Count == Len(stackTops)

StacksPlaced == \A t \in 0 .. Count - 1 : stackTops[t + 1] = Place(t)

StackInv ==
    /\ stackTops \in Seq(Addr)
    /\ Count \in 0 .. MAX_THREADS
    /\ StacksPlaced
    /\ nextStackBase = Place(Count)
    /\ programBreak \in HEAP_START .. HEAP_MAX_LIMIT

LEMMA PlaceIsAddr ==
    ASSUME NEW t \in 0 .. MAX_THREADS
    PROVE  Place(t) \in Addr /\ Wrap(Place(t)) = Place(t)
  <1> USE Sizes
  <1>1. Place(t) \in Nat /\ Place(t) <= 4 * M
    <2>1. CASE t = 0
      <3>1. 0 \in 0 .. MAX_THREADS - 1
        OBVIOUS
      <3> QED BY <2>1, <3>1, Places
    <2>2. CASE t # 0
      <3>1. t - 1 \in 0 .. MAX_THREADS - 1 /\ (t - 1) + 1 = t
        BY <2>2
      <3>2. /\ Place((t - 1) + 1) = Place(t - 1) - StackSize(t - 1) - G
            /\ Place((t - 1) + 1) \in Nat
            /\ Place(t - 1) <= 4 * M /\ StackSize(t - 1) \in Nat /\ Place(t - 1) \in Nat
        BY <3>1, Places
      <3>3. Place(t) = Place((t - 1) + 1)
        BY <3>1
      <3> HIDE DEF Place
      <3> QED BY <3>2, <3>3
    <2> QED BY <2>1, <2>2
  <1> QED BY <1>1, ModSmall DEF Addr, Wrap

LEMMA BottomIs ==
    ASSUME StackInv, NEW t \in 0 .. Count - 1
    PROVE  /\ t \in 0 .. MAX_THREADS - 1
           /\ stackTops[t + 1] = Place(t)
           /\ Bottom(t) = Place(t) - StackSize(t)
  <1> USE Sizes
  <1>1. t \in 0 .. MAX_THREADS - 1 /\ stackTops[t + 1] = Place(t)
    BY DEF StackInv, StacksPlaced
  <1>2. /\ Place(t) \in Nat /\ Place(t) <= 4 * M /\ StackSize(t) \in Nat
        /\ Place(t) - StackSize(t) >= 2 * M
    BY <1>1, Places
  <1>3. Place(t) - StackSize(t) \in Nat /\ Place(t) - StackSize(t) < 2^AddrBits
    BY <1>2
  <1> QED BY <1>1, <1>3, ModSmall DEF Bottom, Wrap

LEMMA NextBaseIs ==
    ASSUME NEW t \in 0 .. MAX_THREADS - 1
    PROVE  NextBase(Place(t), t) = Place(t + 1)
  <1> USE Sizes
  <1>1. Place(t + 1) = Place(t) - StackSize(t) - G /\ Wrap(Place(t + 1)) = Place(t + 1)
    <2>1. t + 1 \in 0 .. MAX_THREADS
      OBVIOUS
    <2> QED BY <2>1, Places, PlaceIsAddr
  <1> QED BY <1>1 DEF NextBase, G

LEMMA StackInit == Init => StackInv
  <1> SUFFICES ASSUME Init PROVE StackInv
    OBVIOUS
  <1>1. Len(stackTops) = 0 /\ stackTops \in Seq(Addr)
    BY DEF Init
  <1>2. Place(0) = STACK_TOP
    BY Sizes DEF Place
  <1> QED BY <1>1, <1>2, Sizes DEF StackInv, StacksPlaced, Count, Init

LEMMA StackNext == StackInv /\ [Next]_vars => StackInv'
  <1> SUFFICES ASSUME StackInv, [Next]_vars PROVE StackInv'
    OBVIOUS
  <1> USE Sizes
  <1>1. ASSUME NEW f \in Files, LoadELF(f) PROVE StackInv'
    <2>1. Place(0) = STACK_TOP /\ 0 \in 0 .. MAX_THREADS - 1
      BY DEF Place
    <2>2. STACK_TOP \in Addr
      BY DEF Addr
    <2>3. programBreak' \in HEAP_START .. HEAP_MAX_LIMIT
      BY <1>1 DEF LoadELF
    <2>4. CASE active'
      <3>1. stackTops' = <<STACK_TOP>> /\ nextStackBase' = NextBase(STACK_TOP, 0)
        BY <1>1, <2>4 DEF LoadELF
      <3>2. nextStackBase' = Place(1)
        BY <2>1, <3>1, NextBaseIs
      <3>3. Len(stackTops') = 1 /\ stackTops' \in Seq(Addr) /\ stackTops'[1] = STACK_TOP
        BY <2>2, <3>1
      <3> HIDE DEF Place
      <3>4. \A t \in 0 .. Len(stackTops') - 1 : stackTops'[t + 1] = Place(t)
        BY <2>1, <3>3
      <3> QED BY <2>3, <3>2, <3>3, <3>4 DEF StackInv, StacksPlaced, Count
    <2>5. CASE ~active'
      <3>1. stackTops' = <<>> /\ nextStackBase' = STACK_TOP
        BY <1>1, <2>5 DEF LoadELF
      <3>2. Len(stackTops') = 0 /\ stackTops' \in Seq(Addr)
        BY <3>1
      <3> HIDE DEF Place
      <3> QED BY <2>1, <2>3, <3>1, <3>2 DEF StackInv, StacksPlaced, Count
    <2> QED BY <2>4, <2>5
  <1>2. ASSUME NEW a \in Addr, CreateThread(a) PROVE StackInv'
    <2> DEFINE n == Len(stackTops)
    <2>1. /\ stackTops \in Seq(Addr) /\ n \in 0 .. MAX_THREADS - 1
          /\ stackTops' = Append(stackTops, nextStackBase)
          /\ nextStackBase' = NextBase(nextStackBase, n)
          /\ nextStackBase = Place(n) /\ UNCHANGED programBreak
          /\ \A t \in 0 .. n - 1 : stackTops[t + 1] = Place(t)
      BY <1>2 DEF CreateThread, StackInv, StacksPlaced, Count
    <2>2. nextStackBase' = Place(n + 1)
      BY <2>1, NextBaseIs
    <2>3. Place(n) \in Addr
      BY <2>1, PlaceIsAddr
    <2> HIDE DEF Place
    <2>4. /\ stackTops' \in Seq(Addr) /\ Len(stackTops') = n + 1
          /\ \A i \in 1 .. n : stackTops'[i] = stackTops[i]
          /\ stackTops'[n + 1] = Place(n)
      BY <2>1, <2>3
    <2> HIDE DEF n
    <2>5. \A t \in 0 .. (n + 1) - 1 : stackTops'[t + 1] = Place(t)
      <3>0. (n + 1) - 1 = n
        BY <2>1
      <3> SUFFICES ASSUME NEW t \in 0 .. n PROVE stackTops'[t + 1] = Place(t)
        BY <3>0
      <3>1. CASE t = n
        BY <2>4, <3>1
      <3>2. CASE t # n
        <4>1. t \in 0 .. n - 1 /\ t + 1 \in 1 .. n
          BY <2>1, <3>2
        <4> QED BY <2>1, <2>4, <4>1
      <3> QED BY <3>1, <3>2
    <2>6. Count' = n + 1 /\ n + 1 \in 0 .. MAX_THREADS
      BY <2>1, <2>4 DEF Count
    <2>7. /\ \A t \in 0 .. Count' - 1 : stackTops'[t + 1] = Place(t)
          /\ nextStackBase' = Place(Count')
      BY <2>2, <2>5, <2>6, Zenon
    <2>8. programBreak' \in HEAP_START .. HEAP_MAX_LIMIT
      BY <2>1 DEF StackInv, StacksPlaced
    <2>9. Count' \in 0 .. MAX_THREADS
      BY <2>6, Zenon
    <2>10. StacksPlaced'
      BY <2>7, Zenon DEF StacksPlaced
    <2> HIDE DEF Count
    <2> QED BY <2>4, <2>7, <2>8, <2>9, <2>10, Zenon DEF StackInv
  <1>3. ASSUME NEW k \in Increments, Sbrk(k) PROVE StackInv'
    <2>1. Wrap(programBreak + k) \in Int
      BY LayoutOK DEF Wrap, StackInv, StacksPlaced
    <2>2. programBreak' \in HEAP_START .. HEAP_MAX_LIMIT
      BY <1>3, <2>1 DEF Sbrk, BreakRefused
    <2> QED BY <1>3, <2>2 DEF Sbrk, StackInv, StacksPlaced, Count
  <1>4. UNCHANGED <<stackTops, nextStackBase, programBreak>> => StackInv'
    BY DEF StackInv, StacksPlaced, Count
  <1>5. ASSUME NEW a \in Addr, HandlePageFault(a) PROVE StackInv'
    BY <1>4, <1>5 DEF HandlePageFault, MapPage
  <1>6. ASSUME NEW v, Drop(v) PROVE StackInv'
    BY <1>4, <1>6 DEF Drop
  <1>7. Terminate => StackInv'
    BY <1>4 DEF Terminate
  <1>8. ASSUME NEW a \in Addr, SegmentationFault(a) PROVE StackInv'
    BY <1>7, <1>8 DEF SegmentationFault
  <1>9. CASE UNCHANGED vars
    BY <1>4, <1>9 DEF vars
  <1> HIDE DEF StackInv, StacksPlaced
  <1> QED BY <1>1, <1>2, <1>3, <1>5, <1>6, <1>7, <1>8, <1>9, Zenon DEF Next

\* However many threads a process creates, each stack keeps its full size and
\* its guard page, and none comes near the heap (Process::createThread).
THEOREM StacksKeptApart == Spec => []StacksApart
  <1>1. StackInv => StacksApart
    <2> SUFFICES ASSUME StackInv, NEW t \in 0 .. Count - 1
                 PROVE  /\ Bottom(t) >= STACK_REGION_BOTTOM
                        /\ stackTops[t + 1] = Bottom(t) + StackSize(t)
                        /\ stackTops[t + 1] <= STACK_TOP
                        /\ \A u \in 0 .. Count - 1 : t < u =>
                              stackTops[u + 1] + GUARD_PAGE_SIZE <= Bottom(t)
      BY DEF StacksApart, Tid, Count
    <2>1. /\ t \in 0 .. MAX_THREADS - 1
          /\ stackTops[t + 1] = Place(t)
          /\ Bottom(t) = Place(t) - StackSize(t)
      BY BottomIs
    <2>2. /\ Place(t) \in Nat /\ Place(t) <= 4 * M /\ StackSize(t) \in Nat
          /\ Place(t) - StackSize(t) >= 2 * M
      BY <2>1, Places
    <2>3. ASSUME NEW u \in 0 .. Count - 1, t < u
          PROVE  stackTops[u + 1] + GUARD_PAGE_SIZE <= Bottom(t)
      <3>1. u \in 0 .. MAX_THREADS - 1 /\ stackTops[u + 1] = Place(u) /\ t \in 0 .. u
        BY <2>3, BottomIs
      <3>2. Place(u) + G <= Place(t) - StackSize(t)
        BY <2>3, <3>1, PlacesInOrder
      <3> QED BY <2>1, <3>1, <3>2 DEF G
    <2> HIDE DEF Place
    <2> QED BY <2>1, <2>2, <2>3, Sizes
  <1> QED BY <1>1, StackInit, StackNext, PTL DEF Spec

-----------------------------------------------------------------------------
(***************************************************************************)
(* Pages.                                                                  *)
(***************************************************************************)
\* Addresses that are the first of a page.
Aligned(a) == \E k \in Nat : a = G * k

\* The page of an address begins no earlier than an aligned address below it.
LEMMA PageBegins ==
    ASSUME NEW a \in Nat
    PROVE  /\ Page(a) \in Nat
           /\ G * Page(a) \in Nat /\ G * Page(a) <= a /\ a < G * Page(a) + G
           /\ \A b \in Nat : Aligned(b) /\ b <= a => b <= G * Page(a)
  <1> USE Sizes
  <1>1. /\ Page(a) \in Nat /\ G * Page(a) \in Nat
        /\ G * Page(a) <= a /\ a < G * Page(a) + G
    BY DivMul DEF Page
  <1>2. ASSUME NEW k \in Nat, G * k <= a PROVE G * k <= G * Page(a)
    <2>1. CASE k <= Page(a)
      BY <1>1, <2>1, MulMono
    <2>2. CASE Page(a) + 1 <= k
      <3>1. (Page(a) + 1) * G <= k * G
        BY <1>1, <2>2, MulMono
      <3>2. (Page(a) + 1) * G = Page(a) * G + G
        BY <1>1, MulNext
      <3>3. k * G = G * k /\ Page(a) * G = G * Page(a)
        BY <1>1
      <3> QED BY <1>1, <1>2, <3>1, <3>2, <3>3
    <2> QED BY <1>1, <2>1, <2>2
  <1> QED BY <1>1, <1>2 DEF Aligned

\* The page of an address in the guard page below an aligned address is the
\* guard page.
LEMMA PageBefore ==
    ASSUME NEW b \in Nat, Aligned(b), NEW o \in 1 .. G, G <= b
    PROVE  Page(b - o) \in Nat /\ G * Page(b - o) = b - G
  <1> USE Sizes
  <1>1. PICK k \in Nat : b = G * k
    BY DEF Aligned
  <1>2. k # 0
    BY <1>1
  <1>3. k - 1 \in Nat /\ G * k = G * (k - 1) + G
    <2>1. k - 1 \in Nat /\ (k - 1) + 1 = k
      BY <1>2
    <2>2. k * G = (k - 1) * G + G
      BY <2>1, MulNext
    <2> QED BY <2>1, <2>2
  <1>4. b - o \in Nat /\ G * (k - 1) <= b - o /\ b - o < G * (k - 1) + G
        /\ G * (k - 1) \in Nat
    BY <1>1, <1>3
  <1>5. Aligned(G * (k - 1))
    BY <1>3 DEF Aligned
  <1>6. G * (k - 1) <= G * Page(b - o) /\ Page(b - o) \in Nat /\ G * Page(b - o) <= b - o
        /\ G * Page(b - o) \in Nat
    BY <1>4, <1>5, PageBegins
  <1>7. G * Page(b - o) <= G * (k - 1)
    <2>1. Aligned(b)
      OBVIOUS
    <2>2. CASE Page(b - o) <= k - 1
      BY <1>3, <1>6, <2>2, MulMono
    <2>3. CASE k <= Page(b - o)
      <3>1. k * G <= Page(b - o) * G
        BY <1>6, <2>3, MulMono
      <3>2. k * G = G * k /\ Page(b - o) * G = G * Page(b - o)
        BY <1>6
      <3> QED BY <1>1, <1>6, <3>1, <3>2
    <2> QED BY <1>3, <1>6, <2>2, <2>3
  <1> QED BY <1>1, <1>3, <1>6, <1>7

LEMMA StacksAligned ==
    ASSUME NEW t \in 0 .. MAX_THREADS - 1
    PROVE  Aligned(Place(t) - StackSize(t))
  <1> USE Sizes
  <1> DEFINE m == M \div G
             s == THREAD_STACK_SIZE \div G
  <1>1. M = G * m /\ m \in Nat /\ THREAD_STACK_SIZE = G * s /\ s \in Nat
    BY PagesOK, LayoutOK, Multiple DEF M
  <1> HIDE DEF m, s
  <1>2. Place(t) - StackSize(t) \in Nat
    <2>1. Place(t) \in Nat /\ StackSize(t) \in Nat /\ Place(t) - StackSize(t) >= 2 * M
      BY Places
    <2> HIDE DEF Place
    <2> QED BY <2>1
  <1>3. CASE t = 0
    <2>1. Place(t) - StackSize(t) = 3 * M
      BY <1>3 DEF Place, StackSize, M
    <2>2. 3 * M = G * (3 * m) /\ 3 * m \in Nat
      BY <1>1
    <2> QED BY <2>1, <2>2 DEF Aligned
  <1>4. CASE t # 0
    <2>1. Place(t) - StackSize(t) = 3 * M - t * Stride
      <3>1. t * Stride = (t - 1) * Stride + Stride
        <4>1. t - 1 \in Nat /\ (t - 1) + 1 = t
          BY <1>4
        <4> QED BY <4>1, MulNext
      <3>2. Place(t) = 3 * M - G - (t - 1) * Stride
        BY <1>4 DEF Place
      <3>3. StackSize(t) = Stride - G /\ (t - 1) * Stride \in Int
        BY <1>1, <1>4 DEF StackSize, Stride, G
      <3> HIDE DEF Place
      <3> QED BY <3>1, <3>2, <3>3
    <2>2. Stride = G * (s + 1)
      BY <1>1 DEF Stride, G
    <2>3. t * Stride = G * (t * (s + 1))
      BY <1>1, <2>2
    <2>4. 3 * M - t * Stride = G * (3 * m - t * (s + 1))
      BY <1>1, <2>3
    <2>5. 3 * m - t * (s + 1) \in Nat
      <3> DEFINE k == 3 * m - t * (s + 1)
      <3>1. k \in Int /\ G * k \in Nat
        BY <1>1, <1>2, <2>1, <2>4
      <3> HIDE DEF k
      <3>2. CASE k < 0
        <4>1. -k \in Nat /\ 1 <= -k
          BY <3>1, <3>2
        <4>2. 1 * G <= (-k) * G
          BY <4>1, MulMono
        <4>3. (-k) * G = -(G * k)
          BY <3>1
        <4> QED BY <3>1, <4>2, <4>3
      <3> QED BY <3>1, <3>2 DEF k
    <2> QED BY <2>1, <2>4, <2>5 DEF Aligned
  <1> QED BY <1>3, <1>4

LEMMA RegionsAligned == Aligned(M) /\ Aligned(2 * M)
  <1>1. M = G * (M \div G) /\ M \div G \in Nat
    BY PagesOK, Sizes, Multiple DEF M
  <1> HIDE DEF M, G
  <1>2. 2 * M = G * (2 * (M \div G)) /\ 2 * (M \div G) \in Nat
    BY <1>1, Sizes
  <1> QED BY <1>1, <1>2 DEF Aligned

-----------------------------------------------------------------------------
(***************************************************************************)
(* Segments.                                                               *)
(***************************************************************************)
SegmentsInv == segments = <<>> \/ \E f \in Files : segments = f.segments

Ends(seg) == seg.vaddr + seg.memSize

LEMMA SegmentsAre ==
    ASSUME SegmentsInv
    PROVE  \A k \in DOMAIN segments :
              /\ k \in Nat
              /\ segments[k].vaddr \in Nat /\ segments[k].memSize \in Nat
              /\ segments[k].fileSize \in Nat /\ segments[k].fileOffset \in Nat
              /\ segments[k].fileSize <= segments[k].memSize
              /\ Aligned(segments[k].vaddr)
              /\ Ends(segments[k]) <= M
              /\ \A j \in DOMAIN segments : j # k =>
                    \/ Ends(segments[j]) <= segments[k].vaddr
                    \/ Ends(segments[k]) <= segments[j].vaddr
  <1>1. CASE segments = <<>>
    BY <1>1
  <1>2. ASSUME NEW f \in Files, segments = f.segments, NEW k \in DOMAIN segments
        PROVE  /\ k \in Nat
               /\ segments[k] \in Segment
               /\ segments[k].vaddr % KERNEL_PAGE_SIZE = 0
               /\ segments[k].fileSize <= segments[k].memSize
               /\ segments[k].vaddr + segments[k].memSize <= HEAP_START
               /\ \A j \in DOMAIN segments : j < k =>
                    \/ segments[j].vaddr + segments[j].memSize <= segments[k].vaddr
                    \/ segments[k].vaddr + segments[k].memSize <= segments[j].vaddr
    <2>1. segments \in Seq(Segment)
      BY <1>2, FilesOK
    <2>2. k \in Nat /\ segments[k] \in Segment
      BY <2>1
    <2> QED BY <1>2, <2>2, FilesOK
  <1>3. ASSUME NEW f \in Files, segments = f.segments, NEW k \in DOMAIN segments
        PROVE  /\ k \in Nat
               /\ segments[k].vaddr \in Nat /\ segments[k].memSize \in Nat
               /\ segments[k].fileSize \in Nat /\ segments[k].fileOffset \in Nat
               /\ segments[k].fileSize <= segments[k].memSize
               /\ Aligned(segments[k].vaddr)
               /\ Ends(segments[k]) <= M
    <2>1. segments[k] \in Segment /\ k \in Nat
      BY <1>2, <1>3
    <2>2. /\ segments[k].vaddr \in Nat /\ segments[k].memSize \in Nat
          /\ segments[k].fileSize \in Nat /\ segments[k].fileOffset \in Nat
      BY <2>1, Sizes DEF Segment, Addr
    <2>3. Aligned(segments[k].vaddr)
      <3>1. segments[k].vaddr % KERNEL_PAGE_SIZE = 0
        BY <1>2, <1>3
      <3>2. \A a \in Nat : a % KERNEL_PAGE_SIZE = 0 => Aligned(a)
        BY Sizes, Multiple DEF Aligned
      <3> QED BY <2>2, <3>1, <3>2, Zenon
    <2>4. segments[k].fileSize <= segments[k].memSize /\ Ends(segments[k]) <= M
      BY <1>2, <1>3, Sizes DEF Ends
    <2> QED BY <2>1, <2>2, <2>3, <2>4
  <1>4. ASSUME NEW f \in Files, segments = f.segments,
               NEW k \in DOMAIN segments, NEW j \in DOMAIN segments, j # k
        PROVE  \/ Ends(segments[j]) <= segments[k].vaddr
               \/ Ends(segments[k]) <= segments[j].vaddr
    <2>1. j < k \/ k < j
      BY <1>3, <1>4
    <2>2. CASE j < k
      BY <1>2, <1>4, <2>2 DEF Ends
    <2>3. CASE k < j
      BY <1>2, <1>4, <2>3 DEF Ends
    <2> QED BY <2>1, <2>2, <2>3
  <1>5. CASE \E f \in Files : segments = f.segments
    BY <1>3, <1>4, <1>5
  <1> QED BY <1>1, <1>5 DEF SegmentsInv

\* Two segments have no page in common, although only their addresses are
\* known to be apart: they start on pages of their own.
LEMMA OneSegmentOnPage ==
    ASSUME SegmentsInv, NEW j \in DOMAIN segments, NEW k \in DOMAIN segments,
           NEW a \in Nat, NEW b \in Nat, Page(a) = Page(b),
           Holds(segments[j], a), Holds(segments[k], b)
    PROVE  j = k
  <1> SUFFICES ASSUME j # k PROVE FALSE
    OBVIOUS
  <1>1. /\ segments[j].vaddr \in Nat /\ segments[k].vaddr \in Nat
        /\ segments[j].memSize \in Nat /\ segments[k].memSize \in Nat
        /\ Aligned(segments[j].vaddr) /\ Aligned(segments[k].vaddr)
    BY SegmentsAre
  <1>2. /\ segments[j].vaddr <= a /\ a < Ends(segments[j])
        /\ segments[k].vaddr <= b /\ b < Ends(segments[k])
    BY <1>1 DEF Holds, Ends
  <1>3. segments[j].vaddr <= G * Page(a) /\ segments[k].vaddr <= G * Page(a)
    BY <1>1, <1>2, PageBegins
  <1>4. G * Page(a) <= a /\ G * Page(a) <= b /\ G * Page(a) \in Nat
    BY PageBegins
  <1>5. Ends(segments[j]) \in Nat /\ Ends(segments[k]) \in Nat
    BY <1>1 DEF Ends
  <1>6. CASE Ends(segments[j]) <= segments[k].vaddr
    BY <1>1, <1>2, <1>3, <1>4, <1>5, <1>6
  <1>7. CASE Ends(segments[k]) <= segments[j].vaddr
    BY <1>1, <1>2, <1>3, <1>4, <1>5, <1>7
  <1> QED BY <1>6, <1>7, SegmentsAre

-----------------------------------------------------------------------------
(***************************************************************************)
(* What is in memory, and why.                                             *)
(***************************************************************************)
OnStack(x, n) ==
    \E t \in 0 .. n - 1 : Place(t) - StackSize(t) <= x /\ x < Place(t)

ImageByte(seg, v, o, x) ==
    LET rel == v * KERNEL_PAGE_SIZE + o - seg.vaddr
    IN  rel \in 0 .. seg.memSize - 1 =>
            x = IF rel < seg.fileSize THEN seg.fileOffset + rel ELSE Zero

Imaged(v, c) ==
    \A k \in DOMAIN segments, o \in 0 .. KERNEL_PAGE_SIZE - 1 :
        ImageByte(segments[k], v, o, c[o])

\* Where page v may be, and what it may hold.
PageSound(v, c) ==
    /\ v \in Nat
    /\ G * v < 2 * M \/ OnStack(G * v, Count)
    /\ c \in Content
    /\ Imaged(v, c)

PagesInv ==
    /\ active \in BOOLEAN
    /\ SegmentsInv
    /\ pageTable = [v \in DOMAIN pageTable |-> pageTable[v]]
    /\ \A v \in DOMAIN pageTable : PageSound(v, pageTable[v])

\* A byte of a segment on a page puts the page below the heap.
LEMMA SegmentPageIsLow ==
    ASSUME SegmentsInv, NEW k \in DOMAIN segments, NEW v \in Nat,
           NEW o \in 0 .. KERNEL_PAGE_SIZE - 1,
           v * KERNEL_PAGE_SIZE + o - segments[k].vaddr
              \in 0 .. segments[k].memSize - 1
    PROVE  /\ G * v \in Nat /\ G * v + o \in Nat
           /\ Page(G * v + o) = v
           /\ Holds(segments[k], G * v + o)
           /\ G * v < M
  <1> USE Sizes
  <1>1. v * KERNEL_PAGE_SIZE = G * v /\ G * v \in Nat /\ G * v + o \in Nat
    BY MulMono
  <1>2. segments[k].vaddr \in Nat /\ segments[k].memSize \in Nat
        /\ segments[k].vaddr + segments[k].memSize <= M
    BY SegmentsAre DEF Ends
  <1>3. Holds(segments[k], G * v + o) /\ G * v < M
    BY <1>1, <1>2 DEF Holds
  <1>4. Page(G * v + o) = v
    <2> DEFINE u == Page(G * v + o)
    <2>1. /\ u \in Nat /\ G * u \in Nat /\ G * u <= G * v + o
          /\ G * v <= G * u
      <3>1. Aligned(G * v) /\ G * v <= G * v + o
        BY <1>1 DEF Aligned
      <3>2. /\ u \in Nat /\ G * u \in Nat /\ G * u <= G * v + o
            /\ \A b \in Nat : Aligned(b) /\ b <= G * v + o => b <= G * u
        BY <1>1, PageBegins
      <3> QED BY <1>1, <3>1, <3>2
    <2> HIDE DEF u
    <2>2. CASE u + 1 <= v
      <3>1. (u + 1) * G <= v * G /\ (u + 1) * G = u * G + G
        BY <2>1, <2>2, MulMono, MulNext
      <3>2. u * G = G * u /\ v * G = G * v
        BY <2>1
      <3> QED BY <1>1, <2>1, <3>1, <3>2
    <2>3. CASE v + 1 <= u
      <3>1. (v + 1) * G <= u * G /\ (v + 1) * G = v * G + G
        BY <2>1, <2>3, MulMono, MulNext
      <3>2. u * G = G * u /\ v * G = G * v
        BY <2>1
      <3> QED BY <1>1, <2>1, <3>1, <3>2
    <2>4. CASE u = v
      BY <2>4 DEF u
    <2> QED BY <2>1, <2>2, <2>3, <2>4
  <1> QED BY <1>1, <1>3, <1>4

\* A page at M or above holds no byte of a segment, so anything may be on it.
LEMMA HighPageImaged ==
    ASSUME SegmentsInv, NEW v \in Nat, G * v >= M, NEW c
    PROVE  Imaged(v, c)
  <1> SUFFICES ASSUME NEW k \in DOMAIN segments, NEW o \in 0 .. KERNEL_PAGE_SIZE - 1,
                      v * KERNEL_PAGE_SIZE + o - segments[k].vaddr
                         \in 0 .. segments[k].memSize - 1
               PROVE  FALSE
    BY DEF Imaged, ImageByte
  <1>1. G * v < M /\ G * v \in Nat
    BY SegmentPageIsLow
  <1> QED BY <1>1, Sizes

LEMMA StackPageSound ==
    ASSUME StackInv, SegmentsInv, NEW a \in Addr, StackGrowth(a), NEW c \in Content
    PROVE  PageSound(Page(a), c)
  <1> USE Sizes
  <1>1. PICK t \in 0 .. Count - 1 : InStack(a, t)
    BY DEF StackGrowth, GrowsStack, Tid, Count
  <1>2. /\ t \in 0 .. MAX_THREADS - 1
        /\ Place(t) - StackSize(t) <= a /\ a < Place(t)
    BY <1>1, BottomIs DEF InStack
  <1>3. /\ Place(t) - StackSize(t) >= 2 * M /\ Place(t) \in Nat /\ StackSize(t) \in Nat
        /\ Aligned(Place(t) - StackSize(t))
    BY <1>2, Places, StacksAligned
  <1> HIDE DEF Place
  <1>4. a \in Nat /\ Place(t) - StackSize(t) \in Nat
    BY <1>3 DEF Addr
  <1>5. /\ Page(a) \in Nat /\ G * Page(a) \in Nat /\ G * Page(a) <= a
        /\ Place(t) - StackSize(t) <= G * Page(a)
    BY <1>2, <1>3, <1>4, PageBegins
  <1>6. G * Page(a) < Place(t) /\ G * Page(a) >= M
    BY <1>2, <1>3, <1>4, <1>5
  <1>7. OnStack(G * Page(a), Count)
    BY <1>5, <1>6 DEF OnStack
  <1>8. Imaged(Page(a), c)
    BY <1>5, <1>6, HighPageImaged
  <1> QED BY <1>5, <1>7, <1>8 DEF PageSound

LEMMA HeapPageSound ==
    ASSUME StackInv, SegmentsInv, NEW a \in Addr, InHeap(a), NEW c \in Content
    PROVE  PageSound(Page(a), c)
  <1> USE Sizes
  <1>1. a \in Nat /\ M <= a /\ a < 2 * M
    BY DEF Addr, InHeap, StackInv, StacksPlaced
  <1>2. /\ Page(a) \in Nat /\ G * Page(a) \in Nat /\ G * Page(a) <= a
        /\ M <= G * Page(a)
    BY <1>1, RegionsAligned, PageBegins
  <1>3. Imaged(Page(a), c)
    BY <1>2, HighPageImaged
  <1> QED BY <1>1, <1>2, <1>3 DEF PageSound

\* What lazy loading reads from the file is what the segment says.
LEMMA SegmentPageSound ==
    ASSUME SegmentsInv, NEW a \in Addr, NEW k \in DOMAIN segments, IsLoaded(a, k)
    PROVE  PageSound(Page(a), FromFile(segments[k], Page(a)))
  <1> DEFINE seg == segments[k]
             v == Page(a)
             offset == v * KERNEL_PAGE_SIZE - seg.vaddr
             c == FromFile(seg, v)
  <1> USE Sizes
  <1>1. /\ seg.vaddr \in Nat /\ seg.memSize \in Nat /\ seg.fileSize \in Nat
        /\ seg.fileOffset \in Nat /\ Aligned(seg.vaddr) /\ Ends(seg) <= M
    BY SegmentsAre
  <1>2. a \in Nat /\ Holds(seg, a)
    BY DEF Addr, IsLoaded
  <1>3. seg.vaddr <= a /\ a < M
    BY <1>1, <1>2 DEF Holds, Ends
  <1>4. v \in Nat /\ G * v \in Nat /\ G * v <= a /\ seg.vaddr <= G * v
    BY <1>1, <1>2, <1>3, PageBegins
  <1>5. offset \in Nat /\ offset = G * v - seg.vaddr /\ Wrap(offset) = offset
    <2>1. v * KERNEL_PAGE_SIZE = G * v
      BY <1>4
    <2>2. offset \in Nat /\ offset < 2^AddrBits
      BY <1>1, <1>2, <1>3, <1>4, <2>1
    <2> QED BY <2>1, <2>2, ModSmall DEF Wrap
  <1> HIDE DEF offset
  <1>6. \A o \in 0 .. KERNEL_PAGE_SIZE - 1 :
           o < BytesToRead(seg, offset) <=> offset + o < seg.fileSize
    BY <1>1, <1>5 DEF BytesToRead, Least
  <1>7. c = [o \in 0 .. KERNEL_PAGE_SIZE - 1 |->
                IF o < BytesToRead(seg, offset) THEN seg.fileOffset + offset + o ELSE Zero]
    BY <1>5 DEF FromFile, offset
  <1>8. c \in Content
    BY <1>1, <1>5, <1>7 DEF Content, Zero
  <1>9. ASSUME NEW j \in DOMAIN segments, NEW o \in 0 .. KERNEL_PAGE_SIZE - 1,
               v * KERNEL_PAGE_SIZE + o - segments[j].vaddr
                  \in 0 .. segments[j].memSize - 1
        PROVE  LET rel == v * KERNEL_PAGE_SIZE + o - segments[j].vaddr
               IN  c[o] = IF rel < segments[j].fileSize
                            THEN segments[j].fileOffset + rel ELSE Zero
    <2>1. /\ G * v + o \in Nat /\ Page(G * v + o) = v
          /\ Holds(segments[j], G * v + o)
      BY <1>4, <1>9, SegmentPageIsLow
    <2>2. j = k
      BY <1>2, <2>1, OneSegmentOnPage
    <2>3. v * KERNEL_PAGE_SIZE + o - seg.vaddr = offset + o
      BY <1>1, <1>4, <1>5
    <2>4. c[o] = IF offset + o < seg.fileSize THEN seg.fileOffset + (offset + o) ELSE Zero
      <3>1. c[o] = IF o < BytesToRead(seg, offset) THEN seg.fileOffset + offset + o ELSE Zero
        BY <1>7
      <3>2. o < BytesToRead(seg, offset) <=> offset + o < seg.fileSize
        BY <1>6
      <3>3. (seg.fileOffset + offset) + o = seg.fileOffset + (offset + o)
        BY <1>1, <1>5
      <3> QED BY <3>1, <3>2, <3>3
    <2> HIDE DEF c, v
    <2> QED BY <2>2, <2>3, <2>4
  <1> HIDE DEF c, v
  <1>10. Imaged(v, c)
    BY <1>9 DEF Imaged, ImageByte
  <1>11. G * v < 2 * M
    BY <1>2, <1>3, <1>4
  <1> QED BY <1>4, <1>8, <1>10, <1>11 DEF PageSound, v, c

LEMMA FaultPageSound ==
    ASSUME StackInv, SegmentsInv, NEW a \in Addr, HandlePageFault(a)
    PROVE  \E c : MapPage(a, c) /\ PageSound(Page(a), c)
  <1>1. \A x \in Int : Filled(x) \in Content
    BY DEF Filled, Content
  <1>2. Filled(Garbage) \in Content /\ Filled(Zero) \in Content
    BY <1>1 DEF Garbage, Zero
  <1>3. CASE StackGrowth(a) /\ MapPage(a, Filled(Garbage))
    BY <1>2, <1>3, StackPageSound
  <1>4. ASSUME NEW k \in DOMAIN segments, IsLoaded(a, k),
               MapPage(a, FromFile(segments[k], Page(a)))
        PROVE  \E c : MapPage(a, c) /\ PageSound(Page(a), c)
    BY <1>4, SegmentPageSound
  <1>5. CASE InHeap(a) /\ MapPage(a, Filled(Zero))
    BY <1>2, <1>5, HeapPageSound
  <1> QED BY <1>3, <1>4, <1>5 DEF HandlePageFault

-----------------------------------------------------------------------------
(***************************************************************************)
(* The pages stay sound.                                                   *)
(***************************************************************************)
LEMMA PagesInit == Init => PagesInv
  BY DEF Init, PagesInv, SegmentsInv

\* Pages stay where they are as long as no thread goes away.
LEMMA PagesKept ==
    ASSUME PagesInv, StackInv, StackInv', UNCHANGED segments, active' \in BOOLEAN,
           Count <= Count',
           DOMAIN pageTable' \subseteq DOMAIN pageTable,
           pageTable' = [v \in DOMAIN pageTable' |-> pageTable[v]]
    PROVE  PagesInv'
  <1>1. SegmentsInv'
    BY DEF PagesInv, SegmentsInv
  <1>2. Count \in Nat /\ Count' \in Nat
    BY Sizes DEF StackInv, StacksPlaced
  <1>3. ASSUME NEW v \in DOMAIN pageTable' PROVE PageSound(v, pageTable[v])'
    <2>1. PageSound(v, pageTable[v]) /\ pageTable'[v] = pageTable[v]
      BY DEF PagesInv
    <2>2. Imaged(v, pageTable[v])'
      BY <2>1 DEF PageSound, Imaged
    <2>3. OnStack(G * v, Count) => OnStack(G * v, Count')
      BY <1>2 DEF OnStack
    <2> QED BY <2>1, <2>2, <2>3 DEF PageSound
  <1> QED BY <1>1, <1>3 DEF PagesInv

LEMMA PagesNext == StackInv /\ StackInv' /\ PagesInv /\ [Next]_vars => PagesInv'
  <1> SUFFICES ASSUME StackInv, StackInv', PagesInv, [Next]_vars PROVE PagesInv'
    OBVIOUS
  <1>0. /\ active \in BOOLEAN /\ SegmentsInv
        /\ pageTable = [v \in DOMAIN pageTable |-> pageTable[v]]
        /\ Count \in Nat
    BY Sizes DEF PagesInv, StackInv, StacksPlaced
  <1>1. ASSUME NEW f \in Files, LoadELF(f) PROVE PagesInv'
    <2>1. segments' = f.segments /\ DOMAIN pageTable' = {} /\ pageTable' = [v \in {} |-> <<>>]
      BY <1>1 DEF LoadELF
    <2>2. active' \in BOOLEAN
      BY <1>1 DEF LoadELF, IsExecutable
    <2> QED BY <2>1, <2>2 DEF PagesInv, SegmentsInv
  <1>2. ASSUME UNCHANGED <<segments, stackTops, pageTable>>, active' \in BOOLEAN
        PROVE  PagesInv'
    <2>1. Count <= Count'
      BY <1>0, <1>2 DEF Count
    <2>2. pageTable' = [v \in DOMAIN pageTable' |-> pageTable[v]]
      BY <1>0, <1>2
    <2> QED BY <1>2, <2>1, <2>2, PagesKept
  <1>3. ASSUME NEW a \in Addr, CreateThread(a) PROVE PagesInv'
    <2>1. /\ stackTops \in Seq(Addr) /\ nextStackBase \in Addr
          /\ stackTops' = Append(stackTops, nextStackBase)
          /\ UNCHANGED <<active, segments, pageTable>>
      <3>1. Count \in 0 .. MAX_THREADS /\ nextStackBase = Place(Count)
        BY DEF StackInv, StacksPlaced
      <3> QED BY <1>3, <3>1, PlaceIsAddr DEF CreateThread, StackInv, StacksPlaced
    <2>2. Count' = Count + 1
      BY <2>1 DEF Count
    <2>3. pageTable' = [v \in DOMAIN pageTable' |-> pageTable[v]]
      BY <1>0, <2>1
    <2> QED BY <1>0, <2>1, <2>2, <2>3, PagesKept
  <1>4. ASSUME NEW n \in Increments, Sbrk(n) PROVE PagesInv'
    BY <1>0, <1>2, <1>4 DEF Sbrk
  <1>5. ASSUME NEW a \in Addr, HandlePageFault(a) PROVE PagesInv'
    <2>1. PICK c : MapPage(a, c) /\ PageSound(Page(a), c)
      BY <1>0, <1>5, FaultPageSound
    <2>2. /\ pageTable' = [v \in DOMAIN pageTable \cup {Page(a)} |->
                             IF v = Page(a) THEN c ELSE pageTable[v]]
          /\ UNCHANGED <<active, segments, stackTops>>
      BY <2>1 DEF MapPage
    <2>3. ASSUME NEW v \in DOMAIN pageTable' PROVE PageSound(v, pageTable[v])'
      <3>1. PageSound(v, pageTable'[v])
        <4>1. CASE v = Page(a)
          BY <2>1, <2>2, <4>1
        <4>2. CASE v # Page(a)
          BY <2>2, <4>2 DEF PagesInv
        <4> QED BY <4>1, <4>2
      <3> QED BY <2>2, <3>1 DEF PageSound, Imaged, Count
    <2>4. SegmentsInv'
      BY <1>0, <2>2 DEF SegmentsInv
    <2>5. pageTable' = [v \in DOMAIN pageTable' |-> pageTable'[v]]
      BY <2>2
    <2> QED BY <1>0, <2>2, <2>3, <2>4, <2>5 DEF PagesInv
  <1>6. ASSUME NEW v, Drop(v) PROVE PagesInv'
    <2>1. /\ DOMAIN pageTable' = DOMAIN pageTable \ {v}
          /\ pageTable' = [u \in DOMAIN pageTable' |-> pageTable[u]]
          /\ UNCHANGED <<active, segments, stackTops>>
      BY <1>6 DEF Drop
    <2>2. Count <= Count'
      BY <1>0, <2>1 DEF Count
    <2> QED BY <1>0, <2>1, <2>2, PagesKept
  <1>7. Terminate => PagesInv'
    BY <1>2 DEF Terminate
  <1>8. ASSUME NEW a \in Addr, SegmentationFault(a) PROVE PagesInv'
    BY <1>7, <1>8 DEF SegmentationFault
  <1>9. CASE UNCHANGED vars
    BY <1>0, <1>2, <1>9 DEF vars
  <1> HIDE DEF PagesInv
  <1> QED BY <1>1, <1>3, <1>4, <1>5, <1>6, <1>7, <1>8, <1>9, Zenon DEF Next

LEMMA BothHold == Spec => [](StackInv /\ PagesInv)
  BY StackInit, StackNext, PagesInit, PagesNext, PTL DEF Spec

\* The break never leaves the heap, the stack pointers never leave the address
\* space and every page in memory is whole (Process::sbrk, createThread).
THEOREM TypeCorrect == Spec => []TypeOK
  <1>1. StackInv /\ PagesInv => TypeOK
    <2> SUFFICES ASSUME StackInv, PagesInv PROVE TypeOK
      OBVIOUS
    <2>1. nextStackBase \in Addr
      BY PlaceIsAddr DEF StackInv, StacksPlaced
    <2>2. Len(stackTops) <= MAX_THREADS
      BY Sizes DEF StackInv, StacksPlaced, Count
    <2>3. pageTable \in [DOMAIN pageTable -> Content]
      BY DEF PagesInv, PageSound
    <2> QED BY <2>1, <2>2, <2>3 DEF TypeOK, StackInv, StacksPlaced, PagesInv
  <1> QED BY <1>1, BothHold, PTL

\* A segment's pages hold what the ELF file says, wherever in its page the
\* fault was (handleLazyLoading).
THEOREM ImagesLoaded == Spec => []ImageLoaded
  <1>1. PagesInv => ImageLoaded
    BY DEF PagesInv, PageSound, Imaged, ImageByte, ImageLoaded
  <1> QED BY <1>1, BothHold, PTL

\* The guard page of a stack with another one below it stays out of memory,
\* whatever is accessed: to run over a stack is to end the process.
THEOREM GuardsStayUnmapped == Spec => []GuardsUnmapped
  <1>1. StackInv /\ PagesInv => GuardsUnmapped
    <2> SUFFICES ASSUME StackInv, PagesInv, NEW t \in 0 .. Count - 1,
                        t < MAX_THREADS - 1, NEW o \in 1 .. GUARD_PAGE_SIZE,
                        Page(Bottom(t) - o) \in DOMAIN pageTable
                 PROVE  FALSE
      BY DEF GuardsUnmapped, Tid, Count
    <2> USE Sizes
    <2> DEFINE b == Place(t) - StackSize(t)
               v == Page(b - o)
    <2>0. Count \in Nat /\ Count <= MAX_THREADS /\ t \in Nat
      BY DEF StackInv, StacksPlaced
    <2>1. t \in 0 .. MAX_THREADS - 1 /\ t + 1 \in 0 .. MAX_THREADS - 1 /\ Bottom(t) = b
      BY <2>0, BottomIs
    <2>2. /\ b >= 2 * M /\ Place(t + 1) = b - G
          /\ Place(t) \in Nat /\ StackSize(t) \in Nat /\ Aligned(b)
      BY <2>1, Places, StacksAligned
    <2>3. Place(t + 1) >= 2 * M
      <3>1. /\ Place(t + 1) \in Nat /\ StackSize(t + 1) \in Nat
            /\ Place(t + 1) - StackSize(t + 1) >= 2 * M
        BY <2>1, Places
      <3> HIDE DEF Place
      <3> QED BY <3>1
    <2> HIDE DEF Place
    <2>4. b \in Nat /\ G <= b /\ b - G >= 2 * M
      BY <2>2, <2>3
    <2>5. o \in 1 .. G
      BY DEF G
    <2> HIDE DEF b
    <2>6. v \in Nat /\ G * v = b - G
      BY <2>2, <2>4, <2>5, PageBefore
    <2>7. G * v < 2 * M \/ OnStack(G * v, Count)
      BY <2>1 DEF PagesInv, PageSound
    <2>8. PICK u \in 0 .. Count - 1 : Place(u) - StackSize(u) <= b - G /\ b - G < Place(u)
      BY <2>4, <2>6, <2>7 DEF OnStack
    <2>9. u \in 0 .. MAX_THREADS - 1 /\ Place(u) \in Nat /\ StackSize(u) \in Nat
      <3>1. u \in 0 .. MAX_THREADS - 1
        BY BottomIs
      <3> QED BY <3>1, Places
    <2>10. CASE u = t
      BY <2>2, <2>4, <2>8, <2>10 DEF b
    <2>11. CASE u < t
      <3>1. Place(t) + G <= Place(u) - StackSize(u)
        BY <2>0, <2>1, <2>9, <2>11, PlacesInOrder
      <3> QED BY <2>2, <2>4, <2>8, <2>9, <3>1 DEF b
    <2>12. CASE t < u
      <3>1. Place(u) + G <= b
        BY <2>0, <2>9, <2>12, PlacesInOrder DEF b
      <3> QED BY <2>4, <2>8, <2>9, <3>1
    <2> QED BY <2>0, <2>9, <2>10, <2>11, <2>12
  <1> QED BY <1>1, BothHold, PTL

LEMMA AtMostOne ==
    ASSUME NEW S, \A x, y \in S : x = y
    PROVE  Cardinality(S) <= 1
  <1>1. CASE S = {}
    BY <1>1, FS_EmptySet
  <1>2. CASE S # {}
    <2>1. PICK x \in S : TRUE
      BY <1>2
    <2>2. S = {x}
      BY <2>1
    <2> QED BY <2>2, FS_Singleton
  <1> QED BY <1>1, <1>2

\* Stack, segments and heap never claim the same address, so the order in
\* which handlePageFault asks them is immaterial.
THEOREM OneReasonOnly == Spec => []OneReason
  <1> DEFINE stacks(a) == {t \in Tid : GrowsStack(a, t)}
             loaded(a) == {k + MAX_THREADS :
                             k \in {k \in DOMAIN segments : Holds(segments[k], a)}}
             heap(a) == {n \in {-1} : InHeap(a)}
  <1>1. ASSUME StackInv, PagesInv, NEW a \in Addr
        PROVE  Cardinality(stacks(a) \cup loaded(a) \cup heap(a)) <= 1
    <2> USE Sizes
    <2>1. a \in Nat /\ SegmentsInv /\ Count \in Nat /\ Count <= MAX_THREADS
      BY <1>1 DEF Addr, PagesInv, StackInv, StacksPlaced
    <2>2. ASSUME NEW t \in stacks(a)
          PROVE  /\ t \in 0 .. Count - 1 /\ a >= 2 * M
                 /\ Place(t) - StackSize(t) <= a /\ a < Place(t)
      <3>1. t \in 0 .. Count - 1 /\ GrowsStack(a, t)
        BY DEF Tid, Count
      <3>2. Bottom(t) = Place(t) - StackSize(t) /\ stackTops[t + 1] = Place(t)
        BY <1>1, <3>1, BottomIs
      <3> HIDE DEF Place
      <3> QED BY <3>1, <3>2 DEF GrowsStack, InStack, InStackRegion
    <2>3. ASSUME NEW k \in DOMAIN segments, Holds(segments[k], a)
          PROVE  a < M /\ k \in Nat
      <3>1. /\ segments[k].vaddr \in Nat /\ segments[k].memSize \in Nat
            /\ Ends(segments[k]) <= M /\ k \in Nat
        BY <2>1, SegmentsAre
      <3> QED BY <2>1, <2>3, <3>1 DEF Holds, Ends
    <2>4. InHeap(a) => M <= a /\ a < 2 * M
      BY <1>1, <2>1 DEF InHeap, StackInv, StacksPlaced
    <2>5. ASSUME NEW t \in stacks(a), NEW u \in stacks(a) PROVE t = u
      <3>1. \A x \in stacks(a) : /\ x \in 0 .. MAX_THREADS - 1
                                 /\ Place(x) \in Nat /\ StackSize(x) \in Nat
        BY <1>1, <2>2, BottomIs, Places
      <3>2. ASSUME NEW x \in stacks(a), NEW y \in stacks(a), x < y PROVE FALSE
        <4>1. Place(y) + G <= Place(x) - StackSize(x)
          BY <3>1, <3>2, PlacesInOrder
        <4>2. Place(x) - StackSize(x) <= a /\ a < Place(y)
          BY <2>2
        <4> HIDE DEF Place, stacks
        <4> QED BY <2>1, <3>1, <4>1, <4>2
      <3> HIDE DEF stacks, Place
      <3> QED BY <3>1, <3>2
    <2>6. ASSUME NEW j \in DOMAIN segments, NEW k \in DOMAIN segments,
                 Holds(segments[j], a), Holds(segments[k], a)
          PROVE  j = k
      BY <2>1, <2>6, OneSegmentOnPage
    <2>7. /\ \A x, y \in loaded(a) : x = y
          /\ \A x \in loaded(a) : a < M
          /\ \A x, y \in heap(a) : x = y
          /\ \A x \in heap(a) : M <= a /\ a < 2 * M
      BY <2>3, <2>4, <2>6
    <2>8. \A x \in stacks(a) : a >= 2 * M
      BY <2>2
    <2> HIDE DEF stacks, loaded, heap
    <2>9. \A x, y \in stacks(a) \cup loaded(a) \cup heap(a) : x = y
      BY <2>1, <2>5, <2>7, <2>8
    <2> QED BY <2>9, AtMostOne
  <1>2. StackInv /\ PagesInv => OneReason
    BY <1>1 DEF OneReason
  <1> QED BY <1>2, BothHold, PTL

=============================================================================
