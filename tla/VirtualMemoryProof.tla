-------------------------- MODULE VirtualMemoryProof --------------------------
(***************************************************************************)
(* Proofs about module VirtualMemory, for every number of processes,       *)
(* pages, frames and swap slots and every layout of the address space.     *)
(* Types, the owners of frames, the victims of evictions and the slots of  *)
(* pages that are out: for every workload.  The rest: without slot reuse.  *)
(***************************************************************************)
EXTENDS VirtualMemory, Induction, SequenceTheorems

PageTables == [Pid -> [Vpn -> PTE]]
SwapArea == [Slot -> [used: BOOLEAN, data: Content]]

\* ppn names a frame while the page is in memory and a slot while it is
\* swapped out.  In between an entry has either, or nothing in it.
EntryOK(e) == (e.valid => e.ppn \in Frame) /\ (e.swapped /\ ~e.valid => e.ppn \in Slot)
EntriesOK(pt) == \A p \in Pid, v \in Vpn : EntryOK(pt[p][v])

\* The inductive invariant for types: without EntriesOK a step may name a
\* frame or slot there is not.
TypeInv == TypeOK /\ EntriesOK(pageTable)

(***************************************************************************)
(* Who holds a frame, and who a slot, as invariants of the page tables.    *)
(***************************************************************************)
Info(p, v) == [allocated |-> TRUE, ownerPid |-> p, vpn |-> v]

\* A frame that is not in use is on the free list, perhaps more than once.
NoneLost ==
    \A f \in Frame : ~frameTable[f].allocated => \E i \in DOMAIN freeFrames : freeFrames[i] = f

\* The queue may hold more than the frames in use, but never less.
Queued ==
    \A f \in Frame : frameTable[f].allocated => \E k \in DOMAIN queue : queue[k] = f

Out(pt, p, v) == pt[p][v].swapped /\ ~pt[p][v].valid

\* No two pages are out in one slot, and a slot with a page is taken.
SlotsApart(pt, sw) ==
    /\ \A p, q \in Pid, v, w \in Vpn :
          Out(pt, p, v) /\ Out(pt, q, w) /\ pt[p][v].ppn = pt[q][w].ppn
            => p = q /\ v = w
    /\ \A p \in Pid, v \in Vpn : Out(pt, p, v) => sw[pt[p][v].ppn].used

\* A slot that is taken has a page.
SlotsFilled(pt, sw) ==
    \A s \in Slot : sw[s].used => \E p \in Pid, v \in Vpn : Out(pt, p, v) /\ pt[p][v].ppn = s

SlotsOK(pt, sw) == SlotsApart(pt, sw) /\ SlotsFilled(pt, sw)

\* What holds for every workload: each frame that is in use is in the queue,
\* with an owner that has it, no other frame is lost, and so nothing panics
\* for want of a victim.
HolderInv == OwnerHasPage /\ NoneLost /\ Queued
BaseInv == TypeInv /\ HolderInv /\ SlotsApart(pageTable, swap) /\ EvictionFindsVictim

\* What holds without slot reuse: the owner is the only one that has the frame,
\* and neither a frame nor a slot is on offer twice or lost.
OwnInv == OwnsFrame /\ FramesAccounted /\ SlotsFilled(pageTable, swap)
FrameInv == OwnsFrame /\ OwnerHasPage /\ FramesAccounted /\ Queued
Inv == TypeInv /\ FrameInv /\ SlotsOK(pageTable, swap) /\ EvictionFindsVictim

(***************************************************************************)
(* What a page holds that can be thrown away.                              *)
(***************************************************************************)
PageOK(e, v, r) ==
    /\ e.dirty => e.valid /\ e.canWrite
    /\ e.valid \/ e.swapped => (e.canWrite <=> v \notin CodePages)
    /\ e.swapped => e.canWrite
    /\ e.valid /\ ~e.dirty /\ ~e.swapped /\ v \notin StackPages
          => r[e.ppn] = Initial[v]

CopiesInv == \A p \in active, v \in Vpn : PageOK(pageTable[p][v], v, ram)

-----------------------------------------------------------------------------
(***************************************************************************)
(* Facts about numbers, sets and sequences.                                *)
(***************************************************************************)
LEMMA FinitePages == IsFiniteSet(Vpn)
  <1>1. IsFiniteSet(HeapPages)
    BY FS_Interval, LayoutOK DEF HeapPages
  <1> QED BY <1>1, LayoutOK, FS_Union DEF Vpn

\* An order of a finite set, injective by definition, leaves nothing out.
LEMMA OrderIsComplete ==
    ASSUME NEW S, IsFiniteSet(S), NEW order \in Orders(S)
    PROVE  /\ Cardinality(S) \in Nat
           /\ order \in [1 .. Cardinality(S) -> S]
           /\ \A i, j \in 1 .. Cardinality(S) : order[i] = order[j] => i = j
           /\ \A v \in S : \E k \in 1 .. Cardinality(S) : order[k] = v
  <1> DEFINE n == Cardinality(S)
  <1>1. n \in Nat
    BY FS_CardinalityType
  <1>2. /\ order \in [1 .. n -> S]
        /\ \A i, j \in 1 .. n : order[i] = order[j] => i = j
    BY DEF Orders
  <1> HIDE DEF n
  <1>3. order \in Injection(1 .. n, S)
    BY <1>2 DEF Injection, IsInjective
  <1>4. Cardinality(1 .. n) = n
    BY <1>1, FS_Interval
  <1>5. order \in Surjection(1 .. n, S)
    BY <1>3, <1>4, FS_Injection DEF n
  <1> QED BY <1>1, <1>2, <1>5 DEF Surjection, n

-----------------------------------------------------------------------------
(***************************************************************************)
(* What the helpers do.                                                    *)
(***************************************************************************)
\* An allocated frame names a page.
LEMMA OwnerType ==
    ASSUME TypeOK, NEW f \in Frame, frameTable[f].allocated
    PROVE  /\ frameTable[f].ownerPid \in Pid
           /\ frameTable[f].vpn \in Vpn
           /\ frameTable[f] = Info(frameTable[f].ownerPid, frameTable[f].vpn)
  <1>1. frameTable[f] \in FrameInfo
    BY DEF TypeOK
  <1>2. frameTable[f] \in [allocated: {TRUE}, ownerPid: Pid, vpn: Vpn]
    BY <1>1 DEF FrameInfo
  <1> QED BY <1>2 DEF Info

\* A page's frame is given back once, whatever the order.
LEMMA WipeEffect ==
    ASSUME TypeInv, NEW p \in Pid, WipeMemory(p)
    PROVE  \E n \in Nat, order \in Seq(ValidPages(p)) :
              /\ Len(order) = n
              /\ \A i, j \in 1 .. n : order[i] = order[j] => i = j
              /\ \A v \in ValidPages(p) : \E k \in 1 .. n : order[k] = v
              /\ freeFrames' \in Seq(Frame)
              /\ Len(freeFrames') = Len(freeFrames) + n
              /\ \A k \in 1 .. Len(freeFrames') : freeFrames'[k] =
                    IF k <= Len(freeFrames) THEN freeFrames[k]
                    ELSE pageTable[p][order[k - Len(freeFrames)]].ppn
  <1> DEFINE S == ValidPages(p)
  <1>1. IsFiniteSet(S) /\ S \subseteq Vpn
    <2>1. S \in SUBSET Vpn
      BY DEF ValidPages
    <2> QED BY <2>1, FinitePages, FS_Subset
  <1>2. PICK order \in Orders(S) :
           freeFrames' = freeFrames \o
              [k \in DOMAIN order |-> pageTable[p][order[k]].ppn]
    BY DEF WipeMemory
  <1> DEFINE n == Cardinality(S)
             back == [k \in 1 .. n |-> pageTable[p][order[k]].ppn]
  <1>3. /\ n \in Nat
        /\ order \in [1 .. n -> S]
        /\ \A i, j \in 1 .. n : order[i] = order[j] => i = j
        /\ \A v \in S : \E k \in 1 .. n : order[k] = v
    BY <1>1, OrderIsComplete
  <1> HIDE DEF n
  <1>4. order \in Seq(S) /\ Len(order) = n
    BY <1>3
  <1>5. \A k \in 1 .. n : pageTable[p][order[k]].ppn \in Frame
    <2> SUFFICES ASSUME NEW k \in 1 .. n
                 PROVE  pageTable[p][order[k]].ppn \in Frame
      OBVIOUS
    <2>1. order[k] \in Vpn /\ pageTable[p][order[k]].valid
      BY <1>3 DEF ValidPages
    <2> QED BY <2>1 DEF TypeInv, EntriesOK, EntryOK
  <1>6. back \in Seq(Frame) /\ Len(back) = n /\ freeFrames' = freeFrames \o back
    BY <1>2, <1>3, <1>5
  <1>7. freeFrames \in Seq(Frame)
    BY DEF TypeInv, TypeOK
  <1> HIDE DEF back
  <1>8. /\ freeFrames' \in Seq(Frame)
        /\ Len(freeFrames') = Len(freeFrames) + n
        /\ \A k \in 1 .. Len(freeFrames) + n : freeFrames'[k] =
              IF k <= Len(freeFrames) THEN freeFrames[k]
                                      ELSE back[k - Len(freeFrames)]
    BY <1>6, <1>7, ConcatProperties
  <1>9. \A k \in 1 .. Len(freeFrames') : k > Len(freeFrames) =>
           back[k - Len(freeFrames)] = pageTable[p][order[k - Len(freeFrames)]].ppn
    BY <1>3, <1>7, <1>8 DEF back
  <1>10. \A k \in 1 .. Len(freeFrames') : freeFrames'[k] =
            IF k <= Len(freeFrames) THEN freeFrames[k]
            ELSE pageTable[p][order[k - Len(freeFrames)]].ppn
    BY <1>7, <1>8, <1>9
  <1> HIDE DEF S
  <1>11. /\ \A i, j \in 1 .. n : order[i] = order[j] => i = j
         /\ \A v \in S : \E k \in 1 .. n : order[k] = v
    BY <1>3
  <1> QED BY <1>3, <1>4, <1>8, <1>10, <1>11 DEF S

\* What a page fault leaves behind, whatever its reason was: page v of process
\* p is in frame f, and nothing else has changed in pt.
Elsewhere(p, v, pt) ==
    /\ pageTable' \in PageTables
    /\ \A q \in Pid, w \in Vpn : q # p \/ w # v => pageTable'[q][w] = pt[q][w]

InFrame(p, v, f) == pageTable'[p][v].valid /\ pageTable'[p][v].ppn = f

Restored(p, v, f, pt, sw) ==
    LET slot == pt[p][v].ppn
    IN  /\ swap' = [sw EXCEPT ![slot].used = FALSE]
        /\ ram' = [ram EXCEPT ![f] = sw[slot].data]
        /\ ~pageTable'[p][v].dirty
        /\ pageTable'[p][v].swapped = pt[p][v].swapped
        /\ pageTable'[p][v].canWrite = pt[p][v].canWrite

Fresh(p, v, f, pt, sw) ==
    /\ swap' = sw
    /\ ram' \in [Frame -> Content]
    /\ \A g \in Frame : g # f => ram'[g] = ram[g]
    /\ v \notin StackPages => ram'[f] = Initial[v]
    /\ pageTable'[p][v].dirty = pt[p][v].dirty
    /\ pageTable'[p][v].swapped = pt[p][v].swapped
    /\ pageTable'[p][v].canWrite = (v \notin CodePages)

LEMMA InitialType == \A v \in Vpn \ StackPages : Initial[v] \in Content
  BY LayoutOK DEF Initial, Content, Vpn, Segments

LEMMA ResolveEffect ==
    ASSUME ram \in [Frame -> Content],
           NEW p \in Pid, NEW v \in Vpn, NEW f \in Frame,
           NEW pt \in PageTables, NEW sw \in SwapArea,
           Resolve(p, v, f, pt, sw)
    PROVE  /\ Elsewhere(p, v, pt)
           /\ InFrame(p, v, f)
           /\ IF pageTable[p][v].swapped THEN Restored(p, v, f, pt, sw)
                                         ELSE Fresh(p, v, f, pt, sw)
  <1> USE DEF PageTables, Elsewhere, InFrame
  <1>0. Frame \subseteq Nat /\ pt[p][v] \in PTE
    BY LayoutOK DEF Frame
  <1>1. CASE pageTable[p][v].swapped
    <2>1. SwapIn(p, v, f, pt, sw)
      BY <1>1 DEF Resolve
    <2> DEFINE e == [pt[p][v] EXCEPT !.ppn = f, !.valid = TRUE, !.dirty = FALSE]
    <2>2. pageTable' = [pt EXCEPT ![p][v] = e]
      BY <2>1 DEF SwapIn
    <2>3. e \in PTE /\ e.valid /\ e.ppn = f /\ ~e.dirty
          /\ e.swapped = pt[p][v].swapped /\ e.canWrite = pt[p][v].canWrite
      BY <1>0 DEF PTE
    <2> HIDE DEF e
    <2>4. pageTable'[p][v] = e
      BY <2>2
    <2>5. Elsewhere(p, v, pt) /\ InFrame(p, v, f)
      BY <2>2, <2>3, <2>4
    <2>6. Restored(p, v, f, pt, sw)
      BY <2>1, <2>3, <2>4 DEF SwapIn, Released, Restored
    <2> QED BY <1>1, <2>5, <2>6
  <1>2. CASE ~pageTable[p][v].swapped
    <2> DEFINE writable == v \notin CodePages
               e == Mapped(pt[p][v], f, writable)
    <2>1. e \in PTE /\ e.valid /\ e.ppn = f /\ e.dirty = pt[p][v].dirty
          /\ e.swapped = pt[p][v].swapped /\ e.canWrite = writable
      BY <1>0 DEF PTE, Mapped
    <2>2. /\ pageTable' = [pt EXCEPT ![p][v] = e]
          /\ swap' = sw
          /\ ram' \in [Frame -> Content]
          /\ \A g \in Frame : g # f => ram'[g] = ram[g]
          /\ v \notin StackPages => ram'[f] = Initial[v]
      <3>1. CASE StackGrowth(p, v, f, pt, sw)
        <4>1. v \in StackPages /\ v \notin CodePages
          BY <3>1, LayoutOK DEF StackGrowth, Segments
        <4> QED BY <3>1, <4>1 DEF StackGrowth
      <3>2. CASE LazyLoading(p, v, f, pt, sw)
        <4>1. v \in Segments /\ (v \in DataPages <=> v \notin CodePages)
          BY <3>2, LayoutOK DEF LazyLoading, Segments
        <4>2. Initial[v] = Image[v] /\ Image[v] \in Content
          BY <4>1 DEF Initial, Content
        <4>3. Mapped(pt[p][v], f, v \in DataPages) = e
          <5>1. (v \in DataPages) = writable
            BY <4>1
          <5> QED BY <5>1, Zenon
        <4> HIDE DEF e
        <4> QED BY <3>2, <4>1, <4>2, <4>3 DEF LazyLoading
      <3>3. CASE HeapGrowth(p, v, f, pt, sw)
        <4>1. v \in HeapPages /\ v \notin CodePages /\ v \notin Segments
          BY <3>3, LayoutOK DEF HeapGrowth, Segments
        <4>2. Initial[v] = Zero /\ Zero \in Content
          BY <4>1 DEF Initial, Content
        <4> QED BY <3>3, <4>1, <4>2 DEF HeapGrowth
      <3>4. \/ StackGrowth(p, v, f, pt, sw)
            \/ LazyLoading(p, v, f, pt, sw)
            \/ HeapGrowth(p, v, f, pt, sw)
        BY <1>2 DEF Resolve
      <3> QED BY <3>1, <3>2, <3>3, <3>4, Zenon
    <2> HIDE DEF e
    <2>3. pageTable'[p][v] = e
      BY <2>2
    <2>4. Elsewhere(p, v, pt) /\ InFrame(p, v, f)
      BY <2>1, <2>2, <2>3
    <2>5. Fresh(p, v, f, pt, sw)
      BY <2>1, <2>2, <2>3 DEF Fresh
    <2> QED BY <1>2, <2>4, <2>5
  <1> QED BY <1>1, <1>2

-----------------------------------------------------------------------------
(***************************************************************************)
(* Types.                                                                  *)
(***************************************************************************)
LEMMA InitType == Init => TypeInv
  <1> SUFFICES ASSUME Init PROVE TypeInv
    OBVIOUS
  <1> USE DEF Init
  <1>1. pageTable \in [Pid -> [Vpn -> PTE]]
    BY DEF NoPages, NoPTE, PTE
  <1>2. EntriesOK(pageTable)
    BY DEF EntriesOK, EntryOK, NoPages, NoPTE
  <1>3. freeFrames \in Seq(Frame)
    <2>1. \A k \in 1 .. NumFrames : k - 1 \in Frame
      BY LayoutOK DEF Frame
    <2> QED BY <2>1, LayoutOK
  <1>4. frameTable \in [Frame -> FrameInfo]
    BY DEF FreeFrame, FrameInfo
  <1>5. programBreak \in [Pid -> HEAP_START .. HEAP_MAX]
    BY LayoutOK
  <1>6. ram \in [Frame -> Content] /\ swap \in SwapArea
    BY DEF Content, SwapArea
  <1>7. status \in {"running", "no victim", "swap full", "not active"}
    OBVIOUS
  <1>8. active \in SUBSET Pid /\ started \in SUBSET Pid
    OBVIOUS
  <1>9. queue \in Seq(Frame)
    OBVIOUS
  <1>10. exact \in BOOLEAN /\ intruded \in BOOLEAN
    OBVIOUS
  <1> QED BY <1>1, <1>2, <1>3, <1>4, <1>5, <1>6, <1>7, <1>8, <1>9, <1>10
          DEF TypeInv, TypeOK, SwapArea

LEMMA WipeType ==
    ASSUME TypeInv, NEW p \in Pid, WipeMemory(p)
    PROVE  freeFrames' \in Seq(Frame) /\ frameTable' \in [Frame -> FrameInfo]
  <1>1. freeFrames' \in Seq(Frame)
    BY WipeEffect
  <1>2. FreeFrame \in FrameInfo
    BY DEF FreeFrame, FrameInfo
  <1> QED BY <1>1, <1>2 DEF WipeMemory, TypeInv, TypeOK

LEMMA TerminateType ==
    ASSUME TypeInv, NEW p \in Pid, Terminate(p)
    PROVE  TypeInv'
  BY WipeType DEF Terminate, history, TypeInv, TypeOK, EntriesOK, EntryOK

LEMMA KillType ==
    ASSUME TypeInv, NEW p \in Pid, Kill(p)
    PROVE  TypeInv'
  <1>1. CASE KillPanic(p)
    BY <1>1 DEF KillPanic, procVars, frameVars, history, TypeInv, TypeOK, EntriesOK, EntryOK
  <1> QED BY <1>1, TerminateType DEF Kill

LEMMA RecycleType ==
    ASSUME TypeInv, NEW p \in Pid, Recycle(p)
    PROVE  TypeInv'
  <1> USE DEF Recycle
  <1>1. NoPages \in [Vpn -> PTE]
    BY DEF NoPages, NoPTE, PTE
  <1>2. pageTable' \in PageTables
    BY <1>1 DEF TypeInv, TypeOK, PageTables
  <1>3. EntriesOK(pageTable')
    BY DEF EntriesOK, EntryOK, NoPages, NoPTE, TypeInv, TypeOK
  <1>4. programBreak' \in [Pid -> HEAP_START .. HEAP_MAX]
    BY LayoutOK DEF TypeInv, TypeOK
  <1>5. active' \in SUBSET Pid /\ started' \in SUBSET Pid
    BY DEF TypeInv, TypeOK
  <1> QED BY <1>2, <1>3, <1>4, <1>5, WipeType
             DEF history, TypeInv, TypeOK, PageTables, EntriesOK

LEMMA WriteType ==
    ASSUME TypeInv, NEW p \in Pid, NEW v \in Vpn, NEW x \in Written,
           pageTable[p][v].valid, Write(p, v, x)
    PROVE  /\ ram' \in [Frame -> Content]
           /\ pageTable' \in PageTables
           /\ EntriesOK(pageTable')
           /\ intruded' \in BOOLEAN
  <1> DEFINE e == [pageTable[p][v] EXCEPT !.dirty = TRUE]
  <1>1. pageTable' = [pageTable EXCEPT ![p][v] = e]
    BY DEF Write
  <1>2. e \in PTE /\ EntryOK(e)
    <2>1. pageTable[p][v] \in PTE /\ EntryOK(pageTable[p][v])
      BY DEF TypeInv, TypeOK, EntriesOK
    <2>2. e \in PTE
      BY <2>1 DEF PTE
    <2>3. e.valid = pageTable[p][v].valid /\ e.swapped = pageTable[p][v].swapped
          /\ e.ppn = pageTable[p][v].ppn
      BY <2>1 DEF PTE
    <2> QED BY <2>1, <2>2, <2>3 DEF EntryOK
  <1>3. ram' \in [Frame -> Content]
    BY DEF Write, TypeInv, TypeOK, Content
  <1> HIDE DEF e
  <1>4. pageTable' \in PageTables
    BY <1>1, <1>2 DEF TypeInv, TypeOK, PageTables
  <1>5. EntriesOK(pageTable')
    BY <1>1, <1>2 DEF TypeInv, TypeOK, EntriesOK
  <1>6. intruded' \in BOOLEAN
    BY DEF Write
  <1> QED BY <1>3, <1>4, <1>5, <1>6

\* The page tables after an eviction of page w of process q.
AfterDrop(q, w) == [pageTable EXCEPT ![q][w] = DroppedPTE(pageTable[q][w])]
AfterSwap(q, w, s) == [pageTable EXCEPT ![q][w] = SwappedOut(pageTable[q][w], s)]
SwapWith(s, x) == [swap EXCEPT ![s] = [used |-> TRUE, data |-> x]]

LEMMA EvictionType ==
    ASSUME TypeInv, NEW q \in Pid, NEW w \in Vpn
    PROVE  /\ AfterDrop(q, w) \in PageTables /\ EntriesOK(AfterDrop(q, w))
           /\ \A s \in Slot :
                /\ AfterSwap(q, w, s) \in PageTables
                /\ EntriesOK(AfterSwap(q, w, s))
                /\ \A x \in Content : SwapWith(s, x) \in SwapArea
  <1>1. pageTable[q][w] \in PTE /\ pageTable \in PageTables /\ EntriesOK(pageTable)
    BY DEF TypeInv, TypeOK, PageTables
  <1>2. DroppedPTE(pageTable[q][w]) \in PTE /\ EntryOK(DroppedPTE(pageTable[q][w]))
    BY <1>1 DEF DroppedPTE, PTE, EntryOK
  <1>3. ASSUME NEW s \in Slot
        PROVE  SwappedOut(pageTable[q][w], s) \in PTE
               /\ EntryOK(SwappedOut(pageTable[q][w], s))
    <2>1. s \in Nat
      BY LayoutOK DEF Slot
    <2> QED BY <1>1, <1>3, <2>1 DEF SwappedOut, PTE, EntryOK
  <1>4. ASSUME NEW e \in PTE, EntryOK(e)
        PROVE  LET pt == [pageTable EXCEPT ![q][w] = e]
               IN  pt \in PageTables /\ EntriesOK(pt)
    BY <1>1, <1>4 DEF PageTables, EntriesOK
  <1>5. \A s \in Slot, x \in Content : SwapWith(s, x) \in SwapArea
    BY DEF SwapWith, SwapArea, TypeInv, TypeOK
  <1> QED BY <1>2, <1>3, <1>4, <1>5 DEF AfterDrop, AfterSwap

\* The faulting page gets a frame, whatever was evicted for it.
LEMMA FaultType ==
    ASSUME TypeInv, NEW p \in Pid, NEW v \in Vpn, NEW f \in Frame,
           NEW pt \in PageTables, EntriesOK(pt), NEW sw \in SwapArea,
           pageTable[p][v].swapped => pt[p][v].ppn \in Slot,
           NEW rest \in Seq(Frame),
           Register(p, v, f, rest), Resolve(p, v, f, pt, sw),
           UNCHANGED <<status, procVars, history>>, freeFrames' \in Seq(Frame)
    PROVE  TypeInv'
  <1>1. /\ Elsewhere(p, v, pt)
        /\ InFrame(p, v, f)
        /\ IF pageTable[p][v].swapped THEN Restored(p, v, f, pt, sw)
                                      ELSE Fresh(p, v, f, pt, sw)
    BY ResolveEffect DEF TypeInv, TypeOK
  <1>2. EntriesOK(pageTable')
    <2>1. EntryOK(pageTable'[p][v])
      BY <1>1 DEF InFrame, EntryOK
    <2> QED BY <1>1, <2>1 DEF Elsewhere, EntriesOK
  <1>3. ram' \in [Frame -> Content] /\ swap' \in SwapArea
    <2>1. CASE pageTable[p][v].swapped
      <3> DEFINE s == pt[p][v].ppn
      <3>1. s \in Slot
        BY <2>1
      <3>2. swap' = [sw EXCEPT ![s].used = FALSE] /\ ram' = [ram EXCEPT ![f] = sw[s].data]
        BY <1>1, <2>1 DEF Restored
      <3> HIDE DEF s
      <3>3. sw[s] \in [used: BOOLEAN, data: Content]
        BY <3>1 DEF SwapArea
      <3> QED BY <3>1, <3>2, <3>3 DEF SwapArea, TypeInv, TypeOK
    <2>2. CASE ~pageTable[p][v].swapped
      BY <1>1, <2>2 DEF Fresh
    <2> QED BY <2>1, <2>2
  <1>4. frameTable' \in [Frame -> FrameInfo] /\ queue' \in Seq(Frame)
    <2>1. Info(p, v) \in FrameInfo
      BY DEF Info, FrameInfo
    <2>2. frameTable' = [frameTable EXCEPT ![f] = Info(p, v)]
      BY DEF Register, Info
    <2>3. frameTable' \in [Frame -> FrameInfo]
      BY <2>1, <2>2 DEF TypeInv, TypeOK
    <2> QED BY <2>3 DEF Register
  <1>5. pageTable' \in [Pid -> [Vpn -> PTE]]
    BY <1>1 DEF Elsewhere, PageTables
  <1> QED BY <1>2, <1>3, <1>4, <1>5 DEF TypeInv, TypeOK, SwapArea, procVars, history

LEMMA FaultFreeType ==
    ASSUME TypeInv, NEW p \in Pid, NEW v \in Vpn, FaultFree(p, v)
    PROVE  TypeInv'
  <1> DEFINE n == Len(freeFrames)
             f == freeFrames[n]
  <1>1. /\ freeFrames \in Seq(Frame) /\ queue \in Seq(Frame)
        /\ pageTable \in PageTables /\ EntriesOK(pageTable) /\ swap \in SwapArea
    BY DEF TypeInv, TypeOK, PageTables, SwapArea
  <1>2. n \in Nat \ {0} /\ freeFrames' = SubSeq(freeFrames, 1, n - 1)
    BY <1>1, EmptySeq DEF FaultFree
  <1>3. f \in Frame /\ freeFrames' \in Seq(Frame)
    BY <1>1, <1>2
  <1>4. pageTable[p][v].swapped => pageTable[p][v].ppn \in Slot
    BY <1>1 DEF FaultFree, Faulting, EntriesOK, EntryOK
  <1> HIDE DEF n
  <1> QED BY <1>1, <1>3, <1>4, FaultType DEF FaultFree, n

\* FaultEvict with its victim named: page w of process q, in frame f, behind
\* which the queue goes on with rest.
Dropping(p, v, f, q, w) ==
    /\ Droppable(pageTable[q][w])
    /\ Resolve(p, v, f, AfterDrop(q, w), swap)

Swapping(p, v, f, q, w, s) ==
    /\ ~Droppable(pageTable[q][w])
    /\ FirstFree(s)
    /\ Resolve(p, v, f, AfterSwap(q, w, s), SwapWith(s, ram[f]))

LEMMA EvictionNamed ==
    ASSUME TypeOK, NEW p \in Pid, NEW v \in Vpn, FaultEvict(p, v)
    PROVE  \E k \in 1 .. Len(queue), f \in Frame, q \in Pid, w \in Vpn,
              rest \in Seq(Frame) :
              /\ Victim(k)
              /\ f = queue[k]
              /\ frameTable[f] = Info(q, w)
              /\ rest = SubSeq(queue, k + 1, Len(queue))
              /\ Register(p, v, f, rest)
              /\ \/ Dropping(p, v, f, q, w)
                 \/ \E s \in Slot : Swapping(p, v, f, q, w, s)
  <1>1. queue \in Seq(Frame) /\ DOMAIN queue = 1 .. Len(queue)
    <2>1. queue \in Seq(Frame)
      BY DEF TypeOK
    <2> QED BY <2>1, LenProperties
  <1>2. PICK k \in DOMAIN queue :
          /\ Victim(k)
          /\ LET f == queue[k]
                 q == frameTable[f].ownerPid
                 w == frameTable[f].vpn
                 old == pageTable[q][w]
             IN  /\ Register(p, v, f, SubSeq(queue, k + 1, Len(queue)))
                 /\ \/ /\ Droppable(old)
                       /\ Resolve(p, v, f, AfterDrop(q, w), swap)
                    \/ /\ ~Droppable(old)
                       /\ \E s \in Slot :
                             /\ FirstFree(s)
                             /\ Resolve(p, v, f, AfterSwap(q, w, s),
                                        SwapWith(s, ram[f]))
    BY Zenon DEF FaultEvict, AfterDrop, AfterSwap, SwapWith
  <1> DEFINE f == queue[k]
             q == frameTable[f].ownerPid
             w == frameTable[f].vpn
             rest == SubSeq(queue, k + 1, Len(queue))
  <1>3. k \in 1 .. Len(queue) /\ f \in Frame /\ rest \in Seq(Frame)
    BY <1>1
  <1>4. q \in Pid /\ w \in Vpn /\ frameTable[f] = Info(q, w)
    BY <1>2, <1>3, OwnerType DEF Victim
  <1>5. /\ Register(p, v, f, rest)
        /\ \/ Dropping(p, v, f, q, w)
           \/ \E s \in Slot : Swapping(p, v, f, q, w, s)
    BY <1>2, Zenon DEF Dropping, Swapping
  <1> HIDE DEF f, q, w, rest
  <1>6. f = queue[k] /\ rest = SubSeq(queue, k + 1, Len(queue)) /\ Victim(k)
    BY <1>2 DEF f, rest
  <1> QED BY <1>3, <1>4, <1>5, <1>6

LEMMA FaultEvictType ==
    ASSUME TypeInv, NEW p \in Pid, NEW v \in Vpn, FaultEvict(p, v)
    PROVE  TypeInv'
  <1>1. /\ pageTable \in PageTables /\ EntriesOK(pageTable) /\ swap \in SwapArea
        /\ ram \in [Frame -> Content] /\ TypeOK
    BY DEF TypeInv, TypeOK, PageTables, SwapArea
  <1>2. PICK k \in 1 .. Len(queue), f \in Frame, q \in Pid, w \in Vpn,
             rest \in Seq(Frame) :
           /\ Register(p, v, f, rest)
           /\ \/ Dropping(p, v, f, q, w)
              \/ \E s \in Slot : Swapping(p, v, f, q, w, s)
    BY <1>1, EvictionNamed
  <1>3. ~pageTable[p][v].valid /\ UNCHANGED <<status, procVars, history, freeFrames>>
    BY DEF FaultEvict, Faulting
  <1>4. freeFrames' \in Seq(Frame)
    BY <1>3 DEF TypeInv, TypeOK
  <1>5. pageTable[p][v].swapped => pageTable[p][v].ppn \in Slot /\ 0 \in Slot
    <2>1. pageTable[p][v].swapped => pageTable[p][v].ppn \in Slot
      BY <1>1, <1>3 DEF EntriesOK, EntryOK
    <2> QED BY <2>1, LayoutOK DEF Slot
  <1>6. CASE Dropping(p, v, f, q, w)
    <2> DEFINE pt == AfterDrop(q, w)
    <2>1. pageTable[p][v].swapped => pt[p][v].ppn \in Slot
      BY <1>1, <1>5 DEF AfterDrop, DroppedPTE, PageTables, PTE
    <2>2. pt \in PageTables /\ EntriesOK(pt)
      BY EvictionType
    <2> HIDE DEF pt
    <2> QED BY <1>1, <1>2, <1>3, <1>4, <1>6, <2>1, <2>2, FaultType DEF Dropping, pt
  <1>7. ASSUME NEW s \in Slot, Swapping(p, v, f, q, w, s)
        PROVE  TypeInv'
    <2> DEFINE pt == AfterSwap(q, w, s)
               sw == SwapWith(s, ram[f])
    <2>1. pageTable[p][v].swapped => pt[p][v].ppn \in Slot
      BY <1>1, <1>5 DEF AfterSwap, SwappedOut, PageTables, PTE
    <2>2. pt \in PageTables /\ EntriesOK(pt) /\ sw \in SwapArea
      BY <1>1, EvictionType
    <2>3. Resolve(p, v, f, pt, sw)
      BY <1>7 DEF Swapping
    <2> HIDE DEF pt, sw
    <2> QED BY <1>1, <1>2, <1>3, <1>4, <2>1, <2>2, <2>3, FaultType
  <1> QED BY <1>2, <1>6, <1>7

LEMMA PageUsed == \A p \in Pid : Uses[p] \subseteq Vpn
  BY LayoutOK

LEMMA NextType == TypeInv /\ [Next]_vars => TypeInv'
  <1> SUFFICES ASSUME TypeInv, [Next]_vars PROVE TypeInv'
    OBVIOUS
  <1>1. CASE UNCHANGED vars
    BY <1>1 DEF vars, procVars, frameVars, history, TypeInv, TypeOK, EntriesOK, EntryOK
  <1>2. ASSUME NEW p \in Pid, Recycle(p) PROVE TypeInv'
    BY <1>2, RecycleType
  <1>3. ASSUME NEW p \in Pid, Exit(p) PROVE TypeInv'
    BY <1>3, KillType DEF Exit
  <1>4. ASSUME NEW p \in Pid, NEW n \in {-1, 1}, Sbrk(p, n) PROVE TypeInv'
    <2>1. programBreak' \in [Pid -> HEAP_START .. HEAP_MAX]
      BY <1>4 DEF Sbrk, BreakAllowed, TypeInv, TypeOK
    <2> QED BY <1>4, <2>1 DEF Sbrk, frameVars, history, TypeInv, TypeOK, EntriesOK, EntryOK
  <1>5. ASSUME NEW p \in Pid, NEW v \in Vpn, NEW x \in Written, Store(p, v, x)
        PROVE  TypeInv'
    BY <1>5, WriteType DEF Store, CanStore, procVars, frameVars, TypeInv, TypeOK, PageTables
  <1>6. ASSUME NEW p \in Pid, NEW v \in Vpn, NEW x \in Written, CopyOut(p, v, x)
        PROVE  TypeInv'
    <2>1. CASE CanStore(p, v)
      BY <1>6, <2>1, WriteType DEF CopyOut, CanStore, procVars, frameVars, TypeInv,
                                   TypeOK, PageTables
    <2>2. CASE ~CanStore(p, v)
      BY <1>6, <2>2 DEF CopyOut, procVars, frameVars, TypeInv, TypeOK, EntriesOK, EntryOK
    <2> QED BY <2>1, <2>2
  <1>7. ASSUME NEW p \in Pid, NEW v \in Vpn, CopyIn(p, v) PROVE TypeInv'
    BY <1>7 DEF CopyIn, procVars, frameVars, TypeInv, TypeOK, EntriesOK, EntryOK
  <1>8. ASSUME NEW p \in Pid, NEW v \in Vpn,
               ProtectionFault(p, v) \/ SegmentationFault(p, v)
        PROVE  TypeInv'
    BY <1>8, KillType DEF ProtectionFault, SegmentationFault
  <1>9. ASSUME NEW p \in Pid, NEW v \in Vpn, FaultFree(p, v) PROVE TypeInv'
    BY <1>9, FaultFreeType
  <1>10. ASSUME NEW p \in Pid, NEW v \in Vpn, FaultEvict(p, v) PROVE TypeInv'
    BY <1>10, FaultEvictType
  <1>11. ASSUME NEW p \in Pid, NEW v \in Vpn, FaultPanic(p, v) PROVE TypeInv'
    BY <1>11 DEF FaultPanic, procVars, frameVars, history, TypeInv, TypeOK, EntriesOK, EntryOK
  <1>12. CASE Halted
    BY <1>1, <1>12 DEF Halted
  <1> QED BY <1>1, <1>2, <1>3, <1>4, <1>5, <1>6, <1>7, <1>8, <1>9, <1>10, <1>11,
             <1>12, PageUsed, Zenon DEF Next

\* Every reachable state is well formed, slots reused or not: no page table
\* entry, frame owner or queue entry ever names something there is not.
THEOREM TypeCorrect == Spec => []TypeOK
  <1>1. Spec => []TypeInv
    BY InitType, NextType, PTL DEF Spec
  <1>2. TypeInv => TypeOK
    BY DEF TypeInv
  <1> QED BY <1>1, <1>2, PTL

-----------------------------------------------------------------------------
(***************************************************************************)
(* Frames.                                                                 *)
(***************************************************************************)
NoReuse == "reuse" \notin Workload

LEMMA InitFrames == Init => FrameInv /\ NoneLost
  <1> SUFFICES ASSUME Init PROVE FrameInv /\ NoneLost
    OBVIOUS
  <1> USE DEF Init
  <1>1. \A f \in Frame : ~frameTable[f].allocated
    BY DEF FreeFrame
  <1>2. OwnsFrame /\ OwnerHasPage /\ Queued
    BY <1>1 DEF OwnsFrame, OwnerHasPage, Queued
  <1>3. \A i, j \in DOMAIN freeFrames : freeFrames[i] = freeFrames[j] => i = j
    OBVIOUS
  <1>4. \A f \in Frame : \E i \in DOMAIN freeFrames : freeFrames[i] = f
    <2> SUFFICES ASSUME NEW f \in Frame
                 PROVE  \E i \in 1 .. NumFrames : freeFrames[i] = f
      OBVIOUS
    <2>1. f + 1 \in 1 .. NumFrames /\ (f + 1) - 1 = f
      BY LayoutOK DEF Frame
    <2> QED BY <2>1
  <1>5. FramesAccounted
    BY <1>1, <1>3, <1>4 DEF FramesAccounted
  <1> QED BY <1>2, <1>4, <1>5 DEF FrameInv, NoneLost

LEMMA InfoInjective ==
    ASSUME NEW p, NEW v, NEW q, NEW w, Info(p, v) = Info(q, w)
    PROVE  p = q /\ v = w
  BY DEF Info

\* An allocated frame is the frame of its owner's page, whoever else names it.
LEMMA OwnerHas ==
    ASSUME TypeInv, OwnerHasPage, NEW f \in Frame, frameTable[f].allocated
    PROVE  \E q \in Pid, w \in Vpn :
              /\ frameTable[f] = Info(q, w)
              /\ pageTable[q][w].valid /\ pageTable[q][w].ppn = f
  <1> DEFINE q == frameTable[f].ownerPid
             w == frameTable[f].vpn
  <1>1. q \in Pid /\ w \in Vpn /\ frameTable[f] = Info(q, w)
    BY OwnerType DEF TypeInv
  <1>2. pageTable[q][w].valid /\ pageTable[q][w].ppn = f
    BY DEF OwnerHasPage
  <1> HIDE DEF q, w
  <1> QED BY <1>1, <1>2

\* It is enough to name the owner and its page.
LEMMA OwnerHasPageNext ==
    ASSUME \A f \in Frame : frameTable'[f].allocated =>
              \E q \in Pid, w \in Vpn :
                 /\ frameTable'[f] = Info(q, w)
                 /\ pageTable'[q][w].valid /\ pageTable'[q][w].ppn = f
    PROVE  OwnerHasPage'
  <1> SUFFICES ASSUME NEW f \in Frame, frameTable'[f].allocated
               PROVE  LET q == frameTable'[f].ownerPid
                          w == frameTable'[f].vpn
                      IN  pageTable'[q][w].valid /\ pageTable'[q][w].ppn = f
    BY DEF OwnerHasPage
  <1>1. PICK q \in Pid, w \in Vpn :
           /\ frameTable'[f] = Info(q, w)
           /\ pageTable'[q][w].valid /\ pageTable'[q][w].ppn = f
    OBVIOUS
  <1>2. frameTable'[f].ownerPid = q /\ frameTable'[f].vpn = w
    BY <1>1 DEF Info
  <1> QED BY <1>1, <1>2

\* wipeMemory gives back all frames a process names, its own or not, and
\* takes no frame from anybody's list: nothing is lost, and nobody is left as
\* the owner of a frame that was given back.
LEMMA WipeHolders ==
    ASSUME TypeInv, HolderInv, NEW p \in Pid, WipeMemory(p),
           \A q \in Pid \ {p} : pageTable'[q] = pageTable[q],
           queue' = queue
    PROVE  HolderInv'
  <1> DEFINE mine == {pageTable[p][v].ppn : v \in ValidPages(p)}
  <1>1. \A f \in Frame : frameTable'[f] = IF f \in mine THEN FreeFrame ELSE frameTable[f]
    BY DEF WipeMemory
  <1>2. OwnerHasPage'
    <2> SUFFICES ASSUME NEW f \in Frame, frameTable'[f].allocated
                 PROVE  \E q \in Pid, w \in Vpn :
                           /\ frameTable'[f] = Info(q, w)
                           /\ pageTable'[q][w].valid /\ pageTable'[q][w].ppn = f
      BY OwnerHasPageNext
    <2>1. f \notin mine /\ frameTable'[f] = frameTable[f]
      BY <1>1 DEF FreeFrame
    <2>2. PICK q \in Pid, w \in Vpn :
             /\ frameTable[f] = Info(q, w)
             /\ pageTable[q][w].valid /\ pageTable[q][w].ppn = f
      BY <2>1, OwnerHas DEF HolderInv
    <2>3. q # p
      BY <2>1, <2>2 DEF ValidPages
    <2>4. pageTable'[q] = pageTable[q]
      BY <2>2, <2>3
    <2> QED BY <2>1, <2>2, <2>4
  <1>3. NoneLost'
    <2>1. PICK n \in Nat, order \in Seq(ValidPages(p)) :
            /\ Len(order) = n
            /\ \A i, j \in 1 .. n : order[i] = order[j] => i = j
            /\ \A v \in ValidPages(p) : \E k \in 1 .. n : order[k] = v
            /\ freeFrames' \in Seq(Frame)
            /\ Len(freeFrames') = Len(freeFrames) + n
            /\ \A k \in 1 .. Len(freeFrames') : freeFrames'[k] =
                  IF k <= Len(freeFrames) THEN freeFrames[k]
                  ELSE pageTable[p][order[k - Len(freeFrames)]].ppn
      BY WipeEffect
    <2> DEFINE m == Len(freeFrames)
    <2>2. m \in Nat /\ DOMAIN freeFrames = 1 .. m /\ DOMAIN freeFrames' = 1 .. m + n
      <3>1. freeFrames \in Seq(Frame)
        BY DEF TypeInv, TypeOK
      <3> QED BY <2>1, <3>1
    <2> SUFFICES ASSUME NEW f \in Frame, ~frameTable'[f].allocated
                 PROVE  \E i \in 1 .. m + n : freeFrames'[i] = f
      BY <2>2 DEF NoneLost
    <2>3. CASE f \in mine
      <3>1. PICK v \in ValidPages(p) : f = pageTable[p][v].ppn
        BY <2>3
      <3>2. PICK k \in 1 .. n : order[k] = v
        BY <2>1
      <3>3. m + k \in 1 .. m + n /\ (m + k) - m = k /\ ~(m + k <= m)
        BY <2>2
      <3>4. freeFrames'[m + k] = f
        BY <2>1, <3>1, <3>2, <3>3
      <3> QED BY <3>3, <3>4
    <2>4. CASE f \notin mine
      <3>1. ~frameTable[f].allocated
        BY <1>1, <2>4
      <3>2. PICK i \in 1 .. m : freeFrames[i] = f
        BY <2>2, <3>1 DEF HolderInv, NoneLost
      <3>3. i \in 1 .. m + n /\ i <= m
        BY <2>1, <2>2
      <3>4. freeFrames'[i] = f
        BY <2>1, <3>2, <3>3
      <3> QED BY <3>3, <3>4
    <2> QED BY <2>3, <2>4
  <1>4. Queued'
    BY <1>1 DEF Queued, HolderInv, FreeFrame
  <1> QED BY <1>2, <1>3, <1>4 DEF HolderInv

LEMMA TerminateHolders ==
    ASSUME TypeInv, HolderInv, NEW p \in Pid, Terminate(p)
    PROVE  HolderInv'
  <1>1. WipeMemory(p) /\ UNCHANGED <<pageTable, queue>>
    BY DEF Terminate
  <1> QED BY <1>1, WipeHolders

LEMMA RecycleHolders ==
    ASSUME TypeInv, HolderInv, NEW p \in Pid, Recycle(p)
    PROVE  HolderInv'
  <1>1. /\ WipeMemory(p) /\ queue' = queue
        /\ pageTable' = [pageTable EXCEPT ![p] = NoPages]
    BY DEF Recycle
  <1>2. \A q \in Pid \ {p} : pageTable'[q] = pageTable[q]
    BY <1>1 DEF TypeInv, TypeOK
  <1> QED BY <1>1, <1>2, WipeHolders

\* A process that ends gives back its own frames and no others.
LEMMA TerminateFrames ==
    ASSUME TypeInv, FrameInv, NEW p \in active, Terminate(p)
    PROVE  OwnsFrame' /\ FramesAccounted'
  <1> DEFINE mine == {pageTable[p][v].ppn : v \in ValidPages(p)}
             listed == {freeFrames[i] : i \in DOMAIN freeFrames}
  <1>1. p \in Pid /\ active' = active \ {p} /\ UNCHANGED <<pageTable, queue>>
    BY DEF Terminate, TypeInv, TypeOK
  <1>2. \A f \in Frame : frameTable'[f] = IF f \in mine THEN FreeFrame ELSE frameTable[f]
    BY DEF Terminate, WipeMemory
  <1>3. \A v \in ValidPages(p) : /\ v \in Vpn
                                 /\ pageTable[p][v].ppn \in Frame
                                 /\ frameTable[pageTable[p][v].ppn] = Info(p, v)
    BY <1>1 DEF ValidPages, TypeInv, EntriesOK, EntryOK, FrameInv, OwnsFrame, Info
  <1>4. OwnsFrame'
    <2> SUFFICES ASSUME NEW q \in active', NEW v \in Vpn, pageTable[q][v].valid
                 PROVE  frameTable'[pageTable[q][v].ppn] = Info(q, v)
      BY <1>1 DEF OwnsFrame, Info
    <2> DEFINE f == pageTable[q][v].ppn
    <2>1. q \in active /\ q # p /\ q \in Pid
      BY <1>1 DEF TypeInv, TypeOK
    <2>2. f \in Frame /\ frameTable[f] = Info(q, v)
      BY <2>1 DEF TypeInv, EntriesOK, EntryOK, FrameInv, OwnsFrame, Info
    <2>3. f \notin mine
      <3> SUFFICES ASSUME NEW u \in ValidPages(p), f = pageTable[p][u].ppn
                   PROVE  FALSE
        OBVIOUS
      <3>1. Info(p, u) = Info(q, v)
        BY <1>3, <2>2
      <3> QED BY <2>1, <3>1, InfoInjective
    <2> QED BY <1>2, <2>2, <2>3
  <1>5. FramesAccounted'
    <2>1. PICK n \in Nat, order \in Seq(ValidPages(p)) :
            /\ Len(order) = n
            /\ \A i, j \in 1 .. n : order[i] = order[j] => i = j
            /\ \A v \in ValidPages(p) : \E k \in 1 .. n : order[k] = v
            /\ freeFrames' \in Seq(Frame)
            /\ Len(freeFrames') = Len(freeFrames) + n
            /\ \A k \in 1 .. Len(freeFrames') : freeFrames'[k] =
                  IF k <= Len(freeFrames) THEN freeFrames[k]
                  ELSE pageTable[p][order[k - Len(freeFrames)]].ppn
      BY <1>1, WipeEffect DEF Terminate
    <2> DEFINE m == Len(freeFrames)
               given(k) == pageTable[p][order[k - m]].ppn
    <2>2. freeFrames \in Seq(Frame) /\ m \in Nat /\ DOMAIN freeFrames = 1 .. m
          /\ DOMAIN freeFrames' = 1 .. m + n
      <3>1. freeFrames \in Seq(Frame)
        BY DEF TypeInv, TypeOK
      <3> QED BY <2>1, <3>1
    <2>3. \A k \in m + 1 .. m + n : /\ order[k - m] \in ValidPages(p)
                                    /\ given(k) \in mine
                                    /\ freeFrames'[k] = given(k)
      BY <2>1, <2>2
    <2>4. \A k \in 1 .. m : freeFrames'[k] = freeFrames[k]
      BY <2>1, <2>2
    <2>5. \A f \in mine : f \in Frame /\ frameTable[f].allocated /\ f \notin listed
      <3> SUFFICES ASSUME NEW u \in ValidPages(p), NEW f, f = pageTable[p][u].ppn
                   PROVE  f \in Frame /\ frameTable[f].allocated /\ f \notin listed
        OBVIOUS
      <3>1. f \in Frame /\ frameTable[f] = Info(p, u)
        BY <1>3
      <3>2. frameTable[f].allocated
        BY <3>1 DEF Info
      <3> QED BY <3>1, <3>2 DEF FrameInv, FramesAccounted
    <2>6. \A i, j \in m + 1 .. m + n : given(i) = given(j) => i = j
      <3> SUFFICES ASSUME NEW i \in m + 1 .. m + n, NEW j \in m + 1 .. m + n,
                          given(i) = given(j)
                   PROVE  i = j
        OBVIOUS
      <3>1. Info(p, order[i - m]) = Info(p, order[j - m])
        BY <1>3, <2>3
      <3>2. order[i - m] = order[j - m]
        BY <3>1 DEF Info
      <3> QED BY <2>1, <2>2, <3>2
    <2>7. \A i, j \in 1 .. m + n : freeFrames'[i] = freeFrames'[j] => i = j
      <3> HIDE DEF mine, listed, given
      <3> SUFFICES ASSUME NEW i \in 1 .. m + n, NEW j \in 1 .. m + n,
                          freeFrames'[i] = freeFrames'[j]
                   PROVE  i = j
        OBVIOUS
      <3>1. CASE i \in 1 .. m /\ j \in 1 .. m
        BY <2>2, <2>4, <3>1 DEF FrameInv, FramesAccounted
      <3>2. CASE i \in m + 1 .. m + n /\ j \in m + 1 .. m + n
        BY <2>3, <2>6, <3>2
      <3>3. CASE i \in 1 .. m /\ j \in m + 1 .. m + n
        <4>1. freeFrames'[i] \in listed
          BY <2>2, <2>4, <3>3 DEF listed
        <4>2. freeFrames'[j] \notin listed
          BY <2>3, <2>5, <3>3
        <4> QED BY <4>1, <4>2
      <3>4. CASE i \in m + 1 .. m + n /\ j \in 1 .. m
        <4>1. freeFrames'[j] \in listed
          BY <2>2, <2>4, <3>4 DEF listed
        <4>2. freeFrames'[i] \notin listed
          BY <2>3, <2>5, <3>4
        <4> QED BY <4>1, <4>2
      <3> QED BY <2>2, <3>1, <3>2, <3>3, <3>4
    <2>8. ASSUME NEW f \in Frame
          PROVE  frameTable'[f].allocated
                    <=> f \notin {freeFrames'[i] : i \in DOMAIN freeFrames'}
      <3>1. CASE f \in mine
        <4>1. PICK v \in ValidPages(p) : f = pageTable[p][v].ppn
          BY <3>1
        <4>2. PICK k \in 1 .. n : order[k] = v
          BY <2>1
        <4>3. k + m \in m + 1 .. m + n /\ (k + m) - m = k /\ k + m \in 1 .. m + n
          BY <2>2
        <4>4. freeFrames'[k + m] = f
          BY <2>3, <4>1, <4>2, <4>3
        <4>5. ~frameTable'[f].allocated
          BY <1>2, <3>1 DEF FreeFrame
        <4>6. f \in {freeFrames'[i] : i \in DOMAIN freeFrames'}
          BY <2>2, <4>3, <4>4
        <4> QED BY <4>5, <4>6
      <3>2. CASE f \notin mine
        <4>1. frameTable'[f].allocated <=> f \notin listed
          BY <1>2, <3>2 DEF FrameInv, FramesAccounted
        <4>2. f \in listed <=> \E i \in 1 .. m + n : freeFrames'[i] = f
          <5>1. \A i \in 1 .. m : freeFrames'[i] \in listed
            BY <2>2, <2>4
          <5>2. \A i \in m + 1 .. m + n : freeFrames'[i] # f
            BY <2>3, <3>2
          <5>3. f \in listed => \E i \in 1 .. m : freeFrames'[i] = f
            BY <2>2, <2>4
          <5> QED BY <2>1, <2>2, <5>1, <5>2, <5>3
        <4> QED BY <2>2, <4>1, <4>2
      <3> QED BY <3>1, <3>2
    <2> QED BY <2>2, <2>7, <2>8 DEF FramesAccounted
  <1> QED BY <1>4, <1>5

\* Without reuse a slot is given to a program once, and nothing is left in it.
LEMMA RecycleNothing ==
    ASSUME TypeInv, NoReuse, NEW p \in Pid, Recycle(p)
    PROVE  /\ pageTable[p] = NoPages
           /\ UNCHANGED <<pageTable, freeFrames, frameTable, queue, ram, swap, status>>
  <1> USE DEF Recycle
  <1>1. pageTable[p] = NoPages
    BY DEF NoReuse
  <1>2. UNCHANGED pageTable
    BY <1>1 DEF TypeInv, TypeOK
  <1>3. ValidPages(p) = {}
    BY <1>1 DEF ValidPages, NoPages, NoPTE
  <1>4. UNCHANGED frameTable
    BY <1>3 DEF WipeMemory, TypeInv, TypeOK
  <1>5. UNCHANGED freeFrames
    <2>1. PICK n \in Nat, order \in Seq(ValidPages(p)) :
            /\ Len(order) = n
            /\ freeFrames' \in Seq(Frame)
            /\ Len(freeFrames') = Len(freeFrames) + n
            /\ \A k \in 1 .. Len(freeFrames') : freeFrames'[k] =
                  IF k <= Len(freeFrames) THEN freeFrames[k]
                  ELSE pageTable[p][order[k - Len(freeFrames)]].ppn
      BY WipeEffect
    <2>2. n = 0
      <3> SUFFICES ASSUME n # 0 PROVE FALSE
        OBVIOUS
      <3>1. 1 \in 1 .. Len(order)
        BY <2>1
      <3>2. order[1] \in ValidPages(p)
        BY <3>1, ElementOfSeq
      <3> QED BY <1>3, <3>2
    <2>3. freeFrames \in Seq(Frame)
      BY DEF TypeInv, TypeOK
    <2> QED BY <2>1, <2>2, <2>3, SeqEqual
  <1> QED BY <1>1, <1>2, <1>4, <1>5

LEMMA RecycleFrames ==
    ASSUME TypeInv, FrameInv, NoReuse, NEW p \in Pid, Recycle(p)
    PROVE  OwnsFrame' /\ FramesAccounted'
  <1>1. /\ pageTable[p] = NoPages
        /\ UNCHANGED <<pageTable, freeFrames, frameTable, queue>>
        /\ active \subseteq active' /\ active' \subseteq active \cup {p}
    BY RecycleNothing DEF Recycle
  <1>2. OwnsFrame'
    BY <1>1 DEF FrameInv, OwnsFrame, NoPages, NoPTE
  <1> QED BY <1>1, <1>2 DEF FrameInv, FramesAccounted

\* In pt no page of an active process has frame f; the one that had it is out.
Vacates(pt, f) ==
    \A q \in active, w \in Vpn :
        \/ /\ pt[q][w].valid <=> pageTable[q][w].valid
           /\ pageTable[q][w].valid => /\ pt[q][w].ppn = pageTable[q][w].ppn
                                       /\ pageTable[q][w].ppn # f
        \/ ~pt[q][w].valid /\ frameTable[f] = Info(q, w)

\* What an eviction of the owner of frame f may change before f is given away.
Spares(pt, f) ==
    \A q \in Pid, w \in Vpn : pt[q][w] = pageTable[q][w] \/ frameTable[f] = Info(q, w)

\* Frame f goes to page v of process p: all other frames stay with their owners.
LEMMA MapHolders ==
    ASSUME TypeInv, OwnerHasPage,
           NEW p \in Pid, NEW v \in Vpn, NEW f \in Frame, NEW pt \in PageTables,
           ~pageTable[p][v].valid,
           Elsewhere(p, v, pt), InFrame(p, v, f),
           frameTable' = [frameTable EXCEPT ![f] = Info(p, v)],
           Spares(pt, f)
    PROVE  OwnerHasPage'
  <1> SUFFICES ASSUME NEW g \in Frame, frameTable'[g].allocated
               PROVE  \E q \in Pid, w \in Vpn :
                         /\ frameTable'[g] = Info(q, w)
                         /\ pageTable'[q][w].valid /\ pageTable'[q][w].ppn = g
    BY OwnerHasPageNext
  <1>1. CASE g = f
    <2>1. frameTable'[g] = Info(p, v)
      BY <1>1 DEF TypeInv, TypeOK
    <2> QED BY <1>1, <2>1 DEF InFrame
  <1>2. CASE g # f
    <2>1. frameTable'[g] = frameTable[g]
      BY <1>2 DEF TypeInv, TypeOK
    <2>2. PICK q \in Pid, w \in Vpn :
             /\ frameTable[g] = Info(q, w)
             /\ pageTable[q][w].valid /\ pageTable[q][w].ppn = g
      BY <2>1, OwnerHas
    <2>3. frameTable[f] # Info(q, w)
      <3> SUFFICES ASSUME frameTable[f] = Info(q, w) PROVE FALSE
        OBVIOUS
      <3>1. frameTable[f].allocated /\ frameTable[f].ownerPid = q
            /\ frameTable[f].vpn = w
        BY DEF Info
      <3>2. pageTable[q][w].ppn = f
        BY <3>1 DEF OwnerHasPage
      <3> QED BY <1>2, <2>2, <3>2
    <2>4. pt[q][w] = pageTable[q][w]
      BY <2>2, <2>3 DEF Spares
    <2>5. pageTable'[q][w] = pt[q][w]
      <3>1. q # p \/ w # v
        BY <2>2
      <3> QED BY <2>2, <3>1 DEF Elsewhere
    <2> QED BY <2>1, <2>2, <2>4, <2>5
  <1> QED BY <1>1, <1>2

\* A page is put in frame f once that is vacated.
LEMMA MapFrames ==
    ASSUME TypeInv, FrameInv, UNCHANGED active,
           NEW p \in Pid, NEW v \in Vpn, NEW f \in Frame, NEW pt \in PageTables,
           ~pageTable[p][v].valid,
           Elsewhere(p, v, pt), InFrame(p, v, f),
           frameTable' = [frameTable EXCEPT ![f] = Info(p, v)],
           Vacates(pt, f)
    PROVE  OwnsFrame'
  <1>1. /\ active \subseteq Pid
        /\ frameTable' \in [Frame -> FrameInfo \cup {Info(p, v)}]
    BY DEF TypeInv, TypeOK
  <1> SUFFICES ASSUME NEW q \in active, NEW w \in Vpn, pageTable'[q][w].valid
               PROVE  frameTable'[pageTable'[q][w].ppn] = Info(q, w)
    BY DEF OwnsFrame, Info
  <1>2. CASE q = p /\ w = v
    BY <1>1, <1>2 DEF InFrame, TypeInv, TypeOK
  <1>3. CASE q # p \/ w # v
    <2>1. pageTable'[q][w] = pt[q][w] /\ q \in Pid
      BY <1>1, <1>3 DEF Elsewhere
    <2>2. pageTable[q][w].valid /\ pt[q][w].ppn = pageTable[q][w].ppn
          /\ pageTable[q][w].ppn # f
      BY <2>1 DEF Vacates
    <2>3. pageTable[q][w].ppn \in Frame
          /\ frameTable[pageTable[q][w].ppn] = Info(q, w)
      BY <2>1, <2>2 DEF TypeInv, EntriesOK, EntryOK, FrameInv, OwnsFrame, Info
    <2> QED BY <2>1, <2>2, <2>3 DEF TypeInv, TypeOK
  <1> QED BY <1>2, <1>3

LEMMA RegisterQueued ==
    ASSUME TypeInv, NEW p, NEW v, NEW f \in Frame, NEW rest \in Seq(Frame),
           Register(p, v, f, rest),
           \A g \in Frame : g # f /\ frameTable[g].allocated =>
              \E k \in 1 .. Len(rest) : rest[k] = g
    PROVE  Queued'
  <1> SUFFICES ASSUME NEW g \in Frame, frameTable'[g].allocated
               PROVE  \E k \in DOMAIN queue' : queue'[k] = g
    BY DEF Queued
  <1>1. /\ queue' \in Seq(Frame)
        /\ DOMAIN queue' = 1 .. Len(rest) + 1
        /\ \A k \in 1 .. Len(rest) : queue'[k] = rest[k]
        /\ queue'[Len(rest) + 1] = f
    BY AppendProperties DEF Register
  <1>2. CASE g = f
    BY <1>1, <1>2
  <1>3. CASE g # f
    <2>1. frameTable'[g] = frameTable[g]
      BY <1>3 DEF Register, TypeInv, TypeOK
    <2>2. PICK k \in 1 .. Len(rest) : rest[k] = g
      BY <1>3, <2>1
    <2> QED BY <1>1, <2>2
  <1> QED BY <1>2, <1>3

\* The frame FaultFree takes, and what is left on the free list.
LEMMA FrameTaken ==
    ASSUME TypeInv, NEW p \in Pid, NEW v \in Vpn, FaultFree(p, v)
    PROVE  \E n \in Nat \ {0}, f \in Frame :
              /\ DOMAIN freeFrames = 1 .. n /\ freeFrames[n] = f
              /\ DOMAIN freeFrames' = 1 .. n - 1
              /\ \A k \in 1 .. n - 1 : freeFrames'[k] = freeFrames[k]
              /\ Register(p, v, f, queue)
              /\ frameTable' = [frameTable EXCEPT ![f] = Info(p, v)]
              /\ Elsewhere(p, v, pageTable) /\ InFrame(p, v, f)
  <1> DEFINE n == Len(freeFrames)
             f == freeFrames[n]
  <1>1. /\ freeFrames \in Seq(Frame)
        /\ pageTable \in PageTables /\ swap \in SwapArea
        /\ ram \in [Frame -> Content]
    BY DEF TypeInv, TypeOK, PageTables, SwapArea
  <1>2. n \in Nat \ {0} /\ DOMAIN freeFrames = 1 .. n
    BY <1>1, EmptySeq DEF FaultFree
  <1>3. /\ f \in Frame
        /\ DOMAIN freeFrames' = 1 .. n - 1
        /\ \A k \in 1 .. n - 1 : freeFrames'[k] = freeFrames[k]
    BY <1>1, <1>2 DEF FaultFree
  <1>4. Register(p, v, f, queue) /\ Resolve(p, v, f, pageTable, swap)
    BY DEF FaultFree
  <1> HIDE DEF n, f
  <1>5. Elsewhere(p, v, pageTable) /\ InFrame(p, v, f)
    BY <1>1, <1>3, <1>4, ResolveEffect
  <1>6. frameTable' = [frameTable EXCEPT ![f] = Info(p, v)]
    BY <1>4 DEF Register, Info
  <1>7. freeFrames[n] = f
    BY DEF f
  <1> QED BY <1>2, <1>3, <1>4, <1>5, <1>6, <1>7

LEMMA FaultFreeHolders ==
    ASSUME TypeInv, HolderInv, NEW p \in Pid, NEW v \in Vpn, FaultFree(p, v)
    PROVE  HolderInv'
  <1>1. /\ queue \in Seq(Frame) /\ DOMAIN queue = 1 .. Len(queue)
        /\ pageTable \in PageTables /\ ~pageTable[p][v].valid
    <2>1. ~pageTable[p][v].valid
      BY DEF FaultFree, Faulting
    <2>2. queue \in Seq(Frame) /\ pageTable \in PageTables
      BY DEF TypeInv, TypeOK, PageTables
    <2>3. DOMAIN queue = 1 .. Len(queue)
      BY <2>2
    <2> QED BY <2>1, <2>2, <2>3
  <1>2. PICK n \in Nat \ {0}, f \in Frame :
           /\ DOMAIN freeFrames = 1 .. n /\ freeFrames[n] = f
           /\ DOMAIN freeFrames' = 1 .. n - 1
           /\ \A k \in 1 .. n - 1 : freeFrames'[k] = freeFrames[k]
           /\ Register(p, v, f, queue)
           /\ frameTable' = [frameTable EXCEPT ![f] = Info(p, v)]
           /\ Elsewhere(p, v, pageTable) /\ InFrame(p, v, f)
    BY FrameTaken
  <1>3. OwnerHasPage'
    <2>1. Spares(pageTable, f)
      BY DEF Spares
    <2> QED BY <1>1, <1>2, <2>1, MapHolders DEF HolderInv
  <1>4. NoneLost'
    <2> SUFFICES ASSUME NEW g \in Frame, ~frameTable'[g].allocated
                 PROVE  \E i \in 1 .. n - 1 : freeFrames'[i] = g
      BY <1>2 DEF NoneLost
    <2>1. g # f
      <3> SUFFICES ASSUME g = f PROVE FALSE
        OBVIOUS
      <3>1. frameTable'[g] = Info(p, v)
        BY <1>2 DEF TypeInv, TypeOK
      <3> QED BY <3>1 DEF Info
    <2>2. ~frameTable[g].allocated
      BY <1>2, <2>1 DEF TypeInv, TypeOK
    <2>3. PICK i \in 1 .. n : freeFrames[i] = g
      BY <1>2, <2>2 DEF HolderInv, NoneLost
    <2>4. i \in 1 .. n - 1
      BY <1>2, <2>1, <2>3
    <2> QED BY <1>2, <2>3, <2>4
  <1>5. Queued'
    <2>1. \A g \in Frame : g # f /\ frameTable[g].allocated =>
             \E k \in 1 .. Len(queue) : queue[k] = g
      BY <1>1 DEF HolderInv, Queued
    <2>2. Register(p, v, f, queue) /\ queue \in Seq(Frame)
      BY <1>1, <1>2
    <2> QED BY <2>1, <2>2, RegisterQueued
  <1> QED BY <1>3, <1>4, <1>5 DEF HolderInv

LEMMA FaultFreeFrames ==
    ASSUME TypeInv, FrameInv, NEW p \in Pid, NEW v \in Vpn, FaultFree(p, v)
    PROVE  OwnsFrame' /\ FramesAccounted'
  <1>1. /\ pageTable \in PageTables
        /\ ~pageTable[p][v].valid /\ UNCHANGED active
    BY DEF TypeInv, TypeOK, PageTables, FaultFree, Faulting, procVars
  <1>2. PICK n \in Nat \ {0}, f \in Frame :
           /\ DOMAIN freeFrames = 1 .. n /\ freeFrames[n] = f
           /\ DOMAIN freeFrames' = 1 .. n - 1
           /\ \A k \in 1 .. n - 1 : freeFrames'[k] = freeFrames[k]
           /\ Register(p, v, f, queue)
           /\ frameTable' = [frameTable EXCEPT ![f] = Info(p, v)]
           /\ Elsewhere(p, v, pageTable) /\ InFrame(p, v, f)
    BY FrameTaken
  <1>3. ~frameTable[f].allocated
    BY <1>2 DEF FrameInv, FramesAccounted
  <1>4. \A q \in active, w \in Vpn : pageTable[q][w].valid => pageTable[q][w].ppn # f
    <2> SUFFICES ASSUME NEW q \in active, NEW w \in Vpn, pageTable[q][w].valid,
                        pageTable[q][w].ppn = f
                 PROVE  FALSE
      OBVIOUS
    <2>1. frameTable[f] = Info(q, w)
      BY DEF FrameInv, OwnsFrame, Info
    <2> QED BY <1>3, <2>1 DEF Info
  <1>5. OwnsFrame'
    <2>1. Vacates(pageTable, f)
      BY <1>4 DEF Vacates
    <2> QED BY <1>1, <1>2, <2>1, MapFrames, Zenon
  <1>6. FramesAccounted'
    <2>1. \A i, j \in 1 .. n - 1 : freeFrames'[i] = freeFrames'[j] => i = j
      BY <1>2 DEF FrameInv, FramesAccounted
    <2>2. ASSUME NEW g \in Frame
          PROVE  frameTable'[g].allocated
                    <=> g \notin {freeFrames'[i] : i \in DOMAIN freeFrames'}
      <3>1. CASE g = f
        <4>1. frameTable'[g].allocated
          BY <1>2, <3>1 DEF Info, TypeInv, TypeOK
        <4>2. \A i \in 1 .. n - 1 : freeFrames'[i] # f
          BY <1>2 DEF FrameInv, FramesAccounted
        <4> QED BY <1>2, <3>1, <4>1, <4>2
      <3>2. CASE g # f
        <4>1. frameTable'[g].allocated
                 <=> g \notin {freeFrames[i] : i \in DOMAIN freeFrames}
          BY <1>2, <3>2 DEF FrameInv, FramesAccounted, TypeInv, TypeOK
        <4>2. (\E i \in 1 .. n : freeFrames[i] = g)
                 <=> \E i \in 1 .. n - 1 : freeFrames'[i] = g
          BY <1>2, <3>2
        <4> QED BY <1>2, <4>1, <4>2
      <3> QED BY <3>1, <3>2
    <2> QED BY <1>2, <2>1, <2>2 DEF FramesAccounted
  <1> QED BY <1>5, <1>6

\* The page that is evicted is in memory.
LEMMA VictimInMemory ==
    ASSUME OwnerHasPage, NEW f \in Frame, NEW q, NEW w, frameTable[f] = Info(q, w)
    PROVE  pageTable[q][w].valid /\ pageTable[q][w].ppn = f
  <1>1. /\ frameTable[f].allocated
        /\ frameTable[f].ownerPid = q /\ frameTable[f].vpn = w
    BY DEF Info
  <1> QED BY <1>1 DEF OwnerHasPage

\* Without reuse nobody else has its frame.
LEMMA VictimOwned ==
    ASSUME TypeInv, FrameInv, NEW f \in Frame, NEW q \in Pid, NEW w \in Vpn,
           frameTable[f] = Info(q, w)
    PROVE  /\ pageTable[q][w].valid
           /\ pageTable[q][w].ppn = f
           /\ \A r \in active, u \in Vpn :
                 (r # q \/ u # w) /\ pageTable[r][u].valid => pageTable[r][u].ppn # f
  <1>1. pageTable[q][w].valid /\ pageTable[q][w].ppn = f
    BY VictimInMemory DEF FrameInv
  <1>2. ASSUME NEW r \in active, NEW u \in Vpn, pageTable[r][u].valid,
               pageTable[r][u].ppn = f
        PROVE  r = q /\ u = w
    <2>1. Info(q, w) = Info(r, u)
      BY <1>2 DEF FrameInv, OwnsFrame, Info
    <2> QED BY <2>1, InfoInjective
  <1> QED BY <1>1, <1>2

\* What an eviction leaves of the entry of the evicted page.
LEMMA EvictedEntry ==
    ASSUME TypeInv, NEW q \in Pid, NEW w \in Vpn
    PROVE  /\ ~AfterDrop(q, w)[q][w].valid /\ ~AfterDrop(q, w)[q][w].swapped
           /\ \A r \in Pid, u \in Vpn :
                 r # q \/ u # w => AfterDrop(q, w)[r][u] = pageTable[r][u]
           /\ \A s \in Slot :
                 /\ ~AfterSwap(q, w, s)[q][w].valid
                 /\ AfterSwap(q, w, s)[q][w].swapped
                 /\ AfterSwap(q, w, s)[q][w].ppn = s
                 /\ \A r \in Pid, u \in Vpn :
                       r # q \/ u # w => AfterSwap(q, w, s)[r][u] = pageTable[r][u]
  <1>1. pageTable \in PageTables /\ pageTable[q][w] \in PTE
    <2>1. pageTable \in PageTables
      BY DEF TypeInv, TypeOK, PageTables
    <2> QED BY <2>1 DEF PageTables
  <1>2. /\ ~DroppedPTE(pageTable[q][w]).valid /\ ~DroppedPTE(pageTable[q][w]).swapped
        /\ \A s \in Slot : /\ ~SwappedOut(pageTable[q][w], s).valid
                           /\ SwappedOut(pageTable[q][w], s).swapped
                           /\ SwappedOut(pageTable[q][w], s).ppn = s
    BY <1>1 DEF DroppedPTE, SwappedOut, PTE
  <1>3. ASSUME NEW e
        PROVE  LET pt == [pageTable EXCEPT ![q][w] = e]
               IN  /\ pt[q][w] = e
                   /\ \A r \in Pid, u \in Vpn :
                         r # q \/ u # w => pt[r][u] = pageTable[r][u]
    BY <1>1 DEF PageTables
  <1>4. /\ AfterDrop(q, w)[q][w] = DroppedPTE(pageTable[q][w])
        /\ \A r \in Pid, u \in Vpn :
              r # q \/ u # w => AfterDrop(q, w)[r][u] = pageTable[r][u]
    BY <1>3 DEF AfterDrop
  <1>5. ASSUME NEW s \in Slot
        PROVE  /\ AfterSwap(q, w, s)[q][w] = SwappedOut(pageTable[q][w], s)
               /\ \A r \in Pid, u \in Vpn :
                     r # q \/ u # w => AfterSwap(q, w, s)[r][u] = pageTable[r][u]
    BY <1>3 DEF AfterSwap
  <1> QED BY <1>2, <1>4, <1>5

\* A step of FaultEvict, as the frames see it.
Exchange(p, v, f, q, w, pt, sw) ==
    /\ pt \in PageTables /\ EntriesOK(pt) /\ sw \in SwapArea
    /\ ~pt[q][w].valid
    /\ \A r \in Pid, u \in Vpn : r # q \/ u # w => pt[r][u] = pageTable[r][u]
    /\ Resolve(p, v, f, pt, sw)

LEMMA EvictionExchanges ==
    ASSUME TypeInv, NEW p \in Pid, NEW v \in Vpn, NEW f \in Frame,
           NEW q \in Pid, NEW w \in Vpn
    PROVE  /\ Dropping(p, v, f, q, w)
                => Exchange(p, v, f, q, w, AfterDrop(q, w), swap)
           /\ \A s \in Slot : Swapping(p, v, f, q, w, s)
                => Exchange(p, v, f, q, w, AfterSwap(q, w, s), SwapWith(s, ram[f]))
  <1>1. swap \in SwapArea /\ ram[f] \in Content
    BY DEF TypeInv, TypeOK, SwapArea
  <1>2. Dropping(p, v, f, q, w)
           => Exchange(p, v, f, q, w, AfterDrop(q, w), swap)
    BY <1>1, EvictionType, EvictedEntry DEF Dropping, Exchange
  <1>3. ASSUME NEW s \in Slot, Swapping(p, v, f, q, w, s)
        PROVE  Exchange(p, v, f, q, w, AfterSwap(q, w, s), SwapWith(s, ram[f]))
    <2>1. /\ AfterSwap(q, w, s) \in PageTables
          /\ EntriesOK(AfterSwap(q, w, s))
          /\ SwapWith(s, ram[f]) \in SwapArea
      BY <1>1, EvictionType
    <2>2. /\ ~AfterSwap(q, w, s)[q][w].valid
          /\ \A r \in Pid, u \in Vpn :
                r # q \/ u # w => AfterSwap(q, w, s)[r][u] = pageTable[r][u]
      BY EvictedEntry
    <2> QED BY <1>3, <2>1, <2>2 DEF Swapping, Exchange
  <1> QED BY <1>2, <1>3

\* The step of FaultEvict: frame f, the k-th of the queue, was that of page w of
\* process q; rest is what is behind it.
Evicts(p, v, k, f, q, w, rest, pt, sw) ==
    /\ Victim(k) /\ f = queue[k]
    /\ frameTable[f] = Info(q, w)
    /\ rest = SubSeq(queue, k + 1, Len(queue))
    /\ Register(p, v, f, rest)
    /\ Exchange(p, v, f, q, w, pt, sw)

LEMMA FrameEvicted ==
    ASSUME TypeInv, NEW p \in Pid, NEW v \in Vpn, FaultEvict(p, v)
    PROVE  /\ ~pageTable[p][v].valid
           /\ freeFrames = <<>> /\ UNCHANGED <<active, freeFrames>>
           /\ \E k \in 1 .. Len(queue), f \in Frame, q \in Pid, w \in Vpn,
                 rest \in Seq(Frame), pt \in PageTables, sw \in SwapArea :
                 /\ Evicts(p, v, k, f, q, w, rest, pt, sw)
                 /\ frameTable' = [frameTable EXCEPT ![f] = Info(p, v)]
                 /\ Elsewhere(p, v, pt) /\ InFrame(p, v, f)
  <1>1. /\ ~pageTable[p][v].valid
        /\ freeFrames = <<>> /\ UNCHANGED <<active, freeFrames>>
    BY DEF FaultEvict, Faulting, procVars
  <1>2. PICK k \in 1 .. Len(queue), f \in Frame, q \in Pid, w \in Vpn,
             rest \in Seq(Frame) :
           /\ Victim(k)
           /\ f = queue[k]
           /\ frameTable[f] = Info(q, w)
           /\ rest = SubSeq(queue, k + 1, Len(queue))
           /\ Register(p, v, f, rest)
           /\ \/ Dropping(p, v, f, q, w)
              \/ \E s \in Slot : Swapping(p, v, f, q, w, s)
    BY EvictionNamed DEF TypeInv
  <1>3. PICK pt, sw : Exchange(p, v, f, q, w, pt, sw)
    BY <1>2, EvictionExchanges
  <1>4. pt \in PageTables /\ sw \in SwapArea /\ Resolve(p, v, f, pt, sw)
    BY <1>3 DEF Exchange
  <1>5. Elsewhere(p, v, pt) /\ InFrame(p, v, f)
    BY <1>4, ResolveEffect DEF TypeInv, TypeOK
  <1>6. frameTable' = [frameTable EXCEPT ![f] = Info(p, v)]
    BY <1>2 DEF Register, Info
  <1>7. Evicts(p, v, k, f, q, w, rest, pt, sw)
    BY <1>2, <1>3 DEF Evicts
  <1> QED BY <1>1, <1>4, <1>5, <1>6, <1>7

LEMMA FaultEvictHolders ==
    ASSUME TypeInv, HolderInv, NEW p \in Pid, NEW v \in Vpn, FaultEvict(p, v)
    PROVE  HolderInv'
  <1>1. /\ ~pageTable[p][v].valid
        /\ freeFrames = <<>> /\ UNCHANGED <<active, freeFrames>>
    BY FrameEvicted
  <1>2. PICK k \in 1 .. Len(queue), f \in Frame, q \in Pid, w \in Vpn,
             rest \in Seq(Frame), pt \in PageTables, sw \in SwapArea :
           /\ Evicts(p, v, k, f, q, w, rest, pt, sw)
           /\ frameTable' = [frameTable EXCEPT ![f] = Info(p, v)]
           /\ Elsewhere(p, v, pt) /\ InFrame(p, v, f)
    BY FrameEvicted
  <1>3. \A g \in Frame : frameTable[g].allocated
    BY <1>1 DEF HolderInv, NoneLost
  <1>4. OwnerHasPage'
    <2>1. Spares(pt, f)
      <3> SUFFICES ASSUME NEW r \in Pid, NEW u \in Vpn
                   PROVE  pt[r][u] = pageTable[r][u] \/ frameTable[f] = Info(r, u)
        BY DEF Spares
      <3> QED BY <1>2 DEF Evicts, Exchange
    <2> QED BY <1>1, <1>2, <2>1, MapHolders, Zenon DEF HolderInv
  <1>5. NoneLost'
    <2> SUFFICES ASSUME NEW g \in Frame PROVE frameTable'[g].allocated
      BY DEF NoneLost
    <2>1. CASE g = f
      BY <1>2, <2>1 DEF Info, TypeInv, TypeOK
    <2>2. CASE g # f
      BY <1>2, <1>3, <2>2 DEF TypeInv, TypeOK
    <2> QED BY <2>1, <2>2
  <1>6. Queued'
    <2>1. queue \in Seq(Frame)
      BY DEF TypeInv, TypeOK
    <2>2. /\ Victim(k) /\ f = queue[k] /\ rest = SubSeq(queue, k + 1, Len(queue))
          /\ Register(p, v, f, rest)
      BY <1>2 DEF Evicts
    <2>3. ASSUME NEW g \in Frame, g # f
          PROVE  \E i \in 1 .. Len(rest) : rest[i] = g
      <3>1. PICK j \in 1 .. Len(queue) : queue[j] = g
        BY <1>3, <2>1 DEF HolderInv, Queued
      <3>2. j > k
        <4>1. ~(j \in 1 .. k - 1)
          BY <1>3, <2>2, <3>1 DEF Victim
        <4>2. j # k
          BY <2>2, <2>3, <3>1
        <4> QED BY <2>1, <4>1, <4>2
      <3>3. j - k \in 1 .. Len(rest) /\ rest[j - k] = queue[j]
        BY <2>1, <2>2, <3>2
      <3> QED BY <3>1, <3>3
    <2>4. \A g \in Frame : g # f /\ frameTable[g].allocated =>
             \E i \in 1 .. Len(rest) : rest[i] = g
      BY <2>3
    <2> QED BY <2>2, <2>4, RegisterQueued
  <1> QED BY <1>4, <1>5, <1>6 DEF HolderInv

LEMMA FaultEvictFrames ==
    ASSUME TypeInv, FrameInv, NEW p \in Pid, NEW v \in Vpn, FaultEvict(p, v)
    PROVE  OwnsFrame' /\ FramesAccounted'
  <1>1. /\ ~pageTable[p][v].valid
        /\ freeFrames = <<>> /\ UNCHANGED <<active, freeFrames>>
    BY FrameEvicted
  <1>2. PICK k \in 1 .. Len(queue), f \in Frame, q \in Pid, w \in Vpn,
             rest \in Seq(Frame), pt \in PageTables, sw \in SwapArea :
           /\ Evicts(p, v, k, f, q, w, rest, pt, sw)
           /\ frameTable' = [frameTable EXCEPT ![f] = Info(p, v)]
           /\ Elsewhere(p, v, pt) /\ InFrame(p, v, f)
    BY FrameEvicted
  <1>3. /\ frameTable[f] = Info(q, w) /\ ~pt[q][w].valid
        /\ \A r \in Pid, u \in Vpn : r # q \/ u # w => pt[r][u] = pageTable[r][u]
    BY <1>2 DEF Evicts, Exchange
  <1>4. Vacates(pt, f)
    <2> SUFFICES ASSUME NEW r \in active, NEW u \in Vpn
                 PROVE  \/ /\ pt[r][u].valid <=> pageTable[r][u].valid
                           /\ pageTable[r][u].valid =>
                                 /\ pt[r][u].ppn = pageTable[r][u].ppn
                                 /\ pageTable[r][u].ppn # f
                        \/ ~pt[r][u].valid /\ frameTable[f] = Info(r, u)
      BY DEF Vacates
    <2>1. r \in Pid
      BY DEF TypeInv, TypeOK
    <2>2. CASE r = q /\ u = w
      BY <1>3, <2>2
    <2>3. CASE r # q \/ u # w
      BY <1>3, <2>1, <2>3, VictimOwned
    <2> QED BY <2>2, <2>3
  <1>5. OwnsFrame'
    BY <1>1, <1>2, <1>4, MapFrames, Zenon
  <1>6. FramesAccounted'
    <2>1. \A g \in Frame : frameTable[g].allocated
      BY <1>1 DEF FrameInv, FramesAccounted
    <2>2. \A g \in Frame : frameTable'[g].allocated
      BY <1>2, <2>1 DEF Info, TypeInv, TypeOK
    <2> QED BY <1>1, <2>2 DEF FramesAccounted
  <1> QED BY <1>5, <1>6

-----------------------------------------------------------------------------
(***************************************************************************)
(* Swap slots.                                                             *)
(***************************************************************************)
\* What the parts of a step may do to the slots: no page joins another in its
\* slot and, where each slot that is taken had a page, each still has one.
SlotsKept(pt, sw) ==
    /\ SlotsApart(pt, sw)
    /\ SlotsFilled(pageTable, swap) => SlotsFilled(pt, sw)

\* Dropping a page does not touch swap; swapping it out fills a slot that
\* no page had.
LEMMA EvictionSlots ==
    ASSUME TypeInv, SlotsApart(pageTable, swap), NEW q \in Pid, NEW w \in Vpn,
           pageTable[q][w].valid
    PROVE  /\ SlotsKept(AfterDrop(q, w), swap)
           /\ \A s \in Slot, x \in Content :
                 FirstFree(s) => SlotsKept(AfterSwap(q, w, s), SwapWith(s, x))
  <1>1. SlotsKept(AfterDrop(q, w), swap)
    <2> DEFINE pt == AfterDrop(q, w)
    <2>1. ~Out(pageTable, q, w) /\ ~Out(pt, q, w)
      BY EvictedEntry DEF Out
    <2>2. \A r \in Pid, u \in Vpn :
             /\ Out(pt, r, u) <=> Out(pageTable, r, u)
             /\ Out(pt, r, u) => pt[r][u].ppn = pageTable[r][u].ppn
      BY <2>1, EvictedEntry DEF Out
    <2> HIDE DEF pt
    <2>3. SlotsApart(pt, swap)
      BY <2>2 DEF SlotsApart
    <2>4. SlotsFilled(pageTable, swap) => SlotsFilled(pt, swap)
      BY <2>2 DEF SlotsFilled
    <2> QED BY <2>3, <2>4 DEF SlotsKept, pt
  <1>2. ASSUME NEW s \in Slot, NEW x \in Content, FirstFree(s)
        PROVE  SlotsKept(AfterSwap(q, w, s), SwapWith(s, x))
    <2> DEFINE pt == AfterSwap(q, w, s)
               sw == SwapWith(s, x)
    <2>1. ~swap[s].used /\ sw[s].used /\ \A t \in Slot : t # s => sw[t] = swap[t]
      BY <1>2 DEF FirstFree, SwapWith, TypeInv, TypeOK
    <2>2. ~Out(pageTable, q, w) /\ Out(pt, q, w) /\ pt[q][w].ppn = s
      BY EvictedEntry DEF Out
    <2>3. \A r \in Pid, u \in Vpn : r # q \/ u # w => pt[r][u] = pageTable[r][u]
      BY EvictedEntry
    <2>4. \A r \in Pid, u \in Vpn : Out(pageTable, r, u) =>
             pageTable[r][u].ppn \in Slot /\ pageTable[r][u].ppn # s
      BY <2>1 DEF Out, SlotsApart, TypeInv, EntriesOK, EntryOK
    <2> HIDE DEF pt, sw
    <2>5. \A r \in Pid, u \in Vpn : r # q \/ u # w =>
             /\ Out(pt, r, u) <=> Out(pageTable, r, u)
             /\ Out(pt, r, u) => /\ pt[r][u].ppn = pageTable[r][u].ppn
                                 /\ pt[r][u].ppn \in Slot /\ pt[r][u].ppn # s
      BY <2>3, <2>4 DEF Out
    <2>6. ASSUME NEW r \in Pid, NEW u \in Vpn, NEW t \in Pid, NEW y \in Vpn,
                 Out(pt, r, u), Out(pt, t, y), pt[r][u].ppn = pt[t][y].ppn
          PROVE  r = t /\ u = y
      <3>1. CASE r = q /\ u = w
        BY <2>2, <2>5, <2>6, <3>1
      <3>2. CASE t = q /\ y = w
        BY <2>2, <2>5, <2>6, <3>2
      <3>3. CASE (r # q \/ u # w) /\ (t # q \/ y # w)
        BY <2>5, <2>6, <3>3 DEF SlotsApart
      <3> QED BY <3>1, <3>2, <3>3
    <2>7. ASSUME NEW r \in Pid, NEW u \in Vpn, Out(pt, r, u)
          PROVE  sw[pt[r][u].ppn].used
      <3>1. CASE r = q /\ u = w
        BY <2>1, <2>2, <3>1
      <3>2. CASE r # q \/ u # w
        BY <2>1, <2>5, <2>7, <3>2 DEF SlotsApart
      <3> QED BY <3>1, <3>2
    <2>8. ASSUME SlotsFilled(pageTable, swap), NEW t \in Slot, sw[t].used
          PROVE  \E r \in Pid, u \in Vpn : Out(pt, r, u) /\ pt[r][u].ppn = t
      <3>1. CASE t = s
        BY <2>2, <3>1
      <3>2. CASE t # s
        <4>1. PICK r \in Pid, u \in Vpn :
                 Out(pageTable, r, u) /\ pageTable[r][u].ppn = t
          BY <2>1, <2>8, <3>2 DEF SlotsFilled
        <4> QED BY <2>2, <2>5, <4>1
      <3> QED BY <3>1, <3>2
    <2>9. SlotsApart(pt, sw)
      BY <2>6, <2>7 DEF SlotsApart
    <2>10. SlotsFilled(pageTable, swap) => SlotsFilled(pt, sw)
      BY <2>8 DEF SlotsFilled
    <2> QED BY <2>9, <2>10 DEF SlotsKept, pt, sw
  <1> QED BY <1>1, <1>2

\* A page that comes in leaves its slot, which nobody else had.
LEMMA ResolveSlots ==
    ASSUME TypeInv, NEW p \in Pid, NEW v \in Vpn, NEW f \in Frame,
           NEW pt \in PageTables, EntriesOK(pt), NEW sw \in SwapArea,
           SlotsKept(pt, sw), pt[p][v] = pageTable[p][v], ~pageTable[p][v].valid,
           Resolve(p, v, f, pt, sw)
    PROVE  SlotsKept(pageTable', swap')
  <1>1. /\ Elsewhere(p, v, pt)
        /\ InFrame(p, v, f)
        /\ IF pageTable[p][v].swapped THEN Restored(p, v, f, pt, sw)
                                      ELSE Fresh(p, v, f, pt, sw)
    BY ResolveEffect DEF TypeInv, TypeOK
  <1>2. \A q \in Pid, w \in Vpn :
           /\ Out(pageTable', q, w) <=> Out(pt, q, w) /\ (q # p \/ w # v)
           /\ Out(pageTable', q, w) => pageTable'[q][w].ppn = pt[q][w].ppn
    BY <1>1 DEF Elsewhere, InFrame, Out
  <1>3. CASE pageTable[p][v].swapped
    <2> DEFINE s == pt[p][v].ppn
    <2>1. Out(pt, p, v) /\ s \in Slot
      BY <1>3 DEF Out, EntriesOK, EntryOK
    <2>2. swap' = [sw EXCEPT ![s].used = FALSE]
      BY <1>1, <1>3 DEF Restored
    <2> HIDE DEF s
    <2>3. ~swap'[s].used /\ \A t \in Slot : t # s => swap'[t] = sw[t]
      BY <2>1, <2>2 DEF SwapArea
    <2>4. \A q \in Pid, w \in Vpn : Out(pt, q, w) /\ (q # p \/ w # v) =>
             pt[q][w].ppn \in Slot /\ pt[q][w].ppn # s
      BY <2>1 DEF SlotsKept, SlotsApart, EntriesOK, EntryOK, Out, s
    <2>5. ASSUME SlotsFilled(pageTable, swap), NEW t \in Slot, swap'[t].used
          PROVE  \E q \in Pid, w \in Vpn :
                    Out(pageTable', q, w) /\ pageTable'[q][w].ppn = t
      <3>1. t # s /\ sw[t].used
        BY <2>3, <2>5
      <3>2. PICK q \in Pid, w \in Vpn : Out(pt, q, w) /\ pt[q][w].ppn = t
        BY <2>5, <3>1 DEF SlotsKept, SlotsFilled
      <3>3. q # p \/ w # v
        BY <3>1, <3>2 DEF s
      <3> QED BY <1>2, <3>2, <3>3
    <2>6. SlotsApart(pageTable', swap')
      BY <1>2, <2>3, <2>4 DEF SlotsKept, SlotsApart
    <2>7. SlotsFilled(pageTable, swap) => SlotsFilled(pageTable', swap')
      BY <2>5 DEF SlotsFilled
    <2> QED BY <2>6, <2>7 DEF SlotsKept
  <1>4. CASE ~pageTable[p][v].swapped
    <2>1. swap' = sw /\ ~Out(pt, p, v)
      BY <1>1, <1>4 DEF Fresh, Out
    <2>2. \A q \in Pid, w \in Vpn : Out(pageTable', q, w) <=> Out(pt, q, w)
      BY <1>2, <2>1
    <2>3. SlotsApart(pageTable', swap')
      BY <1>2, <2>1, <2>2 DEF SlotsKept, SlotsApart
    <2>4. SlotsFilled(pt, sw) => SlotsFilled(pageTable', swap')
      BY <1>2, <2>1, <2>2 DEF SlotsFilled
    <2> QED BY <2>3, <2>4 DEF SlotsKept
  <1> QED BY <1>3, <1>4

LEMMA FaultFreeSlots ==
    ASSUME TypeInv, SlotsApart(pageTable, swap), NEW p \in Pid, NEW v \in Vpn,
           FaultFree(p, v)
    PROVE  SlotsKept(pageTable', swap')
  <1> DEFINE f == freeFrames[Len(freeFrames)]
  <1>1. freeFrames \in Seq(Frame) /\ pageTable \in PageTables
        /\ EntriesOK(pageTable) /\ swap \in SwapArea
    BY DEF TypeInv, TypeOK, PageTables, SwapArea
  <1>2. f \in Frame
    BY <1>1, EmptySeq DEF FaultFree
  <1>3. ~pageTable[p][v].valid /\ Resolve(p, v, f, pageTable, swap)
    BY DEF FaultFree, Faulting
  <1> HIDE DEF f
  <1>4. SlotsKept(pageTable, swap)
    BY DEF SlotsKept
  <1> QED BY <1>1, <1>2, <1>3, <1>4, ResolveSlots

LEMMA FaultEvictSlots ==
    ASSUME TypeInv, OwnerHasPage, SlotsApart(pageTable, swap),
           NEW p \in Pid, NEW v \in Vpn, FaultEvict(p, v)
    PROVE  SlotsKept(pageTable', swap')
  <1>1. TypeOK /\ ~pageTable[p][v].valid
    BY DEF TypeInv, FaultEvict, Faulting
  <1>2. PICK f \in Frame, q \in Pid, w \in Vpn :
           /\ frameTable[f] = Info(q, w)
           /\ \/ Dropping(p, v, f, q, w)
              \/ \E s \in Slot : Swapping(p, v, f, q, w, s)
    BY <1>1, EvictionNamed
  <1>3. pageTable[q][w].valid /\ (p # q \/ v # w)
    BY <1>1, <1>2, VictimInMemory
  <1>4. PICK pt, sw : Exchange(p, v, f, q, w, pt, sw) /\ SlotsKept(pt, sw)
    <2>1. CASE Dropping(p, v, f, q, w)
      BY <1>3, <2>1, EvictionExchanges, EvictionSlots
    <2>2. ASSUME NEW s \in Slot, Swapping(p, v, f, q, w, s)
          PROVE  \E pt, sw : Exchange(p, v, f, q, w, pt, sw) /\ SlotsKept(pt, sw)
      <3>1. Exchange(p, v, f, q, w, AfterSwap(q, w, s), SwapWith(s, ram[f]))
        BY <2>2, EvictionExchanges
      <3>2. FirstFree(s) /\ ram[f] \in Content
        BY <2>2 DEF Swapping, TypeInv, TypeOK
      <3>3. SlotsKept(AfterSwap(q, w, s), SwapWith(s, ram[f]))
        BY <1>3, <3>2, EvictionSlots
      <3> QED BY <3>1, <3>3
    <2> QED BY <1>2, <2>1, <2>2
  <1>5. pt[p][v] = pageTable[p][v]
    BY <1>3, <1>4 DEF Exchange
  <1> QED BY <1>1, <1>4, <1>5, ResolveSlots DEF Exchange

\* With memory full every frame is in the queue, so a victim is found.
LEMMA PanicNotForVictim ==
    ASSUME TypeInv, HolderInv, NEW p \in Pid, NEW v \in Vpn, FaultPanic(p, v)
    PROVE  EvictionFindsVictim'
  <1> DEFINE K == {k \in 1 .. Len(queue) : frameTable[queue[k]].allocated}
  <1>1. queue \in Seq(Frame) /\ DOMAIN queue = 1 .. Len(queue) /\ Len(queue) \in Nat
    <2>1. queue \in Seq(Frame)
      BY DEF TypeInv, TypeOK
    <2> QED BY <2>1, LenProperties
  <1>2. K # {}
    <2>1. 0 \in Frame
      BY LayoutOK DEF Frame
    <2>2. freeFrames = <<>>
      BY DEF FaultPanic
    <2>3. frameTable[0].allocated
      BY <2>1, <2>2 DEF HolderInv, NoneLost
    <2> QED BY <1>1, <2>1, <2>3 DEF HolderInv, Queued
  <1>3. K \in SUBSET (1 .. Len(queue))
    OBVIOUS
  <1>4. PICK k \in K : \A j \in K : k <= j
    BY <1>1, <1>2, <1>3, FirstOfSet
  <1>5. Victim(k) /\ k \in DOMAIN queue
    BY <1>1, <1>4 DEF Victim
  <1>6. {queue[j] : j \in {j \in DOMAIN queue : Victim(j)}} # {}
    BY <1>5
  <1> QED BY <1>6 DEF FaultPanic, EvictionFindsVictim

-----------------------------------------------------------------------------
(***************************************************************************)
(* Frames and slots together.                                              *)
(***************************************************************************)
\* A store marks the page dirty and leaves everything else in the entry.
LEMMA WriteEffect ==
    ASSUME TypeInv, NEW p \in Pid, NEW v \in Vpn, NEW x, Write(p, v, x)
    PROVE  /\ pageTable'[p][v].dirty
           /\ \A q \in Pid, w \in Vpn :
                 /\ pageTable'[q][w].valid = pageTable[q][w].valid
                 /\ pageTable'[q][w].swapped = pageTable[q][w].swapped
                 /\ pageTable'[q][w].ppn = pageTable[q][w].ppn
                 /\ pageTable'[q][w].canWrite = pageTable[q][w].canWrite
                 /\ q # p \/ w # v => pageTable'[q][w] = pageTable[q][w]
  <1> DEFINE e == [pageTable[p][v] EXCEPT !.dirty = TRUE]
  <1>1. pageTable' = [pageTable EXCEPT ![p][v] = e]
    BY DEF Write
  <1>2. pageTable \in PageTables /\ pageTable[p][v] \in PTE
    BY DEF TypeInv, TypeOK, PageTables
  <1>3. /\ e.valid = pageTable[p][v].valid
        /\ e.swapped = pageTable[p][v].swapped
        /\ e.ppn = pageTable[p][v].ppn
        /\ e.canWrite = pageTable[p][v].canWrite
        /\ e.dirty
    BY <1>2 DEF PTE
  <1> HIDE DEF e
  <1>4. pageTable'[p][v] = e
    BY <1>1, <1>2 DEF PageTables
  <1>5. \A q \in Pid, w \in Vpn : q # p \/ w # v => pageTable'[q][w] = pageTable[q][w]
    BY <1>1, <1>2 DEF PageTables
  <1> QED BY <1>3, <1>4, <1>5

\* Frames and slots see neither dirty bits nor contents.
SameMapping ==
    \A q \in Pid, w \in Vpn :
        /\ pageTable'[q][w].valid = pageTable[q][w].valid
        /\ pageTable'[q][w].swapped = pageTable[q][w].swapped
        /\ pageTable'[q][w].ppn = pageTable[q][w].ppn

LEMMA SameMappingKeeps ==
    ASSUME TypeInv, SameMapping,
           UNCHANGED <<active, freeFrames, frameTable, queue, swap>>
    PROVE  /\ HolderInv => HolderInv'
           /\ OwnsFrame /\ FramesAccounted => OwnsFrame' /\ FramesAccounted'
           /\ SlotsApart(pageTable, swap) => SlotsKept(pageTable', swap')
  <1>1. active \subseteq Pid /\ \A f \in Frame : frameTable[f] \in FrameInfo
    BY DEF TypeInv, TypeOK
  <1>2. OwnsFrame => OwnsFrame'
    BY <1>1 DEF OwnsFrame, SameMapping
  <1>3. ASSUME OwnerHasPage PROVE OwnerHasPage'
    <2> SUFFICES ASSUME NEW f \in Frame, frameTable[f].allocated
                 PROVE  LET q == frameTable[f].ownerPid
                            w == frameTable[f].vpn
                        IN  pageTable'[q][w].valid /\ pageTable'[q][w].ppn = f
      BY DEF OwnerHasPage
    <2>1. frameTable[f].ownerPid \in Pid /\ frameTable[f].vpn \in Vpn
      BY OwnerType DEF TypeInv
    <2> QED BY <1>3, <2>1 DEF OwnerHasPage, SameMapping
  <1>4. /\ FramesAccounted => FramesAccounted'
        /\ Queued => Queued'
        /\ NoneLost => NoneLost'
    BY DEF FramesAccounted, Queued, NoneLost
  <1>5. SlotsApart(pageTable, swap) => SlotsApart(pageTable', swap')
    BY DEF SlotsApart, Out, SameMapping
  <1>6. SlotsFilled(pageTable, swap) => SlotsFilled(pageTable', swap')
    BY DEF SlotsFilled, Out, SameMapping
  <1>7. HolderInv => HolderInv'
    BY <1>3, <1>4 DEF HolderInv
  <1> QED BY <1>2, <1>4, <1>5, <1>6, <1>7 DEF SlotsKept

\* What one step must show: what holds for every workload, and where slots are
\* not reused also that each frame and each slot is somebody's own.
Keeps ==
    /\ HolderInv' /\ SlotsApart(pageTable', swap') /\ EvictionFindsVictim'
    /\ NoReuse /\ OwnInv =>
          OwnsFrame' /\ FramesAccounted' /\ SlotsFilled(pageTable', swap')

LEMMA MappingKeeps ==
    ASSUME BaseInv, SameMapping,
           UNCHANGED <<status, active, freeFrames, frameTable, queue, swap>>
    PROVE  Keeps
  <1>1. /\ TypeInv /\ HolderInv /\ SlotsApart(pageTable, swap) /\ EvictionFindsVictim
        /\ UNCHANGED <<active, freeFrames, frameTable, queue, swap>>
    BY DEF BaseInv
  <1>2. /\ HolderInv => HolderInv'
        /\ OwnsFrame /\ FramesAccounted => OwnsFrame' /\ FramesAccounted'
        /\ SlotsApart(pageTable, swap) => SlotsKept(pageTable', swap')
    BY <1>1, SameMappingKeeps
  <1>3. EvictionFindsVictim'
    BY <1>1 DEF EvictionFindsVictim
  <1> QED BY <1>1, <1>2, <1>3 DEF Keeps, OwnInv, SlotsKept

LEMMA WriteKeeps ==
    ASSUME BaseInv, NEW p \in Pid, NEW v \in Vpn, NEW x, Write(p, v, x),
           UNCHANGED <<status, active, freeFrames, frameTable, queue, swap>>
    PROVE  Keeps
  <1>1. \A q \in Pid, w \in Vpn :
           /\ pageTable'[q][w].valid = pageTable[q][w].valid
           /\ pageTable'[q][w].swapped = pageTable[q][w].swapped
           /\ pageTable'[q][w].ppn = pageTable[q][w].ppn
    <2>1. TypeInv /\ Write(p, v, x)
      BY DEF BaseInv
    <2> QED BY <2>1, WriteEffect
  <1>2. SameMapping
    BY <1>1 DEF SameMapping
  <1> QED BY <1>2, MappingKeeps, Zenon

LEMMA TerminateKeeps ==
    ASSUME BaseInv, NEW p \in Pid, Terminate(p)
    PROVE  Keeps
  <1>1. p \in active /\ UNCHANGED <<pageTable, swap, status>>
    BY DEF Terminate
  <1>2. HolderInv'
    BY <1>1, TerminateHolders DEF BaseInv
  <1>3. OwnInv => OwnsFrame' /\ FramesAccounted'
    BY <1>1, TerminateFrames DEF BaseInv, HolderInv, OwnInv, FrameInv
  <1>4. SlotsKept(pageTable', swap')
    BY <1>1 DEF BaseInv, SlotsKept
  <1>5. EvictionFindsVictim'
    BY <1>1 DEF BaseInv, EvictionFindsVictim
  <1> QED BY <1>2, <1>3, <1>4, <1>5 DEF Keeps, OwnInv, SlotsKept

LEMMA KillKeeps ==
    ASSUME BaseInv, NEW p \in Pid, Kill(p)
    PROVE  Keeps
  <1>1. CASE KillPanic(p)
    <2>1. /\ status' = "not active"
          /\ UNCHANGED <<active, pageTable, freeFrames, frameTable, queue, swap>>
      BY <1>1 DEF KillPanic, procVars, frameVars
    <2>2. SameMapping
      BY <2>1 DEF SameMapping
    <2>3. TypeInv /\ HolderInv /\ SlotsApart(pageTable, swap)
      BY DEF BaseInv
    <2>4. /\ HolderInv => HolderInv'
          /\ OwnsFrame /\ FramesAccounted => OwnsFrame' /\ FramesAccounted'
          /\ SlotsApart(pageTable, swap) => SlotsKept(pageTable', swap')
      BY <2>1, <2>2, <2>3, SameMappingKeeps
    <2>5. EvictionFindsVictim'
      BY <2>1 DEF EvictionFindsVictim
    <2> QED BY <2>3, <2>4, <2>5 DEF Keeps, OwnInv, SlotsKept
  <1> QED BY <1>1, TerminateKeeps DEF Kill

\* A new program starts with no page out in a slot, and its frames are the
\* owner's again; without reuse it had neither.
LEMMA RecycleKeeps ==
    ASSUME BaseInv, NEW p \in Pid, Recycle(p)
    PROVE  Keeps
  <1>1. /\ TypeInv /\ HolderInv /\ SlotsApart(pageTable, swap) /\ EvictionFindsVictim
        /\ pageTable \in PageTables
    BY DEF BaseInv, TypeInv, TypeOK, PageTables
  <1>2. HolderInv'
    BY <1>1, RecycleHolders
  <1>3. /\ pageTable' = [pageTable EXCEPT ![p] = NoPages]
        /\ swap' = swap /\ status' = status
    BY DEF Recycle
  <1>4. SlotsApart(pageTable', swap')
    <2>1. \A r \in Pid, u \in Vpn : Out(pageTable', r, u) =>
             Out(pageTable, r, u) /\ pageTable'[r][u] = pageTable[r][u]
      <3> SUFFICES ASSUME NEW r \in Pid, NEW u \in Vpn, Out(pageTable', r, u)
                   PROVE  Out(pageTable, r, u) /\ pageTable'[r][u] = pageTable[r][u]
        OBVIOUS
      <3>1. r # p
        BY <1>1, <1>3 DEF Out, NoPages, NoPTE, PageTables
      <3>2. pageTable'[r] = pageTable[r]
        BY <1>1, <1>3, <3>1 DEF PageTables
      <3> QED BY <3>2 DEF Out
    <2>2. ASSUME NEW q \in Pid, NEW r \in Pid, NEW u \in Vpn, NEW w \in Vpn,
                 Out(pageTable', q, u), Out(pageTable', r, w),
                 pageTable'[q][u].ppn = pageTable'[r][w].ppn
          PROVE  q = r /\ u = w
      <3>1. /\ Out(pageTable, q, u) /\ Out(pageTable, r, w)
            /\ pageTable[q][u].ppn = pageTable[r][w].ppn
        BY <2>1, <2>2
      <3> QED BY <1>1, <3>1 DEF SlotsApart
    <2>3. ASSUME NEW r \in Pid, NEW u \in Vpn, Out(pageTable', r, u)
          PROVE  swap'[pageTable'[r][u].ppn].used
      <3>1. Out(pageTable, r, u) /\ pageTable'[r][u] = pageTable[r][u]
        BY <2>1, <2>3
      <3> QED BY <1>1, <1>3, <3>1 DEF SlotsApart
    <2> QED BY <2>2, <2>3 DEF SlotsApart
  <1>5. EvictionFindsVictim'
    BY <1>1, <1>3 DEF EvictionFindsVictim
  <1>6. ASSUME NoReuse, OwnInv
        PROVE  OwnsFrame' /\ FramesAccounted' /\ SlotsFilled(pageTable', swap')
    <2>1. FrameInv
      BY <1>1, <1>6 DEF HolderInv, OwnInv, FrameInv
    <2>2. OwnsFrame' /\ FramesAccounted'
      BY <1>1, <1>6, <2>1, RecycleFrames
    <2>3. pageTable' = pageTable /\ swap' = swap
      BY <1>1, <1>3, <1>6, RecycleNothing
    <2> QED BY <1>6, <2>2, <2>3 DEF OwnInv
  <1> QED BY <1>2, <1>4, <1>5, <1>6 DEF Keeps

LEMMA FaultKeeps ==
    ASSUME BaseInv, NEW p \in Pid, NEW v \in Vpn, FaultFree(p, v) \/ FaultEvict(p, v)
    PROVE  Keeps
  <1>1. /\ TypeInv /\ HolderInv /\ OwnerHasPage /\ SlotsApart(pageTable, swap)
        /\ EvictionFindsVictim
    BY DEF BaseInv, HolderInv
  <1>2. HolderInv'
    BY <1>1, FaultFreeHolders, FaultEvictHolders
  <1>3. SlotsKept(pageTable', swap')
    BY <1>1, FaultFreeSlots, FaultEvictSlots
  <1>4. EvictionFindsVictim'
    BY <1>1 DEF FaultFree, FaultEvict, EvictionFindsVictim
  <1>5. OwnInv => OwnsFrame' /\ FramesAccounted'
    <2> SUFFICES ASSUME OwnInv PROVE OwnsFrame' /\ FramesAccounted'
      OBVIOUS
    <2>1. FrameInv
      BY <1>1 DEF HolderInv, OwnInv, FrameInv
    <2> QED BY <1>1, <2>1, FaultFreeFrames, FaultEvictFrames
  <1> QED BY <1>2, <1>3, <1>4, <1>5 DEF Keeps, OwnInv, SlotsKept

LEMMA PanicKeeps ==
    ASSUME BaseInv, NEW p \in Pid, NEW v \in Vpn, FaultPanic(p, v)
    PROVE  Keeps
  <1>1. UNCHANGED <<active, pageTable, freeFrames, frameTable, queue, swap>>
    BY DEF FaultPanic, procVars, frameVars
  <1>2. TypeInv /\ HolderInv /\ SlotsApart(pageTable, swap)
    BY DEF BaseInv
  <1>3. SameMapping
    BY <1>1 DEF SameMapping
  <1>4. /\ HolderInv => HolderInv'
        /\ OwnsFrame /\ FramesAccounted => OwnsFrame' /\ FramesAccounted'
        /\ SlotsApart(pageTable, swap) => SlotsKept(pageTable', swap')
    BY <1>1, <1>2, <1>3, SameMappingKeeps
  <1>5. EvictionFindsVictim'
    BY <1>2, PanicNotForVictim
  <1> QED BY <1>2, <1>4, <1>5 DEF Keeps, OwnInv, SlotsKept

LEMMA NextKeeps ==
    ASSUME BaseInv, [Next]_vars
    PROVE  Keeps
  <1>1. ASSUME UNCHANGED <<status, active, pageTable, freeFrames, frameTable,
                           queue, swap>>
        PROVE  Keeps
    <2>1. SameMapping
      BY <1>1 DEF SameMapping
    <2>2. UNCHANGED <<status, active, freeFrames, frameTable, queue, swap>>
      BY <1>1
    <2> QED BY <2>1, <2>2, MappingKeeps
  <1>2. ASSUME NEW p \in Pid, Exit(p) PROVE Keeps
    BY <1>2, KillKeeps DEF Exit
  <1>3. ASSUME NEW p \in Pid, NEW n \in {-1, 1}, Sbrk(p, n) PROVE Keeps
    BY <1>1, <1>3 DEF Sbrk, frameVars
  <1>4. ASSUME NEW p \in Pid, NEW v \in Vpn, NEW x \in Written, Store(p, v, x)
        PROVE  Keeps
    <2>1. /\ Write(p, v, x)
          /\ UNCHANGED <<status, active, freeFrames, frameTable, queue, swap>>
      BY <1>4 DEF Store, procVars, frameVars
    <2> QED BY <2>1, WriteKeeps
  <1>5. ASSUME NEW p \in Pid, NEW v \in Vpn, NEW x \in Written, CopyOut(p, v, x)
        PROVE  Keeps
    <2>1. CASE CanStore(p, v)
      <3>1. /\ Write(p, v, x)
            /\ UNCHANGED <<status, active, freeFrames, frameTable, queue, swap>>
        BY <1>5, <2>1 DEF CopyOut, procVars, frameVars
      <3> QED BY <3>1, WriteKeeps
    <2>2. CASE ~CanStore(p, v)
      BY <1>1, <1>5, <2>2 DEF CopyOut, procVars, frameVars
    <2> QED BY <2>1, <2>2
  <1>6. ASSUME NEW p \in Pid, NEW v \in Vpn, CopyIn(p, v) PROVE Keeps
    BY <1>1, <1>6 DEF CopyIn, procVars, frameVars
  <1>7. ASSUME NEW p \in Pid, NEW v \in Vpn,
               ProtectionFault(p, v) \/ SegmentationFault(p, v)
        PROVE  Keeps
    BY <1>7, KillKeeps DEF ProtectionFault, SegmentationFault
  <1>8. UNCHANGED vars => Keeps
    BY <1>1 DEF vars, procVars, frameVars
  <1>9. Halted => Keeps
    BY <1>8 DEF Halted
  <1> QED
    BY <1>2, <1>3, <1>4, <1>5, <1>6, <1>7, <1>8, <1>9, RecycleKeeps, FaultKeeps,
       PanicKeeps, PageUsed, Zenon DEF Next

LEMMA SlotsNext ==
    /\ SlotsApart(pageTable, swap)' <=> SlotsApart(pageTable', swap')
    /\ SlotsFilled(pageTable, swap)' <=> SlotsFilled(pageTable', swap')
  BY DEF SlotsApart, SlotsFilled, Out

LEMMA InitInv == Init => BaseInv /\ Inv
  <1> SUFFICES ASSUME Init PROVE BaseInv /\ Inv
    OBVIOUS
  <1>1. \A p \in Pid, v \in Vpn : ~Out(pageTable, p, v)
    BY DEF Init, Out, NoPages, NoPTE
  <1>2. \A s \in Slot : ~swap[s].used
    BY DEF Init
  <1>3. SlotsApart(pageTable, swap) /\ SlotsFilled(pageTable, swap)
    BY <1>1, <1>2 DEF SlotsApart, SlotsFilled
  <1>4. EvictionFindsVictim
    BY DEF EvictionFindsVictim, Init
  <1> QED BY <1>3, <1>4, InitType, InitFrames
             DEF BaseInv, HolderInv, Inv, SlotsOK, FrameInv

LEMMA NextBase == BaseInv /\ [Next]_vars => BaseInv'
  BY NextKeeps, NextType, SlotsNext DEF BaseInv, Keeps

LEMMA NextInv == NoReuse /\ Inv /\ [Next]_vars => Inv'
  <1> SUFFICES ASSUME NoReuse, Inv, [Next]_vars PROVE Inv'
    OBVIOUS
  <1>1. NoneLost
    BY DEF NoneLost, Inv, FrameInv, FramesAccounted
  <1>2. BaseInv /\ OwnInv
    BY <1>1 DEF Inv, FrameInv, SlotsOK, BaseInv, HolderInv, OwnInv
  <1>3. Keeps /\ TypeInv'
    BY <1>2, NextKeeps, NextType DEF BaseInv
  <1>4. FrameInv'
    BY <1>2, <1>3 DEF Keeps, HolderInv, FrameInv
  <1>5. SlotsOK(pageTable, swap)'
    BY <1>2, <1>3, SlotsNext DEF Keeps, SlotsOK
  <1> QED BY <1>3, <1>4, <1>5 DEF Keeps, Inv

LEMMA BaseHolds == Spec => []BaseInv
  BY InitInv, NextBase, PTL DEF Spec

LEMMA InvHolds == ASSUME NoReuse PROVE Spec => []Inv
  BY InitInv, NextInv, NoReuse, PTL DEF Spec

\* Whoever is recorded as the owner of a frame in use has its page there, so
\* evictPage takes the frame from the page that is in it.  The owner may be dead:
\* handlePageFault also serves the threads a dead process has left.
THEOREM OwnersHavePages == Spec => []OwnerHasPage
  <1>1. BaseInv => OwnerHasPage
    BY DEF BaseInv, HolderInv
  <1> QED BY <1>1, BaseHolds, PTL

\* evictPage never panics for want of a victim, whatever the stale entries
\* of the FIFO queue and whoever had the frames before.
THEOREM VictimsFound == Spec => []EvictionFindsVictim
  <1>1. BaseInv => EvictionFindsVictim
    BY DEF BaseInv
  <1> QED BY <1>1, BaseHolds, PTL

\* swapOut never takes a slot that a page is out in, and no two pages are out
\* in one slot: what swapIn reads is what was written for this page.
THEOREM SlotsNotShared == Spec => []SlotsApart(pageTable, swap)
  <1>1. BaseInv => SlotsApart(pageTable, swap)
    BY DEF BaseInv
  <1> QED BY <1>1, BaseHolds, PTL

\* A page of an active process that is in memory owns its frame: while no slot
\* is reused, the frame table never sends an eviction to the wrong page, though
\* orphans keep entries for frames they have lost.
THEOREM FramesOwned == ASSUME NoReuse PROVE Spec => []OwnsFrame
  <1>1. Inv => OwnsFrame
    BY DEF Inv, FrameInv
  <1> QED BY <1>1, InvHolds, PTL

\* No frame is lost and none is on the free list twice.
THEOREM FramesKept == ASSUME NoReuse PROVE Spec => []FramesAccounted
  <1>1. Inv => FramesAccounted
    BY DEF Inv, FrameInv
  <1> QED BY <1>1, InvHolds, PTL

\* Two pages of active processes never share a frame.  Only the reuse of slots
\* breaks this.
THEOREM FramesNotShared == ASSUME NoReuse PROVE Spec => []NoSharedFrame
  <1>1. Inv => NoSharedFrame
    <2> SUFFICES ASSUME Inv, NEW p \in active, NEW q \in active,
                        NEW v \in Vpn, NEW w \in Vpn,
                        pageTable[p][v].valid, pageTable[q][w].valid,
                        pageTable[p][v].ppn = pageTable[q][w].ppn
                 PROVE  p = q /\ v = w
      BY DEF NoSharedFrame
    <2>1. Info(p, v) = Info(q, w)
      BY DEF Inv, FrameInv, OwnsFrame, Info
    <2> QED BY <2>1, InfoInjective
  <1> QED BY <1>1, InvHolds, PTL

\* A swap slot is taken exactly while one page is out in it: swapIn and
\* swapOut neither leak slots nor give one to two pages.
THEOREM SlotsAccounted == ASSUME NoReuse PROVE Spec => []SwapAccounted
  <1> DEFINE users(s) == {u \in Pid \X Vpn :
                             /\ pageTable[u[1]][u[2]].swapped
                             /\ ~pageTable[u[1]][u[2]].valid
                             /\ pageTable[u[1]][u[2]].ppn = s}
  <1>1. ASSUME Inv, NEW s \in Slot
        PROVE  Cardinality(users(s)) = IF swap[s].used THEN 1 ELSE 0
    <2>1. CASE swap[s].used
      <3>1. PICK p \in Pid, v \in Vpn : Out(pageTable, p, v) /\ pageTable[p][v].ppn = s
        BY <1>1, <2>1 DEF Inv, SlotsOK, SlotsFilled
      <3>2. users(s) = {<<p, v>>}
        BY <1>1, <3>1 DEF Inv, SlotsOK, SlotsApart, Out
      <3> HIDE DEF users
      <3> QED BY <2>1, <3>2, FS_Singleton
    <2>2. CASE ~swap[s].used
      <3>1. users(s) = {}
        BY <1>1, <2>2 DEF Inv, SlotsOK, SlotsApart, Out
      <3> HIDE DEF users
      <3> QED BY <2>2, <3>1, FS_EmptySet
    <2> QED BY <2>1, <2>2
  <1>2. Inv => SwapAccounted
    BY <1>1 DEF SwapAccounted
  <1> QED BY <1>2, InvHolds, PTL

-----------------------------------------------------------------------------
(***************************************************************************)
(* Paging is invisible: the refinement of AddressSpaces.                   *)
(***************************************************************************)
\* What Logical comes to where CopiesInv holds: a page that is neither dirty
\* nor has ever been swapped out has its first content.
View(act, pt, r, sw, p, v) ==
    IF p \notin act \/ (~pt[p][v].swapped /\ ~pt[p][v].dirty)
      THEN Initial[v]
      ELSE IF pt[p][v].valid THEN r[pt[p][v].ppn] ELSE sw[pt[p][v].ppn].data

LEMMA LogicalIs ==
    ASSUME CopiesInv, NEW p \in Pid, NEW v \in Vpn
    PROVE  Logical(p, v) = View(active, pageTable, ram, swap, p, v)
  <1>1. p \in active => PageOK(pageTable[p][v], v, ram)
    BY DEF CopiesInv
  <1>2. Segments \cap StackPages = {} /\ HeapPages \cap StackPages = {}
    BY LayoutOK
  <1> QED BY <1>1, <1>2 DEF Logical, View, PageOK, Initial

LEMMA LogicalNext ==
    ASSUME CopiesInv', NEW p \in Pid, NEW v \in Vpn
    PROVE  Logical(p, v)' = View(active', pageTable', ram', swap', p, v)
  <1>1. p \in active' => PageOK(pageTable'[p][v], v, ram')
    BY DEF CopiesInv
  <1>2. Segments \cap StackPages = {} /\ HeapPages \cap StackPages = {}
    BY LayoutOK
  <1> QED BY <1>1, <1>2 DEF Logical, View, PageOK, Initial

\* With page tables pt and swap sw the same memory is seen, and seen through
\* sound entries.
SameView(pt, sw) ==
    \A r \in active, u \in Vpn :
        /\ PageOK(pt[r][u], u, ram)
        /\ View(active, pt, ram, sw, r, u) = View(active, pageTable, ram, swap, r, u)

\* A page is dropped only if it still is what it was loaded as, and swapped
\* out to a slot no other page is in.
LEMMA EvictionCopies ==
    ASSUME TypeInv, SlotsApart(pageTable, swap), CopiesInv,
           NEW f \in Frame, NEW q \in Pid, NEW w \in Vpn,
           pageTable[q][w].valid, pageTable[q][w].ppn = f
    PROVE  /\ Droppable(pageTable[q][w]) => SameView(AfterDrop(q, w), swap)
           /\ \A s \in Slot : ~Droppable(pageTable[q][w]) /\ FirstFree(s)
                 => SameView(AfterSwap(q, w, s), SwapWith(s, ram[f]))
  <1> DEFINE old == pageTable[q][w]
  <1>1. active \subseteq Pid /\ old \in PTE
    BY DEF TypeInv, TypeOK
  <1>2. (q \in active => PageOK(old, w, ram)) /\ old.valid /\ old.ppn = f
    BY DEF CopiesInv
  <1>3. ASSUME Droppable(old) PROVE SameView(AfterDrop(q, w), swap)
    <2> DEFINE pt == AfterDrop(q, w)
    <2>1. \A r \in Pid, u \in Vpn : r # q \/ u # w => pt[r][u] = pageTable[r][u]
      BY <1>1, EvictedEntry
    <2>2. pt[q][w] = DroppedPTE(old)
      BY <1>1 DEF AfterDrop, TypeInv, TypeOK
    <2>3. q \in active => ~old.dirty /\ ~old.swapped
      BY <1>2, <1>3 DEF Droppable, PageOK
    <2>4. q \in active => ~pt[q][w].dirty /\ ~pt[q][w].swapped /\ ~pt[q][w].valid
      BY <1>1, <2>2, <2>3 DEF DroppedPTE, PTE
    <2> HIDE DEF pt
    <2> SUFFICES ASSUME NEW r \in active, NEW u \in Vpn
                 PROVE  /\ PageOK(pt[r][u], u, ram)
                        /\ View(active, pt, ram, swap, r, u)
                              = View(active, pageTable, ram, swap, r, u)
      BY DEF SameView, pt
    <2>5. CASE r = q /\ u = w
      BY <2>3, <2>4, <2>5 DEF PageOK, View
    <2>6. CASE r # q \/ u # w
      BY <1>1, <2>1, <2>6 DEF View, CopiesInv
    <2> QED BY <2>5, <2>6
  <1>4. ASSUME NEW s \in Slot, ~Droppable(old), FirstFree(s)
        PROVE  SameView(AfterSwap(q, w, s), SwapWith(s, ram[f]))
    <2> DEFINE pt == AfterSwap(q, w, s)
               sw == SwapWith(s, ram[f])
    <2>1. \A r \in Pid, u \in Vpn : r # q \/ u # w => pt[r][u] = pageTable[r][u]
      BY <1>1, EvictedEntry
    <2>2. pt[q][w] = SwappedOut(old, s)
      BY <1>1 DEF AfterSwap, TypeInv, TypeOK
    <2>3. q \in active => /\ old.canWrite /\ w \notin CodePages
                          /\ old.dirty \/ old.swapped
      BY <1>2, <1>4 DEF Droppable, PageOK
    <2>4. /\ ~pt[q][w].dirty /\ pt[q][w].swapped /\ ~pt[q][w].valid
          /\ pt[q][w].ppn = s /\ pt[q][w].canWrite = old.canWrite
      BY <1>1, <2>2 DEF SwappedOut, PTE
    <2>5. sw[s].data = ram[f] /\ \A t \in Slot : t # s => sw[t] = swap[t]
      BY DEF SwapWith, TypeInv, TypeOK
    <2>6. ~swap[s].used
      BY <1>4 DEF FirstFree
    <2> HIDE DEF pt, sw
    <2> SUFFICES ASSUME NEW r \in active, NEW u \in Vpn
                 PROVE  /\ PageOK(pt[r][u], u, ram)
                        /\ View(active, pt, ram, sw, r, u)
                              = View(active, pageTable, ram, swap, r, u)
      BY DEF SameView, pt, sw
    <2>7. CASE r = q /\ u = w
      BY <1>2, <2>3, <2>4, <2>5, <2>7 DEF PageOK, View
    <2>8. CASE r # q \/ u # w
      <3>1. r \in Pid /\ pt[r][u] = pageTable[r][u] /\ PageOK(pageTable[r][u], u, ram)
        BY <1>1, <2>1, <2>8 DEF CopiesInv
      <3>2. CASE Out(pageTable, r, u)
        <4>1. pageTable[r][u].ppn \in Slot /\ pageTable[r][u].ppn # s
          BY <2>6, <3>1, <3>2 DEF SlotsApart, Out, TypeInv, EntriesOK, EntryOK
        <4> QED BY <2>5, <3>1, <4>1 DEF View
      <3>3. CASE ~Out(pageTable, r, u)
        BY <3>1, <3>3 DEF View, Out, PageOK
      <3> QED BY <3>2, <3>3
    <2> QED BY <2>7, <2>8
  <1> QED BY <1>3, <1>4

\* The pages of active processes hold what they held.
SameMemory == \A r \in Pid, u \in Vpn : Logical(r, u)' = Logical(r, u)

\* Nothing in pt is in the frame the faulting page is given.
Vacant(p, v, f, pt) ==
    \A r \in active, u \in Vpn :
        (r # p \/ u # v) /\ pt[r][u].valid => pt[r][u].ppn # f

LEMMA ResolveCopies ==
    ASSUME TypeInv, CopiesInv, UNCHANGED active,
           NEW p \in Pid, NEW v \in Vpn, NEW f \in Frame,
           NEW pt \in PageTables, EntriesOK(pt), NEW sw \in SwapArea,
           SameView(pt, sw), pt[p][v] = pageTable[p][v], ~pageTable[p][v].valid,
           Resolve(p, v, f, pt, sw), Vacant(p, v, f, pt)
    PROVE  CopiesInv' /\ SameMemory
  <1>1. active \subseteq Pid /\ ram \in [Frame -> Content]
    BY DEF TypeInv, TypeOK
  <1>2. /\ Elsewhere(p, v, pt)
        /\ InFrame(p, v, f)
        /\ IF pageTable[p][v].swapped THEN Restored(p, v, f, pt, sw)
                                      ELSE Fresh(p, v, f, pt, sw)
    BY <1>1, ResolveEffect
  <1>3. p \in active => PageOK(pt[p][v], v, ram)
    BY DEF SameView
  <1>4. \A g \in Frame : g # f => ram'[g] = ram[g]
    BY <1>1, <1>2 DEF Restored, Fresh
  <1>5. \A s \in Slot : swap'[s].data = sw[s].data
    BY <1>2 DEF Restored, Fresh, SwapArea
  <1>6. ASSUME p \in active
        PROVE  /\ PageOK(pageTable'[p][v], v, ram')
               /\ View(active, pageTable', ram', swap', p, v)
                     = View(active, pt, ram, sw, p, v)
    <2>0. PageOK(pt[p][v], v, ram)
      BY <1>3, <1>6
    <2>1. CASE pageTable[p][v].swapped
      <3>1. /\ pageTable'[p][v].valid /\ pageTable'[p][v].ppn = f
            /\ ~pageTable'[p][v].dirty /\ pageTable'[p][v].swapped
            /\ pageTable'[p][v].canWrite = pt[p][v].canWrite
            /\ pt[p][v].swapped /\ ~pt[p][v].valid
        BY <1>2, <2>1 DEF InFrame, Restored
      <3>2. ram'[f] = sw[pt[p][v].ppn].data
        BY <1>1, <1>2, <2>1 DEF Restored
      <3>3. PageOK(pageTable'[p][v], v, ram')
        BY <2>0, <3>1 DEF PageOK
      <3>4. View(active, pageTable', ram', swap', p, v) = View(active, pt, ram, sw, p, v)
        BY <3>1, <3>2 DEF View
      <3> QED BY <3>3, <3>4
    <2>2. CASE ~pageTable[p][v].swapped
      <3>1. /\ pageTable'[p][v].valid /\ pageTable'[p][v].ppn = f
            /\ ~pageTable'[p][v].dirty /\ ~pageTable'[p][v].swapped
            /\ pageTable'[p][v].canWrite = (v \notin CodePages)
            /\ ~pt[p][v].swapped /\ ~pt[p][v].dirty
        BY <1>2, <2>0, <2>2 DEF InFrame, Fresh, PageOK
      <3>2. v \notin StackPages => ram'[f] = Initial[v]
        BY <1>2, <2>2 DEF Fresh
      <3> QED BY <3>1, <3>2 DEF PageOK, View
    <2> QED BY <2>1, <2>2
  <1>7. ASSUME NEW r \in active, NEW u \in Vpn, r # p \/ u # v
        PROVE  /\ PageOK(pageTable'[r][u], u, ram')
               /\ View(active, pageTable', ram', swap', r, u)
                     = View(active, pt, ram, sw, r, u)
    <2>1. r \in Pid /\ pageTable'[r][u] = pt[r][u] /\ PageOK(pt[r][u], u, ram)
      BY <1>1, <1>2, <1>7 DEF Elsewhere, SameView
    <2>2. pt[r][u].valid => ram'[pt[r][u].ppn] = ram[pt[r][u].ppn]
      BY <1>4, <1>7, <2>1 DEF Vacant, EntriesOK, EntryOK
    <2>3. pt[r][u].swapped /\ ~pt[r][u].valid
             => swap'[pt[r][u].ppn].data = sw[pt[r][u].ppn].data
      BY <1>5, <2>1 DEF EntriesOK, EntryOK
    <2>4. PageOK(pageTable'[r][u], u, ram')
      BY <2>1, <2>2 DEF PageOK
    <2>5. View(active, pageTable', ram', swap', r, u) = View(active, pt, ram, sw, r, u)
      BY <2>1, <2>2, <2>3 DEF View, PageOK
    <2> QED BY <2>4, <2>5
  <1>8. CopiesInv'
    BY <1>6, <1>7 DEF CopiesInv
  <1>9. ASSUME NEW r \in Pid, NEW u \in Vpn PROVE Logical(r, u)' = Logical(r, u)
    <2>1. /\ Logical(r, u) = View(active, pageTable, ram, swap, r, u)
          /\ Logical(r, u)' = View(active, pageTable', ram', swap', r, u)
      BY <1>8, LogicalIs, LogicalNext
    <2>2. CASE r \in active
      <3>1. View(active, pageTable', ram', swap', r, u) = View(active, pt, ram, sw, r, u)
        BY <1>6, <1>7, <2>2
      <3> QED BY <2>1, <2>2, <3>1 DEF SameView
    <2>3. CASE r \notin active
      BY <2>1, <2>3 DEF View
    <2> QED BY <2>2, <2>3
  <1> QED BY <1>8, <1>9 DEF SameMemory

LEMMA FaultFreeCopies ==
    ASSUME Inv, CopiesInv, NEW p \in Pid, NEW v \in Vpn, FaultFree(p, v)
    PROVE  CopiesInv' /\ SameMemory
  <1> DEFINE n == Len(freeFrames)
             f == freeFrames[n]
  <1>1. /\ freeFrames \in Seq(Frame)
        /\ pageTable \in PageTables /\ swap \in SwapArea /\ EntriesOK(pageTable)
        /\ ~pageTable[p][v].valid /\ UNCHANGED active
    BY DEF Inv, TypeInv, TypeOK, PageTables, SwapArea, FaultFree, Faulting,
           procVars
  <1>2. n \in Nat \ {0} /\ DOMAIN freeFrames = 1 .. n
    BY <1>1, EmptySeq DEF FaultFree
  <1>3. f \in Frame /\ Resolve(p, v, f, pageTable, swap)
    BY <1>1, <1>2 DEF FaultFree
  <1> HIDE DEF n
  <1>4. ~frameTable[f].allocated
    BY <1>2, <1>3 DEF Inv, FrameInv, FramesAccounted
  <1> HIDE DEF f
  <1>5. Vacant(p, v, f, pageTable)
    <2> SUFFICES ASSUME NEW q \in active, NEW w \in Vpn, pageTable[q][w].valid,
                        pageTable[q][w].ppn = f
                 PROVE  FALSE
      BY DEF Vacant
    <2>1. frameTable[f] = Info(q, w)
      BY DEF Inv, FrameInv, OwnsFrame, Info
    <2> QED BY <1>4, <2>1 DEF Info
  <1>6. SameView(pageTable, swap)
    BY DEF SameView, CopiesInv
  <1> QED BY <1>1, <1>3, <1>5, <1>6, ResolveCopies DEF Inv

LEMMA FaultEvictCopies ==
    ASSUME Inv, CopiesInv, NEW p \in Pid, NEW v \in Vpn, FaultEvict(p, v)
    PROVE  CopiesInv' /\ SameMemory
  <1>1. /\ TypeOK /\ TypeInv /\ FrameInv /\ SlotsApart(pageTable, swap)
        /\ active \subseteq Pid /\ ~pageTable[p][v].valid /\ UNCHANGED active
    <2>1. TypeInv /\ FrameInv /\ SlotsApart(pageTable, swap)
      BY DEF Inv, SlotsOK
    <2> QED BY <2>1 DEF TypeInv, TypeOK, FaultEvict, Faulting, procVars
  <1>2. PICK f \in Frame, q \in Pid, w \in Vpn :
           /\ frameTable[f] = Info(q, w)
           /\ \/ Dropping(p, v, f, q, w)
              \/ \E s \in Slot : Swapping(p, v, f, q, w, s)
    BY <1>1, EvictionNamed
  <1>3. /\ pageTable[q][w].valid /\ pageTable[q][w].ppn = f
        /\ \A r \in active, u \in Vpn :
              (r # q \/ u # w) /\ pageTable[r][u].valid => pageTable[r][u].ppn # f
    BY <1>1, <1>2, VictimOwned
  <1>4. PICK pt, sw : Exchange(p, v, f, q, w, pt, sw) /\ SameView(pt, sw)
    <2>1. CASE Dropping(p, v, f, q, w)
      <3>1. Droppable(pageTable[q][w])
        BY <2>1 DEF Dropping
      <3>2. SameView(AfterDrop(q, w), swap)
        BY <1>1, <1>3, <3>1, EvictionCopies
      <3> QED BY <1>1, <2>1, <3>2, EvictionExchanges
    <2>2. ASSUME NEW s \in Slot, Swapping(p, v, f, q, w, s)
          PROVE  \E pt, sw : Exchange(p, v, f, q, w, pt, sw) /\ SameView(pt, sw)
      <3>1. Exchange(p, v, f, q, w, AfterSwap(q, w, s), SwapWith(s, ram[f]))
        BY <1>1, <2>2, EvictionExchanges
      <3>2. ~Droppable(pageTable[q][w]) /\ FirstFree(s)
        BY <2>2 DEF Swapping
      <3>3. SameView(AfterSwap(q, w, s), SwapWith(s, ram[f]))
        BY <1>1, <1>3, <3>2, EvictionCopies
      <3> QED BY <3>1, <3>3
    <2> QED BY <1>2, <2>1, <2>2
  <1>5. pt[p][v] = pageTable[p][v]
    BY <1>1, <1>3, <1>4 DEF Exchange
  <1>6. Vacant(p, v, f, pt)
    BY <1>1, <1>3, <1>4 DEF Exchange, Vacant
  <1> QED BY <1>1, <1>4, <1>5, <1>6, ResolveCopies DEF Exchange

\* A store changes the page it names and no other.
LEMMA WriteCopies ==
    ASSUME Inv, CopiesInv, NEW p \in active, NEW v \in Vpn, NEW x \in Written,
           CanStore(p, v), Write(p, v, x), UNCHANGED <<active, swap>>
    PROVE  /\ CopiesInv'
           /\ v \notin CodePages
           /\ \A r \in Pid, u \in Vpn :
                 Logical(r, u)' = IF r = p /\ u = v THEN x ELSE Logical(r, u)
  <1> DEFINE f == pageTable[p][v].ppn
  <1>1. /\ TypeInv /\ p \in Pid /\ active \subseteq Pid /\ ram \in [Frame -> Content]
        /\ pageTable[p][v].valid /\ pageTable[p][v].canWrite
        /\ PageOK(pageTable[p][v], v, ram)
    BY DEF Inv, TypeInv, TypeOK, CanStore, CopiesInv
  <1>2. f \in Frame
    BY <1>1 DEF TypeInv, EntriesOK, EntryOK
  <1>3. ram'[f] = x /\ \A g \in Frame : g # f => ram'[g] = ram[g]
    BY <1>1, <1>2 DEF Write
  <1>4. v \notin CodePages
    BY <1>1 DEF PageOK
  <1>5. /\ pageTable'[p][v].valid /\ pageTable'[p][v].canWrite
        /\ pageTable'[p][v].ppn = f /\ pageTable'[p][v].dirty
    <2>1. TypeInv /\ p \in Pid /\ Write(p, v, x)
      BY <1>1
    <2>2. /\ pageTable'[p][v].dirty
          /\ pageTable'[p][v].valid = pageTable[p][v].valid
          /\ pageTable'[p][v].ppn = pageTable[p][v].ppn
          /\ pageTable'[p][v].canWrite = pageTable[p][v].canWrite
      BY <2>1, WriteEffect
    <2> QED BY <1>1, <2>2
  <1>6. PageOK(pageTable'[p][v], v, ram')
    BY <1>4, <1>5 DEF PageOK
  <1>7. ASSUME NEW r \in Pid, NEW u \in Vpn, r # p \/ u # v
        PROVE  /\ pageTable'[r][u] = pageTable[r][u]
               /\ r \in active /\ pageTable[r][u].valid
                     => /\ pageTable[r][u].ppn \in Frame
                        /\ pageTable[r][u].ppn # f
    <2>1. pageTable'[r][u] = pageTable[r][u]
      BY <1>1, <1>7, WriteEffect
    <2>2. ASSUME r \in active, pageTable[r][u].valid, pageTable[r][u].ppn = f
          PROVE  FALSE
      <3>1. Info(r, u) = Info(p, v)
        BY <1>1, <2>2 DEF Inv, FrameInv, OwnsFrame, Info
      <3> QED BY <1>7, <3>1, InfoInjective
    <2>3. pageTable[r][u].valid => pageTable[r][u].ppn \in Frame
      BY <1>1 DEF TypeInv, EntriesOK, EntryOK
    <2> QED BY <2>1, <2>2, <2>3
  <1> HIDE DEF f
  <1>8. ASSUME NEW r \in active, NEW u \in Vpn, r # p \/ u # v
        PROVE  PageOK(pageTable'[r][u], u, ram')
    <2>1. PageOK(pageTable[r][u], u, ram) /\ r \in Pid
      BY <1>1 DEF CopiesInv
    <2> QED BY <1>3, <1>7, <1>8, <2>1 DEF PageOK
  <1>9. CopiesInv'
    BY <1>6, <1>8 DEF CopiesInv
  <1>10. ASSUME NEW r \in Pid, NEW u \in Vpn
         PROVE  Logical(r, u)' = IF r = p /\ u = v THEN x ELSE Logical(r, u)
    <2>1. /\ Logical(r, u) = View(active, pageTable, ram, swap, r, u)
          /\ Logical(r, u)' = View(active, pageTable', ram', swap, r, u)
      BY <1>9, LogicalIs, LogicalNext
    <2>2. CASE r = p /\ u = v
      BY <1>3, <1>5, <2>1, <2>2 DEF View
    <2>3. CASE r # p \/ u # v
      BY <1>3, <1>7, <2>1, <2>3 DEF View
    <2> QED BY <2>2, <2>3
  <1> QED BY <1>4, <1>9, <1>10

\* A store by an orphan goes to a frame that no active process has a page in.
LEMMA OrphanCopies ==
    ASSUME TypeInv, CopiesInv, NEW p \in Pid, NEW v \in Vpn, NEW x \in Written,
           p \notin active, ~Intrudes(p, v),
           CanStore(p, v), Write(p, v, x), UNCHANGED <<active, swap>>
    PROVE  CopiesInv' /\ SameMemory
  <1> DEFINE f == pageTable[p][v].ppn
  <1>1. active \subseteq Pid /\ ram \in [Frame -> Content]
    BY DEF TypeInv, TypeOK
  <1>2. f \in Frame
    BY DEF CanStore, TypeInv, EntriesOK, EntryOK
  <1>3. \A g \in Frame : g # f => ram'[g] = ram[g]
    BY <1>1, <1>2 DEF Write
  <1>4. ASSUME NEW r \in active, NEW u \in Vpn
        PROVE  /\ r \in Pid /\ pageTable'[r][u] = pageTable[r][u]
               /\ PageOK(pageTable[r][u], u, ram)
               /\ pageTable[r][u].valid =>
                     ram'[pageTable[r][u].ppn] = ram[pageTable[r][u].ppn]
    <2>1. r \in Pid /\ r # p /\ PageOK(pageTable[r][u], u, ram)
      BY <1>1 DEF CopiesInv
    <2>2. pageTable'[r][u] = pageTable[r][u]
      BY <2>1, WriteEffect
    <2>3. pageTable[r][u].valid => pageTable[r][u].ppn \in Frame /\ pageTable[r][u].ppn # f
      BY <2>1 DEF Intrudes, TypeInv, EntriesOK, EntryOK
    <2> QED BY <1>3, <2>1, <2>2, <2>3
  <1> HIDE DEF f
  <1>5. CopiesInv'
    BY <1>4 DEF CopiesInv, PageOK
  <1>6. ASSUME NEW r \in Pid, NEW u \in Vpn PROVE Logical(r, u)' = Logical(r, u)
    <2>1. /\ Logical(r, u) = View(active, pageTable, ram, swap, r, u)
          /\ Logical(r, u)' = View(active, pageTable', ram', swap, r, u)
      BY <1>5, LogicalIs, LogicalNext
    <2> QED BY <1>4, <2>1 DEF View
  <1> QED BY <1>5, <1>6 DEF SameMemory

LEMMA EndCopies ==
    ASSUME TypeInv, CopiesInv, NEW p \in active, Terminate(p)
    PROVE  /\ CopiesInv'
           /\ \A r \in Pid, u \in Vpn :
                 Logical(r, u)' = IF r = p THEN Initial[u] ELSE Logical(r, u)
  <1>1. active' = active \ {p} /\ UNCHANGED <<pageTable, ram, swap>>
    BY DEF Terminate
  <1>2. CopiesInv'
    BY <1>1 DEF CopiesInv
  <1>3. ASSUME NEW r \in Pid, NEW u \in Vpn
        PROVE  Logical(r, u)' = IF r = p THEN Initial[u] ELSE Logical(r, u)
    <2>1. /\ Logical(r, u) = View(active, pageTable, ram, swap, r, u)
          /\ Logical(r, u)' = View(active', pageTable, ram, swap, r, u)
      BY <1>1, <1>2, LogicalIs, LogicalNext
    <2> QED BY <1>1, <2>1 DEF View
  <1> QED BY <1>2, <1>3

\* The page table a program starts with is empty.
LEMMA StartCopies ==
    ASSUME NoReuse, TypeInv, CopiesInv, NEW p \in Pid, Recycle(p)
    PROVE  CopiesInv' /\ SameMemory
  <1>1. /\ pageTable[p] = NoPages /\ UNCHANGED <<pageTable, ram, swap>>
        /\ active' = active \/ active' = active \cup {p}
    BY RecycleNothing DEF Recycle
  <1>2. \A u \in Vpn : /\ ~pageTable[p][u].valid /\ ~pageTable[p][u].dirty
                       /\ ~pageTable[p][u].swapped
    BY <1>1 DEF NoPages, NoPTE
  <1>3. CopiesInv'
    BY <1>1, <1>2 DEF CopiesInv, PageOK
  <1>4. ASSUME NEW r \in Pid, NEW u \in Vpn PROVE Logical(r, u)' = Logical(r, u)
    <2>1. /\ Logical(r, u) = View(active, pageTable, ram, swap, r, u)
          /\ Logical(r, u)' = View(active', pageTable, ram, swap, r, u)
      BY <1>1, <1>3, LogicalIs, LogicalNext
    <2> QED BY <1>1, <1>2, <2>1 DEF View
  <1> QED BY <1>3, <1>4 DEF SameMemory

LEMMA StillCopies ==
    ASSUME CopiesInv, UNCHANGED <<active, pageTable, ram, swap>>
    PROVE  CopiesInv' /\ SameMemory
  BY DEF CopiesInv, SameMemory, Logical

\* The memory a user program sees, as the abstract specification has it.
mem == [p \in Pid |-> [v \in Vpn |-> Logical(p, v)]]

LEMMA SameMemoryStutters ==
    ASSUME SameMemory
    PROVE  mem' = mem
  BY DEF SameMemory, mem

\* Who has intruded has intruded for good.
LEMMA IntrudedStays ==
    ASSUME [Next]_vars, intruded
    PROVE  intruded'
  <1> USE DEF history
  <1>1. ASSUME NEW p \in Pid, Kill(p) PROVE intruded'
    BY <1>1 DEF Kill, Terminate, KillPanic
  <1>2. ASSUME NEW p \in Pid,
               Recycle(p) \/ Exit(p) \/ \E n \in {-1, 1} : Sbrk(p, n)
        PROVE  intruded'
    BY <1>1, <1>2 DEF Recycle, Exit, Sbrk
  <1>3. ASSUME NEW p \in Pid, NEW v \in Vpn, NEW x \in Written,
               Store(p, v, x) \/ CopyOut(p, v, x)
        PROVE  intruded'
    BY <1>3 DEF Store, CopyOut, Write
  <1>4. ASSUME NEW p \in Pid, NEW v \in Vpn,
               \/ CopyIn(p, v) \/ ProtectionFault(p, v) \/ SegmentationFault(p, v)
               \/ FaultFree(p, v) \/ FaultEvict(p, v) \/ FaultPanic(p, v)
        PROVE  intruded'
    BY <1>1, <1>4 DEF CopyIn, ProtectionFault, SegmentationFault, FaultFree,
                      FaultEvict, FaultPanic
  <1>5. UNCHANGED vars => intruded'
    BY DEF vars
  <1> QED BY <1>2, <1>3, <1>4, <1>5, PageUsed, Zenon DEF Next, Halted

LEMMA StepImplements ==
    ASSUME NoReuse, Inv, CopiesInv, [Next]_vars, ~intruded'
    PROVE  CopiesInv' /\ [Spaces!Next]_(Spaces!vars)
  <1> DEFINE Goal == /\ CopiesInv'
                     /\ \/ mem' = mem /\ active' = active
                        \/ \E p \in Pid :
                              \/ Spaces!Start(p)
                              \/ Spaces!End(p)
                              \/ \E v \in Vpn, x \in Written : Spaces!Store(p, v, x)
  <1>0. TypeInv /\ active \subseteq Pid
    BY DEF Inv, TypeInv, TypeOK
  <1>1. UNCHANGED <<active, pageTable, ram, swap>> => Goal
    BY StillCopies, SameMemoryStutters
  <1>2. ASSUME NEW p \in Pid, Recycle(p) PROVE Goal
    <2>1. CopiesInv' /\ mem' = mem
      BY <1>0, <1>2, StartCopies, SameMemoryStutters
    <2>2. active' = active \/ (active' = active \cup {p} /\ p \notin active)
      BY <1>2 DEF Recycle
    <2>3. active' = active \/ Spaces!Start(p)
      BY <2>1, <2>2 DEF Spaces!Start, mem
    <2> QED BY <2>1, <2>3
  <1>3. ASSUME NEW p \in Pid, Terminate(p) PROVE Goal
    <2>0. p \in active
      BY <1>3 DEF Terminate
    <2>1. /\ CopiesInv'
          /\ \A r \in Pid, u \in Vpn :
                Logical(r, u)' = IF r = p THEN Initial[u] ELSE Logical(r, u)
      BY <1>0, <1>3, <2>0, EndCopies
    <2>2. mem' = [mem EXCEPT ![p] = [v \in Vpn |-> Initial[v]]]
      BY <1>0, <2>1 DEF mem
    <2>3. Spaces!End(p)
      BY <1>3, <2>0, <2>2 DEF Spaces!End, Spaces!NewMemory, mem, Terminate
    <2> QED BY <1>0, <2>1, <2>3
  <1>4. ASSUME NEW p \in Pid, NEW v \in Vpn, NEW x \in Written, CanStore(p, v),
               Write(p, v, x), UNCHANGED <<active, swap>>
        PROVE  Goal
    <2>1. CASE p \in active
      <3>1. /\ CopiesInv' /\ v \notin CodePages
            /\ \A r \in Pid, u \in Vpn :
                  Logical(r, u)' = IF r = p /\ u = v THEN x ELSE Logical(r, u)
        BY <1>4, <2>1, WriteCopies
      <3>2. mem' = [mem EXCEPT ![p][v] = x]
        BY <1>0, <3>1 DEF mem
      <3>3. Spaces!Store(p, v, x)
        BY <1>4, <2>1, <3>1, <3>2 DEF Spaces!Store, mem
      <3> QED BY <1>0, <3>1, <3>3
    <2>2. CASE p \notin active
      <3>1. ~Intrudes(p, v)
        BY <1>4 DEF Write
      <3>2. CopiesInv' /\ SameMemory
        BY <1>0, <1>4, <2>2, <3>1, OrphanCopies
      <3> QED BY <1>4, <3>2, SameMemoryStutters
    <2> QED BY <2>1, <2>2
  <1>5. ASSUME CopiesInv', SameMemory, UNCHANGED active PROVE Goal
    BY <1>5, SameMemoryStutters
  <1> HIDE DEF Goal
  <1>20. ASSUME NEW p \in Pid, Kill(p) PROVE Goal
    BY <1>1, <1>3, <1>20 DEF Kill, KillPanic, procVars
  <1>6. ASSUME NEW p \in Pid, Exit(p) PROVE Goal
    BY <1>6, <1>20 DEF Exit
  <1>7. ASSUME NEW p \in Pid, NEW n \in {-1, 1}, Sbrk(p, n) PROVE Goal
    BY <1>1, <1>7 DEF Sbrk
  <1>8. ASSUME NEW p \in Pid, NEW v \in Vpn, NEW x \in Written, Store(p, v, x)
        PROVE  Goal
    BY <1>4, <1>8 DEF Store, procVars
  <1>9. ASSUME NEW p \in Pid, NEW v \in Vpn, NEW x \in Written, CopyOut(p, v, x)
        PROVE  Goal
    <2>1. CASE CanStore(p, v)
      BY <1>4, <1>9, <2>1 DEF CopyOut, procVars
    <2>2. CASE ~CanStore(p, v)
      BY <1>1, <1>9, <2>2 DEF CopyOut, procVars
    <2> QED BY <2>1, <2>2
  <1>10. ASSUME NEW p \in Pid, NEW v \in Vpn, CopyIn(p, v) PROVE Goal
    BY <1>1, <1>10 DEF CopyIn, procVars
  <1>11. ASSUME NEW p \in Pid, NEW v \in Vpn,
                ProtectionFault(p, v) \/ SegmentationFault(p, v)
         PROVE  Goal
    BY <1>11, <1>20 DEF ProtectionFault, SegmentationFault
  <1>12. ASSUME NEW p \in Pid, NEW v \in Vpn, FaultFree(p, v) PROVE Goal
    <2>1. UNCHANGED active
      BY <1>12 DEF FaultFree, procVars
    <2> QED BY <1>5, <1>12, <2>1, FaultFreeCopies
  <1>13. ASSUME NEW p \in Pid, NEW v \in Vpn, FaultEvict(p, v) PROVE Goal
    <2>1. UNCHANGED active
      BY <1>13 DEF FaultEvict, procVars
    <2> QED BY <1>5, <1>13, <2>1, FaultEvictCopies
  <1>14. ASSUME NEW p \in Pid, NEW v \in Vpn, FaultPanic(p, v) PROVE Goal
    BY <1>1, <1>14 DEF FaultPanic, procVars
  <1>15. UNCHANGED vars => Goal
    BY <1>1 DEF vars, procVars
  <1>16. Halted => Goal
    BY <1>15 DEF Halted
  <1>17. Goal
    BY <1>2, <1>6, <1>7, <1>8, <1>9, <1>10, <1>11, <1>12, <1>13, <1>14, <1>15,
       <1>16, PageUsed, Zenon DEF Next
  <1> QED BY <1>17 DEF Goal, Spaces!Next, Spaces!vars, mem

\* Demand paging implements private memories until an orphan stores to a frame
\* of somebody else: whatever is evicted, dropped, swapped out and loaded again,
\* in whatever order the threads of live and dead processes run, each process
\* sees the memory its own stores made.
THEOREM PagingIsInvisible == ASSUME NoReuse PROVE Spec => IsolatedMemory
  <1> DEFINE J == ~intruded => CopiesInv
  <1>1. Init => J /\ Spaces!Init
    <2> SUFFICES ASSUME Init PROVE CopiesInv /\ Spaces!Init
      OBVIOUS
    <2>1. active = {}
      BY DEF Init
    <2>2. CopiesInv
      BY <2>1 DEF CopiesInv
    <2>3. \A p \in Pid, v \in Vpn : Logical(p, v) = Initial[v]
      BY <2>1, <2>2, LogicalIs DEF View
    <2> QED BY <2>1, <2>2, <2>3 DEF Spaces!Init, Spaces!NewMemory
  <1>2. Inv /\ J /\ [Next]_vars => J' /\ [~intruded' => Spaces!Next]_(Spaces!vars)
    <2> SUFFICES ASSUME Inv, J, [Next]_vars, ~intruded'
                 PROVE  CopiesInv' /\ [Spaces!Next]_(Spaces!vars)
      OBVIOUS
    <2>1. CopiesInv
      BY IntrudedStays
    <2> QED BY <2>1, StepImplements
  <1> HIDE DEF J
  <1> QED BY <1>1, <1>2, InvHolds, PTL DEF Spec, IsolatedMemory

=============================================================================
