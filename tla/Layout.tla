-------------------------------- MODULE Layout --------------------------------
(***************************************************************************)
(* The address space of a process in addresses: the segments the loader    *)
(* read, the stacks and the guard pages between them, the heap, and what a *)
(* page fault puts on a page (Common.hpp, Loader.cpp, Process.cpp,         *)
(* VirtualMemoryManager.cpp).  VirtualMemory takes these regions as given. *)
(*                                                                         *)
(* An address is a number of AddrBits bits.  A byte of the ELF file is     *)
(* named by its position in the file.  Stores are not modelled here.       *)
(***************************************************************************)
EXTENDS Integers, Sequences, FiniteSets

CONSTANTS
    AddrBits,               \* 32 in the code
    KERNEL_PAGE_SIZE,
    VIRTUAL_MEMORY_SIZE,
    MAX_THREADS,
    Files,                  \* ELF files: an entry point and segments
    Increments,             \* arguments of sbrk
    MaxPages                \* bounds the pages that are in memory at a time

\* Addr arithmetic wraps.
Addr == 0 .. 2^AddrBits - 1
Wrap(i) == i % 2^AddrBits

GUARD_PAGE_SIZE == KERNEL_PAGE_SIZE
STACK_TOP == VIRTUAL_MEMORY_SIZE
STACK_REGION_BOTTOM == VIRTUAL_MEMORY_SIZE \div 2
MAIN_STACK_SIZE == VIRTUAL_MEMORY_SIZE \div 4

\* Mutant: the stacks take the place of their guard pages.
THREAD_STACK_SIZE_NoGuard ==
    (VIRTUAL_MEMORY_SIZE \div 4) \div (MAX_THREADS - 1)

THREAD_STACK_SIZE ==
    (VIRTUAL_MEMORY_SIZE \div 4) \div (MAX_THREADS - 1) - GUARD_PAGE_SIZE

HEAP_START == VIRTUAL_MEMORY_SIZE \div 4
HEAP_MAX_LIMIT == STACK_REGION_BOTTOM

ASSUME LayoutOK ==
    /\ 2^AddrBits \in Nat
    /\ KERNEL_PAGE_SIZE \in Nat \ {0}
    /\ VIRTUAL_MEMORY_SIZE \in Nat
    /\ VIRTUAL_MEMORY_SIZE % 4 = 0
    /\ VIRTUAL_MEMORY_SIZE < 2^AddrBits
    /\ MAX_THREADS \in Nat /\ MAX_THREADS >= 2
    /\ GUARD_PAGE_SIZE <= MAIN_STACK_SIZE
    /\ THREAD_STACK_SIZE \in Nat
    /\ Increments \subseteq Int
    /\ MaxPages \in Nat

\* The sizes are numbers of pages.
ASSUME PagesOK ==
    /\ MAIN_STACK_SIZE % KERNEL_PAGE_SIZE = 0
    /\ THREAD_STACK_SIZE % KERNEL_PAGE_SIZE = 0

Segment == [vaddr: Addr, memSize: Addr, fileSize: Addr, fileOffset: Nat,
            executable: BOOLEAN]

\* What linker.ld makes: segments start on pages of their own and end below
\* the heap.  The loader relies on it without a check.
ASSUME FilesOK ==
    \A f \in Files :
        /\ f.entry \in Addr
        /\ f.segments \in Seq(Segment)
        /\ \A k \in DOMAIN f.segments :
              LET seg == f.segments[k]
              IN  /\ seg.vaddr % KERNEL_PAGE_SIZE = 0
                  /\ seg.fileSize <= seg.memSize
                  /\ seg.vaddr + seg.memSize <= HEAP_START
                  /\ \A j \in DOMAIN f.segments : j < k =>
                        LET other == f.segments[j]
                        IN  \/ other.vaddr + other.memSize <= seg.vaddr
                            \/ seg.vaddr + seg.memSize <= other.vaddr

VARIABLES
    active,
    segments,           \* what the loader read from the program headers
    stackTops,          \* stackTop of every thread of the process, by tid + 1
    nextStackBase,
    programBreak,
    pageTable           \* the pages in memory, and what was put on them

vars == <<active, segments, stackTops, nextStackBase, programBreak, pageTable>>

Garbage == -2       \* whatever the frame held
Zero == -1
Content == [0 .. KERNEL_PAGE_SIZE - 1 -> Int]

\* Every state is well formed.
TypeOK ==
    /\ active \in BOOLEAN
    /\ stackTops \in Seq(Addr) /\ Len(stackTops) <= MAX_THREADS
    /\ nextStackBase \in Addr
    /\ programBreak \in HEAP_START .. HEAP_MAX_LIMIT
    /\ pageTable \in [DOMAIN pageTable -> Content]

Init ==
    /\ active = FALSE
    /\ segments = <<>>
    /\ stackTops = <<>>
    /\ nextStackBase = STACK_TOP
    /\ programBreak = HEAP_START
    /\ pageTable = [v \in {} |-> <<>>]

-----------------------------------------------------------------------------
(***************************************************************************)
(* Threads and their stacks.                                               *)
(***************************************************************************)
Holds(seg, a) == a >= seg.vaddr /\ a < seg.vaddr + seg.memSize

IsExecutable(segs, entry) ==
    \E k \in DOMAIN segs : Holds(segs[k], entry) /\ segs[k].executable

StackSize(tid) == IF tid = 0 THEN MAIN_STACK_SIZE ELSE THREAD_STACK_SIZE

\* Where createThread leaves nextStackBase.
NextBase(top, tid) == Wrap(top - StackSize(tid) - GUARD_PAGE_SIZE)

\* Loader::loadELF into the slot of the process: recycle, the program headers,
\* and the main thread, without which the process is not active.
LoadELF(f) ==
    /\ ~active
    /\ segments' = f.segments
    /\ programBreak' = HEAP_START
    /\ pageTable' = [v \in {} |-> <<>>]
    /\ active' = IsExecutable(f.segments, f.entry)
    /\ IF active'
         THEN /\ stackTops' = <<STACK_TOP>>
              /\ nextStackBase' = NextBase(STACK_TOP, 0)
         ELSE stackTops' = <<>> /\ nextStackBase' = STACK_TOP

\* Process::createThread, called by thread_create.
CreateThread(entry) ==
    /\ active
    /\ Len(stackTops) < MAX_THREADS
    /\ IsExecutable(segments, entry)
    /\ stackTops' = Append(stackTops, nextStackBase)
    /\ nextStackBase' = NextBase(nextStackBase, Len(stackTops))
    /\ UNCHANGED <<active, segments, programBreak, pageTable>>

\* Mutants: only one of the limits is checked.
BreakRefused_Above(new) == new > HEAP_MAX_LIMIT
BreakRefused_Below(new) == new < HEAP_START

BreakRefused(new) == new < HEAP_START \/ new > HEAP_MAX_LIMIT

\* Process::sbrk.
Sbrk(increment) ==
    /\ active
    /\ LET new == Wrap(programBreak + increment)
       IN  ~BreakRefused(new) /\ programBreak' = new
    /\ UNCHANGED <<active, segments, stackTops, nextStackBase, pageTable>>

-----------------------------------------------------------------------------
(***************************************************************************)
(* Page faults.                                                            *)
(***************************************************************************)
Page(a) == a \div KERNEL_PAGE_SIZE
Tid == 0 .. Len(stackTops) - 1
Bottom(t) == Wrap(stackTops[t + 1] - StackSize(t))

\* Mutant: the guard page counts as stack.
InStack_Guard(a, t) ==
    a >= Bottom(t) - GUARD_PAGE_SIZE /\ a < stackTops[t + 1]

InStack(a, t) == a >= Bottom(t) /\ a < stackTops[t + 1]

InStackRegion(a) == a >= STACK_REGION_BOTTOM /\ a < STACK_TOP
InHeap(a) == a >= HEAP_START /\ a < programBreak

\* The reasons handlePageFault tries, in this order.
GrowsStack(a, t) == InStackRegion(a) /\ InStack(a, t)
StackGrowth(a) == \E t \in Tid : GrowsStack(a, t)

\* handleLazyLoading takes the first segment that holds the address.
IsLoaded(a, k) ==
    /\ Holds(segments[k], a)
    /\ \A j \in 1 .. k - 1 : ~Holds(segments[j], a)

Least(x, y) == IF x <= y THEN x ELSE y

\* Mutant: the page is filled from the file without regard to fileSize.
BytesToRead_Page(seg, offset) ==
    IF offset < seg.fileSize THEN KERNEL_PAGE_SIZE ELSE 0

BytesToRead(seg, offset) ==
    IF offset < seg.fileSize THEN Least(KERNEL_PAGE_SIZE, seg.fileSize - offset)
                             ELSE 0

\* The offset is computed in Addr, the position in the file in std::size_t.
FromFile(seg, v) ==
    LET offset == Wrap(v * KERNEL_PAGE_SIZE - seg.vaddr)
    IN  [o \in 0 .. KERNEL_PAGE_SIZE - 1 |->
            IF o < BytesToRead(seg, offset) THEN seg.fileOffset + offset + o
                                            ELSE Zero]

Filled(x) == [o \in 0 .. KERNEL_PAGE_SIZE - 1 |-> x]

\* The page at address a is not in memory, and c is put there.
MapPage(a, c) ==
    /\ pageTable' = [v \in DOMAIN pageTable \cup {Page(a)} |->
                        IF v = Page(a) THEN c ELSE pageTable[v]]
    /\ UNCHANGED <<active, segments, stackTops, nextStackBase, programBreak>>

HandlePageFault(a) ==
    /\ active
    /\ Page(a) \notin DOMAIN pageTable
    /\ Cardinality(DOMAIN pageTable) < MaxPages
    /\ \/ StackGrowth(a) /\ MapPage(a, Filled(Garbage))
       \/ /\ ~StackGrowth(a)
          /\ \E k \in DOMAIN segments :
                IsLoaded(a, k) /\ MapPage(a, FromFile(segments[k], Page(a)))
       \/ /\ ~StackGrowth(a)
          /\ \A k \in DOMAIN segments : ~Holds(segments[k], a)
          /\ InHeap(a)
          /\ MapPage(a, Filled(Zero))

\* The process ends; its entries stay until the slot is recycled.
Terminate ==
    /\ active
    /\ active' = FALSE
    /\ UNCHANGED <<segments, stackTops, nextStackBase, programBreak, pageTable>>

SegmentationFault(a) ==
    /\ Page(a) \notin DOMAIN pageTable
    /\ ~StackGrowth(a)
    /\ ~InHeap(a)
    /\ \A k \in DOMAIN segments : ~Holds(segments[k], a)
    /\ Terminate

\* A page that was not stored to leaves memory.
Drop(v) ==
    /\ active
    /\ pageTable' = [u \in DOMAIN pageTable \ {v} |-> pageTable[u]]
    /\ UNCHANGED <<active, segments, stackTops, nextStackBase, programBreak>>

Next ==
    \/ \E f \in Files : LoadELF(f)
    \/ \E n \in Increments : Sbrk(n)
    \/ \E v \in DOMAIN pageTable : Drop(v)
    \/ \E a \in Addr :
          \/ CreateThread(a)
          \/ HandlePageFault(a)
          \/ SegmentationFault(a)
    \/ Terminate

Spec == Init /\ [][Next]_vars

-----------------------------------------------------------------------------
(***************************************************************************)
(* Properties.                                                             *)
(***************************************************************************)
\* Every stack lies in the stack region, with a guard page between any two,
\* however many threads there are: the last one still fits.
StacksApart ==
    \A t \in Tid :
        /\ Bottom(t) >= STACK_REGION_BOTTOM
        /\ stackTops[t + 1] = Bottom(t) + StackSize(t)
        /\ stackTops[t + 1] <= STACK_TOP
        /\ \A u \in Tid : t < u => stackTops[u + 1] + GUARD_PAGE_SIZE <= Bottom(t)

\* An address belongs to one stack, one segment or the heap, so the order in
\* which page faults look for a reason does not matter.
OneReason ==
    active => \A a \in Addr :
        LET reasons == {t \in Tid : GrowsStack(a, t)}
                        \cup {k + MAX_THREADS : k \in
                                {k \in DOMAIN segments : Holds(segments[k], a)}}
                        \cup {n \in {-1} : InHeap(a)}
        IN  Cardinality(reasons) <= 1

\* "Safety gap between stacks": no page is ever put below a stack that has
\* another one below it, so running over a stack ends the process.
GuardsUnmapped ==
    active => \A t \in Tid : t < MAX_THREADS - 1 =>
        \A o \in 1 .. GUARD_PAGE_SIZE : Page(Bottom(t) - o) \notin DOMAIN pageTable

\* A segment's pages hold what the ELF file says: its bytes up to fileSize,
\* zeros up to memSize.
ImageLoaded ==
    active => \A k \in DOMAIN segments, v \in DOMAIN pageTable :
        \A o \in 0 .. KERNEL_PAGE_SIZE - 1 :
            LET seg == segments[k]
                rel == v * KERNEL_PAGE_SIZE + o - seg.vaddr
            IN  rel \in 0 .. seg.memSize - 1 =>
                    pageTable[v][o] = IF rel < seg.fileSize
                                        THEN seg.fileOffset + rel ELSE Zero
=============================================================================
