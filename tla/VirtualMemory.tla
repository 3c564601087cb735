---------------------------- MODULE VirtualMemory ----------------------------
(***************************************************************************)
(* Demand paging of rv32umos: the MMU, page faults, frame allocation, FIFO *)
(* replacement and swap (memory/, MMU.cpp), and what the life of a process *)
(* does to its memory (Process.cpp).                                       *)
(*                                                                         *)
(* One action is one instruction or kernel access that touches memory, or  *)
(* one step in the life of a process.  Any process may run next:           *)
(* who does is decided in module Kernel.  A page is the unit of content; a *)
(* store replaces the content of the page.                                 *)
(*                                                                         *)
(* No access asks whether the process is still active.  A thread that      *)
(* Process::terminate left behind (an orphan, see NoOrphanThread in module *)
(* Kernel) goes on with the page table of its dead process.                *)
(***************************************************************************)
EXTENDS Integers, Sequences, FiniteSets

CONSTANTS
    MAX_PROCESS,            \* slots of processList
    NumFrames,              \* frames of physical memory
    NumSlots,               \* NUM_SWAP_BLOCKS
    CodePages, DataPages,   \* pages of the read-only and writable segments
    Image,                  \* Image[v]: what the ELF file has for page v
    StackPages,             \* pages inside the stack of some thread
    HEAP_START, HEAP_MAX,   \* the heap is HEAP_START .. HEAP_MAX - 1
    Uses,                   \* Uses[p]: pages the programs in slot p access
    Written,                \* contents that programs store
    Workload                \* "reuse": slots are reused; "copy": copies are judged

Pid == 0 .. MAX_PROCESS - 1
Frame == 0 .. NumFrames - 1
Slot == 0 .. NumSlots - 1
HeapPages == HEAP_START .. HEAP_MAX - 1
Segments == CodePages \cup DataPages
Vpn == Segments \cup StackPages \cup HeapPages
Zero == 0

ASSUME LayoutOK ==
    /\ MAX_PROCESS \in Nat \ {0}
    /\ NumFrames \in Nat \ {0}
    /\ NumSlots \in Nat
    /\ HEAP_START \in Nat
    /\ HEAP_MAX \in Nat
    /\ HEAP_START <= HEAP_MAX
    /\ CodePages \cap DataPages = {}
    /\ Segments \cap (StackPages \cup HeapPages) = {}
    /\ StackPages \cap HeapPages = {}
    /\ IsFiniteSet(Segments) /\ IsFiniteSet(StackPages)
    /\ Image \in [Segments -> Nat]
    /\ Uses \in [Pid -> SUBSET Vpn]
    /\ Written \subseteq Nat
    /\ Workload \subseteq {"reuse", "copy"}

Content == {Zero} \cup Written \cup {Image[v] : v \in Segments}

VARIABLES
    status,         \* "running" or the reason of a PANIC
    active,         \* processes that are active
    started,        \* processes that have been active: they have threads
    programBreak,   \* first page above the heap, per process
    pageTable,      \* pageTable[p][v]: a PTE
    freeFrames,     \* stack of free frames
    frameTable,     \* FrameInfo of every frame
    queue,          \* queue of FIFOPolicy, stale entries included
    ram,            \* content of every frame
    swap,           \* allocationMap and content of every swap slot
    exact,          \* history: kernel copies from and to memory were right
    intruded        \* history: an orphan has stored to a frame of a process

procVars == <<active, started, programBreak>>
frameVars == <<freeFrames, frameTable, queue>>
history == <<exact, intruded>>
vars == <<status, procVars, pageTable, frameVars, ram, swap, history>>

\* ppn is a frame, or the swap slot while the page is swapped out.
PTE == [ppn: Nat, valid: BOOLEAN, dirty: BOOLEAN, swapped: BOOLEAN,
        canWrite: BOOLEAN]
NoPTE == [ppn |-> 0, valid |-> FALSE, dirty |-> FALSE, swapped |-> FALSE,
          canWrite |-> FALSE]
NoPages == [v \in Vpn |-> NoPTE]

FrameInfo == [allocated: {TRUE}, ownerPid: Pid, vpn: Vpn] \cup
             [allocated: {FALSE}]
FreeFrame == [allocated |-> FALSE]

\* Every state is well formed.
TypeOK ==
    /\ status \in {"running", "no victim", "swap full", "not active"}
    /\ active \in SUBSET Pid
    /\ started \in SUBSET Pid
    /\ programBreak \in [Pid -> HEAP_START .. HEAP_MAX]
    /\ pageTable \in [Pid -> [Vpn -> PTE]]
    /\ freeFrames \in Seq(Frame)
    /\ frameTable \in [Frame -> FrameInfo]
    /\ queue \in Seq(Frame)
    /\ ram \in [Frame -> Content]
    /\ swap \in [Slot -> [used: BOOLEAN, data: Content]]
    /\ exact \in BOOLEAN
    /\ intruded \in BOOLEAN

\* PhysicalMemoryManager::init pushes the frames in order; RAM is zeroed.
Init ==
    /\ status = "running"
    /\ active = {}
    /\ started = {}
    /\ programBreak = [p \in Pid |-> HEAP_START]
    /\ pageTable = [p \in Pid |-> NoPages]
    /\ freeFrames = [k \in 1 .. NumFrames |-> k - 1]
    /\ frameTable = [f \in Frame |-> FreeFrame]
    /\ queue = <<>>
    /\ ram = [f \in Frame |-> Zero]
    /\ swap = [s \in Slot |-> [used |-> FALSE, data |-> Zero]]
    /\ exact = TRUE
    /\ intruded = FALSE

\* A thread of p runs: of the process, or an orphan of it.
Running(p) == status = "running" /\ p \in started

-----------------------------------------------------------------------------
(***************************************************************************)
(* Process life.                                                           *)
(***************************************************************************)
\* Mutant: frames are given back for swapped-out pages as well.
ValidPages_Swapped(p) ==
    {v \in Vpn : pageTable[p][v].valid \/ pageTable[p][v].swapped}

ValidPages(p) == {v \in Vpn : pageTable[p][v].valid}

\* unordered_map visits the page table in no particular order.
Orders(S) ==
    {s \in [1 .. Cardinality(S) -> S] : \A i, j \in DOMAIN s : s[i] = s[j] => i = j}

\* Process::wipeMemory: the frame of every valid entry goes back to the free
\* list; the entries stay as they are.
WipeMemory(p) ==
    /\ \E order \in Orders(ValidPages(p)) :
          freeFrames' = freeFrames \o
              [k \in DOMAIN order |-> pageTable[p][order[k]].ppn]
    /\ frameTable' = [f \in Frame |->
          IF \E v \in ValidPages(p) : pageTable[p][v].ppn = f
            THEN FreeFrame ELSE frameTable[f]]

\* Process::terminate, the memory part.
Terminate(p) ==
    /\ p \in active
    /\ WipeMemory(p)
    /\ active' = active \ {p}
    /\ UNCHANGED <<status, started, programBreak, pageTable, queue, ram, swap,
                   history>>

\* A process that is not active cannot be terminated: its killer panics.
KillPanic(p) ==
    /\ p \notin active
    /\ status' = "not active"
    /\ UNCHANGED <<procVars, pageTable, frameVars, ram, swap, history>>

Kill(p) == Terminate(p) \/ KillPanic(p)

\* exit(), or a system call that kills the process of its caller.
Exit(p) ==
    /\ Running(p)
    /\ Kill(p)

\* Process::recycle for a new program in slot p: memory is wiped once more,
\* then the page table is cleared.  The slot stays inactive when loadELF then
\* cannot create the main thread.
Recycle(p) ==
    /\ status = "running"
    /\ p \notin active
    /\ "reuse" \in Workload \/ pageTable[p] = NoPages
    /\ WipeMemory(p)
    /\ pageTable' = [pageTable EXCEPT ![p] = NoPages]
    /\ programBreak' = [programBreak EXCEPT ![p] = HEAP_START]
    /\ active' \in {active, active \cup {p}}
    /\ started' = started \cup active'
    /\ UNCHANGED <<status, queue, ram, swap, history>>

\* Mutant: the limit is off by one.
BreakAllowed_OffByOne(b) == b \in HEAP_START .. HEAP_MAX + 1

BreakAllowed(b) == b \in HEAP_START .. HEAP_MAX

\* Process::sbrk; a break outside the heap is refused.
Sbrk(p, n) ==
    /\ Running(p)
    /\ BreakAllowed(programBreak[p] + n)
    /\ programBreak' = [programBreak EXCEPT ![p] = @ + n]
    /\ UNCHANGED <<status, active, started, pageTable, frameVars, ram, swap,
                   history>>

-----------------------------------------------------------------------------
(***************************************************************************)
(* Accesses the MMU translates.  A load or fetch that succeeds changes     *)
(* nothing.                                                                *)
(***************************************************************************)
\* An orphan's entry is stale: an active process has a page in the frame.
Intrudes(p, v) ==
    /\ p \notin active
    /\ \E q \in active, w \in Vpn :
          /\ pageTable[q][w].valid
          /\ pageTable[q][w].ppn = pageTable[p][v].ppn

Write(p, v, x) ==
    /\ ram' = [ram EXCEPT ![pageTable[p][v].ppn] = x]
    /\ pageTable' = [pageTable EXCEPT ![p][v].dirty = TRUE]
    /\ intruded' = (intruded \/ Intrudes(p, v))

CanStore(p, v) == pageTable[p][v].valid /\ pageTable[p][v].canWrite

Store(p, v, x) ==
    /\ Running(p)
    /\ CanStore(p, v)
    /\ Write(p, v, x)
    /\ UNCHANGED <<status, procVars, frameVars, swap, exact>>

\* An access the entry does not allow; every page lacks a permission.
ProtectionFault(p, v) ==
    /\ Running(p)
    /\ pageTable[p][v].valid
    /\ Kill(p)

-----------------------------------------------------------------------------
(***************************************************************************)
(* Page faults.  f is the frame given to the page, pt and sw are the page  *)
(* tables and the swap as an eviction left them.                           *)
(***************************************************************************)
Mapped(old, f, writable) ==
    [old EXCEPT !.ppn = f, !.valid = TRUE, !.canWrite = writable]

\* Mutant: the slot of a page that was swapped in stays taken.
Released_Not(sw, slot) == sw

Released(sw, slot) == [sw EXCEPT ![slot].used = FALSE]

SwapIn(p, v, f, pt, sw) ==
    LET slot == pt[p][v].ppn
    IN  /\ ram' = [ram EXCEPT ![f] = sw[slot].data]
        /\ swap' = Released(sw, slot)
        /\ pageTable' = [pt EXCEPT ![p][v].ppn = f, ![p][v].valid = TRUE,
                                   ![p][v].dirty = FALSE]

\* A stack page is handed out with whatever the frame held.
StackGrowth(p, v, f, pt, sw) ==
    /\ v \in StackPages
    /\ pageTable' = [pt EXCEPT ![p][v] = Mapped(@, f, TRUE)]
    /\ swap' = sw
    /\ UNCHANGED ram

LazyLoading(p, v, f, pt, sw) ==
    /\ v \in Segments
    /\ ram' = [ram EXCEPT ![f] = Image[v]]
    /\ pageTable' = [pt EXCEPT ![p][v] = Mapped(@, f, v \in DataPages)]
    /\ swap' = sw

HeapGrowth(p, v, f, pt, sw) ==
    /\ v \in HeapPages
    /\ ram' = [ram EXCEPT ![f] = Zero]
    /\ pageTable' = [pt EXCEPT ![p][v] = Mapped(@, f, TRUE)]
    /\ swap' = sw

Resolve(p, v, f, pt, sw) ==
    IF pageTable[p][v].swapped
      THEN SwapIn(p, v, f, pt, sw)
      ELSE \/ StackGrowth(p, v, f, pt, sw)
           \/ LazyLoading(p, v, f, pt, sw)
           \/ HeapGrowth(p, v, f, pt, sw)

\* handlePageFault finds a reason to give the page a frame.
Legal(p, v) == pageTable[p][v].swapped \/ v \notin HeapPages \/ v < programBreak[p]

\* Mutant: the page replacement policy is not told.
Register_NotQueued(p, v, f, rest) ==
    /\ frameTable' = [frameTable EXCEPT ![f] =
                        [allocated |-> TRUE, ownerPid |-> p, vpn |-> v]]
    /\ queue' = rest

\* registerFrameOwner and onAllocate, with rest left of the FIFO queue.
Register(p, v, f, rest) ==
    /\ frameTable' = [frameTable EXCEPT ![f] =
                        [allocated |-> TRUE, ownerPid |-> p, vpn |-> v]]
    /\ queue' = Append(rest, f)

\* Mutant: an entry that is valid is not taken for a protection fault.
Faulting_AnyEntry(p, v) ==
    /\ Running(p)
    /\ Legal(p, v)

Faulting(p, v) ==
    /\ Running(p)
    /\ ~pageTable[p][v].valid
    /\ Legal(p, v)

FaultFree(p, v) ==
    /\ Faulting(p, v)
    /\ freeFrames # <<>>
    /\ LET f == freeFrames[Len(freeFrames)]
       IN  /\ freeFrames' = SubSeq(freeFrames, 1, Len(freeFrames) - 1)
           /\ Register(p, v, f, queue)
           /\ Resolve(p, v, f, pageTable, swap)
    /\ UNCHANGED <<status, procVars, history>>

\* findVictim: the first frame in the queue that is still allocated.
Victim(k) ==
    /\ frameTable[queue[k]].allocated
    /\ \A j \in 1 .. k - 1 : ~frameTable[queue[j]].allocated

\* Mutant: a page swapped in and not stored to since counts as clean.
Droppable_IfClean(pte) == ~pte.canWrite \/ ~pte.dirty

\* A page that can be loaded again is dropped, any other goes to swap.
Droppable(pte) == ~pte.canWrite \/ (~pte.dirty /\ ~pte.swapped)

\* swapOut takes the first slot that is not in use.
FirstFree(s) == ~swap[s].used /\ \A r \in Slot : r < s => swap[r].used

\* Mutant: the entry of the evicted page stays valid.
SwappedOut_Valid(old, s) == [old EXCEPT !.swapped = TRUE, !.dirty = FALSE]

SwappedOut(old, s) ==
    [old EXCEPT !.ppn = s, !.valid = FALSE, !.swapped = TRUE, !.dirty = FALSE]

DroppedPTE(old) ==
    [old EXCEPT !.ppn = 0, !.valid = FALSE, !.swapped = FALSE]

\* RAM is full: the victim gives its frame to the faulting page.
FaultEvict(p, v) ==
    /\ Faulting(p, v)
    /\ freeFrames = <<>>
    /\ \E k \in DOMAIN queue :
          /\ Victim(k)
          /\ LET f == queue[k]
                 q == frameTable[f].ownerPid
                 w == frameTable[f].vpn
                 old == pageTable[q][w]
             IN  /\ Register(p, v, f, SubSeq(queue, k + 1, Len(queue)))
                 /\ \/ /\ Droppable(old)
                       /\ Resolve(p, v, f,
                                  [pageTable EXCEPT ![q][w] = DroppedPTE(old)],
                                  swap)
                    \/ /\ ~Droppable(old)
                       /\ \E s \in Slot :
                             /\ FirstFree(s)
                             /\ Resolve(p, v, f,
                                  [pageTable EXCEPT ![q][w] = SwappedOut(old, s)],
                                  [swap EXCEPT ![s] = [used |-> TRUE,
                                                       data |-> ram[f]]])
    /\ UNCHANGED <<status, procVars, freeFrames, history>>

\* evictPage panics: no victim, or a victim that must be swapped out and no
\* slot for it.
FaultPanic(p, v) ==
    /\ Faulting(p, v)
    /\ freeFrames = <<>>
    /\ LET victims == {queue[k] : k \in {k \in DOMAIN queue : Victim(k)}}
       IN  /\ \A f \in victims :
                 ~Droppable(pageTable[frameTable[f].ownerPid][frameTable[f].vpn])
           /\ victims # {} => \A s \in Slot : swap[s].used
           /\ status' = IF victims = {} THEN "no victim" ELSE "swap full"
    /\ UNCHANGED <<procVars, pageTable, frameVars, ram, swap, history>>

\* No reason: the process is killed.
SegmentationFault(p, v) ==
    /\ Running(p)
    /\ ~pageTable[p][v].valid
    /\ ~Legal(p, v)
    /\ Kill(p)

-----------------------------------------------------------------------------
(***************************************************************************)
(* The kernel's own accesses.  A system call that meets a page fault loses *)
(* it: the trap is cleared before the next instruction and nobody retries. *)
(***************************************************************************)
Undef == -1

\* What a page holds from the program's point of view.  A stack page nobody
\* has stored to holds nothing a program may rely on, and a dead process has
\* the memory its successor starts with.
Logical(p, v) ==
    LET pte == pageTable[p][v]
    IN  IF p \notin active \/ (~pte.valid /\ ~pte.swapped)
             \/ (v \in StackPages /\ ~pte.dirty /\ ~pte.swapped)
          THEN IF v \in Segments THEN Image[v]
               ELSE IF v \in HeapPages THEN Zero ELSE Undef
          ELSE IF pte.valid THEN ram[pte.ppn] ELSE swap[pte.ppn].data

\* What an orphan copies is not judged: it has no memory of its own.
Judged(p) == "copy" \in Workload /\ p \in active

\* read(), and the status word of join_process: bytes go to user memory.  A
\* page that may not be written is the program's mistake.
CopyOut(p, v, x) ==
    /\ Running(p)
    /\ IF CanStore(p, v)
         THEN Write(p, v, x) /\ UNCHANGED exact
         ELSE /\ UNCHANGED <<ram, pageTable, intruded>>
              /\ exact' = (exact /\ (Judged(p) =>
                                       ~(Legal(p, v) /\ v \notin CodePages)))
    /\ UNCHANGED <<status, procVars, frameVars, swap>>

\* write(), and the names given to open, create and create_process: bytes
\* come from user memory, zeros in place of a page that is not there.
CopyIn(p, v) ==
    /\ Running(p)
    /\ LET got == IF pageTable[p][v].valid THEN ram[pageTable[p][v].ppn]
                                           ELSE Zero
       IN  exact' = (exact /\ (Judged(p) => Logical(p, v) \in {got, Undef}))
    /\ UNCHANGED <<status, procVars, pageTable, frameVars, ram, swap, intruded>>

\* After a PANIC, or once all processes have ended and left no thread.
Halted ==
    /\ status # "running" \/ active = {}
    /\ UNCHANGED vars

Next ==
    \/ \E p \in Pid :
          \/ Recycle(p)
          \/ Exit(p)
          \/ Uses[p] \cap HeapPages # {} /\ \E n \in {-1, 1} : Sbrk(p, n)
          \/ \E v \in Uses[p] :
                \/ \E x \in Written : Store(p, v, x) \/ CopyOut(p, v, x)
                \/ CopyIn(p, v)
                \/ ProtectionFault(p, v)
                \/ FaultFree(p, v)
                \/ FaultEvict(p, v)
                \/ FaultPanic(p, v)
                \/ SegmentationFault(p, v)
    \/ Halted

Spec == Init /\ [][Next]_vars
-----------------------------------------------------------------------------
(***************************************************************************)
(* Properties.  Orphans run in all of them.  TypeOK, OwnerHasPage and      *)
(* EvictionFindsVictim hold for every workload; OwnsFrame,                 *)
(* FramesAccounted, SwapAccounted and IsolatedMemory only while no process *)
(* slot is reused.                                                         *)
(***************************************************************************)
\* A page of an active process that is in memory owns its frame: the frame
\* table, which eviction trusts, names this process and this page.  So no
\* two pages of active processes share a frame.
OwnsFrame ==
    \A p \in active, v \in Vpn : pageTable[p][v].valid =>
        frameTable[pageTable[p][v].ppn] =
            [allocated |-> TRUE, ownerPid |-> p, vpn |-> v]

\* Each frame is either allocated or on the free list, once.
FramesAccounted ==
    /\ \A i, j \in DOMAIN freeFrames : freeFrames[i] = freeFrames[j] => i = j
    /\ \A f \in Frame : frameTable[f].allocated
                          <=> f \notin {freeFrames[i] : i \in DOMAIN freeFrames}

\* A frame that is in use is in use by its owner, which has the page in this
\* frame, so evicting that page empties the frame.  This is so even where the
\* reuse of a slot has put other pages there too, and where the owner is dead
\* and an orphan of it faulted.
OwnerHasPage ==
    \A f \in Frame : frameTable[f].allocated =>
        LET owned == pageTable[frameTable[f].ownerPid][frameTable[f].vpn]
        IN  owned.valid /\ owned.ppn = f

\* With memory full the FIFO queue always yields a victim, although it keeps
\* entries of frames that were freed behind its back.
EvictionFindsVictim == status # "no victim"

\* A swap slot is in use exactly while one page is swapped out to it.
SwapAccounted ==
    \A s \in Slot :
        LET pte(u) == pageTable[u[1]][u[2]]
            users == {u \in Pid \X Vpn :
                         pte(u).swapped /\ ~pte(u).valid /\ pte(u).ppn = s}
        IN  Cardinality(users) = IF swap[s].used THEN 1 ELSE 0

\* Paging is invisible: whatever is evicted, dropped, swapped and loaded
\* again, by orphans too, every process sees the memory its own stores made.
\* This ends where an orphan stores through an entry that wipeMemory left
\* valid, to a frame that an active process has got since: every step up to
\* then implements AddressSpaces.
Initial ==
    [v \in Vpn |-> IF v \in Segments THEN Image[v]
                   ELSE IF v \in HeapPages THEN Zero ELSE Undef]

Spaces == INSTANCE AddressSpaces WITH
    Proc <- Pid, Page <- Vpn, Writable <- Vpn \ CodePages, alive <- active,
    mem <- [p \in Pid |-> [v \in Vpn |-> Logical(p, v)]]

IsolatedMemory ==
    /\ Spaces!Init
    /\ [][~intruded' => Spaces!Next]_(Spaces!vars)

(***************************************************************************)
(* What the code does not keep.                                            *)
(***************************************************************************)
\* "give back physical mem": a frame that was given back is given to one
\* page only.
NoSharedFrame ==
    \A p, q \in active, v, w \in Vpn :
        /\ pageTable[p][v].valid
        /\ pageTable[q][w].valid
        /\ pageTable[p][v].ppn = pageTable[q][w].ppn
        => p = q /\ v = w

\* "Copy back to User VM": what a system call reports to have copied from or
\* to user memory is what user memory holds.
CopiesAreExact == exact

=============================================================================
