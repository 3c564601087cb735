# rv32umos in TLA+

TLA+ models of the operating system simulator rv32umos: its kernel, its memory,
its file system and its CPU, checked with TLC and in part proved with TLAPS.

## The system

rv32umos runs RISC-V ELF programs on a simulated CPU.  There is one host
thread: `RV32UMOS::start()` executes one instruction of the current user
thread, serves the trap it raised and calls the scheduler when the thread
stopped or its quantum of instructions ended.  Concurrency is the interleaving
of user threads that this loop produces.  System calls run to completion, so a
call is atomic; what is hard is what happens between the calls of different
threads, and the state that is left behind for later calls.

| Component | State | Operations | What makes it correct |
|---|---|---|---|
| Main loop (`RV32UMOS.cpp`, `main.cpp`) | ticks | load programs, start, one iteration | gives up only when nobody can run; nobody starves |
| Kernel (`kernel/`) | – | serve a system call or page fault, kill, panic | never terminates an inactive process |
| Scheduler (`scheduler/`) | current thread | preempt, context switch | a thread runs in its own address space and keeps its registers |
| Threads (`thread/`) | state, context, joiner, exit code | create, exit, join | no lost or stray wake-up; death is final |
| Mutex (`sync/`) | locked, owner, wait queue | acquire, release | changes hands only through its owner; waiters are woken |
| Processes, loader (`process/`) | slots, threads, mutexes, exit codes, waiters | load, recycle, terminate, join | nothing of a process outlives it; a join answers for the right process |
| Address space (`Process.cpp`, `Common.hpp`, the fault handlers of `VirtualMemoryManager.cpp`) | segments, stacks, break | create a thread, sbrk, decide what a fault address belongs to | an address belongs to one thing; guard pages stay unmapped; pages hold what the ELF file says |
| Memory (`memory/`, `MMU.cpp`) | page tables, free frames, frame table, FIFO queue, swap | page fault, eviction, swap in and out | a frame has one owner; paging is invisible to programs |
| File system, disk (`filesystem/`, `disk/`) | file table, bump pointer, cursors, blocks | create, open, read, write, close | files do not overlap each other or swap |
| CPU (`rv32vm/`) | registers, pc, trap | fetch, translate, decode, execute | the RV32IM semantics, whatever faults on the way |

Interactions: the loop calls the kernel with the CPU's trap; system calls
change thread states, which the loop reads to decide whether to preempt; a
thread's exit or a process's termination writes into the saved context or the
state of other threads; a page fault of one process may take the frame of
another one; the kernel reads and writes user memory through the MMU of the
current thread; swap and files share the disk.

The hazards, each at its line, are listed in `PROJECT.json`.

## Modules

| Module | What it is |
|---|---|
| `Kernel` | processes, threads, scheduler, mutexes, thread and process join |
| `KernelProof` | TLAPS proofs about `Kernel`: types, address spaces, mutexes, registrations |
| `KernelWaitProof` | TLAPS proofs about `Kernel`: stalls, orphans, no lost wake-up, one registration per thread, thread ids |
| `Induction` | induction over the naturals, and what it gives for loops |
| `MCKernel` | workloads of `Kernel` for TLC |
| `VirtualMemory` | MMU, page faults, frames, replacement, swap, memory of a process |
| `VirtualMemoryProof` | TLAPS proofs about `VirtualMemory` |
| `AddressSpaces` | what memory promises: every process has a memory of its own |
| `MCVirtualMemory` | the program image for TLC |
| `FileSystem` | file table, block allocator, handles, descriptor tables, disk, swap area |
| `FileSystemProof` | TLAPS proofs about `FileSystem` |
| `FileStore` | what files promise: fixed arrays of bytes and positions in them |
| `MCFileSystem` | the evicted page and the symmetry for TLC |
| `Layout` | the address space in addresses: segments, stacks, guard pages, heap, what a fault maps |
| `LayoutProof` | TLAPS proofs about `Layout` |
| `MCLayout` | ELF files for TLC |
| `Words` | words as numbers: wrapping, sign, bits |
| `WordsProof` | TLAPS proofs about `Words`: powers of two, sums over bits and bytes, the number a bit pattern stands for, arithmetic modulo the word size |
| `Assembly` | instructions as they are written, and the words the toolchain makes of them |
| `Machine` | decoder, executors, registers, MMU, memory device, page faults of one thread |
| `MachineProof` | TLAPS proofs about `Machine`: decoding, well-formed states, refinement of `ISA` |
| `ISA` | what the CPU promises: the instructions of RV32IM executed one by one on one flat memory |
| `MCMachine` | programs, operands and a program image for TLC |

### Kernel

A Thread object is its position in `activeThreads`, which only grows.  The
fields of TCB, PCB and ProcessManager are one variable each, with the code's
names; `cpu` is the pc and a0 of the Machine, `currentTable` the process whose
page table the MMU uses.  `status` tells where the simulator is: booting,
running, or stopped (all terminated, stalled, aborted at boot, panic, unknown
system call, illegal instruction).

Every action is one iteration of the loop: the handler of the system call, then
`EndOfInstruction`, which counts the tick and calls `Preempt` under the loop's
conditions.  Handlers hand over the thread states, saved contexts and registers
as they leave them, and the scheduler works on those.  `LoadApplication` and
`Start` are `main()` up to the loop; `Reschedule` and `LoopEnds` are the
iterations that execute nothing.

User programs are arbitrary: at each instruction a thread may make any call in
`Calls` with any argument, compute, fault, or crash.  A thread that was
suspended (a blocked lock or join) sits on its ecall and executes it again.
When its process has been terminated in the meantime its code pages may hold
anything, and so does the model (`Orphan`).  Data is abstracted: a program
counter is an ecall to be repeated or "past the last one", an ELF file is one
of the three outcomes of `loadELF`, a mutex's queue is a set because release
wakes all of it.  The duplicates `processWaiters` might hold are merged for the
same reason.  Calls on files and sbrk only return a value as far as this module
is concerned.

### VirtualMemory

Pages are the unit: a store replaces the content of its page.  A page table
entry has the code's fields except `referenced`, which no policy reads, and the
read and execute permissions, which only matter for `ProtectionFault`.  Which
process runs is left open: `Running(p)` holds of every process that has been
active.  Neither `MMU::translate` nor `handlePageFault` nor a system call asks
whether it still is, so the orphans that `kernel_orphan` shows run here as well:
they go on with the page table of their dead process, whose entries `wipeMemory`
left valid, and take frames in its name.  Only killing them differs (`Kill`): a
process that is not active cannot be terminated, and the kernel panics.  The
actions are an access that
the MMU lets through (`Store`), the page faults (`FaultFree` with a free frame,
`FaultEvict` with an eviction, `FaultPanic` where `evictPage` panics,
`SegmentationFault`, `ProtectionFault`), the life of a process (`Recycle`,
`Exit`, `Sbrk`) and kernel copies from and to user memory (`CopyIn`,
`CopyOut`).  `wipeMemory` visits an `unordered_map`, so the order in which
frames return to the free list is nondeterministic.  The constant `Workload`
says whether slots are reused and whether what the kernel copies is judged
(`exact`): properties fail in both cases (see below), so the run that shows what
does hold leaves both out; it has the copies themselves.  `Uses` says which pages
the programs in a slot access, which keeps the instance of two processes small;
programs that use no heap do not move the break either.  Each process maps its
program anew.

`IsolatedMemory` is refinement: under the mapping `Logical` (a page's content is
in its frame, in its swap slot, in the ELF file, or zero) every step of
`VirtualMemory` is one of `AddressSpaces`, up to the point where an orphan writes
through an entry left valid to a frame an active process has got since
(`Intrudes`; the history variable `intruded` remembers it).  From there on it is
false of the code: the process that has got the frame finds in it what the orphan
of the frame's former owner stored.  No other property of the module needs the
condition, nor asks whether the process that runs is alive.

### FileSystem

One disk serves files from its first block on and swap in its last
`NUM_SWAP_BLOCKS` blocks.  `fileTable`, `freeBlockPointer`, `fdTable`, `disk` and
`allocationMap` are the code's; `result` is what the last system call returned
and, for read, the bytes it delivered.  `Open`, `Close`, `Create`, `Read` and
`Write` are the five system calls with their refusals; `Recycle` is the part of
`Process::recycle` that closes descriptors (those from 3 on: a slot's first
three stay as its former process left them); `swapOut` and `swapIn` are the
memory manager's use of the disk.  The loops of `DiskFileHandle` are functions
of the number of turns taken (`ReadLoop`, `WriteLoop`; a turn is `ReadTurn`,
`WriteTurn`): block by block, with the block read before a part of it is
overwritten.  File names are model values, the
host's side of the console is not modelled.  `removeFile`, `seek` and `reset`
exist in the code but nothing calls them.

`FilesAreByteArrays` is refinement: with a file's bytes read from its blocks
(`Bytes`), every call is a call of `FileStore`, in which there are no blocks.
A process and the orphans of `Kernel` are alike here: whoever runs in the slot
uses its table.

### Layout

`VirtualMemory` takes as given which pages are stack, heap and segment; `Layout`
is where that comes from.  The constants of `Common.hpp` are definitions over
the same parameters, and addresses wrap as `Addr` does.  `LoadELF` reads the
segments and makes the main thread if the entry point is in an executable one,
`CreateThread` takes the next stack, `Sbrk` moves the break or refuses to, and
`HandlePageFault` tries stack, segments and heap in the code's order and fills
the page.  A byte of the file is named by its position in it, so `ImageLoaded`
sees a wrong offset, a wrong length and a missing zero.  Pages only come and go
(`Drop`); their frames, stores to them and swap are `VirtualMemory`'s.

The segments are those the project's `linker.ld` makes (`FilesOK`): they start on
page boundaries, end below `HEAP_START` and do not overlap.  `PagesOK` says that
the stack sizes `Common.hpp` computes are whole pages.  TLC checks both
assumptions for its instance.  A segment that starts inside a page gets
a negative, hence huge, offset for its first page, which then is all zeros.

### Machine

One thread runs on the CPU; the rest of the system is what the page faults and
the answers of system calls make visible of it.  `Machine` fetches the
word at pc through the MMU, takes it apart as `Decoder.cpp` does, all 32 bits
of it, picks the executor as `Machine::execute` does, and executes.
`FetchFault` and an executor whose access faults leave a trap, which
`HandlePageFault` serves with a frame (the first in the queue when none is
free) and `KillProcess` answers with the end of the process; the instruction is
then executed from the start.  `HandleSyscall` writes a0 and advances pc,
leaves both (a call that blocks and is made again), or ends the process.

`ISA` is the reference definition: the same state without decoder, MMU, frames
and traps.  `ExecutesISA` is refinement, with the memory of `ISA` read from
frames, swap and ELF file.  An instruction's result is an integer in `ISA`, cut
down to a word when it is written; `Machine` has the cases of `Executor.cpp`:
division by zero and of the smallest integer by -1, quotients and signs, the pc
of a jump that the loop advances once more.  `ISA` follows the code in that a
load into x0 is not even attempted.

Two things are smaller than in the code.  Registers and bytes are narrower
(`ByteBits`, `ShamtBits`), while instruction words keep their 32 bits, so that
`DecodesAsWritten` sees every register field and every bit of an immediate.  And
what the thread executes is a sequence given in advance (`stream`): the word the
CPU fetches is the encoding (`Encode`, the external toolchain) of the next
instruction of the stream.  A jump changes pc but not what comes next; self-modifying code
is not covered.

## Runs

| Run | Instance | Result |
|---|---|---|
| `kernel_threads` | 1 process, 3 threads, 1 mutex | blocked threads are registered with what wakes them, wake-ups hit only blocked threads, death is final, mutexes change hands through their owner, contexts are kept, tids stay unique |
| `kernel_processes` | 2 slots, 1 thread each, 4 thread objects | the same for process join, across slot reuse; no orphans, no panic |
| `kernel_groups` | 2 slots, 2 threads each, 3 thread objects | well-formed states, own address space, a stall is a deadlock, a thread waits for one thing at a time, no READY thread starves; orphans occur here |
| `vm_paging` | 2 processes and their orphans: one with data and heap, one with data and stack, 2 frames, 2 slots, kernel copies | a victim is found, frames have one owner, which has the page that eviction takes, slots are accounted for, refinement up to an orphan's intrusion |
| `layout` | 3 ELF files, 5 threads, addresses of 8 bits, pages of 4 bytes | stacks, segments and heap keep apart, guard pages stay unmapped, pages hold the image |
| `machine` | 12799 programs of up to 4 instructions, 5 pages, 2 frames, words of 8 bits | decoding, refinement of `ISA`, every instruction ends |
| `files` | 2 names, 2 descriptors, 5 blocks of 2 bytes, 1 of them swap | files keep apart, refinement; pages swapped out keep their content |

The bounds: the quantum is 2, so both a preempting and a non-preempting
instruction occur everywhere.  Three threads are the least for which two wait
for a third and for which the circular search has a choice; four thread objects
in two slots let a slot be reused twice.  Two frames for four pages make every
second access an eviction, and two slots make swap run full; each process can
evict the other's pages, and so can their orphans.  No code page is among the
four (the permission to write is the only difference between the two kinds of
segment pages here); code pages are loaded and dropped in `machine` and
`layout`, and are in what is proved.  `MaxActive` and
`MaxMutex` bound what the code leaves unbounded; they cut a behaviour off only
where a program would create one more object.

In `files` a file has no, 3 or (refused) 11 bytes, so
that a file ends inside a block and transfers of 2 bytes start inside a block,
cross into the next one and are cut at the end of the file; two descriptors may
be on one file, and closing the console frees its descriptor.  Two such files
end before the swap block; files that reach it are the subject of `files_swap`.
Names are interchangeable (symmetry).

`layout` has every address, all threads `MAX_THREADS` allows and increments of
sbrk that stay in the heap, cross its end, go below its start and wrap around
the address space.  One page is in memory at a time (`MaxPages`): no property
relates two of them.  With 128 bytes, pages of 4 and five threads, the sizes
divide as they do in `Common.hpp`, where the last stack ends exactly at the end
of its region.  One file has a segment with zeros behind its bytes, one fills
everything below the heap, one has its entry point in data.

`machine` runs every instruction on operands around 0, the sign bit and the
largest word; immediates at the ends of their ranges and with alternating bits;
jumps and branches in both directions and out of the program; accesses of every
width at the edges of pages, to pages without permission and outside the
process; programs of four accesses and jumps over four pages with two frames;
and the reserved encodings next to each defined one.  An access that reaches
over the end of its page is left out: the MMU translates its first byte only,
and `ExecutesISA` fails for it.  Two frames are the least with which a load can
complete, its instruction and its datum being in different pages.

Fairness: `WF_vars(Loop)` in `Kernel` and `WF_vars(Iteration)` in `Machine`, the
loop keeps taking iterations.  The host runs it in a `while` without waiting for
anything, so nothing weaker is justified and nothing stronger is assumed; in
particular programs get no fairness.  A system call may be made again for ever
(a lock that is never released), so `InstructionEnds` is not about calls.

### Where the code and its comments disagree

| Run | What TLC shows |
|---|---|
| `kernel_orphan` | `terminate` wakes process waiters without looking at their state: a thread that died with its process is scheduled again (when it exits, its process is not active, and the kernel panics; until then it writes through page table entries that `wipeMemory` left valid, see `Intrudes` in `VirtualMemory`) |
| `kernel_stale_code` | `exitCodes` is not cleared when a slot is reused: a join returns at once with the code of the slot's former process |
| `vm_reuse` | `recycle` frees the frames `terminate` has already freed: two pages share a frame |
| `vm_copies` | the kernel ignores page faults of its own accesses: read, write and names are wrong for pages that are not resident |
| `files_swap` | `createFile` compares with the size of the whole disk, swap included: writing a file destroys a page that is swapped out |

So `NoOrphanThread` and `NoKernelPanic` hold as long as a process has a single
thread (`kernel_processes`) or nobody joins processes, which is proved below,
and `NoSharedFrame` follows from `OwnsFrame` as long as no slot is reused.

## Proofs

`KernelProof` proves, for every value of the constants (`ConstantsOK` only says
that sizes are natural numbers, positive where the code needs them, and that
calls are calls):

- `TypeCorrect`: `Spec => []TypeOK`.  The only non-trivial parts are that the
  index the circular search computes is an index of `activeThreads`, and that
  thread ids stay below `MAX_THREADS`.
- `OwnSpace`: `Spec => []RunsInOwnSpace`.  The property is not inductive:
  `contextSwitch` compares the pid of the thread it leaves, which may be blocked
  or dead, so the invariant says that the MMU has the page table of the
  *current* thread whatever its state (`TableOfCurrent`), and that only the
  current thread is RUNNING (`OnlyCurrentRuns`).  One lemma does the scheduler
  (`PreemptRunInv`), one the tail of an iteration, and each action then only
  shows what it hands over.
- `Handover`: `Spec => MutexHandover`, from a classification of what a step may
  do to the mutex table (`MutexChange`) and the invariant that a free mutex has
  no owner.

`KernelWaitProof`, with the second part of `KernelProof`, is about waiting.  A thread is
registered to be woken in three places: as `joiner` of a thread, in the wait
queue of a mutex, in `processWaiters`.  Their invariant, `WaitInv`, says that a
registered thread does not run and is registered once (`WaitsOnce`).  The code
does not reset `joiner`, so the invariant leaves out those who left with
`thread_exit`, whose registrations are over.  Each instruction is put into one of a few
kinds by what it does to states and registrations (`Blocks`, `Unlocks`,
`Leaves`, `Kills`, ...), one lemma per kind keeps the invariant, and one does
the scheduler for all of them.

- `StallsAreDeadlocks` (`StallMeansDeadlock`) and `ContextsKept`
  (`ContextIntegrity`) hold for every workload.  The first needs that the
  current thread is never merely READY when the loop looks (`CurrentNotReady`) and
  that the circular search visits every thread (`SuccessorOnto`).
- So do `OneAtATime` (`WaitsForOne`), what is left of `WakesOnlyBlocked` where
  orphans occur and the very content of `WaitsOnce`, and `OneThreadPerTid`
  (`TidsUnique`), for which a step may only empty the list of threads or number
  the next one (`ThreadsChange`).
- `NoOrphans`, `OnlyBlockedWoken`, `NoPanics` and `DeathIsFinal` assume `Solo`:
  processes have one thread, or nobody joins processes.  Then whoever is alive
  belongs to an active process, and whoever died while registered is registered
  where no wake-up comes from (`Rooted`).  `kernel_orphan` shows what happens
  without the assumption: a thread that waits for a process dies with its own
  because a sibling exits, and stays in `processWaiters`.
- `NoLostWakeUp` (`BlockedHasWaker`), also under `Solo`: the ecall a blocked
  thread is suspended on names the object it is registered with, and that has
  yet to end or be released (`BlockedWakes`).  A registration is not
  overwritten, since a thread is joined once (`JoinedOnce`).

`VirtualMemoryProof` is about every number of processes, pages, frames and swap
slots and every layout (`LayoutOK`: segments, stacks and heap are disjoint and
finite).  `TypeCorrect`, `Spec => []TypeOK`, holds for all workloads; it needs
that `ppn` names a frame while a page is in memory and a slot while it is out
(`EntriesOK`).  The reuse of slots breaks less than `vm_reuse` may suggest, for
`BaseInv` is inductive for all workloads, too.  Orphans are in all of this: no
theorem assumes that the process that runs is active.

- `OwnersHavePages` (`OwnerHasPage`), by itself: `wipeMemory` may free a frame
  others use, but whoever is left as the owner of a frame, a dead process with an
  orphan included, has the named page in it.
- `VictimsFound` (`EvictionFindsVictim`), from that, `NoneLost` (a frame that is
  not in use is on the free list, perhaps twice) and `Queued` (a frame in use is
  in the queue, whatever stale entries are there too): with the free list empty
  all frames are in use, and so in the queue.  That the queue then has a *first*
  allocated frame is the least-element property of sets of positions
  (`FirstOfSet`), which is derived from the well-foundedness of inclusion.
- `SlotsNotShared`: no two pages are out in one slot, and that slot is taken
  (`SlotsApart`).  Evicting a page takes a free slot, and by `OwnerHasPage` the
  evicted page was not out already.

The rest assumes `NoReuse`, and `vm_reuse` shows that it must:

- `FramesOwned`, `FramesKept` and `FramesNotShared`: to the above `Inv` adds
  `OwnsFrame` and `FramesAccounted`.  Neither is inductive without `OwnerHasPage`,
  the converse of the first: an eviction could leave a page pointing at a frame
  it lost.
- `SlotsAccounted`, with `SlotsFilled`: a slot that is taken has a page.  A slot
  that is reused forgets the pages it had out.
- `PagingIsInvisible`: `Spec => IsolatedMemory`, the refinement of `AddressSpaces`
  by every step before the first intrusion.
  Its invariant, `~intruded => CopiesInv`, says of each page of an active process what the
  eviction code relies on when it throws a page away: a page that is not dirty
  and was never swapped out still is what it was loaded as, a dirty one is
  writable and in memory, and `canWrite` is that of the segment.  An eviction
  and the fault it is for are proved separately to show every process the same
  memory (`EvictionCopies`, `ResolveCopies`), the two meeting in the page tables
  between them; a store by an active process changes the page it names since
  frames are not shared, and one by an orphan changes no page of an active
  process unless it intrudes (`OrphanCopies`).

`LayoutProof` needs `LayoutOK`, `PagesOK` and `FilesOK` only, so it holds for every
address width, page size and `MAX_THREADS` and every set of ELF files that
satisfy them.

- `StacksKeptApart`: `Spec => []StacksApart`.  `createThread` subtracts in `Addr`, so
  the proof gives the top of the stack of thread `t` a closed form without
  wrapping (`Place`), shows that all of them are above the heap
  (`(MAX_THREADS - 1) * Stride <= MAIN_STACK_SIZE`), and has as invariant
  (`StackInv`) that `stackTops` and `nextStackBase` are where the closed form puts
  them.
- `TypeCorrect`, `ImagesLoaded`, `GuardsStayUnmapped` and `OneReasonOnly` add an
  invariant on pages (`PagesInv`): a page above the segments is in the heap
  region or on a stack that exists, and a page with bytes of a segment has the
  bytes of the file.  The step is `FaultPageSound`: the start of the faulting
  page is in the same stack, segment or heap as the address, as all of these
  begin on a page boundary.

`FileSystemProof` is about every disk, block size, number of files and descriptors
and length of transfers.  `TypeCorrect` (`Spec => []TypeOK`) holds even if sizes
wrap.  The others assume `NoWrap`, that rounding a size up does not exceed
`std::size_t`; without it a file of 2^32 - 1 bytes gets no blocks where `size_t`
has 32 bits.

- `FilesKeptApart`: `Spec => []FilesDisjoint`.  The invariant is that the files lie
  one behind the other below `freeBlockPointer` (`BlocksInv`), and that every
  handle is on its file as it was created (`HandlesInv`).
- `WriteLoopWrites` and `ReadLoopReads` say what the loops of `DiskFileHandle`
  compute.  They are proved by induction on the turns: what is written so far is
  on the disk and nothing else has changed (`Written`), what is read so far is
  what the file holds (`Delivered`), and each turn gets on, so `total` turns are
  enough.  Byte `o` of block `b` is byte `Place(start, b, o)` of the file; that
  division and remainder invert `Place` (`PlaceOf`) is all the arithmetic there is
  in the straddling of blocks.
- `BlocksAreInvisible`: the refinement of `FileStore`, one lemma per action.  It also
  needs that blocks nobody was given are still zero (`Blank`), as new files read
  as zeros, and assumes `[]BelowSwap`: no file reaches the swap area, which the
  code does not see to (`files_swap`).  Under the same assumption `SwapKept` proves
  `SwappedPageKept`, so a file in the swap area is the only way to lose a page
  that was swapped out.

`MachineProof` is about the CPU and the paging of one thread, with instruction
words of 32 bits and registers of any width up to that, and any number of pages
and frames.  It assumes of the toolchain that it refuses
immediates that do not fit their field and odd branch offsets (`Fits`), and of a
program that what it holds as data (`"word"`) has no executor; the proof covers
everything else (`StartsOK`), and TLC evaluates the assumption for its 12799
programs.

- `EncodedIsDecoded`: for every instruction, register and immediate the decoder
  gets from the word what the toolchain put in.  A field of a word is where
  `Put` moves it (`PutIs`), the fields of a format do not overlap, so each
  `extractBits` finds its own (`Fields` and one lemma per format), and
  `signExtend` repeats the bit that is the sign of the immediate
  (`SignExtended`).  The scattered immediates of stores, branches and jumps are
  put together from their parts (`Joined`).  One lemma per opcode
  (`DispatchStore`, `DispatchBranch`, ...) takes apart the nested switches of
  `Machine::execute`, and the tables of the toolchain are the
  inverse of those of the code (`RegisterTable`, `ShiftTable`, `SmallTables`).
- `DecodingCorrect`: `Spec => []DecodesAsWritten`, which speaks of the immediate
  as a number.  The invariant (`StreamOK`) is that what is left to execute is a
  program, whatever faults and calls there were.
- `TypeCorrect` and `ImplementsISA` (`Spec /\ []AccessesInPage => ExecutesISA`)
  assume that no access reaches over the end of its page (`AccessesInPage`),
  since `translate` looks at its first byte only and what follows the page in
  physical memory is another page or nothing; all programs of the run satisfy
  it.  That pages are inside the address space is part of `MachineOK`.
  The invariant (`MachineInv`) adds to the types that the queue lists the pages in
  memory, each once, and frames are given out in order (`QueueOK`), that pages
  have frames of their own (`FramesApart`), that a page that is not dirty is what
  it was loaded from (`CopiesOK`), so that an eviction may drop it, and that a
  trap is about the instruction that will be executed next (`TrapOK`), so that a
  process is killed for an access `ISA` does not allow either.
  First, what each executor does is said without the decoder (`Done`,
  `ExecuteDone`), and its arithmetic is shown to be that of `ISA`, which computes
  with integers: numbers that are the same modulo the word size (`Same`) have
  sums, differences and products that are, and the executors' quotient is the
  one integer that satisfies `ISA`'s definition of division (`QuotientIs`).
  Then a page fault with or without an eviction is one kind of step (`Swaps`)
  that changes no content (`SwapsInvisible`), a store changes the bytes it
  names (`StoreKeeps`), and a load delivers them (`LoadedIs`), so that every step
  is one of `ISA` or none (`StepIsISA`).

`WordsProof` has the arithmetic under it: `Number(Bits(v, n)) = v % 2^n`, by
counting up the positions, as sums over sets of positions are folds; and the
bits of a power's multiple are those of the factor, moved.  The prover knows `^`
for exponents it can see only, so the powers up to 2^33 are enumerated once
(`Powers`) and all else follows from that.

Module `Induction` derives the induction that these proofs need.  The theorems of
the library that take a predicate cannot be instantiated here; with a set in
place of the predicate induction follows from the well-foundedness of inclusion
(`FirstOfSet`, `CountUp`).  From it come that a loop defined by recursion on the
number of turns exists (`LoopExists`), keeps what each turn keeps
(`LoopInvariant`) and ends (`LoopEnds`).

Only model-checked: liveness (`NoStarvation`, `InstructionEnds`), which is out of
the prover's reach.
