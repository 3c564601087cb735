------------------------------- MODULE Kernel -------------------------------
(***************************************************************************)
(* Processes, threads, the round-robin scheduler, mutexes and the two      *)
(* kinds of join of rv32umos: RV32UMOS.cpp, kernel/, scheduler/, process/, *)
(* thread/, sync/ and the thread, mutex and process calls of syscall/.     *)
(*                                                                         *)
(* The kernel is one host thread.  Concurrency is the interleaving of user *)
(* threads that RV32UMOS::start() produces, so one action is one iteration *)
(* of its loop: one instruction, the trap it raises, the preemption that   *)
(* follows.  A user program is an arbitrary sequence of instructions; what *)
(* it computes is left out, and so is memory (module VirtualMemory).       *)
(***************************************************************************)
EXTENDS Integers, Sequences, FiniteSets

CONSTANTS
    MAX_PROCESS,    \* slots of processList
    MAX_THREADS,    \* threads one process may create during its life
    QUANTUM,        \* SCHED_QUANTUM_INSTRUCTIONS
    Codes,          \* exit codes user programs use
    Calls,          \* system calls user programs make: the workload
    MaxActive,      \* bound: thread objects created during a run
    MaxMutex        \* bound: mutexes one process creates

CallNames ==
    {"exit", "thread_create", "thread_exit", "thread_join", "mutex_create",
     "mutex_lock", "mutex_unlock", "create_process", "join_process",
     "unknown"}

ASSUME ConstantsOK ==
    /\ MAX_PROCESS \in Nat \ {0}
    /\ MAX_THREADS \in Nat \ {0}
    /\ QUANTUM \in Nat \ {0}
    /\ MaxActive \in Nat \ {0}
    /\ MaxMutex \in Nat
    /\ Codes \subseteq Nat
    /\ Calls \subseteq CallNames

Pid == 0 .. MAX_PROCESS - 1

\* A Thread object is named by its position in activeThreads, to which every
\* created thread is appended and from which none is removed.
Thread == 1 .. MaxActive
NoThread == 0                       \* nullptr, and currentThreadIndex -1

Crashed == -1                       \* exit code of a killed process
NoCode == -2                        \* pid has no entry in exitCodes

ThreadState == {"NEW", "READY", "RUNNING", "BLOCKED", "TERMINATED"}

(***************************************************************************)
(* An instruction is an ecall with the argument that decides its outcome.  *)
(* Files are named by what loadELF finds in them.                          *)
(***************************************************************************)
BadFile == 0                        \* cannot be opened, or no ELF magic
NoExecFile == 1                     \* entry point in no executable segment
GoodFile == 2
File == {BadFile, NoExecFile, GoodFile}

Instruction ==
    UNION {[call: {"exit", "thread_exit"}, arg: Codes],
           [call: {"thread_create"}, arg: {0, 1}],      \* 1: func executable
           [call: {"thread_join"}, arg: 0 .. MAX_THREADS],
           [call: {"mutex_lock", "mutex_unlock"}, arg: 0 .. MaxMutex],
           [call: {"create_process"}, arg: File],
           [call: {"join_process"}, arg: 0 .. MAX_PROCESS],
           [call: {"mutex_create", "unknown"}, arg: {0}]}

Program == {i \in Instruction : i.call \in Calls}

\* A program counter is abstracted to what the kernel can tell of it: it is
\* at an ecall that will be executed again, or past the last one.
Fresh == [call |-> "fresh", arg |-> 0]
ProgramCounter == [call: CallNames \cup {"fresh"}, arg: Nat]
Context == [pc: ProgramCounter, a0: Int]
InitialContext == [pc |-> Fresh, a0 |-> 0]

VARIABLES
    status,         \* where RV32UMOS is: see Status
    ticks,          \* instructions executed, modulo QUANTUM
    cpu,            \* pc and a0 of the Machine
    currentTable,   \* process whose page table the MMU uses
    current,        \* currentThreadIndex
    count,          \* activeThreads.size()
    state, context, parent, tid, joiner, hasBeenJoined, exitCode,   \* TCB
    active, threads, mutexList,                                     \* PCB
    exitCodes, processWaiters                            \* ProcessManager

runVars == <<ticks, cpu, currentTable, current, state, context>>
newVars == <<count, parent, tid>>
joinVars == <<joiner, hasBeenJoined, exitCode>>
pcbVars == <<active, threads, mutexList>>
waitVars == <<exitCodes, processWaiters>>
vars == <<status, runVars, newVars, joinVars, pcbVars, waitVars>>

Status == {"boot", "running", "terminated", "stalled", "aborted",
           "panic", "unimplemented", "illegal"}

MutexRecord == [locked: BOOLEAN, owner: Thread \cup {NoThread},
                waitQueue: SUBSET Thread]

TypeOK ==
    /\ status \in Status
    /\ ticks \in 0 .. QUANTUM - 1
    /\ cpu \in Context
    /\ currentTable \in Pid
    /\ count \in 0 .. MaxActive
    /\ current \in 0 .. count
    /\ state \in [Thread -> ThreadState]
    /\ context \in [Thread -> Context]
    /\ parent \in [Thread -> Pid]
    /\ tid \in [Thread -> 0 .. MAX_THREADS - 1]
    /\ joiner \in [Thread -> Thread \cup {NoThread}]
    /\ hasBeenJoined \in [Thread -> BOOLEAN]
    /\ exitCode \in [Thread -> Int]
    /\ active \in [Pid -> BOOLEAN]
    /\ threads \in [Pid -> SUBSET Thread]
    /\ mutexList \in [Pid -> Seq(MutexRecord)]
    /\ exitCodes \in [Pid -> Int]
    /\ processWaiters \in [Pid -> SUBSET Thread]

-----------------------------------------------------------------------------
(***************************************************************************)
(* Scheduler.  The operators take the thread states st, the saved contexts *)
(* ctx and the registers c as the system call left them; the other fields  *)
(* the call may have changed are read primed.                              *)
(***************************************************************************)
AllTerminated == \A t \in 1 .. count : state[t] = "TERMINATED"

\* Mutant: the page table is switched when the tids differ.
ChangesSpace_ByTid(prev, next) == prev = NoThread \/ tid'[prev] # tid'[next]

ChangesSpace(prev, next) == prev = NoThread \/ parent'[prev] # parent'[next]

\* The registers and the state of the thread switched from are saved unless
\* it is dead; the page table is switched only between processes.
ContextSwitch(next, st, ctx, c) ==
    LET prev == current
        save == prev # NoThread /\ st[prev] # "TERMINATED"
    IN  /\ context' = IF save THEN [ctx EXCEPT ![prev] = c] ELSE ctx
        /\ state' = [t \in Thread |->
                       IF t = next THEN "RUNNING"
                       ELSE IF t = prev /\ st[t] = "RUNNING" THEN "READY"
                       ELSE st[t]]
        /\ cpu' = ctx[next]
        /\ currentTable' = IF ChangesSpace(prev, next) THEN parent'[next]
                                                       ELSE currentTable
        /\ current' = next

NoSwitch(st, ctx, c) ==
    /\ state' = st
    /\ context' = ctx
    /\ cpu' = c
    /\ UNCHANGED <<current, currentTable>>

\* Mutant: the search does not wrap around the end of activeThreads.
Successor_NoWrap(d) == IF current + d <= count' THEN current + d ELSE current

\* Mutant: the search starts at the first thread, not after the current one.
Successor_FromFirst(d) == d

\* The thread d places after the current one in the circular activeThreads.
Successor(d) == ((current + d - 1) % count') + 1

Preempt(st, ctx, c) ==
    \/ \E d \in 1 .. count' :
          /\ st[Successor(d)] = "READY"
          /\ \A e \in 1 .. d - 1 : st[Successor(e)] # "READY"
          /\ IF Successor(d) # current
               THEN ContextSwitch(Successor(d), st, ctx, c)
               ELSE NoSwitch(st, ctx, c)
    \/ /\ \A d \in 1 .. count' : st[Successor(d)] # "READY"
       /\ NoSwitch(st, ctx, c)

\* Tail of an iteration of the main loop: the executed instruction counts as
\* a tick, and the scheduler runs when the thread stopped or the quantum ended.
EndOfInstruction(st, ctx, c) ==
    /\ ticks' = (ticks + 1) % QUANTUM
    /\ IF st[current] # "RUNNING" \/ (ticks + 1) % QUANTUM = 0
         THEN Preempt(st, ctx, c)
         ELSE NoSwitch(st, ctx, c)

-----------------------------------------------------------------------------
(***************************************************************************)
(* System calls.                                                           *)
(***************************************************************************)
proc == parent[current]

\* The process of the running thread has been terminated: its code pages
\* went back to the free list, and may hold anything by now.
Orphan == ~active[proc] \/ current \notin threads[proc]

\* A suspended thread sits on the ecall it will execute again.
AnyInstruction == cpu.pc = Fresh \/ Orphan

Executable == {cpu.pc} \cup (IF AnyInstruction THEN Program ELSE {})

Executing ==
    /\ status = "running"
    /\ current # NoThread
    /\ state[current] = "RUNNING"

Ecall(i, c) ==
    /\ Executing
    /\ i \in Executable
    /\ i.call = c

\* SyscallResult with a return value: a0 is written and the PC advances.
Returning(v) == [pc |-> Fresh, a0 |-> v]

\* SyscallResult without one: a0 and the PC stay.
Suspended(i) == [cpu EXCEPT !.pc = i]

Panic ==
    /\ status' = "panic"
    /\ UNCHANGED <<runVars, newVars, joinVars, pcbVars, waitVars>>

\* Mutant: the threads waiting for the process are not woken.
StatesAfterTerminate_NoWake(p) ==
    [t \in Thread |-> IF t \in threads[p] THEN "TERMINATED" ELSE state[t]]

\* Mutant: the calling thread survives the group exit.
StatesAfterTerminate_Others(p) ==
    [t \in Thread |->
        IF t \in processWaiters[p] THEN "READY"
        ELSE IF t \in threads[p] \ {current} THEN "TERMINATED"
        ELSE state[t]]

\* Thread states after Process::terminate: all threads of the process are
\* dead, then everybody who waits for the process is woken.
StatesAfterTerminate(p) ==
    [t \in Thread |->
        IF t \in processWaiters[p] THEN "READY"
        ELSE IF t \in threads[p] THEN "TERMINATED"
        ELSE state[t]]

\* Mutant: the entry stays once its threads are woken.
EraseWaiters_Not(p) == UNCHANGED processWaiters

EraseWaiters(p) == processWaiters' = [processWaiters EXCEPT ![p] = {}]

\* Process::terminate(pid, code) and the end of the iteration, the CPU left
\* with registers c.  Terminating a process that is not active is a panic.
Terminate(p, code, c) ==
    IF active[p]
      THEN /\ exitCodes' = [exitCodes EXCEPT ![p] = code]
           /\ EraseWaiters(p)
           /\ active' = [active EXCEPT ![p] = FALSE]
           /\ UNCHANGED <<status, newVars, joinVars, threads, mutexList>>
           /\ EndOfInstruction(StatesAfterTerminate(p), context, c)
      ELSE Panic

Exit(i) ==
    /\ Ecall(i, "exit")
    /\ Terminate(proc, i.arg, Suspended(i))

\* Mutant: the joiner gets the exit code but stays on its ecall.
Delivered_NoAdvance(j, code) == [context EXCEPT ![j].a0 = code]

\* The exit code is the return value of the joiner's ecall.
Delivered(j, code) == [context EXCEPT ![j] = Returning(code)]

ThreadExit(i) ==
    /\ Ecall(i, "thread_exit")
    /\ UNCHANGED <<status, newVars, joiner, hasBeenJoined, pcbVars, waitVars>>
    /\ exitCode' = [exitCode EXCEPT ![current] = i.arg]
    /\ LET dead == [state EXCEPT ![current] = "TERMINATED"]
           j == joiner[current]
       IN  IF j = NoThread
             THEN EndOfInstruction(dead, context, Suspended(i))
             ELSE EndOfInstruction([dead EXCEPT ![j] = "READY"],
                                   Delivered(j, i.arg), Suspended(i))

\* Mutant: the tid is the number of threads that are alive.
CreateThread_Alive(n, p, siblings) ==
    /\ count' = n
    /\ parent' = [parent EXCEPT ![n] = p]
    /\ tid' = [tid EXCEPT ![n] =
                 Cardinality({t \in siblings : state[t] # "TERMINATED"})]
    /\ threads' = [threads EXCEPT ![p] = siblings \cup {n}]

\* Process::createThread succeeded: object n of process p, not yet scheduled.
CreateThread(n, p, siblings) ==
    /\ count' = n
    /\ parent' = [parent EXCEPT ![n] = p]
    /\ tid' = [tid EXCEPT ![n] = Cardinality(siblings)]
    /\ threads' = [threads EXCEPT ![p] = siblings \cup {n}]

\* Mutant: one thread too many is allowed.
TooManyThreads_OffByOne == Cardinality(threads[proc]) > MAX_THREADS

TooManyThreads == Cardinality(threads[proc]) >= MAX_THREADS

ThreadCreate(i) ==
    /\ Ecall(i, "thread_create")
    /\ UNCHANGED <<status, joinVars, active, mutexList, waitVars>>
    /\ \/ /\ TooManyThreads \/ i.arg = 0
          /\ UNCHANGED <<newVars, threads>>
          /\ EndOfInstruction(state, context, Returning(-1))
       \/ /\ ~TooManyThreads
          /\ i.arg = 1
          /\ count < MaxActive
          /\ CreateThread(count + 1, proc, threads[proc])
          /\ EndOfInstruction([state EXCEPT ![count + 1] = "READY"], context,
                              Returning(Cardinality(threads[proc])))

ThreadJoin(i) ==
    /\ Ecall(i, "thread_join")
    /\ UNCHANGED <<status, newVars, exitCode, pcbVars, waitVars>>
    /\ LET targets == {t \in threads[proc] : tid[t] = i.arg}
           refused == \/ targets = {}
                      \/ i.arg = tid[current]
                      \/ \E t \in targets : hasBeenJoined[t]
       IN  \/ /\ refused
              /\ UNCHANGED <<joiner, hasBeenJoined>>
              /\ EndOfInstruction(state, context, Returning(-1))
           \/ /\ ~refused
              /\ \E t \in targets :
                    /\ hasBeenJoined' = [hasBeenJoined EXCEPT ![t] = TRUE]
                    /\ IF state[t] = "TERMINATED"
                         THEN /\ UNCHANGED joiner
                              /\ EndOfInstruction(state, context,
                                                  Returning(exitCode[t]))
                         ELSE /\ joiner' = [joiner EXCEPT ![t] = current]
                              /\ EndOfInstruction(
                                    [state EXCEPT ![current] = "BLOCKED"],
                                    context, Suspended(i))

-----------------------------------------------------------------------------
(***************************************************************************)
(* Mutexes.  The wait queue is always drained as a whole, so its order is  *)
(* left out.                                                               *)
(***************************************************************************)
FreeMutex == [locked |-> FALSE, owner |-> NoThread, waitQueue |-> {}]

Acquire(m, t) ==
    IF m.locked THEN [m EXCEPT !.waitQueue = @ \cup {t}]
                ELSE [m EXCEPT !.locked = TRUE, !.owner = t]

\* Mutant: the woken threads stay in the wait queue.
Release_KeepsQueue(m) == [m EXCEPT !.locked = FALSE, !.owner = NoThread]

Release(m) == FreeMutex

\* Mutant: any thread may unlock.
UsableMutex_AnyOwner(i) == i.arg < Len(mutexList[proc])

\* Mutant: only one thread of the queue is woken.
Woken_One(m) == {t \in m.waitQueue : \A u \in m.waitQueue : t <= u}

Woken(m) == m.waitQueue

\* The id is known, and an unlock comes from the owner.
UsableMutex(i) ==
    /\ i.arg < Len(mutexList[proc])
    /\ i.call = "mutex_unlock" => mutexList[proc][i.arg + 1].owner = current

MutexCreate(i) ==
    /\ Ecall(i, "mutex_create")
    /\ Len(mutexList[proc]) < MaxMutex
    /\ UNCHANGED <<status, newVars, joinVars, active, threads, waitVars>>
    /\ mutexList' = [mutexList EXCEPT ![proc] = Append(@, FreeMutex)]
    /\ EndOfInstruction(state, context, Returning(Len(mutexList[proc])))

MutexLock(i) ==
    /\ Ecall(i, "mutex_lock")
    /\ UsableMutex(i)
    /\ UNCHANGED <<status, newVars, joinVars, active, threads, waitVars>>
    /\ LET m == mutexList[proc][i.arg + 1]
       IN  /\ mutexList' = [mutexList EXCEPT
                              ![proc][i.arg + 1] = Acquire(m, current)]
           /\ IF m.locked
                THEN EndOfInstruction([state EXCEPT ![current] = "BLOCKED"],
                                      context, Suspended(i))
                ELSE EndOfInstruction(state, context, Returning(0))

MutexUnlock(i) ==
    /\ Ecall(i, "mutex_unlock")
    /\ UsableMutex(i)
    /\ UNCHANGED <<status, newVars, joinVars, active, threads, waitVars>>
    /\ LET m == mutexList[proc][i.arg + 1]
       IN  /\ mutexList' = [mutexList EXCEPT ![proc][i.arg + 1] = Release(m)]
           /\ EndOfInstruction([t \in Thread |-> IF t \in Woken(m)
                                                   THEN "READY" ELSE state[t]],
                               context, Returning(0))

\* A mutex call on an unknown id, or an unlock by a thread that is not the
\* owner, is an error: the call returns -1 and the process is killed.
MutexError(i) ==
    /\ \/ Ecall(i, "mutex_lock")
       \/ Ecall(i, "mutex_unlock")
    /\ ~UsableMutex(i)
    /\ Terminate(proc, Crashed, Returning(-1))

-----------------------------------------------------------------------------
(***************************************************************************)
(* Process creation and process join.                                      *)
(***************************************************************************)
Inactive == {p \in Pid : ~active[p]}

\* Mutant: the first slot is taken whether or not it is active.
FreeSlot_Any(p) == p = 0

FreeSlot(p) == p \in Inactive /\ \A q \in Inactive : p <= q

\* Loader::loadELF found the file usable and a slot: the first inactive slot
\* p is recycled (threads, mutexes; exitCodes and processWaiters are not
\* touched) and gets its main thread, unless the entry point is refused.
LoadELF(file, p) ==
    /\ FreeSlot(p)
    /\ mutexList' = [mutexList EXCEPT ![p] = <<>>]
    /\ IF file = GoodFile
         THEN /\ count < MaxActive
              /\ CreateThread(count + 1, p, {})
              /\ active' = [active EXCEPT ![p] = TRUE]
         ELSE /\ threads' = [threads EXCEPT ![p] = {}]
              /\ UNCHANGED <<newVars, active>>

LoadFails(file) == file = BadFile \/ Inactive = {}

CreateProcess(i) ==
    /\ Ecall(i, "create_process")
    /\ UNCHANGED <<status, joinVars, waitVars>>
    /\ \/ /\ LoadFails(i.arg)
          /\ UNCHANGED <<newVars, pcbVars>>
          /\ EndOfInstruction(state, context, Returning(-1))
       \/ /\ ~LoadFails(i.arg)
          /\ \E p \in Pid :
                /\ LoadELF(i.arg, p)
                /\ IF i.arg = GoodFile
                     THEN EndOfInstruction([state EXCEPT ![count + 1] = "READY"],
                                           context, Returning(p))
                     ELSE EndOfInstruction(state, context, Returning(-1))

JoinProcess(i) ==
    /\ Ecall(i, "join_process")
    /\ UNCHANGED <<status, newVars, joinVars, pcbVars>>
    /\ \/ /\ i.arg \in Pid
          /\ exitCodes[i.arg] # NoCode
          /\ exitCodes' = [exitCodes EXCEPT ![i.arg] = NoCode]
          /\ UNCHANGED processWaiters
          /\ EndOfInstruction(state, context, Returning(1))
       \/ /\ i.arg \in Pid
          /\ exitCodes[i.arg] = NoCode
          /\ active[i.arg]
          /\ processWaiters' = [processWaiters EXCEPT ![i.arg] = @ \cup {current}]
          /\ UNCHANGED exitCodes
          /\ EndOfInstruction([state EXCEPT ![current] = "BLOCKED"],
                              context, Suspended(i))
       \/ /\ i.arg \in Pid => exitCodes[i.arg] = NoCode /\ ~active[i.arg]
          /\ UNCHANGED waitVars
          /\ EndOfInstruction(state, context, Returning(-1))

UnknownCall(i) ==
    /\ Ecall(i, "unknown")
    /\ status' = "unimplemented"
    /\ UNCHANGED <<runVars, newVars, joinVars, pcbVars, waitVars>>

-----------------------------------------------------------------------------
(***************************************************************************)
(* Instructions that are none of these calls.  The other system calls      *)
(* (files, sbrk) return a value at once, and are like any computation.     *)
(***************************************************************************)
Compute ==
    /\ Executing
    /\ AnyInstruction
    /\ UNCHANGED <<status, newVars, joinVars, pcbVars, waitVars>>
    /\ EndOfInstruction(state, context, [cpu EXCEPT !.pc = Fresh])

\* Machine::execute meets an instruction it does not know and exits.
IllegalInstruction ==
    /\ Executing
    /\ AnyInstruction
    /\ status' = "illegal"
    /\ UNCHANGED <<runVars, newVars, joinVars, pcbVars, waitVars>>

\* A page fault the memory manager resolved: the same PC is tried again.
PageFault ==
    /\ Executing
    /\ UNCHANGED <<status, newVars, joinVars, pcbVars, waitVars>>
    /\ EndOfInstruction(state, context, cpu)

\* A page fault it did not resolve kills the process.  The instruction of a
\* suspended thread was fetched before and touches no memory.
SegmentationFault ==
    /\ Executing
    /\ AnyInstruction
    /\ Terminate(proc, Crashed, cpu)

-----------------------------------------------------------------------------
(***************************************************************************)
(* Boot and the main loop.                                                 *)
(***************************************************************************)
Init ==
    /\ status = "boot"
    /\ ticks = 0
    /\ cpu = InitialContext
    /\ currentTable = 0
    /\ current = NoThread
    /\ count = 0
    /\ state = [t \in Thread |-> "NEW"]
    /\ context = [t \in Thread |-> InitialContext]
    /\ parent = [t \in Thread |-> 0]
    /\ tid = [t \in Thread |-> 0]
    /\ joiner = [t \in Thread |-> NoThread]
    /\ hasBeenJoined = [t \in Thread |-> FALSE]
    /\ exitCode = [t \in Thread |-> 0]
    /\ active = [p \in Pid |-> FALSE]
    /\ threads = [p \in Pid |-> {}]
    /\ mutexList = [p \in Pid |-> <<>>]
    /\ exitCodes = [p \in Pid |-> NoCode]
    /\ processWaiters = [p \in Pid |-> {}]

\* main() loads the programs of its command line and gives up at the first
\* one that cannot be loaded.
LoadApplication(file) ==
    /\ status = "boot"
    /\ UNCHANGED <<ticks, cpu, currentTable, current, context, joinVars,
                   waitVars>>
    /\ \/ /\ LoadFails(file)
          /\ status' = "aborted"
          /\ UNCHANGED <<state, newVars, pcbVars>>
       \/ /\ ~LoadFails(file)
          /\ \E p \in Pid : LoadELF(file, p)
          /\ IF file = GoodFile
               THEN /\ state' = [state EXCEPT ![count + 1] = "READY"]
                    /\ UNCHANGED status
               ELSE /\ status' = "aborted"
                    /\ UNCHANGED state

\* RV32UMOS::start() up to its loop.
Start ==
    /\ status = "boot"
    /\ UNCHANGED <<ticks, newVars, joinVars, pcbVars, waitVars>>
    /\ IF count = 0
         THEN /\ status' = "terminated"
              /\ UNCHANGED <<cpu, currentTable, current, state, context>>
         ELSE /\ status' = "running"
              /\ Preempt(state, context, cpu)

LoopEnds ==
    /\ status = "running"
    /\ AllTerminated
    /\ status' = "terminated"
    /\ UNCHANGED <<runVars, newVars, joinVars, pcbVars, waitVars>>

\* The loop finds that the current thread cannot run: it schedules, and gives
\* up if that changes nothing.
Reschedule ==
    /\ status = "running"
    /\ ~AllTerminated
    /\ ~Executing
    /\ UNCHANGED <<ticks, newVars, joinVars, pcbVars, waitVars>>
    /\ Preempt(state, context, cpu)
    /\ status' = IF current' = NoThread \/ state'[current'] # "RUNNING"
                   THEN "stalled" ELSE "running"

\* The simulator has exited.
Halted ==
    /\ status \notin {"boot", "running"}
    /\ UNCHANGED vars

Syscall(i) ==
    \/ Exit(i)
    \/ ThreadExit(i)
    \/ ThreadCreate(i)
    \/ ThreadJoin(i)
    \/ MutexCreate(i)
    \/ MutexLock(i)
    \/ MutexUnlock(i)
    \/ MutexError(i)
    \/ CreateProcess(i)
    \/ JoinProcess(i)
    \/ UnknownCall(i)

Loop ==
    \/ \E i \in Executable : Syscall(i)
    \/ Compute
    \/ IllegalInstruction
    \/ PageFault
    \/ SegmentationFault
    \/ LoopEnds
    \/ Reschedule

Next ==
    \/ \E file \in File : LoadApplication(file)
    \/ Start
    \/ Loop
    \/ Halted

\* The host runs the loop as long as it can take an iteration.
Spec == Init /\ [][Next]_vars /\ WF_vars(Loop)

-----------------------------------------------------------------------------
(***************************************************************************)
(* Properties.                                                             *)
(***************************************************************************)
\* The registers of thread t: in the Machine while it is the current thread.
Ctx(t) == IF t = current THEN cpu ELSE context[t]

Live(t) == t <= count /\ state[t] # "TERMINATED"

\* Only the current thread is RUNNING, and it runs in the address space of
\* its own process: contextSwitch skips setPageTable when the two threads
\* have the same pid, so the page table of the MMU is a cached value.
RunsInOwnSpace ==
    \A t \in Thread : state[t] = "RUNNING" =>
        /\ t = current
        /\ currentTable = parent[t]

\* The main loop gives up ("Stall") only when no thread could be scheduled:
\* every thread that still exists is BLOCKED.
StallMeansDeadlock ==
    status = "stalled" => \A t \in 1 .. count : state[t] \in {"BLOCKED", "TERMINATED"}

\* Terminating a process leaves no thread of it behind: a thread that can
\* still be scheduled belongs to an active process that lists it.
NoOrphanThread ==
    \A t \in Thread : Live(t) => active[parent[t]] /\ t \in threads[parent[t]]

\* TERMINATED is final: no wake-up of a joiner, of a mutex waiter or of a
\* process waiter brings a dead thread back.
TerminatedIsFinal ==
    [][\A t \in Thread : state[t] = "TERMINATED" => state'[t] = "TERMINATED"]_vars

\* Process::terminate is never called for an inactive process, which
\* handleExit, handleSyscall and handlePageFault answer with PANIC.
NoKernelPanic == status # "panic"

\* No lost wake-up: a BLOCKED thread is registered with the very object its
\* ecall names, and what will wake it has not happened yet.
BlockedHasWaker ==
    \A t \in Thread : state[t] = "BLOCKED" =>
        LET i == Ctx(t).pc
            p == parent[t]
        IN  \/ /\ i.call = "thread_join"
               /\ \E u \in threads[p] : /\ tid[u] = i.arg
                                        /\ joiner[u] = t
                                        /\ state[u] # "TERMINATED"
            \/ /\ i.call = "mutex_lock"
               /\ i.arg < Len(mutexList[p])
               /\ mutexList[p][i.arg + 1].locked
               /\ t \in mutexList[p][i.arg + 1].waitQueue
            \/ /\ i.call = "join_process"
               /\ active[i.arg]
               /\ t \in processWaiters[i.arg]

\* A tid means one thread, also after threads of the process have ended:
\* thread_join takes the first thread with the tid it is given, and its stack
\* is where the tid says.
TidsUnique ==
    \A p \in Pid : \A t, u \in threads[p] : tid[t] = tid[u] => t = u

\* Where terminate, thread_exit and unlock will find thread t to wake it.
Wakers(t) ==
    {<<"join", u, 0>> : u \in {u \in Thread : Live(u) /\ joiner[u] = t}} \cup
    {<<"wait", p, 0>> : p \in {p \in Pid : t \in processWaiters[p]}} \cup
    UNION {{<<"lock", p, k>> :
               k \in {k \in DOMAIN mutexList[p] :
                         t \in mutexList[p][k].waitQueue}} : p \in Pid}

\* A thread waits for one thing at a time and does not run meanwhile, even
\* where the end of a process leaves dead threads in the queues: who is woken
\* was not woken before and is not awaited anywhere else.
WaitsForOne ==
    \A t \in Thread : \A v, w \in Wakers(t) :
        v = w /\ state[t] \in {"BLOCKED", "TERMINATED"}

\* No stray wake-up: whoever terminate, thread_exit or unlock would set to
\* READY is BLOCKED at that moment.
WakesOnlyBlocked ==
    /\ \A u \in Thread : Live(u) /\ joiner[u] # NoThread
                           => state[joiner[u]] = "BLOCKED"
    /\ \A p \in Pid : active[p] =>
          /\ \A t \in processWaiters[p] : state[t] = "BLOCKED"
          /\ \A k \in DOMAIN mutexList[p] :
                \A t \in mutexList[p][k].waitQueue : state[t] = "BLOCKED"

\* A mutex changes hands only through its own owner: a free mutex goes to
\* the running thread, a held one is given up by the running thread, and
\* nothing else (blocking, group exit, preemption) moves it.
MutexHandover ==
    [][\A p \in Pid : \A k \in DOMAIN mutexList[p] \cap DOMAIN mutexList'[p] :
          LET old == mutexList[p][k]
              new == mutexList'[p][k]
          IN  old.owner # new.owner =>
                \/ old.owner = NoThread /\ new.owner = current
                \/ old.owner = current /\ new.owner = NoThread]_vars

\* Whatever the interleaving, a thread that is not running keeps its
\* registers, except that the exit of the thread it joins delivers the exit
\* code and moves it past its ecall.
ContextIntegrity ==
    [][\A t \in Thread :
          Live(t) /\ Live(t)' /\ t # current =>
             \/ Ctx(t)' = Ctx(t)
             \/ /\ t = joiner[current]
                /\ state'[current] = "TERMINATED"
                /\ Ctx(t)' = Returning(exitCode'[current])]_vars

\* Round robin: a READY thread is eventually dispatched or killed.
NoStarvation ==
    \A t \in Thread :
        (status = "running" /\ state[t] = "READY")
            ~> (status # "running" \/ state[t] # "READY")

(***************************************************************************)
(* What comments and assertions of the code say, and the code does not do. *)
(***************************************************************************)
\* "Fast Path: process already dead": a cached exit code belongs to a
\* process that is not running.
FastPathMeansDead == \A p \in Pid : exitCodes[p] # NoCode => ~active[p]
=============================================================================
