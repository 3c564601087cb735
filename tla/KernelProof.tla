----------------------------- MODULE KernelProof -----------------------------
(***************************************************************************)
(* Proofs about module Kernel, for every number of processes and threads,  *)
(* every quantum and every workload: type correctness and mutexes, then    *)
(* what KernelWaitProof needs about waiting threads.                       *)
(***************************************************************************)
EXTENDS Kernel, FiniteSetTheorems, TLAPS

\* TypeOK in the groups in which the actions change the variables.
RunOK ==
    /\ ticks \in 0 .. QUANTUM - 1
    /\ cpu \in Context
    /\ currentTable \in Pid
    /\ current \in 0 .. count
    /\ state \in [Thread -> ThreadState]
    /\ context \in [Thread -> Context]

NewOK ==
    /\ count \in 0 .. MaxActive
    /\ parent \in [Thread -> Pid]
    /\ tid \in [Thread -> 0 .. MAX_THREADS - 1]

JoinOK ==
    /\ joiner \in [Thread -> Thread \cup {NoThread}]
    /\ hasBeenJoined \in [Thread -> BOOLEAN]
    /\ exitCode \in [Thread -> Int]

PcbOK ==
    /\ active \in [Pid -> BOOLEAN]
    /\ threads \in [Pid -> SUBSET Thread]
    /\ mutexList \in [Pid -> Seq(MutexRecord)]

WaitOK ==
    /\ exitCodes \in [Pid -> Int]
    /\ processWaiters \in [Pid -> SUBSET Thread]

\* The groups are all of TypeOK.
LEMMA TypeParts ==
    TypeOK <=> status \in Status /\ RunOK /\ NewOK /\ JoinOK /\ PcbOK /\ WaitOK
  BY DEF TypeOK, RunOK, NewOK, JoinOK, PcbOK, WaitOK

\* RunsInOwnSpace is not inductive: contextSwitch decides by the pid of the
\* thread it leaves, so the page table has to be that of the current thread
\* also while this thread is blocked or dead.
OnlyCurrentRuns == \A t \in Thread : state[t] = "RUNNING" => t = current
TableOfCurrent == current # NoThread => currentTable = parent[current]
SpaceInv == OnlyCurrentRuns /\ TableOfCurrent

\* The modulus the scheduler takes is an index of activeThreads.
LEMMA ModBound ==
    ASSUME NEW a \in Nat, NEW n \in Nat \ {0}
    PROVE  a % n \in 0 .. n - 1
  OBVIOUS

\* What the running part of the state satisfies after any step.
RunInv == RunOK /\ SpaceInv

\* Choosing the next thread: whatever the system call did to states st,
\* contexts ctx and registers c, only the thread switched to is RUNNING, and
\* the MMU has the page table of its process.
LEMMA PreemptRunInv ==
    ASSUME RunInv, NewOK, NewOK',
           NEW st \in [Thread -> ThreadState], NEW ctx \in [Thread -> Context],
           NEW c \in Context,
           \A t \in Thread : st[t] = "RUNNING" => t = current,
           count' # 0, count <= count',
           current # NoThread => parent'[current] = parent[current],
           ticks' \in 0 .. QUANTUM - 1,
           Preempt(st, ctx, c)
    PROVE  RunInv'
  <1> USE ConstantsOK
  <1>1. \A d \in 1 .. count' : Successor(d) \in 1 .. count'
    <2> SUFFICES ASSUME NEW d \in 1 .. count' PROVE Successor(d) \in 1 .. count'
      OBVIOUS
    <2>1. current + d - 1 \in Nat /\ count' \in Nat \ {0}
      BY DEF RunInv, RunOK, NewOK
    <2>2. (current + d - 1) % count' \in 0 .. count' - 1
      BY <2>1, ModBound
    <2> QED BY <2>1, <2>2 DEF Successor
  <1>2. count' \in 1 .. MaxActive /\ current \in 0 .. count'
    BY DEF RunInv, RunOK, NewOK
  <1>3. ASSUME NoSwitch(st, ctx, c) PROVE RunInv'
    BY <1>2, <1>3 DEF NoSwitch, RunInv, RunOK, NewOK, SpaceInv,
                      OnlyCurrentRuns, TableOfCurrent
  <1>4. ASSUME NEW n \in 1 .. count', ContextSwitch(n, st, ctx, c)
        PROVE  RunInv'
    <2>1. n \in Thread /\ n # NoThread
      BY <1>2 DEF Thread, NoThread
    <2>2. current # NoThread => current \in Thread
      BY <1>2 DEF Thread, NoThread
    <2>3. state' \in [Thread -> ThreadState] /\ OnlyCurrentRuns'
      BY <1>4, <2>1 DEF ContextSwitch, ThreadState, OnlyCurrentRuns
    <2>4. context' \in [Thread -> Context] /\ cpu' \in Context
      BY <1>4, <2>1, <2>2 DEF ContextSwitch
    <2>5. currentTable' \in Pid /\ TableOfCurrent'
      BY <1>4, <2>1, <2>2 DEF ContextSwitch, ChangesSpace, TableOfCurrent,
                              RunInv, RunOK, NewOK, SpaceInv
    <2>6. current' \in 0 .. count'
      BY <1>2, <1>4 DEF ContextSwitch
    <2> QED BY <2>3, <2>4, <2>5, <2>6 DEF RunInv, RunOK, SpaceInv
  <1> QED BY <1>1, <1>3, <1>4 DEF Preempt

\* The tail of every instruction preserves the invariant.
LEMMA InstructionRunInv ==
    ASSUME RunInv, NewOK, NewOK',
           NEW st \in [Thread -> ThreadState], NEW ctx \in [Thread -> Context],
           NEW c \in Context,
           \A t \in Thread : st[t] = "RUNNING" => state[t] = "RUNNING",
           Executing, count <= count', parent'[current] = parent[current],
           EndOfInstruction(st, ctx, c)
    PROVE  RunInv'
  <1> USE ConstantsOK
  <1>1. ticks' \in 0 .. QUANTUM - 1
    <2>1. ticks + 1 \in Nat /\ QUANTUM \in Nat \ {0}
      BY DEF RunInv, RunOK
    <2> QED BY <2>1, ModBound DEF EndOfInstruction
  <1>2. \A t \in Thread : st[t] = "RUNNING" => t = current
    BY DEF RunInv, SpaceInv, OnlyCurrentRuns
  <1>3. count' # 0 /\ current \in 0 .. count' /\ current # NoThread
    BY DEF Executing, RunInv, RunOK, NewOK, NoThread
  <1>4. CASE Preempt(st, ctx, c)
    BY <1>1, <1>2, <1>3, <1>4, PreemptRunInv
  <1>5. CASE NoSwitch(st, ctx, c)
    BY <1>1, <1>2, <1>3, <1>5 DEF NoSwitch, RunInv, RunOK, SpaceInv,
                                  OnlyCurrentRuns, TableOfCurrent
  <1> QED BY <1>4, <1>5 DEF EndOfInstruction

-----------------------------------------------------------------------------
(***************************************************************************)
(* The actions.                                                            *)
(***************************************************************************)
\* Every instruction a program executes is one the kernel knows.
LEMMA InstructionType == Instruction \subseteq ProgramCounter
  <1>1. [call: {"exit", "thread_exit"}, arg: Codes] \subseteq ProgramCounter
    <2> SUFFICES ASSUME NEW i \in [call: {"exit", "thread_exit"}, arg: Codes]
                 PROVE  i \in ProgramCounter
      BY Zenon
    <2>1. i.arg \in Codes
      OBVIOUS
    <2>2. i.arg \in Nat
      BY <2>1, ConstantsOK, Zenon DEF ConstantsOK
    <2> QED BY <2>2 DEF ProgramCounter, CallNames
  <1>2. [call: {"thread_create"}, arg: {0, 1}] \subseteq ProgramCounter
    BY ConstantsOK DEF ProgramCounter, CallNames
  <1>3. [call: {"thread_join"}, arg: 0 .. MAX_THREADS] \subseteq ProgramCounter
    BY ConstantsOK DEF ProgramCounter, CallNames
  <1>4. [call: {"mutex_lock", "mutex_unlock"}, arg: 0 .. MaxMutex]
            \subseteq ProgramCounter
    BY ConstantsOK DEF ProgramCounter, CallNames
  <1>5. [call: {"create_process"}, arg: File] \subseteq ProgramCounter
    BY ConstantsOK DEF ProgramCounter, CallNames, File, BadFile, NoExecFile, GoodFile
  <1>6. [call: {"join_process"}, arg: 0 .. MAX_PROCESS] \subseteq ProgramCounter
    BY ConstantsOK DEF ProgramCounter, CallNames
  <1>7. [call: {"mutex_create", "unknown"}, arg: {0}] \subseteq ProgramCounter
    BY ConstantsOK DEF ProgramCounter, CallNames
  <1> QED BY <1>1, <1>2, <1>3, <1>4, <1>5, <1>6, <1>7, Zenon DEF Instruction

LEMMA ExecutableType == cpu \in Context => Executable \subseteq ProgramCounter
  BY InstructionType DEF Executable, Program, Context

LEMMA PastEcallType == cpu \in Context => [cpu EXCEPT !.pc = Fresh] \in Context
  BY DEF Context, Fresh, ProgramCounter

LEMMA RegistersType ==
    /\ \A v \in Int : Returning(v) \in Context
    /\ \A i \in ProgramCounter : cpu \in Context => Suspended(i) \in Context
  BY DEF Returning, Suspended, Context, Fresh, ProgramCounter

\* The inductive invariant, grouped as the actions change the variables.
Inv == status \in Status /\ RunInv /\ NewOK /\ JoinOK /\ PcbOK /\ WaitOK

\* Cardinalities of sets of threads are natural numbers.
LEMMA ThreadSetCardinality ==
    ASSUME NEW S \in SUBSET Thread
    PROVE  Cardinality(S) \in Nat
  <1>1. IsFiniteSet(Thread)
    BY FS_Interval, ConstantsOK DEF Thread
  <1> QED BY <1>1, FS_Subset, FS_CardinalityType

\* The running thread and its process.
LEMMA ExecutingType ==
    ASSUME Inv, Executing
    PROVE  current \in Thread /\ current <= count /\ proc \in Pid
  BY ConstantsOK DEF Inv, RunInv, RunOK, NewOK, Executing, Thread, NoThread, proc

\* A group exit with registers c, or the panic in its place.
LEMMA TerminateInv ==
    ASSUME Inv, Executing, NEW p \in Pid, NEW code \in Int, NEW c \in Context,
           Terminate(p, code, c)
    PROVE  Inv'
  <1> USE DEF Inv
  <1>1. CASE Panic
    BY <1>1 DEF Panic, runVars, newVars, joinVars, pcbVars, waitVars, Status,
       RunInv, RunOK, SpaceInv, OnlyCurrentRuns, TableOfCurrent, NewOK, JoinOK,
       PcbOK, WaitOK
  <1>2. CASE active[p] /\ ~Panic
    <2> DEFINE st == StatesAfterTerminate(p)
    <2>1. st \in [Thread -> ThreadState]
      BY DEF StatesAfterTerminate, RunInv, RunOK, ThreadState
    <2>2. \A t \in Thread : st[t] = "RUNNING" => state[t] = "RUNNING"
      BY DEF StatesAfterTerminate
    <2>3. NewOK' /\ JoinOK' /\ PcbOK' /\ WaitOK' /\ status' \in Status
      <3>1. NewOK' /\ JoinOK'
        BY <1>2 DEF Terminate, newVars, joinVars, NewOK, JoinOK
      <3>2. PcbOK' /\ status' \in Status
        <4>1. /\ active' = [active EXCEPT ![p] = FALSE] /\ threads' = threads
              /\ mutexList' = mutexList /\ status' = status
          BY <1>2 DEF Terminate
        <4>2. PcbOK /\ status \in Status
          OBVIOUS
        <4> QED BY <4>1, <4>2 DEF PcbOK
      <3>3. WaitOK'
        BY <1>2 DEF Terminate, EraseWaiters, WaitOK
      <3> QED BY <3>1, <3>2, <3>3
    <2>4. count <= count' /\ parent'[current] = parent[current]
      BY <1>2 DEF Terminate, newVars, NewOK
    <2>5. EndOfInstruction(st, context, c)
      BY <1>2 DEF Terminate
    <2>6. context \in [Thread -> Context]
      BY DEF RunInv, RunOK
    <2> HIDE DEF st
    <2> QED BY <2>1, <2>2, <2>3, <2>4, <2>5, <2>6, InstructionRunInv
  <1> QED BY <1>1, <1>2 DEF Terminate

\* The frame of a system call that creates no thread: it is enough to look
\* at the states, contexts and registers it hands to EndOfInstruction.
LEMMA CallInv ==
    ASSUME Inv, Executing, UNCHANGED newVars, status' \in Status,
           JoinOK', PcbOK', WaitOK',
           NEW st \in [Thread -> ThreadState], NEW ctx \in [Thread -> Context],
           NEW c \in Context,
           \A t \in Thread : st[t] = "RUNNING" => state[t] = "RUNNING",
           EndOfInstruction(st, ctx, c)
    PROVE  Inv'
  <1>1. NewOK' /\ count <= count' /\ parent'[current] = parent[current]
    BY DEF newVars, Inv, NewOK
  <1> QED BY <1>1, InstructionRunInv DEF Inv

LEMMA BlockedStates ==
    ASSUME Inv, Executing
    PROVE  /\ [state EXCEPT ![current] = "BLOCKED"] \in [Thread -> ThreadState]
           /\ \A t \in Thread : [state EXCEPT ![current] = "BLOCKED"][t] = "RUNNING"
                                    => state[t] = "RUNNING"
  BY ExecutingType DEF Inv, RunInv, RunOK, ThreadState

LEMMA SameStates ==
    Inv => /\ state \in [Thread -> ThreadState]
           /\ context \in [Thread -> Context]
           /\ cpu \in Context
  BY DEF Inv, RunInv, RunOK

LEMMA ExitInv ==
    ASSUME Inv, NEW i \in ProgramCounter, Exit(i)
    PROVE  Inv'
  <1>1. Executing /\ Terminate(proc, i.arg, Suspended(i))
    BY DEF Exit, Ecall
  <1>2. i.arg \in Int
    BY DEF ProgramCounter
  <1> QED BY <1>1, <1>2, ExecutingType, TerminateInv, RegistersType, SameStates

LEMMA MutexErrorInv ==
    ASSUME Inv, NEW i \in ProgramCounter, MutexError(i)
    PROVE  Inv'
  <1>1. Executing /\ Terminate(proc, Crashed, Returning(-1))
    BY DEF MutexError, Ecall
  <1>2. Crashed \in Int /\ Returning(-1) \in Context
    BY RegistersType DEF Crashed
  <1> QED BY <1>1, <1>2, ExecutingType, TerminateInv

LEMMA SegmentationFaultInv ==
    ASSUME Inv, SegmentationFault
    PROVE  Inv'
  <1>1. Executing /\ Terminate(proc, Crashed, cpu) /\ Crashed \in Int
    BY DEF SegmentationFault, Crashed
  <1> QED BY <1>1, ExecutingType, TerminateInv, SameStates

LEMMA ComputeInv ==
    ASSUME Inv, Compute \/ PageFault
    PROVE  Inv'
  <1>0. PICK c \in Context :
          /\ Executing
          /\ UNCHANGED <<status, newVars, joinVars, pcbVars, waitVars>>
          /\ EndOfInstruction(state, context, c)
    BY PastEcallType, SameStates DEF Compute, PageFault
  <1>1. /\ Executing
        /\ UNCHANGED <<status, newVars, joinVars, pcbVars, waitVars>>
        /\ EndOfInstruction(state, context, c)
    BY <1>0
  <1>2. status' \in Status /\ JoinOK' /\ PcbOK' /\ WaitOK'
    BY <1>1 DEF joinVars, pcbVars, waitVars, Inv, JoinOK, PcbOK, WaitOK
  <1> QED BY <1>1, <1>2, CallInv, SameStates

LEMMA ThreadExitInv ==
    ASSUME Inv, NEW i \in ProgramCounter, ThreadExit(i)
    PROVE  Inv'
  <1> DEFINE dead == [state EXCEPT ![current] = "TERMINATED"]
             j == joiner[current]
             woken == [dead EXCEPT ![j] = "READY"]
  <1>1. Executing /\ current \in Thread
    BY ExecutingType DEF ThreadExit, Ecall
  <1>2. i.arg \in Int /\ Suspended(i) \in Context
    BY RegistersType, SameStates DEF ProgramCounter
  <1>3. UNCHANGED newVars /\ status' \in Status /\ JoinOK' /\ PcbOK' /\ WaitOK'
    BY <1>1, <1>2 DEF ThreadExit, pcbVars, waitVars, Inv, JoinOK, PcbOK, WaitOK
  <1>4. /\ dead \in [Thread -> ThreadState]
        /\ \A t \in Thread : dead[t] = "RUNNING" => state[t] = "RUNNING"
    BY <1>1, SameStates DEF ThreadState
  <1>5. CASE j = NoThread
    <2>1. EndOfInstruction(dead, context, Suspended(i))
      BY <1>5 DEF ThreadExit
    <2> QED BY <1>1, <1>2, <1>3, <1>4, <2>1, CallInv, SameStates
  <1>6. CASE j # NoThread
    <2>1. EndOfInstruction(woken, Delivered(j, i.arg), Suspended(i))
      BY <1>6 DEF ThreadExit
    <2>2. j \in Thread
      BY <1>1, <1>6 DEF Inv, JoinOK
    <2>3. /\ woken \in [Thread -> ThreadState]
          /\ \A t \in Thread : woken[t] = "RUNNING" => state[t] = "RUNNING"
      BY <1>4, <2>2 DEF ThreadState
    <2>4. Delivered(j, i.arg) \in [Thread -> Context]
      BY <1>2, <2>2, RegistersType, SameStates DEF Delivered
    <2> HIDE DEF woken
    <2> QED BY <1>1, <1>2, <1>3, <2>1, <2>3, <2>4, CallInv
  <1> QED BY <1>5, <1>6

LEMMA ThreadJoinInv ==
    ASSUME Inv, NEW i \in ProgramCounter, ThreadJoin(i)
    PROVE  Inv'
  <1>1. Executing /\ current \in Thread /\ proc \in Pid
    BY ExecutingType DEF ThreadJoin, Ecall
  <1>2. /\ UNCHANGED newVars /\ status' \in Status /\ PcbOK' /\ WaitOK'
        /\ exitCode' = exitCode
    BY DEF ThreadJoin, pcbVars, waitVars, Inv, PcbOK, WaitOK
  <1>3. Suspended(i) \in Context /\ Returning(-1) \in Context
    BY RegistersType, SameStates
  <1>4. CASE UNCHANGED <<joiner, hasBeenJoined>> /\ EndOfInstruction(state, context, Returning(-1))
    <2>1. JoinOK'
      BY <1>2, <1>4 DEF Inv, JoinOK
    <2> QED BY <1>1, <1>2, <1>3, <1>4, <2>1, CallInv, SameStates
  <1>5. ASSUME NEW t \in threads[proc],
               hasBeenJoined' = [hasBeenJoined EXCEPT ![t] = TRUE],
               UNCHANGED joiner,
               EndOfInstruction(state, context, Returning(exitCode[t]))
        PROVE  Inv'
    <2>1. t \in Thread
      BY <1>1 DEF Inv, PcbOK
    <2>2. JoinOK' /\ exitCode[t] \in Int
      BY <1>2, <1>5, <2>1 DEF Inv, JoinOK
    <2>3. Returning(exitCode[t]) \in Context
      BY <2>2, RegistersType
    <2> QED BY <1>1, <1>2, <1>5, <2>2, <2>3, CallInv, SameStates
  <1>6. ASSUME NEW t \in threads[proc],
               hasBeenJoined' = [hasBeenJoined EXCEPT ![t] = TRUE],
               joiner' = [joiner EXCEPT ![t] = current],
               EndOfInstruction([state EXCEPT ![current] = "BLOCKED"],
                                context, Suspended(i))
        PROVE  Inv'
    <2>1. t \in Thread
      BY <1>1 DEF Inv, PcbOK
    <2>2. JoinOK'
      BY <1>1, <1>2, <1>6, <2>1 DEF Inv, JoinOK
    <2> QED BY <1>1, <1>2, <1>3, <1>6, <2>2, CallInv, SameStates, BlockedStates
  <1> QED BY <1>4, <1>5, <1>6 DEF ThreadJoin

\* A mutex operation keeps the list of the process a list of mutexes.
LEMMA MutexStep ==
    ASSUME Inv, Executing, NEW k \in 1 .. Len(mutexList[proc]),
           NEW m \in MutexRecord,
           mutexList' = [mutexList EXCEPT ![proc][k] = m],
           UNCHANGED <<active, threads>>
    PROVE  PcbOK'
  <1>1. proc \in Pid
    BY ExecutingType
  <1>2. mutexList[proc] \in Seq(MutexRecord)
    BY <1>1 DEF Inv, PcbOK
  <1>3. [mutexList[proc] EXCEPT ![k] = m] \in Seq(MutexRecord)
    BY <1>2
  <1>4. mutexList' = [mutexList EXCEPT ![proc] = [mutexList[proc] EXCEPT ![k] = m]]
    BY <1>1 DEF Inv, PcbOK
  <1> QED BY <1>1, <1>3, <1>4 DEF Inv, PcbOK

LEMMA FreeMutexType == FreeMutex \in MutexRecord
  BY DEF FreeMutex, MutexRecord

LEMMA UsableMutexType ==
    ASSUME Inv, Executing, NEW i \in ProgramCounter, UsableMutex(i)
    PROVE  /\ i.arg + 1 \in 1 .. Len(mutexList[proc])
           /\ mutexList[proc][i.arg + 1] \in MutexRecord
  <1>1. mutexList[proc] \in Seq(MutexRecord)
    BY ExecutingType DEF Inv, PcbOK
  <1>2. i.arg + 1 \in 1 .. Len(mutexList[proc])
    BY <1>1 DEF UsableMutex, ProgramCounter
  <1> QED BY <1>1, <1>2

LEMMA MutexCreateInv ==
    ASSUME Inv, NEW i \in ProgramCounter, MutexCreate(i)
    PROVE  Inv'
  <1>1. Executing /\ proc \in Pid
    BY ExecutingType DEF MutexCreate, Ecall
  <1>2. UNCHANGED newVars /\ status' \in Status /\ JoinOK' /\ WaitOK'
    BY DEF MutexCreate, joinVars, waitVars, Inv, JoinOK, WaitOK
  <1>3. mutexList[proc] \in Seq(MutexRecord)
    BY <1>1 DEF Inv, PcbOK
  <1>4. PcbOK'
    <2>1. Append(mutexList[proc], FreeMutex) \in Seq(MutexRecord)
      BY <1>3, FreeMutexType
    <2>2. mutexList' = [mutexList EXCEPT ![proc] = Append(mutexList[proc], FreeMutex)]
      BY <1>1 DEF MutexCreate, Inv, PcbOK
    <2>3. active' = active /\ threads' = threads
      BY DEF MutexCreate
    <2> QED BY <1>1, <2>1, <2>2, <2>3 DEF Inv, PcbOK
  <1>5. Returning(Len(mutexList[proc])) \in Context
    BY <1>3, RegistersType
  <1>6. EndOfInstruction(state, context, Returning(Len(mutexList[proc])))
    BY DEF MutexCreate
  <1> QED BY <1>1, <1>2, <1>4, <1>5, <1>6, CallInv, SameStates

LEMMA AcquireType ==
    ASSUME NEW m \in MutexRecord, NEW t \in Thread
    PROVE  Acquire(m, t) \in MutexRecord
  BY DEF Acquire, MutexRecord

LEMMA MutexLockInv ==
    ASSUME Inv, NEW i \in ProgramCounter, MutexLock(i)
    PROVE  Inv'
  <1> DEFINE m == mutexList[proc][i.arg + 1]
  <1>1. Executing /\ current \in Thread
    BY ExecutingType DEF MutexLock, Ecall
  <1>2. UNCHANGED newVars /\ status' \in Status /\ JoinOK' /\ WaitOK'
    BY DEF MutexLock, joinVars, waitVars, Inv, JoinOK, WaitOK
  <1>3. i.arg + 1 \in 1 .. Len(mutexList[proc]) /\ m \in MutexRecord
    BY <1>1, UsableMutexType DEF MutexLock
  <1>4. /\ mutexList' = [mutexList EXCEPT ![proc][i.arg + 1] = Acquire(m, current)]
        /\ UNCHANGED <<active, threads>>
    BY DEF MutexLock
  <1>5. PcbOK'
    BY <1>1, <1>3, <1>4, AcquireType, MutexStep
  <1>6. Suspended(i) \in Context /\ Returning(0) \in Context
    BY RegistersType, SameStates
  <1>7. CASE m.locked
    BY <1>1, <1>2, <1>5, <1>6, <1>7, CallInv, SameStates, BlockedStates
       DEF MutexLock
  <1>8. CASE ~m.locked
    BY <1>1, <1>2, <1>5, <1>6, <1>8, CallInv, SameStates DEF MutexLock
  <1> QED BY <1>7, <1>8

LEMMA MutexUnlockInv ==
    ASSUME Inv, NEW i \in ProgramCounter, MutexUnlock(i)
    PROVE  Inv'
  <1> DEFINE m == mutexList[proc][i.arg + 1]
             st == [t \in Thread |-> IF t \in Woken(m) THEN "READY" ELSE state[t]]
  <1>1. Executing
    BY DEF MutexUnlock, Ecall
  <1>2. UNCHANGED newVars /\ status' \in Status /\ JoinOK' /\ WaitOK'
    BY DEF MutexUnlock, joinVars, waitVars, Inv, JoinOK, WaitOK
  <1>3. i.arg + 1 \in 1 .. Len(mutexList[proc])
    BY <1>1, UsableMutexType DEF MutexUnlock
  <1>4. /\ mutexList' = [mutexList EXCEPT ![proc][i.arg + 1] = FreeMutex]
        /\ UNCHANGED <<active, threads>>
    BY DEF MutexUnlock, Release
  <1>5. PcbOK'
    BY <1>1, <1>3, <1>4, FreeMutexType, MutexStep
  <1>6. Returning(0) \in Context
    BY RegistersType
  <1>7. /\ st \in [Thread -> ThreadState]
        /\ \A t \in Thread : st[t] = "RUNNING" => state[t] = "RUNNING"
    BY SameStates DEF ThreadState
  <1>8. EndOfInstruction(st, context, Returning(0))
    BY DEF MutexUnlock
  <1> HIDE DEF st
  <1> QED BY <1>1, <1>2, <1>5, <1>6, <1>7, <1>8, CallInv, SameStates

LEMMA JoinProcessInv ==
    ASSUME Inv, NEW i \in ProgramCounter, JoinProcess(i)
    PROVE  Inv'
  <1>1. Executing /\ current \in Thread
    BY ExecutingType DEF JoinProcess, Ecall
  <1>2. UNCHANGED newVars /\ status' \in Status /\ JoinOK' /\ PcbOK'
    BY DEF JoinProcess, joinVars, pcbVars, Inv, JoinOK, PcbOK
  <1>3. /\ Returning(1) \in Context /\ Returning(-1) \in Context
        /\ Suspended(i) \in Context
    BY RegistersType, SameStates
  <1>4. WaitOK'
    BY <1>1 DEF JoinProcess, waitVars, Inv, WaitOK, NoCode
  <1>5. \/ EndOfInstruction(state, context, Returning(1))
        \/ EndOfInstruction(state, context, Returning(-1))
        \/ EndOfInstruction([state EXCEPT ![current] = "BLOCKED"], context,
                            Suspended(i))
    BY DEF JoinProcess
  <1> QED BY <1>1, <1>2, <1>3, <1>4, <1>5, CallInv, SameStates, BlockedStates

\* A new thread gets a tid below MAX_THREADS and touches no other thread.
LEMMA CreateThreadInv ==
    ASSUME Inv, count < MaxActive, NEW p \in Pid, NEW S \in SUBSET Thread,
           Cardinality(S) < MAX_THREADS, CreateThread(count + 1, p, S)
    PROVE  /\ NewOK'
           /\ threads' \in [Pid -> SUBSET Thread]
           /\ count' = count + 1
           /\ \A t \in Thread : t <= count => parent'[t] = parent[t]
           /\ [state EXCEPT ![count + 1] = "READY"] \in [Thread -> ThreadState]
           /\ \A t \in Thread : [state EXCEPT ![count + 1] = "READY"][t] = "RUNNING"
                                    => state[t] = "RUNNING"
  <1>1. count + 1 \in Thread /\ count + 1 \in 0 .. MaxActive /\ count \in Nat
    BY ConstantsOK DEF Inv, NewOK, Thread
  <1>2. Cardinality(S) \in 0 .. MAX_THREADS - 1
    BY ThreadSetCardinality, ConstantsOK
  <1>3. NewOK' /\ count' = count + 1
    BY <1>1, <1>2 DEF CreateThread, Inv, NewOK
  <1>4. threads' \in [Pid -> SUBSET Thread]
    BY <1>1 DEF CreateThread, Inv, PcbOK
  <1>5. \A t \in Thread : t <= count => parent'[t] = parent[t]
    BY <1>1 DEF CreateThread, Inv, NewOK, Thread
  <1>6. [state EXCEPT ![count + 1] = "READY"] \in [Thread -> ThreadState]
    BY <1>1, SameStates DEF ThreadState
  <1>7. \A t \in Thread : [state EXCEPT ![count + 1] = "READY"][t] = "RUNNING"
                              => state[t] = "RUNNING"
    BY <1>1, SameStates
  <1> QED BY <1>3, <1>4, <1>5, <1>6, <1>7

\* The frame of a system call that creates a thread.
LEMMA CreatingCallInv ==
    ASSUME Inv, Executing, count < MaxActive, NEW p \in Pid,
           NEW S \in SUBSET Thread, Cardinality(S) < MAX_THREADS,
           CreateThread(count + 1, p, S),
           status' \in Status, JoinOK', WaitOK',
           threads' \in [Pid -> SUBSET Thread] => PcbOK',
           NEW c \in Context,
           EndOfInstruction([state EXCEPT ![count + 1] = "READY"], context, c)
    PROVE  Inv'
  <1>1. current \in Thread /\ current <= count
    BY ExecutingType
  <1>2. PcbOK' /\ NewOK' /\ count <= count' /\ parent'[current] = parent[current]
    BY <1>1, CreateThreadInv DEF Inv, NewOK
  <1>3. RunInv'
    BY <1>2, CreateThreadInv, InstructionRunInv, SameStates DEF Inv
  <1> QED BY <1>2, <1>3 DEF Inv

LEMMA ThreadCreateInv ==
    ASSUME Inv, NEW i \in ProgramCounter, ThreadCreate(i)
    PROVE  Inv'
  <1>1. Executing /\ proc \in Pid
    BY ExecutingType DEF ThreadCreate, Ecall
  <1>2. status' \in Status /\ JoinOK' /\ WaitOK' /\ UNCHANGED <<active, mutexList>>
    BY DEF ThreadCreate, joinVars, waitVars, Inv, JoinOK, WaitOK
  <1>3. threads[proc] \in SUBSET Thread /\ Cardinality(threads[proc]) \in Nat
    BY <1>1, ThreadSetCardinality DEF Inv, PcbOK
  <1>4. CASE /\ UNCHANGED <<newVars, threads>>
             /\ EndOfInstruction(state, context, Returning(-1))
    <2>1. PcbOK' /\ Returning(-1) \in Context
      BY <1>2, <1>4, RegistersType DEF Inv, PcbOK
    <2> QED BY <1>1, <1>2, <1>4, <2>1, CallInv, SameStates
  <1>5. CASE /\ ~TooManyThreads
             /\ count < MaxActive
             /\ CreateThread(count + 1, proc, threads[proc])
             /\ EndOfInstruction([state EXCEPT ![count + 1] = "READY"], context,
                                 Returning(Cardinality(threads[proc])))
    <2>1. Cardinality(threads[proc]) < MAX_THREADS
      BY <1>3, <1>5, ConstantsOK DEF TooManyThreads
    <2>2. Returning(Cardinality(threads[proc])) \in Context
      BY <1>3, RegistersType
    <2>3. threads' \in [Pid -> SUBSET Thread] => PcbOK'
      BY <1>2 DEF Inv, PcbOK
    <2> QED BY <1>1, <1>2, <1>3, <1>5, <2>1, <2>2, <2>3, CreatingCallInv
  <1> QED BY <1>4, <1>5 DEF ThreadCreate

\* loadELF keeps the process table well formed; the main thread of a new
\* process is the first of its threads.
LEMMA LoadELFInv ==
    ASSUME Inv, NEW file \in Int, NEW p \in Pid, LoadELF(file, p)
    PROVE  /\ threads' \in [Pid -> SUBSET Thread] => PcbOK'
           /\ file = GoodFile => /\ count < MaxActive
                                 /\ CreateThread(count + 1, p, {})
           /\ file # GoodFile => UNCHANGED newVars /\ PcbOK'
  <1>1. <<>> \in Seq(MutexRecord) /\ {} \in SUBSET Thread
    OBVIOUS
  <1>2. mutexList' \in [Pid -> Seq(MutexRecord)] /\ active' \in [Pid -> BOOLEAN]
    BY <1>1 DEF LoadELF, Inv, PcbOK
  <1>3. file # GoodFile => threads' \in [Pid -> SUBSET Thread]
    BY <1>1 DEF LoadELF, Inv, PcbOK
  <1> QED BY <1>2, <1>3 DEF LoadELF, PcbOK

LEMMA NoSiblings == {} \in SUBSET Thread /\ Cardinality({}) < MAX_THREADS
  BY FS_EmptySet, ConstantsOK

LEMMA CreateProcessInv ==
    ASSUME Inv, NEW i \in ProgramCounter, CreateProcess(i)
    PROVE  Inv'
  <1>1. Executing /\ i.arg \in Int
    BY DEF CreateProcess, Ecall, ProgramCounter
  <1>2. status' \in Status /\ JoinOK' /\ WaitOK'
    BY DEF CreateProcess, joinVars, waitVars, Inv, JoinOK, WaitOK
  <1>3. Returning(-1) \in Context /\ \A p \in Pid : Returning(p) \in Context
    BY RegistersType DEF Pid
  <1>4. CASE /\ UNCHANGED <<newVars, pcbVars>>
             /\ EndOfInstruction(state, context, Returning(-1))
    <2>1. PcbOK'
      BY <1>4 DEF pcbVars, Inv, PcbOK
    <2> QED BY <1>1, <1>2, <1>3, <1>4, <2>1, CallInv, SameStates
  <1>5. ASSUME NEW p \in Pid, LoadELF(i.arg, p), i.arg = GoodFile,
               EndOfInstruction([state EXCEPT ![count + 1] = "READY"],
                                context, Returning(p))
        PROVE  Inv'
    BY <1>1, <1>2, <1>3, <1>5, LoadELFInv, NoSiblings, CreatingCallInv
  <1>6. ASSUME NEW p \in Pid, LoadELF(i.arg, p), i.arg # GoodFile,
               EndOfInstruction(state, context, Returning(-1))
        PROVE  Inv'
    BY <1>1, <1>2, <1>3, <1>6, LoadELFInv, CallInv, SameStates
  <1> QED BY <1>4, <1>5, <1>6 DEF CreateProcess

LEMMA LoadApplicationInv ==
    ASSUME Inv, NEW file \in File, LoadApplication(file)
    PROVE  Inv'
  <1>1. file \in Int
    BY DEF File, BadFile, NoExecFile, GoodFile
  <1>2. JoinOK' /\ WaitOK' /\ status' \in Status
    BY DEF LoadApplication, joinVars, waitVars, Inv, JoinOK, WaitOK, Status
  <1>3. UNCHANGED <<ticks, cpu, currentTable, current, context>>
    BY DEF LoadApplication
  <1>4. CASE UNCHANGED <<state, newVars>> /\ PcbOK'
    BY <1>2, <1>3, <1>4 DEF newVars, Inv, NewOK, RunInv, RunOK, SpaceInv,
       OnlyCurrentRuns, TableOfCurrent
  <1>5. ASSUME NEW p \in Pid, LoadELF(file, p), file = GoodFile,
               state' = [state EXCEPT ![count + 1] = "READY"]
        PROVE  Inv'
    <2>1. count < MaxActive /\ CreateThread(count + 1, p, {})
      BY <1>1, <1>5, LoadELFInv
    <2>2. PcbOK' /\ NewOK' /\ count' = count + 1
      BY <1>1, <1>5, <2>1, LoadELFInv, CreateThreadInv, NoSiblings
    <2>3. RunOK' /\ OnlyCurrentRuns'
      BY <1>3, <1>5, <2>1, <2>2, CreateThreadInv, NoSiblings
         DEF Inv, RunInv, RunOK, SpaceInv, OnlyCurrentRuns, NewOK
    <2>4. current # NoThread => current \in Thread /\ current <= count
      BY ConstantsOK DEF Inv, RunInv, RunOK, NewOK, Thread, NoThread
    <2>5. TableOfCurrent'
      BY <1>3, <2>1, <2>4, CreateThreadInv, NoSiblings
         DEF Inv, RunInv, SpaceInv, TableOfCurrent
    <2> QED BY <1>2, <2>2, <2>3, <2>5 DEF Inv, RunInv, SpaceInv
  <1>6. ASSUME NEW p \in Pid, LoadELF(file, p), file # GoodFile, UNCHANGED state
        PROVE  Inv'
    BY <1>1, <1>4, <1>6, LoadELFInv
  <1>7. CASE UNCHANGED <<state, newVars, pcbVars>>
    BY <1>4, <1>7 DEF pcbVars, Inv, PcbOK
  <1> QED BY <1>5, <1>6, <1>7 DEF LoadApplication

\* Steps that at most change status.
LEMMA StatusInv ==
    ASSUME Inv, status' \in Status,
           UNCHANGED <<runVars, newVars, joinVars, pcbVars, waitVars>>
    PROVE  Inv'
  BY DEF Inv, runVars, newVars, joinVars, pcbVars, waitVars, RunInv, RunOK,
     SpaceInv, OnlyCurrentRuns, TableOfCurrent, NewOK, JoinOK, PcbOK, WaitOK

\* Steps that only schedule.
LEMMA ScheduleInv ==
    ASSUME Inv, status' \in Status, count # 0, Preempt(state, context, cpu),
           UNCHANGED <<ticks, newVars, joinVars, pcbVars, waitVars>>
    PROVE  Inv'
  <1>1. NewOK' /\ JoinOK' /\ PcbOK' /\ WaitOK'
    BY DEF newVars, joinVars, pcbVars, waitVars, Inv, NewOK, JoinOK, PcbOK, WaitOK
  <1>2. /\ count' # 0 /\ count <= count' /\ ticks' \in 0 .. QUANTUM - 1
        /\ parent' = parent
    BY DEF newVars, Inv, NewOK, RunInv, RunOK
  <1>3. \A t \in Thread : state[t] = "RUNNING" => t = current
    BY DEF Inv, RunInv, SpaceInv, OnlyCurrentRuns
  <1> QED BY <1>1, <1>2, <1>3, PreemptRunInv, SameStates DEF Inv

LEMMA StartInv == Inv /\ Start => Inv'
  <1> SUFFICES ASSUME Inv, Start PROVE Inv'
    OBVIOUS
  <1>1. CASE count = 0
    BY <1>1, StatusInv DEF Start, Status, runVars
  <1>2. CASE count # 0
    BY <1>2, ScheduleInv DEF Start, Status
  <1> QED BY <1>1, <1>2

LEMMA RescheduleInv == Inv /\ Reschedule => Inv'
  <1> SUFFICES ASSUME Inv, Reschedule PROVE Inv'
    OBVIOUS
  <1>1. count # 0
    BY DEF Reschedule, AllTerminated
  <1>2. status' \in Status
    BY DEF Reschedule, Status
  <1> QED BY <1>1, <1>2, ScheduleInv DEF Reschedule

LEMMA SyscallInv ==
    ASSUME Inv, NEW i \in Executable, Syscall(i)
    PROVE  Inv'
  <1>1. i \in ProgramCounter
    BY ExecutableType, SameStates
  <1>2. CASE UnknownCall(i)
    BY <1>2, StatusInv DEF UnknownCall, Status
  <1> QED BY <1>1, <1>2, ExitInv, ThreadExitInv, ThreadCreateInv, ThreadJoinInv,
             MutexCreateInv, MutexLockInv, MutexUnlockInv, MutexErrorInv,
             CreateProcessInv, JoinProcessInv DEF Syscall

LEMMA InitInv == Init => Inv
  <1> SUFFICES ASSUME Init PROVE Inv
    OBVIOUS
  <1> USE ConstantsOK
  <1>1. 0 \in Pid /\ InitialContext \in Context
    BY DEF Pid, InitialContext, Context, Fresh, ProgramCounter
  <1>2. RunOK
    BY <1>1 DEF Init, RunOK, ThreadState, NoThread
  <1>3. NewOK
    BY <1>1 DEF Init, NewOK
  <1>4. JoinOK
    BY DEF Init, JoinOK
  <1>5. PcbOK
    BY DEF Init, PcbOK
  <1>6. WaitOK
    BY DEF Init, WaitOK, NoCode
  <1>7. SpaceInv
    BY DEF Init, SpaceInv, OnlyCurrentRuns, TableOfCurrent
  <1>8. status \in Status
    BY DEF Init, Status
  <1> QED BY <1>2, <1>3, <1>4, <1>5, <1>6, <1>7, <1>8 DEF Inv, RunInv

LEMMA NextInv == Inv /\ [Next]_vars => Inv'
  <1> SUFFICES ASSUME Inv, [Next]_vars PROVE Inv'
    OBVIOUS
  <1>1. CASE UNCHANGED vars
    BY <1>1, StatusInv DEF vars, Inv
  <1>2. CASE Halted
    BY <1>1, <1>2 DEF Halted
  <1>3. CASE LoopEnds
    BY <1>3, StatusInv DEF LoopEnds, Status
  <1>4. CASE IllegalInstruction
    BY <1>4, StatusInv DEF IllegalInstruction, Status
  <1>5. CASE Loop
    BY <1>3, <1>4, <1>5, SyscallInv, ComputeInv, SegmentationFaultInv, RescheduleInv
       DEF Loop
  <1> QED BY <1>1, <1>2, <1>5, LoadApplicationInv, StartInv DEF Next

\* Every state the kernel reaches is well formed: thread, process and mutex
\* tables hold what the code declares, and no process exceeds MAX_THREADS.
THEOREM TypeCorrect == Spec => []TypeOK
  <1>1. Inv => TypeOK
    BY TypeParts DEF Inv, RunInv
  <1> QED BY <1>1, InitInv, NextInv, PTL DEF Spec

\* Whatever the workload, only the current thread is RUNNING and the MMU
\* translates with the page table of its process.
THEOREM OwnSpace == Spec => []RunsInOwnSpace
  <1>1. Inv => RunsInOwnSpace
    <2> SUFFICES ASSUME Inv, NEW t \in Thread, state[t] = "RUNNING"
                 PROVE  t = current /\ currentTable = parent[t]
      BY DEF RunsInOwnSpace
    <2> QED BY DEF Inv, RunInv, SpaceInv, OnlyCurrentRuns, TableOfCurrent,
                   Thread, NoThread
  <1> QED BY <1>1, InitInv, NextInv, PTL DEF Spec

-----------------------------------------------------------------------------
(***************************************************************************)
(* Mutexes.                                                                *)
(***************************************************************************)
\* MutexHandover needs that a mutex nobody has locked has no owner either:
\* acquire overwrites owner when locked is false.
FreeHasNoOwner ==
    \A p \in Pid : \A k \in DOMAIN mutexList[p] :
        ~mutexList[p][k].locked => mutexList[p][k].owner = NoThread

\* All that one step can do to the mutexes: k of process p becomes m, a
\* mutex is added, or a process loses its mutexes.
Sets(p, k, m) ==
    /\ k \in DOMAIN mutexList[p]
    /\ mutexList' = [mutexList EXCEPT ![p] = [mutexList[p] EXCEPT ![k] = m]]
Adds(p) == mutexList' = [mutexList EXCEPT ![p] = Append(mutexList[p], FreeMutex)]
Clears(p) == mutexList' = [mutexList EXCEPT ![p] = <<>>]

MutexChange ==
    \/ mutexList' = mutexList
    \/ \E p \in Pid : Clears(p) \/ Adds(p)
    \/ \E p \in Pid : \E k \in DOMAIN mutexList[p] :
          \/ Sets(p, k, Acquire(mutexList[p][k], current))
          \/ Sets(p, k, FreeMutex) /\ mutexList[p][k].owner = current

LEMMA SyscallMutexChange ==
    ASSUME Inv, NEW i \in Executable, Syscall(i)
    PROVE  MutexChange
  <1>1. i \in ProgramCounter
    BY ExecutableType, SameStates
  <1>2. Executing /\ proc \in Pid
    BY ExecutingType DEF Syscall, Exit, ThreadExit, ThreadCreate, ThreadJoin,
       MutexCreate, MutexLock, MutexUnlock, MutexError, CreateProcess,
       JoinProcess, UnknownCall, Ecall
  <1>3. mutexList \in [Pid -> Seq(MutexRecord)]
    BY DEF Inv, PcbOK
  <1>4. CASE MutexCreate(i)
    <2>1. Adds(proc)
      BY <1>2, <1>3, <1>4 DEF MutexCreate, Adds
    <2> QED BY <1>2, <2>1 DEF MutexChange
  <1>5. CASE MutexLock(i)
    <2>1. i.arg + 1 \in DOMAIN mutexList[proc]
      BY <1>1, <1>2, <1>3, <1>5, UsableMutexType DEF MutexLock
    <2>2. Sets(proc, i.arg + 1, Acquire(mutexList[proc][i.arg + 1], current))
      BY <1>2, <1>3, <1>5, <2>1 DEF MutexLock, Sets
    <2> QED BY <1>2, <2>1, <2>2 DEF MutexChange
  <1>6. CASE MutexUnlock(i)
    <2>1. i.arg + 1 \in DOMAIN mutexList[proc]
      BY <1>1, <1>2, <1>3, <1>6, UsableMutexType DEF MutexUnlock
    <2>2. Sets(proc, i.arg + 1, FreeMutex)
      BY <1>2, <1>3, <1>6, <2>1 DEF MutexUnlock, Sets, Release
    <2>3. mutexList[proc][i.arg + 1].owner = current
      BY <1>6 DEF MutexUnlock, UsableMutex, Ecall
    <2> QED BY <1>2, <2>1, <2>2, <2>3 DEF MutexChange
  <1>7. CASE CreateProcess(i)
    <2>1. mutexList' = mutexList \/ \E p \in Pid : Clears(p)
      BY <1>7 DEF CreateProcess, LoadELF, pcbVars, Clears
    <2> QED BY <2>1 DEF MutexChange
  <1>8. CASE Exit(i) \/ MutexError(i)
    <2>1. mutexList' = mutexList
      BY <1>8 DEF Exit, MutexError, Terminate, Panic, pcbVars
    <2> QED BY <2>1 DEF MutexChange
  <1>9. CASE ThreadExit(i) \/ ThreadCreate(i) \/ ThreadJoin(i) \/ JoinProcess(i)
             \/ UnknownCall(i)
    <2>1. mutexList' = mutexList
      BY <1>9 DEF ThreadExit, ThreadCreate, ThreadJoin, JoinProcess,
         UnknownCall, pcbVars
    <2> QED BY <2>1 DEF MutexChange
  <1> QED BY <1>4, <1>5, <1>6, <1>7, <1>8, <1>9 DEF Syscall

LEMMA NextMutexChange == Inv /\ [Next]_vars => MutexChange
  <1> SUFFICES ASSUME Inv, [Next]_vars PROVE MutexChange
    OBVIOUS
  <1>1. CASE \E i \in Executable : Syscall(i)
    BY <1>1, SyscallMutexChange
  <1>2. CASE \E file \in File : LoadApplication(file)
    <2>1. mutexList' = mutexList \/ \E p \in Pid : Clears(p)
      BY <1>2 DEF LoadApplication, LoadELF, pcbVars, Clears
    <2> QED BY <2>1 DEF MutexChange
  <1>3. CASE \/ Compute \/ IllegalInstruction \/ PageFault
             \/ SegmentationFault \/ LoopEnds \/ Reschedule \/ Start \/ Halted
             \/ UNCHANGED vars
    <2>1. mutexList' = mutexList
      BY <1>3 DEF Compute, IllegalInstruction, PageFault, SegmentationFault,
         LoopEnds, Reschedule,
         Start, Halted, Terminate, Panic, pcbVars, vars
    <2> QED BY <2>1 DEF MutexChange
  <1> QED BY <1>1, <1>2, <1>3 DEF Next, Loop

\* What a change does to one mutex that exists before and after it.
LEMMA MutexChangeAt ==
    ASSUME Inv, MutexChange, NEW p \in Pid, NEW k \in DOMAIN mutexList'[p]
    PROVE  \/ k \notin DOMAIN mutexList[p] /\ mutexList'[p][k] = FreeMutex
           \/ /\ k \in DOMAIN mutexList[p]
              /\ mutexList[p][k] \in MutexRecord
              /\ \/ mutexList'[p][k] = mutexList[p][k]
                 \/ mutexList'[p][k] = Acquire(mutexList[p][k], current)
                 \/ /\ mutexList'[p][k] = FreeMutex
                    /\ mutexList[p][k].owner = current
  <1>1. /\ mutexList \in [Pid -> Seq(MutexRecord)]
        /\ mutexList[p] \in Seq(MutexRecord)
    BY DEF Inv, PcbOK
  <1>2. \A j \in DOMAIN mutexList[p] : mutexList[p][j] \in MutexRecord
    BY <1>1
  <1>3. CASE mutexList'[p] = mutexList[p]
    BY <1>2, <1>3
  <1>4. CASE \E q \in Pid : Clears(q)
    <2>1. mutexList'[p] = <<>> \/ mutexList'[p] = mutexList[p]
      BY <1>1, <1>4 DEF Clears
    <2>2. mutexList'[p] # <<>>
      OBVIOUS
    <2> QED BY <1>3, <2>1, <2>2
  <1>5. CASE \E q \in Pid : Adds(q)
    <2>1. \/ mutexList'[p] = Append(mutexList[p], FreeMutex)
          \/ mutexList'[p] = mutexList[p]
      BY <1>1, <1>5 DEF Adds
    <2>2. CASE mutexList'[p] = Append(mutexList[p], FreeMutex)
      <3>1. k \in 1 .. Len(mutexList[p]) + 1
        BY <1>1, <2>2
      <3>2. CASE k = Len(mutexList[p]) + 1
        BY <1>1, <2>2, <3>2
      <3>3. CASE k \in 1 .. Len(mutexList[p])
        BY <1>1, <1>2, <2>2, <3>3
      <3> QED BY <1>1, <3>1, <3>2, <3>3
    <2> QED BY <1>3, <2>1, <2>2
  <1>6. ASSUME NEW q \in Pid, NEW j \in DOMAIN mutexList[q],
               Sets(q, j, Acquire(mutexList[q][j], current))
        PROVE  /\ k \in DOMAIN mutexList[p]
               /\ \/ mutexList'[p][k] = mutexList[p][k]
                  \/ mutexList'[p][k] = Acquire(mutexList[p][k], current)
    BY <1>1, <1>6 DEF Sets
  <1>7. ASSUME NEW q \in Pid, NEW j \in DOMAIN mutexList[q],
               Sets(q, j, FreeMutex), mutexList[q][j].owner = current
        PROVE  /\ k \in DOMAIN mutexList[p]
               /\ \/ mutexList'[p][k] = mutexList[p][k]
                  \/ /\ mutexList'[p][k] = FreeMutex
                     /\ mutexList[p][k].owner = current
    BY <1>1, <1>7 DEF Sets
  <1> QED BY <1>2, <1>3, <1>4, <1>5, <1>6, <1>7 DEF MutexChange

\* acquire and a fresh mutex respect FreeHasNoOwner, and acquire changes the
\* owner only of a mutex that is not locked.
LEMMA AcquireEffect ==
    ASSUME NEW m \in MutexRecord, NEW t
    PROVE  /\ Acquire(m, t).locked
           /\ Acquire(m, t).owner # m.owner => ~m.locked /\ Acquire(m, t).owner = t
  BY DEF Acquire, MutexRecord

LEMMA FreeHasNoOwnerInductive ==
    Inv /\ FreeHasNoOwner /\ [Next]_vars => FreeHasNoOwner'
  <1> SUFFICES ASSUME Inv, FreeHasNoOwner, MutexChange,
                      NEW p \in Pid, NEW k \in DOMAIN mutexList'[p],
                      ~mutexList'[p][k].locked
               PROVE  mutexList'[p][k].owner = NoThread
    BY NextMutexChange DEF FreeHasNoOwner
  <1>1. FreeMutex.owner = NoThread
    BY DEF FreeMutex
  <1> QED BY <1>1, MutexChangeAt, AcquireEffect DEF FreeHasNoOwner

\* A mutex is taken only when free and only by the running thread, and given
\* up only by its owner, in every step of every behaviour.
THEOREM Handover == Spec => MutexHandover
  <1>1. Init => FreeHasNoOwner
    BY DEF Init, FreeHasNoOwner
  <1>2. Inv /\ FreeHasNoOwner /\ [Next]_vars =>
          \A p \in Pid : \A k \in DOMAIN mutexList[p] \cap DOMAIN mutexList'[p] :
             mutexList[p][k].owner # mutexList'[p][k].owner =>
                \/ mutexList[p][k].owner = NoThread /\ mutexList'[p][k].owner = current
                \/ mutexList[p][k].owner = current /\ mutexList'[p][k].owner = NoThread
    <2> SUFFICES ASSUME Inv, FreeHasNoOwner, MutexChange, NEW p \in Pid,
                        NEW k \in DOMAIN mutexList[p] \cap DOMAIN mutexList'[p],
                        mutexList[p][k].owner # mutexList'[p][k].owner
                 PROVE
                \/ mutexList[p][k].owner = NoThread /\ mutexList'[p][k].owner = current
                \/ mutexList[p][k].owner = current /\ mutexList'[p][k].owner = NoThread
      BY NextMutexChange
    <2>1. FreeMutex.owner = NoThread
      BY DEF FreeMutex
    <2> QED BY <2>1, MutexChangeAt, AcquireEffect DEF FreeHasNoOwner
  <1> QED BY <1>1, <1>2, InitInv, NextInv, FreeHasNoOwnerInductive, PTL
             DEF Spec, MutexHandover

-----------------------------------------------------------------------------
(***************************************************************************)
(* Who waits for what: the registry of waiting threads, and the effects a  *)
(* step can have on it.                                                    *)
(***************************************************************************)
\* The workloads without orphans: a thread that waits for a process is the
\* only thread of its own.
Alone == MAX_THREADS = 1 \/ "thread_create" \notin Calls
Solo == Alone \/ "join_process" \notin Calls

\* The places where a thread is registered to be woken: joiner of another
\* thread, the wait queue of a mutex, processWaiters.
Registration == [kind : {"join", "lock", "wait"}, of : Nat, at : Nat, thread : Thread]

\* joiner is not reset: a thread of F has left with thread_exit, and what its
\* joiner says is over.
Registry(F) ==
    {r \in Registration :
        \/ /\ r.kind = "join"
           /\ r.at = 0
           /\ r.of \in Thread \ F
           /\ joiner[r.of] = r.thread
        \/ /\ r.kind = "lock"
           /\ r.of \in Pid
           /\ r.at \in DOMAIN mutexList[r.of]
           /\ r.thread \in mutexList[r.of][r.at].waitQueue
        \/ /\ r.kind = "wait"
           /\ r.at = 0
           /\ r.of \in Pid
           /\ r.thread \in processWaiters[r.of]}

\* Registered threads do not run and are registered once; those that left
\* are registered nowhere, so that nothing brings them back.
WaitsOnce(F, st, R) ==
    /\ \A t \in F : st[t] = "TERMINATED"
    /\ \A r \in R : r.thread \notin F /\ st[r.thread] \in {"BLOCKED", "TERMINATED"}
    /\ \A r, s \in R : r.thread = s.thread => r = s

\* Objects that were not created are new, and in no process.
OnlyRestNew(st, cnt) == \A t \in Thread : st[t] = "NEW" <=> t > cnt
Listed(cnt, thr) == \A p \in Pid : thr[p] \subseteq 1 .. cnt

\* Who is alive belongs to a process that is; who died while registered is
\* registered where no wake-up comes from.
Rooted(st, cnt, par, act, thr, R) ==
    /\ \A t \in 1 .. cnt : st[t] # "TERMINATED" => act[par[t]] /\ t \in thr[par[t]]
    /\ \A p \in Pid : \A t \in thr[p] : t \in 1 .. cnt /\ par[t] = p
    /\ Alone => \A p \in Pid : \A t, u \in thr[p] : t = u
    /\ \A r \in R : r.kind = "join" =>
          /\ r.of \in 1 .. cnt
          /\ par[r.of] = par[r.thread]
          /\ st[r.thread] = "TERMINATED" => st[r.of] = "TERMINATED"
    /\ \A r \in R : r.kind = "lock" =>
          /\ par[r.thread] = r.of
          /\ st[r.thread] = "TERMINATED" => ~act[r.of]
    /\ \A r \in R : r.kind = "wait" =>
          /\ Alone
          /\ st[r.thread] # "TERMINATED"

Waiting(F) ==
    /\ F \subseteq Thread
    /\ WaitsOnce(F, state, Registry(F))
    /\ Solo => Rooted(state, count, parent, active, threads, Registry(F))

\* Programs make calls of the workload only.
Known == Program \cup {Fresh}
CallsKnown == cpu.pc \in Known /\ \A t \in Thread : context[t].pc \in Known

\* The loop never finds the current thread merely READY, in which case
\* preempt would find no other one and the loop would give up.
CurrentNotReady ==
    /\ status = "boot" => current = NoThread
    /\ status = "running" /\ current # NoThread => state[current] # "READY"

WaitInv ==
    /\ Inv
    /\ CallsKnown
    /\ CurrentNotReady
    /\ OnlyRestNew(state, count)
    /\ Listed(count, threads)
    /\ \E F \in SUBSET Thread : Waiting(F)

-----------------------------------------------------------------------------
(***************************************************************************)
(* What a step does before the scheduler runs, as far as waiting goes: it  *)
(* hands over the thread states st.                                        *)
(***************************************************************************)
Family == <<count, parent, active, threads>>

Calm(F, st) ==
    /\ st = state
    /\ Registry(F)' \subseteq Registry(F)
    /\ UNCHANGED Family

Blocks(F, st) ==
    /\ Executing
    /\ st = [state EXCEPT ![current] = "BLOCKED"]
    /\ UNCHANGED Family
    /\ \E x \in Registration :
          /\ x.thread = current
          /\ Registry(F)' \subseteq Registry(F) \cup {x}
          /\ x.kind = "join" => x.of \in threads[proc]
          /\ x.kind = "lock" => x.of = proc
          /\ x.kind = "wait" => "join_process" \in Calls

Unlocks(F, st) ==
    /\ Executing
    /\ UNCHANGED Family
    /\ \E Q \in SUBSET Thread :
          /\ st = [t \in Thread |-> IF t \in Q THEN "READY" ELSE state[t]]
          /\ Registry(F)' \subseteq Registry(F)
          /\ \A t \in Q : \E r \in Registry(F) \ Registry(F)' :
                r.thread = t /\ r.kind = "lock" /\ r.of = proc

Leaves(F, G, st) ==
    /\ Executing
    /\ G = F \cup {current}
    /\ UNCHANGED Family
    /\ st[current] = "TERMINATED"
    /\ Registry(G)' \subseteq Registry(F)
    /\ \A t \in Thread \ {current} :
          \/ st[t] = state[t]
          \/ /\ st[t] = "READY"
             /\ \E r \in Registry(F) \ Registry(G)' :
                   r.thread = t /\ r.kind = "join" /\ r.of = current

Kills(F, st) ==
    /\ Executing
    /\ active[proc]
    /\ UNCHANGED <<count, parent, threads>>
    /\ active' = [active EXCEPT ![proc] = FALSE]
    /\ Registry(F)' \subseteq Registry(F)
    /\ \A t \in Thread :
          \/ /\ st[t] = "READY"
             /\ \E r \in Registry(F) \ Registry(F)' :
                   r.thread = t /\ r.kind = "wait" /\ r.of = proc
          \/ st[t] = IF t \in threads[proc] THEN "TERMINATED" ELSE state[t]

\* A thread for process p, whose threads are then S and the new one.
Creates(F, st) ==
    \E p \in Pid, S \in SUBSET Thread :
        /\ count + 1 \in Thread
        /\ st = [state EXCEPT ![count + 1] = "READY"]
        /\ Registry(F)' \subseteq Registry(F)
        /\ count' = count + 1
        /\ parent' = [parent EXCEPT ![count + 1] = p]
        /\ threads' = [threads EXCEPT ![p] = S \cup {count + 1}]
        /\ \/ /\ UNCHANGED active
              /\ Executing
              /\ p = proc
              /\ S = threads[p]
              /\ Cardinality(S) < MAX_THREADS /\ "thread_create" \in Calls
           \/ /\ active' = [active EXCEPT ![p] = TRUE]
              /\ ~active[p]
              /\ S = {}
              /\ \A r \in Registry(F)' : r.kind = "lock" => r.of # p

\* The slot of a process that could not be loaded.
Empties(F, st) ==
    /\ st = state
    /\ Registry(F)' \subseteq Registry(F)
    /\ UNCHANGED <<count, parent, active>>
    /\ \E p \in Pid : ~active[p] /\ threads' = [threads EXCEPT ![p] = {}]

Effect(F, G, st) ==
    \/ /\ G = F
       /\ \/ Calm(F, st) \/ Blocks(F, st) \/ Unlocks(F, st) \/ Kills(F, st)
          \/ Creates(F, st) \/ Empties(F, st)
    \/ Leaves(F, G, st)

-----------------------------------------------------------------------------
(***************************************************************************)
(* Effects keep the registry in order.                                     *)
(***************************************************************************)
LEMMA RunningUnregistered ==
    ASSUME NEW F, WaitsOnce(F, state, Registry(F)), Executing
    PROVE  /\ \A r \in Registry(F) : r.thread # current
           /\ current \notin F
  BY DEF WaitsOnce, Executing

\* A step that registers nobody, and wakes only whom it takes off the registry.
LEMMA WaitsFewer ==
    ASSUME NEW F, NEW R, NEW S, WaitsOnce(F, state, R), S \subseteq R,
           R \subseteq Registration, F \subseteq Thread, NEW st,
           \A t \in Thread :
              \/ st[t] = state[t]
              \/ st[t] = "TERMINATED"
              \/ state[t] = "NEW"
              \/ \E r \in R \ S : r.thread = t
    PROVE  WaitsOnce(F, st, S)
  <1>1. ASSUME NEW t \in F PROVE st[t] = "TERMINATED"
    BY <1>1 DEF WaitsOnce
  <1>2. ASSUME NEW r \in S PROVE st[r.thread] \in {"BLOCKED", "TERMINATED"}
    <2>1. r \in R /\ r.thread \in Thread
      BY DEF Registration
    <2>2. ~ \E s \in R \ S : s.thread = r.thread
      BY <2>1 DEF WaitsOnce
    <2>3. state[r.thread] \in {"BLOCKED", "TERMINATED"}
      BY <2>1 DEF WaitsOnce
    <2> QED BY <2>1, <2>2, <2>3
  <1> QED BY <1>1, <1>2 DEF WaitsOnce

LEMMA EffectWaits ==
    ASSUME Inv, OnlyRestNew(state, count), Listed(count, threads),
           NEW F \in SUBSET Thread,
           WaitsOnce(F, state, Registry(F)),
           NEW G, NEW st \in [Thread -> ThreadState], Effect(F, G, st)
    PROVE  /\ G \in SUBSET Thread
           /\ WaitsOnce(G, st, Registry(G)')
           /\ OnlyRestNew(st, count') /\ Listed(count', threads')
           /\ Executing => st[current] # "READY"
  <1> DEFINE R == Registry(F)
  <1>0. R \subseteq Registration /\ count \in Nat /\ Thread \subseteq Nat
    BY ConstantsOK DEF Registry, Inv, NewOK, Thread
  <1>1. Executing => /\ current \in Thread /\ state[current] = "RUNNING"
                     /\ \A r \in R : r.thread # current
                     /\ current \notin F
    BY ExecutingType, RunningUnregistered DEF Executing
  <1>3. Executing => st[current] # "READY"
    <2> SUFFICES ASSUME Executing, st[current] = "READY" PROVE FALSE
      OBVIOUS
    <2>1. CASE Calm(F, st) \/ Empties(F, st)
      BY <1>1, <2>1 DEF Calm, Empties
    <2>2. CASE Blocks(F, st)
      BY <1>1, <2>2, SameStates DEF Blocks
    <2>3. CASE Unlocks(F, st)
      BY <1>1, <2>3 DEF Unlocks
    <2>4. CASE Kills(F, st)
      BY <1>1, <2>4 DEF Kills
    <2>5. CASE Creates(F, st)
      <3>1. current # count + 1
        BY <1>1 DEF OnlyRestNew, Executing, Inv, RunInv, RunOK, NewOK
      <3> QED BY <1>1, <2>5, <3>1, SameStates DEF Creates
    <2>6. CASE Leaves(F, G, st)
      BY <2>6 DEF Leaves
    <2> QED BY <2>1, <2>2, <2>3, <2>4, <2>5, <2>6 DEF Effect
  <1>10. Listed(count', threads')
    <2>1. CASE UNCHANGED <<count, threads>>
      BY <2>1 DEF Listed
    <2>2. CASE Creates(F, st)
      <3>1. PICK p \in Pid, S \in SUBSET Thread :
               /\ threads' = [threads EXCEPT ![p] = S \cup {count + 1}]
               /\ S = {} \/ S = threads[p]
               /\ count' = count + 1
        BY <2>2 DEF Creates
      <3>2. \A q \in Pid : threads'[q] \subseteq threads[q] \cup {count + 1}
        BY <3>1 DEF Inv, PcbOK
      <3> QED BY <1>0, <3>1, <3>2 DEF Listed
    <2>3. CASE Empties(F, st)
      BY <1>0, <2>3 DEF Empties, Listed, Inv, PcbOK
    <2>4. CASE Calm(F, st) \/ Blocks(F, st) \/ Unlocks(F, st) \/ Leaves(F, G, st) \/ Kills(F, st)
      <3>1. UNCHANGED <<count, threads>>
        BY <2>4 DEF Calm, Blocks, Unlocks, Leaves, Kills, Family
      <3> QED BY <2>1, <3>1
    <2> HIDE DEF Listed
    <2> QED BY <2>2, <2>3, <2>4, Zenon DEF Effect
  <1>4. CASE G = F /\ (Calm(F, st) \/ Empties(F, st))
    <2>1. st = state /\ Registry(G)' \subseteq R /\ count' = count
      BY <1>4 DEF Calm, Empties, Family
    <2> QED BY <1>0, <1>3, <1>10, <1>4, <2>1, WaitsFewer
  <1>5. CASE G = F /\ Unlocks(F, st)
    <2>1. /\ Registry(G)' \subseteq R /\ count' = count
          /\ \A t \in Thread : st[t] = state[t] \/ \E r \in R \ Registry(G)' : r.thread = t
      BY <1>5 DEF Unlocks, Family
    <2>2. OnlyRestNew(st, count')
      BY <1>5, <2>1 DEF OnlyRestNew, Unlocks, WaitsOnce
    <2>3. WaitsOnce(F, st, Registry(G)')
      BY <1>0, <2>1, WaitsFewer
    <2> QED BY <1>3, <1>10, <1>5, <2>2, <2>3
  <1>6. CASE G = F /\ Kills(F, st)
    <2>1. /\ Registry(G)' \subseteq R /\ count' = count
          /\ \A t \in Thread : \/ st[t] = state[t]
                               \/ st[t] = "TERMINATED"
                               \/ \E r \in R \ Registry(G)' : r.thread = t
      BY <1>6 DEF Kills
    <2>2. OnlyRestNew(st, count')
      <3>1. \A t \in threads[proc] : t <= count
        BY <1>6, ExecutingType DEF Listed, Kills
      <3>2. \A t \in Thread : (\E r \in R : r.thread = t) => state[t] # "NEW"
        BY DEF WaitsOnce
      <3>3. \A t \in Thread : \/ st[t] = "READY" /\ state[t] # "NEW"
                              \/ st[t] = IF t \in threads[proc] THEN "TERMINATED" ELSE state[t]
        BY <1>6, <3>2 DEF Kills
      <3>4. \A t \in Thread : st[t] = "NEW" <=> state[t] = "NEW"
        <4> SUFFICES ASSUME NEW t \in Thread PROVE st[t] = "NEW" <=> state[t] = "NEW"
          OBVIOUS
        <4>1. CASE t \in threads[proc]
          <5>1. state[t] # "NEW"
            BY <1>0, <3>1, <4>1 DEF OnlyRestNew
          <5> QED BY <3>3, <4>1, <5>1
        <4>2. CASE t \notin threads[proc]
          BY <3>3, <4>2
        <4> QED BY <4>1, <4>2
      <3> QED BY <2>1, <3>4 DEF OnlyRestNew
    <2>3. WaitsOnce(F, st, Registry(G)')
      BY <1>0, <2>1, WaitsFewer
    <2> QED BY <1>3, <1>10, <1>6, <2>2, <2>3
  <1>7. CASE G = F /\ Creates(F, st)
    <2>1. /\ Registry(G)' \subseteq R /\ count' = count + 1 /\ count + 1 \in Thread
          /\ st = [state EXCEPT ![count + 1] = "READY"]
      BY <1>7 DEF Creates
    <2>2. state[count + 1] = "NEW" /\ state \in [Thread -> ThreadState]
      BY <1>0, <2>1, SameStates DEF OnlyRestNew
    <2>3. OnlyRestNew(st, count')
      BY <1>0, <2>1, <2>2 DEF OnlyRestNew
    <2>4. WaitsOnce(F, st, Registry(G)')
      BY <1>0, <2>1, <2>2, WaitsFewer
    <2> QED BY <1>3, <1>10, <1>7, <2>3, <2>4
  <1>8. CASE G = F /\ Blocks(F, st)
    <2>1. PICK x \in Registration : x.thread = current /\ Registry(F)' \subseteq R \cup {x}
      BY <1>8 DEF Blocks
    <2>2. /\ st = [state EXCEPT ![current] = "BLOCKED"] /\ count' = count
          /\ Executing /\ state \in [Thread -> ThreadState]
      BY <1>8, SameStates DEF Blocks, Family
    <2>3. OnlyRestNew(st, count')
      BY <1>1, <2>2 DEF OnlyRestNew
    <2>4. WaitsOnce(F, st, Registry(F)')
      BY <1>0, <1>1, <2>1, <2>2 DEF WaitsOnce, Registration
    <2> QED BY <1>3, <1>10, <1>8, <2>3, <2>4
  <1>9. CASE Leaves(F, G, st)
    <2>0. /\ Executing /\ st[current] = "TERMINATED" /\ Registry(G)' \subseteq R
          /\ G = F \cup {current} /\ count' = count
      BY <1>9 DEF Leaves, Family
    <2>1. \A t \in Thread : \/ st[t] = state[t]
                            \/ st[t] = "TERMINATED"
                            \/ \E r \in R \ Registry(G)' : r.thread = t
      <3> SUFFICES ASSUME NEW t \in Thread
                   PROVE  \/ st[t] = state[t]
                          \/ st[t] = "TERMINATED"
                          \/ \E r \in R \ Registry(G)' : r.thread = t
        OBVIOUS
      <3>1. CASE t = current
        BY <2>0, <3>1
      <3>2. CASE t # current
        BY <1>9, <3>2 DEF Leaves
      <3> QED BY <3>1, <3>2
    <2>2. WaitsOnce(F, st, Registry(G)')
      <3> PICK S : S = Registry(G)'
        OBVIOUS
      <3>1. S \subseteq R /\ WaitsOnce(F, state, R)
        BY <2>0
      <3> HIDE DEF R
      <3>2. WaitsOnce(F, st, S)
        BY <1>0, <2>1, <3>1, WaitsFewer
      <3> QED BY <3>2
    <2>3. WaitsOnce(G, st, Registry(G)')
      <3> PICK S : S = Registry(G)'
        OBVIOUS
      <3>1. WaitsOnce(F, st, S)
        BY <2>2
      <3>2. \A r \in S : r \in R
        BY <2>0
      <3> HIDE DEF R
      <3>3. \A r \in S : r.thread # current
        BY <1>1, <2>0, <3>2 DEF WaitsOnce
      <3>4. WaitsOnce(G, st, S)
        BY <2>0, <3>1, <3>3 DEF WaitsOnce
      <3> QED BY <3>4
    <2>4. OnlyRestNew(st, count')
      BY <1>1, <1>9, <2>0 DEF OnlyRestNew, WaitsOnce, Leaves
    <2> QED BY <1>1, <1>3, <1>9, <1>10, <2>0, <2>3, <2>4
  <1> QED BY <1>4, <1>5, <1>6, <1>7, <1>8, <1>9 DEF Effect

-----------------------------------------------------------------------------
(***************************************************************************)
(* Without orphans, effects wake nobody who is dead.                       *)
(***************************************************************************)
RootedNow(F) == Rooted(state, count, parent, active, threads, Registry(F))

LEMMA RunningRooted ==
    ASSUME Inv, NEW F, RootedNow(F), Executing
    PROVE  /\ current \in 1 .. count /\ active[proc] /\ current \in threads[proc]
           /\ proc \in Pid /\ state[current] = "RUNNING"
           /\ Alone => threads[proc] = {current}
  <1>1. /\ current \in Thread /\ current <= count /\ proc \in Pid
        /\ state[current] = "RUNNING"
    BY ExecutingType DEF Executing
  <1>2. current \in 1 .. count
    BY <1>1, ConstantsOK DEF Thread, Inv, NewOK
  <1>3. active[proc] /\ current \in threads[proc]
    BY <1>1, <1>2 DEF RootedNow, Rooted, proc
  <1>4. Alone => threads[proc] = {current}
    BY <1>1, <1>3 DEF RootedNow, Rooted
  <1> QED BY <1>1, <1>2, <1>3, <1>4

LEMMA RegisteredCreated ==
    ASSUME Inv, OnlyRestNew(state, count), NEW F, WaitsOnce(F, state, Registry(F)),
           NEW r \in Registry(F)
    PROVE  r.thread \in Thread /\ r.thread \in 1 .. count
  <1>1. r.thread \in Thread /\ state[r.thread] # "NEW"
    BY DEF WaitsOnce, Registry, Registration
  <1> QED BY <1>1, ConstantsOK DEF OnlyRestNew, Thread, Inv, NewOK

LEMMA NoRevival ==
    ASSUME Inv, OnlyRestNew(state, count), NEW F,
           WaitsOnce(F, state, Registry(F)), RootedNow(F),
           NEW G, NEW st, Effect(F, G, st),
           NEW t \in Thread, state[t] = "TERMINATED"
    PROVE  st[t] = "TERMINATED"
  <1>1. CASE Calm(F, st) \/ Empties(F, st)
    BY <1>1 DEF Calm, Empties
  <1>2. CASE Blocks(F, st)
    BY <1>2, SameStates DEF Blocks, Executing
  <1>3. CASE Unlocks(F, st)
    <2>1. ASSUME NEW r \in Registry(F), r.thread = t, r.kind = "lock", r.of = proc
          PROVE  FALSE
      BY <1>3, <2>1, RunningRooted DEF Unlocks, RootedNow, Rooted
    <2> QED BY <1>3, <2>1 DEF Unlocks
  <1>4. CASE Leaves(F, G, st)
    <2>1. ASSUME NEW r \in Registry(F), r.thread = t, r.kind = "join", r.of = current
          PROVE  FALSE
      BY <1>4, <2>1, RunningRooted DEF Leaves, RootedNow, Rooted
    <2> QED BY <1>4, <2>1 DEF Leaves
  <1>5. CASE Kills(F, st)
    <2>1. ASSUME NEW r \in Registry(F), r.thread = t, r.kind = "wait"
          PROVE  FALSE
      BY <2>1 DEF RootedNow, Rooted
    <2> QED BY <1>5, <2>1 DEF Kills
  <1>6. CASE Creates(F, st)
    <2>1. t # count + 1
      BY ConstantsOK DEF OnlyRestNew, Inv, NewOK
    <2> QED BY <1>6, <2>1, SameStates DEF Creates
  <1> QED BY <1>1, <1>2, <1>3, <1>4, <1>5, <1>6, Zenon DEF Effect

\* Steps that only change thread states and register at most the caller.
LEMMA RootedKept ==
    ASSUME NEW F, RootedNow(F), NEW G, NEW st, UNCHANGED Family,
           \A t \in 1 .. count : state[t] = "TERMINATED" => st[t] = "TERMINATED",
           \A r \in Registry(G)' :
              \/ /\ r \in Registry(F)
                 /\ st[r.thread] = "TERMINATED" => state[r.thread] = "TERMINATED"
              \/ /\ st[r.thread] # "TERMINATED"
                 /\ r.kind = "join" => r.of \in 1 .. count /\ parent[r.of] = parent[r.thread]
                 /\ r.kind = "lock" => parent[r.thread] = r.of
                 /\ r.kind = "wait" => Alone
    PROVE  Rooted(st, count', parent', active', threads', Registry(G)')
  <1> DEFINE S == Registry(G)'
             R == Registry(F)
  <1>0. count' = count /\ parent' = parent /\ active' = active /\ threads' = threads
    BY DEF Family
  <1> HIDE DEF S, R
  <1>1. Rooted(st, count, parent, active, threads, S)
    BY DEF RootedNow, Rooted, S, R
  <1> QED BY <1>0, <1>1 DEF S

LEMMA KillsRooted ==
    ASSUME Inv, OnlyRestNew(state, count), NEW F,
           WaitsOnce(F, state, Registry(F)), RootedNow(F), NEW st, Kills(F, st)
    PROVE  Rooted(st, count', parent', active', threads', Registry(F)')
  <1> DEFINE R == Registry(F)
             S == Registry(F)'
  <1>0. /\ current \in 1 .. count /\ current \in threads[proc] /\ proc \in Pid
        /\ Alone => threads[proc] = {current}
        /\ \A r \in R : r.thread # current /\ r.thread \in Thread /\ r.thread \in 1 .. count
    BY RunningRooted, RunningUnregistered, RegisteredCreated DEF Kills
  <1>1. 1 .. count \subseteq Thread
    BY ConstantsOK DEF Thread, Inv, NewOK
  <1>2. /\ count' = count /\ parent' = parent /\ threads' = threads
        /\ active' = [active EXCEPT ![proc] = FALSE] /\ S \subseteq R
        /\ active \in [Pid -> BOOLEAN] /\ parent \in [Thread -> Pid]
    BY DEF Kills, Inv, PcbOK, NewOK
  <1>3. \A t \in 1 .. count : state[t] = "TERMINATED" => st[t] = "TERMINATED"
    <2>1. Effect(F, F, st)
      BY DEF Effect
    <2> QED BY <1>1, <2>1, NoRevival
  \* Nobody who waits for the process belongs to it.
  <1>4. ASSUME NEW t \in 1 .. count, t \in threads[proc] PROVE st[t] = "TERMINATED"
    <2>1. ASSUME NEW r \in R, r.thread = t, r.kind = "wait" PROVE FALSE
      BY <1>0, <1>4, <2>1 DEF RootedNow, Rooted
    <2> QED BY <1>1, <1>4, <2>1 DEF Kills
  <1>5. \A t \in 1 .. count : t \notin threads[proc] /\ st[t] = "TERMINATED"
                                => state[t] = "TERMINATED"
    BY <1>1 DEF Kills
  <1>6. \A t \in 1 .. count : state[t] # "TERMINATED" =>
           (t \in threads[proc] <=> parent[t] = proc)
    BY <1>0 DEF RootedNow, Rooted
  <1> HIDE DEF R, S
  <1>7. \A t \in 1 .. count' : st[t] # "TERMINATED" =>
           active'[parent'[t]] /\ t \in threads'[parent'[t]]
    <2> SUFFICES ASSUME NEW t \in 1 .. count, st[t] # "TERMINATED"
                 PROVE  active'[parent[t]] /\ t \in threads[parent[t]]
      BY <1>2
    <2>1. state[t] # "TERMINATED" /\ t \notin threads[proc]
      BY <1>3, <1>4
    <2>2. parent[t] # proc /\ active[parent[t]] /\ t \in threads[parent[t]]
      BY <1>6, <2>1 DEF RootedNow, Rooted
    <2> QED BY <1>1, <1>2, <2>2
  <1>8. ASSUME NEW r \in S, r.kind = "join"
        PROVE  /\ r.of \in 1 .. count' /\ parent'[r.of] = parent'[r.thread]
               /\ st[r.thread] = "TERMINATED" => st[r.of] = "TERMINATED"
    <2>1. /\ r.of \in 1 .. count /\ parent[r.of] = parent[r.thread]
          /\ state[r.thread] = "TERMINATED" => state[r.of] = "TERMINATED"
          /\ r.thread \in 1 .. count
      BY <1>0, <1>2, <1>8 DEF RootedNow, Rooted, R
    <2>2. ASSUME st[r.thread] = "TERMINATED" PROVE st[r.of] = "TERMINATED"
      <3>1. CASE state[r.of] = "TERMINATED"
        BY <1>3, <2>1, <3>1
      <3>2. CASE state[r.of] # "TERMINATED"
        <4>1. r.thread \in threads[proc] /\ state[r.thread] # "TERMINATED"
          BY <1>5, <2>1, <2>2, <3>2
        <4>2. r.of \in threads[proc]
          BY <1>6, <2>1, <3>2, <4>1
        <4> QED BY <1>4, <2>1, <4>2
      <3> QED BY <3>1, <3>2
    <2> QED BY <1>2, <2>1, <2>2
  <1>9. ASSUME NEW r \in S, r.kind = "lock"
        PROVE  /\ parent'[r.thread] = r.of
               /\ st[r.thread] = "TERMINATED" => ~active'[r.of]
    <2>1. /\ parent[r.thread] = r.of /\ r.thread \in 1 .. count /\ r.of \in Pid
          /\ state[r.thread] = "TERMINATED" => ~active[r.of]
      BY <1>0, <1>1, <1>2, <1>9 DEF RootedNow, Rooted, R
    <2>2. ASSUME st[r.thread] = "TERMINATED" PROVE ~active'[r.of]
      <3>1. CASE state[r.thread] = "TERMINATED"
        BY <1>2, <2>1, <3>1
      <3>2. CASE state[r.thread] # "TERMINATED"
        <4>1. r.of = proc
          BY <1>5, <1>6, <2>1, <2>2, <3>2
        <4> QED BY <1>0, <1>2, <4>1
      <3> QED BY <3>1, <3>2
    <2> QED BY <1>2, <2>1, <2>2
  <1>10. ASSUME NEW r \in S, r.kind = "wait"
         PROVE  Alone /\ st[r.thread] # "TERMINATED"
    <2>1. /\ Alone /\ state[r.thread] # "TERMINATED"
          /\ r.thread # current /\ r.thread \in 1 .. count
      BY <1>0, <1>2, <1>10 DEF RootedNow, Rooted, R
    <2> QED BY <1>0, <1>5, <2>1
  <1>11. \A p \in Pid : \A t \in threads'[p] : t \in 1 .. count' /\ parent'[t] = p
    BY <1>2 DEF RootedNow, Rooted
  <1>12. Alone => \A p \in Pid : \A t, u \in threads'[p] : t = u
    BY <1>2 DEF RootedNow, Rooted
  <1>13. Rooted(st, count', parent', active', threads', S)
    BY <1>7, <1>8, <1>9, <1>10, <1>11, <1>12 DEF Rooted
  <1> QED BY <1>13 DEF S

LEMMA CreatesRooted ==
    ASSUME Inv, OnlyRestNew(state, count), NEW F,
           WaitsOnce(F, state, Registry(F)), RootedNow(F), NEW st, Creates(F, st)
    PROVE  Rooted(st, count', parent', active', threads', Registry(F)')
  <1> DEFINE R == Registry(F)
             S == Registry(F)'
             n == count + 1
  <1>0. \A r \in R : r.thread \in Thread /\ r.thread \in 1 .. count
    BY RegisteredCreated
  <1>1. /\ count \in Nat /\ 1 .. count \subseteq Thread
        /\ state \in [Thread -> ThreadState] /\ parent \in [Thread -> Pid]
        /\ active \in [Pid -> BOOLEAN] /\ threads \in [Pid -> SUBSET Thread]
    BY ConstantsOK, SameStates DEF Thread, Inv, NewOK, PcbOK
  <1>2. PICK p \in Pid, T \in SUBSET Thread :
           /\ n \in Thread /\ st = [state EXCEPT ![n] = "READY"] /\ S \subseteq R
           /\ count' = n /\ parent' = [parent EXCEPT ![n] = p]
           /\ threads' = [threads EXCEPT ![p] = T \cup {n}]
           /\ \/ /\ UNCHANGED active /\ Executing /\ p = proc /\ T = threads[p]
                 /\ Cardinality(T) < MAX_THREADS /\ "thread_create" \in Calls
              \/ /\ active' = [active EXCEPT ![p] = TRUE] /\ ~active[p] /\ T = {}
                 /\ \A r \in S : r.kind = "lock" => r.of # p
    BY DEF Creates
  <1>3. T = {} \/ (T = threads[p] /\ active[p])
    BY <1>2, RunningRooted
  <1>4. Alone => T = {}
    <2> SUFFICES ASSUME Alone, MAX_THREADS = 1, T = threads[proc], Executing,
                        Cardinality(T) < 1
                 PROVE  FALSE
      BY <1>2 DEF Alone
    <2>1. T = {current}
      BY RunningRooted
    <2>2. Cardinality({current}) = 1
      BY FS_Singleton
    <2> QED BY <2>1, <2>2
  <1>5. \A t \in 1 .. count : st[t] = state[t] /\ parent'[t] = parent[t]
    BY <1>1, <1>2
  <1>6. st[n] = "READY" /\ parent'[n] = p /\ active'[p] /\ n \in threads'[p]
    <2>1. active'[p]
      BY <1>1, <1>2, RunningRooted
    <2> QED BY <1>1, <1>2, <2>1
  <1>7. /\ \A q \in Pid : q # p => active'[q] = active[q] /\ threads'[q] = threads[q]
        /\ threads'[p] = T \cup {n}
    BY <1>1, <1>2
  <1> HIDE DEF R, S
  <1>8. \A t \in 1 .. count' : st[t] # "TERMINATED" =>
           active'[parent'[t]] /\ t \in threads'[parent'[t]]
    <2> SUFFICES ASSUME NEW t \in 1 .. count', st[t] # "TERMINATED"
                 PROVE  active'[parent'[t]] /\ t \in threads'[parent'[t]]
      OBVIOUS
    <2>1. CASE t = n
      BY <1>6, <2>1
    <2>2. CASE t \in 1 .. count
      <3>1. active[parent[t]] /\ t \in threads[parent[t]] /\ parent[t] \in Pid
        BY <1>1, <1>5, <2>2 DEF RootedNow, Rooted
      <3>2. CASE parent[t] # p
        BY <1>5, <1>7, <2>2, <3>1, <3>2
      <3>3. CASE parent[t] = p
        <4>1. T = threads[p]
          BY <1>2, <3>1, <3>3
        <4> QED BY <1>5, <1>6, <1>7, <2>2, <3>1, <3>3, <4>1
      <3> QED BY <3>2, <3>3
    <2> QED BY <1>1, <1>2, <2>1, <2>2
  <1>9. ASSUME NEW q \in Pid, NEW t \in threads'[q]
        PROVE  t \in 1 .. count' /\ parent'[t] = q
    <2>1. CASE t = n /\ q = p
      BY <1>1, <1>2, <1>6, <2>1
    <2>2. CASE t \in threads[q]
      <3>1. t \in 1 .. count /\ parent[t] = q
        BY <2>2 DEF RootedNow, Rooted
      <3> QED BY <1>1, <1>2, <1>5, <3>1
    <2> QED BY <1>3, <1>7, <2>1, <2>2
  <1>10. Alone => \A q \in Pid : \A t, u \in threads'[q] : t = u
    BY <1>4, <1>7 DEF RootedNow, Rooted
  <1>11. ASSUME NEW r \in S, r.kind = "join"
         PROVE  /\ r.of \in 1 .. count' /\ parent'[r.of] = parent'[r.thread]
                /\ st[r.thread] = "TERMINATED" => st[r.of] = "TERMINATED"
    <2>1. /\ r.of \in 1 .. count /\ parent[r.of] = parent[r.thread]
          /\ state[r.thread] = "TERMINATED" => state[r.of] = "TERMINATED"
          /\ r.thread \in 1 .. count
      BY <1>0, <1>2, <1>11 DEF RootedNow, Rooted, R
    <2> QED BY <1>1, <1>2, <1>5, <2>1
  <1>12. ASSUME NEW r \in S, r.kind = "lock"
         PROVE  /\ parent'[r.thread] = r.of
                /\ st[r.thread] = "TERMINATED" => ~active'[r.of]
    <2>1. /\ parent[r.thread] = r.of /\ r.thread \in 1 .. count /\ r.of \in Pid
          /\ state[r.thread] = "TERMINATED" => ~active[r.of]
      BY <1>0, <1>1, <1>2, <1>12 DEF RootedNow, Rooted, R
    <2>2. ~active[r.of] => ~active'[r.of]
      BY <1>2, <1>7, <1>12, <2>1
    <2> QED BY <1>5, <2>1, <2>2
  <1>13. ASSUME NEW r \in S, r.kind = "wait"
         PROVE  Alone /\ st[r.thread] # "TERMINATED"
    <2>1. Alone /\ state[r.thread] # "TERMINATED" /\ r.thread \in 1 .. count
      BY <1>0, <1>2, <1>13 DEF RootedNow, Rooted, R
    <2> QED BY <1>5, <2>1
  <1>14. Rooted(st, count', parent', active', threads', S)
    BY <1>8, <1>9, <1>10, <1>11, <1>12, <1>13 DEF Rooted
  <1> QED BY <1>14 DEF S

LEMMA EmptiesRooted ==
    ASSUME Inv, NEW F, RootedNow(F), NEW st, Empties(F, st)
    PROVE  Rooted(st, count', parent', active', threads', Registry(F)')
  <1> DEFINE S == Registry(F)'
  <1>1. PICK p \in Pid : ~active[p] /\ threads' = [threads EXCEPT ![p] = {}]
    BY DEF Empties
  <1>2. /\ count' = count /\ parent' = parent /\ active' = active /\ st = state
        /\ S \subseteq Registry(F)
    BY DEF Empties
  <1>3. /\ threads'[p] = {} /\ parent \in [Thread -> Pid] /\ 1 .. count \subseteq Thread
        /\ \A q \in Pid : q # p => threads'[q] = threads[q]
    BY <1>1, ConstantsOK DEF Inv, PcbOK, NewOK, Thread
  <1> HIDE DEF S
  <1>4. ASSUME NEW t \in 1 .. count, state[t] # "TERMINATED"
        PROVE  active[parent[t]] /\ t \in threads'[parent[t]]
    <2>1. active[parent[t]] /\ t \in threads[parent[t]] /\ parent[t] \in Pid
      BY <1>3, <1>4 DEF RootedNow, Rooted
    <2> QED BY <1>1, <1>3, <2>1
  <1>5. \A q \in Pid : threads'[q] \subseteq threads[q]
    BY <1>3
  <1>6. Rooted(st, count', parent', active', threads', S)
    BY <1>2, <1>4, <1>5 DEF RootedNow, Rooted
  <1> QED BY <1>6 DEF S

LEMMA EffectRooted ==
    ASSUME Inv, OnlyRestNew(state, count), NEW F,
           WaitsOnce(F, state, Registry(F)), RootedNow(F), Solo,
           NEW G, NEW st, Effect(F, G, st)
    PROVE  Rooted(st, count', parent', active', threads', Registry(G)')
  <1>0. 1 .. count \subseteq Thread
    BY ConstantsOK DEF Thread, Inv, NewOK
  <1>1. \A t \in 1 .. count : state[t] = "TERMINATED" => st[t] = "TERMINATED"
    BY <1>0, NoRevival
  <1>2. CASE G = F /\ Calm(F, st)
    <2>1. UNCHANGED Family /\ st = state /\ Registry(G)' \subseteq Registry(F)
      BY <1>2 DEF Calm
    <2> QED BY <1>1, <2>1, RootedKept
  <1>3. CASE G = F /\ Unlocks(F, st)
    <2>1. /\ UNCHANGED Family /\ Registry(G)' \subseteq Registry(F)
          /\ \A t \in Thread : st[t] = "TERMINATED" => state[t] = "TERMINATED"
      BY <1>3 DEF Unlocks
    <2>2. \A r \in Registry(F) : r.thread \in Thread
      BY RegisteredCreated
    <2> QED BY <1>1, <2>1, <2>2, RootedKept
  <1>4. CASE Leaves(F, G, st)
    <2>1. /\ UNCHANGED Family /\ Registry(G)' \subseteq Registry(F)
          /\ \A t \in Thread \ {current} : st[t] = "TERMINATED" => state[t] = "TERMINATED"
      BY <1>4 DEF Leaves
    <2>2. \A r \in Registry(F) : r.thread \in Thread \ {current}
      BY <1>4, RegisteredCreated, RunningUnregistered DEF Leaves
    <2> QED BY <1>1, <2>1, <2>2, RootedKept
  <1>5. CASE G = F /\ Blocks(F, st)
    <2>0. /\ Executing /\ current \in Thread /\ state \in [Thread -> ThreadState]
          /\ UNCHANGED Family /\ st = [state EXCEPT ![current] = "BLOCKED"]
      BY <1>5, ExecutingType, SameStates DEF Blocks
    <2>1. PICK x \in Registration :
             /\ x.thread = current /\ Registry(G)' \subseteq Registry(F) \cup {x}
             /\ x.kind = "join" => x.of \in threads[proc]
             /\ x.kind = "lock" => x.of = proc
             /\ x.kind = "wait" => "join_process" \in Calls
      BY <1>5 DEF Blocks
    <2>2. st[x.thread] # "TERMINATED"
      BY <2>0, <2>1
    <2>3. x.kind = "join" => x.of \in 1 .. count /\ parent[x.of] = parent[x.thread]
      BY <2>0, <2>1, RunningRooted DEF RootedNow, Rooted, proc
    <2>4. x.kind = "lock" => parent[x.thread] = x.of
      BY <2>1 DEF proc
    <2>5. x.kind = "wait" => Alone
      BY <2>1 DEF Solo
    <2>6. \A r \in Registry(F) : st[r.thread] = "TERMINATED" => state[r.thread] = "TERMINATED"
      BY <2>0
    <2>7. \A t \in 1 .. count : state[t] = "TERMINATED" => st[t] = "TERMINATED"
      BY <2>0 DEF Executing
    <2>8. \A r \in Registry(G)' :
             \/ /\ r \in Registry(F)
                /\ st[r.thread] = "TERMINATED" => state[r.thread] = "TERMINATED"
             \/ /\ st[r.thread] # "TERMINATED"
                /\ r.kind = "join" => r.of \in 1 .. count /\ parent[r.of] = parent[r.thread]
                /\ r.kind = "lock" => parent[r.thread] = r.of
                /\ r.kind = "wait" => Alone
      BY <2>1, <2>2, <2>3, <2>4, <2>5, <2>6
    <2> QED BY <1>1, <2>0, <2>7, <2>8, RootedKept
  <1> QED BY <1>2, <1>3, <1>4, <1>5, KillsRooted, CreatesRooted, EmptiesRooted DEF Effect
=============================================================================
