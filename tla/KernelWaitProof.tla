--------------------------- MODULE KernelWaitProof ---------------------------
(***************************************************************************)
(* Proofs about who waits for what in module Kernel: no thread waits in    *)
(* two places, nobody wakes a thread twice, and so the main loop gives up  *)
(* only when all threads are blocked; without orphans, blocked threads are *)
(* alive, death is final and no wake-up is lost.                           *)
(***************************************************************************)
EXTENDS KernelProof

(***************************************************************************)
(* Every instruction has one of the effects.                               *)
(***************************************************************************)
\* The contexts and registers handed over: only the joiner of a thread that
\* leaves gets another context.
ContextsOK(st, ctx, c) ==
    /\ ctx \in [Thread -> Context]
    /\ c \in Context
    /\ c.pc \in Known
    /\ \A t \in Thread :
          \/ ctx[t] = context[t]
          \/ /\ t = joiner[current]
             /\ st[current] = "TERMINATED"
             /\ ctx[t] = Returning(exitCode'[current])

Iteration(F) ==
    /\ Executing
    /\ UNCHANGED status
    /\ \E G, st, ctx, c :
          /\ Effect(F, G, st)
          /\ st \in [Thread -> ThreadState]
          /\ ContextsOK(st, ctx, c)
          /\ EndOfInstruction(st, ctx, c)

\* Steps that end the simulation.
Stops ==
    /\ status' \notin {"boot", "running", "stalled"}
    /\ status' = "panic" => Executing /\ ~active[proc]
    /\ UNCHANGED <<runVars, newVars, joinVars, pcbVars, waitVars>>

LEMMA MutexQueues ==
    ASSUME Inv, NEW p \in Pid, NEW k \in DOMAIN mutexList[p]
    PROVE  /\ k \in Nat
           /\ mutexList[p][k] \in MutexRecord
           /\ mutexList[p][k].waitQueue \subseteq Thread
  <1>1. mutexList[p] \in Seq(MutexRecord)
    BY DEF Inv, PcbOK
  <1>2. mutexList[p][k] \in MutexRecord /\ k \in Nat
    BY <1>1
  <1> QED BY <1>2 DEF MutexRecord

LEMMA SameRegistry ==
    ASSUME NEW F, UNCHANGED <<joiner, mutexList, processWaiters>>
    PROVE  Registry(F)' = Registry(F)
  BY DEF Registry

\* A registration that a step adds or takes away is one of its kind.
LEMMA RegistryOf ==
    ASSUME NEW F, NEW r
    PROVE  /\ r \in Registry(F)' /\ r.kind = "join" /\ joiner' = joiner => r \in Registry(F)
           /\ r \in Registry(F)' /\ r.kind = "lock" /\ mutexList' = mutexList => r \in Registry(F)
           /\ r \in Registry(F)' /\ r.kind = "wait" /\ processWaiters' = processWaiters
                => r \in Registry(F)
  BY DEF Registry

LEMMA KindsOf ==
    ASSUME NEW F, NEW r \in Registry(F)'
    PROVE  r \in Registration /\ r.kind \in {"join", "lock", "wait"}
  BY DEF Registry, Registration

LEMMA ContextsKeep ==
    ASSUME Inv, NEW st, NEW c \in Context, c.pc \in Known
    PROVE  ContextsOK(st, context, c)
  BY SameStates DEF ContextsOK

LEMMA RegistersKnown ==
    ASSUME Inv, cpu.pc \in Known
    PROVE  /\ \A v \in Int : Returning(v) \in Context /\ Returning(v).pc \in Known
           /\ \A i \in Executable : /\ i \in ProgramCounter /\ i \in Known
                                    /\ Suspended(i) \in Context
                                    /\ Suspended(i).pc = i
           /\ cpu \in Context
           /\ [cpu EXCEPT !.pc = Fresh] \in Context
           /\ [cpu EXCEPT !.pc = Fresh].pc \in Known
  <1>1. cpu \in Context
    BY SameStates
  <1>2. \A i \in Executable : i \in ProgramCounter /\ i \in Known
    BY <1>1, ExecutableType DEF Executable, Known
  <1>3. \A v \in Int : Returning(v).pc = Fresh
    BY DEF Returning
  <1>4. [cpu EXCEPT !.pc = Fresh].pc = Fresh /\ \A i : Suspended(i).pc = i
    BY <1>1 DEF Context, Suspended
  <1> QED BY <1>1, <1>2, <1>3, <1>4, RegistersType, PastEcallType DEF Known

\* An instruction without effect on the tables.
LEMMA CalmIteration ==
    ASSUME Inv, Executing, UNCHANGED status, NEW F, Calm(F, state),
           NEW c \in Context, c.pc \in Known, EndOfInstruction(state, context, c)
    PROVE  Iteration(F)
  <1>1. Effect(F, F, state) /\ ContextsOK(state, context, c)
    BY ContextsKeep DEF Effect
  <1> QED BY <1>1, SameStates DEF Iteration

LEMMA BlocksIteration ==
    ASSUME Inv, Executing, UNCHANGED status, NEW F,
           Blocks(F, [state EXCEPT ![current] = "BLOCKED"]),
           NEW c \in Context, c.pc \in Known,
           EndOfInstruction([state EXCEPT ![current] = "BLOCKED"], context, c)
    PROVE  Iteration(F)
  <1> DEFINE st == [state EXCEPT ![current] = "BLOCKED"]
  <1>1. st \in [Thread -> ThreadState]
    BY BlockedStates
  <1> HIDE DEF st
  <1>2. Effect(F, F, st) /\ ContextsOK(st, context, c)
    BY ContextsKeep DEF Effect, st
  <1> QED BY <1>1, <1>2 DEF Iteration, st

LEMMA TerminateIteration ==
    ASSUME Inv, Executing, NEW F, NEW code, NEW c \in Context, c.pc \in Known,
           Terminate(proc, code, c)
    PROVE  IF active[proc] THEN Iteration(F) ELSE Stops
  <1> DEFINE st == StatesAfterTerminate(proc)
             Reg(t) == [kind |-> "wait", of |-> proc, at |-> 0, thread |-> t]
  <1>0. proc \in Pid /\ proc \in Nat
    BY ExecutingType, ConstantsOK DEF Pid
  <1>1. CASE ~active[proc]
    BY <1>1 DEF Terminate, Panic, Stops
  <1>2. CASE active[proc]
    <2>1. /\ processWaiters' = [processWaiters EXCEPT ![proc] = {}]
          /\ active' = [active EXCEPT ![proc] = FALSE]
          /\ UNCHANGED <<status, newVars, joinVars, threads, mutexList>>
          /\ EndOfInstruction(st, context, c)
      BY <1>2 DEF Terminate, EraseWaiters
    <2>2. st \in [Thread -> ThreadState]
      BY SameStates DEF StatesAfterTerminate, ThreadState
    <2>3. processWaiters \in [Pid -> SUBSET Thread]
      BY DEF Inv, WaitOK
    <2>4. Registry(F)' \subseteq Registry(F)
      BY <2>1, <2>3 DEF Registry, joinVars
    <2>5. ASSUME NEW t \in processWaiters[proc]
          PROVE  \E r \in Registry(F) \ Registry(F)' :
                    r.thread = t /\ r.kind = "wait" /\ r.of = proc
      <3>1. Reg(t) \in Registry(F) /\ Reg(t) \notin Registry(F)'
        BY <1>0, <2>1, <2>3 DEF Registry, Registration
      <3> QED BY <3>1
    <2>6. \A t \in Thread : st[t] = IF t \in processWaiters[proc] THEN "READY"
                                    ELSE IF t \in threads[proc] THEN "TERMINATED"
                                    ELSE state[t]
      BY DEF StatesAfterTerminate
    <2> HIDE DEF st, Reg
    <2>7. Kills(F, st)
      BY <1>2, <2>1, <2>4, <2>5, <2>6 DEF Kills, newVars
    <2>8. Effect(F, F, st) /\ ContextsOK(st, context, c)
      BY <2>7, ContextsKeep DEF Effect
    <2> QED BY <1>2, <2>1, <2>2, <2>8 DEF Iteration
  <1> QED BY <1>1, <1>2

LEMMA ThreadExitIteration ==
    ASSUME Inv, cpu.pc \in Known, NEW F \in SUBSET Thread,
           WaitsOnce(F, state, Registry(F)),
           NEW i \in Executable, ThreadExit(i)
    PROVE  Iteration(F)
  <1>0. PICK G : G = F \cup {current}
    OBVIOUS
  <1> DEFINE j == joiner[current]
             dead == [state EXCEPT ![current] = "TERMINATED"]
             woken == [dead EXCEPT ![j] = "READY"]
             x == [kind |-> "join", of |-> current, at |-> 0, thread |-> j]
  <1>1. /\ Executing /\ current \in Thread /\ current \in Nat /\ UNCHANGED status
        /\ state \in [Thread -> ThreadState] /\ context \in [Thread -> Context]
        /\ exitCode \in [Thread -> Int] /\ joiner \in [Thread -> Thread \cup {NoThread}]
    BY ExecutingType, SameStates, ConstantsOK DEF ThreadExit, Ecall, Thread, Inv, JoinOK
  <1>2. Suspended(i) \in Context /\ Suspended(i).pc \in Known /\ i.arg \in Int
    BY RegistersKnown DEF ProgramCounter
  <1>3. UNCHANGED <<count, parent, active, threads, joiner, mutexList, processWaiters>>
    BY DEF ThreadExit, newVars, pcbVars, waitVars
  <1>4. \A r \in Registry(F) : r.thread # current
    BY <1>1, RunningUnregistered
  <1> HIDE DEF x
  <1>5. /\ Registry(G)' \subseteq Registry(F)
        /\ \A r \in Registry(G)' : r.kind = "join" => r.of # current
    BY <1>0, <1>3 DEF Registry
  <1>6. CASE j = NoThread
    <2>1. EndOfInstruction(dead, context, Suspended(i))
      BY <1>6 DEF ThreadExit
    <2>2. dead \in [Thread -> ThreadState] /\ dead[current] = "TERMINATED"
          /\ \A t \in Thread \ {current} : dead[t] = state[t]
      BY <1>1 DEF ThreadState
    <2> HIDE DEF dead
    <2>3. Leaves(F, G, dead)
      BY <1>0, <1>1, <1>3, <1>5, <2>2 DEF Leaves, Family
    <2>4. ContextsOK(dead, context, Suspended(i))
      BY <1>2, ContextsKeep
    <2> QED BY <1>1, <2>1, <2>2, <2>3, <2>4 DEF Iteration, Effect
  <1>7. CASE j # NoThread
    <2>1. EndOfInstruction(woken, Delivered(j, i.arg), Suspended(i))
      BY <1>7 DEF ThreadExit
    <2>2. j \in Thread /\ x \in Registration
      BY <1>1, <1>7 DEF x, Registration
    <2>3. x \in Registry(F) /\ x \notin Registry(G)'
      <3>1. current \notin F
        BY <1>1, RunningUnregistered
      <3>2. x.kind = "join" /\ x.of = current /\ x.at = 0 /\ x.thread = j
        BY DEF x
      <3> QED BY <1>1, <1>5, <2>2, <3>1, <3>2 DEF Registry
    <2>4. x.thread = j /\ x.kind = "join" /\ x.of = current /\ j # current
      BY <1>4, <2>3 DEF x
    <2>5. woken \in [Thread -> ThreadState] /\ woken[current] = "TERMINATED"
          /\ woken[j] = "READY"
          /\ \A t \in Thread \ {current, j} : woken[t] = state[t]
      BY <1>1, <2>2, <2>4 DEF ThreadState
    <2>6. ContextsOK(woken, Delivered(j, i.arg), Suspended(i))
      <3>1. Returning(i.arg) \in Context
        BY <1>2, RegistersType
      <3>2. exitCode'[current] = i.arg
        BY <1>1 DEF ThreadExit
      <3>3. /\ Delivered(j, i.arg) \in [Thread -> Context]
            /\ Delivered(j, i.arg)[j] = Returning(i.arg)
            /\ \A t \in Thread \ {j} : Delivered(j, i.arg)[t] = context[t]
        BY <1>1, <2>2, <3>1 DEF Delivered
      <3> HIDE DEF woken
      <3> QED BY <1>2, <2>5, <3>2, <3>3 DEF ContextsOK
    <2> HIDE DEF woken, j
    <2>7. Leaves(F, G, woken)
      BY <1>0, <1>1, <1>3, <1>5, <2>2, <2>3, <2>4, <2>5 DEF Leaves, Family
    <2> QED BY <1>1, <2>1, <2>5, <2>6, <2>7 DEF Iteration, Effect
  <1> QED BY <1>6, <1>7

LEMMA ThreadJoinIteration ==
    ASSUME Inv, cpu.pc \in Known, NEW F \in SUBSET Thread,
           WaitsOnce(F, state, Registry(F)),
           NEW i \in Executable, ThreadJoin(i)
    PROVE  Iteration(F)
  <1>1. /\ Executing /\ current \in Thread /\ UNCHANGED status /\ proc \in Pid
        /\ UNCHANGED <<count, parent, active, threads, mutexList, processWaiters>>
    BY ExecutingType DEF ThreadJoin, Ecall, newVars, pcbVars, waitVars
  <1>2. Suspended(i) \in Context /\ Suspended(i).pc \in Known
    BY RegistersKnown
  <1>3. ASSUME UNCHANGED joiner, NEW v \in Int,
               EndOfInstruction(state, context, Returning(v))
        PROVE  Iteration(F)
    <2>1. Calm(F, state)
      BY <1>1, <1>3, SameRegistry DEF Calm, Family
    <2>2. Returning(v) \in Context /\ Returning(v).pc \in Known
      BY RegistersKnown
    <2> QED BY <1>1, <1>3, <2>1, <2>2, CalmIteration
  <1>4. ASSUME NEW t \in threads[proc], joiner' = [joiner EXCEPT ![t] = current],
               EndOfInstruction([state EXCEPT ![current] = "BLOCKED"], context, Suspended(i))
        PROVE  Iteration(F)
    <2> DEFINE x == [kind |-> "join", of |-> t, at |-> 0, thread |-> current]
    <2>1. t \in Thread /\ t \in Nat /\ joiner \in [Thread -> Thread \cup {NoThread}]
      BY <1>1, ConstantsOK DEF Inv, PcbOK, JoinOK, Thread
    <2>2. x \in Registration
      BY <1>1, <2>1 DEF Registration
    <2>3. ASSUME NEW r \in Registry(F)', r \notin Registry(F) PROVE r = x
      <3>1. r.kind = "join" /\ r \in Registration
        BY <1>1, <2>3, RegistryOf, KindsOf
      <3>2. r.of \in Thread /\ r.at = 0 /\ joiner'[r.of] = r.thread
            /\ joiner[r.of] # r.thread
        BY <2>3, <3>1 DEF Registry
      <3>3. r.of = t /\ r.thread = current
        BY <1>4, <2>1, <3>2
      <3> QED BY <3>1, <3>2, <3>3 DEF Registration
    <2>4. x.thread = current /\ x.kind = "join" /\ x.of = t
      OBVIOUS
    <2> HIDE DEF x
    <2>5. Blocks(F, [state EXCEPT ![current] = "BLOCKED"])
      BY <1>1, <2>2, <2>3, <2>4 DEF Blocks, Family
    <2> QED BY <1>1, <1>2, <1>4, <2>5, BlocksIteration
  <1>5. \A t \in threads[proc] : exitCode[t] \in Int
    BY <1>1 DEF Inv, PcbOK, JoinOK
  <1>6. CASE UNCHANGED joiner /\ EndOfInstruction(state, context, Returning(-1))
    BY <1>3, <1>6
  <1>7. CASE \E t \in threads[proc] :
               UNCHANGED joiner /\ EndOfInstruction(state, context, Returning(exitCode[t]))
    BY <1>3, <1>5, <1>7
  <1>8. CASE \E t \in threads[proc] :
               /\ joiner' = [joiner EXCEPT ![t] = current]
               /\ EndOfInstruction([state EXCEPT ![current] = "BLOCKED"], context, Suspended(i))
    BY <1>4, <1>8
  <1> HIDE DEF EndOfInstruction
  <1>9. \/ UNCHANGED joiner /\ EndOfInstruction(state, context, Returning(-1))
        \/ \E t \in threads[proc] :
               UNCHANGED joiner /\ EndOfInstruction(state, context, Returning(exitCode[t]))
        \/ \E t \in threads[proc] :
               /\ joiner' = [joiner EXCEPT ![t] = current]
               /\ EndOfInstruction([state EXCEPT ![current] = "BLOCKED"], context, Suspended(i))
    BY Zenon DEF ThreadJoin
  <1> QED BY <1>6, <1>7, <1>8, <1>9

LEMMA ThreadCreateIteration ==
    ASSUME Inv, cpu.pc \in Known, NEW F \in SUBSET Thread,
           NEW i \in Executable, ThreadCreate(i)
    PROVE  Iteration(F)
  <1> DEFINE st == [state EXCEPT ![count + 1] = "READY"]
             v == Cardinality(threads[proc])
  <1>1. /\ Executing /\ UNCHANGED status /\ proc \in Pid
        /\ UNCHANGED <<joiner, mutexList, processWaiters, active>>
    BY ExecutingType DEF ThreadCreate, Ecall, joinVars, waitVars
  <1>2. /\ threads[proc] \in SUBSET Thread /\ v \in Int
        /\ count \in Nat /\ MAX_THREADS \in Nat
    BY <1>1, ThreadSetCardinality, ConstantsOK DEF Inv, PcbOK, NewOK
  <1>0. "thread_create" \in Calls
    BY RegistersKnown DEF ThreadCreate, Ecall, Known, Program, Fresh
  <1>3. CASE UNCHANGED <<newVars, threads>> /\ EndOfInstruction(state, context, Returning(-1))
    <2>1. Calm(F, state)
      BY <1>1, <1>3, SameRegistry DEF Calm, Family, newVars
    <2>2. Returning(-1) \in Context /\ Returning(-1).pc \in Known
      BY RegistersKnown
    <2> QED BY <1>1, <1>3, <2>1, <2>2, CalmIteration
  <1>4. CASE /\ ~TooManyThreads /\ count < MaxActive
             /\ CreateThread(count + 1, proc, threads[proc])
             /\ EndOfInstruction(st, context, Returning(v))
    <2>1. count + 1 \in Thread /\ v < MAX_THREADS
      BY <1>2, <1>4, ConstantsOK DEF Thread, TooManyThreads
    <2>2. Returning(v) \in Context /\ Returning(v).pc \in Known
      BY <1>2, RegistersKnown
    <2>3. st \in [Thread -> ThreadState]
      BY SameStates DEF ThreadState
    <2> HIDE DEF v
    <2>4. Creates(F, st)
      BY <1>0, <1>1, <1>2, <1>4, <2>1, SameRegistry DEF Creates, CreateThread, v
    <2> HIDE DEF st
    <2>5. Effect(F, F, st) /\ ContextsOK(st, context, Returning(v))
      BY <2>2, <2>4, ContextsKeep DEF Effect
    <2> QED BY <1>1, <1>4, <2>3, <2>5 DEF Iteration
  <1> HIDE DEF st, v
  <1>5. \/ UNCHANGED <<newVars, threads>> /\ EndOfInstruction(state, context, Returning(-1))
        \/ /\ ~TooManyThreads /\ count < MaxActive
           /\ CreateThread(count + 1, proc, threads[proc])
           /\ EndOfInstruction(st, context, Returning(v))
    BY Zenon DEF ThreadCreate, st, v
  <1> QED BY <1>3, <1>4, <1>5

\* A mutex of the process of the running thread becomes m.
LEMMA MutexRegistry ==
    ASSUME Inv, Executing, NEW F, NEW k \in 1 .. Len(mutexList[proc]),
           NEW m \in MutexRecord,
           mutexList' = [mutexList EXCEPT ![proc][k] = m],
           UNCHANGED <<joiner, processWaiters>>, NEW r \in Registry(F)'
    PROVE  \/ r \in Registry(F) /\ ~(r.kind = "lock" /\ r.of = proc /\ r.at = k)
           \/ /\ r.kind = "lock" /\ r.of = proc /\ r.at = k
              /\ r.thread \in m.waitQueue
  <1>1. r \in Registration /\ r.kind \in {"join", "lock", "wait"}
    BY KindsOf
  <1>2. CASE r.kind # "lock"
    BY <1>1, <1>2, RegistryOf
  <1>3. CASE r.kind = "lock"
    <2>1. /\ mutexList \in [Pid -> Seq(MutexRecord)] /\ proc \in Pid
          /\ mutexList[proc] \in Seq(MutexRecord)
      BY ExecutingType DEF Inv, PcbOK
    <2>2. r.of \in Pid /\ r.at \in DOMAIN mutexList'[r.of]
          /\ r.thread \in mutexList'[r.of][r.at].waitQueue
      BY <1>3 DEF Registry
    <2>3. CASE r.of = proc /\ r.at = k
      BY <1>3, <2>1, <2>2, <2>3
    <2>4. CASE ~(r.of = proc /\ r.at = k)
      <3>1. r.at \in DOMAIN mutexList[r.of] /\ mutexList'[r.of][r.at] = mutexList[r.of][r.at]
        BY <2>1, <2>2, <2>4
      <3> QED BY <1>1, <1>3, <2>2, <2>4, <3>1 DEF Registry
    <2> QED BY <2>3, <2>4
  <1> QED BY <1>2, <1>3

LEMMA MutexCreateIteration ==
    ASSUME Inv, cpu.pc \in Known, NEW F \in SUBSET Thread,
           NEW i \in Executable, MutexCreate(i)
    PROVE  Iteration(F)
  <1>1. /\ Executing /\ UNCHANGED status /\ proc \in Pid
        /\ UNCHANGED <<joiner, processWaiters, count, parent, active, threads>>
        /\ mutexList' = [mutexList EXCEPT ![proc] = Append(@, FreeMutex)]
        /\ EndOfInstruction(state, context, Returning(Len(mutexList[proc])))
    BY ExecutingType DEF MutexCreate, Ecall, joinVars, waitVars, newVars
  <1>2. /\ mutexList \in [Pid -> Seq(MutexRecord)] /\ Len(mutexList[proc]) \in Int
        /\ mutexList[proc] \in Seq(MutexRecord)
    BY <1>1 DEF Inv, PcbOK
  <1>3. Returning(Len(mutexList[proc])) \in Context /\ Returning(Len(mutexList[proc])).pc \in Known
    BY <1>2, RegistersKnown
  <1>4. ASSUME NEW r \in Registry(F)' PROVE r \in Registry(F)
    <2>1. r \in Registration /\ r.kind \in {"join", "lock", "wait"}
      BY KindsOf
    <2>2. CASE r.kind # "lock"
      BY <1>1, <2>1, <2>2, RegistryOf
    <2>3. CASE r.kind = "lock"
      <3>1. r.of \in Pid /\ r.at \in DOMAIN mutexList'[r.of]
            /\ r.thread \in mutexList'[r.of][r.at].waitQueue
        BY <2>3 DEF Registry
      <3>2. mutexList'[proc] = Append(mutexList[proc], FreeMutex)
            /\ \A p \in Pid \ {proc} : mutexList'[p] = mutexList[p]
        BY <1>1, <1>2
      <3>3. FreeMutex \in MutexRecord /\ FreeMutex.waitQueue = {}
        BY FreeMutexType DEF FreeMutex
      <3>4. r.at \in DOMAIN mutexList[r.of] /\ mutexList'[r.of][r.at] = mutexList[r.of][r.at]
        <4>1. CASE r.of # proc
          BY <3>1, <3>2, <4>1
        <4>2. CASE r.of = proc
          <5> DEFINE q == mutexList[proc]
                     k == r.at
          <5>1. k \in DOMAIN Append(q, FreeMutex) /\ r.thread \in Append(q, FreeMutex)[k].waitQueue
            BY <3>1, <3>2, <4>2
          <5>2. q \in Seq(MutexRecord)
            BY <1>2
          <5> HIDE DEF q, k
          <5>3. k \in 1 .. Len(q) + 1 /\ Append(q, FreeMutex)[Len(q) + 1] = FreeMutex
            BY <3>3, <5>1, <5>2
          <5>4. k \in DOMAIN q /\ Append(q, FreeMutex)[k] = q[k]
            BY <3>3, <5>1, <5>2, <5>3
          <5> QED BY <3>2, <4>2, <5>4 DEF q, k
        <4> QED BY <4>1, <4>2
      <3> QED BY <2>1, <2>3, <3>1, <3>4 DEF Registry
    <2> QED BY <2>2, <2>3
  <1>5. Calm(F, state)
    BY <1>1, <1>4 DEF Calm, Family
  <1> QED BY <1>1, <1>3, <1>5, CalmIteration

LEMMA MutexLockIteration ==
    ASSUME Inv, cpu.pc \in Known, NEW F \in SUBSET Thread,
           NEW i \in Executable, MutexLock(i)
    PROVE  Iteration(F)
  <1> DEFINE k == i.arg + 1
             m == mutexList[proc][k]
             a == Acquire(m, current)
             x == [kind |-> "lock", of |-> proc, at |-> k, thread |-> current]
  <1>1. /\ Executing /\ UNCHANGED status /\ proc \in Pid /\ proc \in Nat
        /\ current \in Thread
        /\ UNCHANGED <<joiner, processWaiters, count, parent, active, threads>>
        /\ mutexList' = [mutexList EXCEPT ![proc][k] = a]
    BY ExecutingType, ConstantsOK DEF MutexLock, Ecall, joinVars, waitVars, newVars, Pid
  <1>2. k \in 1 .. Len(mutexList[proc]) /\ m \in MutexRecord /\ i \in ProgramCounter
    BY <1>1, RegistersKnown, UsableMutexType DEF MutexLock
  <1>3. a \in MutexRecord
    BY <1>1, <1>2, AcquireType
  <1>4. ASSUME NEW r \in Registry(F)'
        PROVE  \/ r \in Registry(F)
               \/ /\ r.kind = "lock" /\ r.of = proc /\ r.at = k
                  /\ r.thread \in a.waitQueue
    BY <1>1, <1>2, <1>3, MutexRegistry
  <1>5. ASSUME NEW r \in Registry(F)', r.kind = "lock", r.of = proc, r.at = k,
               r.thread \in m.waitQueue
        PROVE  r \in Registry(F)
    BY <1>1, <1>2, <1>5, KindsOf DEF Registry
  <1>6. \/ /\ a.waitQueue = m.waitQueue
           /\ EndOfInstruction(state, context, Returning(0))
        \/ /\ a.waitQueue = m.waitQueue \cup {current}
           /\ EndOfInstruction([state EXCEPT ![current] = "BLOCKED"], context, Suspended(i))
    <2>1. CASE m.locked
      <3>1. EndOfInstruction([state EXCEPT ![current] = "BLOCKED"], context, Suspended(i))
        BY <2>1 DEF MutexLock
      <3>2. a.waitQueue = m.waitQueue \cup {current}
        BY <1>2, <2>1 DEF Acquire, MutexRecord
      <3> QED BY <3>1, <3>2
    <2>2. CASE ~m.locked
      <3>1. EndOfInstruction(state, context, Returning(0))
        BY <2>2 DEF MutexLock
      <3>2. a.waitQueue = m.waitQueue
        BY <1>2, <2>2 DEF Acquire, MutexRecord
      <3> QED BY <3>1, <3>2
    <2> QED BY <2>1, <2>2
  <1>7. k \in Nat
    BY <1>2
  <1> HIDE DEF k, m, a
  <1>8. CASE a.waitQueue = m.waitQueue /\ EndOfInstruction(state, context, Returning(0))
    <2>1. Calm(F, state)
      BY <1>1, <1>4, <1>5, <1>8 DEF Calm, Family
    <2>2. Returning(0) \in Context /\ Returning(0).pc \in Known
      BY RegistersKnown
    <2> QED BY <1>1, <1>8, <2>1, <2>2, CalmIteration
  <1>9. CASE /\ a.waitQueue = m.waitQueue \cup {current}
             /\ EndOfInstruction([state EXCEPT ![current] = "BLOCKED"], context, Suspended(i))
    <2>1. x \in Registration /\ x.thread = current /\ x.kind = "lock" /\ x.of = proc
      BY <1>1, <1>7 DEF Registration
    <2>2. ASSUME NEW r \in Registry(F)', r \notin Registry(F) PROVE r = x
      <3>1. r \in Registration /\ r.kind = "lock" /\ r.of = proc /\ r.at = k
            /\ r.thread = current
        BY <1>4, <1>5, <1>9, <2>2, KindsOf
      <3> QED BY <3>1 DEF Registration
    <2> HIDE DEF x
    <2>3. Blocks(F, [state EXCEPT ![current] = "BLOCKED"])
      BY <1>1, <2>1, <2>2 DEF Blocks, Family
    <2>4. Suspended(i) \in Context /\ Suspended(i).pc \in Known
      BY RegistersKnown
    <2> QED BY <1>1, <1>9, <2>3, <2>4, BlocksIteration
  <1> QED BY <1>6, <1>8, <1>9

LEMMA MutexUnlockIteration ==
    ASSUME Inv, cpu.pc \in Known, NEW F \in SUBSET Thread,
           NEW i \in Executable, MutexUnlock(i)
    PROVE  Iteration(F)
  <1> DEFINE k == i.arg + 1
             m == mutexList[proc][k]
             reg(t) == [kind |-> "lock", of |-> proc, at |-> k, thread |-> t]
  <1>0. PICK Q : Q = m.waitQueue
    OBVIOUS
  <1> DEFINE st == [t \in Thread |-> IF t \in Q THEN "READY" ELSE state[t]]
  <1>1. /\ Executing /\ UNCHANGED status /\ proc \in Pid /\ proc \in Nat
        /\ UNCHANGED <<joiner, processWaiters, count, parent, active, threads>>
        /\ mutexList' = [mutexList EXCEPT ![proc][k] = FreeMutex]
        /\ EndOfInstruction(st, context, Returning(0))
    BY <1>0, ExecutingType, ConstantsOK
       DEF MutexUnlock, Ecall, joinVars, waitVars, newVars, Release, Woken, Pid
  <1>2. k \in 1 .. Len(mutexList[proc]) /\ m \in MutexRecord /\ k \in Nat
    BY <1>1, RegistersKnown, UsableMutexType DEF MutexUnlock
  <1>3. Q \in SUBSET Thread
    BY <1>0, <1>2 DEF MutexRecord
  <1>4. ASSUME NEW r \in Registry(F)'
        PROVE  r \in Registry(F) /\ ~(r.kind = "lock" /\ r.of = proc /\ r.at = k)
    BY <1>1, <1>2, FreeMutexType, MutexRegistry DEF FreeMutex
  <1>5. st \in [Thread -> ThreadState]
    BY SameStates DEF ThreadState
  <1> HIDE DEF k, m
  <1>6. ASSUME NEW t \in Q
        PROVE  \E r \in Registry(F) \ Registry(F)' :
                  r.thread = t /\ r.kind = "lock" /\ r.of = proc
    <2>1. reg(t) \in Registration /\ reg(t).kind = "lock" /\ reg(t).of = proc
          /\ reg(t).at = k /\ reg(t).thread = t
      BY <1>1, <1>2, <1>3, <1>6 DEF Registration
    <2> HIDE DEF reg
    <2>2. reg(t) \in Registry(F)
      BY <1>0, <1>1, <1>2, <1>6, <2>1 DEF Registry, m
    <2> QED BY <1>4, <2>1, <2>2
  <1>7. Unlocks(F, st)
    BY <1>1, <1>3, <1>4, <1>6 DEF Unlocks, Family
  <1>8. Returning(0) \in Context /\ Returning(0).pc \in Known
    BY RegistersKnown
  <1> HIDE DEF st
  <1>9. Effect(F, F, st) /\ ContextsOK(st, context, Returning(0))
    BY <1>7, <1>8, ContextsKeep DEF Effect
  <1> QED BY <1>1, <1>5, <1>9 DEF Iteration

LEMMA LoadEffect ==
    ASSUME Inv, NEW F, NEW file \in Int, NEW p \in Pid, LoadELF(file, p),
           UNCHANGED <<joiner, processWaiters>>
    PROVE  IF file = GoodFile THEN Creates(F, [state EXCEPT ![count + 1] = "READY"])
                              ELSE Empties(F, state)
  <1>1. /\ ~active[p]
        /\ mutexList' = [mutexList EXCEPT ![p] = <<>>]
        /\ mutexList \in [Pid -> Seq(MutexRecord)] /\ active \in [Pid -> BOOLEAN]
        /\ threads \in [Pid -> SUBSET Thread] /\ count \in Nat
    BY DEF LoadELF, FreeSlot, Inactive, Inv, PcbOK, NewOK
  <1>2. ASSUME NEW r \in Registry(F)'
        PROVE  r \in Registry(F) /\ ~(r.kind = "lock" /\ r.of = p)
    <2>1. r \in Registration /\ r.kind \in {"join", "lock", "wait"}
      BY KindsOf
    <2>2. CASE r.kind # "lock"
      BY <2>1, <2>2, RegistryOf
    <2>3. CASE r.kind = "lock"
      <3>1. r.of \in Pid /\ r.at \in DOMAIN mutexList'[r.of]
            /\ r.thread \in mutexList'[r.of][r.at].waitQueue
        BY <2>3 DEF Registry
      <3>2. r.of # p
        BY <1>1, <3>1
      <3>3. mutexList'[r.of] = mutexList[r.of]
        BY <1>1, <3>1, <3>2
      <3> QED BY <2>1, <2>3, <3>1, <3>2, <3>3 DEF Registry
    <2> QED BY <2>2, <2>3
  <1>3. CASE file = GoodFile
    <2>1. count < MaxActive /\ CreateThread(count + 1, p, {})
          /\ active' = [active EXCEPT ![p] = TRUE]
      BY <1>3 DEF LoadELF
    <2>2. count + 1 \in Thread
      BY <1>1, <2>1, ConstantsOK DEF Thread
    <2>3. Registry(F)' \subseteq Registry(F)
          /\ \A r \in Registry(F)' : r.kind = "lock" => r.of # p
      BY <1>2
    <2>4. /\ count' = count + 1 /\ parent' = [parent EXCEPT ![count + 1] = p]
          /\ threads' = [threads EXCEPT ![p] = {} \cup {count + 1}]
      BY <2>1 DEF CreateThread
    <2> QED BY <1>1, <1>3, <2>1, <2>2, <2>3, <2>4 DEF Creates
  <1>4. CASE file # GoodFile
    <2>1. threads' = [threads EXCEPT ![p] = {}] /\ UNCHANGED <<newVars, active>>
      BY <1>4 DEF LoadELF
    <2> QED BY <1>1, <1>2, <1>4, <2>1 DEF Empties, newVars
  <1> QED BY <1>3, <1>4

LEMMA CreateProcessIteration ==
    ASSUME Inv, cpu.pc \in Known, NEW F \in SUBSET Thread,
           NEW i \in Executable, CreateProcess(i)
    PROVE  Iteration(F)
  <1> DEFINE st == [state EXCEPT ![count + 1] = "READY"]
  <1>1. /\ Executing /\ UNCHANGED status
        /\ UNCHANGED <<joiner, processWaiters>>
    BY DEF CreateProcess, Ecall, joinVars, waitVars
  <1>2. i.arg \in Int /\ \A p \in Pid : p \in Int
    BY RegistersKnown DEF ProgramCounter, Pid
  <1>3. \A v \in Int : Returning(v) \in Context /\ Returning(v).pc \in Known
    BY RegistersKnown
  <1>4. CASE UNCHANGED <<newVars, pcbVars>> /\ EndOfInstruction(state, context, Returning(-1))
    <2>1. Calm(F, state)
      BY <1>1, <1>4, SameRegistry DEF Calm, Family, newVars, pcbVars
    <2> QED BY <1>1, <1>3, <1>4, <2>1, CalmIteration
  <1>5. ASSUME NEW p \in Pid, LoadELF(i.arg, p), i.arg = GoodFile,
               EndOfInstruction(st, context, Returning(p))
        PROVE  Iteration(F)
    <2>1. Creates(F, st)
      BY <1>1, <1>2, <1>5, LoadEffect
    <2>2. st \in [Thread -> ThreadState]
      BY SameStates DEF ThreadState
    <2> HIDE DEF st
    <2>3. Effect(F, F, st) /\ ContextsOK(st, context, Returning(p))
      BY <1>2, <1>3, <2>1, ContextsKeep DEF Effect
    <2> QED BY <1>1, <1>5, <2>2, <2>3 DEF Iteration
  <1>6. ASSUME NEW p \in Pid, LoadELF(i.arg, p), i.arg # GoodFile,
               EndOfInstruction(state, context, Returning(-1))
        PROVE  Iteration(F)
    <2>1. Empties(F, state)
      BY <1>1, <1>2, <1>6, LoadEffect
    <2>2. Effect(F, F, state) /\ ContextsOK(state, context, Returning(-1))
      BY <1>3, <2>1, ContextsKeep DEF Effect
    <2> QED BY <1>1, <1>6, <2>2, SameStates DEF Iteration
  <1> HIDE DEF st
  <1>7. \/ UNCHANGED <<newVars, pcbVars>> /\ EndOfInstruction(state, context, Returning(-1))
        \/ \E p \in Pid :
              /\ LoadELF(i.arg, p)
              /\ \/ i.arg = GoodFile /\ EndOfInstruction(st, context, Returning(p))
                 \/ i.arg # GoodFile /\ EndOfInstruction(state, context, Returning(-1))
    BY Zenon DEF CreateProcess, st
  <1> QED BY <1>4, <1>5, <1>6, <1>7

LEMMA JoinProcessIteration ==
    ASSUME Inv, cpu.pc \in Known, NEW F \in SUBSET Thread,
           NEW i \in Executable, JoinProcess(i)
    PROVE  Iteration(F)
  <1> DEFINE x == [kind |-> "wait", of |-> i.arg, at |-> 0, thread |-> current]
  <1>1. /\ Executing /\ UNCHANGED status /\ current \in Thread
        /\ UNCHANGED <<joiner, mutexList, count, parent, active, threads>>
    BY ExecutingType DEF JoinProcess, Ecall, joinVars, pcbVars, newVars
  <1>2. \A v \in Int : Returning(v) \in Context /\ Returning(v).pc \in Known
    BY RegistersKnown
  <1>3. i.call = "join_process" /\ i \in ProgramCounter /\ i \in Known
    BY RegistersKnown DEF JoinProcess, Ecall
  <1>4. "join_process" \in Calls /\ i.arg \in Nat
    BY <1>3 DEF Known, Program, Fresh, ProgramCounter
  <1>5. CASE /\ i.arg \in Pid
             /\ processWaiters' = [processWaiters EXCEPT ![i.arg] = @ \cup {current}]
             /\ EndOfInstruction([state EXCEPT ![current] = "BLOCKED"], context, Suspended(i))
    <2>1. x \in Registration /\ x.thread = current /\ x.kind = "wait"
      BY <1>1, <1>4 DEF Registration
    <2>2. ASSUME NEW r \in Registry(F)', r \notin Registry(F) PROVE r = x
      <3>1. r \in Registration /\ r.kind = "wait"
        BY <1>1, <2>2, RegistryOf, KindsOf
      <3>2. /\ r.of \in Pid /\ r.at = 0 /\ r.thread \in processWaiters'[r.of]
            /\ r.thread \notin processWaiters[r.of]
        BY <2>2, <3>1 DEF Registry
      <3>3. processWaiters \in [Pid -> SUBSET Thread]
        BY DEF Inv, WaitOK
      <3>4. r.of = i.arg /\ r.thread = current
        BY <1>5, <3>2, <3>3
      <3> QED BY <3>1, <3>2, <3>4 DEF Registration
    <2> HIDE DEF x
    <2>3. Blocks(F, [state EXCEPT ![current] = "BLOCKED"])
      BY <1>1, <1>4, <2>1, <2>2 DEF Blocks, Family
    <2>4. Suspended(i) \in Context /\ Suspended(i).pc \in Known
      BY RegistersKnown
    <2> QED BY <1>1, <1>5, <2>3, <2>4, BlocksIteration
  <1>6. ASSUME UNCHANGED processWaiters, NEW v \in Int,
               EndOfInstruction(state, context, Returning(v))
        PROVE  Iteration(F)
    <2>1. Calm(F, state)
      BY <1>1, <1>6, SameRegistry DEF Calm, Family
    <2> QED BY <1>1, <1>2, <1>6, <2>1, CalmIteration
  <1>7. \/ UNCHANGED processWaiters /\ EndOfInstruction(state, context, Returning(1))
        \/ UNCHANGED processWaiters /\ EndOfInstruction(state, context, Returning(-1))
        \/ /\ i.arg \in Pid
           /\ processWaiters' = [processWaiters EXCEPT ![i.arg] = @ \cup {current}]
           /\ EndOfInstruction([state EXCEPT ![current] = "BLOCKED"], context, Suspended(i))
    BY Zenon DEF JoinProcess, waitVars
  <1> QED BY <1>5, <1>6, <1>7

\* The iterations of the main loop.
LEMMA LoopSteps ==
    ASSUME Inv, cpu.pc \in Known, NEW F \in SUBSET Thread,
           WaitsOnce(F, state, Registry(F)), Loop
    PROVE  \/ Iteration(F)
           \/ Reschedule
           \/ Stops
  <1>0. Crashed \in Int
    BY DEF Crashed
  <1>1. ASSUME NEW i \in Executable, Syscall(i) PROVE Iteration(F) \/ Stops
    <2>0. i \in ProgramCounter /\ i.arg \in Int /\ Suspended(i) \in Context
          /\ Suspended(i).pc \in Known
          /\ Returning(-1) \in Context /\ Returning(-1).pc \in Known
      BY RegistersKnown DEF ProgramCounter
    <2>1. CASE Exit(i)
      <3>1. Executing /\ Terminate(proc, i.arg, Suspended(i))
        BY <2>1 DEF Exit, Ecall
      <3> QED BY <2>0, <3>1, TerminateIteration
    <2>2. CASE MutexError(i)
      <3>1. Executing /\ Terminate(proc, Crashed, Returning(-1))
        BY <2>2 DEF MutexError, Ecall
      <3> QED BY <1>0, <2>0, <3>1, TerminateIteration
    <2>3. CASE UnknownCall(i)
      BY <2>3 DEF UnknownCall, Stops
    <2>4. CASE \/ ThreadExit(i) \/ ThreadCreate(i) \/ ThreadJoin(i)
               \/ MutexCreate(i) \/ MutexLock(i) \/ MutexUnlock(i)
               \/ CreateProcess(i) \/ JoinProcess(i)
      BY <2>4, ThreadExitIteration, ThreadCreateIteration, ThreadJoinIteration,
         MutexCreateIteration, MutexLockIteration, MutexUnlockIteration,
         CreateProcessIteration, JoinProcessIteration
    <2> QED BY <1>1, <2>1, <2>2, <2>3, <2>4 DEF Syscall
  <1>2. CASE Compute \/ PageFault
    <2>1. PICK c \in Context :
             /\ c.pc \in Known
             /\ Executing
             /\ UNCHANGED <<status, newVars, joinVars, pcbVars, waitVars>>
             /\ EndOfInstruction(state, context, c)
      BY <1>2, RegistersKnown DEF Compute, PageFault
    <2>2. Calm(F, state)
      BY <2>1, SameRegistry DEF Calm, Family, newVars, joinVars, pcbVars, waitVars
    <2> QED BY <2>1, <2>2, CalmIteration
  <1>3. CASE IllegalInstruction \/ LoopEnds
    BY <1>3 DEF IllegalInstruction, LoopEnds, Stops
  <1>4. CASE SegmentationFault
    <2>1. Executing /\ Terminate(proc, Crashed, cpu)
      BY <1>4 DEF SegmentationFault
    <2> QED BY <1>0, <2>1, RegistersKnown, TerminateIteration
  <1> QED BY <1>1, <1>2, <1>3, <1>4 DEF Loop

-----------------------------------------------------------------------------
(***************************************************************************)
(* The scheduler only moves threads between READY and RUNNING, and it finds *)
(* a READY thread when there is one.                                       *)
(***************************************************************************)
LEMMA Scheduled ==
    ASSUME Inv, count' \in Nat \ {0}, current <= count', count' <= MaxActive,
           NEW st \in [Thread -> ThreadState], NEW ctx \in [Thread -> Context],
           NEW c \in Context, Preempt(st, ctx, c) \/ NoSwitch(st, ctx, c)
    PROVE  /\ \A t \in Thread : \/ state'[t] = st[t]
                                \/ {st[t], state'[t]} \subseteq {"READY", "RUNNING"}
           /\ \/ state' = st /\ current' = current /\ context' = ctx /\ cpu' = c
              \/ /\ current' \in 1 .. count' /\ current' # current
                 /\ state'[current'] = "RUNNING" /\ st[current'] = "READY"
                 /\ cpu' = ctx[current']
                 /\ \A t \in Thread :
                       context'[t] = IF t = current /\ st[t] # "TERMINATED" THEN c ELSE ctx[t]
  <1>1. 1 .. count' \subseteq Thread /\ current \in Nat
    BY ConstantsOK DEF Thread, Inv, RunInv, RunOK, NewOK
  <1>2. \A d \in 1 .. count' : Successor(d) \in 1 .. count'
    <2> SUFFICES ASSUME NEW d \in 1 .. count' PROVE Successor(d) \in 1 .. count'
      OBVIOUS
    <2>1. current + d - 1 \in Nat
      BY <1>1
    <2>2. (current + d - 1) % count' \in 0 .. count' - 1
      BY <2>1, ModBound
    <2> QED BY <2>1, <2>2 DEF Successor
  <1>3. CASE NoSwitch(st, ctx, c)
    BY <1>3 DEF NoSwitch
  <1>4. ASSUME NEW n \in 1 .. count', n # current, st[n] = "READY",
               ContextSwitch(n, st, ctx, c)
        PROVE  /\ \A t \in Thread : \/ state'[t] = st[t]
                                    \/ {st[t], state'[t]} \subseteq {"READY", "RUNNING"}
               /\ current' = n /\ state'[n] = "RUNNING" /\ cpu' = ctx[n]
               /\ \A t \in Thread :
                     context'[t] = IF t = current /\ st[t] # "TERMINATED" THEN c ELSE ctx[t]
    <2>1. n \in Thread
      BY <1>1
    <2>2. /\ current' = n /\ cpu' = ctx[n]
          /\ state' = [t \in Thread |-> IF t = n THEN "RUNNING"
                                        ELSE IF t = current /\ st[t] = "RUNNING" THEN "READY"
                                        ELSE st[t]]
          /\ context' = IF current # NoThread /\ st[current] # "TERMINATED"
                          THEN [ctx EXCEPT ![current] = c] ELSE ctx
      BY <1>4 DEF ContextSwitch
    <2>3. \A t \in Thread : t # NoThread
      BY DEF Thread, NoThread
    <2> QED BY <1>4, <2>1, <2>2, <2>3
  <1>5. ASSUME Preempt(st, ctx, c), ~NoSwitch(st, ctx, c)
        PROVE  \E n \in 1 .. count' : n # current /\ st[n] = "READY" /\ ContextSwitch(n, st, ctx, c)
    BY <1>2, <1>5 DEF Preempt
  <1> QED BY <1>3, <1>4, <1>5

\* What was in order before the scheduler ran is in order afterwards.
LEMMA SchedulingKeeps ==
    ASSUME NEW G \in SUBSET Thread, NEW st,
           1 .. count' \subseteq Thread, Registry(G)' \subseteq Registration,
           \A t \in Thread : \/ state'[t] = st[t]
                             \/ {st[t], state'[t]} \subseteq {"READY", "RUNNING"},
           WaitsOnce(G, st, Registry(G)'), OnlyRestNew(st, count')
    PROVE  /\ WaitsOnce(G, state', Registry(G)')
           /\ OnlyRestNew(state', count')
           /\ Rooted(st, count', parent', active', threads', Registry(G)')
                => Rooted(state', count', parent', active', threads', Registry(G)')
  <1> DEFINE R == Registry(G)'
  <1>1. \A r \in R : r.thread \in Thread
    BY DEF Registration
  <1>2. \A t \in Thread : /\ st[t] = "TERMINATED" <=> state'[t] = "TERMINATED"
                          /\ st[t] = "NEW" <=> state'[t] = "NEW"
                          /\ st[t] \in {"BLOCKED", "TERMINATED"} => state'[t] = st[t]
    OBVIOUS
  <1> HIDE DEF R
  <1>3. WaitsOnce(G, st, R) => WaitsOnce(G, state', R)
    BY <1>1, <1>2 DEF WaitsOnce
  <1>4. OnlyRestNew(state', count')
    BY <1>2 DEF OnlyRestNew
  <1>5. /\ \A t \in 1 .. count' : st[t] = "TERMINATED" <=> state'[t] = "TERMINATED"
        /\ \A r \in R : st[r.thread] = "TERMINATED" <=> state'[r.thread] = "TERMINATED"
    BY <1>1, <1>2
  <1>6. ASSUME Rooted(st, count', parent', active', threads', R)
        PROVE  Rooted(state', count', parent', active', threads', R)
    BY <1>5, <1>6 DEF Rooted
  <1> QED BY <1>3, <1>4, <1>6 DEF R

LEMMA WaitingNext ==
    ASSUME NEW G \in SUBSET Thread, WaitsOnce(G, state', Registry(G)'),
           Solo => Rooted(state', count', parent', active', threads', Registry(G)')
    PROVE  Waiting(G)'
  BY DEF Waiting, WaitsOnce, Rooted

LEMMA RegistryNext ==
    ASSUME NEW G
    PROVE  Registry(G) \subseteq Registration /\ Registry(G)' \subseteq Registration
  BY DEF Registry

LEMMA CountGrows ==
    ASSUME Inv, NEW F, NEW G, NEW st, Effect(F, G, st)
    PROVE  count' \in {count, count + 1}
  BY DEF Effect, Calm, Blocks, Unlocks, Leaves, Kills, Creates, Empties, Family

\* An effect and the scheduler together.
LEMMA EffectInv ==
    ASSUME WaitInv, Inv', NEW F \in SUBSET Thread, Waiting(F),
           NEW G, NEW st \in [Thread -> ThreadState], Effect(F, G, st),
           \A t \in Thread : \/ state'[t] = st[t]
                             \/ {st[t], state'[t]} \subseteq {"READY", "RUNNING"}
    PROVE  /\ G \in SUBSET Thread /\ Waiting(G)'
           /\ OnlyRestNew(state', count') /\ Listed(count', threads')
  <1>1. /\ G \in SUBSET Thread /\ WaitsOnce(G, st, Registry(G)')
        /\ OnlyRestNew(st, count') /\ Listed(count', threads')
    BY EffectWaits DEF WaitInv, Waiting
  <1>2. 1 .. count' \subseteq Thread
    BY ConstantsOK DEF Thread, Inv, NewOK
  <1>3. Solo => Rooted(st, count', parent', active', threads', Registry(G)')
    BY EffectRooted DEF WaitInv, Waiting, RootedNow
  <1> QED BY <1>1, <1>2, <1>3, SchedulingKeeps, WaitingNext, RegistryNext

LEMMA IterationInv ==
    ASSUME WaitInv, Inv', NEW F \in SUBSET Thread, Waiting(F), Iteration(F)
    PROVE  WaitInv'
  <1>1. PICK G, st, ctx, c :
          /\ Effect(F, G, st)
          /\ st \in [Thread -> ThreadState]
          /\ ContextsOK(st, ctx, c)
          /\ EndOfInstruction(st, ctx, c)
    BY DEF Iteration
  <1>2. /\ Inv /\ Executing /\ status' = "running" /\ current \in Thread
        /\ current <= count /\ count \in Nat /\ current \in Nat /\ current # 0
    BY ExecutingType, ConstantsOK
       DEF WaitInv, Iteration, Executing, Inv, NewOK, RunInv, RunOK, NoThread
  <1>3. st[current] # "READY"
    BY <1>1, <1>2, EffectWaits DEF WaitInv, Waiting
  <1>4. count' \in Nat \ {0} /\ current <= count' /\ count' <= MaxActive
    BY <1>1, <1>2, CountGrows, ConstantsOK DEF Inv, NewOK
  <1>5. ctx \in [Thread -> Context] /\ c \in Context
    BY <1>1 DEF ContextsOK
  <1>6. Preempt(st, ctx, c) \/ NoSwitch(st, ctx, c)
    BY <1>1 DEF EndOfInstruction
  <1>7. /\ \A t \in Thread : \/ state'[t] = st[t]
                             \/ {st[t], state'[t]} \subseteq {"READY", "RUNNING"}
        /\ \/ state' = st /\ current' = current /\ context' = ctx /\ cpu' = c
           \/ /\ current' \in 1 .. count' /\ state'[current'] = "RUNNING"
              /\ cpu' = ctx[current']
              /\ \A t \in Thread :
                    context'[t] = IF t = current /\ st[t] # "TERMINATED" THEN c ELSE ctx[t]
    BY <1>1, <1>2, <1>4, <1>5, <1>6, Scheduled
  <1>8. /\ G \in SUBSET Thread /\ Waiting(G)'
        /\ OnlyRestNew(state', count') /\ Listed(count', threads')
    BY <1>1, <1>7, EffectInv
  <1>9. CurrentNotReady'
    BY <1>2, <1>3, <1>7 DEF CurrentNotReady
  <1>10. CallsKnown'
    <2>1. c.pc \in Known /\ \A t \in Thread : ctx[t].pc \in Known
      <3>1. Returning(exitCode'[current]).pc \in Known
        BY DEF Returning, Known
      <3> QED BY <1>1, <3>1 DEF ContextsOK, WaitInv, CallsKnown
    <2>2. 1 .. count' \subseteq Thread
      BY ConstantsOK DEF Thread, Inv, NewOK
    <2> QED BY <1>7, <2>1, <2>2 DEF CallsKnown, Known, Program, Executable
  <1> QED BY <1>8, <1>9, <1>10 DEF WaitInv, OnlyRestNew, Listed

\* Steps that change nothing but status.
LEMMA StatusWait ==
    ASSUME WaitInv, Inv',
           UNCHANGED <<runVars, newVars, joinVars, pcbVars, waitVars>>,
           status' = status \/ status' \notin {"boot", "running"}
    PROVE  WaitInv'
  <1>1. /\ cpu' = cpu /\ context' = context /\ current' = current /\ state' = state
        /\ UNCHANGED <<count, parent, active, threads>>
        /\ UNCHANGED <<joiner, mutexList, processWaiters>>
    BY DEF runVars, newVars, joinVars, pcbVars, waitVars
  <1>2. CallsKnown' /\ CurrentNotReady'
    BY <1>1 DEF WaitInv, CallsKnown, CurrentNotReady, Known, Program
  <1>3. OnlyRestNew(state, count)' /\ Listed(count, threads)'
    BY <1>1 DEF WaitInv, OnlyRestNew, Listed
  <1>4. ASSUME NEW F \in SUBSET Thread, Waiting(F) PROVE Waiting(F)'
    <2>1. Registry(F)' = Registry(F)
      BY <1>1, SameRegistry
    <2>2. WaitsOnce(F, state', Registry(F)')
      BY <1>1, <1>4, <2>1 DEF Waiting
    <2>3. Solo => Rooted(state', count', parent', active', threads', Registry(F)')
      BY <1>1, <1>4, <2>1 DEF Waiting
    <2> QED BY <2>2, <2>3, WaitingNext
  <1> QED BY <1>2, <1>3, <1>4 DEF WaitInv

\* Steps that only schedule.
LEMMA ScheduleWait ==
    ASSUME WaitInv, Inv', count # 0, Preempt(state, context, cpu),
           UNCHANGED <<newVars, joinVars, pcbVars, waitVars>>,
           CurrentNotReady'
    PROVE  WaitInv'
  <1>1. /\ Inv /\ count' = count /\ count \in Nat /\ count <= MaxActive /\ current <= count
    BY DEF WaitInv, Inv, NewOK, RunInv, RunOK, newVars
  <1>2. /\ \A t \in Thread : \/ state'[t] = state[t]
                             \/ {state[t], state'[t]} \subseteq {"READY", "RUNNING"}
        /\ \/ context' = context /\ cpu' = cpu
           \/ /\ current' \in 1 .. count'
              /\ cpu' = context[current']
              /\ \A t \in Thread :
                    context'[t] = IF t = current /\ state[t] # "TERMINATED" THEN cpu ELSE context[t]
    BY <1>1, Scheduled, SameStates
  <1>3. PICK F \in SUBSET Thread : Waiting(F)
    BY DEF WaitInv
  <1>4. Effect(F, F, state)
    <2>1. Registry(F)' = Registry(F) /\ UNCHANGED Family
      BY SameRegistry DEF joinVars, pcbVars, waitVars, newVars, Family
    <2> QED BY <2>1 DEF Effect, Calm
  <1>5. Waiting(F)' /\ OnlyRestNew(state', count') /\ Listed(count', threads')
    BY <1>1, <1>2, <1>3, <1>4, EffectInv, SameStates
  <1>6. 1 .. count' \subseteq Thread
    BY <1>1, ConstantsOK DEF Thread
  <1>7. CallsKnown'
    BY <1>2, <1>6 DEF WaitInv, CallsKnown, Known, Program
  <1> QED BY <1>3, <1>5, <1>7 DEF WaitInv, OnlyRestNew, Listed

LEMMA StartWait ==
    ASSUME WaitInv, Inv', Start
    PROVE  WaitInv'
  <1>1. current = NoThread
    BY DEF WaitInv, CurrentNotReady, Start
  <1>2. CASE count = 0
    BY <1>2, StatusWait DEF Start, runVars
  <1>3. CASE count # 0
    <2>1. Preempt(state, context, cpu) /\ status' = "running"
          /\ UNCHANGED <<newVars, joinVars, pcbVars, waitVars>>
      BY <1>3 DEF Start
    <2>2. /\ Inv /\ count' = count /\ count \in Nat /\ count <= MaxActive /\ current <= count
      BY <2>1 DEF WaitInv, Inv, NewOK, RunInv, RunOK, newVars
    <2>3. current' = current \/ state'[current'] = "RUNNING"
      BY <1>3, <2>1, <2>2, Scheduled, SameStates
    <2>4. CurrentNotReady'
      BY <1>1, <2>1, <2>3 DEF CurrentNotReady
    <2> QED BY <1>3, <2>1, <2>4, ScheduleWait
  <1> QED BY <1>2, <1>3

LEMMA RescheduleWait ==
    ASSUME WaitInv, Inv', Reschedule
    PROVE  WaitInv'
  <1>1. Preempt(state, context, cpu) /\ count # 0
        /\ UNCHANGED <<newVars, joinVars, pcbVars, waitVars>>
    BY DEF Reschedule, AllTerminated
  <1>2. CurrentNotReady'
    BY DEF Reschedule, CurrentNotReady
  <1> QED BY <1>1, <1>2, ScheduleWait

LEMMA LoadApplicationWait ==
    ASSUME WaitInv, Inv', NEW file \in File, LoadApplication(file)
    PROVE  WaitInv'
  <1> DEFINE st == [state EXCEPT ![count + 1] = "READY"]
  <1>1. PICK F \in SUBSET Thread : Waiting(F)
    BY DEF WaitInv
  <1>2. /\ status = "boot" /\ current = NoThread /\ status' \in {"boot", "aborted"}
        /\ UNCHANGED <<cpu, current, context, joiner, processWaiters>>
    BY DEF LoadApplication, WaitInv, CurrentNotReady, joinVars, waitVars
  <1>3. CallsKnown' /\ CurrentNotReady'
    BY <1>2 DEF WaitInv, CallsKnown, CurrentNotReady, Known, Program
  <1>4. file \in Int /\ Inv
    BY DEF File, BadFile, NoExecFile, GoodFile, WaitInv
  <1>5. Effect(F, F, state') /\ state' \in [Thread -> ThreadState]
    <2>1. state' \in [Thread -> ThreadState]
      BY DEF Inv, RunInv, RunOK
    <2>2. CASE UNCHANGED <<state, newVars, pcbVars>>
      <3>1. Calm(F, state')
        BY <1>2, <2>2, SameRegistry DEF Calm, Family, newVars, pcbVars
      <3> QED BY <2>1, <3>1 DEF Effect
    <2>3. CASE \E p \in Pid : LoadELF(file, p)
      <3>1. CASE file = GoodFile
        <4>1. state' = st \/ UNCHANGED <<state, newVars, pcbVars>>
          BY <3>1 DEF LoadApplication
        <4>2. CASE state' = st
          <5>1. Creates(F, st)
            BY <1>2, <1>4, <2>3, <3>1, LoadEffect
          <5> QED BY <2>1, <4>2, <5>1 DEF Effect
        <4> QED BY <2>2, <4>1, <4>2
      <3>2. CASE file # GoodFile
        <4>1. state' = state
          BY <3>2 DEF LoadApplication
        <4>2. Empties(F, state)
          BY <1>2, <1>4, <2>3, <3>2, LoadEffect
        <4> QED BY <2>1, <4>1, <4>2 DEF Effect
      <3> QED BY <3>1, <3>2
    <2> QED BY <2>2, <2>3 DEF LoadApplication
  <1>6. Waiting(F)' /\ OnlyRestNew(state', count') /\ Listed(count', threads')
    <2>1. PICK s : s = state'
      OBVIOUS
    <2>2. Effect(F, F, s) /\ s \in [Thread -> ThreadState] /\ \A t \in Thread : state'[t] = s[t]
      BY <1>5, <2>1
    <2> QED BY <1>1, <2>2, EffectInv
  <1> QED BY <1>1, <1>3, <1>6 DEF WaitInv, OnlyRestNew, Listed

LEMMA InitWait == Init => WaitInv
  <1> SUFFICES ASSUME Init PROVE WaitInv
    OBVIOUS
  <1>1. Inv
    BY InitInv
  <1>2. CallsKnown
    BY DEF Init, CallsKnown, Known, InitialContext
  <1>3. CurrentNotReady
    BY DEF Init, CurrentNotReady
  <1>4. OnlyRestNew(state, count)
    BY DEF Init, OnlyRestNew, Thread
  <1>5. Listed(count, threads)
    BY DEF Init, Listed
  <1>6. Registry({}) = {}
    <2>1. ASSUME NEW r \in Registry({}) PROVE FALSE
      <3>1. CASE r.kind = "join"
        BY <3>1 DEF Registry, Registration, Init, NoThread, Thread
      <3>2. CASE r.kind = "lock"
        BY <3>2 DEF Registry, Registration, Init
      <3>3. CASE r.kind = "wait"
        BY <3>3 DEF Registry, Registration, Init
      <3> QED BY <3>1, <3>2, <3>3 DEF Registry
    <2> QED BY <2>1
  <1>7. WaitsOnce({}, state, Registry({}))
    BY <1>6 DEF WaitsOnce
  <1>8. RootedNow({})
    <2>1. 1 .. count = {} /\ \A p \in Pid : threads[p] = {}
      BY DEF Init
    <2> QED BY <1>6, <2>1 DEF RootedNow, Rooted
  <1>9. Waiting({})
    BY <1>7, <1>8 DEF Waiting, RootedNow
  <1> QED BY <1>1, <1>2, <1>3, <1>4, <1>5, <1>9 DEF WaitInv

LEMMA NextWait == WaitInv /\ [Next]_vars => WaitInv'
  <1> SUFFICES ASSUME WaitInv, [Next]_vars PROVE WaitInv'
    OBVIOUS
  <1>0. Inv'
    BY NextInv DEF WaitInv
  <1>1. CASE UNCHANGED vars
    BY <1>0, <1>1, StatusWait DEF vars
  <1>2. CASE Halted
    BY <1>1, <1>2 DEF Halted
  <1>3. CASE Loop
    <2>1. PICK F \in SUBSET Thread : Waiting(F)
      BY DEF WaitInv
    <2>2. \/ Iteration(F) \/ Reschedule \/ Stops
      BY <1>3, <2>1, LoopSteps DEF WaitInv, CallsKnown, Waiting
    <2>3. Stops => WaitInv'
      BY <1>0, StatusWait DEF Stops
    <2> QED BY <1>0, <2>1, <2>2, <2>3, IterationInv, RescheduleWait
  <1> QED BY <1>0, <1>1, <1>2, <1>3, StartWait, LoadApplicationWait DEF Next

LEMMA WaitInvariant == Spec => []WaitInv
  BY InitWait, NextWait, PTL DEF Spec

-----------------------------------------------------------------------------
(***************************************************************************)
(* What follows for the properties of Kernel.                              *)
(***************************************************************************)
\* The scheduler looks at every thread.
LEMMA ModWrap ==
    ASSUME NEW n \in Nat \ {0}, NEW a \in 0 .. n - 1
    PROVE  a % n = a /\ (a + n) % n = a
  OBVIOUS

LEMMA CircleOnto ==
    ASSUME NEW n \in Nat \ {0}, NEW a \in 0 .. n, NEW t \in 1 .. n
    PROVE  \E d \in 1 .. n : ((a + d - 1) % n) + 1 = t
  <1>1. CASE t > a
    <2>1. PICK d \in 1 .. n : d = t - a
      BY <1>1
    <2>2. a + d - 1 = t - 1 /\ t - 1 \in 0 .. n - 1
      BY <2>1
    <2>3. (a + d - 1) % n = t - 1
      BY <2>2, ModWrap
    <2> QED BY <2>3
  <1>2. CASE t <= a
    <2>1. PICK d \in 1 .. n : d = t - a + n
      BY <1>2
    <2>2. a + d - 1 = (t - 1) + n /\ t - 1 \in 0 .. n - 1
      BY <2>1
    <2>3. (a + d - 1) % n = t - 1
      BY <2>2, ModWrap
    <2> QED BY <2>3
  <1> QED BY <1>1, <1>2

LEMMA SuccessorOnto ==
    ASSUME count' \in Nat \ {0}, current \in 0 .. count', NEW t \in 1 .. count'
    PROVE  \E d \in 1 .. count' : Successor(d) = t
  BY CircleOnto DEF Successor

\* A step that is not an iteration of the loop schedules, stops or loads.
LEMMA StallStep ==
    ASSUME WaitInv, StallMeansDeadlock, [Next]_vars
    PROVE  StallMeansDeadlock'
  <1>1. CASE UNCHANGED vars \/ Halted
    BY <1>1 DEF vars, runVars, newVars, Halted, StallMeansDeadlock
  <1>2. CASE Loop
    <2>1. PICK F \in SUBSET Thread : Waiting(F)
      BY DEF WaitInv
    <2>2. CASE Iteration(F) \/ Stops
      BY <2>2 DEF Iteration, Stops, Executing, StallMeansDeadlock
    <2>3. CASE Reschedule /\ status' = "stalled"
      <3>1. /\ Preempt(state, context, cpu) /\ count' = count /\ count \in Nat \ {0}
            /\ current \in 0 .. count' /\ 1 .. count \subseteq Thread
            /\ state \in [Thread -> ThreadState] /\ count <= MaxActive /\ Inv
            /\ current # NoThread => state[current] # "READY" /\ state[current] # "RUNNING"
        BY <2>3, ConstantsOK
           DEF Reschedule, AllTerminated, WaitInv, CurrentNotReady, Executing, newVars,
               Inv, RunInv, RunOK, NewOK, Thread
      <3>2. state' = state
        BY <2>3, <3>1, Scheduled, SameStates DEF Reschedule, NoThread
      <3>3. ASSUME NEW t \in 1 .. count, state[t] = "READY" PROVE FALSE
        <4>1. PICK d \in 1 .. count' : Successor(d) = t
          BY <3>1, SuccessorOnto
        <4>2. PICK e \in 1 .. count' :
                 /\ state[Successor(e)] = "READY"
                 /\ IF Successor(e) # current
                      THEN ContextSwitch(Successor(e), state, context, cpu)
                      ELSE NoSwitch(state, context, cpu)
          BY <3>1, <3>3, <4>1 DEF Preempt
        <4>3. \E f \in 1 .. count' : f = Successor(e)
          <5>1. current + e - 1 \in Nat
            BY <3>1
          <5>2. (current + e - 1) % count' \in 0 .. count' - 1
            BY <3>1, <5>1, ModBound
          <5> QED BY <3>1, <5>2 DEF Successor
        <4>4. Successor(e) # current
          BY <3>1, <4>2, <4>3 DEF NoThread
        <4>5. current' \in Thread /\ state'[current'] = "RUNNING" /\ current' # NoThread
          BY <3>1, <4>2, <4>3, <4>4 DEF ContextSwitch, NoThread
        <4> QED BY <2>3, <4>5 DEF Reschedule
      <3>4. \A t \in 1 .. count : state[t] \notin {"NEW", "READY", "RUNNING"}
        BY <3>1, <3>3
        DEF WaitInv, OnlyRestNew, Inv, RunInv, SpaceInv, OnlyCurrentRuns, Thread, NoThread
      <3>5. \A t \in 1 .. count : state[t] \in {"BLOCKED", "TERMINATED"}
        BY <3>1, <3>4 DEF ThreadState
      <3> QED BY <3>1, <3>2, <3>5 DEF StallMeansDeadlock
    <2>4. CASE Reschedule /\ status' # "stalled"
      BY <2>4 DEF StallMeansDeadlock
    <2> QED BY <1>2, <2>1, <2>2, <2>3, <2>4, LoopSteps DEF WaitInv, CallsKnown, Waiting
  <1>3. CASE Start \/ \E file \in File : LoadApplication(file)
    BY <1>3 DEF Start, LoadApplication, StallMeansDeadlock
  <1> QED BY <1>1, <1>2, <1>3 DEF Next

\* The main loop gives up only when every thread that exists is BLOCKED: a
\* thread that could run is always found, whatever the workload.
THEOREM StallsAreDeadlocks == Spec => []StallMeansDeadlock
  <1>1. Init => StallMeansDeadlock
    BY DEF Init, StallMeansDeadlock
  <1> QED BY <1>1, StallStep, WaitInvariant, PTL DEF Spec

\* Without threads that wait for a process beside others of their own, the
\* end of a process leaves nobody behind.
THEOREM NoOrphans ==
    ASSUME Solo
    PROVE  Spec => []NoOrphanThread
  <1>1. WaitInv => NoOrphanThread
    <2> SUFFICES ASSUME WaitInv, NEW t \in Thread, Live(t)
                 PROVE  active[parent[t]] /\ t \in threads[parent[t]]
      BY DEF NoOrphanThread
    <2>1. t \in 1 .. count
      BY ConstantsOK DEF Live, Thread, WaitInv, Inv, NewOK
    <2> QED BY <2>1 DEF WaitInv, Waiting, Rooted, Live
  <1> QED BY <1>1, WaitInvariant, PTL

\* And whoever terminate, thread_exit or unlock would set to READY is BLOCKED.
THEOREM OnlyBlockedWoken ==
    ASSUME Solo
    PROVE  Spec => []WakesOnlyBlocked
  <1>1. ASSUME WaitInv PROVE WakesOnlyBlocked
    <2>1. PICK F \in SUBSET Thread :
             /\ WaitsOnce(F, state, Registry(F)) /\ RootedNow(F)
      BY <1>1 DEF WaitInv, Waiting, RootedNow
    <2>2. ASSUME NEW u \in Thread, Live(u), joiner[u] # NoThread
          PROVE  state[joiner[u]] = "BLOCKED"
      <3> DEFINE r == [kind |-> "join", of |-> u, at |-> 0, thread |-> joiner[u]]
      <3>1. joiner[u] \in Thread /\ u \in Nat /\ u \notin F
        BY <1>1, <2>1, <2>2, ConstantsOK
           DEF WaitInv, Inv, JoinOK, Thread, WaitsOnce, Live
      <3>2. r \in Registry(F) /\ r.thread = joiner[u] /\ r.kind = "join" /\ r.of = u
        BY <3>1 DEF Registry, Registration
      <3> HIDE DEF r
      <3> QED BY <2>1, <2>2, <3>2 DEF WaitsOnce, RootedNow, Rooted, Live
    <2>3. ASSUME NEW p \in Pid, NEW t \in processWaiters[p]
          PROVE  state[t] = "BLOCKED"
      <3> DEFINE r == [kind |-> "wait", of |-> p, at |-> 0, thread |-> t]
      <3>1. t \in Thread /\ p \in Nat
        BY <1>1, ConstantsOK DEF WaitInv, Inv, WaitOK, Pid
      <3>2. r \in Registry(F) /\ r.thread = t /\ r.kind = "wait"
        BY <2>3, <3>1 DEF Registry, Registration
      <3> HIDE DEF r
      <3> QED BY <2>1, <3>2 DEF WaitsOnce, RootedNow, Rooted
    <2>4. ASSUME NEW p \in Pid, active[p], NEW k \in DOMAIN mutexList[p],
                 NEW t \in mutexList[p][k].waitQueue
          PROVE  state[t] = "BLOCKED"
      <3> DEFINE r == [kind |-> "lock", of |-> p, at |-> k, thread |-> t]
      <3>1. t \in Thread /\ p \in Nat /\ k \in Nat
        BY <1>1, <2>4, MutexQueues, ConstantsOK DEF WaitInv, Pid
      <3>2. r \in Registry(F) /\ r.thread = t /\ r.kind = "lock" /\ r.of = p
        BY <2>4, <3>1 DEF Registry, Registration
      <3> HIDE DEF r
      <3> QED BY <2>1, <2>4, <3>2 DEF WaitsOnce, RootedNow, Rooted
    <2> QED BY <2>2, <2>3, <2>4 DEF WakesOnlyBlocked
  <1> QED BY <1>1, WaitInvariant, PTL

\* For every workload: a thread is registered once and does not run.
THEOREM OneAtATime == Spec => []WaitsForOne
  <1>1. ASSUME WaitInv PROVE WaitsForOne
    <2>1. PICK F \in SUBSET Thread : WaitsOnce(F, state, Registry(F))
      BY <1>1 DEF WaitInv, Waiting
    <2>2. ASSUME NEW t \in Thread, NEW w \in Wakers(t)
          PROVE  [kind |-> w[1], of |-> w[2], at |-> w[3], thread |-> t] \in Registry(F)
      <3>1. ASSUME NEW u \in Thread, Live(u), joiner[u] = t
            PROVE  [kind |-> "join", of |-> u, at |-> 0, thread |-> t] \in Registry(F)
        <4>1. u \in Thread \ F /\ u \in Nat
          BY <2>1, <3>1 DEF WaitsOnce, Live, Thread
        <4> QED BY <3>1, <4>1 DEF Registry, Registration
      <3>2. ASSUME NEW p \in Pid, t \in processWaiters[p]
            PROVE  [kind |-> "wait", of |-> p, at |-> 0, thread |-> t] \in Registry(F)
        BY <3>2, ConstantsOK DEF Registry, Registration, Pid
      <3>3. ASSUME NEW p \in Pid, NEW k \in DOMAIN mutexList[p],
                   t \in mutexList[p][k].waitQueue
            PROVE  [kind |-> "lock", of |-> p, at |-> k, thread |-> t] \in Registry(F)
        <4>1. p \in Nat /\ k \in Nat
          BY <1>1, MutexQueues, ConstantsOK DEF WaitInv, Pid
        <4> QED BY <3>3, <4>1 DEF Registry, Registration
      <3>4. \/ \E u \in Thread : Live(u) /\ joiner[u] = t /\ w = <<"join", u, 0>>
            \/ \E p \in Pid : t \in processWaiters[p] /\ w = <<"wait", p, 0>>
            \/ \E p \in Pid : \E k \in DOMAIN mutexList[p] :
                  t \in mutexList[p][k].waitQueue /\ w = <<"lock", p, k>>
        BY <2>2 DEF Wakers
      <3> QED BY <3>1, <3>2, <3>3, <3>4
    <2>3. ASSUME NEW t \in Thread, NEW v \in Wakers(t), NEW w \in Wakers(t)
          PROVE  v = w /\ state[t] \in {"BLOCKED", "TERMINATED"}
      <3> DEFINE r(x) == [kind |-> x[1], of |-> x[2], at |-> x[3], thread |-> t]
      <3>1. r(v) \in Registry(F) /\ r(w) \in Registry(F)
        BY <2>2
      <3>2. r(v).thread = t /\ r(w).thread = t
        OBVIOUS
      <3>3. r(v) = r(w) /\ state[t] \in {"BLOCKED", "TERMINATED"}
        <4> HIDE DEF r
        <4> QED BY <2>1, <3>1, <3>2 DEF WaitsOnce
      <3>4. v[1] = w[1] /\ v[2] = w[2] /\ v[3] = w[3]
        BY <3>3
      <3>5. \A x \in Wakers(t) : x = <<x[1], x[2], x[3]>>
        BY DEF Wakers
      <3> QED BY <3>3, <3>4, <3>5
    <2> QED BY <2>3 DEF WaitsForOne
  <1> QED BY <1>1, WaitInvariant, PTL

\* Under the same assumption the process of the running thread is active when
\* exit, a failed call or a fault terminates it: no handler panics.
THEOREM NoPanics ==
    ASSUME Solo
    PROVE  Spec => []NoKernelPanic
  <1>1. Init => NoKernelPanic
    BY DEF Init, NoKernelPanic
  <1>2. WaitInv /\ NoKernelPanic /\ [Next]_vars => NoKernelPanic'
    <2> SUFFICES ASSUME WaitInv, NoKernelPanic, [Next]_vars, status' = "panic"
                 PROVE  FALSE
      BY DEF NoKernelPanic
    <2>1. CASE Loop
      <3>1. PICK F \in SUBSET Thread : Waiting(F)
        BY DEF WaitInv
      <3>2. Iteration(F) \/ Reschedule \/ Stops
        BY <2>1, <3>1, LoopSteps DEF WaitInv, CallsKnown, Waiting
      <3>3. Stops
        BY <3>2 DEF Iteration, Executing, Reschedule
      <3>4. Executing /\ ~active[proc]
        BY <3>3 DEF Stops
      <3> QED BY <3>1, <3>4, RunningRooted DEF WaitInv, Waiting, RootedNow
    <2>2. CASE Start \/ \E file \in File : LoadApplication(file)
      BY <2>2 DEF Start, LoadApplication
    <2>3. CASE Halted \/ UNCHANGED vars
      BY <2>3 DEF Halted, vars, NoKernelPanic
    <2> QED BY <2>1, <2>2, <2>3 DEF Next
  <1> QED BY <1>1, <1>2, WaitInvariant, PTL DEF Spec

\* What a step does to threads, for the action properties.
LEMMA StepOnThreads ==
    ASSUME WaitInv, [Next]_vars
    PROVE  \/ UNCHANGED <<cpu, current, context, state>>
           \/ UNCHANGED <<cpu, current, context>> /\ \E file \in File : LoadApplication(file)
           \/ \E st, ctx, c :
                 /\ st \in [Thread -> ThreadState]
                 /\ ctx \in [Thread -> Context] /\ c \in Context
                 /\ Preempt(st, ctx, c) \/ NoSwitch(st, ctx, c)
                 /\ count' \in Nat \ {0} /\ current <= count' /\ count' <= MaxActive
                 /\ (current \in Thread /\ ContextsOK(st, ctx, c)) \/ ctx = context
                 /\ \E F \in SUBSET Thread : \E G : Waiting(F) /\ Effect(F, G, st)
  <1>0. PICK F \in SUBSET Thread : Waiting(F)
    BY DEF WaitInv
  <1>1. CASE UNCHANGED vars \/ Halted
    BY <1>1 DEF vars, runVars, Halted
  <1>2. CASE Iteration(F)
    <2>1. PICK G, st, ctx, c :
            /\ Effect(F, G, st)
            /\ st \in [Thread -> ThreadState]
            /\ ContextsOK(st, ctx, c)
            /\ EndOfInstruction(st, ctx, c)
      BY <1>2 DEF Iteration
    <2>2. Inv' /\ Executing /\ Inv
      BY <1>2, NextInv DEF WaitInv, Iteration
    <2>3. /\ current \in Thread /\ current <= count /\ count \in Nat
          /\ current \in Nat /\ current # 0
      BY <2>2, ExecutingType, ConstantsOK DEF Inv, NewOK, Thread
    <2>4. count' \in Nat \ {0} /\ current <= count' /\ count' <= MaxActive
      BY <2>1, <2>2, <2>3, CountGrows, ConstantsOK DEF Inv, NewOK
    <2>5. Preempt(st, ctx, c) \/ NoSwitch(st, ctx, c)
      BY <2>1 DEF EndOfInstruction
    <2>6. ctx \in [Thread -> Context] /\ c \in Context
      BY <2>1 DEF ContextsOK
    <2> QED BY <1>0, <2>1, <2>3, <2>4, <2>5, <2>6
  <1>3. CASE Stops
    BY <1>3 DEF Stops, runVars
  <1>4. ASSUME Preempt(state, context, cpu), count # 0,
               UNCHANGED <<newVars, joinVars, pcbVars, waitVars>>
        PROVE  \E st, ctx, c :
                 /\ st \in [Thread -> ThreadState]
                 /\ ctx \in [Thread -> Context] /\ c \in Context
                 /\ Preempt(st, ctx, c) \/ NoSwitch(st, ctx, c)
                 /\ count' \in Nat \ {0} /\ current <= count' /\ count' <= MaxActive
                 /\ (current \in Thread /\ ContextsOK(st, ctx, c)) \/ ctx = context
                 /\ \E E \in SUBSET Thread : \E G : Waiting(E) /\ Effect(E, G, st)
    <2>1. /\ state \in [Thread -> ThreadState] /\ context \in [Thread -> Context]
          /\ cpu \in Context
      BY SameStates DEF WaitInv
    <2>2. count' \in Nat \ {0} /\ current <= count' /\ count' <= MaxActive
      BY <1>4, ConstantsOK DEF WaitInv, Inv, NewOK, RunInv, RunOK, newVars
    <2>3. Effect(F, F, state)
      <3>1. Registry(F)' = Registry(F) /\ UNCHANGED Family
        BY <1>4, SameRegistry DEF joinVars, pcbVars, waitVars, newVars, Family
      <3> QED BY <3>1 DEF Effect, Calm
    <2>4. PICK st, ctx, c : st = state /\ ctx = context /\ c = cpu
      OBVIOUS
    <2>5. Preempt(st, ctx, c) /\ Effect(F, F, st)
      BY <1>4, <2>3, <2>4
    <2> QED BY <1>0, <2>1, <2>2, <2>4, <2>5
  <1>5. CASE Start
    BY <1>4, <1>5 DEF Start
  <1>6. CASE Reschedule
    <2>1. Preempt(state, context, cpu) /\ count # 0
          /\ UNCHANGED <<newVars, joinVars, pcbVars, waitVars>>
      BY <1>6 DEF Reschedule, AllTerminated
    <2> QED BY <1>4, <2>1
  <1>7. CASE \E file \in File : LoadApplication(file)
    BY <1>7 DEF LoadApplication
  <1>8. Loop => Iteration(F) \/ Reschedule \/ Stops
    BY <1>0, LoopSteps DEF WaitInv, CallsKnown, Waiting
  <1> QED BY <1>1, <1>2, <1>3, <1>5, <1>6, <1>7, <1>8 DEF Next

\* And a dead thread stays dead: no joiner, mutex or process it was waiting
\* for when it died brings it back.
THEOREM DeathIsFinal ==
    ASSUME Solo
    PROVE  Spec => TerminatedIsFinal
  <1>1. WaitInv /\ [Next]_vars =>
          [\A t \in Thread : state[t] = "TERMINATED" => state'[t] = "TERMINATED"]_vars
    <2> SUFFICES ASSUME WaitInv, [Next]_vars, NEW t \in Thread, state[t] = "TERMINATED"
                 PROVE  state'[t] = "TERMINATED"
      OBVIOUS
    <2>1. CASE UNCHANGED <<cpu, current, context, state>>
      BY <2>1
    <2>2. CASE \E file \in File : LoadApplication(file)
      <3>1. t # count + 1
        BY ConstantsOK DEF WaitInv, OnlyRestNew, Inv, NewOK
      <3> QED BY <2>2, <3>1, SameStates DEF LoadApplication, WaitInv
    <2>3. ASSUME NEW st \in [Thread -> ThreadState], NEW ctx \in [Thread -> Context],
                 NEW c \in Context, Preempt(st, ctx, c) \/ NoSwitch(st, ctx, c),
                 count' \in Nat \ {0}, current <= count', count' <= MaxActive,
                 NEW F \in SUBSET Thread, NEW G, Waiting(F), Effect(F, G, st)
          PROVE  state'[t] = "TERMINATED"
      <3>1. st[t] = "TERMINATED"
        BY <2>3, NoRevival DEF WaitInv, Waiting, RootedNow
      <3>2. \/ state'[t] = st[t]
            \/ {st[t], state'[t]} \subseteq {"READY", "RUNNING"}
        BY <2>3, Scheduled DEF WaitInv
      <3> QED BY <3>1, <3>2
    <2> QED BY <2>1, <2>2, <2>3, StepOnThreads
  <1> QED BY <1>1, WaitInvariant, PTL DEF Spec, TerminatedIsFinal

\* Whatever the workload and the interleaving, a thread that is not running
\* keeps its registers until the thread it joins delivers an exit code.
THEOREM ContextsKept == Spec => ContextIntegrity
  <1> DEFINE Kept == \A t \in Thread :
                Live(t) /\ Live(t)' /\ t # current =>
                   \/ Ctx(t)' = Ctx(t)
                   \/ /\ t = joiner[current]
                      /\ state'[current] = "TERMINATED"
                      /\ Ctx(t)' = Returning(exitCode'[current])
  <1>1. WaitInv /\ [Next]_vars => Kept
    <2> SUFFICES ASSUME WaitInv, [Next]_vars, NEW t \in Thread,
                        Live(t), Live(t)', t # current
                 PROVE  \/ Ctx(t)' = Ctx(t)
                        \/ /\ t = joiner[current]
                           /\ state'[current] = "TERMINATED"
                           /\ Ctx(t)' = Returning(exitCode'[current])
      OBVIOUS
    <2>0. Ctx(t) = context[t] /\ Ctx(t)' = IF t = current' THEN cpu' ELSE context'[t]
      BY DEF Ctx
    <2>1. CASE UNCHANGED <<cpu, current, context>>
      BY <2>0, <2>1
    <2>2. ASSUME NEW st \in [Thread -> ThreadState], NEW ctx \in [Thread -> Context],
                 NEW c \in Context, Preempt(st, ctx, c) \/ NoSwitch(st, ctx, c),
                 count' \in Nat \ {0}, current <= count', count' <= MaxActive,
                 (current \in Thread /\ ContextsOK(st, ctx, c)) \/ ctx = context
          PROVE  \/ Ctx(t)' = Ctx(t)
                 \/ /\ t = joiner[current]
                    /\ state'[current] = "TERMINATED"
                    /\ Ctx(t)' = Returning(exitCode'[current])
      <3>1. /\ \A u \in Thread : \/ state'[u] = st[u]
                                 \/ {st[u], state'[u]} \subseteq {"READY", "RUNNING"}
            /\ Ctx(t)' = ctx[t]
        BY <2>0, <2>2, Scheduled DEF WaitInv
      <3>2. \/ ctx[t] = context[t]
            \/ /\ t = joiner[current] /\ current \in Thread
               /\ st[current] = "TERMINATED"
               /\ ctx[t] = Returning(exitCode'[current])
        BY <2>2 DEF ContextsOK
      <3> QED BY <2>0, <3>1, <3>2
    <2> QED BY <2>1, <2>2, StepOnThreads
  <1>2. WaitInv /\ [Next]_vars => [Kept]_vars
    BY <1>1
  <1> QED BY <1>2, WaitInvariant, PTL DEF Spec, ContextIntegrity

-----------------------------------------------------------------------------
(***************************************************************************)
(* No lost wake-up: without orphans, a blocked thread is registered where  *)
(* its ecall says, and what will wake it is still ahead.                   *)
(***************************************************************************)
\* What will wake thread t, suspended on ecall i, is still ahead.
Wakes(st, t, i) ==
    /\ i.arg \in Nat
    /\ \/ /\ i.call = "thread_join"
          /\ \E u \in threads[parent[t]] : /\ tid[u] = i.arg
                                           /\ joiner[u] = t
                                           /\ st[u] # "TERMINATED"
       \/ /\ i.call = "mutex_lock"
          /\ i.arg + 1 \in DOMAIN mutexList[parent[t]]
          /\ mutexList[parent[t]][i.arg + 1].locked
          /\ t \in mutexList[parent[t]][i.arg + 1].waitQueue
       \/ /\ i.call = "join_process"
          /\ i.arg \in Pid
          /\ active[i.arg]
          /\ t \in processWaiters[i.arg]

BlockedWakes == \A t \in Thread : state[t] = "BLOCKED" => Wakes(state, t, Ctx(t).pc)

\* A registration is not overwritten: a thread is joined once.
JoinedOnce == \A u \in Thread : joiner[u] # NoThread => hasBeenJoined[u]

\* A step that hands over states st and leaves what will wake t alone.
Keeps(st, t) ==
    /\ parent'[t] = parent[t]
    /\ \A u \in threads[parent[t]] : joiner[u] = t /\ state[u] # "TERMINATED" =>
          /\ u \in threads'[parent[t]]
          /\ tid'[u] = tid[u]
          /\ joiner'[u] = t
          /\ st[u] # "TERMINATED"
    /\ \A k \in DOMAIN mutexList[parent[t]] :
          LET m == mutexList[parent[t]][k]
              n == mutexList'[parent[t]][k]
          IN  m.locked /\ t \in m.waitQueue =>
                 k \in DOMAIN mutexList'[parent[t]] /\ n.locked /\ t \in n.waitQueue
    /\ \A q \in Pid : active[q] /\ t \in processWaiters[q] =>
          active'[q] /\ t \in processWaiters'[q]

LEMMA KeepsWaker ==
    ASSUME NEW st, NEW t \in Thread, NEW i, Wakes(state, t, i), Keeps(st, t)
    PROVE  Wakes(st, t, i)'
  <1>1. CASE i.call = "thread_join"
    BY <1>1 DEF Wakes, Keeps
  <1>2. CASE i.call = "mutex_lock"
    BY <1>2 DEF Wakes, Keeps
  <1>3. CASE i.call = "join_process"
    BY <1>3 DEF Wakes, Keeps
  <1> QED BY <1>1, <1>2, <1>3 DEF Wakes

\* Blocked threads are alive, and so are their processes.
LEMMA BlockedAlive ==
    ASSUME Solo, WaitInv, NEW t \in Thread, state[t] = "BLOCKED"
    PROVE  /\ t \in 1 .. count /\ parent[t] \in Pid
           /\ active[parent[t]] /\ t \in threads[parent[t]]
           /\ \A u \in threads[parent[t]] : /\ u \in 1 .. count /\ u \in Thread
                                            /\ parent[u] = parent[t]
  <1>1. PICK F \in SUBSET Thread : RootedNow(F)
    BY DEF WaitInv, Waiting, RootedNow
  <1>2. t \in 1 .. count /\ parent[t] \in Pid /\ 1 .. count \subseteq Thread
    BY ConstantsOK DEF WaitInv, OnlyRestNew, Inv, NewOK, Thread
  <1> QED BY <1>1, <1>2 DEF RootedNow, Rooted

\* The end of an instruction: who is blocked has a waker to come, if the
\* instruction kept it or has just registered the running thread.
LEMMA InstructionWakes ==
    ASSUME WaitInv, Inv', BlockedWakes, Executing, count <= count',
           NEW st \in [Thread -> ThreadState], NEW ctx \in [Thread -> Context],
           NEW c \in Context, EndOfInstruction(st, ctx, c),
           \A t \in Thread : st[t] = "BLOCKED" =>
              \/ /\ t # current /\ state[t] = "BLOCKED" /\ Keeps(st, t)
                 /\ ctx[t] = context[t]
              \/ /\ t = current
                 /\ \E i : i = c.pc /\ Wakes(st, t, i)'
    PROVE  BlockedWakes'
  <1>1. /\ Inv /\ current \in Thread /\ current <= count /\ count \in Nat
        /\ current \in Nat /\ current # 0
    <2>1. Inv
      BY DEF WaitInv
    <2>2. count \in 0 .. MaxActive
      BY <2>1 DEF Inv, NewOK
    <2>3. current \in Thread /\ current <= count
      BY <2>1, ExecutingType
    <2> QED BY <2>1, <2>2, <2>3, ConstantsOK DEF Thread
  <1>2. count' \in Nat \ {0} /\ current <= count' /\ count' <= MaxActive
    <2>1. count' \in 0 .. MaxActive
      BY DEF Inv, NewOK
    <2> QED BY <1>1, <2>1, ConstantsOK
  <1>3. Preempt(st, ctx, c) \/ NoSwitch(st, ctx, c)
    BY DEF EndOfInstruction
  <1>4. /\ \A t \in Thread : \/ state'[t] = st[t]
                             \/ {st[t], state'[t]} \subseteq {"READY", "RUNNING"}
        /\ \/ state' = st /\ current' = current /\ context' = ctx /\ cpu' = c
           \/ /\ state'[current'] = "RUNNING"
              /\ \A t \in Thread :
                    context'[t] = IF t = current /\ st[t] # "TERMINATED" THEN c ELSE ctx[t]
    BY <1>1, <1>2, <1>3, Scheduled
  <1> SUFFICES ASSUME NEW t \in Thread, state'[t] = "BLOCKED"
               PROVE  Wakes(state, t, Ctx(t).pc)'
    BY DEF BlockedWakes
  <1>5. st[t] = "BLOCKED"
    BY <1>4
  <1>6. Ctx(t)' = IF t = current THEN c ELSE ctx[t]
    BY <1>4, <1>5 DEF Ctx
  <1>7. PICK i : i = Ctx(t)'.pc /\ Wakes(st, t, i)'
    <2>1. CASE t = current
      BY <1>5, <1>6, <2>1
    <2>2. CASE t # current
      <3>1. PICK i : i = ctx[t].pc
        OBVIOUS
      <3>2. Wakes(state, t, i) /\ Keeps(st, t)
        BY <1>5, <2>2, <3>1 DEF BlockedWakes, Ctx
      <3> QED BY <1>6, <2>2, <3>1, <3>2, KeepsWaker
    <2> QED BY <2>1, <2>2
  <1>8. \A u \in Thread : state'[u] # "TERMINATED" <=> st[u] # "TERMINATED"
    BY <1>4
  <1>9. \A p \in Pid : threads'[p] \subseteq Thread
    BY DEF Inv, PcbOK
  <1>10. parent'[t] \in Pid
    BY DEF Inv, NewOK
  <1> QED BY <1>7, <1>8, <1>9, <1>10 DEF Wakes

WakerInv == WaitInv /\ BlockedWakes /\ JoinedOnce

-----------------------------------------------------------------------------
(***************************************************************************)
(* Each instruction keeps the wakers of those who stay blocked.            *)
(***************************************************************************)
\* Tables that say who waits for what.
WaitTables == <<parent, tid, threads, active, joiner, mutexList, processWaiters>>

LEMMA TablesKeep ==
    ASSUME UNCHANGED WaitTables, NEW st, NEW t,
           \A u \in threads[parent[t]] : joiner[u] = t /\ state[u] # "TERMINATED"
                                           => st[u] # "TERMINATED"
    PROVE  Keeps(st, t)
  BY DEF WaitTables, Keeps

LEMMA RunningNotBlocked ==
    ASSUME WaitInv, Executing
    PROVE  /\ current \in Thread /\ proc \in Pid /\ count \in Nat /\ current <= count
           /\ state[current] = "RUNNING" /\ Inv
           /\ state \in [Thread -> ThreadState] /\ context \in [Thread -> Context]
           /\ cpu \in Context /\ cpu.pc \in Known
  BY ExecutingType, SameStates DEF Executing, WaitInv, Inv, NewOK, CallsKnown

\* A call that returns at once and touches none of the tables.
LEMMA CalmWakes ==
    ASSUME WakerInv, Inv', Executing, UNCHANGED WaitTables, count' = count,
           NEW c \in Context, EndOfInstruction(state, context, c)
    PROVE  BlockedWakes'
  <1>1. state[current] = "RUNNING" /\ state \in [Thread -> ThreadState]
        /\ context \in [Thread -> Context] /\ count \in Nat
    BY RunningNotBlocked DEF WakerInv
  <1>2. \A t \in Thread : state[t] = "BLOCKED" => t # current /\ Keeps(state, t)
    BY <1>1, TablesKeep
  <1> QED BY <1>1, <1>2, InstructionWakes DEF WakerInv

\* A call that blocks the running thread, once its own waker is there.
LEMMA BlockingWakes ==
    ASSUME WakerInv, Inv', Executing, count' = count,
           NEW i \in Executable,
           EndOfInstruction([state EXCEPT ![current] = "BLOCKED"], context, Suspended(i)),
           NEW st, st = [state EXCEPT ![current] = "BLOCKED"],
           \A t \in Thread : state[t] = "BLOCKED" /\ t # current => Keeps(st, t),
           \E t : t = current /\ Wakes(st, t, i)'
    PROVE  BlockedWakes'
  <1>1. /\ current \in Thread /\ state[current] = "RUNNING" /\ state \in [Thread -> ThreadState]
        /\ context \in [Thread -> Context] /\ count \in Nat
        /\ Inv /\ cpu.pc \in Known
    BY RunningNotBlocked DEF WakerInv
  <1>2. PICK c \in Context : c = Suspended(i) /\ c.pc = i
    BY <1>1, RegistersKnown
  <1>3. \A t \in Thread : t # current => st[t] = state[t]
    BY <1>1
  <1>4. ASSUME NEW t \in Thread, st[t] = "BLOCKED"
        PROVE  \/ /\ t # current /\ state[t] = "BLOCKED" /\ Keeps(st, t)
                  /\ context[t] = context[t]
               \/ /\ t = current
                  /\ \E j : j = c.pc /\ Wakes(st, t, j)'
    BY <1>2, <1>3, <1>4
  <1>5. st \in [Thread -> ThreadState] /\ EndOfInstruction(st, context, c)
    BY <1>1, <1>2 DEF ThreadState
  <1>6. count <= count'
    BY <1>1
  <1> QED BY <1>1, <1>4, <1>5, <1>6, InstructionWakes DEF WakerInv

LEMMA TerminateWakes ==
    ASSUME Solo, WakerInv, Inv', Executing, active[proc], NEW code,
           NEW c \in Context, Terminate(proc, code, c)
    PROVE  BlockedWakes'
  <1>0. PICK st : st = StatesAfterTerminate(proc)
    OBVIOUS
  <1>1. /\ processWaiters' = [processWaiters EXCEPT ![proc] = {}]
        /\ active' = [active EXCEPT ![proc] = FALSE]
        /\ UNCHANGED <<newVars, joinVars, threads, mutexList>>
        /\ EndOfInstruction(st, context, c)
    BY <1>0 DEF Terminate, EraseWaiters
  <1>2. /\ st \in [Thread -> ThreadState] /\ Inv /\ context \in [Thread -> Context]
        /\ count \in Nat /\ proc \in Pid /\ WaitInv
    BY <1>0, SameStates, RunningNotBlocked DEF StatesAfterTerminate, ThreadState, WakerInv
  <1>3. ASSUME NEW t \in Thread, st[t] = "BLOCKED"
        PROVE  t # current /\ state[t] = "BLOCKED" /\ Keeps(st, t)
    <2>1. t \notin processWaiters[proc] /\ t \notin threads[proc] /\ state[t] = "BLOCKED"
      BY <1>0, <1>3 DEF StatesAfterTerminate
    <2>2. /\ parent[t] # proc /\ parent[t] \in Pid
          /\ \A u \in threads[parent[t]] : u \in Thread /\ parent[u] = parent[t]
      BY <1>2, <2>1, BlockedAlive
    <2>3. \A u \in threads[parent[t]] : u \notin threads[proc]
      BY <1>2, <2>2 DEF WaitInv, Waiting, Rooted
    <2>4. \A u \in threads[parent[t]] : state[u] # "TERMINATED" => st[u] # "TERMINATED"
      BY <1>0, <2>2, <2>3 DEF StatesAfterTerminate
    <2>5. \A q \in Pid : active[q] /\ t \in processWaiters[q] =>
              active'[q] /\ t \in processWaiters'[q]
      BY <1>1, <1>2, <2>1 DEF Inv, PcbOK, WaitOK
    <2>6. Keeps(st, t)
      BY <1>1, <2>4, <2>5 DEF Keeps, newVars, joinVars
    <2> QED BY <1>2, <2>1, <2>6, RunningNotBlocked
  <1>4. count <= count'
    BY <1>1, <1>2 DEF newVars
  <1> QED BY <1>1, <1>2, <1>3, <1>4, InstructionWakes DEF WakerInv

LEMMA ThreadExitWakes ==
    ASSUME WakerInv, Inv', NEW i \in Executable, ThreadExit(i)
    PROVE  BlockedWakes'
  <1>1. /\ Executing /\ UNCHANGED WaitTables /\ count' = count
    BY DEF ThreadExit, Ecall, newVars, pcbVars, waitVars, WaitTables
  <1>2. /\ current \in Thread /\ state[current] = "RUNNING" /\ Inv /\ cpu.pc \in Known
        /\ state \in [Thread -> ThreadState] /\ context \in [Thread -> Context]
        /\ count \in Nat /\ WaitInv
    BY <1>1, RunningNotBlocked DEF WakerInv
  <1>3. joiner \in [Thread -> Thread \cup {NoThread}] /\ \A t \in Thread : t # NoThread
    BY <1>2 DEF Inv, JoinOK, Thread, NoThread
  <1>4. PICK c \in Context : c = Suspended(i)
    BY <1>2, RegistersKnown
  <1>5. PICK j : j = joiner[current]
    OBVIOUS
  <1>6. PICK dead : dead = [state EXCEPT ![current] = "TERMINATED"]
    OBVIOUS
  <1>7. Returning(i.arg) \in Context
    BY <1>2, RegistersKnown DEF ProgramCounter
  <1>8. \E st, ctx :
           /\ EndOfInstruction(st, ctx, c)
           /\ st \in [Thread -> ThreadState] /\ ctx \in [Thread -> Context]
           /\ st[current] = "TERMINATED" \/ st[current] = "READY"
           /\ \A t \in Thread \ {current} :
                 \/ t = j /\ st[t] = "READY"
                 \/ t # j /\ st[t] = state[t] /\ ctx[t] = context[t]
    <2>1. CASE j = NoThread
      <3>1. EndOfInstruction(dead, context, c)
        BY <1>4, <1>5, <1>6, <2>1 DEF ThreadExit
      <3>2. /\ dead \in [Thread -> ThreadState] /\ dead[current] = "TERMINATED"
            /\ \A t \in Thread \ {current} : dead[t] = state[t]
        BY <1>2, <1>6 DEF ThreadState
      <3> QED BY <1>2, <1>3, <2>1, <3>1, <3>2
    <2>2. CASE j # NoThread
      <3>1. EndOfInstruction([dead EXCEPT ![j] = "READY"], Delivered(j, i.arg), c)
        BY <1>4, <1>5, <1>6, <2>2 DEF ThreadExit
      <3>2. j \in Thread
        BY <1>2, <1>3, <1>5, <2>2
      <3>3. PICK st, ctx : st = [dead EXCEPT ![j] = "READY"] /\ ctx = Delivered(j, i.arg)
        OBVIOUS
      <3>4. /\ st \in [Thread -> ThreadState]
            /\ st[current] = "TERMINATED" \/ st[current] = "READY"
            /\ \A t \in Thread \ {current} :
                  \/ t = j /\ st[t] = "READY"
                  \/ t # j /\ st[t] = state[t]
        BY <1>2, <1>6, <3>2, <3>3 DEF ThreadState
      <3>5. ctx \in [Thread -> Context] /\ \A t \in Thread \ {j} : ctx[t] = context[t]
        BY <1>2, <1>7, <3>2, <3>3 DEF Delivered
      <3>6. EndOfInstruction(st, ctx, c)
        BY <3>1, <3>3
      <3>7. \A t \in Thread \ {current} :
               \/ t = j /\ st[t] = "READY"
               \/ t # j /\ st[t] = state[t] /\ ctx[t] = context[t]
        BY <3>4, <3>5
      <3> QED BY <3>4, <3>5, <3>6, <3>7
    <2> QED BY <2>1, <2>2
  <1>9. PICK st, ctx :
           /\ EndOfInstruction(st, ctx, c)
           /\ st \in [Thread -> ThreadState] /\ ctx \in [Thread -> Context]
           /\ st[current] = "TERMINATED" \/ st[current] = "READY"
           /\ \A t \in Thread \ {current} :
                 \/ t = j /\ st[t] = "READY"
                 \/ t # j /\ st[t] = state[t] /\ ctx[t] = context[t]
    BY <1>8
  <1>10. ASSUME NEW t \in Thread, st[t] = "BLOCKED"
         PROVE  t # current /\ state[t] = "BLOCKED" /\ Keeps(st, t) /\ ctx[t] = context[t]
    <2>1. t # current /\ t # j /\ state[t] = "BLOCKED" /\ ctx[t] = context[t]
      BY <1>9, <1>10
    <2>2. \A u \in Thread : joiner[u] = t /\ state[u] # "TERMINATED" => st[u] # "TERMINATED"
      BY <1>5, <1>9, <2>1
    <2>3. parent[t] \in Pid /\ threads[parent[t]] \subseteq Thread
      BY <1>2 DEF Inv, NewOK, PcbOK
    <2>4. Keeps(st, t)
      BY <1>1, <2>2, <2>3, TablesKeep
    <2> QED BY <2>1, <2>4
  <1>11. count <= count'
    BY <1>1, <1>2
  <1> QED BY <1>1, <1>9, <1>10, <1>11, InstructionWakes DEF WakerInv

LEMMA ThreadJoinWakes ==
    ASSUME Solo, WakerInv, Inv', NEW i \in Executable, ThreadJoin(i)
    PROVE  BlockedWakes'
  <1>1. /\ Executing /\ count' = count
        /\ UNCHANGED <<parent, tid, threads, active, mutexList, processWaiters>>
    BY DEF ThreadJoin, Ecall, newVars, pcbVars, waitVars
  <1>2. /\ current \in Thread /\ state[current] = "RUNNING" /\ Inv /\ cpu.pc \in Known
        /\ state \in [Thread -> ThreadState] /\ proc \in Pid
        /\ count \in Nat /\ WaitInv
    BY <1>1, RunningNotBlocked DEF WakerInv
  <1>3. /\ joiner \in [Thread -> Thread \cup {NoThread}] /\ \A t \in Thread : t # NoThread
        /\ threads[proc] \subseteq Thread /\ exitCode \in [Thread -> Int]
    BY <1>2 DEF Inv, JoinOK, PcbOK, Thread, NoThread
  <1>4. ASSUME joiner' = joiner, NEW v \in Int,
               EndOfInstruction(state, context, Returning(v))
        PROVE  BlockedWakes'
    <2>1. UNCHANGED WaitTables
      BY <1>1, <1>4 DEF WaitTables
    <2>2. Returning(v) \in Context
      BY RegistersType
    <2> QED BY <1>1, <1>4, <2>1, <2>2, CalmWakes
  <1>5. ASSUME NEW u \in threads[proc], tid[u] = i.arg, i.arg # tid[current],
               ~hasBeenJoined[u], state[u] # "TERMINATED",
               joiner' = [joiner EXCEPT ![u] = current],
               EndOfInstruction([state EXCEPT ![current] = "BLOCKED"], context, Suspended(i))
        PROVE  BlockedWakes'
    <2>1. PICK st : st = [state EXCEPT ![current] = "BLOCKED"]
      OBVIOUS
    <2>2. joiner[u] = NoThread /\ u \in Thread /\ u # current
      BY <1>3, <1>5 DEF WakerInv, JoinedOnce
    <2>3. ASSUME NEW t \in Thread, state[t] = "BLOCKED", t # current PROVE Keeps(st, t)
      <3>1. parent[t] \in Pid /\ threads[parent[t]] \subseteq Thread
        BY <1>2 DEF Inv, NewOK, PcbOK
      <3>2. \A w \in threads[parent[t]] : joiner[w] = t => joiner'[w] = t
        BY <1>3, <1>5, <2>2, <3>1
      <3>3. \A w \in Thread : state[w] # "TERMINATED" => st[w] # "TERMINATED"
        BY <1>2, <2>1
      <3> QED BY <1>1, <3>1, <3>2, <3>3 DEF Keeps
    <2>4. PICK t : t = current
      OBVIOUS
    <2>5. Wakes(st, t, i)'
      <3>1. /\ parent'[t] = proc /\ u \in threads'[proc] /\ tid'[u] = i.arg
            /\ joiner'[u] = t /\ st[u] # "TERMINATED"
        BY <1>1, <1>2, <1>3, <1>5, <2>1, <2>2, <2>4 DEF proc
      <3>2. i.call = "thread_join" /\ i.arg \in Nat
        BY <1>2, RegistersKnown DEF ThreadJoin, Ecall, ProgramCounter
      <3> QED BY <3>1, <3>2 DEF Wakes
    <2> QED BY <1>1, <1>5, <2>1, <2>3, <2>4, <2>5, BlockingWakes
  <1>6. \/ joiner' = joiner /\ EndOfInstruction(state, context, Returning(-1))
        \/ \E u \in threads[proc] :
              joiner' = joiner /\ EndOfInstruction(state, context, Returning(exitCode[u]))
        \/ \E u \in threads[proc] :
              /\ tid[u] = i.arg /\ i.arg # tid[current]
              /\ ~hasBeenJoined[u] /\ state[u] # "TERMINATED"
              /\ joiner' = [joiner EXCEPT ![u] = current]
              /\ EndOfInstruction([state EXCEPT ![current] = "BLOCKED"], context, Suspended(i))
    BY Zenon DEF ThreadJoin
  <1>7. CASE joiner' = joiner /\ EndOfInstruction(state, context, Returning(-1))
    BY <1>4, <1>7
  <1>8. CASE \E u \in threads[proc] :
               joiner' = joiner /\ EndOfInstruction(state, context, Returning(exitCode[u]))
    BY <1>3, <1>4, <1>8
  <1> QED BY <1>5, <1>6, <1>7, <1>8

LEMMA ThreadCreateWakes ==
    ASSUME Solo, WakerInv, Inv', NEW i \in Executable, ThreadCreate(i)
    PROVE  BlockedWakes'
  <1>1. /\ Executing
        /\ UNCHANGED <<active, joiner, mutexList, processWaiters>>
    BY DEF ThreadCreate, Ecall, joinVars, waitVars
  <1>2. /\ state[current] = "RUNNING" /\ Inv /\ cpu.pc \in Known
        /\ state \in [Thread -> ThreadState] /\ context \in [Thread -> Context] /\ proc \in Pid
        /\ count \in Nat /\ WaitInv
    BY <1>1, RunningNotBlocked DEF WakerInv
  <1>3. CASE UNCHANGED <<newVars, threads>> /\ EndOfInstruction(state, context, Returning(-1))
    <2>1. UNCHANGED WaitTables /\ count' = count
      BY <1>1, <1>3 DEF WaitTables, newVars
    <2>2. Returning(-1) \in Context
      BY RegistersType
    <2> QED BY <1>1, <1>3, <2>1, <2>2, CalmWakes
  <1>4. ASSUME NEW v \in Int, CreateThread(count + 1, proc, threads[proc]), count < MaxActive,
               EndOfInstruction([state EXCEPT ![count + 1] = "READY"], context, Returning(v))
        PROVE  BlockedWakes'
    <2>1. PICK st : st = [state EXCEPT ![count + 1] = "READY"]
      OBVIOUS
    <2>2. count + 1 \in Thread /\ st \in [Thread -> ThreadState] /\ Returning(v) \in Context
      BY <1>2, <1>4, <2>1, RegistersType, ConstantsOK DEF Thread, ThreadState
    <2>3. ASSUME NEW t \in Thread, st[t] = "BLOCKED"
          PROVE  t # current /\ state[t] = "BLOCKED" /\ Keeps(st, t)
      <3>1. state[t] = "BLOCKED" /\ t # count + 1 /\ t # current
        BY <1>2, <2>1, <2>2, <2>3
      <3>2. parent[t] \in Pid /\ threads[parent[t]] \subseteq 1 .. count
        BY <1>2 DEF WaitInv, Listed, Inv, NewOK
      <3>3. /\ parent'[t] = parent[t]
            /\ \A u \in threads[parent[t]] : u # count + 1 /\ tid'[u] = tid[u]
            /\ threads[parent[t]] \subseteq threads'[parent[t]]
        <4>1. /\ parent \in [Thread -> Pid] /\ tid \in [Thread -> 0 .. MAX_THREADS - 1]
              /\ threads \in [Pid -> SUBSET Thread]
          BY <1>2 DEF Inv, NewOK, PcbOK
        <4>2. \A u \in 1 .. count : u # count + 1
          BY <1>2
        <4>3. /\ parent' = [parent EXCEPT ![count + 1] = proc]
              /\ tid' = [tid EXCEPT ![count + 1] = Cardinality(threads[proc])]
              /\ threads' = [threads EXCEPT ![proc] = threads[proc] \cup {count + 1}]
          BY <1>4 DEF CreateThread
        <4> QED BY <1>2, <3>1, <3>2, <4>1, <4>2, <4>3
      <3>4. \A u \in threads[parent[t]] : st[u] = state[u]
        BY <1>2, <2>1, <3>2, <3>3
      <3> QED BY <1>1, <3>1, <3>3, <3>4 DEF Keeps
    <2>4. count <= count' /\ EndOfInstruction(st, context, Returning(v))
      BY <1>2, <1>4, <2>1 DEF CreateThread
    <2> QED BY <1>1, <1>2, <2>2, <2>3, <2>4, InstructionWakes DEF WakerInv
  <1>5. Cardinality(threads[proc]) \in Int
    BY <1>2, ThreadSetCardinality DEF Inv, PcbOK
  <1>6. \/ UNCHANGED <<newVars, threads>> /\ EndOfInstruction(state, context, Returning(-1))
        \/ /\ CreateThread(count + 1, proc, threads[proc]) /\ count < MaxActive
           /\ EndOfInstruction([state EXCEPT ![count + 1] = "READY"], context,
                               Returning(Cardinality(threads[proc])))
    BY Zenon DEF ThreadCreate
  <1> QED BY <1>3, <1>4, <1>5, <1>6

\* The mutex calls: a mutex of the running process becomes m.
LEMMA MutexKeeps ==
    ASSUME WakerInv, Executing, NEW k \in 1 .. Len(mutexList[proc]), NEW m \in MutexRecord,
           mutexList' = [mutexList EXCEPT ![proc][k] = m],
           UNCHANGED <<parent, tid, threads, active, joiner, processWaiters>>,
           NEW st, NEW t \in Thread,
           \A u \in Thread : state[u] # "TERMINATED" => st[u] # "TERMINATED",
           \/ /\ mutexList[proc][k].locked => m.locked
              /\ mutexList[proc][k].waitQueue \subseteq m.waitQueue
           \/ t \notin mutexList[proc][k].waitQueue
    PROVE  Keeps(st, t)
  <1>1. /\ Inv /\ proc \in Pid /\ parent[t] \in Pid /\ threads[parent[t]] \subseteq Thread
        /\ mutexList \in [Pid -> Seq(MutexRecord)] /\ mutexList[proc] \in Seq(MutexRecord)
        /\ mutexList[parent[t]] \in Seq(MutexRecord)
    BY RunningNotBlocked DEF WakerInv, Inv, NewOK, PcbOK
  <1>2. ASSUME NEW l \in DOMAIN mutexList[parent[t]],
               mutexList[parent[t]][l].locked, t \in mutexList[parent[t]][l].waitQueue
        PROVE  /\ l \in DOMAIN mutexList'[parent[t]]
               /\ mutexList'[parent[t]][l].locked
               /\ t \in mutexList'[parent[t]][l].waitQueue
    <2>1. CASE parent[t] = proc /\ l = k
      BY <1>1, <1>2, <2>1
    <2>2. CASE ~(parent[t] = proc /\ l = k)
      BY <1>1, <1>2, <2>2
    <2> QED BY <2>1, <2>2
  <1> QED BY <1>1, <1>2 DEF Keeps

LEMMA MutexCreateWakes ==
    ASSUME WakerInv, Inv', NEW i \in Executable, MutexCreate(i)
    PROVE  BlockedWakes'
  <1>1. /\ Executing /\ count' = count
        /\ UNCHANGED <<parent, tid, threads, active, joiner, processWaiters>>
        /\ mutexList' = [mutexList EXCEPT ![proc] = Append(@, FreeMutex)]
        /\ EndOfInstruction(state, context, Returning(Len(mutexList[proc])))
    BY DEF MutexCreate, Ecall, newVars, joinVars, waitVars
  <1>2. /\ state[current] = "RUNNING" /\ Inv /\ proc \in Pid /\ WaitInv
        /\ state \in [Thread -> ThreadState] /\ context \in [Thread -> Context]
        /\ count \in Nat
    BY <1>1, RunningNotBlocked DEF WakerInv
  <1>3. /\ mutexList \in [Pid -> Seq(MutexRecord)] /\ parent \in [Thread -> Pid]
        /\ mutexList[proc] \in Seq(MutexRecord) /\ Len(mutexList[proc]) \in Int
    BY <1>2 DEF Inv, PcbOK, NewOK
  <1>4. ASSUME NEW p \in Pid, NEW k \in DOMAIN mutexList[p]
        PROVE  k \in DOMAIN mutexList'[p] /\ mutexList'[p][k] = mutexList[p][k]
    <2>1. CASE p = proc
      <3>1. mutexList'[p] = Append(mutexList[p], FreeMutex) /\ mutexList[p] \in Seq(MutexRecord)
        BY <1>1, <1>2, <1>3, <2>1
      <3>2. PICK q \in Seq(MutexRecord) : q = mutexList[p]
        BY <3>1
      <3>3. k \in DOMAIN Append(q, FreeMutex) /\ Append(q, FreeMutex)[k] = q[k]
        BY <1>4, <3>2, FreeMutexType
      <3> QED BY <3>1, <3>2, <3>3
    <2>2. CASE p # proc
      BY <1>1, <1>3, <2>2
    <2> QED BY <2>1, <2>2
  <1>5. ASSUME NEW t \in Thread, state[t] = "BLOCKED"
        PROVE  t # current /\ Keeps(state, t)
    <2>1. parent[t] \in Pid
      BY <1>3
    <2>2. Keeps(state, t)
      BY <1>1, <1>4, <2>1 DEF Keeps
    <2> QED BY <1>2, <1>5, <2>2
  <1>6. Returning(Len(mutexList[proc])) \in Context /\ count <= count'
    BY <1>1, <1>2, <1>3, RegistersType
  <1> QED BY <1>1, <1>2, <1>5, <1>6, InstructionWakes DEF WakerInv

LEMMA MutexLockWakes ==
    ASSUME WakerInv, Inv', NEW i \in Executable, MutexLock(i)
    PROVE  BlockedWakes'
  <1>1. /\ Executing /\ count' = count
        /\ UNCHANGED <<parent, tid, threads, active, joiner, processWaiters>>
    BY DEF MutexLock, Ecall, newVars, joinVars, waitVars
  <1>2. /\ state[current] = "RUNNING" /\ Inv /\ proc \in Pid /\ WaitInv
        /\ state \in [Thread -> ThreadState] /\ context \in [Thread -> Context]
        /\ count \in Nat /\ current \in Thread /\ cpu.pc \in Known
    BY <1>1, RunningNotBlocked DEF WakerInv
  <1>3. i \in ProgramCounter /\ i.arg \in Nat
    BY <1>2, RegistersKnown DEF ProgramCounter
  <1>4. PICK k, m, a : /\ k = i.arg + 1 /\ m = mutexList[proc][k] /\ a = Acquire(m, current)
    OBVIOUS
  <1>5. k \in 1 .. Len(mutexList[proc]) /\ m \in MutexRecord
    BY <1>1, <1>2, <1>3, <1>4, UsableMutexType DEF MutexLock
  <1>6. /\ a \in MutexRecord /\ m.waitQueue \subseteq a.waitQueue /\ a.locked
        /\ m.locked => current \in a.waitQueue
    BY <1>2, <1>4, <1>5 DEF Acquire, MutexRecord
  <1>7. mutexList' = [mutexList EXCEPT ![proc][k] = a]
    BY <1>4 DEF MutexLock
  <1>8. CASE m.locked
    <2>1. EndOfInstruction([state EXCEPT ![current] = "BLOCKED"], context, Suspended(i))
      BY <1>4, <1>8 DEF MutexLock
    <2>2. PICK st : st = [state EXCEPT ![current] = "BLOCKED"]
      OBVIOUS
    <2>3. \A u \in Thread : state[u] # "TERMINATED" => st[u] # "TERMINATED"
      BY <1>2, <2>2
    <2>4. \A t \in Thread : Keeps(st, t)
      BY <1>1, <1>4, <1>5, <1>6, <1>7, <2>3, MutexKeeps
    <2>5. PICK t : t = current
      OBVIOUS
    <2>6. Wakes(st, t, i)'
      <3>1. /\ k \in DOMAIN mutexList[proc] /\ mutexList \in [Pid -> Seq(MutexRecord)]
            /\ mutexList[proc] \in Seq(MutexRecord)
        BY <1>2, <1>5 DEF Inv, PcbOK
      <3>2. /\ parent'[t] = proc /\ k \in DOMAIN mutexList'[proc]
            /\ mutexList'[proc][k].locked /\ t \in mutexList'[proc][k].waitQueue
        BY <1>1, <1>2, <1>6, <1>7, <1>8, <2>5, <3>1 DEF proc
      <3>3. i.call = "mutex_lock"
        BY DEF MutexLock, Ecall
      <3> QED BY <1>3, <1>4, <3>2, <3>3 DEF Wakes
    <2> QED BY <1>1, <2>1, <2>2, <2>4, <2>5, <2>6, BlockingWakes
  <1>9. CASE ~m.locked
    <2>1. EndOfInstruction(state, context, Returning(0)) /\ Returning(0) \in Context
      BY <1>4, <1>9, RegistersType DEF MutexLock
    <2>2. \A t \in Thread : Keeps(state, t)
      BY <1>1, <1>4, <1>5, <1>6, <1>7, MutexKeeps
    <2>3. count <= count' /\ \A t \in Thread : state[t] = "BLOCKED" => t # current
      BY <1>1, <1>2
    <2> QED BY <1>1, <1>2, <2>1, <2>2, <2>3, InstructionWakes DEF WakerInv
  <1> QED BY <1>8, <1>9

LEMMA MutexUnlockWakes ==
    ASSUME WakerInv, Inv', NEW i \in Executable, MutexUnlock(i)
    PROVE  BlockedWakes'
  <1>1. /\ Executing /\ count' = count
        /\ UNCHANGED <<parent, tid, threads, active, joiner, processWaiters>>
    BY DEF MutexUnlock, Ecall, newVars, joinVars, waitVars
  <1>2. /\ state[current] = "RUNNING" /\ Inv /\ proc \in Pid /\ WaitInv
        /\ state \in [Thread -> ThreadState] /\ context \in [Thread -> Context]
        /\ count \in Nat /\ current \in Thread /\ cpu.pc \in Known
    BY <1>1, RunningNotBlocked DEF WakerInv
  <1>3. PICK k, m : k = i.arg + 1 /\ m = mutexList[proc][k]
    OBVIOUS
  <1>4. PICK st : st = [t \in Thread |-> IF t \in m.waitQueue THEN "READY" ELSE state[t]]
    OBVIOUS
  <1>5. /\ mutexList' = [mutexList EXCEPT ![proc][k] = FreeMutex]
        /\ EndOfInstruction(st, context, Returning(0))
    BY <1>3, <1>4 DEF MutexUnlock, Release, Woken
  <1>6. k \in 1 .. Len(mutexList[proc])
    BY <1>1, <1>2, <1>3, RegistersKnown, UsableMutexType DEF MutexUnlock
  <1>7. /\ st \in [Thread -> ThreadState] /\ Returning(0) \in Context
        /\ \A u \in Thread : state[u] # "TERMINATED" => st[u] # "TERMINATED"
    BY <1>2, <1>4, RegistersType DEF ThreadState
  <1>8. ASSUME NEW t \in Thread, st[t] = "BLOCKED"
        PROVE  t # current /\ state[t] = "BLOCKED" /\ Keeps(st, t)
    <2>1. t # current /\ state[t] = "BLOCKED" /\ t \notin m.waitQueue
      BY <1>2, <1>4, <1>8
    <2>2. Keeps(st, t)
      BY <1>1, <1>3, <1>5, <1>6, <1>7, <2>1, FreeMutexType, MutexKeeps
    <2> QED BY <2>1, <2>2
  <1>9. count <= count'
    BY <1>1, <1>2
  <1> QED BY <1>1, <1>2, <1>5, <1>7, <1>8, <1>9, InstructionWakes DEF WakerInv

\* The slot taken for a new process is nobody's.
LEMMA LoadKeeps ==
    ASSUME Solo, WaitInv, NEW file, NEW p \in Pid, LoadELF(file, p),
           UNCHANGED <<joiner, processWaiters>>, NEW t \in Thread, state[t] = "BLOCKED",
           NEW st, \A u \in 1 .. count : st[u] = state[u]
    PROVE  Keeps(st, t)
  <1>1. /\ ~active[p] /\ mutexList' = [mutexList EXCEPT ![p] = <<>>]
        /\ \/ CreateThread(count + 1, p, {}) /\ active' = [active EXCEPT ![p] = TRUE]
           \/ threads' = [threads EXCEPT ![p] = {}] /\ UNCHANGED <<newVars, active>>
    BY DEF LoadELF, FreeSlot, Inactive
  <1>2. /\ parent \in [Thread -> Pid] /\ tid \in [Thread -> 0 .. MAX_THREADS - 1]
        /\ threads \in [Pid -> SUBSET Thread] /\ active \in [Pid -> BOOLEAN]
        /\ mutexList \in [Pid -> Seq(MutexRecord)] /\ count \in Nat
    BY DEF WaitInv, Inv, NewOK, PcbOK
  <1>3. /\ t \in 1 .. count /\ parent[t] \in Pid /\ parent[t] # p
        /\ \A u \in threads[parent[t]] : u \in 1 .. count /\ u \in Thread
    BY <1>1, BlockedAlive
  <1>4. \A u \in 1 .. count : u # count + 1
    BY <1>2
  <1>5. /\ parent'[t] = parent[t] /\ threads'[parent[t]] = threads[parent[t]]
        /\ \A u \in threads[parent[t]] : tid'[u] = tid[u]
        /\ \A q \in Pid : active[q] => active'[q]
    <2>1. CASE CreateThread(count + 1, p, {}) /\ active' = [active EXCEPT ![p] = TRUE]
      <3>1. /\ parent' = [parent EXCEPT ![count + 1] = p]
            /\ \E v : tid' = [tid EXCEPT ![count + 1] = v]
            /\ \E S : threads' = [threads EXCEPT ![p] = S]
        BY <2>1 DEF CreateThread
      <3> QED BY <1>2, <1>3, <1>4, <2>1, <3>1
    <2>2. CASE threads' = [threads EXCEPT ![p] = {}] /\ UNCHANGED <<newVars, active>>
      BY <1>2, <1>3, <2>2 DEF newVars
    <2> QED BY <1>1, <2>1, <2>2
  <1>6. mutexList'[parent[t]] = mutexList[parent[t]]
    BY <1>1, <1>2, <1>3
  <1> QED BY <1>3, <1>5, <1>6 DEF Keeps

LEMMA CreateProcessWakes ==
    ASSUME Solo, WakerInv, Inv', NEW i \in Executable, CreateProcess(i)
    PROVE  BlockedWakes'
  <1>1. /\ Executing /\ UNCHANGED <<joiner, processWaiters>>
    BY DEF CreateProcess, Ecall, joinVars, waitVars
  <1>2. /\ state[current] = "RUNNING" /\ Inv /\ WaitInv
        /\ state \in [Thread -> ThreadState] /\ context \in [Thread -> Context]
        /\ count \in Nat
    BY <1>1, RunningNotBlocked DEF WakerInv
  <1>3. Returning(-1) \in Context /\ \A p \in Pid : Returning(p) \in Context
    BY RegistersType DEF Pid
  <1>4. CASE UNCHANGED <<newVars, pcbVars>> /\ EndOfInstruction(state, context, Returning(-1))
    <2>1. UNCHANGED WaitTables /\ count' = count
      BY <1>1, <1>4 DEF WaitTables, newVars, pcbVars
    <2> QED BY <1>1, <1>3, <1>4, <2>1, CalmWakes
  <1>5. ASSUME NEW p \in Pid, LoadELF(i.arg, p), NEW st \in [Thread -> ThreadState],
               NEW c \in Context, EndOfInstruction(st, context, c),
               st = state \/ (count + 1 \in Thread /\ st = [state EXCEPT ![count + 1] = "READY"])
        PROVE  BlockedWakes'
    <2>1. 1 .. count \subseteq Thread /\ count + 1 \notin 1 .. count /\ count <= count'
      BY <1>2, <1>5, ConstantsOK DEF Inv, NewOK, Thread, LoadELF, CreateThread, newVars
    <2>2. /\ \A u \in 1 .. count : st[u] = state[u]
          /\ \A t \in Thread : st[t] = "BLOCKED" => state[t] = "BLOCKED"
      BY <1>2, <1>5, <2>1
    <2>3. \A t \in Thread : st[t] = "BLOCKED" =>
              t # current /\ state[t] = "BLOCKED" /\ Keeps(st, t)
      BY <1>1, <1>2, <1>5, <2>2, LoadKeeps
    <2> QED BY <1>1, <1>2, <1>5, <2>1, <2>3, InstructionWakes DEF WakerInv
  <1>6. \/ UNCHANGED <<newVars, pcbVars>> /\ EndOfInstruction(state, context, Returning(-1))
        \/ \E p \in Pid :
              /\ LoadELF(i.arg, p)
              /\ \/ /\ i.arg = GoodFile
                    /\ EndOfInstruction([state EXCEPT ![count + 1] = "READY"],
                                        context, Returning(p))
                 \/ EndOfInstruction(state, context, Returning(-1))
    BY Zenon DEF CreateProcess
  <1>7. ASSUME NEW p \in Pid, LoadELF(i.arg, p), i.arg = GoodFile,
               EndOfInstruction([state EXCEPT ![count + 1] = "READY"], context, Returning(p))
        PROVE  BlockedWakes'
    <2>1. PICK st : st = [state EXCEPT ![count + 1] = "READY"]
      OBVIOUS
    <2>2. count + 1 \in Thread /\ st \in [Thread -> ThreadState]
      BY <1>2, <1>7, <2>1, ConstantsOK DEF LoadELF, Thread, ThreadState
    <2> QED BY <1>3, <1>5, <1>7, <2>1, <2>2
  <1>8. ASSUME NEW p \in Pid, LoadELF(i.arg, p),
               EndOfInstruction(state, context, Returning(-1))
        PROVE  BlockedWakes'
    <2>1. PICK st \in [Thread -> ThreadState], c \in Context : st = state /\ c = Returning(-1)
      BY <1>2, <1>3
    <2>2. EndOfInstruction(st, context, c)
      BY <1>8, <2>1
    <2> QED BY <1>5, <1>8, <2>1, <2>2
  <1> QED BY <1>4, <1>6, <1>7, <1>8

LEMMA JoinProcessWakes ==
    ASSUME WakerInv, Inv', NEW i \in Executable, JoinProcess(i)
    PROVE  BlockedWakes'
  <1>1. /\ Executing /\ count' = count
        /\ UNCHANGED <<parent, tid, threads, active, joiner, mutexList>>
    BY DEF JoinProcess, Ecall, newVars, joinVars, pcbVars
  <1>2. /\ state[current] = "RUNNING" /\ Inv /\ WaitInv /\ cpu.pc \in Known
        /\ state \in [Thread -> ThreadState] /\ current \in Thread
    BY <1>1, RunningNotBlocked DEF WakerInv
  <1>3. ASSUME UNCHANGED processWaiters, NEW v \in Int,
               EndOfInstruction(state, context, Returning(v))
        PROVE  BlockedWakes'
    <2>1. UNCHANGED WaitTables
      BY <1>1, <1>3 DEF WaitTables
    <2> QED BY <1>1, <1>3, <2>1, CalmWakes, RegistersType
  <1>4. CASE /\ i.arg \in Pid /\ active[i.arg]
             /\ processWaiters' = [processWaiters EXCEPT ![i.arg] = @ \cup {current}]
             /\ EndOfInstruction([state EXCEPT ![current] = "BLOCKED"], context, Suspended(i))
    <2>1. PICK st : st = [state EXCEPT ![current] = "BLOCKED"]
      OBVIOUS
    <2>2. /\ processWaiters \in [Pid -> SUBSET Thread]
          /\ \A u \in Thread : state[u] # "TERMINATED" => st[u] # "TERMINATED"
          /\ \A t \in Thread : parent[t] \in Pid /\ threads[parent[t]] \subseteq Thread
      BY <1>2, <2>1 DEF Inv, WaitOK, NewOK, PcbOK
    <2>3. \A t \in Thread : Keeps(st, t)
      BY <1>1, <1>4, <2>2 DEF Keeps
    <2>4. PICK t : t = current
      OBVIOUS
    <2>5. Wakes(st, t, i)'
      <3>1. i.arg \in Nat /\ i.call = "join_process"
        BY <1>2, RegistersKnown DEF JoinProcess, Ecall, ProgramCounter
      <3>2. active'[i.arg] /\ t \in processWaiters'[i.arg]
        BY <1>1, <1>4, <2>2, <2>4
      <3> QED BY <1>4, <3>1, <3>2 DEF Wakes
    <2> QED BY <1>1, <1>4, <2>1, <2>3, <2>4, <2>5, BlockingWakes
  <1>5. \/ UNCHANGED processWaiters /\ EndOfInstruction(state, context, Returning(1))
        \/ UNCHANGED processWaiters /\ EndOfInstruction(state, context, Returning(-1))
        \/ /\ i.arg \in Pid /\ active[i.arg]
           /\ processWaiters' = [processWaiters EXCEPT ![i.arg] = @ \cup {current}]
           /\ EndOfInstruction([state EXCEPT ![current] = "BLOCKED"], context, Suspended(i))
    BY Zenon DEF JoinProcess, waitVars
  <1> QED BY <1>3, <1>4, <1>5

-----------------------------------------------------------------------------
(***************************************************************************)
(* Steps that are no instruction, and all steps together.                  *)
(***************************************************************************)
LEMMA ScheduleWakes ==
    ASSUME WakerInv, Inv', count # 0, Preempt(state, context, cpu),
           UNCHANGED <<newVars, joinVars, pcbVars, waitVars>>
    PROVE  BlockedWakes'
  <1>1. /\ Inv /\ count' = count /\ count \in Nat /\ count <= MaxActive /\ current <= count
        /\ state \in [Thread -> ThreadState] /\ context \in [Thread -> Context] /\ cpu \in Context
    BY SameStates DEF WakerInv, WaitInv, Inv, NewOK, RunInv, RunOK, newVars
  <1>2. /\ \A t \in Thread : \/ state'[t] = state[t]
                             \/ {state[t], state'[t]} \subseteq {"READY", "RUNNING"}
        /\ \/ state' = state /\ current' = current /\ context' = context /\ cpu' = cpu
           \/ /\ state'[current'] = "RUNNING"
              /\ \A t \in Thread :
                    context'[t] = IF t = current /\ state[t] # "TERMINATED" THEN cpu ELSE context[t]
    BY <1>1, Scheduled
  <1> SUFFICES ASSUME NEW t \in Thread, state'[t] = "BLOCKED"
               PROVE  Wakes(state, t, Ctx(t).pc)'
    BY DEF BlockedWakes
  <1>3. PICK i : i = Ctx(t).pc
    OBVIOUS
  <1>4. state[t] = "BLOCKED" /\ Ctx(t)' = Ctx(t)
    BY <1>2 DEF Ctx
  <1>5. Wakes(state, t, i)
    BY <1>3, <1>4 DEF WakerInv, BlockedWakes
  <1>6. PICK st : st = state'
    OBVIOUS
  <1>7. Keeps(st, t)
    <2>1. UNCHANGED WaitTables
      BY DEF WaitTables, newVars, joinVars, pcbVars, waitVars
    <2>2. \A u \in Thread : state[u] # "TERMINATED" => st[u] # "TERMINATED"
      BY <1>2, <1>6
    <2>3. threads[parent[t]] \subseteq Thread
      BY <1>1 DEF Inv, NewOK, PcbOK
    <2> QED BY <2>1, <2>2, <2>3, TablesKeep
  <1>8. Wakes(st, t, i)'
    BY <1>5, <1>7, KeepsWaker
  <1> QED BY <1>3, <1>4, <1>6, <1>8 DEF Wakes

LEMMA StatusWakes ==
    ASSUME BlockedWakes, UNCHANGED <<runVars, newVars, joinVars, pcbVars, waitVars>>
    PROVE  BlockedWakes'
  <1>1. /\ state' = state /\ current' = current /\ cpu' = cpu /\ context' = context
        /\ parent' = parent /\ tid' = tid /\ joiner' = joiner
        /\ threads' = threads /\ active' = active /\ mutexList' = mutexList
        /\ processWaiters' = processWaiters
    BY DEF runVars, newVars, joinVars, pcbVars, waitVars
  <1> SUFFICES ASSUME NEW t \in Thread, state[t] = "BLOCKED"
               PROVE  Wakes(state, t, Ctx(t).pc)'
    BY <1>1 DEF BlockedWakes
  <1>2. PICK st, i : st = state /\ i = Ctx(t).pc
    OBVIOUS
  <1>3. Wakes(st, t, i)
    BY <1>2 DEF BlockedWakes
  <1>4. Ctx(t)' = Ctx(t)
    BY <1>1 DEF Ctx
  <1>5. Wakes(st, t, i)'
    BY <1>1, <1>3, Zenon DEF Wakes
  <1> QED BY <1>1, <1>2, <1>4, <1>5 DEF Wakes

LEMMA LoadApplicationWakes ==
    ASSUME Solo, WakerInv, Inv', NEW file \in File, LoadApplication(file)
    PROVE  BlockedWakes'
  <1>1. /\ Inv /\ WaitInv /\ UNCHANGED <<cpu, current, context, joiner, processWaiters>>
        /\ count \in Nat /\ state \in [Thread -> ThreadState]
    BY SameStates DEF WakerInv, WaitInv, Inv, NewOK, LoadApplication, joinVars, waitVars
  <1> SUFFICES ASSUME NEW t \in Thread, state'[t] = "BLOCKED"
               PROVE  Wakes(state, t, Ctx(t).pc)'
    BY DEF BlockedWakes
  <1>2. PICK i : i = Ctx(t).pc
    OBVIOUS
  <1>3. Ctx(t)' = Ctx(t)
    BY <1>1 DEF Ctx
  <1>4. PICK st : st = state'
    OBVIOUS
  <1>5. state[t] = "BLOCKED" /\ \A u \in 1 .. count : st[u] = state[u]
    <2>1. \A u \in 1 .. count : u # count + 1
      BY <1>1
    <2>2. state' = state \/ state' = [state EXCEPT ![count + 1] = "READY"]
      BY DEF LoadApplication
    <2>3. 1 .. count \subseteq Thread
      BY <1>1, ConstantsOK DEF Inv, NewOK, Thread
    <2> QED BY <1>1, <1>4, <2>1, <2>2, <2>3
  <1>6. Wakes(state, t, i)
    BY <1>2, <1>5 DEF WakerInv, BlockedWakes
  <1>7. Keeps(st, t)
    <2>1. CASE \E p \in Pid : LoadELF(file, p)
      BY <1>1, <1>5, <2>1, LoadKeeps
    <2>2. CASE UNCHANGED <<newVars, pcbVars>>
      <3>1. UNCHANGED WaitTables
        BY <1>1, <2>2 DEF WaitTables, newVars, pcbVars
      <3>2. threads[parent[t]] \subseteq 1 .. count
        BY <1>1 DEF WaitInv, Listed, Inv, NewOK
      <3> QED BY <1>5, <3>1, <3>2, TablesKeep
    <2> QED BY <2>1, <2>2 DEF LoadApplication
  <1>8. Wakes(st, t, i)'
    BY <1>6, <1>7, KeepsWaker
  <1> QED BY <1>2, <1>3, <1>4, <1>8 DEF Wakes

LEMMA SyscallWakes ==
    ASSUME Solo, WakerInv, Inv', NEW i \in Executable, Syscall(i)
    PROVE  BlockedWakes'
  <1>1. Executing /\ WaitInv
    BY DEF WakerInv, Syscall, Exit, ThreadExit, ThreadCreate, ThreadJoin, MutexCreate,
           MutexLock, MutexUnlock, MutexError, CreateProcess, JoinProcess, UnknownCall, Ecall
  <1>2. cpu.pc \in Known /\ Inv
    BY <1>1, RunningNotBlocked
  <1>3. active[proc]
    BY <1>1, RunningRooted DEF WaitInv, Waiting, RootedNow
  <1>4. Suspended(i) \in Context /\ Returning(-1) \in Context
    BY <1>2, RegistersKnown
  <1>5. CASE Exit(i) \/ MutexError(i)
    <2>1. \E c \in Context : \E code : Terminate(proc, code, c)
      BY <1>4, <1>5 DEF Exit, MutexError
    <2> QED BY <1>1, <1>3, <2>1, TerminateWakes
  <1>6. CASE UnknownCall(i)
    BY <1>6, StatusWakes DEF UnknownCall, WakerInv
  <1>7. CASE \/ ThreadExit(i) \/ ThreadCreate(i) \/ ThreadJoin(i)
             \/ MutexCreate(i) \/ MutexLock(i) \/ MutexUnlock(i)
             \/ CreateProcess(i) \/ JoinProcess(i)
    BY <1>7, ThreadExitWakes, ThreadCreateWakes, ThreadJoinWakes, MutexCreateWakes,
       MutexLockWakes, MutexUnlockWakes, CreateProcessWakes, JoinProcessWakes
  <1> QED BY <1>5, <1>6, <1>7 DEF Syscall

LEMMA NextWakes ==
    ASSUME Solo, WakerInv, [Next]_vars
    PROVE  BlockedWakes'
  <1>0. Inv' /\ WaitInv
    BY NextInv DEF WakerInv, WaitInv
  <1>1. CASE UNCHANGED vars \/ Halted
    BY <1>1, StatusWakes DEF vars, Halted, WakerInv
  <1>2. CASE IllegalInstruction \/ LoopEnds
    BY <1>2, StatusWakes DEF IllegalInstruction, LoopEnds, WakerInv
  <1>3. CASE Compute \/ PageFault
    <2>1. PICK c : /\ c \in Context /\ Executing
                   /\ UNCHANGED <<newVars, joinVars, pcbVars, waitVars>>
                   /\ EndOfInstruction(state, context, c)
      BY <1>0, <1>3, SameStates, PastEcallType DEF Compute, PageFault, WaitInv
    <2>2. UNCHANGED WaitTables /\ count' = count
      BY <2>1 DEF WaitTables, newVars, joinVars, pcbVars, waitVars
    <2> QED BY <1>0, <2>1, <2>2, CalmWakes
  <1>4. CASE SegmentationFault
    <2>1. Executing /\ Terminate(proc, Crashed, cpu)
      BY <1>4 DEF SegmentationFault
    <2>2. active[proc]
      BY <1>0, <2>1, RunningRooted DEF WaitInv, Waiting, RootedNow
    <2> QED BY <1>0, <2>1, <2>2, RunningNotBlocked, TerminateWakes
  <1>5. CASE Reschedule
    <2>1. Preempt(state, context, cpu) /\ count # 0
          /\ UNCHANGED <<newVars, joinVars, pcbVars, waitVars>>
      BY <1>5 DEF Reschedule, AllTerminated
    <2> QED BY <1>0, <2>1, ScheduleWakes
  <1>6. CASE Start
    <2>1. CASE count = 0
      BY <1>6, <2>1, StatusWakes DEF Start, WakerInv, runVars
    <2>2. CASE count # 0
      BY <1>0, <1>6, <2>2, ScheduleWakes DEF Start
    <2> QED BY <2>1, <2>2
  <1> QED BY <1>0, <1>1, <1>2, <1>3, <1>4, <1>5, <1>6, SyscallWakes, LoadApplicationWakes
          DEF Next, Loop

LEMMA JoinedOnceInductive == Inv /\ JoinedOnce /\ [Next]_vars => JoinedOnce'
  <1> SUFFICES ASSUME Inv, JoinedOnce, [Next]_vars PROVE JoinedOnce'
    OBVIOUS
  <1>1. CASE \E i \in Executable : ThreadJoin(i)
    <2>1. /\ joiner \in [Thread -> Thread \cup {NoThread}]
          /\ hasBeenJoined \in [Thread -> BOOLEAN]
      BY DEF Inv, JoinOK
    <2>2. \/ UNCHANGED <<joiner, hasBeenJoined>>
          \/ \E t : /\ hasBeenJoined' = [hasBeenJoined EXCEPT ![t] = TRUE]
                    /\ joiner' = joiner \/ joiner' = [joiner EXCEPT ![t] = current]
      BY <1>1, Zenon DEF ThreadJoin
    <2> QED BY <2>1, <2>2 DEF JoinedOnce
  <1>2. CASE \E i \in Executable : Syscall(i) /\ ~ThreadJoin(i)
    <2>1. UNCHANGED <<joiner, hasBeenJoined>>
      BY <1>2 DEF Syscall, Exit, ThreadExit, ThreadCreate, MutexCreate, MutexLock, MutexUnlock,
         MutexError, CreateProcess, JoinProcess, UnknownCall, Terminate, Panic, joinVars
    <2> QED BY <2>1 DEF JoinedOnce
  <1>3. CASE \/ Compute \/ IllegalInstruction \/ PageFault \/ SegmentationFault \/ LoopEnds
             \/ Reschedule \/ Start \/ Halted \/ UNCHANGED vars
             \/ \E file \in File : LoadApplication(file)
    <2>1. UNCHANGED <<joiner, hasBeenJoined>>
      BY <1>3 DEF Compute, IllegalInstruction, PageFault, SegmentationFault, LoopEnds,
         Reschedule, Start, Halted, LoadApplication, Terminate, Panic, joinVars, vars
    <2> QED BY <2>1 DEF JoinedOnce
  <1> QED BY <1>1, <1>2, <1>3 DEF Next, Loop

\* No lost wake-up: who blocks has been registered with the object its ecall
\* names, and that object has yet to end, to be released or to exit.
THEOREM NoLostWakeUp ==
    ASSUME Solo
    PROVE  Spec => []BlockedHasWaker
  <1>1. Init => BlockedWakes /\ JoinedOnce
    BY DEF Init, BlockedWakes, JoinedOnce
  <1>2. WakerInv /\ [Next]_vars => WakerInv'
    <2> SUFFICES ASSUME WakerInv, [Next]_vars PROVE WakerInv'
      OBVIOUS
    <2>1. Inv
      BY DEF WakerInv, WaitInv
    <2> QED BY <2>1, NextWait, NextWakes, JoinedOnceInductive DEF WakerInv
  <1>3. Init => WakerInv
    BY <1>1, InitWait DEF WakerInv
  <1>4. WakerInv => BlockedHasWaker
    <2> SUFFICES ASSUME WakerInv, NEW t \in Thread, state[t] = "BLOCKED",
                        NEW i, i = Ctx(t).pc, NEW p, p = parent[t]
                 PROVE  \/ /\ i.call = "thread_join"
                           /\ \E u \in threads[p] : /\ tid[u] = i.arg
                                                    /\ joiner[u] = t
                                                    /\ state[u] # "TERMINATED"
                        \/ /\ i.call = "mutex_lock"
                           /\ i.arg < Len(mutexList[p])
                           /\ mutexList[p][i.arg + 1].locked
                           /\ t \in mutexList[p][i.arg + 1].waitQueue
                        \/ /\ i.call = "join_process"
                           /\ active[i.arg]
                           /\ t \in processWaiters[i.arg]
      BY DEF BlockedHasWaker
    <2>1. Wakes(state, t, i)
      BY DEF WakerInv, BlockedWakes
    <2>2. mutexList[p] \in Seq(MutexRecord)
      BY DEF WakerInv, WaitInv, Inv, NewOK, PcbOK
    <2>3. i.arg \in Nat /\ i.arg + 1 \in DOMAIN mutexList[p] => i.arg < Len(mutexList[p])
      BY <2>2
    <2> QED BY <2>1, <2>3 DEF Wakes
  <1> QED BY <1>2, <1>3, <1>4, PTL DEF Spec

-----------------------------------------------------------------------------
(***************************************************************************)
(* Thread ids.                                                             *)
(***************************************************************************)
\* The threads of a process are numbered without gaps; none is removed.
Numbered(S, id) ==
    /\ \A t \in S : id[t] < Cardinality(S)
    /\ \A t, u \in S : id[t] = id[u] => t = u

TidInv == \A p \in Pid : Numbered(threads[p], tid)

\* What a step may do to them.
ThreadsChange ==
    \/ UNCHANGED <<threads, tid>>
    \/ /\ UNCHANGED tid
       /\ \E p \in Pid : threads' = [threads EXCEPT ![p] = {}]
    \/ /\ count + 1 \in Thread
       /\ \E p \in Pid, S \in SUBSET Thread :
             S \in {threads[p], {}} /\ CreateThread(count + 1, p, S)

LEMMA LoadChange ==
    ASSUME Inv, NEW file, NEW p \in Pid, LoadELF(file, p)
    PROVE  ThreadsChange
  <1>1. CASE file = GoodFile
    <2>1. count + 1 \in Thread /\ CreateThread(count + 1, p, {})
      BY <1>1, ConstantsOK DEF LoadELF, Inv, NewOK, Thread
    <2> QED BY <2>1 DEF ThreadsChange
  <1>2. CASE file # GoodFile
    <2>1. UNCHANGED tid /\ threads' = [threads EXCEPT ![p] = {}]
      BY <1>2 DEF LoadELF, newVars
    <2> QED BY <2>1 DEF ThreadsChange
  <1> QED BY <1>1, <1>2

LEMMA NextThreadsChange == Inv /\ [Next]_vars => ThreadsChange
  <1> SUFFICES ASSUME Inv, [Next]_vars PROVE ThreadsChange
    OBVIOUS
  <1>1. UNCHANGED <<threads, tid>> => ThreadsChange
    BY DEF ThreadsChange
  <1>2. ASSUME NEW i, ThreadCreate(i) PROVE ThreadsChange
    <2>1. CASE UNCHANGED <<newVars, threads>>
      BY <1>1, <2>1 DEF newVars
    <2>2. CASE count < MaxActive /\ CreateThread(count + 1, proc, threads[proc])
      <3>1. proc \in Pid /\ threads[proc] \in SUBSET Thread
        BY <1>2, ExecutingType DEF ThreadCreate, Ecall, Inv, PcbOK
      <3>2. count + 1 \in Thread
        BY <2>2, ConstantsOK DEF Inv, NewOK, Thread
      <3> QED BY <2>2, <3>1, <3>2 DEF ThreadsChange
    <2> QED BY <1>2, <2>1, <2>2 DEF ThreadCreate
  <1>3. ASSUME NEW i, CreateProcess(i) PROVE ThreadsChange
    <2>1. CASE UNCHANGED <<newVars, pcbVars>>
      BY <1>1, <2>1 DEF newVars, pcbVars
    <2>2. CASE \E p \in Pid : LoadELF(i.arg, p)
      BY <2>2, LoadChange
    <2> QED BY <1>3, <2>1, <2>2 DEF CreateProcess
  <1>4. ASSUME NEW i, Exit(i) \/ ThreadExit(i) \/ ThreadJoin(i) \/ MutexError(i)
                      \/ JoinProcess(i) \/ UnknownCall(i)
        PROVE  ThreadsChange
    <2>1. UNCHANGED <<threads, tid>>
      BY <1>4 DEF Exit, ThreadExit, ThreadJoin, MutexError, JoinProcess, UnknownCall,
         Terminate, Panic, newVars, pcbVars
    <2> QED BY <1>1, <2>1
  <1>5. ASSUME NEW i, MutexCreate(i) \/ MutexLock(i) \/ MutexUnlock(i)
        PROVE  ThreadsChange
    <2>1. UNCHANGED <<threads, tid>>
      BY <1>5 DEF MutexCreate, MutexLock, MutexUnlock, newVars
    <2> QED BY <1>1, <2>1
  <1>6. ASSUME NEW file \in File, LoadApplication(file) PROVE ThreadsChange
    <2>1. CASE UNCHANGED <<newVars, pcbVars>>
      BY <1>1, <2>1 DEF newVars, pcbVars
    <2>2. CASE \E p \in Pid : LoadELF(file, p)
      BY <2>2, LoadChange
    <2> QED BY <1>6, <2>1, <2>2 DEF LoadApplication
  <1>7. CASE \/ Compute \/ IllegalInstruction \/ PageFault \/ SegmentationFault
             \/ LoopEnds \/ Reschedule \/ Start \/ Halted \/ UNCHANGED vars
    <2>1. UNCHANGED <<threads, tid>>
      BY <1>7 DEF Compute, IllegalInstruction, PageFault, SegmentationFault, LoopEnds,
         Reschedule, Start, Halted, Terminate, Panic, newVars, pcbVars, vars
    <2> QED BY <1>1, <2>1
  <1>8. ASSUME NEW i, Syscall(i) PROVE ThreadsChange
    BY <1>2, <1>3, <1>4, <1>5, <1>8, Zenon DEF Syscall
  <1> QED BY <1>6, <1>7, <1>8, Zenon DEF Next, Loop

LEMMA TidStep ==
    ASSUME Inv, Listed(count, threads), TidInv, ThreadsChange
    PROVE  TidInv'
  <1> SUFFICES ASSUME NEW q \in Pid PROVE Numbered(threads'[q], tid')
    BY DEF TidInv, Numbered
  <1>1. /\ threads \in [Pid -> SUBSET Thread] /\ threads[q] \subseteq 1 .. count
        /\ tid \in [Thread -> Int] /\ count \in Nat /\ Numbered(threads[q], tid)
    BY ConstantsOK DEF Inv, PcbOK, NewOK, Listed, TidInv
  <1>2. Numbered({}, tid)
    BY DEF Numbered
  <1>3. CASE UNCHANGED <<threads, tid>>
    BY <1>1, <1>3
  <1>4. ASSUME UNCHANGED tid, NEW p \in Pid, threads' = [threads EXCEPT ![p] = {}]
        PROVE  Numbered(threads'[q], tid')
    <2>1. threads'[q] = threads[q] \/ threads'[q] = {}
      BY <1>1, <1>4
    <2> QED BY <1>1, <1>2, <1>4, <2>1
  <1>5. ASSUME count + 1 \in Thread, NEW p \in Pid, NEW S \in SUBSET Thread,
               S \in {threads[p], {}}, CreateThread(count + 1, p, S)
        PROVE  Numbered(threads'[q], tid')
    <2> DEFINE n == count + 1
    <2>1. /\ threads' = [threads EXCEPT ![p] = S \cup {n}]
          /\ tid' = [tid EXCEPT ![n] = Cardinality(S)]
      BY <1>5 DEF CreateThread
    <2>2. n \in Thread /\ n \notin threads[q]
      BY <1>1, <1>5
    <2>3. tid'[n] = Cardinality(S) /\ \A t \in Thread : t # n => tid'[t] = tid[t]
      BY <1>1, <2>1, <2>2
    <2>4. CASE q # p
      <3>1. threads'[q] = threads[q]
        BY <1>1, <2>1, <2>4
      <3>2. \A t \in threads[q] : tid'[t] = tid[t]
        BY <1>1, <2>2, <2>3
      <3> QED BY <1>1, <3>1, <3>2 DEF Numbered
    <2>5. CASE q = p
      <3>1. Numbered(S, tid) /\ n \notin S
        BY <1>1, <1>2, <1>5, <2>2, <2>5
      <3>2. threads'[q] = S \cup {n}
        BY <1>1, <2>1, <2>5
      <3>3. Cardinality(S \cup {n}) = Cardinality(S) + 1 /\ Cardinality(S) \in Nat
        <4>1. IsFiniteSet(Thread)
          BY FS_Interval, ConstantsOK DEF Thread
        <4>2. IsFiniteSet(S)
          BY <4>1, FS_Subset
        <4> QED BY <3>1, <4>2, FS_AddElement, FS_CardinalityType
      <3>4. \A t \in S : t \in Thread /\ tid'[t] = tid[t] /\ tid[t] \in Int
        BY <1>1, <2>3, <3>1
      <3> HIDE DEF n
      <3>5. \A t \in S \cup {n} : tid'[t] < Cardinality(S \cup {n})
        BY <2>3, <3>1, <3>3, <3>4 DEF Numbered
      <3>6. ASSUME NEW t \in S \cup {n}, NEW u \in S \cup {n}, tid'[t] = tid'[u]
            PROVE  t = u
        BY <2>3, <3>1, <3>3, <3>4, <3>6 DEF Numbered
      <3> QED BY <3>2, <3>5, <3>6 DEF Numbered
    <2> QED BY <2>4, <2>5
  <1> QED BY <1>3, <1>4, <1>5 DEF ThreadsChange

\* A tid means one thread of its process, for every workload: what thread_join
\* finds first is all there is.
THEOREM OneThreadPerTid == Spec => []TidsUnique
  <1>1. Init => TidInv
    BY DEF Init, TidInv, Numbered
  <1>2. WaitInv /\ TidInv /\ [Next]_vars => TidInv'
    BY NextThreadsChange, TidStep DEF WaitInv
  <1>3. TidInv => TidsUnique
    BY DEF TidInv, Numbered, TidsUnique
  <1> QED BY <1>1, <1>2, <1>3, WaitInvariant, PTL DEF Spec

=============================================================================
