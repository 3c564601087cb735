---------------------------- MODULE AddressSpaces ----------------------------
(***************************************************************************)
(* What the memory subsystem promises to user programs: every process has  *)
(* a memory of its own that only its own stores change.  Frames, swap and  *)
(* page faults are invisible.                                              *)
(***************************************************************************)
CONSTANTS
    Proc,       \* process slots
    Page,       \* pages of an address space
    Writable,   \* pages a program may store to
    Written,    \* contents programs store
    Initial     \* Initial[v]: content of page v in a new process

VARIABLES
    alive,      \* processes that run
    mem         \* mem[p][v]: content of page v of process p

vars == <<alive, mem>>

NewMemory == [v \in Page |-> Initial[v]]

Init ==
    /\ alive = {}
    /\ mem = [p \in Proc |-> NewMemory]

Start(p) ==
    /\ p \notin alive
    /\ alive' = alive \cup {p}
    /\ UNCHANGED mem

Store(p, v, x) ==
    /\ p \in alive
    /\ v \in Writable
    /\ mem' = [mem EXCEPT ![p][v] = x]
    /\ UNCHANGED alive

\* A process ends, by its own will or not, and its memory with it.
End(p) ==
    /\ p \in alive
    /\ alive' = alive \ {p}
    /\ mem' = [mem EXCEPT ![p] = NewMemory]

Next ==
    \E p \in Proc :
        \/ Start(p)
        \/ End(p)
        \/ \E v \in Page, x \in Written : Store(p, v, x)

Spec == Init /\ [][Next]_vars
=============================================================================
