--------------------------- MODULE MCVirtualMemory ---------------------------
(* Instances of VirtualMemory for TLC: a program with one page of code (0), *)
(* one of data (1), a heap (2, and 3 when HEAP_MAX is 4) and one page of    *)
(* stack (4).                                                               *)
EXTENDS VirtualMemory

\* Two programs that share nothing but the frames; programs that access all.
MCMixed == [p \in Pid |-> IF p = 0 THEN {1, 2} ELSE {1, 4}]
MCAll == [p \in Pid |-> Vpn]

MCImage == [v \in CodePages \cup DataPages |-> 10 + v]
=============================================================================
