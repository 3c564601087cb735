------------------------------ MODULE FileStore ------------------------------
(***************************************************************************)
(* What the file system promises to user programs: a file is a fixed       *)
(* number of bytes, zero at first; a descriptor is a position in a file;   *)
(* read and write work on the bytes from this position on.  Blocks, and    *)
(* where they are on the disk, are invisible.                              *)
(***************************************************************************)
EXTENDS Integers, Sequences

CONSTANTS
    Proc,       \* process slots
    Fd,         \* file descriptors
    Console,    \* descriptors that start as, and recycle leaves, consoles
    Name,       \* file names
    Size,       \* sizes programs ask for
    Data        \* byte sequences programs write

VARIABLES
    files,      \* files[n]: the bytes of file n, for every file there is
    handles,    \* handles[p][fd]: what the descriptor stands for
    result      \* what the last call returned, and the bytes it delivered

vars == <<files, handles, result>>

Closed == [kind |-> "none"]
AtConsole(k) == [kind |-> "console", host |-> k]
At(n, c) == [kind |-> "file", name |-> n, cursor |-> c]
Returns(v) == [value |-> v, data |-> <<>>]
Lesser(a, b) == IF a < b THEN a ELSE b

Init ==
    /\ files = [n \in {} |-> <<>>]
    /\ handles = [p \in Proc |->
                    [f \in Fd |-> IF f \in Console THEN AtConsole(f) ELSE Closed]]
    /\ result = Returns(0)

Create(n, size) ==
    /\ n \notin DOMAIN files
    /\ files' = [m \in DOMAIN files \cup {n} |->
                   IF m = n THEN [i \in 1 .. size |-> 0] ELSE files[m]]
    /\ result' = Returns(0)
    /\ UNCHANGED handles

Open(p, f, n) ==
    /\ n \in DOMAIN files
    /\ handles[p][f] = Closed
    /\ handles' = [handles EXCEPT ![p][f] = At(n, 0)]
    /\ result' = Returns(f)
    /\ UNCHANGED files

Close(p, f) ==
    /\ handles[p][f] # Closed
    /\ handles' = [handles EXCEPT ![p][f] = Closed]
    /\ result' = Returns(0)
    /\ UNCHANGED files

Read(p, f, count) ==
    LET h == handles[p][f]
        n == Lesser(count, Len(files[h.name]) - h.cursor)
    IN  /\ h.kind = "file"
        /\ result' = [value |-> n,
                      data |-> SubSeq(files[h.name], h.cursor + 1, h.cursor + n)]
        /\ handles' = [handles EXCEPT ![p][f] = At(h.name, h.cursor + n)]
        /\ UNCHANGED files

Write(p, f, data) ==
    LET h == handles[p][f]
        n == Lesser(Len(data), Len(files[h.name]) - h.cursor)
    IN  /\ h.kind = "file"
        /\ result' = Returns(n)
        /\ files' = [files EXCEPT ![h.name] =
                       [i \in DOMAIN @ |-> IF i \in h.cursor + 1 .. h.cursor + n
                                             THEN data[i - h.cursor] ELSE @[i]]]
        /\ handles' = [handles EXCEPT ![p][f] = At(h.name, h.cursor + n)]

\* A call that is refused, or a call on a console.
Other(v) ==
    /\ result' = Returns(v)
    /\ UNCHANGED <<files, handles>>

\* The slot goes to a new process.
Recycle(p) ==
    /\ handles' = [handles EXCEPT ![p] =
                     [f \in Fd |-> IF f \in Console THEN @[f] ELSE Closed]]
    /\ UNCHANGED <<files, result>>

Next ==
    \/ \E n \in Name, size \in Size : Create(n, size)
    \/ \E v \in -2 .. 1 : Other(v)
    \/ \E p \in Proc :
          \/ Recycle(p)
          \/ \E f \in Fd :
                \/ Close(p, f)
                \/ \E n \in Name : Open(p, f, n)
                \/ \E d \in Data : Write(p, f, d) \/ Read(p, f, Len(d))

Spec == Init /\ [][Next]_vars
=============================================================================
