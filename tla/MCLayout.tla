------------------------------ MODULE MCLayout ------------------------------
(***************************************************************************)
(* ELF files for TLC.                                                      *)
(***************************************************************************)
EXTENDS Layout

Loaded(vaddr, memSize, fileSize, fileOffset, executable) ==
    [vaddr |-> vaddr, memSize |-> memSize, fileSize |-> fileSize,
     fileOffset |-> fileOffset, executable |-> executable]

\* What linker.ld makes: text from 0, data on the next page, with a .bss that
\* begins on a page of its own; a program that fills the first quarter; one
\* whose entry point is in its data.
MCFiles ==
    {[entry |-> 3, segments |-> <<Loaded(0, 10, 10, 100, TRUE),
                                  Loaded(12, 11, 3, 112, FALSE)>>],
     [entry |-> 0, segments |-> <<Loaded(0, 32, 32, 100, TRUE)>>],
     [entry |-> 12, segments |-> <<Loaded(0, 10, 10, 100, TRUE),
                                   Loaded(12, 11, 3, 112, FALSE)>>]}

\* Within the heap, across its end, below its start, and around the address space.
MCIncrements == {6, 20, -7, 128, -128}
=============================================================================
