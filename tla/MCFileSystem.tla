---------------------------- MODULE MCFileSystem ----------------------------
(* Instances of FileSystem for TLC.                                        *)
EXTENDS FileSystem, TLC

\* A page that differs from a block never written.
FullPage == {[o \in Offset |-> 1]}

\* A file's name is only compared with other names.
Renamings == Permutations(Name)
=============================================================================
