--------------------------- MODULE FileSystemProof ---------------------------
(***************************************************************************)
(* Proofs about module FileSystem, for every disk, every number of files   *)
(* and descriptors, and transfers of any length: first the allocator, then *)
(* the loops of read and write, by induction on their turns, and with them *)
(* that all of it implements FileStore, files that are byte arrays.        *)
(***************************************************************************)
EXTENDS FileSystem, Induction, SequenceTheorems

\* The sizes of files are far below what std::size_t can hold.
NoWrap == \A size \in Size : size + BLOCK_SIZE - 1 < SizeT

Metadata == [exists : {TRUE}, startBlock : Nat, sizeBytes : Size]
FileHandle == [kind : {"file"}, name : Name, start : Nat, fileSize : Size, cursor : Nat]

\* A handle of the file as it was created, with its cursor inside.
OnFile(h) ==
    /\ h \in FileHandle
    /\ fileTable[h.name] \in Metadata
    /\ h.start = fileTable[h.name].startBlock
    /\ h.fileSize = fileTable[h.name].sizeBytes
    /\ h.cursor <= h.fileSize

HandleOK(h) == h.kind = "file" => OnFile(h)

HandlesInv ==
    /\ fdTable = [p \in Pid |-> [f \in Fd |-> fdTable[p][f]]]
    /\ \A p \in Pid, f \in Fd : HandleOK(fdTable[p][f])

\* The block behind the last one of a file.
EndOf(meta) == meta.startBlock + BlocksNeeded(meta.sizeBytes)

\* The bump allocator: files end below the pointer, and each begins where
\* another one, or nothing, has ended.
BlocksInv ==
    /\ fileTable \in [Name -> Metadata \cup {NoFile}]
    /\ freeBlockPointer \in 0 .. NUM_DISK_BLOCKS
    /\ \A n \in Files : EndOf(fileTable[n]) <= freeBlockPointer
    /\ \A n, m \in Files : n # m =>
          \/ EndOf(fileTable[n]) <= fileTable[m].startBlock
          \/ EndOf(fileTable[m]) <= fileTable[n].startBlock

Inv == HandlesInv /\ BlocksInv

-----------------------------------------------------------------------------
LEMMA DivBounds ==
    ASSUME NEW a \in Nat, NEW n \in Nat \ {0}
    PROVE  /\ a \div n \in Nat
           /\ n * (a \div n) <= a
           /\ a < n * (a \div n) + n
  OBVIOUS

LEMMA ModSmall ==
    ASSUME NEW w \in Nat \ {0}, NEW a \in Nat, a < w
    PROVE  a % w = a
  OBVIOUS

LEMMA MulMono ==
    ASSUME NEW a \in Nat, NEW b \in Nat, NEW c \in Nat, a <= b
    PROVE  c * a <= c * b /\ c * a \in Nat /\ c * b \in Nat
  OBVIOUS

LEMMA MulNext ==
    ASSUME NEW a \in Int, NEW c \in Int
    PROVE  c * (a + 1) = c * a + c
  OBVIOUS

LEMMA SizesAreNatural == Size \subseteq Nat
  BY DiskOK

\* Without wrapping every byte of a file is in one of the blocks set aside.
LEMMA EnoughBlocks ==
    ASSUME NoWrap, NEW size \in Size
    PROVE  /\ BlocksNeeded(size) \in Nat
           /\ \A i \in 0 .. size - 1 :
                 i \div BLOCK_SIZE \in 0 .. BlocksNeeded(size) - 1
  <1> DEFINE n == BLOCK_SIZE
             needed == (size + n - 1) \div n
  <1>1. n \in Nat \ {0} /\ size \in Nat /\ size + n - 1 \in Nat /\ SizeT \in Nat \ {0}
    BY DiskOK
  <1>2. BlocksNeeded(size) = needed
    BY <1>1, ModSmall DEF NoWrap, BlocksNeeded
  <1> HIDE DEF n
  <1>3. /\ needed \in Nat
        /\ n * needed <= size + n - 1
        /\ size + n - 1 < n * needed + n
    BY <1>1, DivBounds
  <1> HIDE DEF needed
  <1>4. ASSUME NEW i \in 0 .. size - 1
        PROVE  i \div n \in 0 .. needed - 1
    <2> DEFINE k == i \div n
    <2>1. i \in Nat /\ i <= size - 1
      BY <1>1
    <2>2. k \in Nat /\ n * k <= i
      BY <1>1, <2>1, DivBounds
    <2> HIDE DEF k
    <2>3. CASE needed <= k
      <3>1. n * needed <= n * k /\ n * needed \in Nat /\ n * k \in Nat
        BY <1>1, <1>3, <2>2, <2>3, MulMono
      <3> QED BY <1>1, <1>3, <2>1, <2>2, <3>1
    <2> QED BY <1>3, <2>2, <2>3 DEF k
  <1> QED BY <1>2, <1>3, <1>4 DEF n

LEMMA InitInv == Init => Inv
  <1> SUFFICES ASSUME Init PROVE Inv
    OBVIOUS
  <1>1. HandlesInv
    BY DEF Init, HandlesInv, HandleOK, NewTable, ConsoleHandle, NoHandle
  <1>2. Files = {}
    BY DEF Init, Files
  <1>3. BlocksInv
    BY <1>2, DiskOK DEF Init, BlocksInv
  <1> QED BY <1>1, <1>3 DEF Inv

\* One handle of a descriptor table is replaced.
LEMMA HandlePut ==
    ASSUME HandlesInv, UNCHANGED fileTable, NEW p \in Pid, NEW f \in Fd, NEW h,
           HandleOK(h), fdTable' = [fdTable EXCEPT ![p][f] = h]
    PROVE  HandlesInv'
  <1>1. \A q \in Pid, g \in Fd :
           fdTable'[q][g] = IF q = p /\ g = f THEN h ELSE fdTable[q][g]
    BY DEF HandlesInv
  <1>2. fdTable' = [q \in Pid |-> [g \in Fd |-> fdTable'[q][g]]]
    BY DEF HandlesInv
  <1>3. ASSUME NEW q \in Pid, NEW g \in Fd, fdTable'[q][g].kind = "file"
        PROVE  OnFile(fdTable[q][g])'
    <2> DEFINE k == fdTable'[q][g]
    <2>1. k = h \/ k = fdTable[q][g]
      BY <1>1
    <2>2. HandleOK(k)
      BY <2>1 DEF HandlesInv
    <2> HIDE DEF k
    <2>3. OnFile(k)
      BY <1>3, <2>2 DEF HandleOK, k
    <2> QED BY <2>3 DEF OnFile, k
  <1> QED BY <1>2, <1>3, Zenon DEF HandlesInv, HandleOK

LEMMA Moved ==
    ASSUME HandlesInv, UNCHANGED fileTable, NEW p \in Pid, NEW f \in Fd,
           fdTable[p][f].kind = "file", NEW count \in Nat,
           Advance(p, f, Truncated(fdTable[p][f], count))
    PROVE  HandlesInv'
  <1> DEFINE h == fdTable[p][f]
             n == Truncated(h, count)
             moved == [h EXCEPT !.cursor = h.cursor + n]
  <1>1. OnFile(h)
    BY DEF HandlesInv, HandleOK
  <1>2. h \in FileHandle /\ h.cursor \in Nat /\ h.fileSize \in Nat /\ h.cursor <= h.fileSize
    BY <1>1, SizesAreNatural DEF OnFile, FileHandle
  <1>3. n \in Nat /\ h.cursor + n <= h.fileSize
    BY <1>2 DEF Truncated, Lesser
  <1> HIDE DEF n
  <1>4. moved \in FileHandle /\ moved.cursor = h.cursor + n
        /\ moved.name = h.name /\ moved.start = h.start /\ moved.fileSize = h.fileSize
    BY <1>2, <1>3 DEF FileHandle
  <1>5. HandleOK(moved)
    BY <1>1, <1>3, <1>4 DEF HandleOK, OnFile
  <1>6. fdTable' = [fdTable EXCEPT ![p][f] = moved]
    BY DEF Advance, n
  <1> HIDE DEF moved
  <1> QED BY <1>5, <1>6, HandlePut

LEMMA CreateInv ==
    ASSUME NoWrap, Inv, NEW n \in Name, NEW size \in Size,
           fileTable[n] = NoFile, Fits(BlocksNeeded(size)), createFile(n, size),
           UNCHANGED fdTable
    PROVE  Inv'
  <1> DEFINE needed == BlocksNeeded(size)
             meta == [exists |-> TRUE, startBlock |-> freeBlockPointer,
                      sizeBytes |-> size]
  <1>1. needed \in Nat /\ freeBlockPointer \in Nat /\ NUM_DISK_BLOCKS \in Nat
    BY EnoughBlocks, DiskOK DEF Inv, BlocksInv
  <1>2. /\ fileTable' = [fileTable EXCEPT ![n] = meta]
        /\ freeBlockPointer' = freeBlockPointer + needed
        /\ freeBlockPointer' \in 0 .. NUM_DISK_BLOCKS
    BY <1>1 DEF createFile, Fits
  <1>3. meta \in Metadata /\ meta # NoFile /\ EndOf(meta) = freeBlockPointer'
        /\ meta.startBlock = freeBlockPointer
    BY <1>1, <1>2 DEF Metadata, NoFile, EndOf
  <1>4. fileTable \in [Name -> Metadata \cup {NoFile}]
    BY DEF Inv, BlocksInv
  <1> HIDE DEF meta, needed
  <1>5. /\ fileTable' \in [Name -> Metadata \cup {NoFile}]
        /\ fileTable'[n] = meta
        /\ \A m \in Name : m # n => fileTable'[m] = fileTable[m]
    BY <1>2, <1>3, <1>4
  <1>6. Files' = Files \cup {n} /\ n \notin Files /\ Files \subseteq Name
    BY <1>3, <1>5 DEF Files
  <1>7. \A m \in Files : /\ fileTable'[m] = fileTable[m]
                         /\ EndOf(fileTable[m]) \in Nat
                         /\ EndOf(fileTable[m]) <= freeBlockPointer
    <2> SUFFICES ASSUME NEW m \in Files
                 PROVE  EndOf(fileTable[m]) \in Nat
      BY <1>5, <1>6 DEF Inv, BlocksInv
    <2>1. fileTable[m] \in Metadata
      BY <1>4 DEF Files
    <2>2. fileTable[m].startBlock \in Nat /\ fileTable[m].sizeBytes \in Size
      BY <2>1 DEF Metadata
    <2> QED BY <2>2, EnoughBlocks DEF EndOf
  <1>8. \A m \in Files' : EndOf(fileTable'[m]) <= freeBlockPointer'
    BY <1>1, <1>2, <1>3, <1>5, <1>6, <1>7
  <1>9. \A m, o \in Files' : m # o =>
           \/ EndOf(fileTable'[m]) <= fileTable'[o].startBlock
           \/ EndOf(fileTable'[o]) <= fileTable'[m].startBlock
    <2>1. \A m, o \in Files : m # o =>
             \/ EndOf(fileTable[m]) <= fileTable[o].startBlock
             \/ EndOf(fileTable[o]) <= fileTable[m].startBlock
      BY DEF Inv, BlocksInv
    <2> QED BY <1>3, <1>5, <1>6, <1>7, <2>1
  <1>10. BlocksInv'
    BY <1>2, <1>5, <1>8, <1>9 DEF BlocksInv, EndOf, BlocksNeeded
  <1>11. HandlesInv'
    <2>1. ASSUME NEW h, HandleOK(h) PROVE HandleOK(h)'
      <3>1. ASSUME OnFile(h) PROVE OnFile(h)'
        <4>1. h.name \in Name /\ h.name # n
          <5>1. h.name \in Name /\ fileTable[h.name].exists
            BY <3>1 DEF OnFile, FileHandle, Metadata
          <5>2. ~fileTable[n].exists
            BY DEF NoFile
          <5> QED BY <5>1, <5>2
        <4> QED BY <1>5, <3>1, <4>1 DEF OnFile
      <3> QED BY <2>1, <3>1 DEF HandleOK
    <2> QED BY <2>1 DEF Inv, HandlesInv
  <1> QED BY <1>10, <1>11 DEF Inv

LEMMA NextInv == NoWrap /\ Inv /\ [Next]_vars => Inv'
  <1> SUFFICES ASSUME NoWrap, Inv, [Next]_vars PROVE Inv'
    OBVIOUS
  <1>0. HandlesInv /\ BlocksInv /\ NoHandle.kind # "file"
    BY DEF Inv, NoHandle
  <1>1. ASSUME UNCHANGED <<fileTable, freeBlockPointer>> PROVE BlocksInv'
    BY <1>0, <1>1 DEF BlocksInv, Files
  <1>2. ASSUME UNCHANGED <<fdTable, fileTable, freeBlockPointer>> PROVE Inv'
    <2>1. HandlesInv'
      BY <1>0, <1>2 DEF HandlesInv, HandleOK, OnFile
    <2> QED BY <1>1, <1>2, <2>1 DEF Inv
  <1>3. ASSUME NEW p \in Pid, Recycle(p) PROVE Inv'
    <2>1. \A f \in Fd : HandleOK(Recycled(fdTable[p])[f])
      BY <1>0 DEF Recycled, HandlesInv, HandleOK
    <2>2. fdTable' = [fdTable EXCEPT ![p] = Recycled(fdTable[p])] /\ UNCHANGED fileTable
      BY <1>3 DEF Recycle
    <2>3. \A q \in Pid : fdTable'[q] = IF q = p THEN Recycled(fdTable[p]) ELSE fdTable[q]
      BY <1>0, <2>2 DEF HandlesInv
    <2>4. \A q \in Pid, f \in Fd : HandleOK(fdTable'[q][f])
      BY <1>0, <2>1, <2>3 DEF HandlesInv
    <2>5. fdTable' = [q \in Pid |-> [f \in Fd |-> fdTable'[q][f]]]
      BY <1>0, <2>2 DEF HandlesInv, Recycled
    <2>6. HandlesInv'
      BY <2>2, <2>4, <2>5 DEF HandlesInv, HandleOK, OnFile
    <2> QED BY <1>1, <1>3, <2>6 DEF Inv, Recycle
  <1>4. ASSUME NEW p \in Pid, NEW n \in Name, Open(p, n) PROVE Inv'
    <2>1. CASE UNCHANGED fdTable
      BY <1>2, <1>4, <2>1 DEF Open
    <2>2. ASSUME NEW fd \in Free(p), fileTable[n] # NoFile,
                 fdTable' = [fdTable EXCEPT ![p][fd] = DiskFileHandle(n)]
          PROVE  Inv'
      <3>1. fileTable[n] \in Metadata
        BY <1>0, <2>2 DEF BlocksInv
      <3>2. HandleOK(DiskFileHandle(n))
        <4> DEFINE h == DiskFileHandle(n)
        <4>1. /\ fileTable[n].startBlock \in Nat /\ fileTable[n].sizeBytes \in Nat
              /\ fileTable[n].exists
          BY <3>1, SizesAreNatural DEF Metadata
        <4>2. /\ h.kind = "file" /\ h.name = n /\ h.start = fileTable[n].startBlock
              /\ h.fileSize = fileTable[n].sizeBytes /\ h.cursor = 0
          BY DEF DiskFileHandle
        <4>3. h \in FileHandle
          BY <3>1, <4>1 DEF DiskFileHandle, FileHandle, Metadata
        <4>4. OnFile(h)
          <5> HIDE DEF h
          <5> QED BY <3>1, <4>1, <4>2, <4>3 DEF OnFile
        <4> QED BY <4>4 DEF HandleOK
      <3>3. fd \in Fd
        BY DEF Free
      <3>4. UNCHANGED <<fileTable, freeBlockPointer>>
        BY <1>4 DEF Open
      <3>5. HandlesInv'
        BY <1>0, <2>2, <3>2, <3>3, <3>4, HandlePut
      <3> QED BY <1>1, <3>4, <3>5 DEF Inv
    <2> QED BY <1>4, <2>1, <2>2 DEF Open
  <1>5. ASSUME NEW p \in Pid, NEW fd, Close(p, fd) PROVE Inv'
    <2>1. CASE UNCHANGED fdTable
      BY <1>2, <1>5, <2>1 DEF Close
    <2>2. CASE getFileHandle(p, fd) # NoHandle /\ closeFileHandle(p, fd)
      <3>1. fd \in Fd /\ fdTable' = [fdTable EXCEPT ![p][fd] = NoHandle]
        BY <2>2 DEF getFileHandle, closeFileHandle
      <3>2. UNCHANGED <<fileTable, freeBlockPointer>> /\ HandleOK(NoHandle)
        BY <1>0, <1>5 DEF Close, HandleOK
      <3>3. HandlesInv'
        BY <1>0, <3>1, <3>2, HandlePut
      <3> QED BY <1>1, <3>2, <3>3 DEF Inv
    <2> QED BY <1>5, <2>1, <2>2 DEF Close
  <1>6. ASSUME NEW p \in Pid, NEW fd, NEW count \in Nat,
               getFileHandle(p, fd).kind = "file",
               Advance(p, fd, Truncated(getFileHandle(p, fd), count)),
               UNCHANGED <<fileTable, freeBlockPointer>>
        PROVE  Inv'
    <2>1. fd \in Fd /\ getFileHandle(p, fd) = fdTable[p][fd]
      BY <1>0, <1>6 DEF getFileHandle
    <2>2. HandlesInv'
      BY <1>0, <1>6, <2>1, Moved
    <2> QED BY <1>1, <1>6, <2>2 DEF Inv
  <1>7. ASSUME NEW p \in Pid, NEW fd, NEW count \in 0 .. MaxCount, Read(p, fd, count)
        PROVE  Inv'
    <2>1. UNCHANGED <<fileTable, freeBlockPointer>> /\ count \in Nat
      BY <1>7, DiskOK DEF Read
    <2>2. CASE UNCHANGED fdTable
      BY <1>2, <2>1, <2>2
    <2> QED BY <1>6, <1>7, <2>1, <2>2 DEF Read
  <1>8. ASSUME NEW p \in Pid, NEW fd, NEW data \in Data, Write(p, fd, data)
        PROVE  Inv'
    <2>1. UNCHANGED <<fileTable, freeBlockPointer>>
      BY <1>8 DEF Write
    <2>2. Len(data) \in Nat
      <3>1. PICK n \in 0 .. MaxCount : data \in [1 .. n -> Byte]
        BY DEF Data
      <3>2. n \in Nat /\ data \in Seq(Byte)
        BY <3>1, DiskOK
      <3> QED BY <3>2
    <2>3. CASE UNCHANGED fdTable
      BY <1>2, <2>1, <2>3
    <2> QED BY <1>6, <1>8, <2>1, <2>2, <2>3 DEF Write
  <1>9. ASSUME NEW n \in Name, NEW size \in Size, Create(n, size) PROVE Inv'
    <2>1. CASE UNCHANGED <<fileTable, freeBlockPointer>>
      BY <1>2, <1>9, <2>1 DEF Create
    <2>2. CASE fileTable[n] = NoFile /\ Fits(BlocksNeeded(size)) /\ createFile(n, size)
      BY <1>9, <2>2, CreateInv DEF Create
    <2> QED BY <1>9, <2>1, <2>2 DEF Create
  <1>10. ASSUME NEW page, swapOut(page) PROVE Inv'
    BY <1>2, <1>10 DEF swapOut
  <1>11. ASSUME NEW slot, swapIn(slot) PROVE Inv'
    BY <1>2, <1>11 DEF swapIn
  <1>12. CASE UNCHANGED vars
    BY <1>2, <1>12 DEF vars
  <1> HIDE DEF Inv
  <1> QED BY <1>3, <1>4, <1>5, <1>7, <1>8, <1>9, <1>10, <1>11, <1>12, Zenon DEF Next

\* However many files are created and whatever their sizes, no byte of a file
\* is in a block of another one or behind the allocator, and no handle runs
\* past its file, as long as sizes do not wrap in std::size_t.
THEOREM FilesKeptApart == ASSUME NoWrap PROVE Spec => []FilesDisjoint
  <1>1. ASSUME Inv PROVE FilesDisjoint
    <2> USE <1>1
    <2>1. ASSUME NEW n \in Files
          PROVE  /\ fileTable[n].startBlock \in Nat
                 /\ fileTable[n].sizeBytes \in Size
                 /\ EndOf(fileTable[n]) \in Nat
                 /\ EndOf(fileTable[n]) <= freeBlockPointer
                 /\ BlocksOf(n) \subseteq
                       fileTable[n].startBlock .. EndOf(fileTable[n]) - 1
      <3>1. fileTable[n] \in Metadata /\ EndOf(fileTable[n]) <= freeBlockPointer
        BY DEF Inv, BlocksInv, Files
      <3>2. fileTable[n].startBlock \in Nat /\ fileTable[n].sizeBytes \in Size
        BY <3>1 DEF Metadata
      <3>3. /\ BlocksNeeded(fileTable[n].sizeBytes) \in Nat
            /\ \A i \in 0 .. fileTable[n].sizeBytes - 1 : i \div BLOCK_SIZE
                  \in 0 .. BlocksNeeded(fileTable[n].sizeBytes) - 1
        BY <3>2, EnoughBlocks
      <3> HIDE DEF BlocksNeeded
      <3>4. EndOf(fileTable[n]) \in Nat
        BY <3>2, <3>3 DEF EndOf
      <3>5. BlocksOf(n) \subseteq fileTable[n].startBlock .. EndOf(fileTable[n]) - 1
        BY <3>2, <3>3 DEF BlocksOf, EndOf
      <3> QED BY <3>1, <3>2, <3>4, <3>5
    <2>2. ASSUME NEW n \in Files PROVE BlocksOf(n) \subseteq 0 .. freeBlockPointer - 1
      <3>1. freeBlockPointer \in Nat
        BY DiskOK DEF Inv, BlocksInv
      <3> QED BY <2>1, <3>1
    <2>3. ASSUME NEW n \in Files, NEW m \in Files \ {n}
          PROVE  BlocksOf(m) \cap BlocksOf(n) = {}
      <3>1. \/ EndOf(fileTable[n]) <= fileTable[m].startBlock
            \/ EndOf(fileTable[m]) <= fileTable[n].startBlock
        BY DEF Inv, BlocksInv
      <3> QED BY <2>1, <3>1
    <2>4. ASSUME NEW p \in Pid, NEW fd \in Fd, fdTable[p][fd].kind = "file"
          PROVE  LET h == fdTable[p][fd]
                 IN  /\ h.cursor <= h.fileSize
                     /\ h.start = fileTable[h.name].startBlock
                     /\ h.fileSize = fileTable[h.name].sizeBytes
      BY <2>4 DEF Inv, HandlesInv, HandleOK, OnFile
    <2> QED BY <2>2, <2>3, <2>4 DEF FilesDisjoint
  <1> QED BY <1>1, InitInv, NextInv, NoWrap, PTL DEF Spec

-----------------------------------------------------------------------------
(***************************************************************************)
(* The loops of DiskFileHandle.                                            *)
(***************************************************************************)
LEMMA DivMod ==
    ASSUME NEW a \in Nat, NEW n \in Nat \ {0}
    PROVE  /\ a \div n \in Nat
           /\ a % n \in 0 .. n - 1
           /\ a = n * (a \div n) + (a % n)
  OBVIOUS

LEMMA DivUnique ==
    ASSUME NEW n \in Nat \ {0}, NEW a \in Nat, NEW q \in Int, NEW r \in 0 .. n - 1,
           a = n * q + r
    PROVE  q = a \div n /\ r = a % n
  <1> DEFINE p == a \div n
             t == a % n
  <1>1. p \in Nat /\ t \in 0 .. n - 1 /\ a = n * p + t
    BY DivMod
  <1> HIDE DEF p, t
  <1>2. CASE q < p
    <2>1. q + 1 <= p /\ n * (q + 1) = n * q + n
      BY <1>1, <1>2
    <2>2. n * (q + 1) <= n * p
      BY <1>1, <2>1
    <2> QED BY <1>1, <2>1, <2>2
  <1>3. CASE p < q
    <2>1. p + 1 <= q /\ n * (p + 1) = n * p + n
      BY <1>1, <1>3
    <2>2. n * (p + 1) <= n * q
      BY <1>1, <2>1
    <2> QED BY <1>1, <2>1, <2>2
  <1>4. CASE p = q
    BY <1>1, <1>4 DEF p, t
  <1> QED BY <1>1, <1>2, <1>3, <1>4

\* Where byte o of block b is in a file that starts with block start.
Place(start, b, o) == (b - start) * BLOCK_SIZE + o

LEMMA PlaceIsInt ==
    ASSUME NEW start \in Int, NEW b \in Int, NEW o \in Int
    PROVE  Place(start, b, o) \in Int
  <1>1. (b - start) * BLOCK_SIZE \in Int
    BY DiskOK
  <1> QED BY <1>1 DEF Place

LEMMA PlaceOf ==
    ASSUME NEW start \in Int, NEW b \in Int, NEW o \in Offset, NEW i \in Nat
    PROVE  /\ i \div BLOCK_SIZE \in Nat /\ i % BLOCK_SIZE \in Offset
           /\ Place(start, b, o) \in Int
           /\ Place(start, b, o) = i <=>
                 b = start + i \div BLOCK_SIZE /\ o = i % BLOCK_SIZE
  <1> DEFINE n == BLOCK_SIZE
             q == i \div n
             r == i % n
             d == b - start
  <1>1. n \in Nat \ {0} /\ q \in Nat /\ r \in 0 .. n - 1 /\ i = n * q + r
    BY DiskOK, DivMod
  <1>2. d \in Int /\ o \in 0 .. n - 1 /\ Place(start, b, o) = d * n + o
    BY DEF Place, Offset
  <1> HIDE DEF n, q, r
  <1>3. d * n = n * d /\ n * d \in Int
    BY <1>1, <1>2
  <1>4. ASSUME n * d + o = i PROVE d = q /\ o = r
    <2> HIDE DEF d
    <2>1. o \in 0 .. n - 1 /\ i = n * d + o
      BY <1>2, <1>4
    <2> QED BY <1>1, <1>2, <2>1, DivUnique DEF q, r
  <1>5. ASSUME d = q, o = r PROVE n * d + o = i
    <2> HIDE DEF d
    <2> QED BY <1>1, <1>5
  <1>6. d = q <=> b = start + q
    BY <1>1
  <1> HIDE DEF d
  <1>7. d * n + o \in Int
    BY <1>1, <1>2, <1>3
  <1> QED BY <1>1, <1>2, <1>3, <1>4, <1>5, <1>6, <1>7 DEF q, r, n, Offset

LEMMA PlaceIs ==
    ASSUME NEW start \in Int, NEW b \in Int, NEW o \in Offset, NEW i \in Nat,
           Place(start, b, o) = i
    PROVE  b = start + i \div BLOCK_SIZE /\ o = i % BLOCK_SIZE
  BY PlaceOf

LEMMA DataIsBytes ==
    ASSUME NEW data \in Data
    PROVE  /\ data \in Seq(Byte) /\ Len(data) \in 0 .. MaxCount
           /\ \A j \in 1 .. Len(data) : data[j] \in Byte
  <1>1. PICK n \in 0 .. MaxCount : data \in [1 .. n -> Byte]
    BY DEF Data
  <1>2. n \in Nat /\ data \in Seq(Byte) /\ Len(data) = n
    BY <1>1, DiskOK
  <1> QED BY <1>1, <1>2

\* What remains to be transferred: total bytes from the cursor of h.
Transfer(h, total) ==
    /\ h.cursor \in Nat
    /\ h.start \in Nat
    /\ total \in Nat


LEMMA ChunkBounds ==
    ASSUME NEW h, NEW total, Transfer(h, total), NEW done \in 0 .. total
    PROVE  LET off == offsetInBlock(h, done)
               c == Chunk(h, done, total)
           IN  /\ off \in Offset
               /\ absoluteBlock(h, done) \in Nat
               /\ Place(h.start, absoluteBlock(h, done), off) = h.cursor + done
               /\ c \in Nat /\ off + c <= BLOCK_SIZE /\ done + c <= total
               /\ done < total => c > 0
  <1> DEFINE i == h.cursor + done
             q == i \div BLOCK_SIZE
             off == i % BLOCK_SIZE
             c == Chunk(h, done, total)
  <1>1. i \in Nat /\ BLOCK_SIZE \in Nat \ {0} /\ h.start \in Nat /\ total \in Nat
    BY DiskOK DEF Transfer
  <1>2. off \in 0 .. BLOCK_SIZE - 1 /\ q \in Nat
    BY <1>1, DivMod
  <1>3. c = Lesser(BLOCK_SIZE - off, total - done)
    BY DEF Chunk, offsetInBlock
  <1>4. absoluteBlock(h, done) = h.start + q /\ offsetInBlock(h, done) = off
    BY DEF absoluteBlock, offsetInBlock
  <1>5. Place(h.start, h.start + q, off) = i
    <2>1. off \in Offset /\ h.start + q \in Int
      BY <1>1, <1>2 DEF Offset
    <2> QED BY <1>1, <2>1, PlaceOf
  <1> HIDE DEF c, off, q, i
  <1>6. c \in Nat /\ off + c <= BLOCK_SIZE /\ done + c <= total /\ (done < total => c > 0)
    BY <1>1, <1>2, <1>3 DEF Lesser
  <1> QED BY <1>1, <1>2, <1>4, <1>5, <1>6 DEF Offset, i, c

WriteState(total) == [done : 0 .. total, temp : BlockData, disk : [Block -> BlockData]]

\* Disk d is the disk with n bytes of data written at the cursor of h.
Written(d, h, data, n) ==
    \A b \in Block, o \in Offset :
        LET j == Place(h.start, b, o) - h.cursor
        IN  d[b][o] = IF j \in 0 .. n - 1 THEN data[j + 1] ELSE disk[b][o]

\* The blocks the transfer reaches exist.
Reachable(h, total) ==
    \A i \in 0 .. h.cursor + total - 1 : h.start + i \div BLOCK_SIZE \in Block

LEMMA MergedBytes ==
    ASSUME NEW old \in BlockData, NEW off \in Offset, NEW data \in Data,
           NEW done \in Nat, NEW c \in Nat, done + c <= Len(data)
    PROVE  LET new == Merged(old, off, SubSeq(data, done + 1, done + c))
           IN  /\ new \in BlockData
               /\ \A o \in Offset : new[o] = IF o - off \in 0 .. c - 1
                                               THEN data[done + (o - off) + 1]
                                               ELSE old[o]
  <1> DEFINE bytes == SubSeq(data, done + 1, done + c)
             new == Merged(old, off, bytes)
  <1>1. data \in Seq(Byte) /\ Len(data) \in Nat /\ \A j \in 1 .. Len(data) : data[j] \in Byte
    BY DataIsBytes, DiskOK
  <1>2. Len(bytes) = c /\ \A j \in 1 .. c : bytes[j] = data[done + j]
    BY <1>1
  <1>3. new = [o \in Offset |-> IF o \in off .. off + c - 1 THEN bytes[o - off + 1]
                                                         ELSE old[o]]
    BY <1>2 DEF Merged
  <1> HIDE DEF bytes, new
  <1>4. off \in Int /\ \A o \in Offset : o \in Int
    BY DEF Offset
  <1>5. ASSUME NEW o \in Offset
        PROVE  /\ new[o] = IF o - off \in 0 .. c - 1 THEN data[done + (o - off) + 1]
                                                      ELSE old[o]
               /\ new[o] \in Byte
    <2>1. CASE o - off \in 0 .. c - 1
      <3>1. o \in off .. off + c - 1 /\ o - off + 1 \in 1 .. c
            /\ done + (o - off + 1) = done + (o - off) + 1
        BY <1>4, <2>1
      <3>2. new[o] = data[done + (o - off + 1)]
        BY <1>2, <1>3, <3>1
      <3>3. done + (o - off + 1) \in 1 .. Len(data)
        BY <1>1, <1>4, <3>1
      <3> QED BY <1>1, <2>1, <3>1, <3>2, <3>3
    <2>2. CASE o - off \notin 0 .. c - 1
      <3>1. o \notin off .. off + c - 1
        BY <1>4, <2>2
      <3> QED BY <1>3, <2>2, <3>1 DEF BlockData
    <2> QED BY <2>1, <2>2
  <1>6. new \in BlockData
    BY <1>3, <1>5 DEF BlockData
  <1> QED BY <1>5, <1>6 DEF new, bytes

\* A turn keeps to types, gets on, and leaves what is written so far.
LEMMA WriteTurnWrites ==
    ASSUME disk \in [Block -> BlockData], NEW h, NEW total, Transfer(h, total),
           NEW data \in Data, total <= Len(data),
           NEW s \in WriteState(total), s.done < total
    PROVE  LET t == WriteTurn(h, data, total, s)
           IN  /\ t \in WriteState(total)
               /\ t.done > s.done
               /\ Reachable(h, total) /\ Written(s.disk, h, data, s.done)
                     => Written(t.disk, h, data, t.done)
  <1> DEFINE t == WriteTurn(h, data, total, s)
             b == absoluteBlock(h, s.done)
             off == offsetInBlock(h, s.done)
             c == Chunk(h, s.done, total)
             old == readBlock(s.disk, b, s.temp)
             new == Merged(old, off, SubSeq(data, s.done + 1, s.done + c))
  <1>1. s.done \in 0 .. total /\ s.temp \in BlockData /\ s.disk \in [Block -> BlockData]
    BY DEF WriteState
  <1>2. /\ off \in Offset /\ b \in Nat /\ c \in Nat /\ c > 0
        /\ off + c <= BLOCK_SIZE /\ s.done + c <= total
        /\ Place(h.start, b, off) = h.cursor + s.done
    BY <1>1, ChunkBounds
  <1>3. old \in BlockData
    BY <1>1 DEF readBlock
  <1>4. Len(data) \in Nat /\ total \in Nat /\ s.done \in Nat
    BY <1>1, DataIsBytes, DiskOK DEF Transfer
  <1>5. /\ new \in BlockData
        /\ \A o \in Offset : new[o] = IF o - off \in 0 .. c - 1
                                        THEN data[s.done + (o - off) + 1] ELSE old[o]
    <2>1. s.done + c <= Len(data)
      BY <1>2, <1>4
    <2> HIDE DEF off, c, old
    <2> QED BY <1>2, <1>3, <1>4, <2>1, MergedBytes
  <1>6. t = [done |-> s.done + c, temp |-> new, disk |-> writeBlock(s.disk, b, new)]
    BY DEF WriteTurn
  <1> HIDE DEF t, b, off, c, old, new
  <1>7. t.done = s.done + c /\ t.disk = writeBlock(s.disk, b, new)
    BY <1>6
  <1>8. writeBlock(s.disk, b, new) \in [Block -> BlockData]
    BY <1>1, <1>5 DEF writeBlock
  <1>9. t \in WriteState(total) /\ t.done > s.done
    BY <1>2, <1>4, <1>5, <1>6, <1>8 DEF WriteState
  <1>10. ASSUME Reachable(h, total), Written(s.disk, h, data, s.done),
                NEW x \in Block, NEW o \in Offset
         PROVE  LET j == Place(h.start, x, o) - h.cursor
                IN  t.disk[x][o] = IF j \in 0 .. t.done - 1 THEN data[j + 1]
                                                             ELSE disk[x][o]
    <2> DEFINE j == Place(h.start, x, o) - h.cursor
    <2>1. h.start \in Int /\ h.cursor \in Nat /\ x \in Int /\ o \in Int /\ off \in Int
      BY <1>2, DiskOK DEF Transfer, Block, Offset
    <2>2. j \in Int
      <3>1. Place(h.start, x, o) \in Int
        BY <2>1, PlaceIsInt, Zenon
      <3> QED BY <2>1, <3>1
    <2> HIDE DEF j
    <2>3. b \in Block
      <3>1. h.cursor + s.done \in 0 .. h.cursor + total - 1
        BY <1>2, <1>4, <2>1
      <3> QED BY <1>10, <3>1 DEF Reachable, b, absoluteBlock
    <2>4. s.disk[x][o] = IF j \in 0 .. s.done - 1 THEN data[j + 1] ELSE disk[x][o]
      BY <1>10 DEF Written, j
    <2> DEFINE New == t.disk[x][o] = IF j \in 0 .. t.done - 1 THEN data[j + 1]
                                                              ELSE disk[x][o]
    <2>5. ASSUME x = b PROVE New
      <3>1. j = s.done + (o - off)
        <4>1. Place(h.start, b, o) = Place(h.start, b, off) + (o - off)
          <5>1. (b - h.start) * BLOCK_SIZE \in Int
            BY <1>2, <2>1, DiskOK
          <5> QED BY <2>1, <5>1 DEF Place
        <4> QED BY <1>2, <1>4, <2>1, <2>5, <4>1 DEF j
      <3>2. t.disk[x] = new /\ old = s.disk[b]
        BY <1>1, <1>7, <2>3, <2>5 DEF writeBlock, readBlock, old
      <3> DEFINE e == o - off
      <3>5. e \in Int /\ c \in Nat /\ s.done \in Nat /\ t.done = s.done + c
            /\ j = s.done + e
        BY <1>2, <1>4, <1>7, <2>1, <3>1
      <3>3. CASE e \in 0 .. c - 1
        <4>1. j \in 0 .. t.done - 1
          <5> HIDE DEF e
          <5> QED BY <3>3, <3>5
        <4> QED BY <1>5, <3>1, <3>2, <3>3, <4>1
      <3>4. CASE e \notin 0 .. c - 1
        <4>1. j \in 0 .. t.done - 1 <=> j \in 0 .. s.done - 1
          <5> HIDE DEF e
          <5> QED BY <3>4, <3>5
        <4> QED BY <1>5, <2>4, <2>5, <3>2, <3>4, <4>1
      <3> QED BY <3>3, <3>4
    <2>6. ASSUME x # b PROVE New
      <3>1. t.disk[x] = s.disk[x]
        BY <1>1, <1>7, <2>3, <2>6 DEF writeBlock
      <3>2. ASSUME j \in s.done .. t.done - 1 PROVE FALSE
        <4> DEFINE k == j - s.done
        <4>1. k \in 0 .. c - 1 /\ off + k \in Offset
          <5>1. k \in 0 .. c - 1
            BY <1>2, <1>4, <1>7, <2>2, <3>2
          <5> QED BY <1>2, <2>1, <5>1, DiskOK DEF Offset
        <4>2. Place(h.start, x, o) = h.cursor + s.done + k
          <5>1. Place(h.start, x, o) \in Int
            BY <2>1, PlaceIsInt, Zenon
          <5> QED BY <1>4, <2>1, <2>2, <5>1 DEF j
        <4>3. Place(h.start, b, off + k) = h.cursor + s.done + k
          <5>1. (b - h.start) * BLOCK_SIZE \in Int
            BY <1>2, <2>1, DiskOK
          <5>2. Place(h.start, b, off + k) = Place(h.start, b, off) + k
            BY <1>4, <2>1, <2>2, <5>1 DEF Place
          <5> QED BY <1>2, <5>2
        <4> DEFINE i == h.cursor + s.done + k
        <4>4. i \in Nat /\ b \in Int
          <5>1. k \in Nat
            BY <1>2, <4>1
          <5> HIDE DEF k
          <5> QED BY <1>2, <1>4, <2>1, <5>1
        <4> HIDE DEF i, k
        <4>5. x = h.start + i \div BLOCK_SIZE
          <5>1. Place(h.start, x, o) = i
            BY <4>2 DEF i
          <5> QED BY <2>1, <4>4, <5>1, PlaceIs
        <4>6. b = h.start + i \div BLOCK_SIZE
          <5>1. Place(h.start, b, off + k) = i
            BY <4>3 DEF i
          <5> QED BY <2>1, <4>1, <4>4, <5>1, PlaceIs
        <4> QED BY <2>6, <4>5, <4>6
      <3>3. j \in 0 .. t.done - 1 <=> j \in 0 .. s.done - 1
        BY <1>2, <1>4, <1>7, <2>2, <3>2
      <3> QED BY <2>4, <3>1, <3>3
    <2> QED BY <2>5, <2>6 DEF j
  <1>11. Reachable(h, total) /\ Written(s.disk, h, data, s.done)
            => Written(t.disk, h, data, t.done)
    BY <1>10 DEF Written
  <1> QED BY <1>9, <1>11 DEF t

LEMMA WriteLoopWrites ==
    ASSUME disk \in [Block -> BlockData], NEW h, NEW total, Transfer(h, total),
           NEW data \in Data, total <= Len(data)
    PROVE  /\ WriteLoop(h, data, total) \in [Block -> BlockData]
           /\ Reachable(h, total) => Written(WriteLoop(h, data, total), h, data, total)
  <1> DEFINE S == WriteState(total)
             s0 == [done |-> 0, temp |-> [o \in Offset |-> 0], disk |-> disk]
             Turn(s) == IF s.done < total THEN WriteTurn(h, data, total, s) ELSE s
             T == [s \in S |-> Turn(s)]
             Loop(g) == g = [k \in 0 .. total |-> IF k = 0 THEN s0 ELSE Turn(g[k - 1])]
             after == CHOOSE g : Loop(g)
  <1>1. total \in Nat
    BY DEF Transfer
  <1>2. s0 \in S
    BY <1>1, DiskOK DEF WriteState, BlockData
  <1>3. ASSUME NEW s \in S
        PROVE  /\ Turn(s) \in S
               /\ s.done < total => Turn(s).done > s.done
               /\ s.done = total => Turn(s).done = total
    <2>1. CASE s.done < total
      <3>1. Turn(s) = WriteTurn(h, data, total, s) /\ s.done # total
        BY <1>1, <2>1
      <3> QED BY <2>1, <3>1, WriteTurnWrites
    <2>2. CASE ~(s.done < total)
      BY <2>2
    <2> QED BY <2>1, <2>2
  <1> HIDE DEF Turn, s0, S
  <1>4. T \in [S -> S]
    BY <1>3
  <1>5. \E g : Loop(g)
    <2>0. \E g : Turns(total, S, T, s0, g)
      <3> HIDE DEF T
      <3> QED BY <1>1, <1>2, <1>4, LoopExists
    <2>1. PICK g : Turns(total, S, T, s0, g)
      BY <2>0
    <2>2. \A k \in 1 .. total : k - 1 \in 0 .. total
      BY <1>1
    <2>3. \A k \in 0 .. total : g[k] = IF k = 0 THEN s0 ELSE Turn(g[k - 1])
      <3>1. /\ \A k \in 0 .. total : g[k] \in S
            /\ g[0] = s0
            /\ \A k \in 1 .. total : g[k] = T[g[k - 1]]
        BY <2>1 DEF Turns
      <3>2. \A k \in 1 .. total : T[g[k - 1]] = Turn(g[k - 1])
        BY <2>2, <3>1
      <3> HIDE DEF T
      <3> QED BY <1>1, <3>1, <3>2
    <2>4. g = [k \in 0 .. total |-> g[k]]
      BY <2>1 DEF Turns
    <2>5. Loop(g)
      BY <2>3, <2>4
    <2> QED BY <2>5
  <1>6. Loop(after)
    BY <1>5, Zenon
  <1>7. WriteLoop(h, data, total) = after[total].disk
    BY Zenon DEF WriteLoop, Turn, s0
  <1> HIDE DEF after
  <1>8. after[0] = s0 /\ \A k \in 1 .. total : after[k] = Turn(after[k - 1])
    <2>1. \A k \in 0 .. total : after[k] = IF k = 0 THEN s0 ELSE Turn(after[k - 1])
      BY <1>6, Zenon
    <2> QED BY <1>1, <2>1
  <1>9. after[total] \in S /\ after[total].done = total
    <2>1. ASSUME NEW s \in S PROVE s.done \in 0 .. total
      BY DEF S, WriteState
    <2>2. ASSUME NEW k \in 1 .. total, after[k - 1] \in S
          PROVE  /\ after[k] \in S
                 /\ after[k - 1].done < total => after[k].done > after[k - 1].done
                 /\ after[k - 1].done = total => after[k].done = total
      BY <1>3, <1>8, <2>2, Zenon
    <2> QED BY <1>1, <1>2, <1>8, <2>1, <2>2, LoopEnds
  <1>10. after[total].disk \in [Block -> BlockData]
    BY <1>9 DEF S, WriteState
  <1>11. ASSUME Reachable(h, total) PROVE Written(after[total].disk, h, data, total)
    <2> DEFINE W(s) == Written(s.disk, h, data, s.done)
               R == {s \in S : W(s)}
    <2>1. W(s0)
      <3>1. s0.disk = disk /\ s0.done = 0
        BY DEF s0
      <3>2. \A b \in Block, o \in Offset :
               Place(h.start, b, o) - h.cursor \notin 0 .. 0 - 1
        OBVIOUS
      <3> QED BY <3>1, <3>2 DEF Written
    <2>2. ASSUME NEW s \in S, W(s) PROVE W(Turn(s))
      <3>1. CASE s.done < total
        BY <1>11, <2>2, <3>1, WriteTurnWrites DEF Turn, S
      <3>2. CASE ~(s.done < total)
        BY <2>2, <3>2 DEF Turn
      <3> QED BY <3>1, <3>2
    <2> HIDE DEF W
    <2>3. after[0] \in R
      BY <1>2, <1>8, <2>1
    <2>4. ASSUME NEW k \in 1 .. total, after[k - 1] \in R PROVE after[k] \in R
      BY <1>3, <1>8, <2>2, <2>4
    <2> HIDE DEF R
    <2>5. \A k \in 0 .. total : after[k] \in R
      BY <1>1, <2>3, <2>4, LoopInvariant
    <2>6. W(after[total])
      BY <1>1, <2>5 DEF R
    <2> QED BY <1>9, <2>6 DEF W
  <1> QED BY <1>7, <1>10, <1>11

\* Sequence x is n bytes of the file of h, from its cursor on.
Delivered(x, h, n) ==
    /\ x \in Seq(Byte)
    /\ Len(x) = n
    /\ \A j \in 1 .. n :
          LET i == h.cursor + j - 1
          IN  x[j] = disk[h.start + i \div BLOCK_SIZE][i % BLOCK_SIZE]

\* The states of the loop in which what is done is delivered.
ReadState(h, total) ==
    {s \in [done : 0 .. total, temp : BlockData, buffer : Seq(Byte)] :
        Delivered(s.buffer, h, s.done)}

LEMMA ReadTurnReads ==
    ASSUME disk \in [Block -> BlockData], NEW h, NEW total, Transfer(h, total),
           Reachable(h, total), NEW s \in ReadState(h, total), s.done < total
    PROVE  LET t == ReadTurn(h, total, s)
           IN  t \in ReadState(h, total) /\ t.done > s.done
  <1> DEFINE t == ReadTurn(h, total, s)
             b == absoluteBlock(h, s.done)
             off == offsetInBlock(h, s.done)
             c == Chunk(h, s.done, total)
             temp == readBlock(disk, b, s.temp)
             part == [i \in 1 .. c |-> temp[off + i - 1]]
             new == s.buffer \o part
  <1>1. /\ s.done \in 0 .. total /\ s.temp \in BlockData /\ s.buffer \in Seq(Byte)
        /\ Delivered(s.buffer, h, s.done)
    BY DEF ReadState
  <1>2. /\ off \in Offset /\ b \in Nat /\ c \in Nat /\ c > 0
        /\ off + c <= BLOCK_SIZE /\ s.done + c <= total
        /\ Place(h.start, b, off) = h.cursor + s.done
    BY <1>1, ChunkBounds
  <1>3. total \in Nat /\ s.done \in Nat /\ h.cursor \in Nat /\ h.start \in Nat
    BY <1>1 DEF Transfer
  <1>4. b \in Block
    <2>1. h.cursor + s.done \in 0 .. h.cursor + total - 1
      BY <1>3
    <2> QED BY <2>1 DEF Reachable, absoluteBlock
  <1>5. temp = disk[b] /\ temp \in BlockData
    BY <1>4 DEF readBlock
  <1>6. t = [done |-> s.done + c, temp |-> temp, buffer |-> new]
    BY DEF ReadTurn
  <1> HIDE DEF t, b, off, c, temp
  <1>7. off \in 0 .. BLOCK_SIZE - 1 /\ BLOCK_SIZE \in Nat
    BY <1>2, DiskOK DEF Offset
  <1>8. \A i \in 1 .. c : off + i - 1 \in Offset
    BY <1>2, <1>7 DEF Offset
  <1>9. part \in Seq(Byte) /\ Len(part) = c /\ \A i \in 1 .. c : part[i] = temp[off + i - 1]
    <2>1. \A i \in 1 .. c : temp[off + i - 1] \in Byte
      BY <1>5, <1>8 DEF BlockData
    <2> QED BY <1>2, <2>1
  <1> HIDE DEF part
  <1>10. /\ new \in Seq(Byte) /\ Len(new) = s.done + c
         /\ \A j \in 1 .. s.done + c :
               new[j] = IF j <= s.done THEN s.buffer[j] ELSE part[j - s.done]
    <2>1. Len(s.buffer) = s.done
      BY <1>1 DEF Delivered
    <2> HIDE DEF new
    <2>2. /\ new \in Seq(Byte) /\ Len(new) = Len(s.buffer) + Len(part)
          /\ \A j \in 1 .. Len(s.buffer) + Len(part) :
                new[j] = IF j <= Len(s.buffer) THEN s.buffer[j] ELSE part[j - Len(s.buffer)]
      BY <1>1, <1>9, ConcatProperties, Zenon DEF new
    <2> QED BY <1>9, <2>1, <2>2
  <1> HIDE DEF new
  <1>11. ASSUME NEW j \in 1 .. s.done + c
         PROVE  LET i == h.cursor + j - 1
                IN  new[j] = disk[h.start + i \div BLOCK_SIZE][i % BLOCK_SIZE]
    <2>1. CASE j <= s.done
      <3>1. j \in 1 .. s.done
        BY <1>3, <2>1
      <3>2. new[j] = s.buffer[j]
        BY <1>10, <2>1
      <3> QED BY <1>1, <3>1, <3>2 DEF Delivered
    <2>2. CASE ~(j <= s.done)
      <3> DEFINE k == j - s.done
                 i == h.cursor + j - 1
                 o == off + k - 1
      <3>1. k \in 1 .. c /\ i \in Nat /\ o \in Offset /\ b \in Int /\ h.start \in Int
        BY <1>2, <1>3, <1>8, <2>2
      <3>2. new[j] = disk[b][o]
        BY <1>5, <1>9, <1>10, <2>2, <3>1
      <3>3. Place(h.start, b, o) = i
        <4>1. (b - h.start) * BLOCK_SIZE \in Int
          BY <1>2, <1>3, <1>7
        <4> QED BY <1>2, <1>3, <1>7, <3>1, <4>1 DEF Place
      <3> HIDE DEF i, o, k
      <3>4. b = h.start + i \div BLOCK_SIZE /\ o = i % BLOCK_SIZE
        BY <3>1, <3>3, PlaceIs
      <3> QED BY <3>2, <3>4 DEF i
    <2> QED BY <2>1, <2>2
  <1>12. t.done = s.done + c /\ t.buffer = new /\ t.temp = temp
    BY <1>6
  <1>13. Delivered(t.buffer, h, t.done)
    BY <1>10, <1>11, <1>12 DEF Delivered
  <1>14. t \in [done : 0 .. total, temp : BlockData, buffer : Seq(Byte)]
    BY <1>2, <1>3, <1>5, <1>6, <1>10
  <1> QED BY <1>2, <1>3, <1>12, <1>13, <1>14 DEF t, ReadState

LEMMA ReadLoopReads ==
    ASSUME disk \in [Block -> BlockData], NEW h, NEW total, Transfer(h, total),
           Reachable(h, total)
    PROVE  Delivered(ReadLoop(h, total), h, total)
  <1> DEFINE S == ReadState(h, total)
             s0 == [done |-> 0, temp |-> [o \in Offset |-> 0], buffer |-> <<>>]
             Turn(s) == IF s.done < total THEN ReadTurn(h, total, s) ELSE s
             T == [s \in S |-> Turn(s)]
             Loop(g) == g = [k \in 0 .. total |-> IF k = 0 THEN s0 ELSE Turn(g[k - 1])]
             after == CHOOSE g : Loop(g)
  <1>1. total \in Nat
    BY DEF Transfer
  <1>2. s0 \in S
    <2>1. Len(<<>>) = 0 /\ <<>> \in Seq(Byte) /\ 1 .. 0 = {}
      OBVIOUS
    <2>2. Delivered(s0.buffer, h, s0.done)
      BY <2>1 DEF Delivered
    <2> QED BY <1>1, <2>1, <2>2, DiskOK DEF ReadState, BlockData
  <1>3. ASSUME NEW s \in S
        PROVE  /\ Turn(s) \in S
               /\ s.done < total => Turn(s).done > s.done
               /\ s.done = total => Turn(s).done = total
    <2>1. CASE s.done < total
      <3>1. Turn(s) = ReadTurn(h, total, s) /\ s.done # total
        BY <1>1, <2>1
      <3> QED BY <2>1, <3>1, ReadTurnReads
    <2>2. CASE ~(s.done < total)
      BY <2>2
    <2> QED BY <2>1, <2>2
  <1> HIDE DEF Turn, s0, S
  <1>4. T \in [S -> S]
    BY <1>3
  <1>5. \E g : Loop(g)
    <2>1. \E g : Turns(total, S, T, s0, g)
      <3> HIDE DEF T
      <3> QED BY <1>1, <1>2, <1>4, LoopExists
    <2>2. PICK g : Turns(total, S, T, s0, g)
      BY <2>1
    <2>3. \A k \in 0 .. total : g[k] = IF k = 0 THEN s0 ELSE Turn(g[k - 1])
      <3>1. \A k \in 1 .. total : k - 1 \in 0 .. total
        BY <1>1
      <3>2. /\ \A k \in 0 .. total : g[k] \in S
            /\ g[0] = s0
            /\ \A k \in 1 .. total : g[k] = T[g[k - 1]]
        BY <2>2 DEF Turns
      <3>3. \A k \in 1 .. total : T[g[k - 1]] = Turn(g[k - 1])
        BY <3>1, <3>2
      <3> HIDE DEF T
      <3> QED BY <1>1, <3>2, <3>3
    <2>4. g = [k \in 0 .. total |-> g[k]]
      BY <2>2 DEF Turns
    <2> QED BY <2>3, <2>4
  <1>6. Loop(after)
    BY <1>5, Zenon
  <1>7. ReadLoop(h, total) = after[total].buffer
    BY Zenon DEF ReadLoop, Turn, s0
  <1> HIDE DEF after
  <1>8. after[0] = s0 /\ \A k \in 1 .. total : after[k] = Turn(after[k - 1])
    <2>1. \A k \in 0 .. total : after[k] = IF k = 0 THEN s0 ELSE Turn(after[k - 1])
      BY <1>6, Zenon
    <2> QED BY <1>1, <2>1
  <1>9. after[total] \in S /\ after[total].done = total
    <2>1. ASSUME NEW s \in S PROVE s.done \in 0 .. total
      BY DEF S, ReadState
    <2>2. ASSUME NEW k \in 1 .. total, after[k - 1] \in S
          PROVE  /\ after[k] \in S
                 /\ after[k - 1].done < total => after[k].done > after[k - 1].done
                 /\ after[k - 1].done = total => after[k].done = total
      BY <1>3, <1>8, <2>2, Zenon
    <2> QED BY <1>1, <1>2, <1>8, <2>1, <2>2, LoopEnds
  <1> QED BY <1>7, <1>9 DEF S, ReadState

-----------------------------------------------------------------------------
(***************************************************************************)
(* Types, for all sizes, those that wrap included.                         *)
(***************************************************************************)
\* As it stands TypeOK does not say for whom there are tables.
TypeInv == TypeOK /\ fdTable \in [Pid -> [Fd -> Handle]]

LEMMA HandleKinds ==
    ASSUME NEW h \in Handle
    PROVE  \/ h = NoHandle /\ h.kind = "none"
           \/ \E k \in 0 .. NumConsoles - 1 : h = ConsoleHandle(k) /\ h.kind = "console"
           \/ /\ h \in [kind : {"file"}, name : Name, start : 0 .. NUM_DISK_BLOCKS,
                        fileSize : Size, cursor : Nat]
              /\ h.kind = "file" /\ h.start \in Nat /\ h.fileSize \in Nat
              /\ h.cursor \in Nat
  <1>1. ASSUME h \in [kind : {"file"}, name : Name, start : 0 .. NUM_DISK_BLOCKS,
                      fileSize : Size, cursor : Nat]
        PROVE  h.kind = "file" /\ h.start \in Nat /\ h.fileSize \in Nat /\ h.cursor \in Nat
    <2>1. h.kind = "file" /\ h.start \in 0 .. NUM_DISK_BLOCKS /\ h.fileSize \in Size
          /\ h.cursor \in Nat
      BY <1>1
    <2>2. \A k \in 0 .. NUM_DISK_BLOCKS : k \in Nat
      OBVIOUS
    <2>3. h.fileSize \in Nat
      BY <2>1, SizesAreNatural
    <2> QED BY <2>1, <2>2, <2>3
  <1>2. h = NoHandle => h.kind = "none"
    BY DEF NoHandle
  <1>3. ASSUME NEW k \in 0 .. NumConsoles - 1, h = ConsoleHandle(k)
        PROVE  h.kind = "console"
    BY <1>3 DEF ConsoleHandle
  <1> QED BY <1>1, <1>2, <1>3 DEF Handle

LEMMA TruncatedBounds ==
    ASSUME NEW h, h.cursor \in Nat, h.fileSize \in Nat, NEW count \in Nat
    PROVE  /\ Truncated(h, count) \in 0 .. count
           /\ h.cursor <= h.fileSize =>
                 /\ h.cursor + Truncated(h, count) <= h.fileSize
                 /\ Truncated(h, count) = IF count < h.fileSize - h.cursor
                                            THEN count ELSE h.fileSize - h.cursor
  BY DEF Truncated, Lesser

LEMMA TypePut ==
    ASSUME TypeInv, NEW p \in Pid, NEW f \in Fd, NEW h \in Handle,
           fdTable' = [fdTable EXCEPT ![p][f] = h]
    PROVE  fdTable' \in [Pid -> [Fd -> Handle]]
  BY DEF TypeInv

LEMMA InitTypes == Init => TypeInv
  <1> SUFFICES ASSUME Init PROVE TypeInv
    OBVIOUS
  <1>1. \A f \in Fd : f < NumConsoles => f \in 0 .. NumConsoles - 1
    BY DiskOK DEF Fd
  <1>2. \A f \in Fd : NewTable[f] \in Handle
    BY <1>1 DEF NewTable, Handle
  <1>3. NewTable \in [Fd -> Handle]
    BY <1>2 DEF NewTable
  <1>4. fdTable \in [Pid -> [Fd -> Handle]]
    BY <1>3 DEF Init
  <1>5. disk \in [Block -> BlockData]
    BY DiskOK DEF Init, BlockData
  <1>6. fileTable \in [Name -> FileMetadata \cup {NoFile}]
    BY DEF Init
  <1> HIDE DEF Handle, NewTable
  <1> QED BY <1>4, <1>5, <1>6, DiskOK DEF Init, TypeInv, TypeOK

\* A transfer on an open file.
LEMMA TransferOK ==
    ASSUME TypeInv, NEW p \in Pid, NEW fd, NEW count \in Nat,
           getFileHandle(p, fd).kind = "file"
    PROVE  LET h == getFileHandle(p, fd)
           IN  /\ fd \in Fd /\ h = fdTable[p][fd]
               /\ h.cursor \in Nat /\ h.fileSize \in Nat
               /\ Transfer(h, Truncated(h, count))
               /\ Truncated(h, count) <= count
               /\ Advance(p, fd, Truncated(h, count))
                     => fdTable' \in [Pid -> [Fd -> Handle]]
  <1> DEFINE h == fdTable[p][fd]
             n == Truncated(h, count)
             moved == [h EXCEPT !.cursor = h.cursor + n]
  <1>1. fd \in Fd /\ getFileHandle(p, fd) = h
    BY DEF getFileHandle, NoHandle
  <1>2. h \in Handle
    BY <1>1 DEF TypeInv
  <1>3. /\ h \in [kind : {"file"}, name : Name, start : 0 .. NUM_DISK_BLOCKS,
                  fileSize : Size, cursor : Nat]
        /\ h.start \in Nat /\ h.fileSize \in Nat /\ h.cursor \in Nat
    BY <1>1, <1>2, HandleKinds
  <1>4. n \in Nat /\ n <= count
    BY <1>3, TruncatedBounds
  <1>5. ASSUME Advance(p, fd, n) PROVE fdTable' \in [Pid -> [Fd -> Handle]]
    <2>1. fdTable' = [fdTable EXCEPT ![p][fd] = moved]
      BY <1>5 DEF Advance
    <2>2. moved \in Handle
      BY <1>3, <1>4 DEF Handle
    <2> HIDE DEF moved
    <2> QED BY <1>1, <2>1, <2>2, TypePut
  <1> QED BY <1>1, <1>3, <1>4, <1>5 DEF Transfer

LEMMA NextTypes == TypeInv /\ [Next]_vars => TypeInv'
  <1> SUFFICES ASSUME TypeInv, [Next]_vars PROVE TypeInv'
    OBVIOUS
  <1>0. /\ TypeOK
        /\ fdTable \in [Pid -> [Fd -> Handle]]
        /\ fileTable \in [Name -> FileMetadata \cup {NoFile}]
        /\ freeBlockPointer \in 0 .. NUM_DISK_BLOCKS
        /\ disk \in [Block -> BlockData]
        /\ allocationMap \subseteq Slot
        /\ result.value \in Int
    BY DEF TypeInv, TypeOK
  <1>1. ASSUME NEW v, Returns(v), v \in Int PROVE result'.value \in Int
    BY <1>1 DEF Returns
  <1>2. NoHandle \in Handle
    BY DEF Handle
  <1>3. ASSUME fdTable' \in [Pid -> [Fd -> Handle]],
               fileTable' \in [Name -> FileMetadata \cup {NoFile}],
               freeBlockPointer' \in 0 .. NUM_DISK_BLOCKS,
               disk' \in [Block -> BlockData],
               allocationMap' \subseteq Slot,
               result'.value \in Int
        PROVE  TypeInv'
    <2> HIDE DEF Handle
    <2> QED BY <1>3 DEF TypeInv, TypeOK
  <1>4. ASSUME NEW p \in Pid, Recycle(p) PROVE TypeInv'
    <2>1. Recycled(fdTable[p]) \in [Fd -> Handle]
      BY <1>0, <1>2 DEF Recycled
    <2>2. fdTable' \in [Pid -> [Fd -> Handle]]
      BY <1>0, <1>4, <2>1 DEF Recycle
    <2> QED BY <1>0, <1>3, <1>4, <2>2 DEF Recycle
  <1>5. ASSUME NEW p \in Pid, NEW n \in Name, Open(p, n) PROVE TypeInv'
    <2>1. CASE Returns(Error) /\ UNCHANGED fdTable
      <3>1. result'.value \in Int
        BY <1>1, <2>1 DEF Error
      <3> QED BY <1>0, <1>3, <1>5, <2>1, <3>1 DEF Open
    <2>2. ASSUME NEW fd \in Free(p), fileTable[n] # NoFile, Returns(fd),
                 fdTable' = [fdTable EXCEPT ![p][fd] = DiskFileHandle(n)]
          PROVE  TypeInv'
      <3>1. fd \in Fd /\ fd \in Int
        BY DEF Free, Fd
      <3>2. fileTable[n] \in FileMetadata
        BY <1>0, <2>2
      <3>3. DiskFileHandle(n) \in Handle
        BY <3>2 DEF DiskFileHandle, Handle, FileMetadata
      <3>4. fdTable' \in [Pid -> [Fd -> Handle]]
        <4> HIDE DEF DiskFileHandle, Handle
        <4> QED BY <2>2, <3>1, <3>3, TypePut
      <3>5. result'.value \in Int
        BY <1>1, <2>2, <3>1
      <3> QED BY <1>0, <1>3, <1>5, <3>4, <3>5 DEF Open
    <2> QED BY <1>5, <2>1, <2>2 DEF Open
  <1>6. ASSUME NEW p \in Pid, NEW fd, Close(p, fd) PROVE TypeInv'
    <2>1. fdTable' \in [Pid -> [Fd -> Handle]]
      <3>1. CASE getFileHandle(p, fd) # NoHandle /\ closeFileHandle(p, fd)
        BY <1>2, <3>1, TypePut DEF getFileHandle, closeFileHandle
      <3> QED BY <1>0, <1>6, <3>1 DEF Close
    <2>2. result'.value \in Int
      BY <1>1, <1>6 DEF Close
    <2> QED BY <1>0, <1>3, <1>6, <2>1, <2>2 DEF Close
  <1>7. ASSUME NEW p \in Pid, NEW fd, NEW count \in 0 .. MaxCount, Read(p, fd, count)
        PROVE  TypeInv'
    <2> DEFINE h == getFileHandle(p, fd)
               n == Truncated(h, count)
    <2>1. count \in Nat
      BY DiskOK
    <2>2. CASE h = NoHandle /\ Returns(Error) /\ UNCHANGED fdTable
      <3>1. result'.value \in Int
        BY <1>1, <2>2 DEF Error
      <3> QED BY <1>0, <1>3, <1>7, <2>2, <3>1 DEF Read
    <2>3. CASE ReadConsole(h) /\ UNCHANGED fdTable
      <3>1. result'.value \in Int
        BY <2>3 DEF ReadConsole, Returns, Error, FromHost
      <3> QED BY <1>0, <1>3, <1>7, <2>3, <3>1 DEF Read
    <2>4. CASE /\ h.kind = "file"
               /\ Advance(p, fd, n)
               /\ result' = [value |-> n, data |-> ReadLoop(h, n)]
      <3>1. fdTable' \in [Pid -> [Fd -> Handle]] /\ n \in Int
        BY <2>1, <2>4, TransferOK DEF Transfer
      <3>2. result'.value \in Int
        BY <2>4, <3>1
      <3> QED BY <1>0, <1>3, <1>7, <3>1, <3>2 DEF Read
    <2> QED BY <1>7, <2>2, <2>3, <2>4 DEF Read
  <1>8. ASSUME NEW p \in Pid, NEW fd, NEW data \in Data, Write(p, fd, data)
        PROVE  TypeInv'
    <2> DEFINE h == getFileHandle(p, fd)
               n == Truncated(h, Len(data))
    <2>1. Len(data) \in Nat
      BY DataIsBytes, DiskOK
    <2>2. CASE h = NoHandle /\ Returns(Error) /\ UNCHANGED <<fdTable, disk>>
      <3>1. result'.value \in Int
        BY <1>1, <2>2 DEF Error
      <3> QED BY <1>0, <1>3, <1>8, <2>2, <3>1 DEF Write
    <2>3. CASE WriteConsole(h) /\ UNCHANGED <<fdTable, disk>>
      <3>1. result'.value \in Int
        BY <2>3 DEF WriteConsole, Returns, Error, FromHost
      <3> QED BY <1>0, <1>3, <1>8, <2>3, <3>1 DEF Write
    <2>4. CASE /\ h.kind = "file"
               /\ Advance(p, fd, n)
               /\ disk' = WriteLoop(h, data, n)
               /\ Returns(n)
      <3>1. fdTable' \in [Pid -> [Fd -> Handle]] /\ Transfer(h, n) /\ n <= Len(data)
        BY <2>1, <2>4, TransferOK
      <3>2. result'.value \in Int
        BY <1>1, <2>4, <3>1 DEF Transfer
      <3>3. disk' \in [Block -> BlockData]
        <4> HIDE DEF h, n
        <4> QED BY <1>0, <2>4, <3>1, WriteLoopWrites
      <3> QED BY <1>0, <1>3, <1>8, <3>1, <3>2, <3>3 DEF Write
    <2> QED BY <1>8, <2>2, <2>3, <2>4 DEF Write
  <1>9. ASSUME NEW n \in Name, NEW size \in Size, Create(n, size) PROVE TypeInv'
    <2>1. CASE Returns(Error) /\ UNCHANGED <<fileTable, freeBlockPointer>>
      <3>1. result'.value \in Int
        BY <1>1, <2>1 DEF Error
      <3> QED BY <1>0, <1>3, <1>9, <2>1, <3>1 DEF Create
    <2>2. CASE Fits(BlocksNeeded(size)) /\ createFile(n, size) /\ Returns(0)
      <3>1. result'.value \in Int
        BY <1>1, <2>2
      <3>2. BlocksNeeded(size) \in Nat
        <4>1. /\ size + BLOCK_SIZE - 1 \in Nat /\ SizeT \in Nat \ {0}
              /\ BLOCK_SIZE \in Nat \ {0}
          BY SizesAreNatural, DiskOK
        <4>2. (size + BLOCK_SIZE - 1) % SizeT \in Nat
          BY <4>1
        <4> QED BY <4>1, <4>2, DivBounds DEF BlocksNeeded
      <3>3. freeBlockPointer' \in 0 .. NUM_DISK_BLOCKS
        BY <1>0, <2>2, <3>2, DiskOK DEF createFile, Fits
      <3>4. fileTable' \in [Name -> FileMetadata \cup {NoFile}]
        BY <1>0, <2>2 DEF createFile, FileMetadata
      <3> QED BY <1>0, <1>3, <1>9, <3>1, <3>3, <3>4 DEF Create
    <2> QED BY <1>9, <2>1, <2>2 DEF Create
  <1>10. ASSUME NEW page \in Page, swapOut(page) PROVE TypeInv'
    <2>1. page \in BlockData
      BY DiskOK DEF BlockData, Offset
    <2>2. PICK slot \in FreeSlot : /\ disk' = writeBlock(disk, SwapBlock(slot), page)
                                   /\ allocationMap' = allocationMap \cup {slot}
      BY <1>10 DEF swapOut
    <2>3. disk' \in [Block -> BlockData]
      BY <1>0, <2>1, <2>2 DEF writeBlock
    <2>4. allocationMap' \subseteq Slot
      BY <1>0, <2>2 DEF FreeSlot
    <2> QED BY <1>0, <1>3, <1>10, <2>3, <2>4 DEF swapOut
  <1>11. ASSUME NEW slot, swapIn(slot) PROVE TypeInv'
    BY <1>0, <1>3, <1>11 DEF swapIn
  <1>12. CASE UNCHANGED vars
    BY <1>0, <1>3, <1>12 DEF vars
  <1> HIDE DEF TypeInv
  <1> QED BY <1>4, <1>5, <1>6, <1>7, <1>8, <1>9, <1>10, <1>11, <1>12, Zenon DEF Next

\* Whatever is created, opened, transferred or swapped, sizes that wrap
\* included, the tables hold what they are declared to hold, the allocator stays
\* on the disk, and the loops hand whole blocks to it.
THEOREM TypeCorrect == Spec => []TypeOK
  <1>1. TypeInv => TypeOK
    BY DEF TypeInv
  <1> QED BY <1>1, InitTypes, NextTypes, PTL DEF Spec

-----------------------------------------------------------------------------
(***************************************************************************)
(* Files as byte arrays.                                                   *)
(***************************************************************************)
\* No file reaches the swap area.  The code does not see to it.
BelowSwap == freeBlockPointer <= SwapBlock(0)

\* What no file has been given, and no page, is as it was at first.
Blank ==
    \A b \in Block :
       freeBlockPointer <= b /\ b < SwapBlock(0) => disk[b] = [o \in Offset |-> 0]

StoreInv == Inv /\ TypeInv /\ Blank

\* Where the bytes of a file are.
LEMMA FileBlocks ==
    ASSUME NoWrap, Inv, NEW n \in Files
    PROVE  /\ fileTable[n].startBlock \in Nat
           /\ fileTable[n].sizeBytes \in Size /\ fileTable[n].sizeBytes \in Nat
           /\ EndOf(fileTable[n]) \in Nat
           /\ EndOf(fileTable[n]) <= freeBlockPointer
           /\ freeBlockPointer \in 0 .. NUM_DISK_BLOCKS /\ NUM_DISK_BLOCKS \in Nat
           /\ \A k \in 0 .. fileTable[n].sizeBytes - 1 :
                 /\ fileTable[n].startBlock + k \div BLOCK_SIZE
                       \in fileTable[n].startBlock .. EndOf(fileTable[n]) - 1
                 /\ fileTable[n].startBlock + k \div BLOCK_SIZE \in Block
                 /\ k % BLOCK_SIZE \in Offset
  <1> DEFINE meta == fileTable[n]
  <1>1. meta \in Metadata /\ EndOf(meta) <= freeBlockPointer
        /\ freeBlockPointer \in 0 .. NUM_DISK_BLOCKS /\ NUM_DISK_BLOCKS \in Nat
    BY DiskOK DEF Inv, BlocksInv, Files
  <1>2. meta.startBlock \in Nat /\ meta.sizeBytes \in Size /\ meta.sizeBytes \in Nat
    BY <1>1, SizesAreNatural DEF Metadata
  <1>3. /\ BlocksNeeded(meta.sizeBytes) \in Nat
        /\ \A i \in 0 .. meta.sizeBytes - 1 : i \div BLOCK_SIZE
              \in 0 .. BlocksNeeded(meta.sizeBytes) - 1
    BY <1>2, EnoughBlocks
  <1> HIDE DEF meta, BlocksNeeded
  <1>4. EndOf(meta) \in Nat
    BY <1>2, <1>3 DEF EndOf
  <1>5. ASSUME NEW k \in 0 .. meta.sizeBytes - 1
        PROVE  /\ meta.startBlock + k \div BLOCK_SIZE \in meta.startBlock .. EndOf(meta) - 1
               /\ meta.startBlock + k \div BLOCK_SIZE \in Block
               /\ k % BLOCK_SIZE \in Offset
    <2> DEFINE q == k \div BLOCK_SIZE
    <2>1. k \in Nat /\ BLOCK_SIZE \in Nat \ {0}
      BY <1>2, DiskOK
    <2>2. k % BLOCK_SIZE \in Offset
      BY <2>1, DivMod DEF Offset
    <2>3. q \in 0 .. BlocksNeeded(meta.sizeBytes) - 1
      BY <1>3
    <2> HIDE DEF q
    <2>4. /\ meta.startBlock + q \in meta.startBlock .. EndOf(meta) - 1
          /\ meta.startBlock + q \in Block
      BY <1>1, <1>2, <1>3, <1>4, <2>3 DEF EndOf, Block
    <2> QED BY <2>2, <2>4 DEF q
  <1> QED BY <1>1, <1>2, <1>4, <1>5 DEF meta

\* A handle of a file in a descriptor table, and a transfer on it.
LEMMA OpenFile ==
    ASSUME NoWrap, StoreInv, NEW p \in Pid, NEW fd, NEW count \in Nat,
           getFileHandle(p, fd).kind = "file"
    PROVE  LET h == fdTable[p][fd]
               n == Truncated(h, count)
           IN  /\ fd \in Fd /\ getFileHandle(p, fd) = h
               /\ h.name \in Files
               /\ h.start = fileTable[h.name].startBlock
               /\ h.fileSize = fileTable[h.name].sizeBytes
               /\ h.cursor \in Nat /\ h.fileSize \in Nat /\ h.cursor <= h.fileSize
               /\ n \in Nat /\ n <= count /\ h.cursor + n <= h.fileSize
               /\ n = Lesser(count, h.fileSize - h.cursor)
               /\ Transfer(h, n)
               /\ Reachable(h, n)
  <1> DEFINE h == fdTable[p][fd]
             n == Truncated(h, count)
  <1>1. fd \in Fd /\ getFileHandle(p, fd) = h
    BY DEF getFileHandle, NoHandle
  <1>2. OnFile(h)
    BY <1>1 DEF StoreInv, Inv, HandlesInv, HandleOK
  <1>3. h.name \in Name /\ h.cursor \in Nat /\ h.start \in Nat /\ h.fileSize \in Nat
    BY <1>2, SizesAreNatural DEF OnFile, FileHandle
  <1>4. fileTable[h.name] # NoFile
    <2>1. fileTable[h.name].exists
      BY <1>2 DEF OnFile, Metadata
    <2>2. ~NoFile.exists
      BY DEF NoFile
    <2> QED BY <2>1, <2>2
  <1>5. n \in 0 .. count /\ h.cursor + n <= h.fileSize
        /\ n = Lesser(count, h.fileSize - h.cursor)
    BY <1>2, <1>3, TruncatedBounds DEF OnFile, Lesser
  <1>6. h.name \in Files /\ h.start = fileTable[h.name].startBlock
        /\ h.fileSize = fileTable[h.name].sizeBytes /\ h.cursor <= h.fileSize
    BY <1>2, <1>3, <1>4 DEF Files, OnFile
  <1>7. \A k \in 0 .. h.fileSize - 1 : h.start + k \div BLOCK_SIZE \in Block
    BY <1>6, FileBlocks DEF StoreInv
  <1> HIDE DEF h, n
  <1>8. Reachable(h, n)
    BY <1>3, <1>5, <1>7 DEF Reachable
  <1>9. n \in Nat /\ n <= count
    BY <1>5
  <1>10. Transfer(h, n)
    BY <1>3, <1>9 DEF Transfer
  <1> QED BY <1>1, <1>3, <1>5, <1>6, <1>8, <1>9, <1>10, Zenon DEF h, n

\* Byte k of file n.
ByteAt(n, k) == disk[fileTable[n].startBlock + k \div BLOCK_SIZE][k % BLOCK_SIZE]

\* A transfer to a file changes the bytes it names, and none of another file.
LEMMA BytesWritten ==
    ASSUME NoWrap, StoreInv, NEW h, NEW n \in Nat, NEW data, h.name \in Files,
           h.start = fileTable[h.name].startBlock, h.cursor \in Nat,
           h.cursor + n <= fileTable[h.name].sizeBytes,
           UNCHANGED fileTable, Written(disk', h, data, n)
    PROVE  /\ \A b \in Block, o \in Offset :
                 freeBlockPointer <= b => disk'[b][o] = disk[b][o]
           /\ \A m \in Files : \A k \in 0 .. fileTable[m].sizeBytes - 1 :
                 ByteAt(m, k)' = IF m = h.name /\ k - h.cursor \in 0 .. n - 1
                                   THEN data[k - h.cursor + 1] ELSE ByteAt(m, k)
  <1> DEFINE start == h.start
             end == EndOf(fileTable[h.name])
  <1>1. /\ start \in Nat /\ end \in Nat /\ freeBlockPointer \in Nat /\ end <= freeBlockPointer
        /\ \A k \in 0 .. fileTable[h.name].sizeBytes - 1 :
              start + k \div BLOCK_SIZE \in start .. end - 1
        /\ fileTable[h.name].sizeBytes \in Nat
    BY FileBlocks DEF StoreInv
  <1> HIDE DEF end
  <1>2. ASSUME NEW b \in Block, NEW o \in Offset, b \notin start .. end - 1
        PROVE  disk'[b][o] = disk[b][o]
    <2> DEFINE place == Place(start, b, o)
               j == place - h.cursor
    <2>1. b \in Int /\ o \in Int
      BY DEF Block, Offset
    <2>2. place \in Int
      <3>1. start \in Int
        BY <1>1
      <3> HIDE DEF start
      <3> QED BY <2>1, <3>1, PlaceIsInt
    <2>3. ASSUME j \in 0 .. n - 1 PROVE FALSE
      <3> HIDE DEF place
      <3>1. place \in 0 .. fileTable[h.name].sizeBytes - 1 /\ place \in Nat
        BY <1>1, <2>2, <2>3
      <3>2. b = start + place \div BLOCK_SIZE
        BY <1>1, <2>1, <3>1, PlaceIs DEF place
      <3> QED BY <1>1, <1>2, <3>1, <3>2
    <2> QED BY <2>3 DEF Written
  <1>3. \A b \in Block, o \in Offset : freeBlockPointer <= b => disk'[b][o] = disk[b][o]
    <2> SUFFICES ASSUME NEW b \in Block, NEW o \in Offset, freeBlockPointer <= b
                 PROVE  b \notin start .. end - 1
      BY <1>2
    <2> QED BY <1>1 DEF Block
  <1>4. ASSUME NEW m \in Files, NEW k \in 0 .. fileTable[m].sizeBytes - 1
        PROVE  ByteAt(m, k)' = IF m = h.name /\ k - h.cursor \in 0 .. n - 1
                                 THEN data[k - h.cursor + 1] ELSE ByteAt(m, k)
    <2> DEFINE b == fileTable[m].startBlock + k \div BLOCK_SIZE
               o == k % BLOCK_SIZE
    <2>1. /\ fileTable[m].startBlock \in Nat /\ EndOf(fileTable[m]) \in Nat
          /\ fileTable[m].sizeBytes \in Nat
          /\ b \in fileTable[m].startBlock .. EndOf(fileTable[m]) - 1
          /\ b \in Block /\ o \in Offset
      BY FileBlocks DEF StoreInv
    <2>2. ByteAt(m, k) = disk[b][o] /\ ByteAt(m, k)' = disk'[b][o]
      BY DEF ByteAt
    <2>3. CASE m = h.name
      <3>1. Place(start, b, o) = k
        <4>1. k \in Nat /\ b \in Int /\ b = start + k \div BLOCK_SIZE
          BY <1>1, <2>1, <2>3 DEF Block
        <4> HIDE DEF b, o
        <4> QED BY <1>1, <2>1, <4>1, PlaceOf DEF o
      <3> HIDE DEF b, o
      <3> QED BY <2>1, <2>2, <2>3, <3>1 DEF Written
    <2>4. CASE m # h.name
      <3>1. \/ EndOf(fileTable[m]) <= start
            \/ end <= fileTable[m].startBlock
        BY <2>4 DEF StoreInv, Inv, BlocksInv, end
      <3> HIDE DEF b, o
      <3>2. b \notin start .. end - 1
        BY <1>1, <2>1, <3>1
      <3> QED BY <1>2, <2>1, <2>2, <2>4, <3>2
    <2> QED BY <2>3, <2>4
  <1> QED BY <1>3, <1>4

LEMMA WriteBytes ==
    ASSUME NoWrap, StoreInv, NEW p \in Pid, NEW fd, NEW data \in Data,
           getFileHandle(p, fd).kind = "file", UNCHANGED fileTable,
           disk' = WriteLoop(fdTable[p][fd], data, Truncated(fdTable[p][fd], Len(data)))
    PROVE  LET h == fdTable[p][fd]
               n == Truncated(h, Len(data))
           IN  /\ \A b \in Block, o \in Offset :
                     freeBlockPointer <= b => disk'[b][o] = disk[b][o]
               /\ \A m \in Files : \A k \in 0 .. fileTable[m].sizeBytes - 1 :
                     ByteAt(m, k)' = IF m = h.name /\ k - h.cursor \in 0 .. n - 1
                                       THEN data[k - h.cursor + 1] ELSE ByteAt(m, k)
  <1> DEFINE h == fdTable[p][fd]
             n == Truncated(h, Len(data))
  <1>1. Len(data) \in Nat
    BY DataIsBytes, DiskOK
  <1>2. /\ h.name \in Files /\ h.start = fileTable[h.name].startBlock
        /\ h.fileSize = fileTable[h.name].sizeBytes
        /\ h.cursor \in Nat /\ n \in Nat /\ n <= Len(data) /\ h.cursor + n <= h.fileSize
        /\ Transfer(h, n) /\ Reachable(h, n)
    BY <1>1, OpenFile
  <1>3. disk \in [Block -> BlockData]
    BY DEF StoreInv, TypeInv, TypeOK
  <1> HIDE DEF h, n
  <1>4. disk' = WriteLoop(h, data, n)
    BY DEF h, n
  <1>5. Written(WriteLoop(h, data, n), h, data, n)
    BY <1>2, <1>3, WriteLoopWrites
  <1>6. Written(disk', h, data, n)
    BY <1>4, <1>5
  <1> QED BY <1>2, <1>6, BytesWritten DEF h, n

LEMMA StaysBlank ==
    ASSUME NoWrap, StoreInv, NEW newDisk \in [Block -> BlockData], disk' = newDisk,
           freeBlockPointer' \in Nat, freeBlockPointer <= freeBlockPointer',
           \A b \in Block, o \in Offset :
              freeBlockPointer <= b /\ b < SwapBlock(0) => disk'[b][o] = disk[b][o]
    PROVE  Blank'
  <1> SUFFICES ASSUME NEW b \in Block, freeBlockPointer' <= b, b < SwapBlock(0)
               PROVE  disk'[b] = [o \in Offset |-> 0]
    BY DEF Blank, SwapBlock
  <1>1. freeBlockPointer \in Nat /\ b \in Int
    BY DiskOK DEF StoreInv, Inv, BlocksInv, Block
  <1>2. freeBlockPointer <= b
    BY <1>1
  <1>3. disk[b] = [o \in Offset |-> 0]
    BY <1>2 DEF StoreInv, Blank
  <1>4. \A o \in Offset : disk'[b][o] = 0
    BY <1>2, <1>3
  <1>5. disk'[b] = [o \in Offset |-> disk'[b][o]]
    BY DEF BlockData
  <1> QED BY <1>4, <1>5

LEMMA NextBlank == NoWrap /\ StoreInv /\ [Next]_vars => StoreInv'
  <1> SUFFICES ASSUME NoWrap, StoreInv, [Next]_vars PROVE StoreInv'
    OBVIOUS
  <1>1. Inv' /\ TypeInv'
    BY NextInv, NextTypes DEF StoreInv
  <1>2. disk \in [Block -> BlockData] /\ disk' \in [Block -> BlockData]
    BY <1>1 DEF StoreInv, TypeInv, TypeOK
  <1>3. freeBlockPointer \in Nat /\ freeBlockPointer' \in Nat
    BY <1>1, DiskOK DEF StoreInv, Inv, BlocksInv
  <1>4. UNCHANGED <<freeBlockPointer, disk>> => Blank'
    BY DEF StoreInv, Blank, SwapBlock
  <1>5. ASSUME NEW p \in Pid, NEW fd, NEW data \in Data, Write(p, fd, data)
        PROVE  Blank'
    <2> DEFINE h == getFileHandle(p, fd)
    <2>1. UNCHANGED <<fileTable, freeBlockPointer>>
      BY <1>5 DEF Write
    <2>2. CASE UNCHANGED disk
      BY <1>4, <2>1, <2>2
    <2>3. CASE /\ h.kind = "file"
               /\ disk' = WriteLoop(h, data, Truncated(h, Len(data)))
      <3>1. h = fdTable[p][fd]
        BY <2>3 DEF getFileHandle, NoHandle
      <3>2. \A b \in Block, o \in Offset :
               freeBlockPointer <= b => disk'[b][o] = disk[b][o]
        BY <2>1, <2>3, <3>1, WriteBytes
      <3> QED BY <1>2, <1>3, <2>1, <3>2, StaysBlank
    <2> QED BY <1>5, <2>2, <2>3 DEF Write
  <1>6. ASSUME NEW n \in Name, NEW size \in Size, Create(n, size) PROVE Blank'
    <2>1. BlocksNeeded(size) \in Nat /\ UNCHANGED disk
      BY <1>6, EnoughBlocks DEF Create
    <2>2. freeBlockPointer <= freeBlockPointer'
      BY <1>3, <1>6, <2>1 DEF Create, createFile
    <2> QED BY <1>2, <1>3, <2>1, <2>2, StaysBlank
  <1>7. ASSUME NEW page \in Page, swapOut(page) PROVE Blank'
    <2>1. PICK slot \in FreeSlot : disk' = writeBlock(disk, SwapBlock(slot), page)
      BY <1>7 DEF swapOut
    <2>2. SwapBlock(slot) \in Int /\ SwapBlock(0) \in Int /\ SwapBlock(0) <= SwapBlock(slot)
      BY <2>1, DiskOK DEF FreeSlot, Slot, SwapBlock
    <2>3. \A b \in Block : b < SwapBlock(0) => disk'[b] = disk[b]
      BY <1>2, <2>1, <2>2 DEF writeBlock, Block
    <2>4. UNCHANGED freeBlockPointer
      BY <1>7 DEF swapOut
    <2> QED BY <1>2, <1>3, <2>3, <2>4, StaysBlank
  <1>8. ASSUME NEW p \in Pid, Recycle(p) PROVE Blank'
    BY <1>4, <1>8 DEF Recycle
  <1>9. ASSUME NEW p \in Pid, NEW n \in Name, Open(p, n) PROVE Blank'
    BY <1>4, <1>9 DEF Open
  <1>10. ASSUME NEW p \in Pid, NEW fd, Close(p, fd) PROVE Blank'
    BY <1>4, <1>10 DEF Close
  <1>11. ASSUME NEW p \in Pid, NEW fd, NEW count, Read(p, fd, count) PROVE Blank'
    BY <1>4, <1>11 DEF Read
  <1>12. ASSUME NEW slot, swapIn(slot) PROVE Blank'
    BY <1>4, <1>12 DEF swapIn
  <1>13. UNCHANGED vars => Blank'
    BY <1>4 DEF vars
  <1> HIDE DEF Blank
  <1>14. Blank'
    BY <1>5, <1>6, <1>7, <1>8, <1>9, <1>10, <1>11, <1>12, <1>13, Zenon DEF Next
  <1> QED BY <1>1, <1>14 DEF StoreInv

LEMMA InitStoreInv == Init => StoreInv
  <1>1. Init => Blank
    BY DEF Init, Blank
  <1> QED BY <1>1, InitInv, InitTypes DEF StoreInv

\* The state of FileStore that this state stands for.
filesOf == [n \in Files |-> Bytes(n)]
handlesOf == [p \in Pid |-> [f \in Fd |-> Position(fdTable[p][f])]]

LEMMA SameBytes ==
    ASSUME UNCHANGED fileTable,
           \A n \in Files :
              /\ fileTable[n].sizeBytes \in Nat
              /\ \A k \in 0 .. fileTable[n].sizeBytes - 1 : ByteAt(n, k)' = ByteAt(n, k)
    PROVE  filesOf' = filesOf
  <1>1. Files' = Files
    BY DEF Files
  <1>2. ASSUME NEW n \in Files PROVE Bytes(n)' = Bytes(n)
    <2>1. fileTable[n].sizeBytes \in Nat
      OBVIOUS
    <2>2. \A i \in 1 .. fileTable[n].sizeBytes : i - 1 \in 0 .. fileTable[n].sizeBytes - 1
      BY <2>1
    <2> QED BY <2>2 DEF Bytes, ByteAt
  <1> QED BY <1>1, <1>2 DEF filesOf

LEMMA SameHandles == UNCHANGED fdTable => handlesOf' = handlesOf
  BY DEF handlesOf, Position

\* A step that puts h into a table puts position x into the abstract one.
Puts(p, f, h) == fdTable' = [fdTable EXCEPT ![p][f] = h]
PutsPosition(p, f, x) == handlesOf' = [handlesOf EXCEPT ![p][f] = x]

LEMMA PutPosition ==
    ASSUME TypeInv, NEW p \in Pid, NEW f \in Fd, NEW h, Puts(p, f, h)
    PROVE  PutsPosition(p, f, Position(h))
  <1>1. \A q \in Pid, g \in Fd :
           fdTable'[q][g] = IF q = p /\ g = f THEN h ELSE fdTable[q][g]
    BY DEF TypeInv, Puts
  <1> HIDE DEF Position
  <1>2. handlesOf' = [q \in Pid |-> [g \in Fd |-> Position(fdTable'[q][g])]]
    BY DEF handlesOf, Position
  <1>3. \A q \in Pid, g \in Fd :
           Position(fdTable'[q][g]) = IF q = p /\ g = f THEN Position(h)
                                                      ELSE Position(fdTable[q][g])
    BY <1>1
  <1> QED BY <1>2, <1>3 DEF handlesOf, PutsPosition

\* A call that changes neither files nor positions.
LEMMA Refused ==
    ASSUME NEW v \in -2 .. 1, Returns(v), filesOf' = filesOf, handlesOf' = handlesOf
    PROVE  Store!Next
  <1>1. Store!Other(v)
    BY DEF Store!Other, Store!Returns, Returns, filesOf, handlesOf
  <1> QED BY <1>1 DEF Store!Next

LEMMA OpenMaps ==
    ASSUME NoWrap, StoreInv, NEW p \in Pid, NEW n \in Name, Open(p, n),
           filesOf' = filesOf
    PROVE  Store!Next
  <1>1. CASE Returns(Error) /\ UNCHANGED fdTable
    BY <1>1, Refused, SameHandles DEF Error
  <1>2. ASSUME NEW fd \in Free(p), fileTable[n] # NoFile, Returns(fd),
               fdTable' = [fdTable EXCEPT ![p][fd] = DiskFileHandle(n)]
        PROVE  Store!Next
    <2>1. fd \in Fd /\ fdTable[p][fd] = NoHandle /\ n \in Files
      BY <1>2 DEF Free, Files
    <2>2. handlesOf[p][fd] = Store!Closed
      BY <2>1 DEF handlesOf, Position, NoHandle, Store!Closed
    <2>3. handlesOf' = [handlesOf EXCEPT ![p][fd] = Position(DiskFileHandle(n))]
      <3>1. TypeInv
        BY DEF StoreInv
      <3>2. Puts(p, fd, DiskFileHandle(n))
        BY <1>2 DEF Puts
      <3>3. PutsPosition(p, fd, Position(DiskFileHandle(n)))
        BY <2>1, <3>1, <3>2, PutPosition, Zenon
      <3> QED BY <3>3 DEF PutsPosition
    <2>4. Position(DiskFileHandle(n)) = Store!At(n, 0)
      BY DEF Position, DiskFileHandle, Store!At
    <2>5. Store!Open(p, fd, n)
      BY <1>2, <2>1, <2>2, <2>3, <2>4
         DEF Store!Open, Store!Returns, Returns, filesOf, handlesOf
    <2> QED BY <2>1, <2>5 DEF Store!Next
  <1> QED BY <1>1, <1>2 DEF Open

LEMMA CloseMaps ==
    ASSUME NoWrap, StoreInv, NEW p \in Pid, NEW fd, Close(p, fd), filesOf' = filesOf
    PROVE  Store!Next
  <1>1. CASE Returns(1) /\ UNCHANGED fdTable
    BY <1>1, Refused, SameHandles
  <1>2. CASE getFileHandle(p, fd) # NoHandle /\ closeFileHandle(p, fd) /\ Returns(0)
    <2> DEFINE h == fdTable[p][fd]
    <2>1. fd \in Fd /\ h # NoHandle /\ fdTable' = [fdTable EXCEPT ![p][fd] = NoHandle]
      BY <1>2 DEF getFileHandle, closeFileHandle
    <2>2. Position(h) # Store!Closed
      <3>1. CASE h.kind = "file"
        <4>1. Position(h).kind = "file"
          BY <3>1 DEF Position
        <4>2. (Store!Closed).kind = "none"
          BY DEF Store!Closed
        <4> QED BY <4>1, <4>2
      <3>2. CASE h.kind # "file"
        BY <2>1, <3>2 DEF Position, NoHandle, Store!Closed
      <3> QED BY <3>1, <3>2
    <2>3. handlesOf[p][fd] = Position(h)
      BY <2>1 DEF handlesOf
    <2>4. handlesOf' = [handlesOf EXCEPT ![p][fd] = Position(NoHandle)]
      BY <2>1, PutPosition DEF StoreInv, Puts, PutsPosition
    <2>5. Position(NoHandle) = Store!Closed
      BY DEF Position, NoHandle, Store!Closed
    <2>6. Store!Close(p, fd)
      BY <1>2, <2>2, <2>3, <2>4, <2>5
         DEF Store!Close, Store!Returns, Returns, filesOf, handlesOf
    <2> QED BY <2>1, <2>6 DEF Store!Next
  <1> QED BY <1>1, <1>2 DEF Close

LEMMA RecycleMaps ==
    ASSUME NoWrap, StoreInv, NEW p \in Pid, Recycle(p), filesOf' = filesOf
    PROVE  Store!Next
  <1>1. fdTable' = [fdTable EXCEPT ![p] = Recycled(fdTable[p])] /\ UNCHANGED result
    BY DEF Recycle
  <1>2. \A q \in Pid, f \in Fd :
           fdTable'[q][f] = IF q = p THEN Recycled(fdTable[p])[f] ELSE fdTable[q][f]
    BY <1>1 DEF StoreInv, TypeInv
  <1>3. \A f \in Fd : f \in 0 .. NumConsoles - 1 <=> f < NumConsoles
    BY DiskOK DEF Fd
  <1>4. Position(NoHandle) = Store!Closed
    BY DEF Position, NoHandle, Store!Closed
  <1>5. \A q \in Pid, f \in Fd :
           Position(fdTable'[q][f]) =
              IF q = p /\ f \notin 0 .. NumConsoles - 1
                THEN Store!Closed ELSE Position(fdTable[q][f])
    <2> HIDE DEF Position
    <2> QED BY <1>2, <1>3, <1>4 DEF Recycled
  <1> HIDE DEF Position, Store!Closed
  <1>6. handlesOf' = [q \in Pid |-> [f \in Fd |-> Position(fdTable'[q][f])]]
    BY DEF handlesOf, Position
  <1>7. handlesOf' = [handlesOf EXCEPT ![p] =
                        [f \in Fd |-> IF f \in 0 .. NumConsoles - 1
                                        THEN handlesOf[p][f] ELSE Store!Closed]]
    BY <1>5, <1>6 DEF handlesOf
  <1>8. Store!Recycle(p)
    BY <1>1, <1>7 DEF Store!Recycle, filesOf, handlesOf
  <1> QED BY <1>8 DEF Store!Next

LEMMA UntouchedFiles == UNCHANGED <<fileTable, disk>> => filesOf' = filesOf
  BY DEF filesOf, Files, Bytes

\* A new file is all zeros: its blocks are blank.
LEMMA CreateMaps ==
    ASSUME NoWrap, StoreInv, BelowSwap', NEW n \in Name, NEW size \in Size,
           Create(n, size)
    PROVE  Store!Next
  <1>0. UNCHANGED disk /\ handlesOf' = handlesOf
    BY SameHandles DEF Create
  <1>1. CASE Returns(Error) /\ UNCHANGED <<fileTable, freeBlockPointer>>
    BY <1>0, <1>1, UntouchedFiles, Refused DEF Error
  <1>2. CASE fileTable[n] = NoFile /\ Fits(BlocksNeeded(size)) /\ createFile(n, size)
             /\ Returns(0)
    <2> DEFINE needed == BlocksNeeded(size)
               meta == [exists |-> TRUE, startBlock |-> freeBlockPointer,
                        sizeBytes |-> size]
    <2>1. /\ needed \in Nat /\ size \in Nat
          /\ \A k \in 0 .. size - 1 : k \div BLOCK_SIZE \in 0 .. needed - 1
      BY EnoughBlocks, SizesAreNatural
    <2>2. /\ freeBlockPointer \in Nat /\ NUM_DISK_BLOCKS \in Nat /\ SwapBlock(0) \in Int
          /\ fileTable \in [Name -> Metadata \cup {NoFile}]
      BY DiskOK DEF StoreInv, Inv, BlocksInv, SwapBlock
    <2> HIDE DEF needed
    <2>3. /\ freeBlockPointer + needed <= NUM_DISK_BLOCKS
          /\ freeBlockPointer + needed <= SwapBlock(0)
      BY <1>2, <2>2 DEF BelowSwap, SwapBlock, createFile, Fits, needed
    <2>4. \A k \in 0 .. size - 1 :
             disk[freeBlockPointer + k \div BLOCK_SIZE][k % BLOCK_SIZE] = 0
      <3> SUFFICES ASSUME NEW k \in 0 .. size - 1
                   PROVE  disk[freeBlockPointer + k \div BLOCK_SIZE][k % BLOCK_SIZE] = 0
        OBVIOUS
      <3> DEFINE q == k \div BLOCK_SIZE
      <3>1. q \in 0 .. needed - 1
        BY <2>1
      <3>2. k % BLOCK_SIZE \in Offset
        <4>1. k \in Nat /\ BLOCK_SIZE \in Nat \ {0}
          BY <2>1, DiskOK
        <4> QED BY <4>1, DivMod DEF Offset
      <3> HIDE DEF q
      <3>3. /\ freeBlockPointer + q \in Block
            /\ freeBlockPointer <= freeBlockPointer + q
            /\ freeBlockPointer + q < SwapBlock(0)
        BY <2>1, <2>2, <2>3, <3>1 DEF Block
      <3>4. disk[freeBlockPointer + q] = [o \in Offset |-> 0]
        BY <3>3 DEF StoreInv, Blank
      <3> QED BY <3>2, <3>4 DEF q
    <2>5. /\ fileTable'[n] = meta
          /\ \A m \in Name : m # n => fileTable'[m] = fileTable[m]
      BY <1>2, <2>2 DEF createFile
    <2>6. meta # NoFile
      <3>1. meta.exists /\ ~NoFile.exists
        BY DEF NoFile
      <3> QED BY <3>1
    <2>7. Files' = Files \cup {n} /\ n \notin Files
      BY <1>2, <2>5, <2>6 DEF Files
    <2>8. Bytes(n)' = [i \in 1 .. size |-> 0]
      <3>1. \A i \in 1 .. size : i - 1 \in 0 .. size - 1
        BY <2>1
      <3> QED BY <1>0, <2>4, <2>5, <3>1 DEF Bytes
    <2>9. \A m \in Files : Bytes(m)' = Bytes(m)
      BY <1>0, <2>5, <2>7 DEF Bytes, Files
    <2> HIDE DEF meta
    <2>10. filesOf' = [m \in DOMAIN filesOf \cup {n} |->
                         IF m = n THEN [i \in 1 .. size |-> 0] ELSE filesOf[m]]
      <3> HIDE DEF Bytes
      <3> QED BY <2>7, <2>8, <2>9 DEF filesOf
    <2>11. n \notin DOMAIN filesOf
      BY <2>7 DEF filesOf
    <2>12. Store!Create(n, size)
      BY <1>0, <1>2, <2>10, <2>11 DEF Store!Create, Store!Returns, Returns, filesOf, handlesOf
    <2> QED BY <2>12 DEF Store!Next
  <1> QED BY <1>1, <1>2 DEF Create

\* A transfer moves a descriptor from one position to another.
\* The abstract handle is moved on by n bytes.
MovesOn(p, fd, n) ==
    LET h == fdTable[p][fd]
    IN  /\ handlesOf[p][fd] = Store!At(h.name, h.cursor)
        /\ handlesOf' = [handlesOf EXCEPT ![p][fd] = Store!At(h.name, h.cursor + n)]

LEMMA AdvanceMaps ==
    ASSUME NoWrap, StoreInv, NEW p \in Pid, NEW fd \in Fd, NEW n,
           fdTable[p][fd].kind = "file", Advance(p, fd, n)
    PROVE  MovesOn(p, fd, n)
  <1> DEFINE h == fdTable[p][fd]
             moved == [h EXCEPT !.cursor = h.cursor + n]
  <1>1. fdTable' = [fdTable EXCEPT ![p][fd] = moved]
    BY DEF Advance
  <1>2. h \in FileHandle
    BY DEF StoreInv, Inv, HandlesInv, HandleOK, OnFile
  <1>3. Position(moved) = Store!At(h.name, h.cursor + n)
    BY <1>2 DEF Position, Store!At, FileHandle
  <1>4. handlesOf[p][fd] = Store!At(h.name, h.cursor)
    BY DEF handlesOf, Position, Store!At
  <1> HIDE DEF moved, h
  <1>5. handlesOf' = [handlesOf EXCEPT ![p][fd] = Position(moved)]
    BY <1>1, PutPosition DEF StoreInv, Puts, PutsPosition
  <1> QED BY <1>3, <1>4, <1>5 DEF h, MovesOn

LEMMA Section ==
    ASSUME NEW s, NEW size \in Nat, DOMAIN s = 1 .. size, s = [i \in 1 .. size |-> s[i]],
           NEW c \in Nat, NEW n \in Nat, c + n <= size
    PROVE  /\ Len(s) = size
           /\ SubSeq(s, c + 1, c + n) = [j \in 1 .. n |-> s[c + j]]
  <1> DEFINE S == {s[i] : i \in 1 .. size}
  <1>1. s \in [1 .. size -> S]
    OBVIOUS
  <1> HIDE DEF S
  <1>2. s \in Seq(S) /\ Len(s) = size
    BY <1>1
  <1> DEFINE x == SubSeq(s, c + 1, c + n)
  <1>3. x = [j \in 1 .. (c + n) - (c + 1) + 1 |-> s[(c + 1) + j - 1]]
    BY DEF SubSeq
  <1>4. (c + n) - (c + 1) + 1 = n /\ \A j \in 1 .. n : (c + 1) + j - 1 = c + j
    OBVIOUS
  <1> QED BY <1>2, <1>3, <1>4

LEMMA BytesOf ==
    ASSUME NEW n
    PROVE  /\ DOMAIN Bytes(n) = 1 .. fileTable[n].sizeBytes
           /\ Bytes(n) = [i \in 1 .. fileTable[n].sizeBytes |-> Bytes(n)[i]]
  BY DEF Bytes

LEMMA ReadMaps ==
    ASSUME NoWrap, StoreInv, NEW p \in Pid, NEW fd, NEW count \in 0 .. MaxCount,
           Read(p, fd, count)
    PROVE  Store!Next
  <1> DEFINE h == fdTable[p][fd]
             n == Truncated(h, count)
             size == fileTable[h.name].sizeBytes
  <1>0. filesOf' = filesOf /\ count \in Nat
    BY UntouchedFiles, DiskOK DEF Read
  <1>1. CASE Returns(Error) /\ UNCHANGED fdTable
    BY <1>0, <1>1, SameHandles, Refused DEF Error
  <1>2. CASE ReadConsole(getFileHandle(p, fd)) /\ UNCHANGED fdTable
    <2>1. Returns(-2) \/ Returns(-1)
      BY <1>2 DEF ReadConsole, FromHost, Error
    <2> QED BY <1>0, <1>2, <2>1, SameHandles, Refused
  <1>3. CASE /\ getFileHandle(p, fd).kind = "file"
             /\ Advance(p, fd, Truncated(getFileHandle(p, fd), count))
             /\ result' = [value |-> Truncated(getFileHandle(p, fd), count),
                           data |-> ReadLoop(getFileHandle(p, fd),
                                             Truncated(getFileHandle(p, fd), count))]
    <2>1. /\ fd \in Fd /\ getFileHandle(p, fd) = h /\ h.name \in Files
          /\ h.start = fileTable[h.name].startBlock /\ h.fileSize = size
          /\ h.cursor \in Nat /\ size \in Nat /\ h.cursor <= size
          /\ n \in Nat /\ h.cursor + n <= size
          /\ n = Lesser(count, size - h.cursor)
          /\ Transfer(h, n) /\ Reachable(h, n)
      BY <1>0, <1>3, OpenFile
    <2>2. Delivered(ReadLoop(h, n), h, n)
      BY <2>1, ReadLoopReads DEF StoreInv, TypeInv, TypeOK
    <2>3. /\ handlesOf[p][fd] = Store!At(h.name, h.cursor)
          /\ handlesOf' = [handlesOf EXCEPT ![p][fd] = Store!At(h.name, h.cursor + n)]
      <3>1. fd \in Fd /\ getFileHandle(p, fd) = h
        BY <2>1
      <3>2. h.kind = "file" /\ Advance(p, fd, n)
        <4> HIDE DEF h
        <4> QED BY <1>3, <3>1, Zenon
      <3> HIDE DEF n
      <3>3. MovesOn(p, fd, n)
        BY <3>1, <3>2, AdvanceMaps, Zenon
      <3> QED BY <3>3 DEF MovesOn
    <2>4. result' = [value |-> n, data |-> ReadLoop(h, n)] /\ h.kind = "file"
      BY <1>3, <2>1
    <2>5. /\ filesOf[h.name] = Bytes(h.name)
          /\ Len(Bytes(h.name)) = size
          /\ SubSeq(Bytes(h.name), h.cursor + 1, h.cursor + n)
                = [j \in 1 .. n |-> Bytes(h.name)[h.cursor + j]]
      <3>1. filesOf[h.name] = Bytes(h.name)
        BY <2>1 DEF filesOf
      <3> HIDE DEF h, n
      <3> QED BY <2>1, <3>1, BytesOf, Section
    <2>6. ReadLoop(h, n) = SubSeq(Bytes(h.name), h.cursor + 1, h.cursor + n)
      <3> DEFINE x == ReadLoop(h, n)
                 c == h.cursor
      <3>1. x \in Seq(Byte) /\ Len(x) = n
        BY <2>2 DEF Delivered
      <3>2. x = [j \in 1 .. n |-> x[j]]
        BY <3>1
      <3>3. \A j \in 1 .. n : x[j] = Bytes(h.name)[c + j]
        <4> SUFFICES ASSUME NEW j \in 1 .. n PROVE x[j] = Bytes(h.name)[c + j]
          OBVIOUS
        <4>1. x[j] = disk[h.start + (c + j - 1) \div BLOCK_SIZE][(c + j - 1) % BLOCK_SIZE]
          BY <2>2 DEF Delivered
        <4> HIDE DEF x, h, n
        <4>2. c + j \in 1 .. size
          BY <2>1
        <4> DEFINE i == c + j
                   s == fileTable[h.name].startBlock
        <4>3. Bytes(h.name)[i] = disk[s + (i - 1) \div BLOCK_SIZE][(i - 1) % BLOCK_SIZE]
          <5> HIDE DEF i
          <5> QED BY <4>2 DEF Bytes, i
        <4> QED BY <2>1, <4>1, <4>3
      <3> QED BY <2>5, <3>2, <3>3
    <2> HIDE DEF n, h, size
    <2>7. Store!Read(p, fd, count)
      <3>1. Store!Lesser(count, size - h.cursor) = n
        BY <2>1 DEF Store!Lesser, Lesser
      <3>2. /\ handlesOf[p][fd].kind = "file"
            /\ handlesOf[p][fd].name = h.name
            /\ handlesOf[p][fd].cursor = h.cursor
        BY <2>3 DEF Store!At
      <3>3. /\ Store!Lesser(count, Len(filesOf[h.name]) - h.cursor) = n
            /\ result' = [value |-> n,
                          data |-> SubSeq(filesOf[h.name], h.cursor + 1, h.cursor + n)]
        BY <2>4, <2>5, <2>6, <3>1
      <3> QED BY <1>0, <2>3, <3>2, <3>3, Zenon DEF Store!Read, filesOf, handlesOf
    <2>8. \E d \in Data : Len(d) = count
      <3> DEFINE d == [i \in 1 .. count |-> 0]
      <3>1. d \in [1 .. count -> Byte]
        BY DiskOK
      <3>2. d \in Data /\ Len(d) = count
        BY <1>0, <3>1 DEF Data
      <3> QED BY <3>2
    <2> QED BY <2>1, <2>7, <2>8 DEF Store!Next
  <1> QED BY <1>1, <1>2, <1>3 DEF Read

LEMMA WriteMaps ==
    ASSUME NoWrap, StoreInv, NEW p \in Pid, NEW fd, NEW data \in Data,
           Write(p, fd, data)
    PROVE  Store!Next
  <1> DEFINE h == fdTable[p][fd]
             n == Truncated(h, Len(data))
  <1>0. UNCHANGED fileTable /\ Len(data) \in Nat
    BY DataIsBytes, DiskOK DEF Write
  <1>1. CASE Returns(Error) /\ UNCHANGED <<fdTable, disk>>
    BY <1>0, <1>1, UntouchedFiles, SameHandles, Refused DEF Error
  <1>2. CASE WriteConsole(getFileHandle(p, fd)) /\ UNCHANGED <<fdTable, disk>>
    <2>1. Returns(-2) \/ Returns(-1)
      BY <1>2 DEF WriteConsole, FromHost, Error
    <2> QED BY <1>0, <1>2, <2>1, UntouchedFiles, SameHandles, Refused
  <1>3. CASE /\ getFileHandle(p, fd).kind = "file"
             /\ Advance(p, fd, Truncated(getFileHandle(p, fd), Len(data)))
             /\ disk' = WriteLoop(getFileHandle(p, fd), data,
                                  Truncated(getFileHandle(p, fd), Len(data)))
             /\ Returns(Truncated(getFileHandle(p, fd), Len(data)))
    <2>0. /\ fd \in Fd /\ getFileHandle(p, fd) = h /\ h.name \in Files
          /\ h.fileSize = fileTable[h.name].sizeBytes
          /\ h.cursor \in Nat /\ h.fileSize \in Nat /\ h.cursor <= h.fileSize
          /\ n \in Nat /\ h.cursor + n <= h.fileSize
          /\ n = Lesser(Len(data), h.fileSize - h.cursor)
      BY <1>0, <1>3, OpenFile
    <2> PICK name \in Files : name = h.name
      BY <2>0
    <2> PICK c : c = h.cursor
      OBVIOUS
    <2> DEFINE size == fileTable[name].sizeBytes
    <2>1. /\ c \in Nat /\ size \in Nat /\ n \in Nat /\ c <= size /\ c + n <= size
          /\ n = Lesser(Len(data), size - c)
      BY <2>0
    <2>2. /\ \A k \in 0 .. size - 1 :
                ByteAt(name, k)' = IF k - c \in 0 .. n - 1
                                     THEN data[k - c + 1] ELSE ByteAt(name, k)
          /\ \A m \in Files : m # name => \A k \in 0 .. fileTable[m].sizeBytes - 1 :
                ByteAt(m, k)' = ByteAt(m, k)
      <3>1. disk' = WriteLoop(h, data, n) /\ h.kind = "file" /\ getFileHandle(p, fd) = h
        BY <1>3, <2>0
      <3>2. \A m \in Files : \A k \in 0 .. fileTable[m].sizeBytes - 1 :
               ByteAt(m, k)' = IF m = h.name /\ k - h.cursor \in 0 .. n - 1
                                 THEN data[k - h.cursor + 1] ELSE ByteAt(m, k)
        BY <1>0, <3>1, WriteBytes
      <3> HIDE DEF n, h
      <3> QED BY <3>2
    <2>3. /\ handlesOf[p][fd] = Store!At(name, c)
          /\ handlesOf' = [handlesOf EXCEPT ![p][fd] = Store!At(name, c + n)]
      <3>1. fd \in Fd /\ getFileHandle(p, fd) = h
        BY <2>0
      <3>2. h.kind = "file" /\ Advance(p, fd, n)
        <4> HIDE DEF h
        <4> QED BY <1>3, <3>1, Zenon
      <3> HIDE DEF n
      <3>3. MovesOn(p, fd, n)
        BY <3>1, <3>2, AdvanceMaps, Zenon
      <3> QED BY <3>3 DEF MovesOn
    <2>4. Returns(n)
      BY <1>3, <2>0
    <2> PICK moved : moved = n
      OBVIOUS
    <2> HIDE DEF n, h
    <2>5. /\ filesOf[name] = Bytes(name)
          /\ Len(Bytes(name)) = size
          /\ DOMAIN Bytes(name) = 1 .. size
      <3>1. filesOf[name] = Bytes(name)
        BY DEF filesOf
      <3> QED BY <2>1, <3>1, BytesOf, Section
    <2> DEFINE changed == [i \in 1 .. size |->
                             IF i \in c + 1 .. c + moved
                               THEN data[i - c] ELSE Bytes(name)[i]]
    <2>6. Bytes(name)' = changed
      <3>1. Bytes(name)' = [i \in 1 .. size |-> ByteAt(name, i - 1)']
        BY <1>0 DEF Bytes, ByteAt
      <3>2. \A i \in 1 .. size : Bytes(name)[i] = ByteAt(name, i - 1)
        BY DEF Bytes, ByteAt
      <3>3. ASSUME NEW i \in 1 .. size
            PROVE  ByteAt(name, i - 1)' = IF i \in c + 1 .. c + moved
                                            THEN data[i - c] ELSE ByteAt(name, i - 1)
        <4>1. i - 1 \in 0 .. size - 1 /\ (i - 1) - c + 1 = i - c
          BY <2>1
        <4>2. (i - 1) - c \in 0 .. n - 1 <=> i \in c + 1 .. c + moved
          BY <2>1
        <4> QED BY <2>2, <4>1, <4>2
      <3> QED BY <3>1, <3>2, <3>3
    <2>7. \A m \in Files : m # name => Bytes(m)' = Bytes(m)
      <3> SUFFICES ASSUME NEW m \in Files, m # name PROVE Bytes(m)' = Bytes(m)
        OBVIOUS
      <3>1. fileTable[m].sizeBytes \in Nat
        BY FileBlocks DEF StoreInv
      <3>2. \A i \in 1 .. fileTable[m].sizeBytes : i - 1 \in 0 .. fileTable[m].sizeBytes - 1
        BY <3>1
      <3>3. \A i \in 1 .. fileTable[m].sizeBytes : ByteAt(m, i - 1)' = ByteAt(m, i - 1)
        BY <2>2, <3>2
      <3> QED BY <1>0, <3>3 DEF Bytes, ByteAt
    <2>8. Files' = Files
      BY <1>0 DEF Files
    <2>9. filesOf' = [filesOf EXCEPT ![name] =
                        [i \in DOMAIN @ |-> IF i \in c + 1 .. c + moved
                                              THEN data[i - c] ELSE @[i]]]
      <3> HIDE DEF changed
      <3>1. filesOf' = [filesOf EXCEPT ![name] = changed]
        <4> HIDE DEF Bytes
        <4> QED BY <2>6, <2>7, <2>8, Zenon DEF filesOf
      <3> QED BY <2>5, <3>1 DEF changed
    <2>10. Store!Write(p, fd, data)
      <3>1. Store!Lesser(Len(data), size - c) = moved
        BY <2>1 DEF Store!Lesser, Lesser
      <3>2. /\ handlesOf[p][fd].kind = "file"
            /\ handlesOf[p][fd].name = name
            /\ handlesOf[p][fd].cursor = c
        BY <2>3 DEF Store!At
      <3>3. /\ Store!Lesser(Len(data), Len(filesOf[name]) - c) = moved
            /\ result' = Store!Returns(moved)
            /\ handlesOf' = [handlesOf EXCEPT ![p][fd] = Store!At(name, c + moved)]
        BY <2>3, <2>4, <2>5, <3>1 DEF Returns, Store!Returns
      <3> DEFINE Effect(m, at, k) ==
                   /\ result' = Store!Returns(k)
                   /\ filesOf' = [filesOf EXCEPT ![m] =
                                    [i \in DOMAIN @ |-> IF i \in at + 1 .. at + k
                                                          THEN data[i - at] ELSE @[i]]]
                   /\ handlesOf' = [handlesOf EXCEPT ![p][fd] = Store!At(m, at + k)]
                 H == handlesOf[p][fd]
      <3>4. Effect(name, c, moved)
        BY <2>9, <3>3
      <3> HIDE DEF Effect
      <3>5. Effect(H.name, H.cursor,
                   Store!Lesser(Len(data), Len(filesOf[H.name]) - H.cursor))
        <4> HIDE DEF H
        <4> QED BY <3>2, <3>3, <3>4 DEF H
      <3> QED BY <3>2, <3>5, Zenon DEF Effect, Store!Write, filesOf, handlesOf
    <2> QED BY <2>0, <2>10 DEF Store!Next
  <1> QED BY <1>1, <1>2, <1>3 DEF Write

\* Swapping is invisible as long as no file reaches the swap area.
LEMMA SwapOutStutters ==
    ASSUME NoWrap, StoreInv, BelowSwap, NEW page \in Page, swapOut(page)
    PROVE  filesOf' = filesOf /\ handlesOf' = handlesOf /\ result' = result
  <1>1. PICK slot \in FreeSlot : disk' = writeBlock(disk, SwapBlock(slot), page)
    BY DEF swapOut
  <1>2. SwapBlock(slot) \in Int /\ freeBlockPointer <= SwapBlock(slot)
        /\ freeBlockPointer \in Nat
    BY <1>1, DiskOK DEF FreeSlot, Slot, SwapBlock, BelowSwap, StoreInv, Inv, BlocksInv
  <1>3. disk \in [Block -> BlockData]
    BY DEF StoreInv, TypeInv, TypeOK
  <1>4. \A b \in Block : b < freeBlockPointer => disk'[b] = disk[b]
    BY <1>1, <1>2, <1>3 DEF writeBlock, Block
  <1>5. UNCHANGED <<fileTable, fdTable, result>>
    BY DEF swapOut
  <1>6. ASSUME NEW n \in Files
        PROVE  /\ fileTable[n].sizeBytes \in Nat
               /\ \A k \in 0 .. fileTable[n].sizeBytes - 1 : ByteAt(n, k)' = ByteAt(n, k)
    <2>1. fileTable[n].sizeBytes \in Nat
      BY FileBlocks DEF StoreInv
    <2>2. ASSUME NEW k \in 0 .. fileTable[n].sizeBytes - 1
          PROVE  ByteAt(n, k)' = ByteAt(n, k)
      <3> DEFINE b == fileTable[n].startBlock + k \div BLOCK_SIZE
      <3>1. /\ b \in Block /\ b \in fileTable[n].startBlock .. EndOf(fileTable[n]) - 1
            /\ EndOf(fileTable[n]) \in Nat /\ fileTable[n].startBlock \in Nat
            /\ EndOf(fileTable[n]) <= freeBlockPointer
        BY FileBlocks DEF StoreInv
      <3> HIDE DEF b
      <3>2. b < freeBlockPointer
        BY <1>2, <3>1
      <3>3. disk'[b] = disk[b]
        BY <1>4, <3>1, <3>2
      <3> QED BY <1>5, <3>3 DEF ByteAt, b
    <2> QED BY <2>1, <2>2
  <1>7. filesOf' = filesOf
    BY <1>5, <1>6, SameBytes
  <1> QED BY <1>5, <1>7, SameHandles

LEMMA InitMaps == Init => Store!Init
  <1> SUFFICES ASSUME Init PROVE Store!Init
    OBVIOUS
  <1>1. \A f \in Fd : f \in 0 .. NumConsoles - 1 <=> f < NumConsoles
    BY DiskOK DEF Fd
  <1>2. \A f \in Fd : Position(NewTable[f]) =
           IF f \in 0 .. NumConsoles - 1 THEN Store!AtConsole(f) ELSE Store!Closed
    BY <1>1 DEF NewTable, Position, ConsoleHandle, NoHandle, Store!AtConsole, Store!Closed
  <1>3. handlesOf = [p \in Pid |-> [f \in Fd |-> Position(NewTable[f])]]
    BY DEF Init, handlesOf
  <1> HIDE DEF Position
  <1>4. handlesOf = [p \in Pid |-> [f \in Fd |->
           IF f \in 0 .. NumConsoles - 1 THEN Store!AtConsole(f) ELSE Store!Closed]]
    BY <1>2, <1>3
  <1>5. filesOf = [n \in {} |-> <<>>]
    <2>1. Files = {}
      BY DEF Init, Files
    <2> QED BY <2>1 DEF filesOf
  <1>6. result = Store!Returns(0)
    BY DEF Init, Store!Returns
  <1> QED BY <1>4, <1>5, <1>6 DEF Store!Init, filesOf, handlesOf

LEMMA StepMaps ==
    ASSUME NoWrap, StoreInv, BelowSwap, BelowSwap', [Next]_vars
    PROVE  [Store!Next]_(Store!vars)
  <1> DEFINE Stutter == filesOf' = filesOf /\ handlesOf' = handlesOf /\ result' = result
  <1>1. Stutter \/ Store!Next => [Store!Next]_(Store!vars)
    BY DEF Store!vars, filesOf, handlesOf
  <1>2. ASSUME NEW p \in Pid, Recycle(p) PROVE Store!Next
    BY <1>2, UntouchedFiles, RecycleMaps DEF Recycle
  <1>3. ASSUME NEW p \in Pid, NEW n \in Name, Open(p, n) PROVE Store!Next
    BY <1>3, UntouchedFiles, OpenMaps DEF Open
  <1>4. ASSUME NEW p \in Pid, NEW fd, Close(p, fd) PROVE Store!Next
    BY <1>4, UntouchedFiles, CloseMaps DEF Close
  <1>5. ASSUME NEW page \in Page, swapOut(page) PROVE Stutter
    BY <1>5, SwapOutStutters
  <1>6. ASSUME NEW slot, swapIn(slot) PROVE Stutter
    BY <1>6, UntouchedFiles, SameHandles DEF swapIn
  <1>7. UNCHANGED vars => Stutter
    BY UntouchedFiles, SameHandles DEF vars
  <1> HIDE DEF Stutter
  <1>8. Stutter \/ Store!Next
    BY <1>2, <1>3, <1>4, <1>5, <1>6, <1>7, CreateMaps, ReadMaps, WriteMaps, Zenon DEF Next
  <1> QED BY <1>1, <1>8

\* The block-wise loops, the bump allocator, the descriptor tables and the swap
\* area beside them implement plain byte arrays with positions: whatever the
\* calls, for every block size and wherever a call starts and ends, as long as
\* sizes do not wrap and the files stay below the swap area.
THEOREM BlocksAreInvisible ==
    ASSUME NoWrap PROVE Spec /\ []BelowSwap => FilesAreByteArrays
  <1>1. NoWrap /\ StoreInv /\ BelowSwap /\ BelowSwap' /\ [Next]_vars
           => [Store!Next]_(Store!vars)
    BY StepMaps
  <1> QED BY <1>1, NoWrap, InitMaps, InitStoreInv, NextBlank, PTL
          DEF Spec, FilesAreByteArrays, Store!Spec

-----------------------------------------------------------------------------
\* What a slot in use holds is overwritten by no other slot, for swapOut takes
\* one that is free, and by no file below the swap area: write keeps to the
\* blocks of its file.
THEOREM SwapKept == ASSUME NoWrap PROVE Spec /\ []BelowSwap => SwappedPageKept
  <1> DEFINE Kept == \A slot \in allocationMap \cap allocationMap' :
                        disk'[SwapBlock(slot)] = disk[SwapBlock(slot)]
  <1>1. ASSUME NoWrap, StoreInv, StoreInv', BelowSwap, Next PROVE Kept
    <2> SUFFICES ASSUME NEW slot \in allocationMap \cap allocationMap'
                 PROVE  disk'[SwapBlock(slot)] = disk[SwapBlock(slot)]
      OBVIOUS
    <2> DEFINE b == SwapBlock(slot)
    <2>1. slot \in Slot /\ disk \in [Block -> BlockData] /\ disk' \in [Block -> BlockData]
      BY <1>1 DEF StoreInv, TypeInv, TypeOK
    <2>2. b \in Block /\ SwapBlock(0) <= b /\ SwapBlock(0) \in Int /\ b \in Int
      BY <2>1, DiskOK DEF Slot, SwapBlock, Block
    <2>3. freeBlockPointer <= b
      BY <1>1, <2>2, DiskOK DEF BelowSwap, StoreInv, Inv, BlocksInv
    <2>4. ASSUME NEW p \in Pid, NEW fd, NEW data \in Data, Write(p, fd, data)
          PROVE  disk'[b] = disk[b]
      <3> DEFINE h == getFileHandle(p, fd)
      <3>1. UNCHANGED fileTable
        BY <2>4 DEF Write
      <3>2. CASE /\ h.kind = "file"
                 /\ disk' = WriteLoop(h, data, Truncated(h, Len(data)))
        <4>1. h = fdTable[p][fd]
          BY <3>2 DEF getFileHandle, NoHandle
        <4> HIDE DEF b
        <4>2. \A o \in Offset : disk'[b][o] = disk[b][o]
          BY <1>1, <2>2, <2>3, <3>1, <3>2, <4>1, WriteBytes
        <4> QED BY <2>1, <2>2, <4>2 DEF BlockData
      <3> QED BY <2>4, <3>2 DEF Write
    <2>5. ASSUME NEW page \in Page, swapOut(page) PROVE disk'[b] = disk[b]
      <3>1. PICK s \in FreeSlot : disk' = writeBlock(disk, SwapBlock(s), page)
        BY <2>5 DEF swapOut
      <3>2. s # slot /\ s \in Slot
        BY <3>1 DEF FreeSlot
      <3>3. SwapBlock(s) # b
        BY <2>1, <3>2, DiskOK DEF Slot, SwapBlock
      <3> QED BY <2>1, <2>2, <3>1, <3>3 DEF writeBlock
    <2> HIDE DEF b
    <2>6. disk' = disk => disk'[b] = disk[b]
      OBVIOUS
    <2>7. disk'[b] = disk[b]
      BY <1>1, <2>4, <2>5, <2>6
         DEF Next, Recycle, Open, Close, Read, Create, swapIn
    <2> QED BY <2>7 DEF b
  <1>2. NoWrap /\ StoreInv /\ StoreInv' /\ BelowSwap /\ [Next]_vars => [Kept]_vars
    BY <1>1
  <1> QED BY <1>2, NoWrap, InitStoreInv, NextBlank, PTL DEF Spec, SwappedPageKept
=============================================================================
