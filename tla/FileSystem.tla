----------------------------- MODULE FileSystem -----------------------------
(***************************************************************************)
(* Files of rv32umos: StubFileSystem with its bump allocator, file handles *)
(* and descriptor tables, the block-wise loops of DiskFileHandle, and the  *)
(* disk, whose last blocks are the swap area of SwapManager.               *)
(*                                                                         *)
(* One action is one system call, one reuse of a process slot, or one swap *)
(* operation of the memory manager.  The user memory that read and write   *)
(* copy to and from is in module VirtualMemory.                            *)
(***************************************************************************)
EXTENDS Integers, Sequences

CONSTANTS
    MAX_PROCESS,        \* slots of processList
    FD_TABLE_SIZE,      \* file descriptors of a process
    NumConsoles,        \* descriptors that are consoles at first: 3
    NUM_DISK_BLOCKS,    \* blocks of the disk
    NUM_SWAP_BLOCKS,    \* blocks at its end that are swap
    BLOCK_SIZE,         \* bytes of a block
    SizeT,              \* how many values a std::size_t has
    Name,               \* file names
    Size,               \* file sizes programs ask for
    Byte,               \* bytes programs write, and memory holds
    Page,               \* contents of the pages that are swapped out
    MaxCount            \* bound: bytes one call reads or writes

ASSUME DiskOK ==
    /\ MAX_PROCESS \in Nat \ {0}
    /\ NumConsoles \in 0 .. FD_TABLE_SIZE
    /\ NUM_DISK_BLOCKS \in Nat
    /\ NUM_SWAP_BLOCKS \in 0 .. NUM_DISK_BLOCKS
    /\ BLOCK_SIZE \in Nat \ {0}
    /\ SizeT \in Nat \ {0}
    /\ Size \subseteq 0 .. SizeT - 1
    /\ 0 \in Byte
    /\ Page \subseteq [0 .. BLOCK_SIZE - 1 -> Byte]
    /\ MaxCount \in Nat

Pid == 0 .. MAX_PROCESS - 1
Fd == 0 .. FD_TABLE_SIZE - 1
Block == 0 .. NUM_DISK_BLOCKS - 1
Slot == 0 .. NUM_SWAP_BLOCKS - 1
Offset == 0 .. BLOCK_SIZE - 1
BlockData == [Offset -> Byte]
Data == UNION {[1 .. n -> Byte] : n \in 0 .. MaxCount}

Error == -1
FromHost == -2                  \* whatever the host's read or write returns

NoHandle == [kind |-> "none"]                           \* nullptr
STDIN == 0

ConsoleHandle(k) == [kind |-> "console", host |-> k]
NoFile == [exists |-> FALSE]

VARIABLES
    fdTable,            \* fdTable[p][fd]: a handle
    fileTable,          \* fileTable[n]: metadata, or NoFile
    freeBlockPointer,
    disk,               \* content of every block
    allocationMap,      \* swap slots in use
    result              \* return value and bytes of the last system call

vars == <<fdTable, fileTable, freeBlockPointer, disk, allocationMap, result>>

\* A fresh DiskFileHandle.  Its name is for the properties only: the code keeps
\* the place on the disk, not the file.
DiskFileHandle(n) ==
    [kind |-> "file", name |-> n, start |-> fileTable[n].startBlock,
     fileSize |-> fileTable[n].sizeBytes, cursor |-> 0]

NewTable ==
    [f \in Fd |-> IF f < NumConsoles THEN ConsoleHandle(f) ELSE NoHandle]

Init ==
    /\ fdTable = [p \in Pid |-> NewTable]
    /\ fileTable = [n \in Name |-> NoFile]
    /\ freeBlockPointer = 0
    /\ disk = [b \in Block |-> [k \in Offset |-> 0]]
    /\ allocationMap = {}
    /\ result = [value |-> 0, data |-> <<>>]

Returns(v) == result' = [value |-> v, data |-> <<>>]
Lesser(a, b) == IF a < b THEN a ELSE b

-----------------------------------------------------------------------------
(***************************************************************************)
(* Descriptor tables.  An exit leaves them alone, so the life of a process *)
(* is seen here only when its slot is reused, which may be at any time:    *)
(* recycle closes what is open from descriptor 3 on.                       *)
(***************************************************************************)
Recycled(table) ==
    [f \in Fd |-> IF f < NumConsoles THEN table[f] ELSE NoHandle]

Recycle(p) ==
    /\ fdTable' = [fdTable EXCEPT ![p] = Recycled(@)]
    /\ UNCHANGED <<fileTable, freeBlockPointer, disk, allocationMap, result>>

getFileHandle(p, fd) == IF fd \in Fd THEN fdTable[p][fd] ELSE NoHandle

\* addFileHandle: the first free descriptor, the consoles' own included.
Free(p) == {f \in Fd : fdTable[p][f] = NoHandle}

Open(p, n) ==
    /\ UNCHANGED <<fileTable, freeBlockPointer, disk, allocationMap>>
    /\ \/ /\ fileTable[n] = NoFile \/ Free(p) = {}
          /\ Returns(Error)
          /\ UNCHANGED fdTable
       \/ /\ fileTable[n] # NoFile
          /\ \E fd \in Free(p) :
                /\ \A f \in Free(p) : fd <= f
                /\ fdTable' = [fdTable EXCEPT ![p][fd] = DiskFileHandle(n)]
                /\ Returns(fd)

closeFileHandle(p, fd) == fdTable' = [fdTable EXCEPT ![p][fd] = NoHandle]

Close(p, fd) ==
    /\ UNCHANGED <<fileTable, freeBlockPointer, disk, allocationMap>>
    /\ \/ /\ getFileHandle(p, fd) = NoHandle
          /\ Returns(1)
          /\ UNCHANGED fdTable
       \/ /\ getFileHandle(p, fd) # NoHandle
          /\ closeFileHandle(p, fd)
          /\ Returns(0)

-----------------------------------------------------------------------------
(***************************************************************************)
(* StubFileSystem: files are created with their final size, in consecutive *)
(* blocks, and never removed (removeFile has no caller).                   *)
(***************************************************************************)
\* Mutant: division that rounds down.
BlocksNeeded_Floor(size) == size \div BLOCK_SIZE

BlocksNeeded(size) == ((size + BLOCK_SIZE - 1) % SizeT) \div BLOCK_SIZE

\* Mutant: only the first block is compared with the disk.
Fits_Start(needed) == freeBlockPointer < NUM_DISK_BLOCKS

Fits(needed) == freeBlockPointer + needed <= NUM_DISK_BLOCKS

createFile(n, size) ==
    /\ fileTable' = [fileTable EXCEPT ![n] =
                       [exists |-> TRUE, startBlock |-> freeBlockPointer,
                        sizeBytes |-> size]]
    /\ freeBlockPointer' = freeBlockPointer + BlocksNeeded(size)

Create(n, size) ==
    /\ UNCHANGED <<fdTable, disk, allocationMap>>
    /\ \/ /\ fileTable[n] # NoFile \/ ~Fits(BlocksNeeded(size))
          /\ Returns(Error)
          /\ UNCHANGED <<fileTable, freeBlockPointer>>
       \/ /\ fileTable[n] = NoFile
          /\ Fits(BlocksNeeded(size))
          /\ createFile(n, size)
          /\ Returns(0)

-----------------------------------------------------------------------------
(***************************************************************************)
(* Reading and writing, block by block.  s.done bytes are transferred,     *)
(* s.temp is the block buffer.                                             *)
(***************************************************************************)
\* InMemoryDisk: a block that does not exist is left out in silence.
readBlock(d, b, temp) == IF b \in Block THEN d[b] ELSE temp
writeBlock(d, b, temp) == IF b \in Block THEN [d EXCEPT ![b] = temp] ELSE d

\* What is left of the file, at most; nothing at its end (eof).
Truncated(h, count) ==
    IF h.cursor >= h.fileSize THEN 0 ELSE Lesser(count, h.fileSize - h.cursor)

absoluteBlock(h, done) == h.start + (h.cursor + done) \div BLOCK_SIZE
offsetInBlock(h, done) == (h.cursor + done) % BLOCK_SIZE

Chunk(h, done, total) ==
    Lesser(BLOCK_SIZE - offsetInBlock(h, done), total - done)

\* Mutant: the block is not read before it is overwritten.
Merged_NoRead(old, off, bytes) ==
    [o \in Offset |->
       IF o \in off .. off + Len(bytes) - 1 THEN bytes[o - off + 1] ELSE 0]

Merged(old, off, bytes) ==
    [o \in Offset |->
       IF o \in off .. off + Len(bytes) - 1 THEN bytes[o - off + 1] ELSE old[o]]

\* A turn of the loop of read transfers what is left in its block.
ReadTurn(h, total, s) ==
    LET temp == readBlock(disk, absoluteBlock(h, s.done), s.temp)
        off == offsetInBlock(h, s.done)
        c == Chunk(h, s.done, total)
    IN  [done |-> s.done + c, temp |-> temp,
         buffer |-> s.buffer \o [i \in 1 .. c |-> temp[off + i - 1]]]

\* The loop, one turn after the other: a turn transfers a byte at least.
ReadLoop(h, total) ==
    LET after[k \in 0 .. total] ==
          IF k = 0
            THEN [done |-> 0, temp |-> [o \in Offset |-> 0], buffer |-> <<>>]
            ELSE IF after[k - 1].done < total THEN ReadTurn(h, total, after[k - 1])
                                              ELSE after[k - 1]
    IN  after[total].buffer

\* A turn of the loop of write: the rest of the block is read first and
\* written back.
WriteTurn(h, data, total, s) ==
    LET b == absoluteBlock(h, s.done)
        c == Chunk(h, s.done, total)
        temp == Merged(readBlock(s.disk, b, s.temp), offsetInBlock(h, s.done),
                       SubSeq(data, s.done + 1, s.done + c))
    IN  [done |-> s.done + c, temp |-> temp, disk |-> writeBlock(s.disk, b, temp)]

WriteLoop(h, data, total) ==
    LET after[k \in 0 .. total] ==
          IF k = 0
            THEN [done |-> 0, temp |-> [o \in Offset |-> 0], disk |-> disk]
            ELSE IF after[k - 1].done < total
                   THEN WriteTurn(h, data, total, after[k - 1])
                   ELSE after[k - 1]
    IN  after[total].disk

\* Only standard input reads, only the other consoles write.  What the host
\* answers is not modelled.
ReadConsole(h) == Returns(IF h.host = STDIN THEN FromHost ELSE Error)
WriteConsole(h) == Returns(IF h.host = STDIN THEN Error ELSE FromHost)

Advance(p, fd, n) == fdTable' = [fdTable EXCEPT ![p][fd].cursor = @ + n]

Read(p, fd, count) ==
    LET h == getFileHandle(p, fd)
    IN  /\ UNCHANGED <<fileTable, freeBlockPointer, disk, allocationMap>>
        /\ \/ /\ h = NoHandle
              /\ Returns(Error)
              /\ UNCHANGED fdTable
           \/ /\ h.kind = "console"
              /\ ReadConsole(h)
              /\ UNCHANGED fdTable
           \/ LET toRead == Truncated(h, count)
              IN  /\ h.kind = "file"
                  /\ Advance(p, fd, toRead)
                  /\ result' = [value |-> toRead, data |-> ReadLoop(h, toRead)]

Write(p, fd, data) ==
    LET h == getFileHandle(p, fd)
    IN  /\ UNCHANGED <<fileTable, freeBlockPointer, allocationMap>>
        /\ \/ /\ h = NoHandle
              /\ Returns(Error)
              /\ UNCHANGED <<fdTable, disk>>
           \/ /\ h.kind = "console"
              /\ WriteConsole(h)
              /\ UNCHANGED <<fdTable, disk>>
           \/ LET toWrite == Truncated(h, Len(data))
              IN  /\ h.kind = "file"
                  /\ Advance(p, fd, toWrite)
                  /\ disk' = WriteLoop(h, data, toWrite)
                  /\ Returns(toWrite)

-----------------------------------------------------------------------------
(***************************************************************************)
(* SwapManager: the last blocks of the same disk hold evicted pages.       *)
(***************************************************************************)
\* Mutant: the swap area begins a block too early.
SwapBlock_Early(slot) == NUM_DISK_BLOCKS - NUM_SWAP_BLOCKS + slot - 1

SwapBlock(slot) == NUM_DISK_BLOCKS - NUM_SWAP_BLOCKS + slot
FreeSlot == Slot \ allocationMap

swapOut(page) ==
    \E slot \in FreeSlot :
        /\ \A s \in FreeSlot : slot <= s
        /\ disk' = writeBlock(disk, SwapBlock(slot), page)
        /\ allocationMap' = allocationMap \cup {slot}
        /\ UNCHANGED <<fdTable, fileTable, freeBlockPointer, result>>

\* With no slot free swapOut returns -1 and changes nothing.  In swapIn the
\* page goes to memory, its slot is free again.
swapIn(slot) ==
    /\ slot \in allocationMap
    /\ allocationMap' = allocationMap \ {slot}
    /\ UNCHANGED <<fdTable, fileTable, freeBlockPointer, disk, result>>

-----------------------------------------------------------------------------
Next ==
    \/ \E p \in Pid :
          \/ Recycle(p)
          \/ \E n \in Name : Open(p, n)
          \/ \E fd \in -1 .. FD_TABLE_SIZE :
                \/ Close(p, fd)
                \/ \E count \in 0 .. MaxCount : Read(p, fd, count)
                \/ \E data \in Data : Write(p, fd, data)
    \/ \E n \in Name, size \in Size : Create(n, size)
    \/ \E page \in Page : swapOut(page)
    \/ \E slot \in Slot : swapIn(slot)

Spec == Init /\ [][Next]_vars

-----------------------------------------------------------------------------
(***************************************************************************)
(* Properties.                                                             *)
(***************************************************************************)
Handle ==
    {NoHandle} \cup {ConsoleHandle(k) : k \in 0 .. NumConsoles - 1}
      \cup [kind : {"file"}, name : Name, start : 0 .. NUM_DISK_BLOCKS,
            fileSize : Size, cursor : Nat]
FileMetadata ==
    [exists : {TRUE}, startBlock : 0 .. NUM_DISK_BLOCKS, sizeBytes : Size]

\* The state has the shape of the code's tables, and the allocator stays on the
\* disk (StubFileSystem::createFileImpl).
TypeOK ==
    /\ \A p \in Pid : fdTable[p] \in [Fd -> Handle]
    /\ fileTable \in [Name -> FileMetadata \cup {NoFile}]
    /\ freeBlockPointer \in 0 .. NUM_DISK_BLOCKS
    /\ disk \in [Block -> BlockData]
    /\ allocationMap \subseteq Slot
    /\ result.value \in Int

Files == {n \in Name : fileTable[n] # NoFile}

\* The blocks a handle of the file reaches.
BlocksOf(n) ==
    {fileTable[n].startBlock + i \div BLOCK_SIZE :
       i \in 0 .. fileTable[n].sizeBytes - 1}

\* Every byte a handle can reach lies in blocks createFile set aside for this
\* file: on the disk, below the allocator, in no other file; and a handle that
\* is open never runs past its file (DiskFileHandle's truncation).
FilesDisjoint ==
    /\ \A n \in Files :
          /\ BlocksOf(n) \subseteq 0 .. freeBlockPointer - 1
          /\ \A m \in Files \ {n} : BlocksOf(m) \cap BlocksOf(n) = {}
    /\ \A p \in Pid, fd \in Fd :
          LET h == fdTable[p][fd]
          IN  h.kind = "file" => /\ h.cursor <= h.fileSize
                                 /\ h.start = fileTable[h.name].startBlock
                                 /\ h.fileSize = fileTable[h.name].sizeBytes

\* The bytes of a file, wherever its blocks are.
Bytes(n) ==
    [i \in 1 .. fileTable[n].sizeBytes |->
       disk[fileTable[n].startBlock + (i - 1) \div BLOCK_SIZE]
           [(i - 1) % BLOCK_SIZE]]

Position(h) ==
    IF h.kind = "file"
      THEN [kind |-> "file", name |-> h.name, cursor |-> h.cursor] ELSE h

Store == INSTANCE FileStore WITH
    Proc <- Pid,
    Console <- 0 .. NumConsoles - 1,
    files <- [n \in Files |-> Bytes(n)],
    handles <- [p \in Pid |-> [f \in Fd |-> Position(fdTable[p][f])]]

\* The block-wise loops, the allocator, the descriptor tables and the swap
\* manager beside them implement plain byte arrays with positions: whatever the
\* calls and however they straddle blocks, a call changes the bytes it names,
\* and no other, and read delivers what was written last.
FilesAreByteArrays == Store!Spec

\* A page that stays swapped out keeps its content on the disk: swapIn will
\* bring back what swapOut stored.
SwappedPageKept ==
    [][\A slot \in allocationMap \cap allocationMap' :
          disk'[SwapBlock(slot)] = disk[SwapBlock(slot)]]_vars
=============================================================================
