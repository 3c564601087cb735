------------------------------- MODULE Machine -------------------------------
(***************************************************************************)
(* The CPU of rv32umos: decoder, executors, register file, MMU and memory  *)
(* device (rv32vm/), with the part of the main loop and of the kernel that *)
(* a trap involves (RV32UMOS.cpp, VirtualMemoryManager.cpp).  One thread   *)
(* runs an arbitrary program on a few frames; other threads are the        *)
(* subject of Kernel, other processes of VirtualMemory.                    *)
(*                                                                         *)
(* Instruction words have their 32 bits.  Registers are narrower: a byte   *)
(* has ByteBits bits, and a shift amount ShamtBits (5 in the code).        *)
(***************************************************************************)
EXTENDS Assembly, Sequences

CONSTANTS
    ShamtBits,
    PageSize,       \* 4096 in the code
    NumFrames,      \* frames of physical memory
    Reg,            \* registers the programs use
    Flags,          \* Flags[v]: permissions of the pages the process may use
    Image,          \* Image[v][o]: content of page v when it is first loaded
    SyscallIDs,     \* sysCallNameMap
    Results,        \* answers of system calls
    Starts          \* program, registers and pc a thread may start with

Vpn == DOMAIN Flags
PAddr == 0 .. NumFrames * PageSize - 1

ASSUME MachineOK ==
    /\ ShamtBits \in 1 .. 5 /\ ShamtBits <= WordBits
    /\ PageSize \in Nat \ {0}
    /\ NumFrames \in Nat \ {0}
    /\ {0, 10, 17} \subseteq Reg /\ Reg \subseteq 0 .. 31
    /\ \A v \in Vpn : v \in Nat /\ (v + 1) * PageSize <= 2^WordBits
    /\ \A v \in Vpn : Flags[v] \subseteq {"r", "w", "x"}
    /\ Image \in [Vpn -> [0 .. PageSize - 1 -> Byte]]
    /\ SyscallIDs \subseteq Word
    /\ Results \subseteq Word

VARIABLES
    regs, pc, trap,     \* of Machine
    stream,             \* the instructions the program will execute next
    pageTable,          \* pageTable[v]: a PTE
    queue,              \* the resident pages, first in first out
    ram,                \* content of every byte of physical memory
    backing,            \* content of page v in its swap slot or the ELF file
    status              \* "running", "killed" (the process) or "crashed" (exit(1))

cpuVars == <<regs, pc, stream>>
memVars == <<pageTable, queue, ram, backing>>
vars == <<cpuVars, trap, memVars, status>>

PTE == [ppn: 0 .. NumFrames - 1, valid: BOOLEAN, dirty: BOOLEAN]
NoTrap == [type |-> "None", value |-> 0]
Trap == [type: {"None", "Syscall", "PageFault"}, value: Word]

\* Every state is well formed.
TypeOK ==
    /\ regs \in [Reg -> Word] /\ regs[0] = 0
    /\ pc \in Word
    /\ trap \in Trap
    /\ pageTable \in [Vpn -> PTE]
    /\ queue \in Seq(Vpn) /\ Len(queue) <= NumFrames
    /\ ram \in [PAddr -> Byte]
    /\ backing \in [Vpn -> [0 .. PageSize - 1 -> Byte]]
    /\ status \in {"running", "killed", "crashed"}

\* A thread is dispatched; none of the process's pages is in memory.
Init ==
    /\ \E s \in Starts : stream = s.program /\ regs = s.regs /\ pc = s.pc
    /\ trap = NoTrap
    /\ pageTable = [v \in Vpn |-> [ppn |-> 0, valid |-> FALSE, dirty |-> FALSE]]
    /\ queue = <<>>
    /\ ram = [a \in PAddr |-> 0]
    /\ backing = Image
    /\ status = "running"

-----------------------------------------------------------------------------
(***************************************************************************)
(* Decoder.  A word, and what is cut out of it, is a set of bit positions. *)
(***************************************************************************)
extractBits(w, lo, hi) == {b - lo : b \in w \cap (lo .. hi)}
ShiftLeft(w, n) == {b + n : b \in w}
signExtend(w, bits) == IF bits - 1 \in w THEN w \cup bits .. 31 ELSE w

opcode(w) == Number(extractBits(w, 0, 6))
rd(w) == Number(extractBits(w, 7, 11))
func3(w) == Number(extractBits(w, 12, 14))
rs1(w) == Number(extractBits(w, 15, 19))
rs2(w) == Number(extractBits(w, 20, 24))
func7(w) == Number(extractBits(w, 25, 31))

immI(w) == signExtend(extractBits(w, 20, 31), 12)

immS(w) ==
    signExtend(ShiftLeft(extractBits(w, 25, 31), 5) \cup extractBits(w, 7, 11), 12)

immB(w) ==
    signExtend(UNION {ShiftLeft(extractBits(w, 31, 31), 12),
                      ShiftLeft(extractBits(w, 7, 7), 11),
                      ShiftLeft(extractBits(w, 25, 30), 5),
                      ShiftLeft(extractBits(w, 8, 11), 1)}, 13)

immU(w) == ShiftLeft(extractBits(w, 12, 31), 12)

\* Mutant: bits 19 to 12 are taken for bits 18 to 11.
immJ_Misplaced(w) ==
    signExtend(UNION {ShiftLeft(extractBits(w, 31, 31), 20),
                      ShiftLeft(extractBits(w, 12, 19), 11),
                      ShiftLeft(extractBits(w, 20, 20), 11),
                      ShiftLeft(extractBits(w, 21, 30), 1)}, 21)

immJ(w) ==
    signExtend(UNION {ShiftLeft(extractBits(w, 31, 31), 20),
                      ShiftLeft(extractBits(w, 12, 19), 12),
                      ShiftLeft(extractBits(w, 20, 20), 11),
                      ShiftLeft(extractBits(w, 21, 30), 1)}, 21)

shamtI(w) == Number(extractBits(w, 20, 19 + ShamtBits))
shamtR(x) == x % 2^ShamtBits

\* What an immediate is worth in a register.
AsWord(w) == Number(w \cap 0 .. WordBits - 1)

(***************************************************************************)
(* Machine::execute: which executor a word goes to.                        *)
(***************************************************************************)
R_Type == \h33
I_Type == \h13
B_Type == \h63
STORE == \h23
LOAD == \h03
AUIPC == \h17
LUI == \h37
JALR == \h67
JAL == \h6F
SYSTEM == \h73
MISC_MEM == \h0F

\* By func3, starting with 0.  An empty name is an illegal instruction.
MExtension == <<"MUL", "MULH", "MULHSU", "MULHU", "DIV", "DIVU", "REM", "REMU">>
Plain == <<"ADD", "SLL", "SLT", "SLTU", "XOR", "SRL", "OR", "AND">>
Alternate == <<"SUB", "", "", "", "", "SRA", "", "">>
Immediate == <<"ADDI", "SLLI", "SLTI", "SLTIU", "XORI", "SRLI", "ORI", "ANDI">>
Stores == <<"SB", "SH", "SW", "", "", "", "", "">>
Loads == <<"LB", "LH", "LW", "", "LBU", "LHU", "", "">>
Branches == <<"BEQ", "BNE", "", "", "BLT", "BGE", "BLTU", "BGEU">>

ByFunc7(w, plain, alternate) ==
    CASE func7(w) = \h00 -> plain
      [] func7(w) = \h20 -> alternate
      [] OTHER -> ""

Executor(w) ==
    LET op == opcode(w)
        k == func3(w) + 1
    IN  CASE op = R_Type -> IF func7(w) = \h01 THEN MExtension[k]
                            ELSE ByFunc7(w, Plain[k], Alternate[k])
          [] op = I_Type -> CASE k = 2 -> ByFunc7(w, "SLLI", "")
                              [] k = 6 -> ByFunc7(w, "SRLI", "SRAI")
                              [] OTHER -> Immediate[k]
          [] op = STORE -> Stores[k]
          [] op = B_Type -> Branches[k]
          [] op = LOAD -> Loads[k]
          [] op = LUI -> "LUI"
          [] op = AUIPC -> "AUIPC"
          [] op = JAL -> "JAL"
          [] op = JALR -> "JALR"
          [] op = SYSTEM -> IF k = 1 /\ immI(w) = {} THEN "ECALL" ELSE ""
          [] op = MISC_MEM -> IF k \in {1, 2} THEN "FENCE" ELSE ""
          [] OTHER -> ""

\* Programs are what the toolchain makes of instructions; data among them is
\* no instruction by accident.
Instruction ==
    {i \in [op: Mnemonic, rd: Reg, rs1: Reg, rs2: Reg, imm: Int] :
        Fits(i) /\ (i.op = "word" => Executor(Encode(i)) = "")}

ASSUME StartsOK ==
    \A s \in Starts :
        /\ s.program \in Seq(Instruction)
        /\ s.regs \in [Reg -> Word] /\ s.regs[0] = 0
        /\ s.pc \in Word

-----------------------------------------------------------------------------
(***************************************************************************)
(* MMU and memory device.                                                  *)
(***************************************************************************)
Page(a) == a \div PageSize

\* translate raises a fault.
Faults(a, mode) ==
    ~ /\ Page(a) \in Vpn
      /\ pageTable[Page(a)].valid
      /\ mode \in Flags[Page(a)]

Physical(a) == pageTable[Page(a)].ppn * PageSize + (a % PageSize)

\* storeVirtualMemory of n bytes at an address that does not fault.
\* Mutant: translate does not mark the page.
storeVirtualMemory_Clean(a, n, x) ==
    /\ ram' = [b \in PAddr |-> IF b - Physical(a) \in 0 .. n - 1
                 THEN ByteOf(x, b - Physical(a)) ELSE ram[b]]
    /\ pageTable' = pageTable

storeVirtualMemory(a, n, x) ==
    /\ ram' = [b \in PAddr |-> IF b - Physical(a) \in 0 .. n - 1
                 THEN ByteOf(x, b - Physical(a)) ELSE ram[b]]
    /\ pageTable' = [pageTable EXCEPT ![Page(a)].dirty = TRUE]

loadVirtualMemory(a, n) == LittleEndian(ram, Physical(a), n)

-----------------------------------------------------------------------------
(***************************************************************************)
(* Executors.                                                              *)
(***************************************************************************)
\* The word at pc; programs do not change their code.
word == Encode(Head(stream))

\* The words fetch returns without a fault, none or one.
Fetched ==
    IF status = "running" /\ trap = NoTrap /\ stream # <<>> /\ ~Faults(pc, "x")
      THEN {word} ELSE {}

src1(w) == regs[rs1(w)]
src2(w) == regs[rs2(w)]

\* Mutant: x0 is a register like the others.
WriteReg_X0(r, x) == regs' = [regs EXCEPT ![r] = x]

\* RegFile::write.  x0 is hard-wired to zero.
WriteReg(r, x) == regs' = IF r = 0 THEN regs ELSE [regs EXCEPT ![r] = x]

Abs(i) == IF i < 0 THEN -i ELSE i

\* C++ division of signed integers.
Quotient(a, b) ==
    LET q == Abs(a) \div Abs(b) IN IF (a < 0) = (b < 0) THEN q ELSE -q

Bool(b) == IF b THEN 1 ELSE 0

MinInt == -2^(WordBits - 1)

\* What the executors of arithmetic write to rd.
Alu(name, x, y) ==
    LET sx == Signed(x)
        sy == Signed(y)
        s == shamtR(y)
    IN  CASE name \in {"ADD", "ADDI"} -> Wrap(x + y)
          [] name = "SUB" -> Wrap(x - y)
          [] name \in {"SLL", "SLLI"} -> Wrap(x * 2^s)
          [] name \in {"SRL", "SRLI"} -> x \div 2^s
          [] name \in {"SRA", "SRAI"} -> Wrap(sx \div 2^s)
          [] name \in {"SLT", "SLTI"} -> Bool(sx < sy)
          [] name \in {"SLTU", "SLTIU"} -> Bool(x < y)
          [] name \in {"XOR", "XORI"} -> Xor(x, y)
          [] name \in {"OR", "ORI"} -> Or(x, y)
          [] name \in {"AND", "ANDI"} -> And(x, y)

MultiplyDivide(name, x, y) ==
    LET sx == Signed(x)
        sy == Signed(y)
    IN  CASE name = "MUL" -> Wrap(x * y)
          [] name = "MULH" -> Wrap((sx * sy) \div 2^WordBits)
          [] name = "MULHSU" -> Wrap((sx * y) \div 2^WordBits)
          [] name = "MULHU" -> (x * y) \div 2^WordBits
          [] name = "DIV" -> CASE y = 0 -> Wrap(-1)
                               [] sx = MinInt /\ sy = -1 -> x
                               [] OTHER -> Wrap(Quotient(sx, sy))
          [] name = "DIVU" -> IF y = 0 THEN Wrap(-1) ELSE x \div y
          [] name = "REM" -> CASE y = 0 -> x
                               [] sx = MinInt /\ sy = -1 -> 0
                               [] OTHER -> Wrap(sx - sy * Quotient(sx, sy))
          [] name = "REMU" -> IF y = 0 THEN x ELSE x % y

\* The executor leaves a pc behind; without a trap the loop advances it.
Advance(left) ==
    /\ pc' = Wrap(left + 4)
    /\ stream' = Tail(stream)
    /\ UNCHANGED <<trap, status>>

RaiseTrap(type, value) ==
    /\ trap' = [type |-> type, value |-> value]
    /\ UNCHANGED <<cpuVars, memVars, status>>

ExecRegister(w, name) ==
    /\ name \in (Range(Plain) \cup Range(Alternate)) \ {""}
    /\ WriteReg(rd(w), Alu(name, src1(w), src2(w)))
    /\ Advance(pc)
    /\ UNCHANGED memVars

ExecMExtension(w, name) ==
    /\ name \in Range(MExtension)
    /\ WriteReg(rd(w), MultiplyDivide(name, src1(w), src2(w)))
    /\ Advance(pc)
    /\ UNCHANGED memVars

Shifts == {"SLLI", "SRLI", "SRAI"}

ExecImmediate(w, name) ==
    /\ name \in Range(Immediate) \cup Shifts
    /\ LET operand == IF name \in Shifts THEN shamtI(w) ELSE AsWord(immI(w))
       IN  WriteReg(rd(w), Alu(name, src1(w), operand))
    /\ Advance(pc)
    /\ UNCHANGED memVars

ExecLUI(w, name) ==
    /\ name = "LUI"
    /\ WriteReg(rd(w), AsWord(immU(w)))
    /\ Advance(pc)
    /\ UNCHANGED memVars

ExecAUIPC(w, name) ==
    /\ name = "AUIPC"
    /\ WriteReg(rd(w), Wrap(pc + AsWord(immU(w))))
    /\ Advance(pc)
    /\ UNCHANGED memVars

\* The loop adds the 4 these take off.
ExecJAL(w, name) ==
    /\ name = "JAL"
    /\ WriteReg(rd(w), Wrap(pc + 4))
    /\ Advance(Wrap(pc + AsWord(immJ(w)) - 4))
    /\ UNCHANGED memVars

ExecJALR(w, name) ==
    /\ name = "JALR"
    /\ WriteReg(rd(w), Wrap(pc + 4))
    /\ LET target == Wrap(src1(w) + AsWord(immI(w)))
       IN  Advance(Wrap(target - (target % 2) - 4))
    /\ UNCHANGED memVars

Taken(w, name) ==
    CASE name = "BEQ" -> src1(w) = src2(w)
      [] name = "BNE" -> src1(w) # src2(w)
      [] name = "BLT" -> Signed(src1(w)) < Signed(src2(w))
      [] name = "BGE" -> Signed(src1(w)) >= Signed(src2(w))
      [] name = "BLTU" -> src1(w) < src2(w)
      [] name = "BGEU" -> src1(w) >= src2(w)

ExecBranch(w, name) ==
    /\ name \in Range(Branches) \ {""}
    /\ Advance(IF Taken(w, name) THEN Wrap(pc - 4 + AsWord(immB(w)))
                                        ELSE pc)
    /\ UNCHANGED <<regs, memVars>>

Width == [LB |-> 1, LBU |-> 1, SB |-> 1, LH |-> 2, LHU |-> 2, SH |-> 2,
          LW |-> 4, SW |-> 4]

SignedLoad(name, x) ==
    IF name \in {"LB", "LH"} /\ x >= 2^(ByteBits * Width[name] - 1)
      THEN Wrap(x - 2^(ByteBits * Width[name])) ELSE x

\* With x0 as destination the executors return before the access.
ExecLoad(w, name) ==
    /\ name \in Range(Loads) \ {""}
    /\ LET addr == Wrap(src1(w) + AsWord(immI(w)))
       IN  \/ /\ rd(w) = 0
              /\ Advance(pc)
              /\ UNCHANGED <<regs, memVars>>
           \/ /\ rd(w) # 0
              /\ Faults(addr, "r")
              /\ RaiseTrap("PageFault", addr)
           \/ /\ rd(w) # 0
              /\ ~Faults(addr, "r")
              /\ WriteReg(rd(w),
                          SignedLoad(name, loadVirtualMemory(addr, Width[name])))
              /\ Advance(pc)
              /\ UNCHANGED memVars

ExecStore(w, name) ==
    /\ name \in Range(Stores) \ {""}
    /\ LET addr == Wrap(src1(w) + AsWord(immS(w)))
       IN  \/ Faults(addr, "w") /\ RaiseTrap("PageFault", addr)
           \/ /\ ~Faults(addr, "w")
              /\ storeVirtualMemory(addr, Width[name], src2(w))
              /\ Advance(pc)
              /\ UNCHANGED <<regs, queue, backing>>

ExecFENCE(w, name) ==
    /\ name = "FENCE"
    /\ Advance(pc)
    /\ UNCHANGED <<regs, memVars>>

ExecECALL(w, name) ==
    /\ name = "ECALL"
    /\ RaiseTrap("Syscall", IF regs[17] \in SyscallIDs THEN regs[17] ELSE Wrap(-1))

Illegal(w, name) ==
    /\ name = ""
    /\ status' = "crashed"
    /\ UNCHANGED <<cpuVars, trap, memVars>>

FetchFault ==
    /\ status = "running"
    /\ trap = NoTrap
    /\ stream # <<>>
    /\ Faults(pc, "x")
    /\ RaiseTrap("PageFault", pc)

-----------------------------------------------------------------------------
(***************************************************************************)
(* The kernel's side of a trap, in the same iteration of the loop.         *)
(***************************************************************************)
FrameContent(f) == [o \in 0 .. PageSize - 1 |-> ram[f * PageSize + o]]

\* Page v gets frame f.
Load(v, f) ==
    ram' = [a \in PAddr |-> IF a \div PageSize = f THEN backing[v][a % PageSize]
                                                   ELSE ram[a]]

\* Mutant: the page that came last is evicted.
VictimIndex_Last == Len(queue)

\* FIFOPolicy: the page that came first is evicted.
VictimIndex == 1

Without(q, k) == SubSeq(q, 1, k - 1) \o SubSeq(q, k + 1, Len(q))

\* handlePageFault gives the page a frame and the instruction is executed
\* again.  The content of an evicted page is kept unless it is a copy.
HandlePageFault ==
    /\ status = "running"
    /\ trap.type = "PageFault"
    /\ LET v == Page(trap.value)
       IN  /\ v \in Vpn
           /\ ~pageTable[v].valid
           /\ \/ /\ Len(queue) < NumFrames
                 /\ Load(v, Len(queue))
                 /\ queue' = Append(queue, v)
                 /\ pageTable' = [pageTable EXCEPT
                       ![v] = [ppn |-> Len(queue), valid |-> TRUE, dirty |-> FALSE]]
                 /\ UNCHANGED backing
              \/ /\ Len(queue) = NumFrames
                 /\ LET w == queue[VictimIndex]
                        f == pageTable[w].ppn
                    IN  /\ Load(v, f)
                        /\ queue' = Append(Without(queue, VictimIndex), v)
                        /\ pageTable' = [pageTable EXCEPT
                              ![v] = [ppn |-> f, valid |-> TRUE, dirty |-> FALSE],
                              ![w].valid = FALSE, ![w].dirty = FALSE]
                        /\ backing' = IF pageTable[w].dirty
                                        THEN [backing EXCEPT ![w] = FrameContent(f)]
                                        ELSE backing
    /\ trap' = NoTrap
    /\ UNCHANGED <<cpuVars, status>>

\* An address outside the process, or an access its page does not permit.
KillProcess ==
    /\ status = "running"
    /\ trap.type = "PageFault"
    /\ Page(trap.value) \in Vpn => pageTable[Page(trap.value)].valid
    /\ status' = "killed"
    /\ trap' = NoTrap
    /\ UNCHANGED <<cpuVars, memVars>>

\* handleSyscall writes a0 and advances pc, leaves both so that the call is
\* made again, or ends the process.  What calls do besides is modelled in
\* Kernel, VirtualMemory and FileSystem.
HandleSyscall ==
    /\ status = "running"
    /\ trap.type = "Syscall"
    /\ trap.value \in SyscallIDs
    /\ trap' = NoTrap
    /\ \/ /\ \E x \in Results : WriteReg(10, x)
          /\ pc' = Wrap(pc + 4)
          /\ stream' = Tail(stream)
          /\ UNCHANGED status
       \/ UNCHANGED <<cpuVars, status>>
       \/ status' = "killed" /\ UNCHANGED cpuVars
    /\ UNCHANGED memVars

\* SYS_UNKNOWN is a panic.
UnknownSyscall ==
    /\ status = "running"
    /\ trap.type = "Syscall"
    /\ trap.value \notin SyscallIDs
    /\ trap' = NoTrap
    /\ status' = "crashed"
    /\ UNCHANGED <<cpuVars, memVars>>

\* The end of the program that is looked at, or of the process.
Halted ==
    /\ status # "running" \/ (stream = <<>> /\ trap = NoTrap)
    /\ UNCHANGED vars

Execute ==
    \E w \in Fetched : \E name \in {Executor(w)} :
        \/ ExecRegister(w, name)
        \/ ExecMExtension(w, name)
        \/ ExecImmediate(w, name)
        \/ ExecLUI(w, name)
        \/ ExecAUIPC(w, name)
        \/ ExecJAL(w, name)
        \/ ExecJALR(w, name)
        \/ ExecBranch(w, name)
        \/ ExecLoad(w, name)
        \/ ExecStore(w, name)
        \/ ExecFENCE(w, name)
        \/ ExecECALL(w, name)
        \/ Illegal(w, name)

Iteration ==
    \/ Execute
    \/ FetchFault
    \/ HandlePageFault
    \/ KillProcess
    \/ HandleSyscall
    \/ UnknownSyscall

Next == Iteration \/ Halted

Spec == Init /\ [][Next]_vars /\ WF_vars(Iteration)

-----------------------------------------------------------------------------
(***************************************************************************)
(* Properties.                                                             *)
(***************************************************************************)
Int32(w) == IF 31 \in w THEN -1 - Number(0 .. 30 \ w) ELSE Number(w)

\* What the decoder reads in w is instruction i: the executor, the registers
\* and, with all 32 bits, the immediate of its format.
Reads(w, i) ==
    /\ Executor(w) = i.op
    /\ i.op \notin UNION {DOMAIN StoreForm, DOMAIN BranchForm, {"ECALL", "FENCE"}}
          => rd(w) = i.rd
    /\ i.op \notin {"LUI", "AUIPC", "JAL", "ECALL", "FENCE"} => rs1(w) = i.rs1
    /\ i.op \in UNION {DOMAIN RegisterForm, DOMAIN StoreForm, DOMAIN BranchForm}
          => rs2(w) = i.rs2
    /\ i.op \in DOMAIN ShiftForm => shamtI(w) = i.imm % 2^ShamtBits
    /\ i.op \in UNION {DOMAIN ImmediateForm, DOMAIN LoadForm, {"JALR"}}
          => Int32(immI(w)) = i.imm
    /\ i.op \in DOMAIN StoreForm => Int32(immS(w)) = i.imm
    /\ i.op \in DOMAIN BranchForm => Int32(immB(w)) = i.imm
    /\ i.op = "JAL" => Int32(immJ(w)) = i.imm
    /\ i.op \in {"LUI", "AUIPC"} => Int32(immU(w)) = i.imm * 4096

\* The decoder reads the words as the toolchain wrote them.
DecodesAsWritten ==
    stream # <<>> /\ Head(stream).op # "word" => Reads(word, Head(stream))

\* What a byte of virtual memory holds, wherever it is.
Content(a) ==
    LET v == Page(a)
    IN  IF pageTable[v].valid THEN ram[Physical(a)] ELSE backing[v][a % PageSize]

Reference == INSTANCE ISA WITH
    mem <- [a \in {a \in Word : Page(a) \in Vpn} |-> Content(a)],
    request <- IF trap.type = "Syscall" THEN trap.value ELSE -1

\* Where a load or store accesses memory.
Target(i) == Wrap(regs[i.rs1] + i.imm)

\* No access crosses the end of its page, as translate looks at its first byte.
AccessesInPage ==
    stream # <<>> /\ Head(stream).op \in DOMAIN Width =>
        (Target(Head(stream)) % PageSize) + Width[Head(stream).op] <= PageSize

\* Decoding, traps, retried instructions, frames and evictions are invisible:
\* the thread sees the instructions of its program executed one by one.
ExecutesISA == Reference!Spec

\* An instruction that faults is retried until it is done: fetching it and
\* its data never keep evicting each other.
InstructionEnds ==
    \A n \in 1 .. 4 :
        Len(stream) = n ~> \/ Len(stream) < n
                           \/ status # "running"
                           \/ trap.type = "Syscall"
=============================================================================
