--------------------------------- MODULE ISA ---------------------------------
(***************************************************************************)
(* What the simulator promises to a user thread: the instructions of its   *)
(* program, one after the other, on registers and a memory of its own.     *)
(* There are no instruction words, frames or page faults; arithmetic is    *)
(* that of the integers.  As in the code, a load to x0 does nothing.       *)
(***************************************************************************)
EXTENDS Words, Sequences

CONSTANTS
    ShamtBits,      \* bits of a shift amount
    PageSize,       \* bytes
    Reg,            \* registers programs use
    Flags,          \* Flags[v]: the permissions of page v of the program
    Image,          \* Image[v][o]: what its byte o holds at first
    SyscallIDs      \* system calls there are

VARIABLES
    regs, pc,
    stream,         \* the instructions still to come
    mem,            \* content of every byte of the program's pages
    request,        \* the system call being served, NoRequest if there is none
    status

vars == <<regs, pc, stream, mem, request, status>>

RegisterOps == {"ADD", "SUB", "SLL", "SLT", "SLTU", "XOR", "SRL", "SRA", "OR",
                "AND", "MUL", "MULH", "MULHSU", "MULHU", "DIV", "DIVU", "REM",
                "REMU"}
ImmediateOps == {"ADDI", "SLTI", "SLTIU", "XORI", "ORI", "ANDI", "SLLI", "SRLI",
                 "SRAI"}
BranchOps == {"BEQ", "BNE", "BLT", "BGE", "BLTU", "BGEU"}
LoadOps == {"LB", "LH", "LW", "LBU", "LHU"}
StoreOps == {"SB", "SH", "SW"}

\* "word" is a word that is no instruction.
Operation ==
    UNION {RegisterOps, ImmediateOps, BranchOps, LoadOps, StoreOps,
           {"LUI", "AUIPC", "JAL", "JALR", "FENCE", "ECALL", "word"}}

Instruction == [op: Operation, rd: Reg, rs1: Reg, rs2: Reg, imm: Int]
NoRequest == -1
Address == {a \in Word : a \div PageSize \in DOMAIN Flags}

Init ==
    /\ regs \in [Reg -> Word] /\ regs[0] = 0
    /\ pc \in Word
    /\ stream \in Seq(Instruction)
    /\ mem = [a \in Address |-> Image[a \div PageSize][a % PageSize]]
    /\ request = NoRequest
    /\ status = "running"

-----------------------------------------------------------------------------
Allowed(a, n, mode) ==
    \A k \in 0 .. n - 1 :
        a + k \in Address /\ mode \in Flags[(a + k) \div PageSize]

\* The instruction at pc.
i == Head(stream)

\* It is one of ops and may be fetched.
At(ops) ==
    /\ status = "running"
    /\ request = NoRequest
    /\ stream # <<>>
    /\ i.op \in ops
    /\ Allowed(pc, 1, "x")

SetReg(r, x) == regs' = IF r = 0 THEN regs ELSE [regs EXCEPT ![r] = Wrap(x)]

Goto(a) ==
    /\ pc' = Wrap(a)
    /\ stream' = Tail(stream)
    /\ UNCHANGED <<request, status>>

Sign(n) == IF n < 0 THEN -1 ELSE IF n = 0 THEN 0 ELSE 1
Abs(n) == Sign(n) * n

\* Division rounds towards zero: the remainder has the dividend's sign.
IsQuotient(a, b, q) ==
    LET r == a - b * q
    IN  Abs(r) < Abs(b) /\ Sign(r) \in {0, Sign(a)}

Quotient(a, b) == CHOOSE q \in -Abs(a) .. Abs(a) : IsQuotient(a, b, q)

Truth(b) == IF b THEN 1 ELSE 0

\* The integer an arithmetic instruction computes; registers keep it modulo
\* the word size.
Value(op, x, y) ==
    LET sx == Signed(x)
        sy == Signed(y)
        scale == 2^(y % 2^ShamtBits)
        width == 2^WordBits
    IN  CASE op \in {"ADD", "ADDI"} -> sx + sy
          [] op = "SUB" -> sx - sy
          [] op \in {"SLL", "SLLI"} -> x * scale
          [] op \in {"SRL", "SRLI"} -> x \div scale
          [] op \in {"SRA", "SRAI"} -> sx \div scale
          [] op \in {"SLT", "SLTI"} -> Truth(sx < sy)
          [] op \in {"SLTU", "SLTIU"} -> Truth(x < y)
          [] op \in {"XOR", "XORI"} -> Xor(x, y)
          [] op \in {"OR", "ORI"} -> Or(x, y)
          [] op \in {"AND", "ANDI"} -> And(x, y)
          [] op = "MUL" -> sx * sy
          [] op = "MULH" -> (sx * sy) \div width
          [] op = "MULHSU" -> (sx * y) \div width
          [] op = "MULHU" -> (x * y) \div width
          [] op = "DIV" -> IF y = 0 THEN -1 ELSE Quotient(sx, sy)
          [] op = "DIVU" -> IF y = 0 THEN -1 ELSE Quotient(x, y)
          [] op = "REM" -> IF y = 0 THEN x ELSE sx - sy * Quotient(sx, sy)
          [] op = "REMU" -> IF y = 0 THEN x ELSE x - y * Quotient(x, y)

Arithmetic ==
    /\ At(RegisterOps \cup ImmediateOps)
    /\ LET y == IF i.op \in RegisterOps THEN regs[i.rs2] ELSE Wrap(i.imm)
       IN  SetReg(i.rd, Value(i.op, regs[i.rs1], y))
    /\ Goto(pc + 4)
    /\ UNCHANGED mem

Upper ==
    /\ At({"LUI", "AUIPC"})
    /\ SetReg(i.rd, (i.imm * 4096) + (IF i.op = "AUIPC" THEN pc ELSE 0))
    /\ Goto(pc + 4)
    /\ UNCHANGED mem

Jump ==
    /\ At({"JAL", "JALR"})
    /\ SetReg(i.rd, pc + 4)
    /\ LET target == regs[i.rs1] + i.imm
       IN  Goto(IF i.op = "JAL" THEN pc + i.imm ELSE target - (target % 2))
    /\ UNCHANGED mem

Taken(op, x, y) ==
    CASE op = "BEQ" -> x = y
      [] op = "BNE" -> x # y
      [] op = "BLT" -> Signed(x) < Signed(y)
      [] op = "BGE" -> Signed(x) >= Signed(y)
      [] op = "BLTU" -> x < y
      [] op = "BGEU" -> x >= y

Branch ==
    /\ At(BranchOps)
    /\ Goto(IF Taken(i.op, regs[i.rs1], regs[i.rs2]) THEN pc + i.imm ELSE pc + 4)
    /\ UNCHANGED <<regs, mem>>

\* Bytes a load or store touches.
Size(op) ==
    CASE op \in {"LB", "LBU", "SB"} -> 1
      [] op \in {"LH", "LHU", "SH"} -> 2
      [] op \in {"LW", "SW"} -> 4

Target == Wrap(regs[i.rs1] + i.imm)

Load ==
    /\ At(LoadOps)
    /\ LET n == Size(i.op)
           x == LittleEndian(mem, Target, n)
           negative == i.op \in {"LB", "LH"} /\ x >= 2^(ByteBits * n - 1)
       IN  \/ i.rd = 0 /\ UNCHANGED regs
           \/ /\ i.rd # 0
              /\ Allowed(Target, n, "r")
              /\ SetReg(i.rd, IF negative THEN x - 2^(ByteBits * n) ELSE x)
    /\ Goto(pc + 4)
    /\ UNCHANGED mem

Store ==
    /\ At(StoreOps)
    /\ LET n == Size(i.op)
           to == Target
       IN  /\ Allowed(to, n, "w")
           /\ mem' = [a \in Address |-> IF a \in to .. to + n - 1
                        THEN ByteOf(regs[i.rs2], a - to) ELSE mem[a]]
    /\ Goto(pc + 4)
    /\ UNCHANGED regs

Fence ==
    /\ At({"FENCE"})
    /\ Goto(pc + 4)
    /\ UNCHANGED <<regs, mem>>

\* An access the program's pages do not permit ends it.
Kill ==
    /\ status = "running"
    /\ request = NoRequest
    /\ stream # <<>>
    /\ \/ ~Allowed(pc, 1, "x")
       \/ /\ i.op \in LoadOps
          /\ i.rd # 0
          /\ ~Allowed(Target, Size(i.op), "r")
       \/ /\ i.op \in StoreOps
          /\ ~Allowed(Target, Size(i.op), "w")
    /\ status' = "killed"
    /\ UNCHANGED <<regs, pc, stream, mem, request>>

\* A word that is no instruction ends the whole system.
Illegal ==
    /\ At({"word"})
    /\ status' = "crashed"
    /\ UNCHANGED <<regs, pc, stream, mem, request>>

Unknown == Wrap(-1)

Call ==
    /\ At({"ECALL"})
    /\ request' = IF regs[17] \in SyscallIDs THEN regs[17] ELSE Unknown
    /\ UNCHANGED <<regs, pc, stream, mem, status>>

\* The system answers in a0 and the thread goes on, or it makes the call again,
\* or its process ends.
Served ==
    /\ status = "running"
    /\ request \in SyscallIDs
    /\ request' = NoRequest
    /\ UNCHANGED mem
    /\ \/ /\ \E x \in Word : regs' = [regs EXCEPT ![10] = x]
          /\ pc' = Wrap(pc + 4)
          /\ stream' = Tail(stream)
          /\ UNCHANGED status
       \/ UNCHANGED <<regs, pc, stream, status>>
       \/ status' = "killed" /\ UNCHANGED <<regs, pc, stream>>

\* There is no such call: the whole system ends.
NotServed ==
    /\ status = "running"
    /\ request = Unknown
    /\ request' = NoRequest
    /\ status' = "crashed"
    /\ UNCHANGED <<regs, pc, stream, mem>>

Next ==
    \/ Arithmetic
    \/ Upper
    \/ Jump
    \/ Branch
    \/ Load
    \/ Store
    \/ Fence
    \/ Illegal
    \/ Call
    \/ Kill
    \/ Served
    \/ NotServed

Spec == Init /\ [][Next]_vars
=============================================================================
