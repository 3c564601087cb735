------------------------------- MODULE Assembly -------------------------------
(***************************************************************************)
(* Instructions as the programmer writes them, and the words the toolchain *)
(* makes of them (RV32IM).  A word is the set of the positions of its      *)
(* ones, 0 to 31.                                                          *)
(***************************************************************************)
EXTENDS Words

\* Mnemonic |-> format, opcode, funct3, funct7.
RegisterForm ==
    [ADD |-> <<0, 0>>, SUB |-> <<0, \b0100000>>, SLL |-> <<1, 0>>,
     SLT |-> <<2, 0>>, SLTU |-> <<3, 0>>, XOR |-> <<4, 0>>, SRL |-> <<5, 0>>,
     SRA |-> <<5, \b0100000>>, OR |-> <<6, 0>>, AND |-> <<7, 0>>,
     MUL |-> <<0, 1>>, MULH |-> <<1, 1>>, MULHSU |-> <<2, 1>>,
     MULHU |-> <<3, 1>>, DIV |-> <<4, 1>>, DIVU |-> <<5, 1>>,
     REM |-> <<6, 1>>, REMU |-> <<7, 1>>]

ImmediateForm ==
    [ADDI |-> 0, SLTI |-> 2, SLTIU |-> 3, XORI |-> 4, ORI |-> 6, ANDI |-> 7]

ShiftForm == [SLLI |-> <<1, 0>>, SRLI |-> <<5, 0>>, SRAI |-> <<5, \b0100000>>]

LoadForm == [LB |-> 0, LH |-> 1, LW |-> 2, LBU |-> 4, LHU |-> 5]

StoreForm == [SB |-> 0, SH |-> 1, SW |-> 2]

BranchForm ==
    [BEQ |-> 0, BNE |-> 1, BLT |-> 4, BGE |-> 5, BLTU |-> 6, BGEU |-> 7]

Mnemonic ==
    UNION {DOMAIN RegisterForm, DOMAIN ImmediateForm, DOMAIN ShiftForm,
           DOMAIN LoadForm, DOMAIN StoreForm, DOMAIN BranchForm,
           {"LUI", "AUIPC", "JAL", "JALR", "ECALL", "FENCE", "word"}}

\* Integers of n bits.
SignedRange(n) == -(2^(n - 1)) .. 2^(n - 1) - 1

\* The toolchain rejects an immediate that does not fit its field.
Fits(i) ==
    /\ i.op \in UNION {DOMAIN ImmediateForm, DOMAIN LoadForm, DOMAIN StoreForm,
                       {"JALR", "FENCE"}} => i.imm \in SignedRange(12)
    /\ i.op \in DOMAIN ShiftForm => i.imm \in 0 .. 31
    /\ i.op \in DOMAIN BranchForm => i.imm \in SignedRange(13) /\ i.imm % 2 = 0
    /\ i.op \in {"LUI", "AUIPC"} => i.imm \in SignedRange(20)
    /\ i.op = "JAL" => i.imm \in SignedRange(21) /\ i.imm % 2 = 0

\* Bits hi .. lo of v, moved to position at.
Put(v, hi, lo, at) == {at + k - lo : k \in Bits(v, hi + 1) \cap (lo .. hi)}

Opcode(n) == Put(n, 6, 0, 0)
Funct3(n) == Put(n, 2, 0, 12)
Funct7(n) == Put(n, 6, 0, 25)
Rd(i) == Put(i.rd, 4, 0, 7)
Rs1(i) == Put(i.rs1, 4, 0, 15)
Rs2(i) == Put(i.rs2, 4, 0, 20)
ImmI(i) == Put(i.imm, 11, 0, 20)
ImmS(i) == Put(i.imm, 11, 5, 25) \cup Put(i.imm, 4, 0, 7)
ImmB(i) ==
    UNION {Put(i.imm, 12, 12, 31), Put(i.imm, 10, 5, 25), Put(i.imm, 4, 1, 8),
           Put(i.imm, 11, 11, 7)}
ImmU(i) == Put(i.imm, 19, 0, 12)
ImmJ(i) ==
    UNION {Put(i.imm, 20, 20, 31), Put(i.imm, 10, 1, 21),
           Put(i.imm, 11, 11, 20), Put(i.imm, 19, 12, 12)}

\* The word the toolchain emits for instruction i.  "word" stands for data in
\* place of an instruction.
Encode(i) ==
    CASE i.op \in DOMAIN RegisterForm ->
            UNION {Opcode(\b0110011), Funct3(RegisterForm[i.op][1]),
                   Funct7(RegisterForm[i.op][2]), Rd(i), Rs1(i), Rs2(i)}
      [] i.op \in DOMAIN ImmediateForm ->
            UNION {Opcode(\b0010011), Funct3(ImmediateForm[i.op]), Rd(i), Rs1(i),
                   ImmI(i)}
      [] i.op \in DOMAIN ShiftForm ->
            UNION {Opcode(\b0010011), Funct3(ShiftForm[i.op][1]),
                   Funct7(ShiftForm[i.op][2]), Rd(i), Rs1(i), Put(i.imm, 4, 0, 20)}
      [] i.op \in DOMAIN LoadForm ->
            UNION {Opcode(\b0000011), Funct3(LoadForm[i.op]), Rd(i), Rs1(i), ImmI(i)}
      [] i.op \in DOMAIN StoreForm ->
            UNION {Opcode(\b0100011), Funct3(StoreForm[i.op]), Rs1(i), Rs2(i),
                   ImmS(i)}
      [] i.op \in DOMAIN BranchForm ->
            UNION {Opcode(\b1100011), Funct3(BranchForm[i.op]), Rs1(i), Rs2(i),
                   ImmB(i)}
      [] i.op = "LUI" -> UNION {Opcode(\b0110111), Rd(i), ImmU(i)}
      [] i.op = "AUIPC" -> UNION {Opcode(\b0010111), Rd(i), ImmU(i)}
      [] i.op = "JAL" -> UNION {Opcode(\b1101111), Rd(i), ImmJ(i)}
      [] i.op = "JALR" -> UNION {Opcode(\b1100111), Rd(i), Rs1(i), ImmI(i)}
      [] i.op = "ECALL" -> Opcode(\b1110011)
      [] i.op = "FENCE" -> Opcode(\b0001111) \cup ImmI(i)
      [] i.op = "word" -> Put(i.imm, 30, 0, 0)
=============================================================================
