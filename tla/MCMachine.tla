------------------------------ MODULE MCMachine ------------------------------
(***************************************************************************)
(* Programs, registers and a program image for TLC: words of 8 bits in     *)
(* bytes of 2, pages of 8 bytes.  No access reaches over the end of its    *)
(* page.                                                                   *)
(***************************************************************************)
EXTENDS Machine, TLC

\* Two pages of code, two of data, one that may only be read.
MCFlags == 0 :> {"r", "x"} @@ 1 :> {"r", "x"} @@ 2 :> {"r", "w"}
           @@ 3 :> {"r", "w"} @@ 4 :> {"r"}
MCImage == [v \in 0 .. 4 |-> [o \in 0 .. 7 |-> (v + 3 * o + (o \div 3)) % 4]]

Instr(op, d, s, t, imm) == [op |-> op, rd |-> d, rs1 |-> s, rs2 |-> t, imm |-> imm]
Start(program, a, b) ==
    [program |-> program, pc |-> 0,
     regs |-> (0 :> 0 @@ 1 :> a @@ 2 :> b @@ 10 :> 77 @@ 17 :> b)]

Values == {0, 1, 2, 3, 7, 8, 15, 64, 100, 126, 127, 128, 129, 200, 254, 255}
Few == {0, 1, 127, 128, 255}
Imm12 == {0, 1, -1, 5, 127, 128, -128, 1365, 2047, -2048}

Probe == Instr("ADDI", 2, 1, 0, 3)

Arithmetics ==
    {Start(<<Instr(op, 10, 1, 2, 0)>>, a, b) :
        op \in DOMAIN RegisterForm, a, b \in Values}
    \cup {Start(<<Instr(op, d, s, t, 0)>>, 3, 254) :
        op \in {"ADD", "DIV"}, d, s, t \in {0, 1, 2, 10}}
    \cup {Start(<<Instr(op, d, 1, 0, imm)>>, a, 0) :
        op \in DOMAIN ImmediateForm, d \in {0, 1}, imm \in Imm12, a \in Values}
    \cup {Start(<<Instr(op, d, 1, 0, imm)>>, a, 0) :
        op \in DOMAIN ShiftForm, d \in {0, 2}, imm \in 0 .. 7, a \in Values}

Jumps ==
    {Start(<<Instr("JAL", 0, 0, 0, 8), Instr(op, d, 0, 0, imm)>>, 0, 0) :
        op \in {"LUI", "AUIPC"}, d \in {0, 2}, imm \in {0, 1, 74565, -1, -2^19}}
    \cup {Start(<<Instr("JAL", d, 0, 0, imm), Probe>>, 0, 0) :
        d \in {0, 1}, imm \in {0, 4, 8, 12, 24, -8, 682, 2048, 349526, 2^20 - 2, -2^20}}
    \cup {Start(<<Instr("JALR", d, 1, 0, imm), Probe>>, a, 0) :
        d \in {0, 1}, imm \in Imm12, a \in Values}
    \cup {Start(<<Instr(op, 0, 1, 2, imm), Probe>>, a, b) :
        op \in DOMAIN BranchForm, a, b \in Few, imm \in {8, 12, -8, 32, 2730, 4094, -4096}}

Accesses ==
    {s \in {Start(<<Instr(op, d, 1, 2, imm)>>, a, b) :
              op \in DOMAIN LoadForm \cup DOMAIN StoreForm, d \in {0, 1, 10},
              imm \in {0, 3, -1, 2047}, a \in {0, 8, 17, 20, 24, 31, 33, 38, 40, 255},
              b \in {78, 177}} :
        ((s.regs[1] + s.program[1].imm) % 8) + Width[s.program[1].op] <= 8}

\* Sequences of accesses and jumps for which two frames are not enough.
Traffic ==
    {Start(program, 16, b) : program \in [1 .. 4 ->
        {Instr("SW", 0, 1, 2, 2), Instr("SB", 0, 1, 10, 4), Instr("LH", 10, 1, 0, 3),
         Instr("SH", 0, 1, 10, 9), Instr("LBU", 2, 1, 0, 10), Instr("LW", 10, 1, 0, 20),
         Instr("JAL", 0, 0, 0, 8)}], b \in {198}}

\* Opcode, funct3 and funct7 of words that are no instructions: reserved ones,
\* and those of extensions the simulator does not have.
NoInstructions ==
    UNION {{\h33} \X (0 .. 7) \X {2}, {\h33} \X {1, 2, 3, 4, 6, 7} \X {\h20},
           {\h13} \X {1} \X {1, \h20}, {\h13} \X {5} \X {1, \h21},
           {\h23} \X (3 .. 7) \X {0}, {\h63} \X {2, 3} \X {0},
           {\h03} \X {3, 6, 7} \X {0}, {\h73} \X {0} \X {1},
           {\h73} \X (1 .. 7) \X {0}, {\h0F} \X (2 .. 7) \X {0},
           {\h00, \h2F, \h7B} \X {0, 2} \X {0}}

Traps ==
    {Start(<<Instr("ECALL", 0, 0, 0, 0), Instr(op, 0, 0, 0, imm)>>, 0, b) :
        op \in {"FENCE"}, imm \in {0, 255}, b \in {0, 1, 2, 3, 255}}
    \cup {Start(<<Instr("word", 0, 0, 0, w[1] + 2^12 * w[2] + 2^25 * w[3])>>, 0, 0) :
        w \in NoInstructions}

MCStarts == UNION {Arithmetics, Jumps, Accesses, Traffic, Traps}
=============================================================================
