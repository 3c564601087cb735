\* Single instructions of every kind on boundary values, and sequences that
\* page, with two frames.
CONSTANTS
    ByteBits = 2
    ShamtBits = 3
    PageSize = 8
    NumFrames = 2
    Reg = {0, 1, 2, 10, 17}
    Flags <- MCFlags
    Image <- MCImage
    SyscallIDs = {0, 1, 2}
    Results = {0, 255}
    Starts <- MCStarts
SPECIFICATION Spec
INVARIANTS
    TypeOK
    DecodesAsWritten
PROPERTIES
    ExecutesISA
    InstructionEnds
