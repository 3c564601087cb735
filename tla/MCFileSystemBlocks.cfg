SPECIFICATION Spec
CONSTANTS
    MAX_PROCESS = 1
    FD_TABLE_SIZE = 2
    NumConsoles = 1
    NUM_DISK_BLOCKS = 5
    NUM_SWAP_BLOCKS = 1
    BLOCK_SIZE = 2
    SizeT = 65536
    Name = {a, b}
    Size = {0, 3, 11}
    Byte = {0, 1}
    Page <- FullPage
    MaxCount = 2
SYMMETRY Renamings
INVARIANTS
    TypeOK
    FilesDisjoint
PROPERTIES
    FilesAreByteArrays
    SwappedPageKept
