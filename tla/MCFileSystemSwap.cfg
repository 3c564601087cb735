SPECIFICATION Spec
CONSTANTS
    MAX_PROCESS = 1
    FD_TABLE_SIZE = 2
    NumConsoles = 1
    NUM_DISK_BLOCKS = 4
    NUM_SWAP_BLOCKS = 2
    BLOCK_SIZE = 2
    SizeT = 65536
    Name = {a}
    Size = {3, 5}
    Byte = {0, 1}
    Page <- FullPage
    MaxCount = 2
PROPERTIES
    SwappedPageKept
