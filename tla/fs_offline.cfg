CONSTANTS
    BLOCKS_NUMBER = 6
    SIZE_OF_BLOCK = 5
    blocks_from = 3
    MaxFds = 1
    INODE_NUM = 2
    INDIRECT_BLOCK_GROUP_SIZE = 3
    MaxBlocks = 2
    Sizes = {1, 2}
    Path = {p}
    Payload = {"v"}
    Garbage <- Unset
SPECIFICATION Spec
INVARIANT WrittenThrough
PROPERTY CommandEnds
