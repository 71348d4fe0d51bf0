CONSTANTS
    BLOCKS_NUMBER = 7
    SIZE_OF_BLOCK = 7
    blocks_from = 3
    MaxFds = 2
    INODE_NUM = 2
    INDIRECT_BLOCK_GROUP_SIZE = 4
    MaxBlocks = 3
    Sizes = {1, 3}
    Path = {p}
    Payload = {"v"}
    Garbage <- Unset
SPECIFICATION Spec
PROPERTY WriteReadsBack
