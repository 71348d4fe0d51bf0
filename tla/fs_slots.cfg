CONSTANTS
    BLOCKS_NUMBER = 4
    SIZE_OF_BLOCK = 4
    blocks_from = 3
    MaxFds = 2
    INODE_NUM = 2
    INDIRECT_BLOCK_GROUP_SIZE = 2
    MaxBlocks = 1
    Sizes = {1}
    Path = {p}
    Payload = {"v"}
    Garbage <- Unset
SPECIFICATION Spec
PROPERTY CreateSucceeds
