CONSTANTS
    BLOCKS_NUMBER = 6
    SIZE_OF_BLOCK = 6
    blocks_from = 3
    MaxFds = 2
    INODE_NUM = 3
    INDIRECT_BLOCK_GROUP_SIZE = 3
    MaxBlocks = 2
    Sizes = {1, 2}
    Path = {p, q}
    Payload = {"v"}
    Garbage <- Unset
SPECIFICATION Spec
INVARIANTS TypeOK NoSharing NoDangling
SYMMETRY Symmetry
CONSTRAINT UncutAndOnline
