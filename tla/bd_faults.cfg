CONSTANTS
    BLOCKS_NUMBER = 6
    SIZE_OF_BLOCK = 5
    blocks_from = 2
    MaxFds = 2
    Data = {"zero", "text"}
    Zero = "zero"
    HostFaults = {"read","write"}
SPECIFICATION Spec
INVARIANTS HandedAllocated
PROPERTY AllocatorSpec
