CONSTANTS
    INDIRECT_BLOCK_GROUP_SIZE = 3
    Pointers = 2
    Block <- Blocks
    SIZE_OF_BLOCK = 8
    File = {f, g}
    Payload = {"v"}
    Garbage <- Locals
SPECIFICATION Spec
CONSTRAINT FirstReuse
INVARIANTS TypeOK FirstWriteStored MapIsOwned
