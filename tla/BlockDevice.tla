---------------------------- MODULE BlockDevice ----------------------------
(***************************************************************************)
(* filesystem_and_blocks.c: the image file, the block map kept in memory   *)
(* and at the head of the image, the four block operations, and the way    *)
(* the program opens, loads or creates an image when it starts.            *)
(*                                                                         *)
(* Every block operation re-opens the image, works, and closes it again.   *)
(* The early returns do not close: each one costs a descriptor, and once   *)
(* open() fails file_state is -1 and no later call reaches the image.      *)
(***************************************************************************)
EXTENDS Integers

CONSTANTS
    BLOCKS_NUMBER,  \* blocks of the image (4096)
    SIZE_OF_BLOCK,  \* 2048; modify_block and delete_block also use it as a bound on ids
    blocks_from,    \* first data block (514)
    MaxFds,         \* descriptors that may leak before open() fails
    Data,           \* contents of a block
    Zero,           \* the content of a block of a new image
    HostFaults      \* the host calls that may fail: a subset of {"read", "write"}.
                    \* Where any may, a read can come up short: a failed write
                    \* leaves the image short too.

ASSUME DeviceAssumption ==
    /\ BLOCKS_NUMBER \in Nat
    /\ SIZE_OF_BLOCK \in Nat
    /\ blocks_from \in Nat
    /\ 1 < blocks_from
    /\ blocks_from < SIZE_OF_BLOCK
    /\ SIZE_OF_BLOCK <= BLOCKS_NUMBER
    /\ MaxFds \in Nat \ {0}
    /\ Zero \in Data
    /\ HostFaults \subseteq {"read", "write"}

VARIABLES
    \* on the host's disk
    image,              \* "absent", "blank" (no header) or "headed"
    disk_map,           \* the block map of the image: the set of blocks marked in use
    disk,               \* the contents of the blocks
    \* in the process
    phase,              \* "down", "zeroed" and "headed" (inside create_filesystem), "up"
    file_state,         \* "closed" (-1) or "open" (a positive descriptor)
    file_system_path,   \* has the path of the image been recorded?
    block_map,          \* the block map in memory
    leaked,             \* descriptors opened and never closed
    \* history
    handed,             \* blocks returned by write_block and not yet deleted
    reissued            \* blocks returned by write_block while they were in handed

diskVars    == <<image, disk_map, disk>>
processVars == <<phase, file_state, file_system_path, block_map, leaked>>
vars        == <<diskVars, processVars, handed, reissued>>

Block     == 0 .. BLOCKS_NUMBER - 1
DataBlock == blocks_from .. BLOCKS_NUMBER - 1
Reserved  == 0 .. blocks_from - 1

TypeOK ==
    /\ image \in {"absent", "blank", "headed"}
    /\ disk_map \subseteq Block
    /\ disk \in [Block -> Data]
    /\ phase \in {"down", "zeroed", "headed", "up"}
    /\ file_state \in {"closed", "open"}
    /\ file_system_path \in BOOLEAN
    /\ block_map \subseteq Block
    /\ leaked \in 0 .. MaxFds
    /\ handed \subseteq DataBlock
    /\ reissued \subseteq DataBlock

Init ==
    /\ image = "absent"
    /\ disk_map = {}
    /\ disk = [b \in Block |-> Zero]
    /\ phase = "down"
    /\ file_state = "closed"
    /\ file_system_path = FALSE
    /\ block_map = {}
    /\ leaked = 0
    /\ handed = {}
    /\ reissued = {}

-----------------------------------------------------------------------------
(* Start of the program: load_filesystem, then create_filesystem when the  *)
(* load was refused.                                                       *)

\* No image: open() fails, file_state stays -1 and create_filesystem makes
\* the file and fills it with zeros.
CreateImage ==
    /\ phase = "down"
    /\ image = "absent"
    /\ image' = "blank"
    /\ phase' = "zeroed"
    /\ file_state' = "open"
    /\ UNCHANGED <<disk_map, disk, file_system_path, block_map, leaked, handed, reissued>>

\* Mutant: the last reserved block is left unmarked.
CreateHeaderShort ==
    /\ phase = "zeroed"
    /\ image' = "headed"
    /\ phase' = "headed"
    /\ file_system_path' = TRUE
    /\ block_map' = 0 .. blocks_from - 2
    /\ UNCHANGED <<disk_map, disk, file_state, leaked, handed, reissued>>

\* create_filesystem writes the header, records the path and marks the
\* reserved blocks in memory, whether or not the header was written ...
CreateHeader ==
    /\ phase = "zeroed"
    /\ \/ image' = "headed"
       \/ "write" \in HostFaults /\ UNCHANGED image
    /\ phase' = "headed"
    /\ file_system_path' = TRUE
    /\ block_map' = Reserved
    /\ UNCHANGED <<disk_map, disk, file_state, leaked, handed, reissued>>

\* ... and then writes the map. The result of update_super_block is ignored.
CreateMap ==
    /\ phase = "headed"
    /\ \/ disk_map' = block_map
       \/ /\ "write" \in HostFaults
          /\ UNCHANGED disk_map
    /\ phase' = "up"
    /\ UNCHANGED <<image, disk, file_state, file_system_path, block_map, leaked, handed, reissued>>

\* A file without the header, or a read of it that fails: load_filesystem
\* returns an error but leaves its descriptor in file_state, so
\* create_filesystem does nothing and reports success. No path is recorded.
LoadRejected ==
    /\ phase = "down"
    /\ image = "blank" \/ (image = "headed" /\ HostFaults # {})
    /\ phase' = "up"
    /\ file_state' = "open"
    /\ leaked' = 1
    /\ UNCHANGED <<diskVars, file_system_path, block_map, handed, reissued>>

\* Mutant: the map is not read back.
LoadImageWithoutMap ==
    /\ phase = "down"
    /\ image = "headed"
    /\ block_map' = {}
    /\ phase' = "up"
    /\ file_state' = "open"
    /\ file_system_path' = TRUE
    /\ UNCHANGED <<diskVars, leaked, handed, reissued>>

\* The header was read and is right: the map is read into memory. load_super_block may
\* fail, its result is ignored, and the map in memory is then empty: what the
\* blocks of the image belonged to is forgotten.
LoadImage ==
    /\ phase = "down"
    /\ image = "headed"
    /\ phase' = "up"
    /\ file_state' = "open"
    /\ file_system_path' = TRUE
    /\ UNCHANGED <<diskVars, leaked, reissued>>
    /\ \/ block_map' = disk_map /\ UNCHANGED handed
       \/ HostFaults # {} /\ block_map' = {} /\ handed' = {}

-----------------------------------------------------------------------------
(* The block operations.                                                   *)

\* Mutant: descriptors are not counted.
OpenedUncounted ==
    /\ phase = "up"
    /\ file_state = "open"
    /\ file_system_path

\* open() succeeds.
Opened ==
    /\ phase = "up"
    /\ file_state = "open"
    /\ file_system_path
    /\ leaked < MaxFds

\* file_state is -1 already, or open() fails now and makes it -1.
Unavailable ==
    /\ phase = "up"
    /\ ~Opened
    /\ file_state' = "closed"
    /\ UNCHANGED <<diskVars, phase, file_system_path, block_map, leaked, handed, reissued>>

\* The answers map_check may give: the bit on disk, or TRUE if the map could
\* not be read.
map_check(id) ==
    {id \in disk_map} \cup (IF HostFaults # {} THEN {TRUE} ELSE {})

\* An early return between open() and close().
ReturnWithoutClose ==
    /\ Opened
    /\ leaked' = leaked + 1
    /\ UNCHANGED <<image, disk_map, phase, file_state, file_system_path>>

\* A write() that failed may have changed any part of the block.
Garbled(id) == \E d \in Data : disk' = [disk EXCEPT ![id] = d]

modify_block(id, d) ==
    LET accepted == id < SIZE_OF_BLOCK /\ id # 0
    IN \/ Unavailable
       \/ /\ ~accepted \/ FALSE \in map_check(id)
          /\ ReturnWithoutClose
          /\ UNCHANGED <<disk, block_map, handed, reissued>>
       \/ /\ accepted /\ TRUE \in map_check(id)
          /\ "write" \in HostFaults
          /\ ReturnWithoutClose
          /\ Garbled(id)
          /\ UNCHANGED <<block_map, handed, reissued>>
       \/ /\ accepted /\ TRUE \in map_check(id)
          /\ Opened
          /\ disk' = [disk EXCEPT ![id] = d]
          /\ UNCHANGED <<image, disk_map, processVars, handed, reissued>>

\* Reading accepts every id up to BLOCKS_NUMBER.
read_block(id) ==
    \/ Unavailable
    \/ /\ id = 0 \/ FALSE \in map_check(id) \/ HostFaults # {}
       /\ ReturnWithoutClose
       /\ UNCHANGED <<disk, block_map, handed, reissued>>
    \/ /\ id # 0 /\ TRUE \in map_check(id)
       /\ Opened
       /\ UNCHANGED vars

\* Mutants: the map is not consulted; a map that cannot be read means "free".
FreeUnchecked == DataBlock
FreeOnReadError ==
    {b \in DataBlock : b \notin disk_map \/ HostFaults # {}}

\* The blocks assign_block may settle on: the first one map_check calls free.
Free == {b \in DataBlock : b \notin disk_map}

assignable(b) ==
    /\ b \in Free
    /\ HostFaults # {} \/ \A c \in Free : b <= c

\* Mutants: the map is not written out; it is written out before the mark is set.
assign_block_unsaved(b) ==
    /\ assignable(b)
    /\ block_map' = block_map \cup {b}
    /\ UNCHANGED disk_map
assign_block_swapped(b) ==
    /\ assignable(b)
    /\ block_map' = block_map \cup {b}
    /\ disk_map' = block_map

\* assign_block marks b in memory and writes the whole map out.
assign_block(b) ==
    /\ assignable(b)
    /\ block_map' = block_map \cup {b}
    /\ disk_map' = block_map'

\* History: the caller is given b.
Granted(b) ==
    /\ handed' = handed \cup {b}
    /\ reissued' = reissued \cup (handed \cap {b})

\* write_block that leaves b in *block_id and d in the block.
WriteBlockDone(b, d) ==
    /\ Opened
    /\ assign_block(b)
    /\ disk' = [disk EXCEPT ![b] = d]
    /\ Granted(b)
    /\ UNCHANGED <<image, phase, file_state, file_system_path, leaked>>

\* write_block that assigned b, then failed to write the contents: *block_id
\* is b all the same.
WriteBlockTorn(b) ==
    /\ "write" \in HostFaults
    /\ Opened
    /\ assign_block(b)
    /\ Garbled(b)
    /\ Granted(b)
    /\ leaked' = leaked + 1
    /\ UNCHANGED <<image, phase, file_state, file_system_path>>

\* write_block that leaves 0 in *block_id: no block is free, or the map could
\* not be written and the mark stays in memory only.
WriteBlockFull ==
    /\ ReturnWithoutClose
    /\ \/ /\ Free = {} \/ HostFaults # {}
          /\ UNCHANGED block_map
       \/ /\ "write" \in HostFaults
          /\ \E b \in DataBlock : assignable(b) /\ block_map' = block_map \cup {b}
    /\ UNCHANGED <<disk, handed, reissued>>

write_block(d) ==
    \/ Unavailable
    \/ WriteBlockFull
    \/ \E b \in DataBlock : WriteBlockDone(b, d) \/ WriteBlockTorn(b)

\* release_block clears the mark in memory and writes the map out; its failure
\* is ignored.
delete_block(id) ==
    LET accepted == id < SIZE_OF_BLOCK /\ id # 0
    IN \/ Unavailable
       \/ /\ ~accepted \/ FALSE \in map_check(id)
          /\ ReturnWithoutClose
          /\ UNCHANGED <<disk, block_map, handed, reissued>>
       \/ /\ accepted /\ TRUE \in map_check(id)
          /\ Opened
          /\ block_map' = block_map \ {id}
          /\ \/ disk_map' = block_map'
             \/ "write" \in HostFaults /\ UNCHANGED disk_map
          /\ handed' = handed \ {id}
          /\ UNCHANGED <<image, disk, phase, file_state, file_system_path, leaked, reissued>>

-----------------------------------------------------------------------------
(* The process ends: a stop command, a kill, a crash. Completed writes     *)
(* stay in the image.                                                      *)

ProcessGone ==
    /\ phase' = "down"
    /\ file_state' = "closed"
    /\ file_system_path' = FALSE
    /\ block_map' = {}
    /\ leaked' = 0

Halt ==
    /\ phase # "down"
    /\ ProcessGone
    /\ UNCHANGED <<diskVars, handed, reissued>>

\* The process ends inside write_block, after the map and before the contents.
HaltInWriteBlock ==
    /\ Opened
    /\ \E b \in DataBlock : assignable(b) /\ disk_map' = block_map \cup {b}
    /\ ProcessGone
    /\ UNCHANGED <<image, disk, handed, reissued>>

Next ==
    \/ CreateImage
    \/ CreateHeader
    \/ CreateMap
    \/ LoadRejected
    \/ LoadImage
    \/ \E id \in Block, d \in Data : modify_block(id, d)
    \/ \E id \in Block : read_block(id)
    \/ \E d \in Data : write_block(d)
    \/ \E id \in DataBlock \cup {0} : delete_block(id)
    \/ Halt
    \/ HaltInWriteBlock

Spec == Init /\ [][Next]_vars

-----------------------------------------------------------------------------
(* Properties.                                                             *)

\* No block is lost to its owner (assign_block, release_block,
\* load_filesystem): a block handed out and not deleted is marked in use in
\* the image, at every moment, and in the memory of every session that
\* recorded the path of its image. A session that did not has an empty map in
\* memory, and no call by which it could reach the image.
HandedAllocated ==
    /\ handed \subseteq disk_map
    /\ phase = "up" /\ file_system_path => handed \subseteq block_map

\* The reserved blocks (filesystem_and_blocks.c:92) are marked all together or
\* not at all: no sequence of allocations, deletions and restarts opens part of
\* the inode area to data.
ReservedWhole == (disk_map \cap Reserved) \in {{}, Reserved}

\* Every change of the map in memory reaches the image before the call returns
\* (update_super_block in assign_block and release_block), so a restart reads
\* back the map the program was using.
MapCoherent ==
    HostFaults = {} /\ phase = "up" => block_map = disk_map

\* The block layer is an allocator: it never hands out an owned block.
Allocator == INSTANCE BlockAllocator WITH
                 used <- handed, doubled <- reissued,
                 MayForget <- HostFaults # {}
AllocatorSpec == Allocator!Spec

\* main.c:16 takes a negative result of Init for "the image cannot be used";
\* a program that is serving therefore has an image it can open.
InitMeansUsable == phase = "up" => file_system_path
=============================================================================
