----------------------------- MODULE FileStore -----------------------------
(***************************************************************************)
(* inode.c and the file half of directories_and_files.c, over the block    *)
(* operations of BlockDevice: the inode bitmap, the inodes, the table of   *)
(* inodes kept in memory, and the four file operations (create, write,     *)
(* read, delete) cut into the block calls they make, so that the process   *)
(* can die, and the image can become unreachable, between any two of them. *)
(*                                                                         *)
(* Sizes are counted in blocks: a file_size of n stands for the sizes      *)
(* whose file_size / SIZE_OF_BLOCK + 1 is n, and 0 for an empty file.      *)
(* MaxBlocks keeps files clear of the indirect block.                      *)
(***************************************************************************)
EXTENDS Integers

CONSTANTS
    BLOCKS_NUMBER, SIZE_OF_BLOCK, blocks_from, MaxFds,  \* see BlockDevice
    INODE_NUM,      \* inodes, and slots of the table
    INDIRECT_BLOCK_GROUP_SIZE,  \* pointers to data blocks in an inode (12)
    MaxBlocks,      \* blocks of the largest file
    Sizes,          \* the sizes that are written, in blocks
    Path,           \* paths of files
    Payload,        \* what is written into a file
    Garbage         \* what an int that was never written may hold

\* The names of a slot that names nothing, and of the root.
Unnamed  == ""
Removed  == " "
RootName == "/"

ASSUME FileStoreAssumption ==
    /\ BLOCKS_NUMBER \in Nat /\ SIZE_OF_BLOCK \in Nat /\ blocks_from \in Nat
    /\ 3 <= blocks_from
    /\ blocks_from < SIZE_OF_BLOCK
    /\ SIZE_OF_BLOCK <= BLOCKS_NUMBER
    /\ MaxFds \in Nat \ {0}
    /\ INODE_NUM \in Nat \ {0}
    /\ INDIRECT_BLOCK_GROUP_SIZE \in Nat
    /\ MaxBlocks \in Nat \ {0}
    /\ MaxBlocks < INDIRECT_BLOCK_GROUP_SIZE
    /\ Sizes \subseteq 1 .. MaxBlocks
    /\ {Unnamed, Removed, RootName} \cap Path = {}
    /\ Garbage \subseteq Int /\ Garbage # {}

VARIABLES
    \* the device: see BlockDevice. Blocks 1 and 2 hold the inode bitmap and
    \* the inodes.
    image, disk_map, disk, phase, file_state, file_system_path, block_map, leaked,
    handed, reissued,
    \* memory of the process
    superblock_inode,   \* the inode bitmap: the set of ids in use
    inode_entries,      \* the table of inodes
    \* the operation under way
    pc,                 \* the call it makes next; "idle" between operations
    cur,                \* the slot it works on (create: the id)
    i,                  \* its loop counter
    block_inuse,        \* write_file: blocks of the file when it was called
    arg,                \* what is written (create: the path)
    \* history
    cut,                \* the kinds of operation that were left unfinished
    expect              \* what each inode should read back as

deviceVars == <<image, disk_map, disk, phase, file_state, file_system_path, block_map,
                leaked, handed, reissued>>
memoryVars == <<superblock_inode, inode_entries>>
opVars     == <<pc, cur, i, block_inuse, arg>>
vars       == <<deviceVars, memoryVars, opVars, cut, expect>>

Id         == 0 .. INODE_NUM - 1
Index      == 0 .. INDIRECT_BLOCK_GROUP_SIZE - 1
SUPERBLOCK_ID == 1
InodeBlock == 2

\* A block holds a piece of a file; blocks 1 and 2 hold their own kind.
Zero  == <<"zero", 0>>
Piece == (Payload \X (0 .. MaxBlocks - 1)) \cup {Zero}

Dev == INSTANCE BlockDevice WITH Data <- Piece, HostFaults <- {}

NoBlocks == [k \in Index |-> 0]
Inode(id, name, size, blocks) ==
    [inode_id |-> id, filename |-> name, file_size |-> size, num |-> blocks]

EmptySlot == Inode(-1, Unnamed, 0, NoBlocks)   \* a slot no inode was found for
DeadSlot  == Inode(-1, Removed, 0, NoBlocks)   \* what delete_inode_from_table leaves
Root      == Inode(0, RootName, 0, NoBlocks)

Unknown == <<"unknown">>

-----------------------------------------------------------------------------
(* Helpers of the code.                                                    *)

First(S) == CHOOSE m \in S : \A k \in S : m <= k

\* get_inode_from_path: the first slot that holds a file of this path.
Slots(p) ==
    {s \in Id : inode_entries[s].inode_id # -1 /\ inode_entries[s].filename = p}
get_inode_from_path(p) == First(Slots(p))

\* The first pointer that is 0: pointers are filled from the left.
InUse(n) == First({k \in Index : n.num[k] = 0})

\* The slots insert_inode_into_table may take.
FreeSlots == {s \in Id : inode_entries[s] = EmptySlot}

\* Mutant: the search runs one id too far.
FreeIdsTooFar == (0 .. INODE_NUM) \ superblock_inode

\* create_inode takes the first id whose bit is clear.
FreeIds == Id \ superblock_inode

\* init_dir: an inode is loaded when its bit is set and its own id is right.
Live(id) == id \in disk[SUPERBLOCK_ID] /\ disk[InodeBlock][id].inode_id = id
Loaded   == [id \in Id |-> IF Live(id) THEN disk[InodeBlock][id] ELSE EmptySlot]

\* Mutant: the bitmap stays in memory.
save_inode_bitmap_unsaved(map) ==
    /\ superblock_inode' = map
    /\ UNCHANGED deviceVars

\* set_inode_bitmap and clear_inode_bitmap: memory first, then block 1.
save_inode_bitmap(map) ==
    /\ superblock_inode' = map
    /\ Dev!modify_block(SUPERBLOCK_ID, map)

\* update_inode: read the group, replace one inode, write the group back.
update_inode(n) ==
    Dev!modify_block(InodeBlock, [disk[InodeBlock] EXCEPT ![n.inode_id] = n])

Idle == pc' = "idle" /\ cur' = 0 /\ i' = 0 /\ block_inuse' = 0 /\ arg' = "none"

-----------------------------------------------------------------------------
(* History.                                                                *)

\* The kind of operation under way.
Kind ==
    CASE pc = "idle" \/ pc = "read"      -> {}
      [] pc = "create"                   -> {"create"}
      [] pc \in {"delete", "clear"}      -> {"delete"}
      [] OTHER -> IF block_inuse > inode_entries[cur].file_size
                  THEN {"shrink"} ELSE {"write"}

\* A step of an operation that finds the image unreachable leaves it unfinished.
Continue ==
    cut' = IF file_state = "open" /\ file_state' = "closed"
           THEN cut \cup Kind ELSE cut

\* The contents of an inode are unknown while an operation changes them.
Disturb(id) ==
    expect' = IF file_state = "open" THEN [expect EXCEPT ![id] = Unknown] ELSE expect

-----------------------------------------------------------------------------
\* The state create_filesystem and init_dir leave: a formatted image, the
\* program serving, the root directory created.
Init ==
    /\ image = "headed"
    /\ file_system_path = TRUE
    /\ handed = {}
    /\ reissued = {}
    /\ disk_map = 0 .. blocks_from - 1
    /\ disk = [b \in 0 .. BLOCKS_NUMBER - 1 |->
                  CASE b = SUPERBLOCK_ID -> {0}
                    [] b = InodeBlock    ->
                           [id \in Id |-> IF id = 0 THEN Root ELSE Inode(0, Unnamed, 0, NoBlocks)]
                    [] OTHER             -> Zero]
    /\ phase = "up"
    /\ file_state = "open"
    /\ block_map = disk_map
    /\ leaked = 0
    /\ superblock_inode = {0}
    /\ inode_entries = [s \in Id |-> IF s = 0 THEN Root ELSE EmptySlot]
    /\ pc = "idle" /\ cur = 0 /\ i = 0 /\ block_inuse = 0 /\ arg = "none"
    /\ cut = {}
    /\ expect = [id \in Id |-> Unknown]

-----------------------------------------------------------------------------
(* create_file: create_inode marks the inode and then writes it; the table *)
(* may have no slot for it, and the result of the insertion is ignored.    *)

create_file(p) ==
    /\ pc = "idle" /\ phase = "up"
    /\ Slots(p) = {}
    /\ FreeIds # {}
    /\ save_inode_bitmap(superblock_inode \cup {First(FreeIds)})
    /\ pc' = "create"
    /\ cur' = First(FreeIds)
    /\ arg' = p
    /\ UNCHANGED <<inode_entries, i, block_inuse, cut, expect>>

FinishCreate ==
    LET n == Inode(cur, arg, 0, NoBlocks)
    IN /\ pc = "create"
       /\ update_inode(n)
       /\ inode_entries' = IF FreeSlots = {} THEN inode_entries
                           ELSE [inode_entries EXCEPT ![First(FreeSlots)] = n]
       /\ Idle
       /\ Continue
       /\ expect' = IF file_state' = "open" THEN [expect EXCEPT ![cur] = <<"empty", 0>>]
                    ELSE expect
       /\ UNCHANGED superblock_inode

-----------------------------------------------------------------------------
(* write_file_by_path and write_file. The blocks the file holds are        *)
(* counted once; a file that grows overwrites those and appends the rest,  *)
(* a file that shrinks first releases blocks, from index                   *)
(* block_inuse - file_size on, and then overwrites.                        *)

inode == inode_entries[cur]
Grows   == block_inuse < inode.file_size
Shrinks == block_inuse > inode.file_size

\* Set the pointer at index i of the file under way.
SetPointer(b) ==
    inode_entries' = [inode_entries EXCEPT ![cur].num[i] = b]

\* The blocks overwritten, and what follows them.
Overwritten == IF Grows THEN block_inuse ELSE inode.file_size
AfterOverwrite ==
    IF Grows THEN "append" ELSE IF Shrinks THEN "release_indirect" ELSE "update"

\* The next round of a loop that ends at last, or what comes after it.
Loop(last, here, after) ==
    /\ i' = i + 1
    /\ pc' = IF i + 1 = last THEN after ELSE here
    /\ UNCHANGED <<cur, block_inuse, arg>>

write_file_by_path(p, size, v) ==
    /\ pc = "idle" /\ phase = "up"
    /\ Slots(p) # {}
    /\ LET s     == get_inode_from_path(p)
           inuse == InUse(inode_entries[s])
       IN /\ cur' = s
          /\ block_inuse' = inuse
          /\ i' = IF inuse > size THEN inuse - size ELSE 0
          /\ pc' = IF inuse > size THEN "release"
                   ELSE IF inuse = 0 THEN "append" ELSE "overwrite"
          /\ inode_entries' = [inode_entries EXCEPT ![s].file_size = size]
          /\ Disturb(inode_entries[s].inode_id)
    /\ arg' = v
    /\ UNCHANGED <<deviceVars, superblock_inode, cut>>

\* Mutants: the pointer is kept; the block is kept.
ReleaseTailPointerKept ==
    /\ pc = "release"
    /\ Dev!delete_block(inode.num[i])
    /\ IF i + 1 = block_inuse
       THEN i' = 0 /\ pc' = "overwrite" /\ UNCHANGED <<cur, block_inuse, arg>>
       ELSE i' = i + 1 /\ UNCHANGED <<pc, cur, block_inuse, arg>>
    /\ Continue
    /\ UNCHANGED <<memoryVars, expect>>
ReleaseTailBlockKept ==
    /\ pc = "release"
    /\ SetPointer(0)
    /\ IF i + 1 = block_inuse
       THEN i' = 0 /\ pc' = "overwrite" /\ UNCHANGED <<cur, block_inuse, arg>>
       ELSE i' = i + 1 /\ UNCHANGED <<pc, cur, block_inuse, arg>>
    /\ UNCHANGED <<deviceVars, superblock_inode, cut, expect>>

ReleaseTail ==
    /\ pc = "release"
    /\ Dev!delete_block(inode.num[i])
    /\ SetPointer(0)
    /\ IF i + 1 = block_inuse
       THEN i' = 0 /\ pc' = "overwrite" /\ UNCHANGED <<cur, block_inuse, arg>>
       ELSE i' = i + 1 /\ UNCHANGED <<pc, cur, block_inuse, arg>>
    /\ Continue
    /\ UNCHANGED <<superblock_inode, expect>>

\* Mutant: every block gets the first piece of the file.
OverwriteUnshifted ==
    /\ pc = "overwrite"
    /\ Dev!modify_block(inode.num[i], <<arg, 0>>)
    /\ Loop(Overwritten, "overwrite", AfterOverwrite)
    /\ Continue
    /\ UNCHANGED <<memoryVars, expect>>

Overwrite ==
    /\ pc = "overwrite"
    /\ Dev!modify_block(inode.num[i], <<arg, i>>)
    /\ Loop(Overwritten, "overwrite", AfterOverwrite)
    /\ Continue
    /\ UNCHANGED <<memoryVars, expect>>

\* Mutant: a call that could not open the image is made again.
AppendRetrying ==
    /\ pc = "append"
    /\ \/ /\ \/ \E b \in Dev!DataBlock : Dev!WriteBlockDone(b, <<arg, i>>) /\ SetPointer(b)
             \/ Dev!WriteBlockFull /\ SetPointer(0)
          /\ Loop(inode.file_size, "append", "update")
       \/ Dev!Unavailable /\ UNCHANGED <<inode_entries, opVars>>
    /\ Continue
    /\ UNCHANGED <<superblock_inode, expect>>

\* What block_id_buf holds before the round: the result of the round before,
\* which that one stored, or what an uninitialised int happens to hold.
block_id_buf == IF i > block_inuse THEN {inode.num[i - 1]} ELSE Garbage

\* write_block leaves the new block in block_id_buf, 0 when no block is free,
\* and what was there when the image cannot be opened.
Append ==
    /\ pc = "append"
    /\ \/ \E b \in Dev!DataBlock : Dev!WriteBlockDone(b, <<arg, i>>) /\ SetPointer(b)
       \/ Dev!WriteBlockFull /\ SetPointer(0)
       \/ Dev!Unavailable /\ \E b \in block_id_buf : SetPointer(b)
    /\ Loop(inode.file_size, "append", "update")
    /\ Continue
    /\ UNCHANGED <<superblock_inode, expect>>

\* A file that shrank gives its indirect block back even when it has none.
ReleaseIndirect ==
    /\ pc = "release_indirect"
    /\ Dev!delete_block(0)
    /\ pc' = "update"
    /\ Continue
    /\ UNCHANGED <<memoryVars, cur, i, block_inuse, arg, expect>>

\* Mutant: the inode is written back only when the file grew.
FinishWriteLazy ==
    /\ pc = "update"
    /\ IF Grows THEN update_inode(inode) ELSE UNCHANGED deviceVars
    /\ Idle
    /\ Continue
    /\ UNCHANGED <<memoryVars, expect>>

\* The write is acknowledged. What it should read back as is known when it
\* did not shrink the file, found all its blocks, and overwrote none that lies
\* where modify_block refuses to go.
Complete ==
    /\ ~Shrinks
    /\ InUse(inode) >= inode.file_size
    /\ \A k \in 0 .. Overwritten - 1 : inode.num[k] < SIZE_OF_BLOCK

FinishWrite ==
    /\ pc = "update"
    /\ update_inode(inode)
    /\ Idle
    /\ Continue
    /\ expect' = IF file_state' = "open" /\ Complete
                 THEN [expect EXCEPT ![inode.inode_id] = <<arg, inode.file_size>>]
                 ELSE expect
    /\ UNCHANGED memoryVars

-----------------------------------------------------------------------------
(* read_file_by_path: every block up to the first pointer that is 0,       *)
(* whatever the size; nothing at all when the size is 0.                   *)

read_file_by_path(p) ==
    /\ pc = "idle" /\ phase = "up"
    /\ Slots(p) # {}
    /\ LET s == get_inode_from_path(p)
       IN /\ inode_entries[s].file_size # 0
          /\ InUse(inode_entries[s]) # 0
          /\ cur' = s
    /\ pc' = "read"
    /\ UNCHANGED <<deviceVars, memoryVars, i, block_inuse, arg, cut, expect>>

ReadBlock ==
    /\ pc = "read"
    /\ Dev!read_block(inode.num[i])
    /\ IF inode.num[i + 1] = 0 THEN Idle
       ELSE i' = i + 1 /\ UNCHANGED <<pc, cur, block_inuse, arg>>
    /\ UNCHANGED <<memoryVars, cut, expect>>

-----------------------------------------------------------------------------
(* delete_file_by_path: delete_file releases the blocks, then clears the   *)
(* bit; the slot is then marked dead.                                      *)

delete_file_by_path(p) ==
    /\ pc = "idle" /\ phase = "up"
    /\ Slots(p) # {}
    /\ LET s == get_inode_from_path(p)
       IN /\ cur' = s
          /\ pc' = IF InUse(inode_entries[s]) = 0 THEN "clear" ELSE "delete"
          /\ Disturb(inode_entries[s].inode_id)
    /\ UNCHANGED <<deviceVars, memoryVars, i, block_inuse, arg, cut>>

DeleteBlock ==
    /\ pc = "delete"
    /\ Dev!delete_block(inode.num[i])
    /\ Loop(InUse(inode), "delete", "clear")
    /\ Continue
    /\ UNCHANGED <<memoryVars, expect>>

FinishDelete ==
    /\ pc = "clear"
    /\ save_inode_bitmap(superblock_inode \ {inode.inode_id})
    /\ inode_entries' = [inode_entries EXCEPT ![cur] = DeadSlot]
    /\ Idle
    /\ Continue
    /\ UNCHANGED expect

-----------------------------------------------------------------------------
(* The process dies, between two block calls or inside write_block with    *)
(* the map written and the block not, and is started again:                *)
(* load_filesystem, init_superblock, init_dir.                             *)

Crash ==
    /\ Dev!Halt \/ (pc = "append" /\ Dev!HaltInWriteBlock)
    /\ superblock_inode' = {}
    /\ inode_entries' = [s \in Id |-> EmptySlot]
    /\ Idle
    /\ cut' = IF file_state = "open" THEN cut \cup Kind ELSE cut
    /\ UNCHANGED expect

Restart ==
    /\ Dev!LoadImage
    /\ superblock_inode' = disk[SUPERBLOCK_ID]
    /\ inode_entries' = Loaded
    /\ UNCHANGED <<opVars, cut, expect>>

Command ==
    \E p \in Path :
        \/ create_file(p)
        \/ \E size \in Sizes, v \in Payload : write_file_by_path(p, size, v)
        \/ read_file_by_path(p)
        \/ delete_file_by_path(p)

Step ==
    \/ FinishCreate
    \/ ReleaseTail
    \/ Overwrite
    \/ Append
    \/ ReleaseIndirect
    \/ FinishWrite
    \/ ReadBlock
    \/ DeleteBlock
    \/ FinishDelete

Next == Command \/ Step \/ Crash \/ Restart

\* A command that was started runs on, unless the process dies.
Spec == Init /\ [][Next]_vars /\ WF_vars(Step)

-----------------------------------------------------------------------------
(* Properties.                                                             *)

InodeRecord == [inode_id : Id \cup {-1}, filename : Path \cup {Unnamed, Removed, RootName},
                file_size : 0 .. MaxBlocks, num : [Index -> Int]]

Fields ==
    /\ disk_map \subseteq Dev!Block
    /\ DOMAIN disk = Dev!Block
    /\ disk[SUPERBLOCK_ID] \subseteq Id
    /\ disk[InodeBlock] \in [Id -> InodeRecord]
    /\ \A b \in Dev!DataBlock : disk[b] \in Piece
    /\ phase \in {"down", "up"}
    /\ file_state \in {"closed", "open"}
    /\ block_map \subseteq Dev!Block
    /\ leaked \in 0 .. MaxFds
    /\ superblock_inode \subseteq Id
    /\ inode_entries \in [Id -> InodeRecord]
    /\ pc \in {"idle", "create", "release", "overwrite", "append", "release_indirect",
               "update", "read", "delete", "clear"}
    /\ cur \in Id
    /\ i \in 0 .. MaxBlocks
    /\ block_inuse \in 0 .. MaxBlocks
    /\ arg \in Path \cup Payload \cup {"none"}
    /\ cut \subseteq {"create", "write", "shrink", "delete"}
    /\ expect \in [Id -> {Unknown, <<"empty", 0>>} \cup (Payload \X (1 .. MaxBlocks))]

\* Every variable has its type, no loop counter leaves its file; and the ints
\* write_file stores as pointers, which may come from a block_id_buf never
\* written, are ids of blocks on the image always and in memory as long as the
\* image can be opened.
TypeOK ==
    /\ Fields
    /\ \A id \in Id, k \in Index : disk[InodeBlock][id].num[k] \in Dev!Block
    /\ Dev!Opened =>
           \A s \in Id, k \in Index : inode_entries[s].num[k] \in Dev!Block

\* Two pointers of inodes a restart would load never name the same block
\* (assign_block, delete_block, delete_file, write_file), however operations
\* and restarts alternate, unless a shrink, a deletion or a creation was left
\* unfinished: those write the inode after the blocks and the bitmap.
NoSharing ==
    cut \subseteq {"write"} /\ pc # "create" =>
        \A a, b \in {id \in Id : Live(id)}, k, l \in Index :
            /\ disk[InodeBlock][a].num[k] # 0
            /\ disk[InodeBlock][a].num[k] = disk[InodeBlock][b].num[l]
            => a = b /\ k = l

\* The inodes of the image own only blocks the map marks in use: no file loses
\* a block to the allocator, except inside the operation that frees it.
NoDangling ==
    cut \cup Kind \subseteq {"write"} =>
        \A id \in {a \in Id : Live(a)}, k \in Index :
            disk[InodeBlock][id].num[k] # 0 => disk[InodeBlock][id].num[k] \in disk_map

\* No block is lost: when every operation ran to its end, a marked data block
\* belongs to an inode of the image or lies where delete_block refuses to go
\* (ids of SIZE_OF_BLOCK and more, filesystem_and_blocks.c:58).
NoLeak ==
    cut = {} /\ pc = "idle" =>
        \A b \in disk_map \cap Dev!DataBlock :
            \/ b >= SIZE_OF_BLOCK
            \/ \E id \in Id, k \in Index : Live(id) /\ disk[InodeBlock][id].num[k] = b

\* Between operations, and while the image can be opened, what the program
\* shows is what a restart would show: each inode of the table and the bitmap
\* are on disk as they are in memory (update_inode, save of the bitmap).
WrittenThrough ==
    pc = "idle" /\ Dev!Opened =>
        /\ superblock_inode = disk[SUPERBLOCK_ID]
        /\ \A s \in Id : inode_entries[s].inode_id # -1 =>
               /\ Live(inode_entries[s].inode_id)
               /\ inode_entries[s] = disk[InodeBlock][inode_entries[s].inode_id]

\* An acknowledged write that did not shrink its file, found its blocks and
\* could overwrite the old ones is durable: whatever happens to other files,
\* and across restarts, the image holds each of its blocks in order, and
\* nothing after them.
Durable ==
    cut \subseteq {"write"} =>
        \A id \in Id : expect[id] # Unknown =>
            LET n == disk[InodeBlock][id]
                size == expect[id][2]
            IN /\ Live(id)
               /\ n.file_size = size
               /\ InUse(n) = size
               /\ \A k \in 0 .. size - 1 : disk[n.num[k]] = <<expect[id][1], k>>

\* Every command comes to its end, or the process dies: no loop over blocks
\* runs on, even when the image cannot be opened half way.
CommandEnds == pc # "idle" ~> pc = "idle"

\* echo "write {str} to the {file}" (commands.c:123), cat "read {file}"
\* (commands.c:119): a write that is acknowledged while the image can be
\* opened, and had the blocks it needs or free ones to take, is what a read
\* returns.
WriteReadsBack ==
    [][/\ pc = "update" /\ pc' = "idle" /\ phase' = "up" /\ Dev!Opened
       /\ InUse(inode) >= inode.file_size \/ Dev!Free # {}
       => /\ InUse(inode) = inode.file_size
          /\ \A k \in 0 .. inode.file_size - 1 : disk'[inode.num[k]] = <<arg, k>>]_vars

\* touch "create file named {file}" (commands.c:117), and create_file prints
\* "file create success." (directories_and_files.c:289): the file can be found.
CreateSucceeds ==
    [][pc = "create" /\ pc' = "idle" /\ phase' = "up" =>
         \E s \in Id : inode_entries'[s].inode_id # -1 /\ inode_entries'[s].filename = arg]_vars
=============================================================================
