--------------------------- MODULE FileStoreProofs ---------------------------
(***************************************************************************)
(* Proofs about FileStore, for every number of blocks, inodes and          *)
(* descriptors, every set of paths and payloads and every size of file     *)
(* below the indirect block.                                               *)
(***************************************************************************)
EXTENDS FileStore, WellFoundedInduction, TLAPS

\* Can the session still open the image?
Online == file_state = "open"

\* The operation under way writes, or removes, the inode in slot cur.
Writing  == pc \in {"release", "overwrite", "append", "release_indirect", "update"}
Removing == pc \in {"delete", "clear"}

\* What a pointer names that was set while the image could be opened.
Pointer == Dev!DataBlock \cup {0}

\* The pointers the files of this model never reach.
Short(n) == \A k \in Index : k >= MaxBlocks => n.num[k] = 0

\* The device below: the image is whole and the two maps agree.
DeviceInv ==
    /\ image = "headed"
    /\ SUPERBLOCK_ID \in disk_map /\ InodeBlock \in disk_map
    /\ phase = "up" => file_system_path /\ block_map = disk_map
    /\ phase = "down" => file_state = "closed" /\ pc = "idle"

\* The locals of the operation under way.
OpInv ==
    /\ pc = "idle" => cur = 0 /\ i = 0
    /\ pc = "create" => /\ arg \in Path /\ i = 0 /\ cur \in superblock_inode
                        /\ \A s \in Id : inode_entries[s].inode_id # cur
    /\ Writing \/ Removing \/ pc = "read" => inode.inode_id # -1
    /\ Writing => arg \in Payload /\ inode.file_size # 0
    /\ pc = "release" => Shrinks /\ block_inuse - inode.file_size <= i /\ i < block_inuse
    /\ pc = "overwrite" => i < Overwritten
    /\ pc = "append" => Grows /\ block_inuse <= i /\ i < inode.file_size
    /\ pc = "release_indirect" => Shrinks
    /\ pc = "read" => i < MaxBlocks /\ inode.num[i] # 0
    /\ pc = "delete" => i < InUse(inode)

\* Pointers lead to data blocks: on the image at all times, in memory as long
\* as no block call failed to assign.
PointerInv ==
    /\ \A id \in Id : Short(disk[InodeBlock][id]) /\ Short(inode_entries[id])
    /\ \A id \in Id, k \in Index : disk[InodeBlock][id].num[k] \in Pointer
    /\ Online => \A s \in Id, k \in Index : inode_entries[s].num[k] \in Pointer

\* A slot is the only one with its id, and the bit of the id is set.
TableInv ==
    \A s \in Id : inode_entries[s].inode_id # -1 =>
        /\ inode_entries[s].inode_id \in superblock_inode
        /\ \A t \in Id : inode_entries[t].inode_id = inode_entries[s].inode_id => s = t

\* While the image can be opened, memory mirrors it, but for the inode that is
\* being written.
MirrorInv ==
    Online =>
        /\ superblock_inode = disk[SUPERBLOCK_ID]
        /\ \A s \in Id : inode_entries[s].inode_id # -1 =>
               /\ Live(inode_entries[s].inode_id)
               /\ \/ Writing /\ s = cur
                  \/ inode_entries[s] = disk[InodeBlock][inode_entries[s].inode_id]

Base == Fields /\ DeviceInv /\ OpInv /\ PointerInv /\ TableInv /\ MirrorInv

-----------------------------------------------------------------------------
(* Operators.                                                              *)

LEMMA FirstFacts ==
    ASSUME NEW S \in SUBSET Nat, S # {}
    PROVE  First(S) \in S /\ \A k \in S : First(S) <= k
  <1> DEFINE R == OpToRel(<, Nat)
  <1>1. IsWellFoundedOn(R, Nat)
    BY NatLessThanWellFounded
  <1>2. \A x, y \in Nat : <<y, x>> \in R <=> y < x
    BY DEF OpToRel
  <1> HIDE DEF R
  <1>3. PICK m \in S : \A k \in S : <<k, m>> \notin R
    BY <1>1, WFMin
  <1>4. ASSUME NEW k \in S
        PROVE  m <= k
    <2>1. m \in Nat /\ k \in Nat
      OBVIOUS
    <2>2. <<k, m>> \notin R
      BY <1>3
    <2>3. ~(k < m)
      BY <1>2, <2>1, <2>2
    <2> QED
      BY <2>1, <2>3
  <1> QED
    BY <1>4 DEF First

LEMMA BlockFacts ==
    /\ SUPERBLOCK_ID \in Dev!Block /\ InodeBlock \in Dev!Block
    /\ 0 \in Dev!Block
    /\ Dev!DataBlock \subseteq Dev!Block
    /\ Dev!Block \subseteq Nat
    /\ SUPERBLOCK_ID \notin Pointer /\ InodeBlock \notin Pointer
    /\ SUPERBLOCK_ID # InodeBlock
    /\ SUPERBLOCK_ID < SIZE_OF_BLOCK /\ InodeBlock < SIZE_OF_BLOCK
    /\ SUPERBLOCK_ID # 0 /\ InodeBlock # 0
    /\ 0 \notin Dev!DataBlock
    /\ Pointer \subseteq Dev!Block
  BY FileStoreAssumption DEF SUPERBLOCK_ID, InodeBlock, Dev!Block, Dev!DataBlock, Pointer

LEMMA IndexFacts ==
    /\ 0 .. MaxBlocks \subseteq Index
    /\ Index \subseteq Nat
    /\ MaxBlocks \in Nat
    /\ 0 \in Id
    /\ Id \subseteq Nat
    /\ -1 \notin Id
  BY FileStoreAssumption DEF Index, Id

\* A file of this model has a free pointer, and its blocks lie before it.
LEMMA InUseFacts ==
    ASSUME NEW n \in InodeRecord, Short(n)
    PROVE  /\ InUse(n) \in 0 .. MaxBlocks
           /\ n.num[InUse(n)] = 0
           /\ \A k \in Index : k < InUse(n) => n.num[k] # 0
  <1> DEFINE S == {k \in Index : n.num[k] = 0}
  <1>1. MaxBlocks \in S
    BY IndexFacts, FileStoreAssumption DEF Short
  <1>2. First(S) \in S /\ \A k \in S : First(S) <= k
    BY <1>1, FirstFacts, IndexFacts
  <1>3. First(S) \in Nat /\ First(S) <= MaxBlocks
    BY <1>1, <1>2, IndexFacts
  <1>4. ASSUME NEW k \in Index, k < First(S)
        PROVE  n.num[k] # 0
    <2>1. k \in Nat
      BY IndexFacts
    <2> QED
      BY <1>2, <1>3, <1>4, <2>1
  <1> QED
    BY <1>2, <1>3, <1>4, IndexFacts DEF InUse

LEMMA FirstIn ==
    ASSUME NEW S \in SUBSET Id, S # {}
    PROVE  First(S) \in S
  BY FirstFacts, IndexFacts

\* The values the code builds.
LEMMA InodeType ==
    /\ EmptySlot \in InodeRecord /\ Short(EmptySlot) /\ EmptySlot.inode_id = -1
    /\ DeadSlot \in InodeRecord /\ Short(DeadSlot) /\ DeadSlot.inode_id = -1
    /\ Root \in InodeRecord /\ Short(Root) /\ Root.inode_id = 0
    /\ \A k \in Index : EmptySlot.num[k] = 0 /\ DeadSlot.num[k] = 0 /\ Root.num[k] = 0
    /\ \A id \in Id, p \in Path \cup {Unnamed} :
           LET n == Inode(id, p, 0, NoBlocks)
           IN /\ n \in InodeRecord /\ Short(n) /\ n.inode_id = id /\ n.file_size = 0
              /\ n.filename = p /\ \A k \in Index : n.num[k] = 0
  <1>1. NoBlocks \in [Index -> Int] /\ \A k \in Index : NoBlocks[k] = 0
    BY BlockFacts DEF NoBlocks
  <1>2. 0 \in 0 .. MaxBlocks
    BY IndexFacts
  <1> QED
    BY <1>1, <1>2, IndexFacts
       DEF EmptySlot, DeadSlot, Root, Inode, InodeRecord, Short

-----------------------------------------------------------------------------
(* The calls of the device.                                                *)

LEMMA MapCheck ==
    ASSUME NEW id
    PROVE  /\ TRUE \in Dev!map_check(id) => id \in disk_map
           /\ FALSE \in Dev!map_check(id) => id \notin disk_map
  <1>1. \A x : x \in Dev!map_check(id) => x = (id \in disk_map)
    BY Zenon DEF Dev!map_check
  <1>2. TRUE \in Dev!map_check(id) => TRUE = (id \in disk_map)
    BY <1>1, Zenon
  <1>3. FALSE \in Dev!map_check(id) => FALSE = (id \in disk_map)
    BY <1>1, Zenon
  <1> QED
    BY <1>2, <1>3, Zenon

\* The call reached the image, or the session lost it.
Reached == Online /\ Online' /\ phase = "up" /\ phase' = "up"
Lost    == phase = "up" /\ phase' = "up" /\ file_state' = "closed" /\ ~Online' /\ UNCHANGED disk

\* What no call changes once the program serves.
Steady == leaked' \in 0 .. MaxFds /\ UNCHANGED <<image, file_system_path>>

LEMMA UnavailableFacts ==
    ASSUME Fields, Dev!Unavailable
    PROVE  Lost /\ Steady /\ UNCHANGED <<disk_map, block_map>>
  BY DEF Dev!Unavailable, Dev!diskVars, Lost, Online, Fields, Steady

LEMMA ReturnFacts ==
    ASSUME Fields, Dev!ReturnWithoutClose
    PROVE  Reached /\ Steady /\ UNCHANGED disk_map
  BY FileStoreAssumption DEF Fields, Dev!ReturnWithoutClose, Dev!Opened, Reached, Online, Steady

LEMMA OpenedFacts ==
    ASSUME Fields, Dev!Opened, UNCHANGED <<phase, file_state, leaked, image, file_system_path>>
    PROVE  Reached /\ Steady
  BY DEF Fields, Dev!Opened, Reached, Online, Steady

LEMMA ModifyFacts ==
    ASSUME Fields, NEW id, NEW d, Dev!modify_block(id, d)
    PROVE  /\ Steady
           /\ UNCHANGED <<disk_map, block_map>>
           /\ \/ Lost
              \/ /\ Reached
                 /\ disk' = [disk EXCEPT ![id] = d]
                 /\ id \in disk_map /\ id # 0
              \/ /\ Reached
                 /\ UNCHANGED disk
                 /\ id = 0 \/ ~(id < SIZE_OF_BLOCK) \/ id \notin disk_map
  <1>1. CASE Dev!Unavailable
    BY <1>1, UnavailableFacts
  <1>2. CASE /\ id = 0 \/ ~(id < SIZE_OF_BLOCK) \/ FALSE \in Dev!map_check(id)
             /\ Dev!ReturnWithoutClose
             /\ UNCHANGED <<disk, block_map>>
    BY <1>2, ReturnFacts, MapCheck
  <1>3. CASE /\ TRUE \in Dev!map_check(id) /\ id # 0
             /\ Dev!Opened
             /\ disk' = [disk EXCEPT ![id] = d]
             /\ UNCHANGED <<image, disk_map, Dev!processVars>>
    BY <1>3, MapCheck, OpenedFacts DEF Dev!processVars
  <1> QED
    BY <1>1, <1>2, <1>3 DEF Dev!modify_block

LEMMA ReadFacts ==
    ASSUME Fields, NEW id, Dev!read_block(id)
    PROVE  /\ Steady
           /\ UNCHANGED <<disk, disk_map, block_map>>
           /\ Lost \/ Reached
  <1>1. CASE Dev!Unavailable
    BY <1>1, UnavailableFacts DEF Lost
  <1>2. CASE Dev!ReturnWithoutClose /\ UNCHANGED <<disk, block_map>>
    BY <1>2, ReturnFacts
  <1>3. CASE Dev!Opened /\ UNCHANGED Dev!vars
    BY <1>3, OpenedFacts DEF Dev!vars, Dev!processVars, Dev!diskVars
  <1> QED
    BY <1>1, <1>2, <1>3 DEF Dev!read_block

LEMMA DeleteFacts ==
    ASSUME Fields, DeviceInv, NEW id, Dev!delete_block(id)
    PROVE  /\ Steady
           /\ UNCHANGED disk
           /\ \/ Lost /\ UNCHANGED <<disk_map, block_map>>
              \/ /\ Reached
                 /\ disk_map' = disk_map \ {id} /\ block_map' = disk_map'
                 /\ id \in disk_map /\ id # 0
              \/ /\ Reached
                 /\ UNCHANGED <<disk_map, block_map>>
                 /\ id = 0 \/ ~(id < SIZE_OF_BLOCK) \/ id \notin disk_map
  <1>1. CASE Dev!Unavailable
    BY <1>1, UnavailableFacts DEF Lost
  <1>2. CASE /\ id = 0 \/ ~(id < SIZE_OF_BLOCK) \/ FALSE \in Dev!map_check(id)
             /\ Dev!ReturnWithoutClose
             /\ UNCHANGED <<disk, block_map>>
    BY <1>2, ReturnFacts, MapCheck
  <1>3. CASE /\ TRUE \in Dev!map_check(id) /\ id # 0
             /\ Dev!Opened
             /\ block_map' = block_map \ {id}
             /\ disk_map' = block_map'
             /\ UNCHANGED <<image, disk, phase, file_state, file_system_path, leaked>>
    <2>1. block_map = disk_map
      BY <1>3 DEF DeviceInv, Dev!Opened
    <2> QED
      BY <1>3, <2>1, MapCheck, OpenedFacts
  <1>4. "write" \notin {}
    OBVIOUS
  <1> QED
    BY <1>1, <1>2, <1>3, <1>4 DEF Dev!delete_block

LEMMA WriteDoneFacts ==
    ASSUME Fields, DeviceInv, NEW b, NEW d, Dev!WriteBlockDone(b, d)
    PROVE  /\ Steady /\ Reached
           /\ b \in Dev!Free
           /\ disk_map' = disk_map \cup {b} /\ block_map' = disk_map'
           /\ disk' = [disk EXCEPT ![b] = d]
  <1>1. block_map = disk_map
    BY DEF DeviceInv, Dev!Opened, Dev!WriteBlockDone
  <1>2. Steady /\ Reached
    BY OpenedFacts DEF Dev!WriteBlockDone
  <1> QED
    BY <1>1, <1>2 DEF Dev!WriteBlockDone, Dev!assign_block, Dev!assignable

LEMMA WriteFullFacts ==
    ASSUME Fields, DeviceInv, Dev!WriteBlockFull
    PROVE  /\ Steady /\ Reached
           /\ Dev!Free = {}
           /\ UNCHANGED <<disk, disk_map, block_map>>
  <1>1. "write" \notin {} /\ "read" \notin {}
    OBVIOUS
  <1> QED
    BY <1>1, ReturnFacts DEF Dev!WriteBlockFull

LEMMA HaltFacts ==
    ASSUME Fields, DeviceInv, Dev!Halt \/ Dev!HaltInWriteBlock
    PROVE  /\ phase' = "down" /\ file_state' = "closed" /\ ~Online'
           /\ block_map' = {} /\ leaked' \in 0 .. MaxFds
           /\ UNCHANGED <<image, disk>>
           /\ \/ UNCHANGED disk_map
              \/ \E b \in Dev!Free : disk_map' = disk_map \cup {b}
  <1>1. 0 \in 0 .. MaxFds
    BY FileStoreAssumption
  <1>2. CASE Dev!Halt
    BY <1>1, <1>2 DEF Dev!Halt, Dev!ProcessGone, Dev!diskVars, Online
  <1>3. CASE Dev!HaltInWriteBlock
    <2>1. block_map = disk_map
      BY <1>3 DEF DeviceInv, Dev!Opened, Dev!HaltInWriteBlock
    <2> QED
      BY <1>1, <1>3, <2>1
         DEF Dev!HaltInWriteBlock, Dev!ProcessGone, Dev!assignable, Online
  <1> QED
    BY <1>2, <1>3

LEMMA LoadFacts ==
    ASSUME Dev!LoadImage
    PROVE  /\ phase = "down" /\ phase' = "up" /\ Online' /\ file_state' = "open"
           /\ file_system_path'
           /\ block_map' = disk_map
           /\ UNCHANGED <<image, disk, disk_map, leaked>>
  <1>1. "read" \notin {}
    OBVIOUS
  <1> QED
    BY <1>1 DEF Dev!LoadImage, Dev!diskVars, Online

LEMMA FreeFacts == Dev!Free \subseteq Dev!DataBlock /\ Dev!Free \cap disk_map = {}
  BY DEF Dev!Free

-----------------------------------------------------------------------------
(* The parts of the type.                                                  *)

DeviceType ==
    /\ disk_map \subseteq Dev!Block
    /\ block_map \subseteq Dev!Block
    /\ phase \in {"down", "up"}
    /\ file_state \in {"closed", "open"}
    /\ leaked \in 0 .. MaxFds

DiskType ==
    /\ DOMAIN disk = Dev!Block
    /\ disk[SUPERBLOCK_ID] \subseteq Id
    /\ disk[InodeBlock] \in [Id -> InodeRecord]
    /\ \A b \in Dev!DataBlock : disk[b] \in Piece

MemoryType ==
    /\ superblock_inode \subseteq Id
    /\ inode_entries \in [Id -> InodeRecord]

LocalType ==
    /\ pc \in {"idle", "create", "release", "overwrite", "append", "release_indirect",
               "update", "read", "delete", "clear"}
    /\ cur \in Id
    /\ i \in 0 .. MaxBlocks
    /\ block_inuse \in 0 .. MaxBlocks
    /\ arg \in Path \cup Payload \cup {"none"}

HistoryType ==
    /\ cut \subseteq {"create", "write", "shrink", "delete"}
    /\ expect \in [Id -> {Unknown, <<"empty", 0>>} \cup (Payload \X (1 .. MaxBlocks))]

LEMMA TypeParts ==
    Fields <=> DeviceType /\ DiskType /\ MemoryType /\ LocalType /\ HistoryType
  BY DEF Fields, DeviceType, DiskType, MemoryType, LocalType, HistoryType

LEMMA TypeAfter ==
    ASSUME DeviceType', DiskType', MemoryType', LocalType', HistoryType'
    PROVE  Fields'
  BY DEF Fields, DeviceType, DiskType, MemoryType, LocalType, HistoryType

-----------------------------------------------------------------------------
(* What the two kinds of block of the program become.                      *)

\* The rest of the image when block id is rewritten.
LEMMA DiskEffect ==
    ASSUME DiskType, NEW id \in Dev!Block, NEW d, disk' = [disk EXCEPT ![id] = d]
    PROVE  /\ DOMAIN disk' = Dev!Block
           /\ disk'[id] = d
           /\ \A b \in Dev!Block : b # id => disk'[b] = disk[b]
  BY DEF DiskType

LEMMA SaveFacts ==
    ASSUME Fields, DeviceInv, NEW map \in SUBSET Id, save_inode_bitmap(map)
    PROVE  /\ Steady /\ UNCHANGED <<disk_map, block_map>>
           /\ superblock_inode' = map
           /\ Lost \/ (Reached /\ disk'[SUPERBLOCK_ID] = map)
           /\ disk'[InodeBlock] = disk[InodeBlock]
           /\ \A b \in Dev!DataBlock : disk'[b] = disk[b]
           /\ DiskType'
  <1>1. Dev!modify_block(SUPERBLOCK_ID, map) /\ superblock_inode' = map
    BY DEF save_inode_bitmap
  <1>2. SUPERBLOCK_ID \in disk_map /\ SUPERBLOCK_ID # 0 /\ SUPERBLOCK_ID < SIZE_OF_BLOCK
    BY BlockFacts DEF DeviceInv
  <1>3. /\ Steady /\ UNCHANGED <<disk_map, block_map>>
        /\ Lost \/ (Reached /\ disk' = [disk EXCEPT ![SUPERBLOCK_ID] = map])
    BY <1>1, <1>2, ModifyFacts
  <1>4. DiskType
    BY TypeParts
  <1>5. CASE Lost
    BY <1>1, <1>3, <1>4, <1>5 DEF Lost, DiskType
  <1>6. CASE Reached /\ disk' = [disk EXCEPT ![SUPERBLOCK_ID] = map]
    <2>1. /\ DOMAIN disk' = Dev!Block
          /\ disk'[SUPERBLOCK_ID] = map
          /\ \A b \in Dev!Block : b # SUPERBLOCK_ID => disk'[b] = disk[b]
      BY <1>4, <1>6, DiskEffect, BlockFacts
    <2>2. InodeBlock # SUPERBLOCK_ID /\ \A b \in Dev!DataBlock : b # SUPERBLOCK_ID
      BY BlockFacts DEF Pointer
    <2>3. disk'[InodeBlock] = disk[InodeBlock] /\ \A b \in Dev!DataBlock : disk'[b] = disk[b]
      BY <2>1, <2>2, BlockFacts
    <2> QED
      BY <1>1, <1>3, <1>4, <1>6, <2>1, <2>3 DEF DiskType
  <1> QED
    BY <1>3, <1>5, <1>6

LEMMA UpdateFacts ==
    ASSUME Fields, DeviceInv, NEW n \in InodeRecord, update_inode(n)
    PROVE  /\ Steady /\ UNCHANGED <<disk_map, block_map>>
           /\ \/ Lost
              \/ Reached /\ disk'[InodeBlock] = [disk[InodeBlock] EXCEPT ![n.inode_id] = n]
           /\ disk'[SUPERBLOCK_ID] = disk[SUPERBLOCK_ID]
           /\ \A b \in Dev!DataBlock : disk'[b] = disk[b]
           /\ DiskType'
  <1> DEFINE group == [disk[InodeBlock] EXCEPT ![n.inode_id] = n]
  <1>1. Dev!modify_block(InodeBlock, group)
    BY DEF update_inode
  <1>2. InodeBlock \in disk_map /\ InodeBlock # 0 /\ InodeBlock < SIZE_OF_BLOCK
    BY BlockFacts DEF DeviceInv
  <1>3. /\ Steady /\ UNCHANGED <<disk_map, block_map>>
        /\ Lost \/ (Reached /\ disk' = [disk EXCEPT ![InodeBlock] = group])
    BY <1>1, <1>2, ModifyFacts
  <1>4. DiskType
    BY TypeParts
  <1>5. CASE Lost
    BY <1>3, <1>4, <1>5 DEF Lost, DiskType
  <1>6. CASE Reached /\ disk' = [disk EXCEPT ![InodeBlock] = group]
    <2>1. /\ DOMAIN disk' = Dev!Block
          /\ disk'[InodeBlock] = group
          /\ \A b \in Dev!Block : b # InodeBlock => disk'[b] = disk[b]
      BY <1>4, <1>6, DiskEffect, BlockFacts
    <2>2. SUPERBLOCK_ID # InodeBlock /\ \A b \in Dev!DataBlock : b # InodeBlock
      BY BlockFacts DEF Pointer
    <2>3. /\ disk'[SUPERBLOCK_ID] = disk[SUPERBLOCK_ID]
          /\ \A b \in Dev!DataBlock : disk'[b] = disk[b]
      BY <2>1, <2>2, BlockFacts
    <2>4. group \in [Id -> InodeRecord]
      BY <1>4 DEF DiskType
    <2> QED
      BY <1>3, <1>4, <1>6, <2>1, <2>3, <2>4 DEF DiskType
  <1> QED
    BY <1>3, <1>5, <1>6

\* A data block is written: the bitmap and the inodes stay.
LEMMA DataEffect ==
    ASSUME DiskType, NEW b \in Dev!DataBlock, NEW d \in Piece, disk' = [disk EXCEPT ![b] = d]
    PROVE  /\ disk'[SUPERBLOCK_ID] = disk[SUPERBLOCK_ID]
           /\ disk'[InodeBlock] = disk[InodeBlock]
           /\ disk'[b] = d
           /\ \A c \in Dev!DataBlock : c # b => disk'[c] = disk[c]
           /\ DiskType'
  <1>1. b \in Dev!Block /\ SUPERBLOCK_ID # b /\ InodeBlock # b
    BY BlockFacts DEF Pointer
  <1>2. /\ DOMAIN disk' = Dev!Block
        /\ disk'[b] = d
        /\ \A c \in Dev!Block : c # b => disk'[c] = disk[c]
    BY <1>1, DiskEffect
  <1>3. /\ disk'[SUPERBLOCK_ID] = disk[SUPERBLOCK_ID]
        /\ disk'[InodeBlock] = disk[InodeBlock]
        /\ \A c \in Dev!DataBlock : c # b => disk'[c] = disk[c]
    BY <1>1, <1>2, BlockFacts
  <1> QED
    BY <1>2, <1>3 DEF DiskType

\* The pointer at index i of the file under way is set.
LEMMA SetPointerFacts ==
    ASSUME MemoryType, cur \in Id, i \in Index, NEW b \in Int, SetPointer(b)
    PROVE  LET n == inode_entries'[cur]
           IN /\ inode_entries' \in [Id -> InodeRecord]
              /\ n \in InodeRecord
              /\ n.inode_id = inode.inode_id /\ n.filename = inode.filename
              /\ n.file_size = inode.file_size
              /\ n.num[i] = b
              /\ \A k \in Index : k # i => n.num[k] = inode.num[k]
              /\ \A s \in Id : s # cur => inode_entries'[s] = inode_entries[s]
  <1> DEFINE num == [inode.num EXCEPT ![i] = b]
             n   == [inode EXCEPT !.num = num]
  <1>1. inode \in InodeRecord /\ inode.num \in [Index -> Int]
    BY DEF MemoryType, InodeRecord, inode
  <1>2. /\ num \in [Index -> Int] /\ num[i] = b
        /\ \A k \in Index : k # i => num[k] = inode.num[k]
    BY <1>1
  <1>3. /\ n \in InodeRecord /\ n.num = num
        /\ n.inode_id = inode.inode_id /\ n.filename = inode.filename
        /\ n.file_size = inode.file_size
    BY <1>1, <1>2 DEF InodeRecord
  <1>4. inode_entries' = [inode_entries EXCEPT ![cur] = n]
    BY DEF SetPointer, inode
  <1> HIDE DEF num, n
  <1>5. /\ inode_entries' \in [Id -> InodeRecord] /\ inode_entries'[cur] = n
        /\ \A s \in Id : s # cur => inode_entries'[s] = inode_entries[s]
    BY <1>3, <1>4 DEF MemoryType
  <1> QED
    BY <1>2, <1>3, <1>5

-----------------------------------------------------------------------------
(* What most steps have in common.                                         *)

\* A call of the device, whatever it does to a data block.
LEMMA CallKeepsDevice ==
    ASSUME Fields, DeviceInv, Steady, Lost \/ Reached, disk_map' \subseteq Dev!Block,
           SUPERBLOCK_ID \in disk_map', InodeBlock \in disk_map', block_map' = disk_map'
    PROVE  DeviceType' /\ DeviceInv'
  <1>1. /\ phase = "up" /\ phase' = "up"
        /\ file_state' \in {"closed", "open"}
    BY DEF Lost, Reached, Online
  <1>2. leaked' \in 0 .. MaxFds /\ image' = image /\ file_system_path' = file_system_path
    BY DEF Steady
  <1> QED
    BY <1>1, <1>2 DEF DeviceType, DeviceInv

LEMMA CallOnSameMap ==
    ASSUME Fields, DeviceInv, Steady, Lost \/ Reached, UNCHANGED <<disk_map, block_map>>
    PROVE  DeviceType' /\ DeviceInv'
  <1>1. block_map = disk_map
    BY DEF DeviceInv, Lost, Reached
  <1> QED
    BY <1>1, CallKeepsDevice DEF Fields, DeviceInv

LEMMA ServingFacts ==
    ASSUME Fields, DeviceInv, pc # "idle"
    PROVE  phase = "up" /\ block_map = disk_map
  BY DEF Fields, DeviceInv

LEMMA KindType == Kind \subseteq {"create", "write", "shrink", "delete"}
  BY DEF Kind

LEMMA ContinueType ==
    ASSUME HistoryType, Continue
    PROVE  cut' \subseteq {"create", "write", "shrink", "delete"}
  BY KindType DEF HistoryType, Continue

\* A step inside write_file: the inodes of the image stay, and the file under
\* way changes in its pointers only.
WriteOn ==
    /\ Writing /\ Writing'
    /\ UNCHANGED <<cur, block_inuse, arg, superblock_inode, expect>>
    /\ inode_entries' \in [Id -> InodeRecord]
    /\ \A s \in Id : s # cur => inode_entries'[s] = inode_entries[s]
    /\ inode_entries'[cur].inode_id = inode.inode_id
    /\ inode_entries'[cur].file_size = inode.file_size
    /\ disk'[SUPERBLOCK_ID] = disk[SUPERBLOCK_ID]
    /\ disk'[InodeBlock] = disk[InodeBlock]
    /\ Online' => Online

LEMMA WriteOnKeeps ==
    ASSUME Base, WriteOn, Short(inode_entries'[cur]),
           Online' => \A k \in Index : inode_entries'[cur].num[k] \in Pointer
    PROVE  PointerInv' /\ TableInv' /\ MirrorInv' /\ MemoryType'
  <1> USE DEF Base
  <1>1. PointerInv'
    <2>1. \A id \in Id : Short(disk'[InodeBlock][id]) /\ Short(inode_entries'[id])
      BY DEF WriteOn, PointerInv
    <2>2. \A id \in Id, k \in Index : disk'[InodeBlock][id].num[k] \in Pointer
      BY DEF WriteOn, PointerInv
    <2>3. ASSUME Online', NEW s \in Id, NEW k \in Index
          PROVE  inode_entries'[s].num[k] \in Pointer
      BY <2>3 DEF WriteOn, PointerInv
    <2> QED
      BY <2>1, <2>2, <2>3 DEF PointerInv, Short
  <1>2. \A s \in Id : inode_entries'[s].inode_id = inode_entries[s].inode_id
    BY DEF WriteOn, inode
  <1>3. TableInv'
    BY <1>2 DEF TableInv, WriteOn
  <1>4. MirrorInv'
    <2>1. ASSUME Online', NEW s \in Id, inode_entries'[s].inode_id # -1
          PROVE  /\ Live(inode_entries[s].inode_id)'
                 /\ \/ Writing' /\ s = cur'
                    \/ inode_entries'[s] = disk'[InodeBlock][inode_entries'[s].inode_id]
      <3>1. Live(inode_entries[s].inode_id)
        BY <1>2, <2>1 DEF MirrorInv, WriteOn
      <3>2. Live(inode_entries[s].inode_id)'
        BY <1>2, <3>1 DEF Live, WriteOn
      <3>3. CASE s # cur
        BY <2>1, <3>2, <3>3 DEF MirrorInv, WriteOn
      <3> QED
        BY <3>2, <3>3 DEF WriteOn
    <2>2. Online' => superblock_inode' = disk'[SUPERBLOCK_ID]
      BY DEF MirrorInv, WriteOn
    <2> QED
      BY <2>1, <2>2 DEF MirrorInv
  <1>5. MemoryType'
    BY DEF WriteOn, Fields, MemoryType
  <1> QED
    BY <1>1, <1>3, <1>4, <1>5

-----------------------------------------------------------------------------
(* write_file.                                                             *)

LEMMA WritingFacts ==
    ASSUME Base, Writing
    PROVE  /\ phase = "up" /\ block_map = disk_map
           /\ cur \in Id /\ i \in Index /\ i \in 0 .. MaxBlocks /\ block_inuse \in 0 .. MaxBlocks
           /\ inode \in InodeRecord /\ Short(inode)
           /\ inode.file_size \in 1 .. MaxBlocks /\ MaxBlocks \in Nat
           /\ inode.inode_id \in Id
           /\ arg \in Payload
           /\ Online => \A k \in Index : inode.num[k] \in Pointer
  <1> USE DEF Base
  <1>1. phase = "up" /\ block_map = disk_map
    BY ServingFacts DEF Writing
  <1>2. cur \in Id /\ i \in Index /\ i \in 0 .. MaxBlocks /\ block_inuse \in 0 .. MaxBlocks
    BY IndexFacts DEF Fields
  <1>3. inode \in InodeRecord /\ Short(inode)
    BY <1>2 DEF inode, Fields, PointerInv
  <1>4. inode.file_size \in 1 .. MaxBlocks /\ inode.inode_id \in Id /\ arg \in Payload
    BY <1>3, IndexFacts DEF OpInv, InodeRecord
  <1> QED
    BY <1>1, <1>2, <1>3, <1>4, IndexFacts DEF PointerInv, inode

LEMMA ReleaseTailEffect ==
    ASSUME Base, ReleaseTail
    PROVE  /\ Steady /\ UNCHANGED disk /\ Continue /\ WriteOn
           /\ \/ Lost /\ UNCHANGED <<disk_map, block_map>>
              \/ /\ Reached
                 /\ disk_map' = disk_map \ {inode.num[i]} /\ block_map' = disk_map'
              \/ /\ Reached /\ UNCHANGED <<disk_map, block_map>>
                 /\ inode.num[i] = 0 \/ ~(inode.num[i] < SIZE_OF_BLOCK)
                       \/ inode.num[i] \notin disk_map
           /\ inode_entries'[cur].num[i] = 0
           /\ \A k \in Index : k # i => inode_entries'[cur].num[k] = inode.num[k]
           /\ \/ i + 1 = block_inuse /\ i' = 0 /\ pc' = "overwrite"
              \/ i + 1 # block_inuse /\ i' = i + 1 /\ pc' = "release"
  <1> USE DEF Base
  <1>w. Writing /\ pc = "release"
    BY DEF Writing, ReleaseTail
  <1>1. /\ Steady /\ UNCHANGED disk
        /\ \/ Lost /\ UNCHANGED <<disk_map, block_map>>
           \/ /\ Reached
              /\ disk_map' = disk_map \ {inode.num[i]} /\ block_map' = disk_map'
           \/ /\ Reached /\ UNCHANGED <<disk_map, block_map>>
              /\ inode.num[i] = 0 \/ ~(inode.num[i] < SIZE_OF_BLOCK) \/ inode.num[i] \notin disk_map
    BY DeleteFacts DEF ReleaseTail
  <1>2. /\ SetPointer(0) /\ UNCHANGED <<cur, block_inuse, arg, superblock_inode, expect>>
        /\ Continue
    BY DEF ReleaseTail
  <1>3. /\ inode_entries' \in [Id -> InodeRecord]
        /\ inode_entries'[cur].inode_id = inode.inode_id
        /\ inode_entries'[cur].file_size = inode.file_size
        /\ inode_entries'[cur].num[i] = 0
        /\ \A k \in Index : k # i => inode_entries'[cur].num[k] = inode.num[k]
        /\ \A s \in Id : s # cur => inode_entries'[s] = inode_entries[s]
    BY <1>w, <1>2, SetPointerFacts, WritingFacts, BlockFacts, TypeParts
  <1>4. \/ i + 1 = block_inuse /\ i' = 0 /\ pc' = "overwrite"
        \/ i + 1 # block_inuse /\ i' = i + 1 /\ pc' = "release"
    BY <1>w DEF ReleaseTail
  <1>5. WriteOn
    BY <1>w, <1>1, <1>2, <1>3, <1>4 DEF WriteOn, Writing, Lost, Reached
  <1> QED
    BY <1>1, <1>2, <1>3, <1>4, <1>5

LEMMA ReleaseTailBase ==
    ASSUME Base, ReleaseTail
    PROVE  Base'
  <1> USE DEF Base
  <1>w. Writing /\ pc = "release"
    BY DEF Writing, ReleaseTail
  <1>1. /\ Steady /\ UNCHANGED disk /\ Continue /\ WriteOn
        /\ \/ Lost /\ UNCHANGED <<disk_map, block_map>>
           \/ /\ Reached
              /\ disk_map' = disk_map \ {inode.num[i]} /\ block_map' = disk_map'
           \/ Reached /\ UNCHANGED <<disk_map, block_map>>
        /\ \A k \in Index : inode_entries'[cur].num[k] \in {inode.num[k], 0}
        /\ \/ i + 1 = block_inuse /\ i' = 0 /\ pc' = "overwrite"
           \/ i + 1 # block_inuse /\ i' = i + 1 /\ pc' = "release"
    BY ReleaseTailEffect
  <1>2. DeviceType' /\ DeviceInv'
    <2>1. CASE UNCHANGED <<disk_map, block_map>>
      BY <1>1, <2>1, CallOnSameMap
    <2>2. CASE Reached /\ disk_map' = disk_map \ {inode.num[i]} /\ block_map' = disk_map'
      <3>1. inode.num[i] \in Pointer
        BY <1>w, <2>2, WritingFacts DEF Reached
      <3>2. /\ SUPERBLOCK_ID \in disk_map' /\ InodeBlock \in disk_map'
            /\ disk_map' \subseteq Dev!Block
        BY <2>2, <3>1, BlockFacts DEF DeviceInv, Fields
      <3> QED
        BY <1>1, <2>2, <3>2, CallKeepsDevice
    <2> QED
      BY <1>1, <2>1, <2>2
  <1>3. /\ i \in Nat /\ block_inuse \in 0 .. MaxBlocks
        /\ Shrinks /\ block_inuse - inode.file_size <= i /\ i < block_inuse
        /\ inode.file_size \in 1 .. MaxBlocks
    BY <1>w, WritingFacts DEF OpInv
  <1>4. PointerInv' /\ TableInv' /\ MirrorInv' /\ MemoryType'
    <2>1. Short(inode_entries'[cur])
      BY <1>w, <1>1, WritingFacts DEF Short
    <2>2. Online' => \A k \in Index : inode_entries'[cur].num[k] \in Pointer
      BY <1>w, <1>1, WritingFacts DEF WriteOn, Pointer
    <2> QED
      BY <1>1, <2>1, <2>2, WriteOnKeeps
  <1>5. LocalType' /\ OpInv'
    <2>1. i' \in 0 .. MaxBlocks
      BY <1>1, <1>3, IndexFacts
    <2>2. LocalType'
      BY <1>1, <2>1 DEF LocalType, Fields, WriteOn
    <2>3. inode'.file_size = inode.file_size /\ inode'.inode_id = inode.inode_id
      BY <1>1 DEF inode, WriteOn
    <2>4. OpInv'
      BY <1>w, <1>1, <1>3, <2>3, IndexFacts DEF OpInv, Writing, Removing, Shrinks, Grows,
         Overwritten, WriteOn
    <2> QED
      BY <2>2, <2>4
  <1>6. HistoryType' /\ DiskType'
    BY <1>1, ContinueType, TypeParts DEF HistoryType, DiskType, WriteOn
  <1> QED
    BY <1>2, <1>4, <1>5, <1>6, TypeAfter

LEMMA OverwriteEffect ==
    ASSUME Base, Overwrite
    PROVE  /\ Steady /\ UNCHANGED <<disk_map, block_map, inode_entries>> /\ Continue /\ WriteOn
           /\ \/ Lost
              \/ /\ Reached /\ disk' = [disk EXCEPT ![inode.num[i]] = <<arg, i>>]
                 /\ inode.num[i] \in Dev!DataBlock /\ inode.num[i] \in disk_map
                 /\ <<arg, i>> \in Piece
              \/ /\ Reached /\ UNCHANGED disk
                 /\ inode.num[i] = 0 \/ ~(inode.num[i] < SIZE_OF_BLOCK)
                       \/ inode.num[i] \notin disk_map
           /\ DiskType'
           /\ i' = i + 1
           /\ \/ i + 1 = Overwritten /\ pc' = AfterOverwrite
              \/ i + 1 # Overwritten /\ pc' = "overwrite"
  <1> USE DEF Base
  <1>w. Writing /\ pc = "overwrite" /\ i < Overwritten
    BY DEF Writing, Overwrite, OpInv
  <1>1. /\ Steady /\ UNCHANGED <<disk_map, block_map>>
        /\ \/ Lost
           \/ /\ Reached /\ disk' = [disk EXCEPT ![inode.num[i]] = <<arg, i>>]
              /\ inode.num[i] # 0 /\ inode.num[i] \in disk_map
           \/ /\ Reached /\ UNCHANGED disk
              /\ inode.num[i] = 0 \/ ~(inode.num[i] < SIZE_OF_BLOCK) \/ inode.num[i] \notin disk_map
    BY ModifyFacts DEF Overwrite
  <1>2. UNCHANGED <<cur, block_inuse, arg, superblock_inode, inode_entries, expect>>
    BY DEF Overwrite, Loop, memoryVars
  <1>3. /\ i \in Nat /\ inode.file_size \in 1 .. MaxBlocks /\ block_inuse \in 0 .. MaxBlocks
        /\ MaxBlocks \in Nat
    BY <1>w, WritingFacts
  <1>4. i \in 0 .. MaxBlocks - 1
    BY <1>w, <1>3 DEF Overwritten
  <1>5. <<arg, i>> \in Piece
    BY <1>w, <1>4, WritingFacts DEF Piece
  <1>6. Reached /\ inode.num[i] # 0 => inode.num[i] \in Dev!DataBlock
    BY <1>w, WritingFacts DEF Reached, Pointer
  <1>7. /\ disk'[SUPERBLOCK_ID] = disk[SUPERBLOCK_ID]
        /\ disk'[InodeBlock] = disk[InodeBlock]
        /\ DiskType'
    <2>1. CASE UNCHANGED disk
      BY <2>1, TypeParts DEF DiskType
    <2>2. CASE /\ Reached /\ disk' = [disk EXCEPT ![inode.num[i]] = <<arg, i>>]
               /\ inode.num[i] # 0
      BY <1>5, <1>6, <2>2, DataEffect, TypeParts
    <2> QED
      BY <1>1, <2>1, <2>2 DEF Lost
  <1>8. /\ i' = i + 1
        /\ \/ i + 1 = Overwritten /\ pc' = AfterOverwrite
           \/ i + 1 # Overwritten /\ pc' = "overwrite"
        /\ Continue
    BY DEF Overwrite, Loop
  <1>9. Writing'
    BY <1>8 DEF AfterOverwrite, Writing
  <1>10. WriteOn
    BY <1>w, <1>1, <1>2, <1>7, <1>9, TypeParts DEF WriteOn, Lost, Reached, MemoryType, inode
  <1> QED
    BY <1>1, <1>2, <1>5, <1>6, <1>7, <1>8, <1>10

LEMMA OverwriteBase ==
    ASSUME Base, Overwrite
    PROVE  Base'
  <1> USE DEF Base
  <1>w. Writing /\ pc = "overwrite" /\ i < Overwritten
    BY DEF Writing, Overwrite, OpInv
  <1>1. /\ Steady /\ UNCHANGED <<disk_map, block_map, inode_entries>> /\ Continue /\ WriteOn
        /\ Lost \/ Reached
        /\ DiskType'
        /\ i' = i + 1
        /\ \/ i + 1 = Overwritten /\ pc' = AfterOverwrite
           \/ i + 1 # Overwritten /\ pc' = "overwrite"
    BY OverwriteEffect
  <1>2. DeviceType' /\ DeviceInv'
    BY <1>1, CallOnSameMap
  <1>3. UNCHANGED <<cur, block_inuse, arg, superblock_inode, inode_entries, expect>>
    BY <1>1 DEF WriteOn
  <1>4. /\ i \in Nat /\ block_inuse \in 0 .. MaxBlocks /\ inode.file_size \in 1 .. MaxBlocks
        /\ MaxBlocks \in Nat /\ i \in 0 .. MaxBlocks
    BY <1>w, WritingFacts
  <1>5. Overwritten \in 0 .. MaxBlocks
    BY <1>4 DEF Overwritten
  <1>6. Writing' /\ pc' \in {"overwrite", "append", "release_indirect", "update"}
    BY <1>1 DEF AfterOverwrite, Writing
  <1>7. PointerInv' /\ TableInv' /\ MirrorInv' /\ MemoryType'
    <2>1. Short(inode_entries'[cur])
      BY <1>w, <1>3, WritingFacts DEF inode
    <2>2. Online' => \A k \in Index : inode_entries'[cur].num[k] \in Pointer
      BY <1>w, <1>1, <1>3, WritingFacts DEF WriteOn, inode
    <2> QED
      BY <1>1, <2>1, <2>2, WriteOnKeeps
  <1>8. LocalType' /\ OpInv'
    <2>1. i' \in 0 .. MaxBlocks
      BY <1>w, <1>1, <1>4, <1>5
    <2>2. LocalType'
      BY <1>3, <1>6, <2>1 DEF LocalType, Fields
    <2>3. inode' = inode
      BY <1>3 DEF inode
    <2>4. Grows' = Grows /\ Shrinks' = Shrinks /\ Overwritten' = Overwritten
      BY <1>3, <2>3 DEF Grows, Shrinks, Overwritten
    <2>5. inode.inode_id # -1 /\ arg \in Payload /\ inode.file_size # 0
      BY <1>w DEF OpInv
    <2>6. pc' = "overwrite" => i' < Overwritten'
      BY <1>w, <1>1, <1>4, <1>5, <2>4 DEF AfterOverwrite
    <2>7. pc' = "append" => Grows' /\ block_inuse' <= i' /\ i' < inode'.file_size
      BY <1>1, <1>3, <1>4, <2>3, <2>4 DEF AfterOverwrite, Overwritten, Grows
    <2>8. pc' = "release_indirect" => Shrinks'
      BY <1>1, <2>4 DEF AfterOverwrite
    <2>9. OpInv'
      BY <1>3, <1>6, <2>3, <2>5, <2>6, <2>7, <2>8 DEF OpInv, Removing
    <2> QED
      BY <2>2, <2>9
  <1>9. HistoryType'
    BY <1>1, <1>3, ContinueType, TypeParts DEF HistoryType
  <1> QED
    BY <1>1, <1>2, <1>7, <1>8, <1>9, TypeAfter

LEMMA AppendCalls ==
    ASSUME Base, Append
    PROVE  /\ Steady
           /\ \E b \in Int :
                  /\ SetPointer(b)
                  /\ \/ /\ Reached /\ b \in Dev!Free
                        /\ disk_map' = disk_map \cup {b} /\ block_map' = disk_map'
                        /\ disk' = [disk EXCEPT ![b] = <<arg, i>>]
                     \/ /\ Reached /\ b = 0 /\ Dev!Free = {}
                        /\ UNCHANGED <<disk, disk_map, block_map>>
                     \/ Lost /\ UNCHANGED <<disk_map, block_map>>
           /\ i' = i + 1
           /\ \/ i + 1 = inode.file_size /\ pc' = "update"
              \/ i + 1 # inode.file_size /\ pc' = "append"
           /\ UNCHANGED <<cur, block_inuse, arg, superblock_inode, expect>>
           /\ Continue
  <1> USE DEF Base
  <1>1. CASE \E b \in Dev!DataBlock : Dev!WriteBlockDone(b, <<arg, i>>) /\ SetPointer(b)
    BY <1>1, WriteDoneFacts, BlockFacts DEF Append, Loop
  <1>2. CASE Dev!WriteBlockFull /\ SetPointer(0)
    BY <1>2, WriteFullFacts, BlockFacts DEF Append, Loop
  <1>3. CASE Dev!Unavailable /\ \E b \in block_id_buf : SetPointer(b)
    <2>1. block_id_buf \subseteq Int
      <3>1. Writing /\ pc = "append"
        BY DEF Writing, Append
      <3>2. /\ inode.num \in [Index -> Int] /\ i \in Index /\ block_inuse \in Nat
        BY <3>1, WritingFacts, IndexFacts DEF InodeRecord
      <3>3. i > block_inuse => i - 1 \in Index
        BY <3>2, FileStoreAssumption DEF Index
      <3> QED
        BY <3>2, <3>3, FileStoreAssumption DEF block_id_buf
    <2> QED
      BY <1>3, <2>1, UnavailableFacts DEF Append, Loop
  <1> QED
    BY <1>1, <1>2, <1>3 DEF Append

LEMMA AppendEffect ==
    ASSUME Base, Append
    PROVE  /\ Steady /\ Continue /\ WriteOn
           /\ \E b \in Int :
                  /\ inode_entries'[cur].num[i] = b
                  /\ \/ /\ Reached /\ b \in Dev!Free
                        /\ disk_map' = disk_map \cup {b} /\ block_map' = disk_map'
                        /\ disk' = [disk EXCEPT ![b] = <<arg, i>>]
                        /\ <<arg, i>> \in Piece
                     \/ /\ Reached /\ b = 0 /\ Dev!Free = {}
                        /\ UNCHANGED <<disk, disk_map, block_map>>
                     \/ Lost /\ UNCHANGED <<disk_map, block_map>>
           /\ \A k \in Index : k # i => inode_entries'[cur].num[k] = inode.num[k]
           /\ DiskType'
           /\ i' = i + 1
           /\ \/ i + 1 = inode.file_size /\ pc' = "update"
              \/ i + 1 # inode.file_size /\ pc' = "append"
  <1> USE DEF Base
  <1>w. Writing /\ pc = "append"
    BY DEF Writing, Append
  <1>1. PICK b \in Int :
            /\ SetPointer(b)
            /\ \/ /\ Reached /\ b \in Dev!Free
                  /\ disk_map' = disk_map \cup {b} /\ block_map' = disk_map'
                  /\ disk' = [disk EXCEPT ![b] = <<arg, i>>]
               \/ /\ Reached /\ b = 0 /\ Dev!Free = {}
                  /\ UNCHANGED <<disk, disk_map, block_map>>
               \/ Lost /\ UNCHANGED <<disk_map, block_map>>
    BY AppendCalls
  <1>2. /\ Steady /\ Continue
        /\ i' = i + 1
        /\ \/ i + 1 = inode.file_size /\ pc' = "update"
           \/ i + 1 # inode.file_size /\ pc' = "append"
        /\ UNCHANGED <<cur, block_inuse, arg, superblock_inode, expect>>
    BY AppendCalls
  <1>3. /\ i \in Nat /\ i < inode.file_size
        /\ inode.file_size \in 1 .. MaxBlocks /\ MaxBlocks \in Nat
    BY <1>w, WritingFacts DEF OpInv
  <1>4. i \in 0 .. MaxBlocks - 1
    BY <1>3
  <1>5. <<arg, i>> \in Piece
    BY <1>w, <1>4, WritingFacts DEF Piece
  <1>6. /\ disk'[SUPERBLOCK_ID] = disk[SUPERBLOCK_ID]
        /\ disk'[InodeBlock] = disk[InodeBlock]
        /\ DiskType'
    <2>1. CASE UNCHANGED disk
      BY <2>1, TypeParts DEF DiskType
    <2>2. CASE b \in Dev!Free /\ disk' = [disk EXCEPT ![b] = <<arg, i>>]
      BY <1>5, <2>2, FreeFacts, DataEffect, TypeParts
    <2> QED
      BY <1>1, <2>1, <2>2 DEF Lost
  <1>7. /\ inode_entries' \in [Id -> InodeRecord]
        /\ inode_entries'[cur].inode_id = inode.inode_id
        /\ inode_entries'[cur].file_size = inode.file_size
        /\ inode_entries'[cur].num[i] = b
        /\ \A k \in Index : k # i => inode_entries'[cur].num[k] = inode.num[k]
        /\ \A s \in Id : s # cur => inode_entries'[s] = inode_entries[s]
    BY <1>w, <1>1, SetPointerFacts, WritingFacts, TypeParts
  <1>8. WriteOn
    BY <1>w, <1>1, <1>2, <1>6, <1>7 DEF WriteOn, Writing, Lost, Reached
  <1> QED
    BY <1>1, <1>2, <1>5, <1>6, <1>7, <1>8

LEMMA AppendBase ==
    ASSUME Base, Append
    PROVE  Base'
  <1> USE DEF Base
  <1>w. Writing /\ pc = "append"
    BY DEF Writing, Append
  <1>1. /\ Steady /\ Continue /\ WriteOn /\ DiskType'
        /\ \A k \in Index : k # i => inode_entries'[cur].num[k] = inode.num[k]
        /\ i' = i + 1
        /\ \/ i + 1 = inode.file_size /\ pc' = "update"
           \/ i + 1 # inode.file_size /\ pc' = "append"
    BY AppendEffect
  <1>2. PICK b \in Int :
            /\ inode_entries'[cur].num[i] = b
            /\ \/ /\ Reached /\ b \in Dev!Free
                  /\ disk_map' = disk_map \cup {b} /\ block_map' = disk_map'
               \/ Reached /\ b = 0 /\ UNCHANGED <<disk_map, block_map>>
               \/ Lost /\ UNCHANGED <<disk_map, block_map>>
    BY AppendEffect
  <1>3. DeviceType' /\ DeviceInv'
    <2>1. CASE UNCHANGED <<disk_map, block_map>>
      BY <1>1, <1>2, <2>1, CallOnSameMap
    <2>2. CASE Reached /\ b \in Dev!Free /\ disk_map' = disk_map \cup {b} /\ block_map' = disk_map'
      <3>1. b \in Dev!Block
        BY <1>2, <2>2, FreeFacts, BlockFacts DEF Lost
      <3> QED
        BY <1>1, <2>2, <3>1, CallKeepsDevice DEF DeviceInv, Fields
    <2> QED
      BY <1>2, <2>1, <2>2
  <1>4. /\ i \in Nat /\ i \in 0 .. MaxBlocks /\ i < inode.file_size
        /\ Grows /\ block_inuse <= i /\ block_inuse \in 0 .. MaxBlocks
        /\ inode.file_size \in 1 .. MaxBlocks /\ MaxBlocks \in Nat
    BY <1>w, WritingFacts DEF OpInv
  <1>5. PointerInv' /\ TableInv' /\ MirrorInv' /\ MemoryType'
    <2>1. Short(inode_entries'[cur])
      <3>1. i < MaxBlocks
        BY <1>4
      <3>2. \A k \in Index : k >= MaxBlocks => k # i
        BY <1>4, <3>1, IndexFacts
      <3>3. \A k \in Index : k >= MaxBlocks => inode.num[k] = 0
        BY <1>w, WritingFacts DEF Short
      <3> QED
        BY <1>1, <3>2, <3>3 DEF Short
    <2>2. ASSUME Online'
          PROVE  \A k \in Index : inode_entries'[cur].num[k] \in Pointer
      <3>1. b \in Pointer
        BY <1>2, <2>2, FreeFacts DEF Lost, Pointer
      <3>2. Online
        BY <1>1, <2>2 DEF WriteOn
      <3> QED
        BY <1>w, <1>1, <1>2, <3>1, <3>2, WritingFacts
    <2> QED
      BY <1>1, <2>1, <2>2, WriteOnKeeps
  <1>6. LocalType' /\ OpInv'
    <2>1. i' \in 0 .. MaxBlocks /\ pc' \in {"append", "update"}
      BY <1>1, <1>4
    <2>2. LocalType'
      BY <1>1, <2>1 DEF LocalType, Fields, WriteOn
    <2>3. inode'.file_size = inode.file_size /\ inode'.inode_id = inode.inode_id
      BY <1>1 DEF inode, WriteOn
    <2>4. OpInv'
      BY <1>w, <1>1, <1>4, <2>1, <2>3 DEF OpInv, Writing, Removing, Grows, WriteOn
    <2> QED
      BY <2>2, <2>4
  <1>7. HistoryType'
    BY <1>1, ContinueType, TypeParts DEF HistoryType, WriteOn
  <1> QED
    BY <1>1, <1>3, <1>5, <1>6, <1>7, TypeAfter

LEMMA ReleaseIndirectEffect ==
    ASSUME Base, ReleaseIndirect
    PROVE  /\ Steady /\ Continue /\ WriteOn
           /\ UNCHANGED <<disk, disk_map, block_map, i, inode_entries>>
           /\ Lost \/ Reached
           /\ pc' = "update"
  <1> USE DEF Base
  <1>1. Writing
    BY DEF Writing, ReleaseIndirect
  <1>2. /\ Steady /\ UNCHANGED <<disk, disk_map, block_map>>
        /\ Lost \/ Reached
    BY DeleteFacts DEF ReleaseIndirect
  <1>3. /\ UNCHANGED <<cur, i, block_inuse, arg, superblock_inode, inode_entries, expect>>
        /\ pc' = "update" /\ Continue
    BY DEF ReleaseIndirect, memoryVars
  <1>4. WriteOn
    BY <1>1, <1>2, <1>3, TypeParts DEF WriteOn, Writing, Lost, Reached, MemoryType, inode
  <1> QED
    BY <1>2, <1>3, <1>4

LEMMA ReleaseIndirectBase ==
    ASSUME Base, ReleaseIndirect
    PROVE  Base'
  <1> USE DEF Base
  <1>w. Writing /\ pc = "release_indirect"
    BY DEF Writing, ReleaseIndirect
  <1>1. /\ Steady /\ Continue /\ WriteOn
        /\ UNCHANGED <<disk, disk_map, block_map, i, inode_entries>>
        /\ Lost \/ Reached
        /\ pc' = "update"
    BY ReleaseIndirectEffect
  <1>2. DeviceType' /\ DeviceInv'
    BY <1>1, CallOnSameMap
  <1>3. PointerInv' /\ TableInv' /\ MirrorInv' /\ MemoryType'
    <2>1. Short(inode_entries'[cur])
      BY <1>w, <1>1, WritingFacts DEF inode
    <2>2. Online' => \A k \in Index : inode_entries'[cur].num[k] \in Pointer
      BY <1>w, <1>1, WritingFacts DEF WriteOn, inode
    <2> QED
      BY <1>1, <2>1, <2>2, WriteOnKeeps
  <1>4. LocalType' /\ DiskType'
    BY <1>1, TypeParts DEF LocalType, DiskType, WriteOn
  <1>5. OpInv'
    BY <1>w, <1>1 DEF OpInv, Writing, Removing, WriteOn, inode
  <1>6. HistoryType'
    BY <1>1, ContinueType, TypeParts DEF HistoryType, WriteOn
  <1> QED
    BY <1>2, <1>3, <1>4, <1>5, <1>6, TypeAfter

\* Between operations.
LEMMA IdleFacts ==
    ASSUME Idle
    PROVE  /\ pc' = "idle" /\ cur' = 0 /\ i' = 0
           /\ LocalType' /\ OpInv' /\ ~Writing' /\ ~Removing'
  <1>1. pc' = "idle" /\ cur' = 0 /\ i' = 0 /\ block_inuse' = 0 /\ arg' = "none"
    BY DEF Idle
  <1>2. LocalType'
    BY <1>1, IndexFacts DEF LocalType
  <1>3. ~Writing' /\ ~Removing'
    BY <1>1 DEF Writing, Removing
  <1>4. OpInv'
    BY <1>1, <1>3 DEF OpInv
  <1> QED
    BY <1>1, <1>2, <1>3, <1>4

LEMMA FinishWriteBase ==
    ASSUME Base, FinishWrite
    PROVE  Base'
  <1> USE DEF Base
  <1>w. Writing /\ pc = "update"
    BY DEF Writing, FinishWrite
  <1>i. inode \in InodeRecord /\ Short(inode) /\ inode.inode_id \in Id
        /\ (Online => \A k \in Index : inode.num[k] \in Pointer)
    BY <1>w, WritingFacts
  <1>1. /\ Steady /\ UNCHANGED <<disk_map, block_map>>
        /\ \/ Lost
           \/ /\ Reached
              /\ disk'[InodeBlock] = [disk[InodeBlock] EXCEPT ![inode.inode_id] = inode]
        /\ disk'[SUPERBLOCK_ID] = disk[SUPERBLOCK_ID]
        /\ DiskType'
    BY <1>i, UpdateFacts DEF FinishWrite
  <1>2. DeviceType' /\ DeviceInv'
    BY <1>1, CallOnSameMap
  <1>3. UNCHANGED <<superblock_inode, inode_entries>>
    BY DEF FinishWrite, memoryVars
  <1>4. LocalType' /\ OpInv' /\ ~Writing'
    BY IdleFacts DEF FinishWrite
  <1>5. /\ DiskType
        /\ disk[InodeBlock] \in [Id -> InodeRecord]
    BY TypeParts DEF DiskType
  <1>6. PointerInv'
    <2>1. CASE Lost
      BY <1>3, <2>1 DEF PointerInv, Lost, Short
    <2>2. CASE /\ Reached
               /\ disk'[InodeBlock] = [disk[InodeBlock] EXCEPT ![inode.inode_id] = inode]
      <3>1. \A id \in Id : disk'[InodeBlock][id] \in {disk[InodeBlock][id], inode}
        BY <1>5, <2>2
      <3>2. \A id \in Id : Short(disk'[InodeBlock][id]) /\ Short(inode_entries'[id])
        BY <1>3, <1>i, <3>1 DEF PointerInv
      <3>3. \A id \in Id, k \in Index : disk'[InodeBlock][id].num[k] \in Pointer
        BY <1>i, <2>2, <3>1 DEF PointerInv, Reached
      <3>4. \A s \in Id, k \in Index : inode_entries'[s].num[k] \in Pointer
        BY <1>3, <2>2 DEF PointerInv, Reached
      <3> QED
        BY <3>2, <3>3, <3>4 DEF PointerInv, Short
    <2> QED
      BY <1>1, <2>1, <2>2
  <1>7. TableInv'
    BY <1>3 DEF TableInv
  <1>8. MirrorInv'
    <2>1. SUFFICES ASSUME Online' PROVE MirrorInv'
      BY DEF MirrorInv
    <2>2. /\ Reached
          /\ disk'[InodeBlock] = [disk[InodeBlock] EXCEPT ![inode.inode_id] = inode]
      BY <1>1, <2>1 DEF Lost
    <2>3. superblock_inode' = disk'[SUPERBLOCK_ID]
      BY <1>1, <1>3, <2>2 DEF MirrorInv, Reached
    <2>4. ASSUME NEW s \in Id, inode_entries[s].inode_id # -1
          PROVE  /\ Live(inode_entries[s].inode_id)'
                 /\ inode_entries'[s] = disk'[InodeBlock][inode_entries'[s].inode_id]
      <3>1. inode_entries[s].inode_id \in Id /\ Live(inode_entries[s].inode_id)
        BY <2>2, <2>4, TypeParts DEF MirrorInv, MemoryType, InodeRecord, Reached
      <3>2. CASE s = cur
        <4>1. inode_entries[s] = inode
          BY <3>2 DEF inode
        <4>2. disk'[InodeBlock][inode.inode_id] = inode
          BY <1>5, <1>i, <2>2
        <4>3. Live(inode_entries[s].inode_id)'
          BY <1>1, <1>3, <3>1, <4>1, <4>2 DEF Live
        <4> QED
          BY <1>3, <4>1, <4>2, <4>3
      <3>3. CASE s # cur
        <4>1. inode_entries[s].inode_id # inode.inode_id
          BY <1>w, <2>4, <3>3, WritingFacts DEF TableInv, inode
        <4>2. disk'[InodeBlock][inode_entries[s].inode_id]
                  = disk[InodeBlock][inode_entries[s].inode_id]
          BY <1>5, <2>2, <3>1, <4>1
        <4>3. Live(inode_entries[s].inode_id)'
          BY <1>1, <1>3, <3>1, <4>2 DEF Live
        <4>4. inode_entries[s] = disk[InodeBlock][inode_entries[s].inode_id]
          BY <2>2, <2>4, <3>3 DEF MirrorInv, Reached
        <4> QED
          BY <1>3, <4>2, <4>3, <4>4
      <3> QED
        BY <3>2, <3>3
    <2> QED
      BY <1>3, <2>3, <2>4 DEF MirrorInv
  <1>9. MemoryType'
    BY <1>3, TypeParts DEF MemoryType
  <1>10. HistoryType'
    <2>1. arg \in Payload /\ inode.file_size \in 1 .. MaxBlocks
      BY <1>w, WritingFacts
    <2>2. expect' \in [Id -> {Unknown, <<"empty", 0>>} \cup (Payload \X (1 .. MaxBlocks))]
      BY <2>1, TypeParts DEF FinishWrite, HistoryType
    <2> QED
      BY <2>2, ContinueType, TypeParts DEF FinishWrite, HistoryType
  <1> QED
    BY <1>1, <1>2, <1>4, <1>6, <1>7, <1>8, <1>9, <1>10, TypeAfter

-----------------------------------------------------------------------------
(* The commands, and the operations that read, delete and create.          *)

LEMMA SlotFacts ==
    ASSUME Fields, NEW p, Slots(p) # {}
    PROVE  LET s == get_inode_from_path(p)
           IN /\ s \in Id /\ inode_entries[s] \in InodeRecord
              /\ inode_entries[s].inode_id \in Id
              /\ inode_entries[s].filename = p
  <1>1. Slots(p) \in SUBSET Id
    BY DEF Slots
  <1>2. First(Slots(p)) \in Slots(p)
    BY <1>1, FirstIn
  <1> QED
    BY <1>2 DEF Slots, get_inode_from_path, Fields, InodeRecord

\* A command that is only taken up changes nothing of the device.
LEMMA DeviceSame ==
    ASSUME Fields, DeviceInv, UNCHANGED deviceVars, phase = "up"
    PROVE  DeviceType' /\ DeviceInv' /\ DiskType' /\ (Online' <=> Online)
  BY TypeParts DEF deviceVars, DeviceType, DeviceInv, DiskType, Online

LEMMA StartWriteFacts ==
    ASSUME Base, NEW p \in Path, NEW size \in Sizes, NEW v \in Payload,
           write_file_by_path(p, size, v)
    PROVE  LET s == get_inode_from_path(p)
           IN /\ s \in Id /\ inode_entries[s].inode_id \in Id
              /\ cur' = s /\ arg' = v /\ phase = "up"
              /\ size \in 1 .. MaxBlocks
              /\ block_inuse' = InUse(inode_entries[s]) /\ block_inuse' \in 0 .. MaxBlocks
              /\ \/ /\ block_inuse' > size /\ pc' = "release" /\ i' = block_inuse' - size
                 \/ block_inuse' = 0 /\ pc' = "append" /\ i' = 0
                 \/ block_inuse' \in 1 .. size /\ pc' = "overwrite" /\ i' = 0
              /\ inode_entries' \in [Id -> InodeRecord]
              /\ inode_entries'[s].file_size = size
              /\ inode_entries'[s].num = inode_entries[s].num
              /\ \A t \in Id : /\ inode_entries'[t].inode_id = inode_entries[t].inode_id
                               /\ inode_entries'[t].num = inode_entries[t].num
                               /\ t # s => inode_entries'[t] = inode_entries[t]
              /\ Disturb(inode_entries[s].inode_id)
              /\ UNCHANGED <<deviceVars, superblock_inode, cut>>
  <1> USE DEF Base
  <1> DEFINE s == get_inode_from_path(p)
             inuse == InUse(inode_entries[s])
  <1>1. /\ s \in Id /\ inode_entries[s] \in InodeRecord /\ inode_entries[s].inode_id \in Id
        /\ Short(inode_entries[s])
    BY SlotFacts DEF write_file_by_path, PointerInv
  <1>2. inuse \in 0 .. MaxBlocks
    BY <1>1, InUseFacts
  <1>3. size \in 1 .. MaxBlocks
    BY FileStoreAssumption
  <1>4. /\ cur' = s /\ block_inuse' = inuse /\ arg' = v /\ phase = "up"
        /\ i' = IF inuse > size THEN inuse - size ELSE 0
        /\ pc' = IF inuse > size THEN "release"
                 ELSE IF inuse = 0 THEN "append" ELSE "overwrite"
        /\ inode_entries' = [inode_entries EXCEPT ![s].file_size = size]
        /\ Disturb(inode_entries[s].inode_id)
        /\ UNCHANGED <<deviceVars, superblock_inode, cut>>
    BY DEF write_file_by_path
  <1> HIDE DEF s, inuse
  <1>5. \/ /\ block_inuse' > size /\ pc' = "release" /\ i' = block_inuse' - size
        \/ block_inuse' = 0 /\ pc' = "append" /\ i' = 0
        \/ block_inuse' \in 1 .. size /\ pc' = "overwrite" /\ i' = 0
    BY <1>2, <1>3, <1>4, IndexFacts
  <1>6. size \in 0 .. MaxBlocks
    BY <1>3
  <1>7. /\ inode_entries' \in [Id -> InodeRecord]
        /\ inode_entries'[s].file_size = size
        /\ inode_entries'[s].num = inode_entries[s].num
        /\ \A t \in Id : /\ inode_entries'[t].inode_id = inode_entries[t].inode_id
                         /\ inode_entries'[t].num = inode_entries[t].num
                         /\ t # s => inode_entries'[t] = inode_entries[t]
    BY <1>1, <1>4, <1>6 DEF Fields, InodeRecord
  <1> QED
    BY <1>1, <1>2, <1>3, <1>4, <1>5, <1>7 DEF s, inuse

LEMMA DisturbType ==
    ASSUME HistoryType, NEW id, Disturb(id), UNCHANGED cut
    PROVE  HistoryType'
  BY DEF HistoryType, Disturb

LEMMA StartWriteBase ==
    ASSUME Base, NEW p \in Path, NEW size \in Sizes, NEW v \in Payload,
           write_file_by_path(p, size, v)
    PROVE  Base'
  <1> USE DEF Base
  <1> DEFINE s == get_inode_from_path(p)
  <1>1. /\ s \in Id /\ inode_entries[s].inode_id \in Id
        /\ cur' = s /\ arg' = v /\ phase = "up"
        /\ size \in 1 .. MaxBlocks
        /\ block_inuse' \in 0 .. MaxBlocks
        /\ \/ /\ block_inuse' > size /\ pc' = "release" /\ i' = block_inuse' - size
           \/ block_inuse' = 0 /\ pc' = "append" /\ i' = 0
           \/ block_inuse' \in 1 .. size /\ pc' = "overwrite" /\ i' = 0
        /\ inode_entries' \in [Id -> InodeRecord]
        /\ inode_entries'[s].file_size = size
        /\ \A t \in Id : /\ inode_entries'[t].inode_id = inode_entries[t].inode_id
                         /\ inode_entries'[t].num = inode_entries[t].num
                         /\ t # s => inode_entries'[t] = inode_entries[t]
        /\ Disturb(inode_entries[s].inode_id)
        /\ UNCHANGED <<deviceVars, superblock_inode, cut>>
    BY StartWriteFacts
  <1> HIDE DEF s
  <1>2. DeviceType' /\ DeviceInv' /\ DiskType' /\ (Online' <=> Online) /\ disk' = disk
    BY <1>1, DeviceSame DEF deviceVars
  <1>3. MemoryType'
    BY <1>1, TypeParts DEF MemoryType
  <1>4. HistoryType'
    BY <1>1, DisturbType, TypeParts
  <1>5. PointerInv'
    BY <1>1, <1>2 DEF PointerInv, Short
  <1>6. TableInv'
    BY <1>1 DEF TableInv
  <1>7. Writing' /\ pc' \in {"release", "overwrite", "append"}
    BY <1>1 DEF Writing
  <1>8. MirrorInv'
    <2>1. ASSUME Online', NEW t \in Id, inode_entries'[t].inode_id # -1
          PROVE  /\ Live(inode_entries[t].inode_id)'
                 /\ \/ Writing' /\ t = cur'
                    \/ inode_entries'[t] = disk'[InodeBlock][inode_entries'[t].inode_id]
      <3>1. ~Writing
        BY DEF Writing, write_file_by_path
      <3>2. /\ Live(inode_entries[t].inode_id)
            /\ inode_entries[t] = disk[InodeBlock][inode_entries[t].inode_id]
        BY <1>1, <1>2, <2>1, <3>1 DEF MirrorInv
      <3>3. Live(inode_entries[t].inode_id)'
        BY <1>1, <1>2, <3>2 DEF Live
      <3> QED
        BY <1>1, <1>2, <1>7, <3>2, <3>3
    <2> QED
      BY <1>1, <1>2, <2>1 DEF MirrorInv
  <1>9. LocalType' /\ OpInv'
    <2>1. i' \in 0 .. MaxBlocks
      BY <1>1, IndexFacts
    <2>2. LocalType'
      BY <1>1, <2>1 DEF LocalType
    <2>3. inode'.file_size = size /\ inode'.inode_id # -1 /\ inode'.file_size # 0
      BY <1>1, IndexFacts DEF inode
    <2>4. pc' = "release" => Shrinks' /\ block_inuse' - inode'.file_size <= i'
                             /\ i' < block_inuse'
      BY <1>1, <2>3, IndexFacts DEF Shrinks
    <2>5. pc' = "overwrite" => i' < Overwritten'
      BY <1>1, <2>3, IndexFacts DEF Overwritten
    <2>6. pc' = "append" => Grows' /\ block_inuse' <= i' /\ i' < inode'.file_size
      BY <1>1, <2>3, IndexFacts DEF Grows
    <2>7. OpInv'
      BY <1>1, <1>7, <2>3, <2>4, <2>5, <2>6 DEF OpInv, Removing
    <2> QED
      BY <2>2, <2>7
  <1> QED
    BY <1>2, <1>3, <1>4, <1>5, <1>6, <1>8, <1>9, TypeAfter

\* A step that leaves memory and image alone.
LEMMA NothingKept ==
    ASSUME Base, UNCHANGED <<disk, superblock_inode, inode_entries>>, Online' => Online,
           ~Writing
    PROVE  PointerInv' /\ TableInv' /\ MirrorInv' /\ MemoryType' /\ DiskType'
  <1> USE DEF Base
  <1>1. PointerInv'
    BY DEF PointerInv, Short
  <1>2. TableInv'
    BY DEF TableInv
  <1>3. \A id : Live(id)' <=> Live(id)
    BY DEF Live
  <1>4. MirrorInv'
    BY <1>3 DEF MirrorInv
  <1> QED
    BY <1>1, <1>2, <1>4, TypeParts DEF MemoryType, DiskType

LEMMA StartReadBase ==
    ASSUME Base, NEW p \in Path, read_file_by_path(p)
    PROVE  Base'
  <1> USE DEF Base
  <1> DEFINE s == get_inode_from_path(p)
  <1>1. /\ s \in Id /\ inode_entries[s] \in InodeRecord /\ inode_entries[s].inode_id \in Id
        /\ Short(inode_entries[s])
    BY SlotFacts DEF read_file_by_path, PointerInv
  <1>2. /\ cur' = s /\ pc' = "read" /\ phase = "up" /\ pc = "idle"
        /\ InUse(inode_entries[s]) # 0
        /\ UNCHANGED <<deviceVars, memoryVars, i, block_inuse, arg, cut, expect>>
    BY DEF read_file_by_path
  <1> HIDE DEF s
  <1>3. DeviceType' /\ DeviceInv' /\ DiskType' /\ (Online' <=> Online)
    BY <1>2, DeviceSame
  <1>4. PointerInv' /\ TableInv' /\ MirrorInv' /\ MemoryType'
    BY <1>2, <1>3, NothingKept DEF deviceVars, memoryVars, Writing
  <1>5. LocalType' /\ HistoryType'
    BY <1>1, <1>2, TypeParts DEF LocalType, HistoryType
  <1>6. OpInv'
    <2>1. i' = 0 /\ inode' = inode_entries[s]
      BY <1>2 DEF OpInv, inode, memoryVars
    <2>2. InUse(inode_entries[s]) \in 0 .. MaxBlocks
      BY <1>1, InUseFacts
    <2>3. 0 < InUse(inode_entries[s]) /\ 0 < MaxBlocks
      BY <1>2, <2>2, IndexFacts
    <2>4. inode_entries[s].num[0] # 0
      BY <1>1, <2>3, InUseFacts, IndexFacts, FileStoreAssumption
    <2> QED
      BY <1>1, <1>2, <2>1, <2>3, <2>4, IndexFacts DEF OpInv, Writing, Removing
  <1> QED
    BY <1>3, <1>4, <1>5, <1>6, TypeAfter

LEMMA ReadBlockBase ==
    ASSUME Base, ReadBlock
    PROVE  Base'
  <1> USE DEF Base
  <1>w. ~Writing /\ ~Removing /\ pc = "read"
    BY DEF Writing, Removing, ReadBlock
  <1>1. /\ Steady /\ UNCHANGED <<disk, disk_map, block_map>>
        /\ Lost \/ Reached
        /\ UNCHANGED <<superblock_inode, inode_entries, cut, expect>>
    BY ReadFacts DEF ReadBlock, memoryVars
  <1>2. DeviceType' /\ DeviceInv'
    BY <1>1, CallOnSameMap
  <1>3. PointerInv' /\ TableInv' /\ MirrorInv' /\ MemoryType' /\ DiskType'
    BY <1>w, <1>1, NothingKept DEF Lost, Reached
  <1>4. HistoryType'
    BY <1>1, TypeParts DEF HistoryType
  <1>5. LocalType' /\ OpInv'
    <2>1. CASE Idle
      BY <2>1, IdleFacts
    <2>2. CASE inode.num[i + 1] # 0 /\ i' = i + 1 /\ UNCHANGED <<pc, cur, block_inuse, arg>>
      <3>1. i \in 0 .. MaxBlocks /\ i < MaxBlocks /\ Short(inode) /\ inode.inode_id # -1
        BY <1>w DEF OpInv, Fields, PointerInv, inode
      <3>2. i + 1 \in 0 .. MaxBlocks /\ i + 1 \in Index
        BY <3>1, IndexFacts
      <3>3. i + 1 < MaxBlocks
        BY <2>2, <3>1, <3>2, IndexFacts DEF Short
      <3>4. inode' = inode
        BY <1>1, <2>2 DEF inode
      <3>5. LocalType'
        BY <2>2, <3>2, TypeParts DEF LocalType
      <3>6. OpInv'
        BY <1>w, <2>2, <3>1, <3>3, <3>4 DEF OpInv, Writing, Removing
      <3> QED
        BY <3>5, <3>6
    <2> QED
      BY <2>1, <2>2 DEF ReadBlock
  <1> QED
    BY <1>1, <1>2, <1>3, <1>4, <1>5, TypeAfter

LEMMA StartDeleteBase ==
    ASSUME Base, NEW p \in Path, delete_file_by_path(p)
    PROVE  Base'
  <1> USE DEF Base
  <1> DEFINE s == get_inode_from_path(p)
  <1>1. /\ s \in Id /\ inode_entries[s] \in InodeRecord /\ inode_entries[s].inode_id \in Id
        /\ Short(inode_entries[s])
    BY SlotFacts DEF delete_file_by_path, PointerInv
  <1>2. /\ cur' = s /\ phase = "up" /\ pc = "idle"
        /\ pc' = IF InUse(inode_entries[s]) = 0 THEN "clear" ELSE "delete"
        /\ Disturb(inode_entries[s].inode_id)
        /\ UNCHANGED <<deviceVars, memoryVars, i, block_inuse, arg, cut>>
    BY DEF delete_file_by_path
  <1> HIDE DEF s
  <1>3. DeviceType' /\ DeviceInv' /\ DiskType' /\ (Online' <=> Online)
    BY <1>2, DeviceSame
  <1>4. PointerInv' /\ TableInv' /\ MirrorInv' /\ MemoryType'
    BY <1>2, <1>3, NothingKept DEF deviceVars, memoryVars, Writing
  <1>5. LocalType' /\ HistoryType'
    BY <1>1, <1>2, DisturbType, TypeParts DEF LocalType
  <1>6. OpInv'
    <2>1. i' = 0 /\ inode' = inode_entries[s]
      BY <1>2 DEF OpInv, inode, memoryVars
    <2>2. InUse(inode_entries[s]) \in 0 .. MaxBlocks
      BY <1>1, InUseFacts
    <2>3. InUse(inode') = InUse(inode_entries[s])
      BY <2>1 DEF InUse
    <2>4. pc' = "delete" => i' < InUse(inode')
      BY <1>2, <2>1, <2>2, <2>3, IndexFacts
    <2> QED
      BY <1>1, <1>2, <2>1, <2>4, IndexFacts DEF OpInv, Writing, Removing
  <1> QED
    BY <1>3, <1>4, <1>5, <1>6, TypeAfter

LEMMA RemovingFacts ==
    ASSUME Base, Removing
    PROVE  /\ phase = "up" /\ block_map = disk_map
           /\ cur \in Id /\ i \in Index /\ i \in 0 .. MaxBlocks
           /\ inode \in InodeRecord /\ Short(inode)
           /\ inode.inode_id \in Id
           /\ InUse(inode) \in 0 .. MaxBlocks /\ MaxBlocks \in Nat
           /\ Online => \A k \in Index : inode.num[k] \in Pointer
  <1> USE DEF Base
  <1>1. phase = "up" /\ block_map = disk_map
    BY ServingFacts DEF Removing
  <1>2. cur \in Id /\ i \in Index /\ i \in 0 .. MaxBlocks
    BY IndexFacts DEF Fields
  <1>3. inode \in InodeRecord /\ Short(inode)
    BY <1>2 DEF inode, Fields, PointerInv
  <1>4. inode.inode_id \in Id
    BY <1>3 DEF OpInv, InodeRecord
  <1> QED
    BY <1>1, <1>2, <1>3, <1>4, InUseFacts, IndexFacts DEF PointerInv, inode

LEMMA DeleteBlockBase ==
    ASSUME Base, DeleteBlock
    PROVE  Base'
  <1> USE DEF Base
  <1>w. ~Writing /\ Removing /\ pc = "delete" /\ i < InUse(inode)
    BY DEF Writing, Removing, DeleteBlock, OpInv
  <1>1. /\ Steady /\ UNCHANGED disk
        /\ \/ Lost /\ UNCHANGED <<disk_map, block_map>>
           \/ /\ Reached
              /\ disk_map' = disk_map \ {inode.num[i]} /\ block_map' = disk_map'
           \/ Reached /\ UNCHANGED <<disk_map, block_map>>
    BY DeleteFacts DEF DeleteBlock
  <1>2. DeviceType' /\ DeviceInv'
    <2>1. CASE UNCHANGED <<disk_map, block_map>>
      BY <1>1, <2>1, CallOnSameMap
    <2>2. CASE Reached /\ disk_map' = disk_map \ {inode.num[i]} /\ block_map' = disk_map'
      <3>1. inode.num[i] \in Pointer
        BY <1>w, <2>2, RemovingFacts DEF Reached
      <3>2. /\ SUPERBLOCK_ID \in disk_map' /\ InodeBlock \in disk_map'
            /\ disk_map' \subseteq Dev!Block
        BY <2>2, <3>1, BlockFacts DEF DeviceInv, Fields
      <3> QED
        BY <1>1, <2>2, <3>2, CallKeepsDevice
    <2> QED
      BY <1>1, <2>1, <2>2
  <1>3. /\ i' = i + 1
        /\ UNCHANGED <<cur, block_inuse, arg, superblock_inode, inode_entries, expect>>
        /\ \/ i + 1 = InUse(inode) /\ pc' = "clear"
           \/ i + 1 # InUse(inode) /\ pc' = "delete"
        /\ Continue
    BY DEF DeleteBlock, Loop, memoryVars
  <1>4. PointerInv' /\ TableInv' /\ MirrorInv' /\ MemoryType' /\ DiskType'
    BY <1>w, <1>1, <1>3, NothingKept DEF Lost, Reached
  <1>5. HistoryType'
    BY <1>3, ContinueType, TypeParts DEF HistoryType
  <1>6. LocalType' /\ OpInv'
    <2>1. i \in 0 .. MaxBlocks /\ InUse(inode) \in 0 .. MaxBlocks /\ MaxBlocks \in Nat
          /\ inode.inode_id \in Id
      BY <1>w, RemovingFacts
    <2>2. i' \in 0 .. MaxBlocks
      BY <1>w, <1>3, <2>1
    <2>3. LocalType'
      BY <1>3, <2>2, TypeParts DEF LocalType
    <2>4. inode' = inode /\ InUse(inode') = InUse(inode)
      BY <1>3 DEF inode, InUse
    <2>5. pc' = "delete" => i' < InUse(inode')
      BY <1>w, <1>3, <2>1, <2>4
    <2>6. OpInv'
      BY <1>3, <2>1, <2>4, <2>5, IndexFacts DEF OpInv, Writing, Removing
    <2> QED
      BY <2>3, <2>6
  <1> QED
    BY <1>2, <1>4, <1>5, <1>6, TypeAfter

LEMMA FinishDeleteBase ==
    ASSUME Base, FinishDelete
    PROVE  Base'
  <1> USE DEF Base
  <1>w. ~Writing /\ Removing
    BY DEF Writing, Removing, FinishDelete
  <1>i. cur \in Id /\ inode.inode_id \in Id
    BY <1>w, RemovingFacts
  <1> DEFINE map == superblock_inode \ {inode.inode_id}
  <1>1. /\ Steady /\ UNCHANGED <<disk_map, block_map>>
        /\ superblock_inode' = map
        /\ Lost \/ (Reached /\ disk'[SUPERBLOCK_ID] = map)
        /\ disk'[InodeBlock] = disk[InodeBlock]
        /\ DiskType'
    <2>1. map \in SUBSET Id
      BY DEF Fields
    <2> QED
      BY <2>1, SaveFacts DEF FinishDelete
  <1>2. DeviceType' /\ DeviceInv'
    BY <1>1, CallOnSameMap
  <1>3. /\ inode_entries' \in [Id -> InodeRecord]
        /\ inode_entries'[cur] = DeadSlot
        /\ \A s \in Id : s # cur => inode_entries'[s] = inode_entries[s]
    BY <1>i, InodeType DEF FinishDelete, Fields
  <1>4. MemoryType'
    BY <1>1, <1>3 DEF MemoryType, Fields
  <1>5. PointerInv'
    <2>1. \A s \in Id : Short(inode_entries'[s])
      BY <1>3, InodeType DEF PointerInv
    <2>2. Online' => \A s \in Id, k \in Index : inode_entries'[s].num[k] \in Pointer
      BY <1>1, <1>3, InodeType DEF PointerInv, Pointer, Lost, Reached
    <2> QED
      BY <1>1, <2>1, <2>2 DEF PointerInv, Short
  <1>6. ASSUME NEW s \in Id, inode_entries'[s].inode_id # -1
        PROVE  /\ s # cur /\ inode_entries'[s] = inode_entries[s]
               /\ inode_entries[s].inode_id \in superblock_inode'
               /\ inode_entries[s].inode_id # inode.inode_id
    <2>1. s # cur /\ inode_entries'[s] = inode_entries[s]
      BY <1>3, <1>6, InodeType
    <2>2. inode_entries[s].inode_id # inode.inode_id
      BY <1>i, <1>6, <2>1, IndexFacts DEF TableInv, inode
    <2> QED
      BY <1>1, <1>6, <2>1, <2>2 DEF TableInv
  <1>7. TableInv'
    <2>1. ASSUME NEW s \in Id, inode_entries'[s].inode_id # -1, NEW t \in Id,
                 inode_entries'[t].inode_id = inode_entries'[s].inode_id
          PROVE  s = t
      <3>1. inode_entries'[s] = inode_entries[s] /\ inode_entries'[t] = inode_entries[t]
        BY <1>6, <2>1
      <3> QED
        BY <2>1, <3>1 DEF TableInv
    <2> QED
      BY <1>6, <2>1 DEF TableInv
  <1>8. MirrorInv'
    <2>1. ASSUME Online', NEW s \in Id, inode_entries'[s].inode_id # -1
          PROVE  /\ Live(inode_entries[s].inode_id)'
                 /\ inode_entries'[s] = inode_entries[s]
                 /\ inode_entries'[s] = disk'[InodeBlock][inode_entries'[s].inode_id]
      <3>1. Reached /\ disk'[SUPERBLOCK_ID] = superblock_inode'
        BY <1>1, <2>1 DEF Lost
      <3>2. /\ inode_entries'[s] = inode_entries[s]
            /\ inode_entries[s].inode_id \in superblock_inode'
        BY <1>6, <2>1
      <3>3. /\ Live(inode_entries[s].inode_id)
            /\ inode_entries[s] = disk[InodeBlock][inode_entries[s].inode_id]
        BY <1>w, <2>1, <3>1, <3>2 DEF MirrorInv, Reached
      <3>4. Live(inode_entries[s].inode_id)'
        BY <1>1, <3>1, <3>2, <3>3 DEF Live
      <3> QED
        BY <1>1, <3>2, <3>3, <3>4
    <2>2. Online' => superblock_inode' = disk'[SUPERBLOCK_ID]
      BY <1>1 DEF Lost
    <2> QED
      BY <2>1, <2>2 DEF MirrorInv
  <1>9. LocalType' /\ OpInv'
    BY IdleFacts DEF FinishDelete
  <1>10. HistoryType'
    BY ContinueType, TypeParts DEF FinishDelete, HistoryType
  <1> QED
    BY <1>1, <1>2, <1>4, <1>5, <1>7, <1>8, <1>9, <1>10, TypeAfter

LEMMA StartCreateBase ==
    ASSUME Base, NEW p \in Path, create_file(p)
    PROVE  Base'
  <1> USE DEF Base
  <1> DEFINE id  == First(FreeIds)
             map == superblock_inode \cup {id}
  <1>1. id \in Id /\ id \notin superblock_inode
    BY FirstIn DEF create_file, FreeIds
  <1>2. /\ pc = "idle" /\ pc' = "create" /\ cur' = id /\ arg' = p
        /\ save_inode_bitmap(map)
        /\ UNCHANGED <<inode_entries, i, block_inuse, cut, expect>>
    BY DEF create_file
  <1> HIDE DEF id
  <1>3. /\ Steady /\ UNCHANGED <<disk_map, block_map>>
        /\ superblock_inode' = map
        /\ Lost \/ (Reached /\ disk'[SUPERBLOCK_ID] = map)
        /\ disk'[InodeBlock] = disk[InodeBlock]
        /\ DiskType'
    <2>1. map \in SUBSET Id
      BY <1>1 DEF Fields
    <2> QED
      BY <1>2, <2>1, SaveFacts
  <1>4. DeviceType' /\ DeviceInv'
    BY <1>3, CallOnSameMap
  <1>5. MemoryType'
    BY <1>1, <1>2, <1>3 DEF MemoryType, Fields
  <1>6. PointerInv'
    BY <1>2, <1>3 DEF PointerInv, Short, Lost, Reached
  <1>7. \A s \in Id : inode_entries[s].inode_id # id
    BY <1>1, IndexFacts DEF TableInv
  <1>8. TableInv'
    BY <1>2, <1>3 DEF TableInv
  <1>9. MirrorInv'
    <2>1. ASSUME Online', NEW s \in Id, inode_entries[s].inode_id # -1
          PROVE  /\ Live(inode_entries[s].inode_id)'
                 /\ inode_entries[s] = disk'[InodeBlock][inode_entries[s].inode_id]
      <3>1. Reached /\ disk'[SUPERBLOCK_ID] = map
        BY <1>3, <2>1 DEF Lost
      <3>2. /\ Live(inode_entries[s].inode_id)
            /\ inode_entries[s] = disk[InodeBlock][inode_entries[s].inode_id]
        BY <1>2, <2>1, <3>1 DEF MirrorInv, Reached, Writing
      <3>3. superblock_inode = disk[SUPERBLOCK_ID]
        BY <3>1 DEF MirrorInv, Reached
      <3>4. /\ inode_entries[s].inode_id \in map
            /\ disk[InodeBlock][inode_entries[s].inode_id].inode_id = inode_entries[s].inode_id
        BY <3>2, <3>3 DEF Live
      <3>5. Live(inode_entries[s].inode_id)'
        BY <1>2, <1>3, <3>1, <3>4 DEF Live
      <3> QED
        BY <1>3, <3>2, <3>5
    <2>2. Online' => superblock_inode' = disk'[SUPERBLOCK_ID]
      BY <1>3 DEF Lost
    <2> QED
      BY <1>2, <2>1, <2>2 DEF MirrorInv
  <1>10. LocalType' /\ HistoryType'
    BY <1>1, <1>2, TypeParts DEF LocalType, HistoryType
  <1>11. OpInv'
    BY <1>2, <1>3, <1>7 DEF OpInv, Writing, Removing
  <1> QED
    BY <1>3, <1>4, <1>5, <1>6, <1>8, <1>9, <1>10, <1>11, TypeAfter

LEMMA CreatedInode ==
    ASSUME Base, pc = "create"
    PROVE  LET n == Inode(cur, arg, 0, NoBlocks)
           IN /\ cur \in Id /\ cur \in superblock_inode
              /\ n \in InodeRecord /\ Short(n) /\ n.inode_id = cur
              /\ n.file_size = 0 /\ n.filename = arg
              /\ \A k \in Index : n.num[k] = 0
              /\ \A s \in Id : inode_entries[s].inode_id # cur
  BY InodeType DEF Base, OpInv, Fields

LEMMA FinishCreateBase ==
    ASSUME Base, FinishCreate
    PROVE  Base'
  <1> USE DEF Base
  <1> DEFINE n == Inode(cur, arg, 0, NoBlocks)
  <1>w. pc = "create" /\ ~Writing
    BY DEF FinishCreate, Writing
  <1>i. /\ cur \in Id /\ cur \in superblock_inode
        /\ n \in InodeRecord /\ Short(n) /\ n.inode_id = cur
        /\ \A k \in Index : n.num[k] = 0
        /\ \A s \in Id : inode_entries[s].inode_id # cur
    BY <1>w, CreatedInode
  <1>0. update_inode(n) /\ superblock_inode' = superblock_inode
    BY DEF FinishCreate
  <1>e. \/ inode_entries' = inode_entries
        \/ \E t \in Id : inode_entries' = [inode_entries EXCEPT ![t] = n]
    <2>1. FreeSlots \in SUBSET Id
      BY DEF FreeSlots
    <2>2. FreeSlots # {} => First(FreeSlots) \in Id
      BY <2>1, FirstIn
    <2> QED
      BY <2>2 DEF FinishCreate
  <1> HIDE DEF n
  <1>1. /\ Steady /\ UNCHANGED <<disk_map, block_map>>
        /\ Lost \/ (Reached /\ disk'[InodeBlock] = [disk[InodeBlock] EXCEPT ![cur] = n])
        /\ disk'[SUPERBLOCK_ID] = disk[SUPERBLOCK_ID]
        /\ DiskType'
    BY <1>0, <1>i, UpdateFacts
  <1>2. DeviceType' /\ DeviceInv'
    BY <1>1, CallOnSameMap
  <1>3. /\ inode_entries' \in [Id -> InodeRecord]
        /\ \A s \in Id : inode_entries'[s] = inode_entries[s] \/ inode_entries'[s] = n
        /\ \A s, t \in Id : inode_entries'[s] = n /\ inode_entries'[t] = n => s = t
    <2>1. \A s \in Id : inode_entries[s] # n
      BY <1>i
    <2>2. inode_entries \in [Id -> InodeRecord]
      BY DEF Fields
    <2> QED
      BY <1>e, <1>i, <2>1, <2>2
  <1>4. MemoryType'
    BY <1>0, <1>3 DEF MemoryType, Fields
  <1>5. PointerInv'
    <2>1. \A s \in Id : Short(inode_entries'[s])
      BY <1>3, <1>i DEF PointerInv
    <2>2. Online' => \A s \in Id, k \in Index : inode_entries'[s].num[k] \in Pointer
      BY <1>1, <1>3, <1>i DEF PointerInv, Pointer, Lost, Reached
    <2>3. \A id \in Id : /\ Short(disk'[InodeBlock][id])
                         /\ \A k \in Index : disk'[InodeBlock][id].num[k] \in Pointer
      <3>1. CASE Lost
        BY <3>1 DEF PointerInv, Lost
      <3>2. CASE disk'[InodeBlock] = [disk[InodeBlock] EXCEPT ![cur] = n]
        <4>1. \A id \in Id : disk'[InodeBlock][id] \in {disk[InodeBlock][id], n}
          BY <3>2 DEF Fields
        <4> QED
          BY <1>i, <4>1 DEF PointerInv, Pointer
      <3> QED
        BY <1>1, <3>1, <3>2
    <2> QED
      BY <2>1, <2>2, <2>3 DEF PointerInv, Short
  <1>6. TableInv'
    <2>1. ASSUME NEW s \in Id, inode_entries'[s].inode_id # -1
          PROVE  inode_entries'[s].inode_id \in superblock_inode
      BY <1>3, <1>i, <2>1 DEF TableInv
    <2>2. ASSUME NEW s \in Id, inode_entries'[s].inode_id # -1, NEW t \in Id,
                 inode_entries'[t].inode_id = inode_entries'[s].inode_id
          PROVE  s = t
      BY <1>3, <1>i, <2>2 DEF TableInv
    <2> QED
      BY <1>0, <2>1, <2>2 DEF TableInv
  <1>7. MirrorInv'
    <2>1. SUFFICES ASSUME Online' PROVE MirrorInv'
      BY DEF MirrorInv
    <2>2. Reached /\ disk'[InodeBlock] = [disk[InodeBlock] EXCEPT ![cur] = n]
      BY <1>1, <2>1 DEF Lost
    <2>3. superblock_inode = disk[SUPERBLOCK_ID] /\ disk[InodeBlock] \in [Id -> InodeRecord]
      BY <2>2 DEF MirrorInv, Reached, Fields
    <2>4. ASSUME NEW s \in Id, NEW id \in Id, inode_entries'[s].inode_id = id
          PROVE  Live(id)' /\ inode_entries'[s] = disk'[InodeBlock][id]
      <3>1. CASE inode_entries'[s] = n
        BY <1>1, <1>i, <2>2, <2>3, <2>4, <3>1 DEF Live
      <3>2. CASE inode_entries'[s] = inode_entries[s]
        <4>1. id # cur /\ id # -1
          BY <1>i, <2>4, <3>2, IndexFacts
        <4>2. Live(id) /\ inode_entries[s] = disk[InodeBlock][id]
          BY <1>w, <2>2, <2>4, <3>2, <4>1 DEF MirrorInv, Reached
        <4> QED
          BY <1>1, <2>2, <2>3, <3>2, <4>1, <4>2 DEF Live
      <3> QED
        BY <1>3, <3>1, <3>2
    <2>5. \A s \in Id : inode_entries'[s].inode_id # -1 => inode_entries'[s].inode_id \in Id
      BY <1>3 DEF InodeRecord
    <2> QED
      BY <1>0, <1>1, <2>3, <2>4, <2>5 DEF MirrorInv
  <1>8. LocalType' /\ OpInv'
    BY IdleFacts DEF FinishCreate
  <1>9. HistoryType'
    <2>1. expect' \in [Id -> {Unknown, <<"empty", 0>>} \cup (Payload \X (1 .. MaxBlocks))]
      BY TypeParts DEF FinishCreate, HistoryType
    <2> QED
      BY <2>1, ContinueType, TypeParts DEF FinishCreate, HistoryType
  <1> QED
    BY <1>1, <1>2, <1>4, <1>5, <1>6, <1>7, <1>8, <1>9, TypeAfter

-----------------------------------------------------------------------------
(* The process dies and is started again.                                  *)

LEMMA CrashFacts ==
    ASSUME Base, Crash
    PROVE  /\ phase' = "down" /\ file_state' = "closed" /\ ~Online'
           /\ block_map' = {} /\ leaked' \in 0 .. MaxFds
           /\ UNCHANGED <<image, disk, expect>>
           /\ disk_map' = disk_map \/ \E b \in Dev!Free : disk_map' = disk_map \cup {b}
           /\ ~(Online /\ pc = "append") => UNCHANGED disk_map
           /\ superblock_inode' = {}
           /\ inode_entries' = [s \in Id |-> EmptySlot]
           /\ Idle
           /\ cut' = IF Online THEN cut \cup Kind ELSE cut
  <1>1. ~(Online /\ pc = "append") => UNCHANGED disk_map
    BY DEF Crash, Dev!Halt, Dev!diskVars, Dev!HaltInWriteBlock, Dev!Opened, Online
  <1> QED
    BY <1>1, HaltFacts DEF Base, Crash, Online

LEMMA CrashBase ==
    ASSUME Base, Crash
    PROVE  Base'
  <1> USE DEF Base
  <1>1. /\ phase' = "down" /\ file_state' = "closed" /\ ~Online'
        /\ block_map' = {} /\ leaked' \in 0 .. MaxFds
        /\ UNCHANGED <<image, disk, expect>>
        /\ disk_map' = disk_map \/ \E b \in Dev!Free : disk_map' = disk_map \cup {b}
        /\ superblock_inode' = {}
        /\ inode_entries' = [s \in Id |-> EmptySlot]
        /\ cut' = IF Online THEN cut \cup Kind ELSE cut
    BY CrashFacts
  <1>2. pc' = "idle" /\ LocalType' /\ OpInv'
    BY CrashFacts, IdleFacts
  <1>3. disk_map \subseteq disk_map' /\ disk_map' \subseteq Dev!Block
    BY <1>1, FreeFacts, BlockFacts DEF Fields
  <1>4. DeviceType' /\ DeviceInv'
    BY <1>1, <1>2, <1>3 DEF DeviceType, DeviceInv
  <1>5. DiskType' /\ MemoryType'
    BY <1>1, InodeType, TypeParts DEF DiskType, MemoryType
  <1>6. HistoryType'
    BY <1>1, KindType, TypeParts DEF HistoryType
  <1>7. PointerInv'
    BY <1>1, InodeType DEF PointerInv, Short
  <1>8. TableInv' /\ MirrorInv'
    BY <1>1, InodeType DEF TableInv, MirrorInv
  <1> QED
    BY <1>2, <1>4, <1>5, <1>6, <1>7, <1>8, TypeAfter

LEMMA RestartBase ==
    ASSUME Base, Restart
    PROVE  Base'
  <1> USE DEF Base
  <1>1. /\ phase = "down" /\ phase' = "up" /\ Online' /\ file_state' = "open"
        /\ file_system_path'
        /\ block_map' = disk_map
        /\ UNCHANGED <<image, disk, disk_map, leaked>>
        /\ superblock_inode' = disk[SUPERBLOCK_ID]
        /\ inode_entries' = Loaded
        /\ UNCHANGED <<opVars, cut, expect>>
    BY LoadFacts DEF Restart
  <1>2. pc = "idle"
    BY <1>1 DEF DeviceInv
  <1>3. DeviceType' /\ DeviceInv'
    BY <1>1 DEF DeviceType, DeviceInv, Fields
  <1>4. /\ inode_entries' \in [Id -> InodeRecord]
        /\ \A s \in Id : inode_entries'[s] = IF Live(s) THEN disk[InodeBlock][s] ELSE EmptySlot
    BY <1>1, InodeType DEF Loaded, Fields
  <1>5. DiskType' /\ MemoryType' /\ LocalType' /\ HistoryType'
    BY <1>1, <1>4, TypeParts DEF DiskType, MemoryType, LocalType, HistoryType, opVars
  <1>6. OpInv'
    BY <1>1, <1>2 DEF OpInv, opVars, Writing, Removing
  <1>7. PointerInv'
    <2>1. \A s \in Id : /\ Short(inode_entries'[s])
                        /\ \A k \in Index : inode_entries'[s].num[k] \in Pointer
      BY <1>4, InodeType DEF PointerInv, Pointer
    <2> QED
      BY <1>1, <2>1 DEF PointerInv, Short
  <1>8. \A s \in Id : inode_entries'[s].inode_id # -1 =>
            Live(s) /\ inode_entries'[s].inode_id = s /\ inode_entries'[s] = disk[InodeBlock][s]
    BY <1>4, InodeType DEF Live
  <1>9. TableInv'
    BY <1>1, <1>8 DEF TableInv, Live
  <1>10. MirrorInv'
    BY <1>1, <1>8 DEF MirrorInv, Live
  <1> QED
    BY <1>3, <1>5, <1>6, <1>7, <1>9, <1>10, TypeAfter

-----------------------------------------------------------------------------
LEMMA BaseInit == Init => Base
  <1> SUFFICES ASSUME Init PROVE Base
    OBVIOUS
  <1>1. DeviceType /\ DeviceInv /\ block_map = disk_map
    <2>1. 0 .. blocks_from - 1 \subseteq Dev!Block
      BY FileStoreAssumption DEF Dev!Block
    <2>2. SUPERBLOCK_ID \in 0 .. blocks_from - 1 /\ InodeBlock \in 0 .. blocks_from - 1
      BY FileStoreAssumption DEF SUPERBLOCK_ID, InodeBlock
    <2>3. 0 \in 0 .. MaxFds
      BY FileStoreAssumption
    <2> QED
      BY <2>1, <2>2, <2>3 DEF Init, DeviceType, DeviceInv
  <1>2. /\ DOMAIN disk = Dev!Block
        /\ disk[SUPERBLOCK_ID] = {0}
        /\ disk[InodeBlock] =
               [id \in Id |-> IF id = 0 THEN Root ELSE Inode(0, Unnamed, 0, NoBlocks)]
        /\ \A b \in Dev!DataBlock : disk[b] = Zero
    BY BlockFacts DEF Init, Dev!Block, Pointer
  <1>3. DiskType
    <2>1. Zero \in Piece
      BY DEF Piece
    <2>2. disk[InodeBlock] \in [Id -> InodeRecord]
      BY <1>2, InodeType, IndexFacts
    <2> QED
      BY <1>2, <2>1, <2>2, IndexFacts DEF DiskType
  <1>4. /\ superblock_inode = {0}
        /\ inode_entries = [s \in Id |-> IF s = 0 THEN Root ELSE EmptySlot]
    BY DEF Init
  <1>5. MemoryType
    BY <1>4, InodeType, IndexFacts DEF MemoryType
  <1>6. LocalType /\ HistoryType
    BY IndexFacts DEF Init, LocalType, HistoryType
  <1>7. OpInv
    BY DEF Init, OpInv, Writing, Removing
  <1>8. PointerInv
    <2>1. \A id \in Id : /\ Short(disk[InodeBlock][id])
                         /\ \A k \in Index : disk[InodeBlock][id].num[k] = 0
      BY <1>2, InodeType, IndexFacts
    <2>2. \A s \in Id : Short(inode_entries[s]) /\ \A k \in Index : inode_entries[s].num[k] = 0
      BY <1>4, InodeType
    <2> QED
      BY <2>1, <2>2 DEF PointerInv, Pointer
  <1>9. \A s \in Id : inode_entries[s].inode_id # -1 => s = 0 /\ inode_entries[s] = Root
    BY <1>4, InodeType
  <1>10. TableInv
    BY <1>4, <1>9, InodeType DEF TableInv
  <1>11. MirrorInv
    BY <1>2, <1>4, <1>9, InodeType, IndexFacts DEF MirrorInv, Live
  <1> QED
    BY <1>1, <1>3, <1>5, <1>6, <1>7, <1>8, <1>10, <1>11, TypeParts DEF Base

LEMMA BaseStutter ==
    ASSUME Base, UNCHANGED vars
    PROVE  Base'
  <1> USE DEF Base, vars, deviceVars, memoryVars, opVars
  <1>1. DeviceType' /\ DiskType' /\ MemoryType' /\ LocalType' /\ HistoryType'
    BY TypeParts DEF DeviceType, DiskType, MemoryType, LocalType, HistoryType
  <1>2. DeviceInv' /\ TableInv'
    BY DEF DeviceInv, TableInv
  <1>3. PointerInv'
    BY DEF PointerInv, Short, Online
  <1>4. OpInv'
    BY DEF OpInv, Writing, Removing, Shrinks, Grows, Overwritten, InUse, inode
  <1>5. MirrorInv'
    BY DEF MirrorInv, Live, Online, Writing
  <1> QED
    BY <1>1, <1>2, <1>3, <1>4, <1>5, TypeAfter

LEMMA BaseStep == Base /\ [Next]_vars => Base'
  <1> SUFFICES ASSUME Base, [Next]_vars PROVE Base'
    OBVIOUS
  <1>1. ASSUME NEW p \in Path, create_file(p) PROVE Base'
    BY <1>1, StartCreateBase
  <1>2. ASSUME NEW p \in Path, NEW size \in Sizes, NEW v \in Payload,
               write_file_by_path(p, size, v)
        PROVE  Base'
    BY <1>2, StartWriteBase
  <1>3. ASSUME NEW p \in Path, read_file_by_path(p) PROVE Base'
    BY <1>3, StartReadBase
  <1>4. ASSUME NEW p \in Path, delete_file_by_path(p) PROVE Base'
    BY <1>4, StartDeleteBase
  <1>5. ASSUME Step PROVE Base'
    BY <1>5, FinishCreateBase, ReleaseTailBase, OverwriteBase, AppendBase,
       ReleaseIndirectBase, FinishWriteBase, ReadBlockBase, DeleteBlockBase,
       FinishDeleteBase DEF Step
  <1>6. ASSUME Crash PROVE Base'
    BY <1>6, CrashBase
  <1>7. ASSUME Restart PROVE Base'
    BY <1>7, RestartBase
  <1>8. ASSUME UNCHANGED vars PROVE Base'
    BY <1>8, BaseStutter
  <1> QED
    BY <1>1, <1>2, <1>3, <1>4, <1>5, <1>6, <1>7, <1>8 DEF Next, Command

LEMMA BaseAlways == Spec => []Base
  BY BaseInit, BaseStep, PTL DEF Spec

\* Every state is well typed: no loop counter leaves its file and no more
\* descriptors leak than there are; and although write_file stores whatever int
\* the unset block_id_buf holds (Garbage is any set of ints), every pointer on
\* the image is the id of a block, and so is every pointer in memory as long as
\* the image can be opened.
THEOREM TypeCorrect == Spec => []TypeOK
  <1>1. Base => TypeOK
    <2> SUFFICES ASSUME Base PROVE TypeOK
      OBVIOUS
    <2>1. \A id \in Id, k \in Index : disk[InodeBlock][id].num[k] \in Dev!Block
      BY BlockFacts DEF Base, PointerInv
    <2>2. Dev!Opened => \A s \in Id, k \in Index : inode_entries[s].num[k] \in Dev!Block
      BY BlockFacts DEF Base, PointerInv, Online, Dev!Opened
    <2> QED
      BY <2>1, <2>2 DEF Base, TypeOK
  <1> QED
    BY <1>1, BaseAlways, PTL

\* Between operations, while the image can be opened, memory and image agree.
THEOREM MemoryWrittenThrough == Spec => []WrittenThrough
  <1>1. Base => WrittenThrough
    BY DEF Base, MirrorInv, WrittenThrough, Online, Writing, Dev!Opened
  <1> QED
    BY <1>1, BaseAlways, PTL
=============================================================================
