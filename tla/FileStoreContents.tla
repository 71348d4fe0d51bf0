-------------------------- MODULE FileStoreContents --------------------------
(***************************************************************************)
(* What a file reads back as, and who answers for its blocks: proofs that  *)
(* an acknowledged write lasts and that no block is lost, over the         *)
(* invariants of FileStoreProofs and FileStoreOwnership.                   *)
(***************************************************************************)
EXTENDS FileStoreOwnership

\* The pointers that are set come first; they are those below z; none is set
\* from z on.
Dense(n)   == \A k, l \in Index : k <= l /\ n.num[l] # 0 => n.num[k] # 0
Full(n, z) == \A k \in Index : n.num[k] # 0 <=> k < z
Ends(n, z) == \A k \in Index : k >= z => n.num[k] = 0

\* The blocks that stay with the file while it is overwritten.
Kept == IF Shrinks THEN block_inuse - inode.file_size ELSE block_inuse

Packed == \A id \in Id : Dense(disk[InodeBlock][id])

\* The pointers of the inode that is being written. An append that found no
\* free block is followed by none that finds one.
InShape ==
    Online =>
        /\ pc = "release" =>
               \A k \in Index : inode.num[k] # 0 <=> k < Kept \/ (i <= k /\ k < block_inuse)
        /\ pc \in {"overwrite", "release_indirect"} => Full(inode, Kept)
        /\ pc = "append" => /\ Dense(inode) /\ Ends(inode, i)
                            /\ Dev!Free # {} => Full(inode, i)
        /\ pc = "update" => Dense(inode) /\ (~Shrinks => Ends(inode, inode.file_size))

Shape == Packed /\ InShape

\* The pieces of a file that does not shrink are in their blocks, but for old
\* blocks that modify_block refuses.
Done == IF pc = "update" THEN inode.file_size ELSE i

Content ==
    Safe /\ Online /\ pc \in {"overwrite", "append", "update"} /\ ~Shrinks =>
        \A k \in Index :
            /\ k < Done /\ inode.num[k] # 0
            /\ k < Overwritten => inode.num[k] < SIZE_OF_BLOCK
            => disk[inode.num[k]] = <<arg, k>>

\* The image holds what inode id should read back as.
Holds(id) ==
    LET n == disk[InodeBlock][id]
        size == expect[id][2]
    IN /\ Live(id)
       /\ n.file_size = size
       /\ InUse(n) = size
       /\ \A k \in 0 .. size - 1 : disk[n.num[k]] = <<expect[id][1], k>>

Lasting ==
    Safe => \A id \in Id : expect[id] # Unknown => Holds(id) /\ ~Under(id) /\ ~Created(id)

-----------------------------------------------------------------------------
(* The shape of the inodes.                                                *)

LEMMA FullFacts ==
    ASSUME NEW n \in InodeRecord, NEW z \in Nat, Full(n, z)
    PROVE  Dense(n) /\ Ends(n, z)
  BY IndexFacts DEF Full, Dense, Ends

\* A dense inode holds the blocks InUse counts, and no other.
LEMMA DenseFacts ==
    ASSUME NEW n \in InodeRecord, Short(n), Dense(n)
    PROVE  Full(n, InUse(n))
  <1>1. /\ InUse(n) \in 0 .. MaxBlocks
        /\ n.num[InUse(n)] = 0
        /\ \A k \in Index : k < InUse(n) => n.num[k] # 0
    BY InUseFacts
  <1>2. InUse(n) \in Index
    BY <1>1, IndexFacts
  <1>3. ASSUME NEW k \in Index, n.num[k] # 0
        PROVE  k < InUse(n)
    BY <1>1, <1>2, <1>3, IndexFacts DEF Dense
  <1> QED
    BY <1>1, <1>3 DEF Full

LEMMA FullInUse ==
    ASSUME NEW n \in InodeRecord, Short(n), NEW z \in 0 .. MaxBlocks, Full(n, z)
    PROVE  InUse(n) = z
  <1>1. /\ InUse(n) \in 0 .. MaxBlocks
        /\ n.num[InUse(n)] = 0
        /\ \A k \in Index : k < InUse(n) => n.num[k] # 0
    BY InUseFacts
  <1>2. InUse(n) \in Index /\ z \in Index
    BY <1>1, IndexFacts
  <1>3. ~(InUse(n) < z) /\ n.num[z] = 0
    BY <1>1, <1>2, IndexFacts DEF Full
  <1>4. ~(z < InUse(n))
    BY <1>1, <1>2, <1>3
  <1> QED
    BY <1>1, <1>3, <1>4, IndexFacts

\* Outside write_file.
LEMMA ShapeSame ==
    ASSUME Shape, disk'[InodeBlock] = disk[InodeBlock], ~Writing'
    PROVE  Shape'
  BY DEF Shape, Packed, InShape, Writing

LEMMA KeptSame ==
    ASSUME WriteOn
    PROVE  /\ inode'.file_size = inode.file_size /\ inode'.inode_id = inode.inode_id
           /\ inode' = inode_entries'[cur]
           /\ (Shrinks' <=> Shrinks) /\ (Grows' <=> Grows) /\ Kept' = Kept
           /\ Overwritten' = Overwritten
           /\ disk'[InodeBlock] = disk[InodeBlock]
           /\ Online' => Online
  <1>1. /\ inode'.file_size = inode.file_size /\ inode' = inode_entries'[cur]
        /\ inode'.inode_id = inode.inode_id
        /\ block_inuse' = block_inuse
    BY DEF WriteOn, inode
  <1>2. (Shrinks' <=> Shrinks) /\ (Grows' <=> Grows)
    BY <1>1 DEF Shrinks, Grows
  <1> QED
    BY <1>1, <1>2 DEF Kept, Overwritten, WriteOn

LEMMA StartWriteShape ==
    ASSUME Base, Base', Shape, NEW p \in Path, NEW size \in Sizes, NEW v \in Payload,
           write_file_by_path(p, size, v)
    PROVE  Shape'
  <1> DEFINE s == get_inode_from_path(p)
  <1>1. /\ s \in Id /\ inode_entries[s].inode_id \in Id
        /\ cur' = s
        /\ size \in 1 .. MaxBlocks
        /\ block_inuse' = InUse(inode_entries[s]) /\ block_inuse' \in 0 .. MaxBlocks
        /\ \/ /\ block_inuse' > size /\ pc' = "release" /\ i' = block_inuse' - size
           \/ block_inuse' = 0 /\ pc' = "append" /\ i' = 0
           \/ block_inuse' \in 1 .. size /\ pc' = "overwrite" /\ i' = 0
        /\ inode_entries' \in [Id -> InodeRecord]
        /\ inode_entries'[s].file_size = size
        /\ inode_entries'[s].num = inode_entries[s].num
        /\ UNCHANGED <<deviceVars, superblock_inode, cut>>
    BY StartWriteFacts
  <1>2. ~Writing
    BY DEF write_file_by_path, Writing
  <1> HIDE DEF s
  <1>3. Packed'
    BY <1>1 DEF Shape, Packed, deviceVars
  <1>4. ASSUME Online'
        PROVE  Full(inode', block_inuse')
    <2>1. Online /\ inode_entries[s].inode_id # -1
      BY <1>1, <1>4, IndexFacts DEF Online, deviceVars
    <2>2. inode_entries[s] = disk[InodeBlock][inode_entries[s].inode_id]
      BY <1>1, <1>2, <2>1 DEF Base, MirrorInv
    <2>3. /\ inode_entries[s] \in InodeRecord /\ Short(inode_entries[s])
          /\ Dense(inode_entries[s])
      BY <1>1, <2>2 DEF Base, Fields, PointerInv, Shape, Packed
    <2> QED
      BY <1>1, <2>3, DenseFacts DEF Full, inode
  <1>5. inode'.file_size = size /\ inode' \in InodeRecord /\ block_inuse' \in Nat
    BY <1>1, IndexFacts DEF inode
  <1>6. InShape'
    <2>1. SUFFICES ASSUME Online' PROVE InShape'
      BY DEF InShape
    <2>2. CASE block_inuse' > size /\ pc' = "release" /\ i' = block_inuse' - size
      <3>1. Kept' = i'
        BY <1>5, <2>2 DEF Kept, Shrinks
      <3>2. \A k \in Index : k < i' \/ (i' <= k /\ k < block_inuse') <=> k < block_inuse'
        BY <1>1, <1>5, <2>2, IndexFacts
      <3> QED
        BY <1>4, <2>1, <2>2, <3>1, <3>2 DEF InShape, Full
    <2>3. CASE block_inuse' = 0 /\ pc' = "append" /\ i' = 0
      BY <1>4, <1>5, <2>1, <2>3, FullFacts DEF InShape
    <2>4. CASE block_inuse' \in 1 .. size /\ pc' = "overwrite" /\ i' = 0
      <3>1. Kept' = block_inuse'
        BY <1>1, <1>5, <2>4 DEF Kept, Shrinks
      <3> QED
        BY <1>4, <2>1, <2>4, <3>1 DEF InShape
    <2> QED
      BY <1>1, <2>2, <2>3, <2>4
  <1> QED
    BY <1>3, <1>6 DEF Shape

LEMMA ReleaseTailShape ==
    ASSUME Base, Base', Shape, ReleaseTail
    PROVE  Shape'
  <1>1. /\ WriteOn
        /\ inode_entries'[cur].num[i] = 0
        /\ \A k \in Index : k # i => inode_entries'[cur].num[k] = inode.num[k]
        /\ \/ i + 1 = block_inuse /\ i' = 0 /\ pc' = "overwrite"
           \/ i + 1 # block_inuse /\ i' = i + 1 /\ pc' = "release"
        /\ UNCHANGED block_inuse
    BY ReleaseTailEffect DEF WriteOn
  <1>2. /\ Writing /\ pc = "release" /\ Shrinks /\ i \in Index
        /\ block_inuse - inode.file_size <= i /\ i < block_inuse
        /\ block_inuse \in Nat /\ inode.file_size \in Nat /\ i \in Nat
    BY WritingFacts DEF Base, OpInv, Writing, ReleaseTail
  <1>3. Kept <= i /\ Kept \in Int
    BY <1>2 DEF Kept
  <1>4. ASSUME Online', NEW k \in Index
        PROVE  inode'.num[k] # 0 <=> k < Kept \/ (i + 1 <= k /\ k < block_inuse)
    <2>1. inode.num[k] # 0 <=> k < Kept \/ (i <= k /\ k < block_inuse)
      BY <1>1, <1>2, <1>4, KeptSame DEF Shape, InShape
    <2>2. inode'.num[k] = IF k = i THEN 0 ELSE inode.num[k]
      BY <1>1, KeptSame
    <2> QED
      BY <1>2, <1>3, <2>1, <2>2, IndexFacts
  <1>5. InShape'
    <2>1. CASE i + 1 = block_inuse /\ i' = 0 /\ pc' = "overwrite"
      BY <1>1, <1>2, <1>4, <2>1, KeptSame, IndexFacts DEF InShape, Full
    <2>2. CASE i + 1 # block_inuse /\ i' = i + 1 /\ pc' = "release"
      BY <1>1, <1>4, <2>2, KeptSame DEF InShape
    <2> QED
      BY <1>1, <2>1, <2>2
  <1> QED
    BY <1>1, <1>5, KeptSame DEF Shape, Packed

LEMMA OverwriteShape ==
    ASSUME Base, Base', Shape, Overwrite
    PROVE  Shape'
  <1>1. /\ WriteOn /\ UNCHANGED <<inode_entries, block_inuse>>
        /\ i' = i + 1
        /\ \/ i + 1 = Overwritten /\ pc' = AfterOverwrite
           \/ i + 1 # Overwritten /\ pc' = "overwrite"
    BY OverwriteEffect DEF WriteOn
  <1>2. /\ Writing /\ pc = "overwrite" /\ inode \in InodeRecord
        /\ block_inuse \in Nat /\ inode.file_size \in Nat
    BY WritingFacts DEF Writing, Overwrite
  <1>3. inode' = inode /\ Kept' = Kept
    BY <1>1, KeptSame DEF WriteOn, inode
  <1>4. InShape'
    <2>1. SUFFICES ASSUME Online' PROVE InShape'
      BY DEF InShape
    <2>2. Full(inode, Kept)
      BY <1>1, <1>2, <2>1, KeptSame DEF Shape, InShape
    <2>3. CASE pc' \in {"overwrite", "release_indirect"}
      BY <1>3, <2>2, <2>3 DEF InShape
    <2>4. CASE pc' = "append"
      <3>1. Grows /\ i' = block_inuse /\ Kept = block_inuse
        BY <1>1, <1>2, <2>4 DEF AfterOverwrite, Overwritten, Grows, Shrinks, Kept
      <3> QED
        BY <1>2, <1>3, <2>2, <2>4, <3>1, FullFacts DEF InShape
    <2>5. CASE pc' = "update"
      <3>1. ~Shrinks /\ Kept = inode.file_size
        BY <1>1, <1>2, <2>5 DEF AfterOverwrite, Grows, Shrinks, Kept
      <3> QED
        BY <1>2, <1>3, <2>2, <2>5, <3>1, FullFacts DEF InShape
    <2> QED
      BY <1>1, <2>3, <2>4, <2>5 DEF AfterOverwrite
  <1> QED
    BY <1>1, <1>4, KeptSame DEF Shape, Packed

LEMMA AppendShape ==
    ASSUME Base, Base', Shape, Append
    PROVE  Shape'
  <1>1. /\ WriteOn /\ UNCHANGED block_inuse
        /\ \A k \in Index : k # i => inode_entries'[cur].num[k] = inode.num[k]
        /\ i' = i + 1
        /\ \/ i + 1 = inode.file_size /\ pc' = "update"
           \/ i + 1 # inode.file_size /\ pc' = "append"
    BY AppendEffect DEF WriteOn
  <1>2. PICK b \in Int :
            /\ inode_entries'[cur].num[i] = b
            /\ \/ Reached /\ b \in Dev!Free
               \/ Reached /\ b = 0 /\ Dev!Free = {} /\ UNCHANGED disk_map
               \/ Lost
    BY AppendEffect
  <1>3. /\ Writing /\ pc = "append" /\ i \in Index /\ i \in Nat /\ inode.file_size \in Nat
        /\ cur \in Id
    BY WritingFacts, IndexFacts DEF Writing, Append
  <1>4. inode' \in InodeRecord
    BY <1>1, <1>3, KeptSame DEF WriteOn
  <1>5. ASSUME Online'
        PROVE  Dense(inode') /\ Ends(inode', i + 1) /\ (Dev!Free' # {} => Full(inode', i + 1))
    <2>1. Dense(inode) /\ Ends(inode, i) /\ (Dev!Free # {} => Full(inode, i))
      BY <1>1, <1>3, <1>5, KeptSame DEF Shape, InShape
    <2>2. \A k \in Index : inode'.num[k] = IF k = i THEN b ELSE inode.num[k]
      BY <1>1, <1>2, KeptSame
    <2>3. CASE b \in Dev!Free
      <3>1. b # 0
        BY <2>3, FreeFacts, BlockFacts
      <3>2. Full(inode', i + 1)
        <4>1. Full(inode, i)
          BY <2>1, <2>3
        <4>2. \A k \in Index : k \in Nat /\ (k < i + 1 <=> k < i \/ k = i)
          BY <1>3, IndexFacts
        <4> QED
          BY <1>3, <2>2, <3>1, <4>1, <4>2 DEF Full
      <3> QED
        BY <1>3, <1>4, <3>2, FullFacts
    <2>4. CASE b = 0 /\ Dev!Free = {} /\ UNCHANGED disk_map
      <3>1. Dev!Free' = {}
        BY <2>4 DEF Dev!Free
      <3>2. inode.num[i] = 0
        BY <1>3, <2>1 DEF Ends
      <3>3. \A k \in Index : inode'.num[k] = inode.num[k]
        BY <2>2, <2>4, <3>2
      <3>4. Dense(inode')
        BY <2>1, <3>3 DEF Dense
      <3>5. ASSUME NEW k \in Index, k >= i + 1 PROVE inode'.num[k] = 0
        <4>1. k \in Nat /\ k >= i
          BY <1>3, <3>5, IndexFacts
        <4>2. inode.num[k] = 0
          BY <2>1, <4>1 DEF Ends
        <4> QED
          BY <3>3, <4>2
      <3>6. Ends(inode', i + 1)
        BY <3>5 DEF Ends
      <3> QED
        BY <3>1, <3>4, <3>6
    <2> QED
      BY <1>2, <1>5, <2>3, <2>4 DEF Lost
  <1>6. InShape'
    BY <1>1, <1>5, KeptSame DEF InShape
  <1> QED
    BY <1>1, <1>6, KeptSame DEF Shape, Packed

LEMMA ReleaseIndirectShape ==
    ASSUME Base, Base', Shape, ReleaseIndirect
    PROVE  Shape'
  <1>1. WriteOn /\ UNCHANGED inode_entries /\ pc' = "update"
    BY ReleaseIndirectEffect
  <1>2. /\ Writing /\ pc = "release_indirect" /\ Shrinks /\ inode \in InodeRecord
        /\ block_inuse \in Nat /\ inode.file_size \in Nat
    BY WritingFacts DEF Base, OpInv, Writing, ReleaseIndirect
  <1>3. inode' = inode /\ Kept \in Nat
    BY <1>1, <1>2 DEF WriteOn, inode, Kept, Shrinks
  <1>4. InShape'
    BY <1>1, <1>2, <1>3, KeptSame, FullFacts DEF Shape, InShape
  <1> QED
    BY <1>1, <1>4, KeptSame DEF Shape, Packed

LEMMA FinishWriteShape ==
    ASSUME Base, Base', Shape, FinishWrite
    PROVE  Shape'
  <1>1. Writing /\ pc = "update" /\ inode \in InodeRecord /\ inode.inode_id \in Id
    BY WritingFacts DEF Writing, FinishWrite
  <1>2. \/ Lost
        \/ /\ Reached
           /\ disk'[InodeBlock] = [disk[InodeBlock] EXCEPT ![inode.inode_id] = inode]
    BY <1>1, UpdateFacts DEF FinishWrite, Base
  <1>3. ~Writing'
    BY IdleFacts DEF FinishWrite
  <1>4. CASE Lost
    BY <1>3, <1>4, ShapeSame DEF Lost
  <1>5. CASE /\ Reached
             /\ disk'[InodeBlock] = [disk[InodeBlock] EXCEPT ![inode.inode_id] = inode]
    <2>1. Dense(inode)
      BY <1>1, <1>5 DEF Shape, InShape, Reached
    <2>2. \A id \in Id : disk'[InodeBlock][id] \in {disk[InodeBlock][id], inode}
      BY <1>5 DEF Base, Fields
    <2> QED
      BY <1>3, <2>1, <2>2 DEF Shape, Packed, InShape, Writing
  <1> QED
    BY <1>2, <1>4, <1>5

LEMMA FinishCreateShape ==
    ASSUME Base, Base', Shape, FinishCreate
    PROVE  Shape'
  <1> DEFINE n == Inode(cur, arg, 0, NoBlocks)
  <1>1. /\ cur \in Id /\ n \in InodeRecord /\ n.inode_id = cur
        /\ \A k \in Index : n.num[k] = 0
    BY CreatedInode DEF FinishCreate
  <1>2. update_inode(n) /\ ~Writing'
    BY IdleFacts DEF FinishCreate
  <1> HIDE DEF n
  <1>3. Lost \/ (Reached /\ disk'[InodeBlock] = [disk[InodeBlock] EXCEPT ![cur] = n])
    BY <1>1, <1>2, UpdateFacts DEF Base
  <1>4. CASE Lost
    BY <1>2, <1>4, ShapeSame DEF Lost
  <1>5. CASE disk'[InodeBlock] = [disk[InodeBlock] EXCEPT ![cur] = n]
    <2>1. \A id \in Id : disk'[InodeBlock][id] \in {disk[InodeBlock][id], n}
      BY <1>5 DEF Base, Fields
    <2>2. Dense(n)
      BY <1>1 DEF Dense
    <2> QED
      BY <1>2, <2>1, <2>2 DEF Shape, Packed, InShape, Writing
  <1> QED
    BY <1>3, <1>4, <1>5

LEMMA ShapeStep == Base /\ Base' /\ Shape /\ [Next]_vars => Shape'
  <1> SUFFICES ASSUME Base, Base', Shape, [Next]_vars PROVE Shape'
    OBVIOUS
  <1>1. ASSUME NEW p \in Path, create_file(p) PROVE Shape'
    <2> DEFINE map == superblock_inode \cup {First(FreeIds)}
    <2>1. map \in SUBSET Id
      BY <1>1, FirstIn DEF create_file, FreeIds, Base, Fields
    <2>2. disk'[InodeBlock] = disk[InodeBlock]
      BY <1>1, <2>1, SaveFacts DEF create_file, Base
    <2> QED
      BY <1>1, <2>2, ShapeSame DEF create_file, Writing
  <1>2. ASSUME NEW p \in Path, NEW size \in Sizes, NEW v \in Payload,
               write_file_by_path(p, size, v)
        PROVE  Shape'
    BY <1>2, StartWriteShape
  <1>3. ASSUME NEW p \in Path, read_file_by_path(p) \/ delete_file_by_path(p)
        PROVE  Shape'
    BY <1>3, ShapeSame DEF read_file_by_path, delete_file_by_path, deviceVars, Writing
  <1>4. ASSUME ReadBlock PROVE Shape'
    BY <1>4, ReadFacts, ShapeSame DEF ReadBlock, Idle, Base, Writing
  <1>5. ASSUME DeleteBlock PROVE Shape'
    BY <1>5, DeleteFacts, ShapeSame DEF DeleteBlock, Loop, Base, Writing
  <1>6. ASSUME FinishDelete PROVE Shape'
    <2> DEFINE map == superblock_inode \ {inode.inode_id}
    <2>1. map \in SUBSET Id
      BY DEF Base, Fields
    <2>2. disk'[InodeBlock] = disk[InodeBlock]
      BY <1>6, <2>1, SaveFacts DEF FinishDelete, Base
    <2> QED
      BY <1>6, <2>2, ShapeSame, IdleFacts DEF FinishDelete
  <1>7. ASSUME Step PROVE Shape'
    BY <1>4, <1>5, <1>6, <1>7, FinishCreateShape, ReleaseTailShape, OverwriteShape, AppendShape,
       ReleaseIndirectShape, FinishWriteShape DEF Step
  <1>8. ASSUME Crash PROVE Shape'
    BY <1>8, CrashFacts, IdleFacts, ShapeSame
  <1>9. ASSUME Restart PROVE Shape'
    BY <1>9, LoadFacts, ShapeSame DEF Restart, opVars, Base, DeviceInv, Writing
  <1>10. ASSUME UNCHANGED vars PROVE Shape'
    <2> USE DEF vars, deviceVars, memoryVars, opVars
    <2>1. InShape'
      BY <1>10 DEF Shape, InShape, Kept, Shrinks, Dev!Free, inode, Online
    <2> QED
      BY <1>10, <2>1 DEF Shape, Packed
  <1> QED
    BY <1>1, <1>2, <1>3, <1>7, <1>8, <1>9, <1>10 DEF Next, Command

-----------------------------------------------------------------------------
(* What the file under way holds.                                          *)

LEMMA OverwriteContent ==
    ASSUME Base, Base', Owned, Content, Overwrite
    PROVE  Content'
  <1>1. /\ UNCHANGED <<disk_map, inode_entries, arg>> /\ Continue /\ WriteOn
        /\ \/ Lost
           \/ /\ Reached /\ disk' = [disk EXCEPT ![inode.num[i]] = <<arg, i>>]
              /\ inode.num[i] \in Dev!DataBlock
           \/ /\ Reached /\ UNCHANGED disk
              /\ inode.num[i] = 0 \/ ~(inode.num[i] < SIZE_OF_BLOCK)
                    \/ inode.num[i] \notin disk_map
        /\ i' = i + 1
        /\ \/ i + 1 = Overwritten /\ pc' = AfterOverwrite
           \/ i + 1 # Overwritten /\ pc' = "overwrite"
    BY OverwriteEffect DEF WriteOn
  <1>2. /\ Writing /\ pc = "overwrite" /\ i < Overwritten /\ i \in Index /\ i \in Nat
        /\ inode.file_size \in Nat
    BY WritingFacts, IndexFacts DEF Base, OpInv, Writing, Overwrite
  <1>3. inode' = inode /\ Overwritten' = Overwritten /\ (Shrinks' <=> Shrinks)
    BY <1>1, KeptSame DEF WriteOn, inode
  <1>4. SUFFICES ASSUME Safe', Online', ~Shrinks,
                        NEW k \in Index, k < Done', inode.num[k] # 0,
                        k < Overwritten => inode.num[k] < SIZE_OF_BLOCK
                 PROVE  disk'[inode.num[k]] = <<arg, k>>
    BY <1>1, <1>3 DEF Content
  <1>5. Safe /\ Online
    BY <1>1, <1>4, WriteOnStanding
  <1>6. /\ Within(inode, disk_map) /\ Injective(inode)
        /\ inode.num[k] \in Dev!DataBlock
    BY <1>2, <1>4, <1>5, WritingFacts DEF Owned, InHand, Pointer
  <1>7. Done' = i + 1
    BY <1>1, <1>2, <1>3 DEF Done, AfterOverwrite, Overwritten, Grows, Shrinks
  <1>8. CASE k = i
    <2>1. inode.num[i] \in disk_map /\ inode.num[i] < SIZE_OF_BLOCK
      BY <1>2, <1>4, <1>6, <1>8 DEF Within
    <2>2. disk' = [disk EXCEPT ![inode.num[i]] = <<arg, i>>]
      BY <1>1, <1>4, <1>8, <2>1 DEF Lost
    <2> QED
      BY <1>6, <1>8, <2>2, BlockFacts DEF Base, Fields
  <1>9. CASE k # i
    <2>1. k < i
      BY <1>2, <1>4, <1>7, <1>9, IndexFacts
    <2>2. disk[inode.num[k]] = <<arg, k>>
      BY <1>2, <1>4, <1>5, <2>1 DEF Content, Done
    <2>3. inode.num[k] # inode.num[i]
      BY <1>2, <1>4, <1>6, <1>9 DEF Injective
    <2> QED
      BY <1>1, <1>4, <1>6, <2>2, <2>3, BlockFacts DEF Base, Fields, Lost
  <1> QED
    BY <1>8, <1>9

LEMMA AppendContent ==
    ASSUME Base, Base', Owned, Content, Append
    PROVE  Content'
  <1>1. /\ Continue /\ WriteOn /\ UNCHANGED arg
        /\ \A k \in Index : k # i => inode_entries'[cur].num[k] = inode.num[k]
        /\ i' = i + 1
        /\ \/ i + 1 = inode.file_size /\ pc' = "update"
           \/ i + 1 # inode.file_size /\ pc' = "append"
    BY AppendEffect DEF WriteOn
  <1>2. PICK b \in Int :
            /\ inode_entries'[cur].num[i] = b
            /\ \/ Reached /\ b \in Dev!Free /\ disk' = [disk EXCEPT ![b] = <<arg, i>>]
               \/ Reached /\ b = 0 /\ UNCHANGED disk
               \/ Lost
    BY AppendEffect
  <1>3. /\ Writing /\ pc = "append" /\ Grows /\ block_inuse <= i /\ i \in Index /\ i \in Nat
        /\ inode.file_size \in Nat /\ block_inuse \in Nat
    BY WritingFacts, IndexFacts DEF Base, OpInv, Writing, Append
  <1>4. /\ inode' = inode_entries'[cur] /\ inode'.file_size = inode.file_size
        /\ Overwritten' = Overwritten /\ ~Shrinks
    BY <1>1, <1>3, KeptSame DEF Grows, Shrinks
  <1>5. Done' = i + 1
    BY <1>1, <1>4 DEF Done
  <1>6. SUFFICES ASSUME Safe', Online',
                        NEW k \in Index, k < i + 1, inode'.num[k] # 0,
                        k < Overwritten => inode'.num[k] < SIZE_OF_BLOCK
                 PROVE  disk'[inode'.num[k]] = <<arg, k>>
    BY <1>1, <1>4, <1>5 DEF Content
  <1>7. Safe /\ Online
    BY <1>1, <1>6, WriteOnStanding
  <1>8. CASE k = i
    <2>1. b \in Dev!Free /\ disk' = [disk EXCEPT ![b] = <<arg, i>>]
      BY <1>2, <1>4, <1>6, <1>8 DEF Lost
    <2> QED
      <3>1. b \in DOMAIN disk
        BY <2>1, FreeFacts, BlockFacts DEF Base, Fields
      <3> QED
        BY <1>2, <1>4, <1>8, <2>1, <3>1
  <1>9. CASE k # i
    <2>1. k < i /\ inode'.num[k] = inode.num[k]
      BY <1>1, <1>3, <1>4, <1>6, <1>9, IndexFacts
    <2>2. disk[inode.num[k]] = <<arg, k>>
      BY <1>3, <1>4, <1>6, <1>7, <2>1 DEF Content, Done
    <2>3. inode.num[k] \in disk_map /\ inode.num[k] \in Dev!Block
      BY <1>3, <1>6, <1>7, <2>1 DEF Owned, InHand, Within, Base, Fields
    <2>4. disk'[inode.num[k]] = disk[inode.num[k]]
      BY <1>2, <1>6, <2>3, FreeFacts DEF Base, Fields, Lost
    <2> QED
      BY <2>1, <2>2, <2>4
  <1> QED
    BY <1>8, <1>9

\* Every other step leaves the files under way empty of new pieces.
LEMMA ContentStep == Base /\ Base' /\ Owned /\ Content /\ [Next]_vars => Content'
  <1> SUFFICES ASSUME Base, Base', Owned, Content, [Next]_vars PROVE Content'
    OBVIOUS
  <1>1. ASSUME pc' \notin {"overwrite", "append", "update"} \/ (Shrinks' /\ Writing') PROVE Content'
    BY <1>1 DEF Content
  <1>2. ASSUME NEW p \in Path, NEW size \in Sizes, NEW v \in Payload,
               write_file_by_path(p, size, v)
        PROVE  Content'
    <2>1. pc' # "update" /\ (pc' # "release" => i' = 0)
      BY <1>2, StartWriteFacts
    <2> QED
      BY <2>1, IndexFacts DEF Content, Done
  <1>3. ASSUME NEW p \in Path, create_file(p) \/ read_file_by_path(p) \/ delete_file_by_path(p)
        PROVE  Content'
    BY <1>1, <1>3 DEF create_file, read_file_by_path, delete_file_by_path
  <1>4. ASSUME ReleaseTail \/ ReleaseIndirect PROVE Content'
    <2>1. Shrinks /\ WriteOn
      BY <1>4, ReleaseTailEffect, ReleaseIndirectEffect
         DEF Base, OpInv, ReleaseTail, ReleaseIndirect
    <2> QED
      BY <1>1, <2>1, KeptSame DEF WriteOn
  <1>5. ASSUME FinishCreate \/ FinishWrite \/ FinishDelete PROVE Content'
    BY <1>1, <1>5, IdleFacts DEF FinishCreate, FinishWrite, FinishDelete
  <1>6. ASSUME ReadBlock \/ DeleteBlock PROVE Content'
    BY <1>1, <1>6, IdleFacts DEF ReadBlock, DeleteBlock, Loop
  <1>7. ASSUME Crash PROVE Content'
    BY <1>1, <1>7, CrashFacts, IdleFacts
  <1>8. ASSUME Restart PROVE Content'
    BY <1>1, <1>8, LoadFacts DEF Restart, opVars, Base, DeviceInv
  <1>9. ASSUME UNCHANGED vars PROVE Content'
    BY <1>9 DEF vars, deviceVars, memoryVars, opVars, Content, Safe, Online, Done, Overwritten,
       Grows, Shrinks, inode
  <1> QED
    BY <1>2, <1>3, <1>4, <1>5, <1>6, <1>7, <1>8, <1>9, OverwriteContent, AppendContent
       DEF Next, Command, Step

-----------------------------------------------------------------------------
(* What the image holds.                                                   *)

LEMMA ExpectType ==
    ASSUME Base, NEW id \in Id, expect[id] # Unknown
    PROVE  expect[id][2] \in 0 .. MaxBlocks
  <1>1. expect[id] \in {<<"empty", 0>>} \cup (Payload \X (1 .. MaxBlocks))
    BY DEF Base, Fields
  <1>2. 0 \in 0 .. MaxBlocks /\ 1 .. MaxBlocks \subseteq 0 .. MaxBlocks
    BY IndexFacts
  <1> QED
    BY <1>1, <1>2

\* The pointers of the pieces are set.
LEMMA HoldsFacts ==
    ASSUME Base, NEW id \in Id, expect[id] # Unknown, Holds(id),
           NEW k \in 0 .. expect[id][2] - 1
    PROVE  LET n == disk[InodeBlock][id]
           IN k \in Index /\ n.num[k] # 0 /\ n.num[k] \in Dev!DataBlock
  <1> DEFINE n == disk[InodeBlock][id]
  <1>1. expect[id][2] \in 0 .. MaxBlocks /\ MaxBlocks \in Nat
    BY ExpectType, IndexFacts
  <1>2. k \in Index /\ k < InUse(n)
    BY <1>1, IndexFacts DEF Holds
  <1>3. n \in InodeRecord /\ Short(n) /\ n.num[k] \in Pointer
    BY <1>2 DEF Base, Fields, PointerInv
  <1>4. n.num[k] # 0
    BY <1>2, <1>3, InUseFacts
  <1> QED
    BY <1>2, <1>3, <1>4 DEF Pointer

\* An inode the step does not touch, nor any of its blocks.
LEMMA HoldsStill ==
    ASSUME Base, NEW id \in Id, expect[id] # Unknown, Holds(id), expect'[id] = expect[id],
           Live(id)', disk'[InodeBlock][id] = disk[InodeBlock][id],
           \A k \in Index : disk[InodeBlock][id].num[k] \in Dev!DataBlock =>
               disk'[disk[InodeBlock][id].num[k]] = disk[disk[InodeBlock][id].num[k]]
    PROVE  Holds(id)'
  <1> DEFINE n == disk[InodeBlock][id]
  <1>1. /\ n.file_size = expect[id][2] /\ InUse(n) = expect[id][2]
        /\ \A k \in 0 .. expect[id][2] - 1 : disk[n.num[k]] = <<expect[id][1], k>>
    BY DEF Holds
  <1>2. \A k \in 0 .. expect[id][2] - 1 : disk'[n.num[k]] = disk[n.num[k]]
    BY HoldsFacts
  <1> HIDE DEF n
  <1>3. disk'[InodeBlock][id] = n
    BY DEF n
  <1> QED
    BY <1>1, <1>2, <1>3 DEF Holds

\* A step outside write_file that changes no block and no expectation.
LEMMA LastingSame ==
    ASSUME Base, Lasting, UNCHANGED <<disk, expect>>,
           Safe' => Safe /\ \A id \in Id : expect[id] # Unknown => ~Under(id)' /\ ~Created(id)'
    PROVE  Lasting'
  <1>1. ASSUME NEW id \in Id, expect[id] # Unknown, Holds(id)
        PROVE  Holds(id)'
    <2>1. Live(id)'
      BY <1>1 DEF Holds, Live
    <2> QED
      BY <1>1, <2>1, HoldsStill
  <1> QED
    BY <1>1 DEF Lasting

\* While a file is written, the others stay if their blocks do.
LEMMA WriteOnLasting ==
    ASSUME Base, Base', Lasting, WriteOn, Continue,
           ASSUME NEW id \in Id, Safe, Live(id), expect[id] # Unknown, ~Under(id),
                  NEW k \in Index, disk[InodeBlock][id].num[k] \in Dev!DataBlock
           PROVE  disk'[disk[InodeBlock][id].num[k]] = disk[disk[InodeBlock][id].num[k]]
    PROVE  Lasting'
  <1>1. SUFFICES ASSUME Safe', NEW id \in Id, expect'[id] # Unknown
                 PROVE  Holds(id)' /\ ~Under(id)' /\ ~Created(id)'
    BY DEF Lasting
  <1>2. Safe /\ (Live(id)' <=> Live(id)) /\ inode'.inode_id = inode.inode_id /\ (Online' => Online)
    BY <1>1, WriteOnStanding
  <1>3. expect[id] = expect'[id] /\ disk'[InodeBlock][id] = disk[InodeBlock][id]
    BY DEF WriteOn
  <1>4. Holds(id) /\ ~Under(id)
    BY <1>1, <1>2, <1>3 DEF Lasting
  <1>5. Holds(id)'
    BY <1>1, <1>2, <1>3, <1>4, HoldsStill DEF Holds
  <1> QED
    BY <1>2, <1>4, <1>5 DEF Under, Created, WriteOn, Writing

LEMMA StartWriteLasting ==
    ASSUME Base, Lasting, NEW p \in Path, NEW size \in Sizes, NEW v \in Payload,
           write_file_by_path(p, size, v)
    PROVE  Lasting'
  <1> DEFINE s == get_inode_from_path(p)
  <1>1. /\ s \in Id /\ inode_entries[s].inode_id \in Id
        /\ cur' = s
        /\ inode_entries'[s].inode_id = inode_entries[s].inode_id
        /\ Disturb(inode_entries[s].inode_id)
        /\ pc' # "create"
        /\ UNCHANGED <<deviceVars, superblock_inode, cut>>
    BY StartWriteFacts
  <1> HIDE DEF s
  <1>2. SUFFICES ASSUME Safe', NEW id \in Id, expect'[id] # Unknown
                 PROVE  Holds(id)' /\ ~Under(id)' /\ ~Created(id)'
    BY DEF Lasting
  <1>3. /\ expect'[id] = expect[id]
        /\ Online' => id # inode_entries[s].inode_id
    BY <1>1, <1>2 DEF Disturb, Base, Fields, Online, deviceVars
  <1>4. Holds(id)
    BY <1>1, <1>2, <1>3 DEF Lasting, Safe
  <1>5. Holds(id)'
    BY <1>1, <1>2, <1>3, <1>4, HoldsStill DEF deviceVars, Holds, Live
  <1> QED
    BY <1>1, <1>3, <1>5 DEF Under, Created, inode

LEMMA StartDeleteLasting ==
    ASSUME Base, Lasting, NEW p \in Path, delete_file_by_path(p)
    PROVE  Lasting'
  <1> DEFINE s == get_inode_from_path(p)
  <1>1. /\ s \in Id /\ inode_entries[s].inode_id \in Id
        /\ cur' = s
        /\ Disturb(inode_entries[s].inode_id)
        /\ pc' # "create"
        /\ UNCHANGED <<deviceVars, memoryVars, cut>>
    BY SlotFacts DEF delete_file_by_path, Base
  <1> HIDE DEF s
  <1>2. SUFFICES ASSUME Safe', NEW id \in Id, expect'[id] # Unknown
                 PROVE  Holds(id)' /\ ~Under(id)' /\ ~Created(id)'
    BY DEF Lasting
  <1>3. /\ expect'[id] = expect[id]
        /\ Online' => id # inode_entries[s].inode_id
    BY <1>1, <1>2 DEF Disturb, Base, Fields, Online, deviceVars
  <1>4. Holds(id)
    BY <1>1, <1>2, <1>3 DEF Lasting, Safe
  <1>5. Holds(id)'
    BY <1>1, <1>2, <1>3, <1>4, HoldsStill DEF deviceVars, Holds, Live
  <1> QED
    BY <1>1, <1>3, <1>5 DEF Under, Created, inode, memoryVars

LEMMA OverwriteLasting ==
    ASSUME Base, Base', Owned, Lasting, Overwrite
    PROVE  Lasting'
  <1>1. /\ Continue /\ WriteOn
        /\ \/ UNCHANGED disk
           \/ /\ Reached /\ disk' = [disk EXCEPT ![inode.num[i]] = <<arg, i>>]
              /\ inode.num[i] \in Dev!DataBlock
    BY OverwriteEffect DEF Lost
  <1>2. Writing /\ i \in Index
    BY WritingFacts DEF Writing, Overwrite
  <1>3. ASSUME NEW id \in Id, Safe, Live(id), expect[id] # Unknown, ~Under(id),
               NEW k \in Index, disk[InodeBlock][id].num[k] \in Dev!DataBlock
        PROVE  disk'[disk[InodeBlock][id].num[k]] = disk[disk[InodeBlock][id].num[k]]
    <2>1. CASE UNCHANGED disk
      BY <2>1
    <2>2. CASE /\ Reached /\ disk' = [disk EXCEPT ![inode.num[i]] = <<arg, i>>]
               /\ inode.num[i] \in Dev!DataBlock
      <3>1. Disjoint(inode, disk[InodeBlock][id])
        BY <1>2, <1>3, <2>2 DEF Owned, InHand, Reached, Under
      <3>2. inode.num[i] # disk[InodeBlock][id].num[k]
        BY <1>2, <2>2, <3>1, BlockFacts DEF Disjoint
      <3> QED
        BY <1>3, <2>2, <3>2, BlockFacts DEF Base, Fields
    <2> QED
      BY <1>1, <2>1, <2>2
  <1> QED
    BY <1>1, <1>3, WriteOnLasting

LEMMA AppendLasting ==
    ASSUME Base, Base', Owned, Lasting, Append
    PROVE  Lasting'
  <1>1. Continue /\ WriteOn
    BY AppendEffect
  <1>2. \/ UNCHANGED disk
        \/ \E b \in Dev!Free : disk' = [disk EXCEPT ![b] = <<arg, i>>]
    BY AppendEffect DEF Lost
  <1>3. ASSUME NEW id \in Id, Safe, Live(id), expect[id] # Unknown, ~Under(id),
               NEW k \in Index, disk[InodeBlock][id].num[k] \in Dev!DataBlock
        PROVE  disk'[disk[InodeBlock][id].num[k]] = disk[disk[InodeBlock][id].num[k]]
    <2>1. Firm(id)
      BY <1>1, <1>3 DEF Firm, Freed, Created, WriteOn, Writing
    <2>2. disk[InodeBlock][id].num[k] \in disk_map
      BY <1>3, <2>1, BlockFacts DEF Owned, Marked, Within
    <2> DEFINE c == disk[InodeBlock][id].num[k]
    <2>3. c \in DOMAIN disk /\ c \in disk_map
      BY <1>3, <2>2, BlockFacts DEF Base, Fields
    <2> HIDE DEF c
    <2>4. \A b \in Dev!Free : b # c
      BY <2>3, FreeFacts
    <2>5. disk'[c] = disk[c]
      BY <1>2, <2>3, <2>4
    <2> QED
      BY <2>5 DEF c
  <1> QED
    BY <1>1, <1>3, WriteOnLasting

\* The acknowledged write.
LEMMA FinishWriteLasting ==
    ASSUME Base, Base', Owned, Shape, Content, Lasting, FinishWrite
    PROVE  Lasting'
  <1> DEFINE own == inode.inode_id
  <1>1. /\ Writing /\ pc = "update" /\ inode \in InodeRecord /\ Short(inode) /\ own \in Id
        /\ inode.file_size \in 1 .. MaxBlocks
        /\ Online => \A k \in Index : inode.num[k] \in Pointer
    BY WritingFacts DEF Writing, FinishWrite
  <1>2. /\ \/ Lost
           \/ /\ Reached
              /\ disk'[InodeBlock] = [disk[InodeBlock] EXCEPT ![own] = inode]
        /\ disk'[SUPERBLOCK_ID] = disk[SUPERBLOCK_ID]
        /\ \A b \in Dev!DataBlock : disk'[b] = disk[b]
    BY <1>1, UpdateFacts DEF FinishWrite, Base
  <1>3. /\ Continue
        /\ expect' = IF file_state' = "open" /\ Complete
                     THEN [expect EXCEPT ![own] = <<arg, inode.file_size>>] ELSE expect
        /\ \A id \in Id : ~Under(id)' /\ ~Created(id)'
    BY IdleFacts DEF FinishWrite, Under, Created
  <1>4. SUFFICES ASSUME Safe', NEW id \in Id, expect'[id] # Unknown
                 PROVE  Holds(id)'
    BY <1>3 DEF Lasting
  <1>5. Safe
    BY <1>3, <1>4, CutGrows DEF Base
  <1>6. CASE Reached /\ Complete /\ id = own
    <2>1. disk'[InodeBlock][id] = inode /\ Live(id)
      <3>1. Live(own)
        BY <1>1, <1>6, IndexFacts DEF Base, MirrorInv, inode, Reached, Fields
      <3> QED
        BY <1>1, <1>2, <1>6, <3>1 DEF Base, Fields, Lost, Reached
    <2>2. Live(id)'
      BY <1>2, <1>6, <2>1 DEF Live
    <2>3. expect'[id] = <<arg, inode.file_size>>
      BY <1>1, <1>3, <1>6 DEF Base, Fields, Reached, Online
    <2>4. ~Shrinks /\ Full(inode, inode.file_size)
      <3>1. /\ InUse(inode) \in 0 .. MaxBlocks
            /\ \A k \in Index : k < InUse(inode) => inode.num[k] # 0
        BY <1>1, InUseFacts
      <3>2. ~Shrinks /\ InUse(inode) >= inode.file_size
        BY <1>6 DEF Complete
      <3>3. Ends(inode, inode.file_size)
        BY <1>1, <1>6, <3>2 DEF Shape, InShape, Reached
      <3> QED
        BY <1>1, <3>1, <3>2, <3>3, IndexFacts DEF Full, Ends
    <2>5. InUse(inode) = inode.file_size
      BY <1>1, <2>4, FullInUse, IndexFacts
    <2>6. ASSUME NEW k \in 0 .. inode.file_size - 1
          PROVE  disk'[inode.num[k]] = <<arg, k>>
      <3>1. k \in Index /\ k < inode.file_size /\ k \in Nat
        BY <1>1, IndexFacts
      <3>2. inode.num[k] # 0 /\ inode.num[k] \in Dev!DataBlock
        BY <1>1, <1>6, <2>4, <3>1 DEF Full, Pointer, Reached
      <3>3. k < Overwritten => inode.num[k] < SIZE_OF_BLOCK
        <4>1. Overwritten \in Nat
          BY <1>1, WritingFacts DEF Overwritten
        <4> QED
          BY <1>6, <3>1, <4>1 DEF Complete
      <3>4. disk[inode.num[k]] = <<arg, k>>
        BY <1>1, <1>5, <1>6, <2>4, <3>1, <3>2, <3>3 DEF Content, Done, Reached
      <3> QED
        BY <1>2, <3>2, <3>4
    <2> QED
      BY <2>1, <2>2, <2>3, <2>5, <2>6 DEF Holds
  <1>7. CASE ~(Reached /\ Complete /\ id = own)
    <2>1. expect'[id] = expect[id]
      BY <1>2, <1>3, <1>7 DEF Lost, Online, Base, Fields
    <2>2. Holds(id) /\ ~Under(id)
      BY <1>4, <1>5, <2>1 DEF Lasting
    <2>3. disk'[InodeBlock][id] = disk[InodeBlock][id]
      <3>1. Reached => id # own
        BY <1>1, <2>2 DEF Under, Reached
      <3> QED
        BY <1>2, <3>1 DEF Base, Fields, Lost
    <2>4. Live(id)'
      BY <1>2, <2>2, <2>3 DEF Live, Holds
    <2> QED
      BY <1>2, <1>4, <2>1, <2>2, <2>3, <2>4, HoldsStill
  <1> QED
    BY <1>6, <1>7

LEMMA StartCreateLasting ==
    ASSUME Base, Lasting, NEW p \in Path, create_file(p)
    PROVE  Lasting'
  <1> DEFINE id0 == First(FreeIds)
             map == superblock_inode \cup {id0}
  <1>1. /\ pc = "idle" /\ pc' = "create" /\ cur' = id0 /\ id0 \in Id
        /\ id0 \notin superblock_inode
        /\ UNCHANGED <<cut, expect>>
    BY FirstIn DEF create_file, FreeIds
  <1>2. /\ Lost \/ (Reached /\ disk'[SUPERBLOCK_ID] = map)
        /\ disk'[InodeBlock] = disk[InodeBlock]
        /\ \A b \in Dev!DataBlock : disk'[b] = disk[b]
    <2>1. map \in SUBSET Id
      BY <1>1 DEF Base, Fields
    <2> QED
      BY <2>1, SaveFacts DEF create_file, Base
  <1> HIDE DEF id0
  <1>3. SUFFICES ASSUME Safe', NEW id \in Id, expect'[id] # Unknown
                 PROVE  Holds(id)' /\ ~Under(id)' /\ ~Created(id)'
    BY DEF Lasting
  <1>4. Holds(id) /\ Live(id)
    BY <1>1, <1>3 DEF Lasting, Safe, Holds
  <1>5. Live(id)' /\ (Online' => id # id0)
    <2>1. CASE Lost
      BY <1>2, <1>4, <2>1 DEF Live, Lost
    <2>2. CASE Reached /\ disk'[SUPERBLOCK_ID] = map
      BY <1>1, <1>2, <1>4, <2>2 DEF Live, Base, MirrorInv, Reached
    <2> QED
      BY <1>2, <2>1, <2>2
  <1>6. Holds(id)'
    BY <1>1, <1>2, <1>3, <1>4, <1>5, HoldsStill
  <1> QED
    BY <1>1, <1>5, <1>6 DEF Under, Created, Writing, Removing

LEMMA FinishCreateLasting ==
    ASSUME Base, Base', Lasting, FinishCreate
    PROVE  Lasting'
  <1> DEFINE n == Inode(cur, arg, 0, NoBlocks)
  <1>1. /\ cur \in Id /\ cur \in superblock_inode
        /\ n \in InodeRecord /\ Short(n) /\ n.inode_id = cur /\ n.file_size = 0
        /\ \A k \in Index : n.num[k] = 0
        /\ pc = "create" /\ Continue
    BY CreatedInode DEF FinishCreate
  <1>2. /\ update_inode(n)
        /\ expect' = IF file_state' = "open" THEN [expect EXCEPT ![cur] = <<"empty", 0>>]
                     ELSE expect
    BY DEF FinishCreate
  <1> HIDE DEF n
  <1>3. /\ Lost \/ (Reached /\ disk'[InodeBlock] = [disk[InodeBlock] EXCEPT ![cur] = n])
        /\ disk'[SUPERBLOCK_ID] = disk[SUPERBLOCK_ID]
        /\ \A b \in Dev!DataBlock : disk'[b] = disk[b]
    BY <1>1, <1>2, UpdateFacts DEF Base
  <1>4. \A id \in Id : ~Created(id)' /\ ~Under(id)'
    BY IdleFacts DEF FinishCreate, Created, Under
  <1>5. SUFFICES ASSUME Safe', NEW id \in Id, expect'[id] # Unknown
                 PROVE  Holds(id)'
    BY <1>4 DEF Lasting
  <1>6. Safe
    BY <1>1, <1>5, CutGrows DEF Base
  <1>7. CASE Reached /\ id = cur
    <2>1. disk'[InodeBlock][id] = n /\ superblock_inode = disk[SUPERBLOCK_ID]
      BY <1>1, <1>3, <1>7 DEF Base, Fields, MirrorInv, Lost, Reached
    <2>2. Live(id)'
      BY <1>1, <1>3, <1>7, <2>1 DEF Live
    <2>3. expect'[id] = <<"empty", 0>>
      BY <1>2, <1>7 DEF Reached, Online, Base, Fields
    <2>4. InUse(n) = 0
      <3>1. Full(n, 0) /\ 0 \in 0 .. MaxBlocks
        BY <1>1, IndexFacts DEF Full
      <3> QED
        BY <1>1, <3>1, FullInUse
    <2> QED
      BY <1>1, <2>1, <2>2, <2>3, <2>4 DEF Holds
  <1>8. CASE ~(Reached /\ id = cur)
    <2>1. expect'[id] = expect[id]
      BY <1>2, <1>3, <1>8 DEF Lost, Online, Base, Fields
    <2>2. Holds(id)
      BY <1>5, <1>6, <2>1 DEF Lasting
    <2>3. disk'[InodeBlock][id] = disk[InodeBlock][id]
      BY <1>3, <1>8 DEF Base, Fields, Lost
    <2>4. Live(id)'
      BY <1>3, <2>2, <2>3 DEF Live, Holds
    <2> QED
      BY <1>3, <1>5, <2>1, <2>2, <2>3, <2>4, HoldsStill
  <1> QED
    BY <1>7, <1>8

LEMMA FinishDeleteLasting ==
    ASSUME Base, Base', Lasting, FinishDelete
    PROVE  Lasting'
  <1>1. /\ Removing /\ pc = "clear" /\ Continue
        /\ UNCHANGED expect
    BY DEF Removing, FinishDelete
  <1> DEFINE map == superblock_inode \ {inode.inode_id}
  <1>2. /\ Lost \/ (Reached /\ disk'[SUPERBLOCK_ID] = map)
        /\ disk'[InodeBlock] = disk[InodeBlock]
        /\ \A b \in Dev!DataBlock : disk'[b] = disk[b]
    <2>1. map \in SUBSET Id
      BY DEF Base, Fields
    <2> QED
      BY <2>1, SaveFacts DEF FinishDelete, Base
  <1>3. \A id \in Id : ~Created(id)' /\ ~Under(id)'
    BY IdleFacts DEF FinishDelete, Created, Under
  <1>4. SUFFICES ASSUME Safe', NEW id \in Id, expect'[id] # Unknown
                 PROVE  Holds(id)'
    BY <1>3 DEF Lasting
  <1>5. Safe
    BY <1>1, <1>4, CutGrows DEF Base
  <1>6. Holds(id) /\ ~Under(id) /\ Live(id)
    BY <1>1, <1>4, <1>5 DEF Lasting, Holds
  <1>7. Live(id)'
    <2>1. CASE Lost
      BY <1>6, <2>1 DEF Live, Lost
    <2>2. CASE Reached /\ disk'[SUPERBLOCK_ID] = map
      BY <1>1, <1>2, <1>6, <2>2 DEF Live, Under, Base, MirrorInv, Reached
    <2> QED
      BY <1>2, <2>1, <2>2
  <1> QED
    BY <1>1, <1>2, <1>4, <1>6, <1>7, HoldsStill

LEMMA LastingStep ==
    Base /\ Base' /\ Owned /\ Shape /\ Content /\ Lasting /\ [Next]_vars => Lasting'
  <1> SUFFICES ASSUME Base, Base', Owned, Shape, Content, Lasting, [Next]_vars
               PROVE  Lasting'
    OBVIOUS
  <1>1. ASSUME NEW p \in Path, create_file(p) PROVE Lasting'
    BY <1>1, StartCreateLasting
  <1>2. ASSUME NEW p \in Path, NEW size \in Sizes, NEW v \in Payload,
               write_file_by_path(p, size, v)
        PROVE  Lasting'
    BY <1>2, StartWriteLasting
  <1>3. ASSUME NEW p \in Path, read_file_by_path(p) PROVE Lasting'
    BY <1>3, LastingSame
       DEF read_file_by_path, deviceVars, Safe, Under, Created, Writing, Removing
  <1>4. ASSUME NEW p \in Path, delete_file_by_path(p) PROVE Lasting'
    BY <1>4, StartDeleteLasting
  <1>5. ASSUME ReleaseTail \/ ReleaseIndirect PROVE Lasting'
    <2>1. WriteOn /\ Continue /\ UNCHANGED disk
      BY <1>5, ReleaseTailEffect, ReleaseIndirectEffect
    <2> QED
      BY <2>1, WriteOnLasting
  <1>6. ASSUME ReadBlock PROVE Lasting'
    <2>1. UNCHANGED <<disk, expect, cut>> /\ pc' \in {"read", "idle"}
      BY <1>6, ReadFacts DEF ReadBlock, Idle, Base
    <2> QED
      BY <2>1, LastingSame DEF Safe, Under, Created, Writing, Removing
  <1>7. ASSUME DeleteBlock PROVE Lasting'
    <2>1. /\ UNCHANGED <<disk, expect, cur, inode_entries>> /\ Continue
          /\ Removing /\ pc' # "create"
          /\ Online' => Online
      BY <1>7, DeleteFacts DEF DeleteBlock, Loop, memoryVars, Base, Removing, Lost, Reached
    <2>2. Safe' => Safe
      BY <2>1, CutGrows DEF Base
    <2>3. Safe' => \A id \in Id : expect[id] # Unknown => ~Under(id)'
      BY <2>1, <2>2 DEF Lasting, Under, inode
    <2> QED
      BY <2>1, <2>2, <2>3, LastingSame DEF Created
  <1>8. ASSUME Crash PROVE Lasting'
    <2>1. UNCHANGED <<disk, expect>> /\ ~Online' /\ (Safe' => Safe)
      BY <1>8, CrashFacts DEF Safe
    <2> QED
      BY <2>1, LastingSame DEF Under, Created
  <1>9. ASSUME Restart PROVE Lasting'
    <2>1. UNCHANGED <<disk, expect, cut>> /\ pc' = "idle"
      BY <1>9, LoadFacts DEF Restart, opVars, Base, DeviceInv
    <2> QED
      BY <2>1, LastingSame DEF Safe, Under, Created, Writing, Removing
  <1>10. ASSUME UNCHANGED vars PROVE Lasting'
    <2> USE DEF vars, deviceVars, memoryVars, opVars
    <2>1. \A id \in Id : (Under(id)' <=> Under(id)) /\ (Created(id)' <=> Created(id))
      BY <1>10 DEF Under, Created, Online, Writing, Removing, inode
    <2> QED
      BY <1>10, <2>1, LastingSame DEF Safe, Lasting
  <1> QED
    BY <1>1, <1>2, <1>3, <1>4, <1>5, <1>6, <1>7, <1>8, <1>9, <1>10, FinishCreateLasting,
       OverwriteLasting, AppendLasting, FinishWriteLasting, FinishDeleteLasting
       DEF Next, Command, Step

-----------------------------------------------------------------------------
LEMMA ContentsInit == Init => Shape /\ Content /\ Lasting
  <1> SUFFICES ASSUME Init PROVE Shape /\ Content /\ Lasting
    OBVIOUS
  <1>1. \A id \in Id, k \in Index : disk[InodeBlock][id].num[k] = 0
    <2>1. disk[InodeBlock] =
              [id \in Id |-> IF id = 0 THEN Root ELSE Inode(0, Unnamed, 0, NoBlocks)]
      BY BlockFacts DEF Init, Dev!Block
    <2> QED
      BY <2>1, InodeType, IndexFacts
  <1>2. pc = "idle" /\ \A id \in Id : expect[id] = Unknown
    BY DEF Init
  <1> QED
    BY <1>1, <1>2 DEF Shape, Packed, Dense, InShape, Content, Lasting

Contents == Base /\ Owned /\ Shape /\ Content /\ Lasting

LEMMA ContentsAlways == Spec => []Contents
  <1>1. Init => Contents
    BY BaseInit, OwnedInit, ContentsInit DEF Contents
  <1>2. Contents /\ [Next]_vars => Contents'
    BY BaseStep, OwnedStep, ShapeStep, ContentStep, LastingStep DEF Contents
  <1> QED
    BY <1>1, <1>2, PTL DEF Spec

\* An acknowledged write that did not shrink its file lasts: the image holds
\* its pieces in order, through every later operation on other files, every
\* crash and every restart.
THEOREM WritesLast == Spec => []Durable
  <1>1. Contents => Durable
    BY DEF Contents, Lasting, Durable, Holds, Safe
  <1> QED
    BY <1>1, ContentsAlways, PTL

-----------------------------------------------------------------------------
(* No block is lost.                                                       *)

\* Who answers for a marked block: an inode of the image, the inode that is
\* being written, or the deletion that is still to reach it.
Has(id, b)    == \E k \in Index : disk[InodeBlock][id].num[k] = b
Owner(id, b)  == Live(id) /\ ~Under(id) /\ ~Created(id) /\ Has(id, b)
InWriting(b)  == Online /\ Writing /\ \E k \in Index : inode.num[k] = b
InRemoving(b) == Online /\ Removing /\ \E k \in Index : k >= i /\ inode.num[k] = b

Answered(b) ==
    b >= SIZE_OF_BLOCK \/ (\E id \in Id : Owner(id, b)) \/ InWriting(b) \/ InRemoving(b)

Accounted == cut = {} => \A b \in disk_map \cap Dev!DataBlock : Answered(b)

\* When the bit of an inode is cleared, all its blocks were released.
Emptied == Online /\ pc = "clear" => Ends(inode, i)

-----------------------------------------------------------------------------
\* An operation that loses the image is left unfinished.
LEMMA CutStays ==
    ASSUME Fields', Continue, cut' = {}
    PROVE  cut = {} /\ (Online /\ ~Online' => Kind = {})
  BY DEF Continue, Online, Fields

LEMMA EmptiedStep == Base /\ Base' /\ Shape /\ Emptied /\ [Next]_vars => Emptied'
  <1> SUFFICES ASSUME Base, Base', Shape, Emptied, [Next]_vars PROVE Emptied'
    OBVIOUS
  <1>1. ASSUME pc' # "clear" PROVE Emptied'
    BY <1>1 DEF Emptied
  <1>2. ASSUME NEW p \in Path, create_file(p) \/ read_file_by_path(p) PROVE Emptied'
    BY <1>1, <1>2 DEF create_file, read_file_by_path
  <1>3. ASSUME NEW p \in Path, NEW size \in Sizes, NEW v \in Payload,
               write_file_by_path(p, size, v)
        PROVE  Emptied'
    BY <1>1, <1>3, StartWriteFacts
  <1>4. ASSUME NEW p \in Path, delete_file_by_path(p) PROVE Emptied'
    <2> DEFINE s == get_inode_from_path(p)
    <2>1. /\ s \in Id /\ inode_entries[s].inode_id \in Id
          /\ cur' = s /\ pc = "idle" /\ i' = 0
          /\ pc' = IF InUse(inode_entries[s]) = 0 THEN "clear" ELSE "delete"
          /\ UNCHANGED <<deviceVars, memoryVars>>
      BY <1>4, SlotFacts DEF delete_file_by_path, Base, OpInv
    <2> HIDE DEF s
    <2>2. SUFFICES ASSUME Online', pc' = "clear" PROVE Ends(inode', i')
      BY DEF Emptied
    <2>3. inode_entries[s] = disk[InodeBlock][inode_entries[s].inode_id]
      BY <2>1, <2>2, IndexFacts DEF Base, MirrorInv, Writing, deviceVars, Online
    <2>4. /\ inode_entries[s] \in InodeRecord /\ Short(inode_entries[s])
          /\ Dense(inode_entries[s])
      BY <2>1, <2>3 DEF Base, Fields, PointerInv, Shape, Packed
    <2>5. Full(inode_entries[s], 0)
      BY <2>1, <2>2, <2>4, DenseFacts
    <2> QED
      BY <2>1, <2>4, <2>5, FullFacts DEF inode, memoryVars
  <1>5. ASSUME DeleteBlock PROVE Emptied'
    <2>1. /\ pc = "delete" /\ i' = i + 1 /\ i < InUse(inode)
          /\ i + 1 = InUse(inode) \/ pc' = "delete"
          /\ UNCHANGED <<cur, inode_entries>>
          /\ Online' => Online
      BY <1>5, DeleteFacts DEF DeleteBlock, Loop, memoryVars, Base, OpInv, Lost, Reached
    <2>2. SUFFICES ASSUME Online', pc' = "clear" PROVE Ends(inode, InUse(inode))
      BY <2>1 DEF Emptied, inode
    <2>3. /\ inode \in InodeRecord /\ Short(inode) /\ cur \in Id /\ inode.inode_id \in Id
          /\ InUse(inode) \in Nat
      BY <2>1, RemovingFacts DEF Removing
    <2>4. inode = disk[InodeBlock][inode.inode_id]
      BY <2>1, <2>2, <2>3, IndexFacts DEF Base, MirrorInv, Writing, inode
    <2>5. Dense(inode)
      BY <2>3, <2>4 DEF Shape, Packed
    <2> QED
      BY <2>3, <2>5, DenseFacts, FullFacts
  <1>6. ASSUME ReleaseTail \/ Overwrite \/ Append \/ ReleaseIndirect PROVE Emptied'
    BY <1>1, <1>6 DEF ReleaseTail, Overwrite, Append, ReleaseIndirect, Loop, AfterOverwrite
  <1>7. ASSUME FinishCreate \/ FinishWrite \/ FinishDelete \/ ReadBlock PROVE Emptied'
    BY <1>1, <1>7 DEF FinishCreate, FinishWrite, FinishDelete, ReadBlock, Idle
  <1>8. ASSUME Crash PROVE Emptied'
    BY <1>1, <1>8, CrashFacts, IdleFacts
  <1>9. ASSUME Restart PROVE Emptied'
    BY <1>1, <1>9, LoadFacts DEF Restart, opVars, Base, DeviceInv
  <1>10. ASSUME UNCHANGED vars PROVE Emptied'
    BY <1>10 DEF vars, deviceVars, memoryVars, opVars, Emptied, Online, inode
  <1> QED
    BY <1>2, <1>3, <1>4, <1>5, <1>6, <1>7, <1>8, <1>9, <1>10 DEF Next, Command, Step

-----------------------------------------------------------------------------
(* write_file.                                                             *)

LEMMA StartWriteAccounted ==
    ASSUME Base, Accounted, NEW p \in Path, NEW size \in Sizes, NEW v \in Payload,
           write_file_by_path(p, size, v)
    PROVE  Accounted'
  <1> DEFINE s == get_inode_from_path(p)
  <1>1. /\ s \in Id /\ inode_entries[s].inode_id \in Id
        /\ cur' = s
        /\ pc' \in {"release", "append", "overwrite"}
        /\ inode_entries'[s].num = inode_entries[s].num
        /\ inode_entries'[s].inode_id = inode_entries[s].inode_id
        /\ UNCHANGED <<deviceVars, superblock_inode, cut>>
    BY StartWriteFacts
  <1>2. pc = "idle" /\ ~Writing /\ ~Removing
    BY DEF write_file_by_path, Writing, Removing
  <1> HIDE DEF s
  <1>3. SUFFICES ASSUME cut' = {}, NEW b \in disk_map' \cap Dev!DataBlock PROVE Answered(b)'
    BY DEF Accounted
  <1>4. b >= SIZE_OF_BLOCK \/ \E id \in Id : Owner(id, b)
    BY <1>1, <1>2, <1>3 DEF Accounted, Answered, InWriting, InRemoving, deviceVars
  <1>5. ASSUME NEW id \in Id, Owner(id, b)
        PROVE  Answered(b)'
    <2>1. CASE Online' /\ id = inode_entries[s].inode_id
      <3>1. inode_entries[s] = disk[InodeBlock][id]
        BY <1>1, <1>2, <2>1, IndexFacts DEF Base, MirrorInv, Online, deviceVars
      <3>2. \E k \in Index : inode'.num[k] = b
        BY <1>1, <1>5, <3>1 DEF Owner, Has, inode
      <3> QED
        BY <1>1, <2>1, <3>2 DEF Answered, InWriting, Writing
    <2>2. CASE ~(Online' /\ id = inode_entries[s].inode_id)
      <3>1. Owner(id, b)'
        BY <1>1, <1>5, <2>2 DEF Owner, Has, Live, Under, Created, inode, deviceVars
      <3> QED
        BY <3>1 DEF Answered
    <2> QED
      BY <2>1, <2>2
  <1> QED
    BY <1>4, <1>5 DEF Answered

\* While a file is written, the other owners remain.
LEMMA WriteOnOwners ==
    ASSUME Base, Base', WriteOn, Continue, cut' = {}
    PROVE  /\ cut = {} /\ (Online' <=> Online)
           /\ \A id \in Id, b \in Dev!DataBlock : Owner(id, b) => Owner(id, b)'
           /\ \A b \in Dev!DataBlock : ~InRemoving(b)
  <1>1. cut = {} /\ (Online' <=> Online)
    BY CutStays DEF Base, WriteOn, Kind, Writing
  <1>2. /\ disk'[InodeBlock] = disk[InodeBlock] /\ disk'[SUPERBLOCK_ID] = disk[SUPERBLOCK_ID]
        /\ inode'.inode_id = inode.inode_id
        /\ pc' # "create" /\ Writing /\ ~Removing
    BY DEF WriteOn, Writing, Removing, inode
  <1> QED
    BY <1>1, <1>2 DEF Owner, Has, Live, Under, Created, InRemoving

LEMMA ReleaseTailAccounted ==
    ASSUME Base, Base', Accounted, ReleaseTail
    PROVE  Accounted'
  <1>1. /\ Continue /\ WriteOn
        /\ \/ UNCHANGED disk_map /\ ~Online'
           \/ disk_map' = disk_map \ {inode.num[i]}
           \/ /\ UNCHANGED disk_map
              /\ inode.num[i] = 0 \/ ~(inode.num[i] < SIZE_OF_BLOCK)
                    \/ inode.num[i] \notin disk_map
        /\ \A k \in Index : k # i => inode_entries'[cur].num[k] = inode.num[k]
    BY ReleaseTailEffect DEF Lost
  <1>2. SUFFICES ASSUME cut' = {}, NEW b \in disk_map' \cap Dev!DataBlock PROVE Answered(b)'
    BY DEF Accounted
  <1>3. /\ cut = {} /\ (Online' <=> Online)
        /\ \A id \in Id : Owner(id, b) => Owner(id, b)'
        /\ ~InRemoving(b)
    BY <1>1, <1>2, WriteOnOwners
  <1>4. CASE InWriting(b)
    <2>1. PICK k \in Index : inode.num[k] = b
      BY <1>4 DEF InWriting
    <2>2. CASE k = i
      <3>1. Online'
        BY <1>3, <1>4 DEF InWriting
      <3>2. ~(b < SIZE_OF_BLOCK)
        BY <1>1, <1>2, <2>1, <2>2, <3>1, BlockFacts
      <3>3. b \in Nat /\ SIZE_OF_BLOCK \in Nat
        BY <1>2, BlockFacts, FileStoreAssumption
      <3>4. b >= SIZE_OF_BLOCK
        BY <3>2, <3>3
      <3> QED
        BY <3>4 DEF Answered
    <2>3. CASE k # i
      BY <1>1, <1>3, <1>4, <2>1, <2>3, KeptSame DEF Answered, InWriting, WriteOn
    <2> QED
      BY <2>2, <2>3
  <1> QED
    BY <1>1, <1>2, <1>3, <1>4 DEF Accounted, Answered

LEMMA AppendAccounted ==
    ASSUME Base, Base', Shape, Accounted, Append
    PROVE  Accounted'
  <1>1. /\ Continue /\ WriteOn
        /\ \A k \in Index : k # i => inode_entries'[cur].num[k] = inode.num[k]
    BY AppendEffect
  <1>2. PICK c \in Int :
            /\ inode_entries'[cur].num[i] = c
            /\ (Online' /\ disk_map' = disk_map \cup {c}) \/ UNCHANGED disk_map
    BY AppendEffect DEF Reached
  <1>3. /\ pc = "append" /\ Writing /\ i \in Index /\ i \in Nat
        /\ inode' = inode_entries'[cur]
    BY <1>1, WritingFacts, IndexFacts, KeptSame DEF Writing, Append
  <1>4. SUFFICES ASSUME cut' = {}, NEW b \in disk_map' \cap Dev!DataBlock PROVE Answered(b)'
    BY DEF Accounted
  <1>5. /\ cut = {} /\ (Online' <=> Online)
        /\ \A id \in Id : Owner(id, b) => Owner(id, b)'
        /\ ~InRemoving(b)
    BY <1>1, <1>4, WriteOnOwners
  <1>6. CASE b \in disk_map
    <2>1. CASE InWriting(b)
      <3>1. PICK k \in Index : inode.num[k] = b
        BY <2>1 DEF InWriting
      <3>2. inode.num[i] = 0
        BY <1>3, <2>1 DEF Shape, InShape, Ends, InWriting
      <3>3. k # i
        BY <1>4, <3>1, <3>2, BlockFacts
      <3> QED
        BY <1>1, <1>3, <1>5, <2>1, <3>1, <3>3 DEF Answered, InWriting, WriteOn
    <2> QED
      BY <1>4, <1>5, <1>6, <2>1 DEF Accounted, Answered
  <1>7. CASE b \notin disk_map
    <2>1. Online' /\ b = c
      BY <1>2, <1>4, <1>7
    <2> QED
      BY <1>1, <1>2, <1>3, <2>1 DEF Answered, InWriting, WriteOn
  <1> QED
    BY <1>6, <1>7

LEMMA WriteOnAccounted ==
    ASSUME Base, Base', Accounted, Overwrite \/ ReleaseIndirect
    PROVE  Accounted'
  <1>1. Continue /\ WriteOn /\ UNCHANGED <<disk_map, inode_entries>>
    BY OverwriteEffect, ReleaseIndirectEffect
  <1>2. SUFFICES ASSUME cut' = {}, NEW b \in disk_map' \cap Dev!DataBlock PROVE Answered(b)'
    BY DEF Accounted
  <1>3. /\ cut = {} /\ (Online' <=> Online)
        /\ \A id \in Id : Owner(id, b) => Owner(id, b)'
        /\ ~InRemoving(b)
    BY <1>1, <1>2, WriteOnOwners
  <1>4. InWriting(b) => InWriting(b)'
    BY <1>1, <1>3 DEF InWriting, WriteOn, inode
  <1> QED
    BY <1>1, <1>2, <1>3, <1>4 DEF Accounted, Answered

LEMMA FinishWriteAccounted ==
    ASSUME Base, Base', Accounted, FinishWrite
    PROVE  Accounted'
  <1>1. /\ Writing /\ ~Removing /\ pc = "update" /\ inode \in InodeRecord
        /\ inode.inode_id \in Id
    BY WritingFacts DEF Writing, Removing, FinishWrite
  <1>2. /\ UNCHANGED disk_map
        /\ \/ Lost
           \/ /\ Reached
              /\ disk'[InodeBlock] = [disk[InodeBlock] EXCEPT ![inode.inode_id] = inode]
        /\ disk'[SUPERBLOCK_ID] = disk[SUPERBLOCK_ID]
    BY <1>1, UpdateFacts DEF FinishWrite, Base
  <1>3. Continue /\ \A id \in Id : ~Under(id)' /\ ~Created(id)'
    BY IdleFacts DEF FinishWrite, Under, Created
  <1>4. SUFFICES ASSUME cut' = {}, NEW b \in disk_map' \cap Dev!DataBlock PROVE Answered(b)'
    BY DEF Accounted
  <1>5. cut = {} /\ (Online /\ ~Online' => FALSE)
    BY <1>1, <1>3, <1>4, CutStays DEF Base, Kind
  <1>6. CASE InWriting(b)
    <2>1. /\ Reached
          /\ disk'[InodeBlock] = [disk[InodeBlock] EXCEPT ![inode.inode_id] = inode]
      BY <1>2, <1>5, <1>6 DEF Lost, InWriting
    <2>2. disk'[InodeBlock][inode.inode_id] = inode /\ Live(inode.inode_id)
      BY <1>1, <2>1, IndexFacts DEF Base, Fields, MirrorInv, Reached, inode
    <2>3. PICK id \in Id : id = inode.inode_id
      BY <1>1
    <2>4. Owner(id, b)'
      BY <1>2, <1>3, <1>6, <2>2, <2>3 DEF Owner, Has, Live, InWriting
    <2> QED
      BY <2>4 DEF Answered
  <1>7. ASSUME NEW id \in Id, Owner(id, b)
        PROVE  Owner(id, b)'
    <2>1. disk'[InodeBlock][id] = disk[InodeBlock][id]
      BY <1>1, <1>2, <1>7 DEF Owner, Under, Lost, Reached, Base, Fields
    <2> QED
      BY <1>2, <1>3, <1>7, <2>1 DEF Owner, Has, Live
  <1> QED
    BY <1>1, <1>2, <1>4, <1>5, <1>6, <1>7 DEF Accounted, Answered, InRemoving

-----------------------------------------------------------------------------
(* The other operations.                                                   *)

\* A step outside the operations that leaves the image and the map.
LEMMA AccountedSame ==
    ASSUME Accounted, UNCHANGED <<disk, disk_map>>,
           cut' = {} => /\ cut = {}
                        /\ \A id \in Id : ~Under(id)' /\ ~Created(id)'
                        /\ \A b \in Dev!DataBlock : ~InWriting(b) /\ ~InRemoving(b)
    PROVE  Accounted'
  <1>1. SUFFICES ASSUME cut' = {}, NEW b \in disk_map' \cap Dev!DataBlock PROVE Answered(b)'
    BY DEF Accounted
  <1>2. \A id \in Id : Owner(id, b) => Owner(id, b)'
    BY <1>1 DEF Owner, Has, Live
  <1> QED
    BY <1>1, <1>2 DEF Accounted, Answered

LEMMA StartDeleteAccounted ==
    ASSUME Base, Accounted, NEW p \in Path, delete_file_by_path(p)
    PROVE  Accounted'
  <1> DEFINE s == get_inode_from_path(p)
  <1>1. /\ s \in Id /\ inode_entries[s].inode_id \in Id
        /\ cur' = s /\ i' = 0
        /\ pc = "idle" /\ pc' \in {"clear", "delete"}
        /\ UNCHANGED <<deviceVars, memoryVars, cut>>
    BY SlotFacts DEF delete_file_by_path, Base, OpInv
  <1>2. ~Writing /\ ~Removing /\ Removing'
    BY <1>1 DEF Writing, Removing
  <1> HIDE DEF s
  <1>3. SUFFICES ASSUME cut' = {}, NEW b \in disk_map' \cap Dev!DataBlock PROVE Answered(b)'
    BY DEF Accounted
  <1>4. b >= SIZE_OF_BLOCK \/ \E id \in Id : Owner(id, b)
    BY <1>1, <1>2, <1>3 DEF Accounted, Answered, InWriting, InRemoving, deviceVars
  <1>5. ASSUME NEW id \in Id, Owner(id, b)
        PROVE  Answered(b)'
    <2>1. CASE Online' /\ id = inode_entries[s].inode_id
      <3>1. inode_entries[s] = disk[InodeBlock][id]
        BY <1>1, <1>2, <2>1, IndexFacts DEF Base, MirrorInv, Online, deviceVars
      <3>2. \E k \in Index : k >= 0 /\ inode'.num[k] = b
        BY <1>1, <1>5, <3>1, IndexFacts DEF Owner, Has, inode, memoryVars
      <3> QED
        BY <1>1, <1>2, <2>1, <3>2 DEF Answered, InRemoving
    <2>2. CASE ~(Online' /\ id = inode_entries[s].inode_id)
      <3>1. Owner(id, b)'
        BY <1>1, <1>5, <2>2 DEF Owner, Has, Live, Under, Created, inode, deviceVars, memoryVars
      <3> QED
        BY <3>1 DEF Answered
    <2> QED
      BY <2>1, <2>2
  <1> QED
    BY <1>4, <1>5 DEF Answered

LEMMA DeleteBlockAccounted ==
    ASSUME Base, Base', Accounted, DeleteBlock
    PROVE  Accounted'
  <1>1. /\ UNCHANGED disk
        /\ \/ UNCHANGED disk_map /\ ~Online'
           \/ disk_map' = disk_map \ {inode.num[i]}
           \/ /\ UNCHANGED disk_map
              /\ inode.num[i] = 0 \/ ~(inode.num[i] < SIZE_OF_BLOCK)
                    \/ inode.num[i] \notin disk_map
        /\ Online' => Online
    BY DeleteFacts DEF DeleteBlock, Base, Lost, Reached
  <1>2. /\ pc = "delete" /\ pc' \in {"delete", "clear"} /\ i' = i + 1 /\ Continue
        /\ UNCHANGED <<cur, inode_entries>>
    BY DEF DeleteBlock, Loop, memoryVars
  <1>3. /\ Removing /\ Removing' /\ ~Writing /\ inode' = inode /\ i \in Nat
    BY <1>2, RemovingFacts, IndexFacts DEF Removing, Writing, inode
  <1>4. SUFFICES ASSUME cut' = {}, NEW b \in disk_map' \cap Dev!DataBlock PROVE Answered(b)'
    BY DEF Accounted
  <1>5. cut = {} /\ (Online' <=> Online)
    BY <1>1, <1>2, <1>4, CutStays DEF Base, Kind
  <1>6. \A id \in Id : Owner(id, b) => Owner(id, b)'
    BY <1>1, <1>2, <1>3, <1>5 DEF Owner, Has, Live, Under, Created
  <1>7. CASE InRemoving(b)
    <2>1. PICK k \in Index : k >= i /\ inode.num[k] = b
      BY <1>7 DEF InRemoving
    <2>2. CASE k = i
      <3>1. ~(b < SIZE_OF_BLOCK)
        BY <1>1, <1>4, <1>5, <1>7, <2>1, <2>2, BlockFacts DEF InRemoving
      <3>2. b \in Nat /\ SIZE_OF_BLOCK \in Nat
        BY <1>4, BlockFacts, FileStoreAssumption
      <3>3. b >= SIZE_OF_BLOCK
        BY <3>1, <3>2
      <3> QED
        BY <3>3 DEF Answered
    <2>3. CASE k # i
      <3>1. k >= i'
        BY <1>2, <1>3, <2>1, <2>3, IndexFacts
      <3> QED
        BY <1>3, <1>5, <1>7, <2>1, <3>1 DEF Answered, InRemoving
    <2> QED
      BY <2>2, <2>3
  <1> QED
    BY <1>1, <1>3, <1>4, <1>5, <1>6, <1>7 DEF Accounted, Answered, InWriting

LEMMA FinishDeleteAccounted ==
    ASSUME Base, Base', Emptied, Accounted, FinishDelete
    PROVE  Accounted'
  <1>1. Removing /\ ~Writing /\ pc = "clear" /\ Continue
    BY DEF Removing, Writing, FinishDelete
  <1> DEFINE map == superblock_inode \ {inode.inode_id}
  <1>2. /\ UNCHANGED disk_map
        /\ Lost \/ (Reached /\ disk'[SUPERBLOCK_ID] = map)
        /\ disk'[InodeBlock] = disk[InodeBlock]
    <2>1. map \in SUBSET Id
      BY DEF Base, Fields
    <2> QED
      BY <2>1, SaveFacts DEF FinishDelete, Base
  <1>3. \A id \in Id : ~Created(id)' /\ ~Under(id)'
    BY IdleFacts DEF FinishDelete, Created, Under
  <1>4. SUFFICES ASSUME cut' = {}, NEW b \in disk_map' \cap Dev!DataBlock PROVE Answered(b)'
    BY DEF Accounted
  <1>5. cut = {}
    BY <1>1, <1>4, CutStays DEF Base
  <1>6. ~InRemoving(b)
    BY <1>1, <1>4, BlockFacts DEF InRemoving, Emptied, Ends
  <1>7. ASSUME NEW id \in Id, Owner(id, b)
        PROVE  Owner(id, b)'
    <2>1. Live(id)'
      BY <1>1, <1>2, <1>7 DEF Owner, Live, Under, Base, MirrorInv, Lost, Reached
    <2> QED
      BY <1>2, <1>3, <1>7, <2>1 DEF Owner, Has
  <1> QED
    BY <1>1, <1>2, <1>4, <1>5, <1>6, <1>7 DEF Accounted, Answered, InWriting

LEMMA StartCreateAccounted ==
    ASSUME Base, Accounted, NEW p \in Path, create_file(p)
    PROVE  Accounted'
  <1> DEFINE id0 == First(FreeIds)
             map == superblock_inode \cup {id0}
  <1>1. /\ pc = "idle" /\ pc' = "create" /\ cur' = id0 /\ id0 \in Id
        /\ id0 \notin superblock_inode
        /\ UNCHANGED cut
    BY FirstIn DEF create_file, FreeIds
  <1>2. /\ UNCHANGED disk_map
        /\ Lost \/ (Reached /\ disk'[SUPERBLOCK_ID] = map)
        /\ disk'[InodeBlock] = disk[InodeBlock]
    <2>1. map \in SUBSET Id
      BY <1>1 DEF Base, Fields
    <2> QED
      BY <2>1, SaveFacts DEF create_file, Base
  <1> HIDE DEF id0
  <1>3. SUFFICES ASSUME cut' = {}, NEW b \in disk_map' \cap Dev!DataBlock PROVE Answered(b)'
    BY DEF Accounted
  <1>4. b >= SIZE_OF_BLOCK \/ \E id \in Id : Owner(id, b)
    BY <1>1, <1>2, <1>3 DEF Accounted, Answered, InWriting, InRemoving, Writing, Removing
  <1>5. ASSUME NEW id \in Id, Owner(id, b)
        PROVE  Owner(id, b)'
    <2>1. Live(id)' /\ (Online' => id # id0)
      <3>1. CASE Lost
        BY <1>2, <1>5, <3>1 DEF Owner, Live, Lost
      <3>2. CASE Reached /\ disk'[SUPERBLOCK_ID] = map
        BY <1>1, <1>2, <1>5, <3>2 DEF Owner, Live, Base, MirrorInv, Reached
      <3> QED
        BY <1>2, <3>1, <3>2
    <2> QED
      BY <1>1, <1>2, <1>5, <2>1 DEF Owner, Has, Under, Created, Writing, Removing
  <1> QED
    BY <1>4, <1>5 DEF Answered

LEMMA FinishCreateAccounted ==
    ASSUME Base, Base', Accounted, FinishCreate
    PROVE  Accounted'
  <1> DEFINE n == Inode(cur, arg, 0, NoBlocks)
  <1>1. cur \in Id /\ n \in InodeRecord /\ n.inode_id = cur /\ pc = "create" /\ Continue
    BY CreatedInode DEF FinishCreate
  <1>2. update_inode(n)
    BY DEF FinishCreate
  <1> HIDE DEF n
  <1>3. /\ UNCHANGED disk_map
        /\ Lost \/ (Reached /\ disk'[InodeBlock] = [disk[InodeBlock] EXCEPT ![cur] = n])
        /\ disk'[SUPERBLOCK_ID] = disk[SUPERBLOCK_ID]
    BY <1>1, <1>2, UpdateFacts DEF Base
  <1>4. \A id \in Id : ~Created(id)' /\ ~Under(id)'
    BY IdleFacts DEF FinishCreate, Created, Under
  <1>5. SUFFICES ASSUME cut' = {}, NEW b \in disk_map' \cap Dev!DataBlock PROVE Answered(b)'
    BY DEF Accounted
  <1>6. cut = {}
    BY <1>1, <1>5, CutStays DEF Base
  <1>7. ASSUME NEW id \in Id, Owner(id, b)
        PROVE  Owner(id, b)'
    <2>1. disk'[InodeBlock][id] = disk[InodeBlock][id]
      BY <1>1, <1>3, <1>7 DEF Owner, Created, Lost, Reached, Base, Fields
    <2> QED
      BY <1>3, <1>4, <1>7, <2>1 DEF Owner, Has, Live
  <1> QED
    BY <1>1, <1>3, <1>5, <1>6, <1>7
       DEF Accounted, Answered, InWriting, InRemoving, Writing, Removing

LEMMA AccountedStep ==
    Base /\ Base' /\ Shape /\ Emptied /\ Accounted /\ [Next]_vars => Accounted'
  <1> SUFFICES ASSUME Base, Base', Shape, Emptied, Accounted, [Next]_vars PROVE Accounted'
    OBVIOUS
  <1>1. ASSUME NEW p \in Path, create_file(p) PROVE Accounted'
    BY <1>1, StartCreateAccounted
  <1>2. ASSUME NEW p \in Path, NEW size \in Sizes, NEW v \in Payload,
               write_file_by_path(p, size, v)
        PROVE  Accounted'
    BY <1>2, StartWriteAccounted
  <1>3. ASSUME NEW p \in Path, read_file_by_path(p) PROVE Accounted'
    BY <1>3, AccountedSame
       DEF read_file_by_path, deviceVars, Under, Created, InWriting, InRemoving, Writing, Removing
  <1>4. ASSUME NEW p \in Path, delete_file_by_path(p) PROVE Accounted'
    BY <1>4, StartDeleteAccounted
  <1>5. ASSUME ReadBlock PROVE Accounted'
    <2>1. UNCHANGED <<disk, disk_map, cut>> /\ pc = "read" /\ pc' \in {"read", "idle"}
      BY <1>5, ReadFacts DEF ReadBlock, Idle, Base
    <2> QED
      BY <2>1, AccountedSame DEF Under, Created, InWriting, InRemoving, Writing, Removing
  <1>6. ASSUME Crash PROVE Accounted'
    <2>1. /\ UNCHANGED disk /\ ~Online'
          /\ ~(Online /\ pc = "append") => UNCHANGED disk_map
          /\ cut' = IF Online THEN cut \cup Kind ELSE cut
      BY <1>6, CrashFacts
    <2>2. CASE cut' # {}
      BY <2>2 DEF Accounted
    <2>3. CASE cut' = {}
      <3>1. cut = {} /\ UNCHANGED disk_map /\ ~(Online /\ (Writing \/ Removing))
        BY <2>1, <2>3 DEF Kind, Writing, Removing
      <3> QED
        BY <2>1, <3>1, AccountedSame DEF Under, Created, InWriting, InRemoving
    <2> QED
      BY <2>2, <2>3
  <1>7. ASSUME Restart PROVE Accounted'
    <2>1. UNCHANGED <<disk, disk_map, cut, pc>> /\ pc = "idle"
      BY <1>7, LoadFacts DEF Restart, opVars, Base, DeviceInv
    <2> QED
      BY <2>1, AccountedSame DEF Under, Created, InWriting, InRemoving, Writing, Removing
  <1>8. ASSUME UNCHANGED vars PROVE Accounted'
    BY <1>8 DEF vars, deviceVars, memoryVars, opVars, Accounted, Answered, Owner, Has, Live, Under,
       Created, InWriting, InRemoving, Writing, Removing, Online, inode
  <1> QED
    BY <1>1, <1>2, <1>3, <1>4, <1>5, <1>6, <1>7, <1>8, FinishCreateAccounted,
       ReleaseTailAccounted, WriteOnAccounted, AppendAccounted, FinishWriteAccounted,
       DeleteBlockAccounted, FinishDeleteAccounted
       DEF Next, Command, Step

-----------------------------------------------------------------------------
\* No block is lost: as long as every operation ran to its end, each marked
\* data block belongs to an inode a restart would load, or lies where
\* delete_block refuses to go.
THEOREM BlocksAccounted == Spec => []NoLeak
  <1>1. Init => Emptied /\ Accounted
    <2> SUFFICES ASSUME Init PROVE Emptied /\ Accounted
      OBVIOUS
    <2>1. disk_map \cap Dev!DataBlock = {} /\ pc = "idle"
      BY FileStoreAssumption DEF Init, Dev!DataBlock
    <2> QED
      BY <2>1 DEF Emptied, Accounted
  <1>2. Base /\ Base' /\ Shape /\ Emptied /\ Accounted /\ [Next]_vars => Emptied' /\ Accounted'
    BY EmptiedStep, AccountedStep
  <1>3. Contents => Base /\ Shape
    BY DEF Contents
  <1>4. Base /\ Accounted => NoLeak
    BY DEF NoLeak, Accounted, Answered, Owner, Has, InWriting, InRemoving, Writing, Removing
  <1> QED
    BY <1>1, <1>2, <1>3, <1>4, ContentsAlways, PTL DEF Spec
=============================================================================
