------------------------- MODULE FileStoreOwnership -------------------------
(***************************************************************************)
(* Who owns a block: proofs that no two pointers of the image name one     *)
(* block, and that the map marks the blocks the inodes own, over the       *)
(* invariant of FileStoreProofs.                                           *)
(***************************************************************************)
EXTENDS FileStoreProofs

\* No creation, shrink or deletion was left unfinished.
Safe == cut \subseteq {"write"}

\* The inode an operation works on, and those whose blocks it may already
\* have given away.
Under(id)   == Online /\ (Writing \/ Removing) /\ id = inode.inode_id
Created(id) == Online /\ pc = "create" /\ id = cur
Freed(id)   == Created(id) \/ (Under(id) /\ (Removing \/ Shrinks))

Settled(id) == Live(id) /\ ~Created(id)
Firm(id)    == Live(id) /\ ~Freed(id)

Within(n, S)   == \A k \in Index : n.num[k] \in S \cup {0}
Injective(n)   == \A k, l \in Index : n.num[k] # 0 /\ n.num[k] = n.num[l] => k = l
Disjoint(m, n) == \A k, l \in Index : m.num[k] # 0 => m.num[k] # n.num[l]

\* The map marks the blocks of the inodes of the image.
Marked ==
    Safe => \A id \in Id : Firm(id) => Within(disk[InodeBlock][id], disk_map)

\* The inodes of the image share no block.
Unshared ==
    Safe => \A a \in Id : Settled(a) =>
                /\ Injective(disk[InodeBlock][a])
                /\ \A b \in Id : Settled(b) /\ a # b =>
                       Disjoint(disk[InodeBlock][a], disk[InodeBlock][b])

\* So it is for the inode that is being written, which is ahead of the image.
InHand ==
    Safe /\ Online /\ Writing =>
        /\ Within(inode, disk_map)
        /\ Injective(inode)
        /\ \A b \in Id : Live(b) /\ b # inode.inode_id =>
               Disjoint(inode, disk[InodeBlock][b])

Owned == Marked /\ Unshared /\ InHand

-----------------------------------------------------------------------------
(* Steps that write no inode.                                              *)

LEMMA CutGrows ==
    ASSUME Fields', Continue, Safe'
    PROVE  Safe /\ (Online /\ ~Online' => Kind \subseteq {"write"})
  BY DEF Continue, Safe, Online, Fields

\* A block is given away only by an operation that is not a plain write.
LEMMA FreedKind ==
    ASSUME NEW id, Freed(id)
    PROVE  Online /\ ~(Kind \subseteq {"write"})
  BY DEF Freed, Created, Under, Writing, Removing, Kind, Shrinks, inode

\* Nothing new is loaded, and no block of what stays is given away.
Stays ==
    /\ disk'[InodeBlock] = disk[InodeBlock]
    /\ Safe' => /\ Safe
                /\ disk_map \subseteq disk_map'
                /\ \A id \in Id : (Settled(id)' => Settled(id)) /\ (Firm(id)' => Firm(id))

LEMMA KeepImage ==
    ASSUME Marked, Unshared, Stays
    PROVE  Marked' /\ Unshared'
  <1>1. Marked'
    BY DEF Marked, Stays, Within
  <1>2. Unshared'
    BY DEF Unshared, Stays
  <1> QED
    BY <1>1, <1>2

\* While a file is written, the inodes of the image keep their standing.
LEMMA WriteOnStanding ==
    ASSUME Base, Base', WriteOn, Continue, Safe'
    PROVE  /\ Safe
           /\ \A id \in Id : /\ Live(id)' <=> Live(id)
                             /\ Settled(id)' => Settled(id)
                             /\ Firm(id)' => Firm(id)
           /\ inode'.inode_id = inode.inode_id
           /\ Online' => Online
  <1>1. Safe /\ (Online /\ ~Online' => Kind \subseteq {"write"})
    BY CutGrows DEF Base
  <1>2. inode'.inode_id = inode.inode_id /\ (Shrinks' <=> Shrinks)
    BY DEF WriteOn, inode, Shrinks
  <1>3. ASSUME NEW id \in Id
        PROVE  /\ Live(id)' <=> Live(id)
               /\ Settled(id)' => Settled(id)
               /\ Firm(id)' => Firm(id)
    <2>1. Live(id)' <=> Live(id)
      BY DEF Live, WriteOn
    <2>2. ~Created(id) /\ pc # "create"
      BY DEF Created, WriteOn, Writing
    <2>3. ASSUME Freed(id) PROVE Freed(id)'
      <3>1. Online /\ Online'
        BY <1>1, <2>3, FreedKind
      <3>2. Under(id) /\ Shrinks
        BY <2>2, <2>3 DEF Freed, Removing, WriteOn, Writing
      <3>3. Under(id)'
        BY <1>2, <3>1, <3>2 DEF Under, WriteOn
      <3> QED
        BY <1>2, <3>2, <3>3 DEF Freed
    <2> QED
      BY <2>1, <2>2, <2>3 DEF Settled, Firm
  <1> QED
    BY <1>1, <1>2, <1>3 DEF WriteOn

-----------------------------------------------------------------------------
(* write_file.                                                             *)

LEMMA StartWriteOwned ==
    ASSUME Base, Base', Owned, NEW p \in Path, NEW size \in Sizes, NEW v \in Payload,
           write_file_by_path(p, size, v)
    PROVE  Owned'
  <1> USE DEF Owned
  <1> DEFINE s == get_inode_from_path(p)
  <1>1. /\ s \in Id /\ inode_entries[s].inode_id \in Id
        /\ cur' = s
        /\ inode_entries'[s].num = inode_entries[s].num
        /\ inode_entries'[s].inode_id = inode_entries[s].inode_id
        /\ UNCHANGED <<deviceVars, superblock_inode, cut>>
    BY StartWriteFacts
  <1>2. pc = "idle" /\ ~Writing /\ ~Removing
    BY DEF write_file_by_path, Writing, Removing
  <1> HIDE DEF s
  <1>3. /\ UNCHANGED <<disk, disk_map, cut, file_state>>
        /\ \A id \in Id : (Live(id)' <=> Live(id)) /\ ~Freed(id) /\ ~Created(id)
    BY <1>1, <1>2 DEF deviceVars, Live, Freed, Created, Under
  <1>4. Stays
    BY <1>3 DEF Stays, Safe, Settled, Firm
  <1>5. ASSUME Safe', Online'
        PROVE  /\ Within(inode', disk_map')
               /\ Injective(inode')
               /\ \A b \in Id : Live(b)' /\ b # inode'.inode_id =>
                      Disjoint(inode', disk'[InodeBlock][b])
    <2> DEFINE id == inode_entries[s].inode_id
    <2>1. Safe /\ Online /\ id \in Id /\ id # -1
      BY <1>1, <1>3, <1>5, IndexFacts DEF Safe, Online
    <2>2. Live(id) /\ inode_entries[s] = disk[InodeBlock][id]
      BY <1>1, <1>2, <2>1 DEF Base, MirrorInv
    <2>3. inode'.num = disk[InodeBlock][id].num /\ inode'.inode_id = id
      BY <1>1, <2>2 DEF inode
    <2>4. Within(disk[InodeBlock][id], disk_map)
      BY <1>3, <2>1, <2>2 DEF Marked, Firm
    <2>5. /\ Injective(disk[InodeBlock][id])
          /\ \A b \in Id : Live(b) /\ b # id =>
                 Disjoint(disk[InodeBlock][id], disk[InodeBlock][b])
      BY <1>3, <2>1, <2>2 DEF Unshared, Settled
    <2>6. Within(inode', disk_map')
      BY <1>3, <2>3, <2>4 DEF Within
    <2>7. Injective(inode')
      BY <2>3, <2>5 DEF Injective
    <2>8. ASSUME NEW b \in Id, Live(b)', b # inode'.inode_id
          PROVE  Disjoint(inode', disk'[InodeBlock][b])
      <3>1. Disjoint(disk[InodeBlock][id], disk[InodeBlock][b])
        BY <1>3, <2>3, <2>5, <2>8
      <3> QED
        BY <1>3, <2>3, <3>1 DEF Disjoint
    <2> QED
      BY <2>6, <2>7, <2>8
  <1> QED
    BY <1>4, <1>5, KeepImage DEF InHand

LEMMA ReleaseTailOwned ==
    ASSUME Base, Base', Owned, ReleaseTail
    PROVE  Owned'
  <1> USE DEF Owned
  <1>1. /\ UNCHANGED disk /\ Continue /\ WriteOn
        /\ \/ Lost /\ UNCHANGED <<disk_map, block_map>>
           \/ /\ Reached
              /\ disk_map' = disk_map \ {inode.num[i]} /\ block_map' = disk_map'
           \/ Reached /\ UNCHANGED <<disk_map, block_map>>
        /\ inode_entries'[cur].num[i] = 0
        /\ \A k \in Index : k # i => inode_entries'[cur].num[k] = inode.num[k]
    BY ReleaseTailEffect
  <1>2. Writing /\ Shrinks /\ i \in Index /\ inode.inode_id \in Id
    BY WritingFacts DEF Base, OpInv, Writing, ReleaseTail
  <1>3. inode' = inode_entries'[cur]
    BY <1>1 DEF inode, WriteOn
  <1>4. ASSUME ~Online'
        PROVE  Marked' /\ Unshared'
    <2>1. UNCHANGED disk_map
      BY <1>1, <1>4 DEF Reached
    <2> QED
      BY <1>1, <2>1, WriteOnStanding, KeepImage DEF Stays
  <1>5. ASSUME Online', Safe'
        PROVE  Marked' /\ Unshared' /\ InHand'
    <2>1. /\ Safe /\ Online
          /\ \A id \in Id : /\ Live(id)' <=> Live(id)
                            /\ Settled(id)' => Settled(id)
                            /\ Firm(id)' => Firm(id)
          /\ inode'.inode_id = inode.inode_id
      BY <1>1, <1>5, WriteOnStanding
    <2>2. /\ Within(inode, disk_map)
          /\ Injective(inode)
          /\ \A b \in Id : Live(b) /\ b # inode.inode_id =>
                 Disjoint(inode, disk[InodeBlock][b])
      BY <1>2, <2>1 DEF InHand
    <2>3. disk_map' = disk_map \/ disk_map' = disk_map \ {inode.num[i]}
      BY <1>1
    <2>4. Marked'
      <3>1. ASSUME NEW id \in Id, Firm(id)'
            PROVE  Within(disk[InodeBlock][id], disk_map')
        <4>1. Firm(id) /\ id # inode.inode_id
          BY <1>2, <2>1, <3>1 DEF Firm, Freed, Under
        <4>2. Within(disk[InodeBlock][id], disk_map) /\ Disjoint(inode, disk[InodeBlock][id])
          BY <2>1, <2>2, <4>1 DEF Marked, Firm
        <4> QED
          BY <1>2, <2>3, <4>2 DEF Within, Disjoint
      <3> QED
        BY <1>1, <3>1 DEF Marked
    <2>5. Unshared'
      BY <1>1, <2>1 DEF Unshared
    <2>6. /\ Within(inode', disk_map')
          /\ Injective(inode')
          /\ \A b \in Id : Live(b) /\ b # inode.inode_id =>
                 Disjoint(inode', disk[InodeBlock][b])
      BY <1>1, <1>2, <1>3, <2>2, <2>3 DEF Within, Injective, Disjoint
    <2>7. InHand'
      BY <1>1, <2>1, <2>6 DEF InHand
    <2> QED
      BY <2>4, <2>5, <2>7
  <1> QED
    BY <1>4, <1>5 DEF Marked, Unshared, InHand

LEMMA OverwriteOwned ==
    ASSUME Base, Base', Owned, Overwrite
    PROVE  Owned'
  <1> USE DEF Owned
  <1>1. UNCHANGED <<disk_map, inode_entries>> /\ Continue /\ WriteOn
    BY OverwriteEffect
  <1>2. Marked' /\ Unshared'
    BY <1>1, WriteOnStanding, KeepImage DEF Stays, WriteOn
  <1>3. inode' = inode /\ disk'[InodeBlock] = disk[InodeBlock]
    BY <1>1 DEF inode, WriteOn
  <1>4. InHand'
    BY <1>1, <1>3, WriteOnStanding DEF InHand, WriteOn
  <1> QED
    BY <1>2, <1>4

LEMMA AppendOwned ==
    ASSUME Base, Base', Owned, Append
    PROVE  Owned'
  <1> USE DEF Owned
  <1>1. /\ Continue /\ WriteOn
        /\ \A k \in Index : k # i => inode_entries'[cur].num[k] = inode.num[k]
    BY AppendEffect
  <1>2. PICK b \in Int :
            /\ inode_entries'[cur].num[i] = b
            /\ \/ Reached /\ b \in Dev!Free /\ disk_map' = disk_map \cup {b}
               \/ Reached /\ b = 0 /\ UNCHANGED disk_map
               \/ Lost /\ UNCHANGED disk_map
    BY AppendEffect
  <1>3. /\ Writing /\ pc = "append" /\ Grows /\ i \in Index /\ inode.inode_id \in Id
        /\ inode.file_size \in Nat /\ block_inuse \in Nat
    BY WritingFacts DEF Base, OpInv, Writing, Append
  <1>4. inode' = inode_entries'[cur] /\ disk'[InodeBlock] = disk[InodeBlock]
    BY <1>1 DEF inode, WriteOn
  <1>5. Marked' /\ Unshared'
    BY <1>1, <1>2, <1>4, WriteOnStanding, KeepImage DEF Stays
  <1>6. ASSUME Online', Safe'
        PROVE  InHand'
    <2>1. /\ Safe /\ Online
          /\ \A id \in Id : Live(id)' <=> Live(id)
          /\ inode'.inode_id = inode.inode_id
      BY <1>1, <1>6, WriteOnStanding
    <2>2. /\ Within(inode, disk_map)
          /\ Injective(inode)
          /\ \A a \in Id : Live(a) /\ a # inode.inode_id =>
                 Disjoint(inode, disk[InodeBlock][a])
      BY <1>3, <2>1 DEF InHand
    <2>3. b \in disk_map' \cup {0} /\ disk_map \subseteq disk_map' /\ (b = 0 \/ b \notin disk_map)
      BY <1>2, <1>6, FreeFacts DEF Lost
    <2>4. ASSUME NEW a \in Id, Live(a), a # inode.inode_id
          PROVE  Disjoint(inode', disk[InodeBlock][a])
      <3>1. Firm(a)
        BY <1>3, <2>4 DEF Firm, Freed, Created, Under
      <3>2. Within(disk[InodeBlock][a], disk_map)
        BY <2>1, <3>1 DEF Marked
      <3> QED
        BY <1>1, <1>2, <1>3, <1>4, <2>2, <2>3, <2>4, <3>2 DEF Within, Disjoint
    <2>5. Within(inode', disk_map') /\ Injective(inode')
      BY <1>1, <1>2, <1>3, <1>4, <2>2, <2>3 DEF Within, Injective
    <2> QED
      BY <1>4, <2>1, <2>4, <2>5 DEF InHand
  <1> QED
    BY <1>5, <1>6 DEF InHand

LEMMA ReleaseIndirectOwned ==
    ASSUME Base, Base', Owned, ReleaseIndirect
    PROVE  Owned'
  <1> USE DEF Owned
  <1>1. /\ Continue /\ WriteOn
        /\ UNCHANGED <<disk, disk_map, inode_entries>>
    BY ReleaseIndirectEffect
  <1>2. Marked' /\ Unshared'
    BY <1>1, WriteOnStanding, KeepImage DEF Stays
  <1>3. inode' = inode
    BY <1>1 DEF inode, WriteOn
  <1>4. InHand'
    BY <1>1, <1>3, WriteOnStanding DEF InHand, WriteOn
  <1> QED
    BY <1>2, <1>4

LEMMA FinishWriteOwned ==
    ASSUME Base, Base', Owned, FinishWrite
    PROVE  Owned'
  <1> USE DEF Owned
  <1>1. Writing /\ inode \in InodeRecord /\ inode.inode_id \in Id
    BY WritingFacts DEF Writing, FinishWrite
  <1>2. /\ UNCHANGED disk_map
        /\ \/ Lost
           \/ /\ Reached
              /\ disk'[InodeBlock] = [disk[InodeBlock] EXCEPT ![inode.inode_id] = inode]
        /\ disk'[SUPERBLOCK_ID] = disk[SUPERBLOCK_ID]
    BY <1>1, UpdateFacts DEF FinishWrite, Base
  <1>3. pc' = "idle" /\ ~Writing' /\ ~Removing' /\ Continue
    BY IdleFacts DEF FinishWrite
  <1>4. InHand' /\ \A id \in Id : ~Created(id) /\ ~Freed(id)' /\ ~Created(id)'
    BY <1>1, <1>3 DEF InHand, Freed, Created, Under, Writing
  <1>5. CASE Lost
    <2>1. ASSUME Safe', NEW id \in Id
          PROVE  Safe /\ ~Freed(id)
      BY <1>3, <1>5, <2>1, CutGrows, FreedKind DEF Base, Lost
    <2>2. Stays
      BY <1>2, <1>4, <1>5, <2>1, CutGrows, <1>3 DEF Stays, Settled, Firm, Live, Lost, Base
    <2> QED
      BY <1>4, <2>2, KeepImage
  <1>6. CASE /\ Reached
             /\ disk'[InodeBlock] = [disk[InodeBlock] EXCEPT ![inode.inode_id] = inode]
    <2> DEFINE own == inode.inode_id
    <2>1. SUFFICES ASSUME Safe' PROVE Marked' /\ Unshared'
      BY <1>4 DEF Marked, Unshared
    <2>2. Safe /\ Online
      BY <1>3, <1>6, <2>1, CutGrows DEF Base, Reached
    <2>3. /\ Within(inode, disk_map)
          /\ Injective(inode)
          /\ \A b \in Id : Live(b) /\ b # own => Disjoint(inode, disk[InodeBlock][b])
      BY <1>1, <2>2 DEF InHand
    <2>4. /\ disk'[InodeBlock][own] = inode
          /\ \A id \in Id : id # own => disk'[InodeBlock][id] = disk[InodeBlock][id]
      BY <1>1, <1>6 DEF Base, Fields
    <2>5. \A id \in Id : id # own => (Live(id)' <=> Live(id))
      BY <1>2, <2>4 DEF Live
    <2>6. \A id \in Id : id # own /\ Live(id) =>
              /\ Within(disk[InodeBlock][id], disk_map)
              /\ Injective(disk[InodeBlock][id])
              /\ \A b \in Id : Live(b) /\ id # b =>
                     Disjoint(disk[InodeBlock][id], disk[InodeBlock][b])
      BY <1>1, <1>4, <2>2 DEF Marked, Unshared, Firm, Freed, Settled, Under
    <2>7. Marked'
      BY <1>2, <2>3, <2>4, <2>5, <2>6 DEF Marked, Firm
    <2>8. \A a \in Id : Settled(a)' => Injective(disk'[InodeBlock][a])
      BY <2>3, <2>4, <2>5, <2>6 DEF Settled
    <2>9. ASSUME NEW a \in Id, Settled(a)', NEW b \in Id, Settled(b)', a # b
          PROVE  Disjoint(disk'[InodeBlock][a], disk'[InodeBlock][b])
      <3>1. CASE a = own
        BY <2>3, <2>4, <2>5, <2>9, <3>1 DEF Settled
      <3>2. CASE b = own
        <4>1. Disjoint(inode, disk[InodeBlock][a])
          BY <2>3, <2>5, <2>9, <3>2 DEF Settled
        <4> QED
          BY <2>4, <2>9, <3>2, <4>1 DEF Disjoint
      <3>3. CASE a # own /\ b # own
        BY <2>4, <2>5, <2>6, <2>9, <3>3 DEF Settled
      <3> QED
        BY <3>1, <3>2, <3>3
    <2>10. Unshared'
      BY <2>8, <2>9 DEF Unshared
    <2> QED
      BY <2>7, <2>10
  <1> QED
    BY <1>2, <1>4, <1>5, <1>6

-----------------------------------------------------------------------------
(* The other operations.                                                   *)

\* A step outside write_file that leaves the image and the map as they were.
LEMMA SameImage ==
    ASSUME Base, Base', Owned, UNCHANGED <<disk, disk_map>>, ~Writing',
           Safe' => Safe /\ \A id \in Id : ~Created(id) /\ (Freed(id) => Freed(id)')
    PROVE  Owned'
  <1>1. Stays
    BY DEF Stays, Settled, Firm, Live
  <1> QED
    BY <1>1, KeepImage DEF Owned, InHand

LEMMA StartReadOwned ==
    ASSUME Base, Base', Owned, NEW p \in Path, read_file_by_path(p)
    PROVE  Owned'
  <1>1. /\ pc = "idle" /\ pc' = "read"
        /\ UNCHANGED <<disk, disk_map, cut>>
    BY DEF read_file_by_path, deviceVars
  <1> QED
    BY <1>1, SameImage DEF Writing, Removing, Safe, Freed, Created, Under

LEMMA ReadBlockOwned ==
    ASSUME Base, Base', Owned, ReadBlock
    PROVE  Owned'
  <1>1. UNCHANGED <<disk, disk_map, cut>> /\ pc = "read" /\ pc' \in {"read", "idle"}
    BY ReadFacts DEF ReadBlock, Idle, Base
  <1> QED
    BY <1>1, SameImage DEF Writing, Removing, Safe, Freed, Created, Under

LEMMA StartDeleteOwned ==
    ASSUME Base, Base', Owned, NEW p \in Path, delete_file_by_path(p)
    PROVE  Owned'
  <1>1. /\ pc = "idle" /\ pc' \in {"clear", "delete"}
        /\ UNCHANGED <<disk, disk_map, cut>>
    BY DEF delete_file_by_path, deviceVars
  <1> QED
    BY <1>1, SameImage DEF Writing, Removing, Safe, Freed, Created, Under

LEMMA DeleteBlockOwned ==
    ASSUME Base, Base', Owned, DeleteBlock
    PROVE  Owned'
  <1> USE DEF Owned
  <1>1. /\ UNCHANGED disk
        /\ \/ Lost /\ UNCHANGED disk_map
           \/ Reached /\ disk_map' = disk_map \ {inode.num[i]}
           \/ Reached /\ UNCHANGED disk_map
    BY DeleteFacts DEF DeleteBlock, Base
  <1>2. /\ pc = "delete" /\ pc' \in {"delete", "clear"} /\ Continue
        /\ UNCHANGED <<cur, inode_entries>>
    BY DEF DeleteBlock, Loop, memoryVars
  <1>3. /\ Removing /\ Removing' /\ ~Writing /\ ~Writing' /\ inode' = inode
        /\ i \in Index /\ cur \in Id /\ inode.inode_id \in Id
    BY <1>2, RemovingFacts DEF Removing, Writing, inode
  <1>4. ASSUME Safe', ~Online'
        PROVE  Safe /\ ~Online
    BY <1>2, <1>3, <1>4, CutGrows DEF Base, Kind, Removing
  <1>5. CASE ~Online'
    BY <1>1, <1>2, <1>3, <1>4, <1>5, SameImage DEF Freed, Created, Under, Reached
  <1>6. CASE Online'
    <2>1. SUFFICES ASSUME Safe' PROVE Marked' /\ Unshared'
      BY <1>3 DEF InHand, Marked, Unshared
    <2>2. Safe /\ Online
      BY <1>1, <1>2, <1>6, <2>1, CutGrows DEF Base, Reached, Lost
    <2>3. \A id \in Id : /\ Live(id)' <=> Live(id)
                         /\ Settled(id)' <=> Live(id)
                         /\ Settled(id) <=> Live(id)
                         /\ Firm(id)' <=> Live(id) /\ id # inode.inode_id
                         /\ Firm(id) <=> Live(id) /\ id # inode.inode_id
      BY <1>1, <1>2, <1>3, <1>6, <2>2 DEF Live, Settled, Firm, Freed, Created, Under
    <2>4. /\ Live(inode.inode_id)
          /\ inode = disk[InodeBlock][inode.inode_id]
      BY <1>3, <2>2, IndexFacts DEF Base, MirrorInv, inode
    <2>5. ASSUME NEW id \in Id, Live(id), id # inode.inode_id
          PROVE  Within(disk[InodeBlock][id], disk_map')
      <3>1. Within(disk[InodeBlock][id], disk_map)
        BY <2>2, <2>3, <2>5 DEF Marked
      <3>2. Disjoint(inode, disk[InodeBlock][id])
        BY <1>3, <2>2, <2>3, <2>4, <2>5 DEF Unshared
      <3> QED
        BY <1>1, <1>3, <3>1, <3>2 DEF Within, Disjoint
    <2>6. Marked'
      BY <1>1, <2>3, <2>5 DEF Marked
    <2>7. Unshared'
      BY <1>1, <2>2, <2>3 DEF Unshared
    <2> QED
      BY <2>6, <2>7
  <1> QED
    BY <1>5, <1>6

LEMMA FinishDeleteOwned ==
    ASSUME Base, Base', Owned, FinishDelete
    PROVE  Owned'
  <1> USE DEF Owned
  <1>1. /\ Removing /\ ~Writing /\ inode.inode_id \in Id
        /\ pc = "clear" /\ Continue
    BY RemovingFacts DEF Removing, Writing, FinishDelete
  <1> DEFINE map == superblock_inode \ {inode.inode_id}
  <1>2. /\ UNCHANGED disk_map
        /\ Lost \/ (Reached /\ disk'[SUPERBLOCK_ID] = map)
        /\ disk'[InodeBlock] = disk[InodeBlock]
    <2>1. map \in SUBSET Id
      BY DEF Base, Fields
    <2> QED
      BY <2>1, SaveFacts DEF FinishDelete, Base
  <1>3. pc' = "idle" /\ ~Writing'
    BY IdleFacts DEF FinishDelete
  <1>4. ASSUME Safe', NEW id \in Id
        PROVE  Safe /\ (Settled(id)' => Settled(id)) /\ (Firm(id)' => Firm(id))
    <2>1. Safe /\ (Online => Online')
      BY <1>1, <1>4, CutGrows DEF Base, Kind
    <2>2. ~Created(id)
      BY <1>1 DEF Created
    <2>3. CASE ~Online
      BY <1>2, <2>1, <2>2, <2>3 DEF Live, Settled, Firm, Freed, Under, Lost, Reached
    <2>4. CASE Online
      <3>1. Reached /\ disk'[SUPERBLOCK_ID] = map /\ superblock_inode = disk[SUPERBLOCK_ID]
        BY <1>2, <2>1, <2>4 DEF Lost, Base, MirrorInv
      <3>2. Live(id)' => Live(id) /\ id # inode.inode_id
        BY <1>2, <3>1 DEF Live
      <3> QED
        BY <2>1, <2>2, <3>2 DEF Settled, Firm, Freed, Under
    <2> QED
      BY <2>3, <2>4
  <1>5. Stays
    <2>1. Safe' => Safe
      BY <1>1, CutGrows DEF Base
    <2> QED
      BY <1>2, <1>4, <2>1 DEF Stays
  <1> QED
    BY <1>3, <1>5, KeepImage DEF InHand

LEMMA StartCreateOwned ==
    ASSUME Base, Base', Owned, NEW p \in Path, create_file(p)
    PROVE  Owned'
  <1> USE DEF Owned
  <1> DEFINE id0 == First(FreeIds)
             map == superblock_inode \cup {id0}
  <1>1. /\ pc = "idle" /\ pc' = "create" /\ cur' = id0 /\ id0 \in Id
        /\ UNCHANGED cut
    BY FirstIn DEF create_file, FreeIds
  <1>2. /\ UNCHANGED disk_map
        /\ Lost \/ (Reached /\ disk'[SUPERBLOCK_ID] = map)
        /\ disk'[InodeBlock] = disk[InodeBlock]
    <2>1. map \in SUBSET Id
      BY <1>1 DEF Base, Fields
    <2> QED
      BY <2>1, SaveFacts DEF create_file, Base
  <1> HIDE DEF id0
  <1>3. ~Writing' /\ \A id \in Id : ~Created(id) /\ ~Freed(id)
    BY <1>1 DEF Writing, Removing, Created, Freed, Under
  <1>4. ASSUME NEW id \in Id
        PROVE  (Settled(id)' => Live(id)) /\ (Firm(id)' => Live(id))
    <2>1. CASE Lost
      BY <1>2, <2>1 DEF Settled, Firm, Live, Lost
    <2>2. CASE Reached /\ disk'[SUPERBLOCK_ID] = map
      <3>1. superblock_inode = disk[SUPERBLOCK_ID]
        BY <2>2 DEF Base, MirrorInv, Reached
      <3>2. Live(id)' => Live(id) \/ id = id0
        BY <1>2, <2>2, <3>1 DEF Live
      <3>3. id = id0 => Created(id)'
        BY <1>1, <2>2 DEF Created, Reached
      <3> QED
        BY <3>2, <3>3 DEF Settled, Firm, Freed
    <2> QED
      BY <1>2, <2>1, <2>2
  <1>5. Stays
    BY <1>1, <1>2, <1>3, <1>4 DEF Stays, Safe, Settled, Firm
  <1> QED
    BY <1>3, <1>5, KeepImage DEF InHand

LEMMA FinishCreateOwned ==
    ASSUME Base, Base', Owned, FinishCreate
    PROVE  Owned'
  <1> USE DEF Owned
  <1> DEFINE n == Inode(cur, arg, 0, NoBlocks)
  <1>1. /\ cur \in Id /\ n \in InodeRecord /\ n.inode_id = cur
        /\ \A k \in Index : n.num[k] = 0
        /\ pc = "create" /\ Continue
    BY CreatedInode DEF FinishCreate
  <1>2. update_inode(n)
    BY DEF FinishCreate
  <1> HIDE DEF n
  <1>3. /\ UNCHANGED disk_map
        /\ Lost \/ (Reached /\ disk'[InodeBlock] = [disk[InodeBlock] EXCEPT ![cur] = n])
        /\ disk'[SUPERBLOCK_ID] = disk[SUPERBLOCK_ID]
    BY <1>1, <1>2, UpdateFacts DEF Base
  <1>4. /\ ~Writing' /\ pc' = "idle"
        /\ \A id \in Id : ~Created(id)' /\ ~Freed(id)'
    BY IdleFacts DEF FinishCreate, Created, Freed, Under
  <1>5. \A id \in Id : Freed(id) <=> Created(id)
    BY <1>1 DEF Freed, Under, Writing, Removing
  <1>6. CASE Lost
    <2>1. Safe' => Safe /\ ~Online
      BY <1>1, <1>6, CutGrows DEF Base, Kind, Lost
    <2>2. Safe' => \A id \in Id : ~Created(id) /\ ~Freed(id)
      BY <1>5, <2>1 DEF Created
    <2> QED
      BY <1>3, <1>4, <1>6, <2>1, <2>2, SameImage DEF Lost
  <1>7. CASE Reached /\ disk'[InodeBlock] = [disk[InodeBlock] EXCEPT ![cur] = n]
    <2>1. SUFFICES ASSUME Safe' PROVE Marked' /\ Unshared'
      BY <1>4 DEF Marked, Unshared, InHand
    <2>2. Safe
      BY <1>1, <2>1, CutGrows DEF Base
    <2>3. /\ disk'[InodeBlock][cur] = n
          /\ \A id \in Id : id # cur => disk'[InodeBlock][id] = disk[InodeBlock][id]
      BY <1>1, <1>7 DEF Base, Fields
    <2>4. \A id \in Id : id # cur /\ Live(id)' => Settled(id) /\ Firm(id)
      BY <1>3, <1>5, <2>3 DEF Live, Settled, Firm, Created
    <2>5. \A id \in Id : Settled(id)' => Live(id)'
      BY DEF Settled
    <2>6. Marked'
      BY <1>1, <1>3, <2>2, <2>3, <2>4 DEF Marked, Firm, Within
    <2>7. \A a \in Id : Live(a)' => Injective(disk'[InodeBlock][a])
      BY <1>1, <2>2, <2>3, <2>4 DEF Unshared, Injective
    <2>8. \A a, b \in Id : Live(a)' /\ Live(b)' /\ a # b =>
              Disjoint(disk'[InodeBlock][a], disk'[InodeBlock][b])
      BY <1>1, <2>2, <2>3, <2>4 DEF Unshared, Disjoint
    <2>9. Unshared'
      BY <2>5, <2>7, <2>8 DEF Unshared
    <2> QED
      BY <2>6, <2>9
  <1> QED
    BY <1>3, <1>6, <1>7

-----------------------------------------------------------------------------
(* The process dies and is started again.                                  *)

LEMMA CrashOwned ==
    ASSUME Base, Base', Owned, Crash
    PROVE  Owned'
  <1>1. /\ ~Online' /\ UNCHANGED disk /\ disk_map \subseteq disk_map'
        /\ Idle
        /\ cut' = IF Online THEN cut \cup Kind ELSE cut
    BY CrashFacts
  <1>2. ASSUME Safe'
        PROVE  Safe /\ \A id \in Id : ~Freed(id)
    BY <1>1, <1>2, FreedKind DEF Safe
  <1>3. Stays
    BY <1>1, <1>2 DEF Stays, Live, Settled, Firm, Freed
  <1> QED
    BY <1>1, <1>3, KeepImage, IdleFacts DEF Owned, InHand

LEMMA RestartOwned ==
    ASSUME Base, Base', Owned, Restart
    PROVE  Owned'
  <1>1. phase = "down" /\ UNCHANGED <<disk, disk_map, pc, cut>>
    BY LoadFacts DEF Restart, opVars
  <1>2. pc = "idle" /\ pc' = "idle"
    BY <1>1 DEF Base, DeviceInv
  <1> QED
    BY <1>1, <1>2, SameImage DEF Writing, Removing, Safe, Freed, Created, Under

LEMMA OwnedStutter ==
    ASSUME Base, Base', Owned, UNCHANGED vars
    PROVE  Owned'
  <1> USE DEF Owned, vars, deviceVars, memoryVars, opVars
  <1>1. \A id \in Id : /\ Live(id)' <=> Live(id)
                       /\ Settled(id)' <=> Settled(id)
                       /\ Firm(id)' <=> Firm(id)
    BY DEF Live, Settled, Firm, Freed, Created, Under, Online, Writing, Removing, Shrinks, inode
  <1>2. Stays
    BY <1>1 DEF Stays, Safe
  <1>3. InHand'
    BY <1>1 DEF InHand, Safe, Online, Writing, inode
  <1> QED
    BY <1>2, <1>3, KeepImage

-----------------------------------------------------------------------------
LEMMA OwnedInit == Init => Owned
  <1> SUFFICES ASSUME Init PROVE Owned
    OBVIOUS
  <1>1. \A id \in Id, k \in Index : disk[InodeBlock][id].num[k] = 0
    <2>1. disk[InodeBlock] =
              [id \in Id |-> IF id = 0 THEN Root ELSE Inode(0, Unnamed, 0, NoBlocks)]
      BY BlockFacts DEF Init, Dev!Block
    <2> QED
      BY <2>1, InodeType, IndexFacts
  <1>2. pc = "idle"
    BY DEF Init
  <1> QED
    BY <1>1, <1>2 DEF Owned, Marked, Unshared, InHand, Within, Injective, Disjoint, Writing

LEMMA OwnedStep == Base /\ Base' /\ Owned /\ [Next]_vars => Owned'
  <1> SUFFICES ASSUME Base, Base', Owned, [Next]_vars PROVE Owned'
    OBVIOUS
  <1>1. ASSUME NEW p \in Path, create_file(p) PROVE Owned'
    BY <1>1, StartCreateOwned
  <1>2. ASSUME NEW p \in Path, NEW size \in Sizes, NEW v \in Payload,
               write_file_by_path(p, size, v)
        PROVE  Owned'
    BY <1>2, StartWriteOwned
  <1>3. ASSUME NEW p \in Path, read_file_by_path(p) PROVE Owned'
    BY <1>3, StartReadOwned
  <1>4. ASSUME NEW p \in Path, delete_file_by_path(p) PROVE Owned'
    BY <1>4, StartDeleteOwned
  <1>5. ASSUME Step PROVE Owned'
    BY <1>5, FinishCreateOwned, ReleaseTailOwned, OverwriteOwned, AppendOwned,
       ReleaseIndirectOwned, FinishWriteOwned, ReadBlockOwned, DeleteBlockOwned,
       FinishDeleteOwned DEF Step
  <1>6. ASSUME Crash PROVE Owned'
    BY <1>6, CrashOwned
  <1>7. ASSUME Restart PROVE Owned'
    BY <1>7, RestartOwned
  <1>8. ASSUME UNCHANGED vars PROVE Owned'
    BY <1>8, OwnedStutter
  <1> QED
    BY <1>1, <1>2, <1>3, <1>4, <1>5, <1>6, <1>7, <1>8 DEF Next, Command

LEMMA OwnedAlways == Spec => [](Base /\ Owned)
  <1>1. Init => Base /\ Owned
    BY BaseInit, OwnedInit
  <1>2. Base /\ Owned /\ [Next]_vars => Base' /\ Owned'
    BY BaseStep, OwnedStep
  <1> QED
    BY <1>1, <1>2, PTL DEF Spec

\* Two pointers a restart would load never name one block, for any history of
\* operations, crashes and lost images without an unfinished shrink, deletion
\* or creation.
THEOREM BlocksUnshared == Spec => []NoSharing
  <1>1. Base /\ Owned => NoSharing
    <2> SUFFICES ASSUME Base, Owned, Safe, pc # "create",
                        NEW a \in Id, Live(a), NEW b \in Id, Live(b),
                        NEW k \in Index, NEW l \in Index,
                        disk[InodeBlock][a].num[k] # 0,
                        disk[InodeBlock][a].num[k] = disk[InodeBlock][b].num[l]
                 PROVE  a = b /\ k = l
      BY DEF NoSharing, Safe
    <2>1. Settled(a) /\ Settled(b)
      BY DEF Settled, Created
    <2> QED
      BY <2>1 DEF Owned, Unshared, Injective, Disjoint
  <1> QED
    BY <1>1, OwnedAlways, PTL

\* The blocks of the inodes a restart would load are marked in the map, so the
\* allocator hands none of them out.
THEOREM BlocksMarked == Spec => []NoDangling
  <1>1. Base /\ Owned => NoDangling
    <2> SUFFICES ASSUME Base, Owned, cut \cup Kind \subseteq {"write"},
                        NEW id \in Id, Live(id), NEW k \in Index,
                        disk[InodeBlock][id].num[k] # 0
                 PROVE  disk[InodeBlock][id].num[k] \in disk_map
      BY DEF NoDangling
    <2>1. Safe /\ Firm(id)
      BY FreedKind DEF Safe, Firm
    <2> QED
      BY <2>1 DEF Owned, Marked, Within
  <1> QED
    BY <1>1, OwnedAlways, PTL
=============================================================================
