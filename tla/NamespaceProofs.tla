-------------------------- MODULE NamespaceProofs --------------------------
(***************************************************************************)
(* Proofs about Namespace, for every number of inodes, every set of paths  *)
(* and whatever names occur in others: which inode a slot may hold, what   *)
(* rmdir may take away, that what was stored survives a restart, that a    *)
(* path names one thing, and that the program starts in a directory.       *)
(***************************************************************************)
EXTENDS Namespace, WellFoundedInduction, TLAPS

-----------------------------------------------------------------------------
(* Operators.                                                              *)

\* The first of a set of ids is in it and no larger than the others: the
\* linear searches of the code end at the lowest match.
LEMMA FirstFacts ==
    ASSUME NEW S \in SUBSET Nat, S # {}
    PROVE  First(S) \in S /\ \A k \in S : First(S) <= k
  <1> DEFINE R == OpToRel(<, Nat)
  <1>1. IsWellFoundedOn(R, Nat)
    BY NatLessThanWellFounded
  <1>2. \A x, y \in Nat : <<y, x>> \in R <=> y < x
    BY DEF OpToRel
  <1> HIDE DEF R
  <1>3. PICK m \in S : \A k \in S : <<k, m>> \notin R
    BY <1>1, WFMin
  <1>4. ASSUME NEW k \in S
        PROVE  m <= k
    <2>1. m \in Nat /\ k \in Nat
      OBVIOUS
    <2>2. <<k, m>> \notin R
      BY <1>3
    <2>3. ~(k < m)
      BY <1>2, <2>1, <2>2
    <2> QED
      BY <2>1, <2>3
  <1> QED
    BY <1>4 DEF First

LEMMA IdFacts ==
    /\ Id \subseteq Nat
    /\ 0 \in Id
    /\ -1 \notin Id
  BY NamespaceAssumption DEF Id

LEMMA NameFacts ==
    /\ Root \in Path
    /\ Unnamed \notin Path
    /\ Removed \notin Path
    /\ Root # Unnamed
    /\ Root # Removed
  BY NamespaceAssumption

LEMMA FirstId ==
    ASSUME NEW S \in SUBSET Id, S # {}
    PROVE  First(S) \in S /\ First(S) \in Id /\ (0 \in S => First(S) = 0)
  <1>1. First(S) \in S /\ \A k \in S : First(S) <= k
    BY FirstFacts, IdFacts
  <1>2. First(S) \in Nat
    BY <1>1, IdFacts
  <1>3. 0 \in S => First(S) <= 0
    BY <1>1
  <1> QED
    BY <1>1, <1>2, <1>3

InodeRecord == [inode_id : Id \cup {-1}, filename : Path \cup {Unnamed, Removed},
                file_type : 0 .. 2]

LEMMA InodeType ==
    ASSUME NEW id \in Id \cup {-1}, NEW name \in Path \cup {Unnamed, Removed},
           NEW type \in 0 .. 2
    PROVE  /\ Inode(id, name, type) \in InodeRecord
           /\ Inode(id, name, type).inode_id = id
           /\ Inode(id, name, type).filename = name
           /\ Inode(id, name, type).file_type = type
  BY DEF Inode, InodeRecord

LEMMA TypeFacts ==
    TypeOK <=> /\ disk_bitmap \subseteq Id
               /\ disk_inode \in [Id -> InodeRecord]
               /\ up \in BOOLEAN
               /\ online \in BOOLEAN
               /\ superblock_inode \subseteq Id
               /\ inode_entries \in [Id -> InodeRecord]
               /\ cur_path \in Path \cup {Unnamed, Removed}
               /\ kept \in [Id -> Path \cup {Unnamed}]
               /\ accidents \subseteq {"cut", "overflow", "root"}
  BY DEF TypeOK, InodeRecord

LEMMA EmptySlotFacts ==
    /\ EmptySlot \in InodeRecord /\ EmptySlot.inode_id = -1
    /\ EmptySlot.filename = Unnamed /\ EmptySlot.file_type = 0
    /\ DeadSlot \in InodeRecord /\ DeadSlot.inode_id = -1
    /\ DeadSlot.filename = Removed /\ DeadSlot.file_type = 0
  BY DEF Inode, InodeRecord, EmptySlot, DeadSlot

\* A slot that is loaded holds the inode of its own number, or none.
LEMMA LoadedFacts ==
    ASSUME TypeOK
    PROVE  /\ Loaded \in [Id -> InodeRecord]
           /\ \A id \in Id : Loaded[id] = IF Live(id) THEN disk_inode[id] ELSE EmptySlot
           /\ \A id \in Id : Loaded[id].inode_id = IF Live(id) THEN id ELSE -1
  BY EmptySlotFacts, TypeFacts DEF Loaded, Live

-----------------------------------------------------------------------------
(* Types, and the inodes of the table.                                     *)

Base == TypeOK /\ TableOwnsInodes

\* Saving a bitmap keeps the types.
LEMMA SaveBitmapType ==
    ASSUME TypeOK, NEW map \in SUBSET Id, SaveBitmap(map)
    PROVE  superblock_inode' = map /\ superblock_inode' \subseteq Id /\ disk_bitmap' \subseteq Id
  BY TypeFacts DEF SaveBitmap

\* What create_inode does: an id whose bit was clear is marked, and the inode
\* reaches the image if it can be opened.
LEMMA CreateFacts ==
    ASSUME TypeOK, FreeIds # {}, NEW name \in Path, NEW type \in 0 .. 2,
           create_inode(name, type)
    PROVE  /\ First(FreeIds) \in Id
           /\ First(FreeIds) \notin superblock_inode
           /\ superblock_inode' = superblock_inode \cup {First(FreeIds)}
           /\ online => /\ disk_bitmap' = superblock_inode'
                        /\ disk_inode' = [disk_inode EXCEPT ![First(FreeIds)] =
                                              Inode(First(FreeIds), name, type)]
                        /\ kept' = [kept EXCEPT ![First(FreeIds)] = name]
           /\ ~online => UNCHANGED <<disk_bitmap, disk_inode, kept>>
           /\ superblock_inode' \subseteq Id
           /\ disk_bitmap' \subseteq Id
           /\ disk_inode' \in [Id -> InodeRecord]
           /\ kept' \in [Id -> Path \cup {Unnamed}]
  <1> DEFINE id == First(FreeIds)
  <1>1. id \in Id /\ id \notin superblock_inode
    BY FirstId DEF FreeIds
  <1> HIDE DEF id
  <1>2. superblock_inode' = superblock_inode \cup {id}
    BY DEF create_inode, SaveBitmap, id
  <1>3. CASE online
    <2>1. /\ disk_bitmap' = superblock_inode'
          /\ disk_inode' = [disk_inode EXCEPT ![id] = Inode(id, name, type)]
          /\ kept' = [kept EXCEPT ![id] = name]
      BY <1>2, <1>3 DEF create_inode, SaveBitmap, id
    <2>2. Inode(id, name, type) \in InodeRecord
      BY <1>1, InodeType
    <2> QED
      BY <1>1, <1>2, <1>3, <2>1, <2>2, TypeFacts DEF id
  <1>4. CASE ~online
    <2>1. UNCHANGED <<disk_bitmap, disk_inode, kept>>
      BY <1>4 DEF create_inode, SaveBitmap
    <2> QED
      BY <1>1, <1>2, <1>4, <2>1, TypeFacts DEF id
  <1> QED
    BY <1>3, <1>4

\* Forgetting an inode keeps the types.
LEMMA ForgetFacts ==
    ASSUME TypeOK, NEW id \in Id \cup {-1}, NEW p \in Path, Forget(id, p)
    PROVE  /\ superblock_inode' = superblock_inode \ {id}
           /\ online => /\ disk_bitmap' = superblock_inode'
                        /\ kept' = [k \in Id |-> IF k = id /\ kept[k] = p THEN Unnamed
                                                 ELSE kept[k]]
           /\ ~online => UNCHANGED <<disk_bitmap, kept>>
           /\ superblock_inode' \subseteq Id
           /\ disk_bitmap' \subseteq Id
           /\ kept' \in [Id -> Path \cup {Unnamed}]
  <1>1. superblock_inode' = superblock_inode \ {id}
    BY DEF Forget, SaveBitmap
  <1>2. CASE online
    BY <1>1, <1>2, TypeFacts DEF Forget, SaveBitmap
  <1>3. CASE ~online
    BY <1>1, <1>3, TypeFacts DEF Forget, SaveBitmap
  <1> QED
    BY <1>2, <1>3

\* An inode that was free goes into a slot.
LEMMA SlotTaken ==
    ASSUME TypeOK, TableOwnsInodes, NEW s \in Id, NEW rec \in InodeRecord,
           rec.inode_id \in Id, rec.inode_id \notin superblock_inode,
           superblock_inode' = superblock_inode \cup {rec.inode_id},
           inode_entries' = [inode_entries EXCEPT ![s] = rec]
    PROVE  inode_entries' \in [Id -> InodeRecord] /\ TableOwnsInodes'
  <1>1. inode_entries' \in [Id -> InodeRecord]
    BY TypeFacts
  <1>2. \A t \in Id : inode_entries'[t] = IF t = s THEN rec ELSE inode_entries[t]
    BY TypeFacts
  <1>3. rec.inode_id # -1
    BY IdFacts
  <1> QED
    BY <1>1, <1>2, <1>3 DEF TableOwnsInodes

\* A slot loses its inode, and the inode its bit.
LEMMA SlotFreed ==
    ASSUME TypeOK, TableOwnsInodes, NEW s \in Id, NEW rec \in InodeRecord,
           rec.inode_id = -1,
           superblock_inode' = superblock_inode \ {inode_entries[s].inode_id},
           inode_entries' = [inode_entries EXCEPT ![s] = rec]
    PROVE  inode_entries' \in [Id -> InodeRecord] /\ TableOwnsInodes'
  <1>1. inode_entries' \in [Id -> InodeRecord]
    BY TypeFacts
  <1>2. \A t \in Id : inode_entries'[t] = IF t = s THEN rec ELSE inode_entries[t]
    BY TypeFacts
  <1> QED
    BY <1>1, <1>2 DEF TableOwnsInodes

\* What touch does to the table.
LEMMA TouchFacts ==
    ASSUME TypeOK, NEW p \in Path, touch(p)
    PROVE  /\ up /\ Files(p) = {} /\ FreeIds # {} /\ create_inode(p, 1)
           /\ FreeSlots # {} =>
                 /\ First(FreeSlots) \in FreeSlots
                 /\ First(FreeSlots) \in Id
                 /\ inode_entries' = [inode_entries EXCEPT ![First(FreeSlots)] =
                                          Inode(First(FreeIds), p, 1)]
                 /\ accidents' = accidents
           /\ FreeSlots = {} => /\ inode_entries' = inode_entries
                                /\ accidents' = accidents \cup {"overflow"}
           /\ UNCHANGED <<up, online, cur_path>>
  <1>1. FreeSlots \subseteq Id
    BY DEF FreeSlots, UnnamedSlots
  <1>2. FreeSlots # {} => First(FreeSlots) \in FreeSlots /\ First(FreeSlots) \in Id
    BY <1>1, FirstId
  <1> QED
    BY <1>2 DEF touch

LEMMA TouchBase ==
    ASSUME Base, NEW p \in Path, touch(p)
    PROVE  Base'
  <1> USE DEF Base
  <1>1. /\ up /\ Files(p) = {} /\ FreeIds # {} /\ create_inode(p, 1)
        /\ UNCHANGED <<up, online, cur_path>>
    BY TouchFacts
  <1>2. /\ First(FreeIds) \in Id
        /\ First(FreeIds) \notin superblock_inode
        /\ superblock_inode' = superblock_inode \cup {First(FreeIds)}
        /\ superblock_inode' \subseteq Id
        /\ disk_bitmap' \subseteq Id
        /\ disk_inode' \in [Id -> InodeRecord]
        /\ kept' \in [Id -> Path \cup {Unnamed}]
    BY <1>1, CreateFacts
  <1>3. CASE FreeSlots # {}
    <2> DEFINE rec == Inode(First(FreeIds), p, 1)
    <2>1. rec \in InodeRecord /\ rec.inode_id = First(FreeIds)
      BY <1>2, InodeType
    <2>2. /\ First(FreeSlots) \in Id
          /\ inode_entries' = [inode_entries EXCEPT ![First(FreeSlots)] = rec]
          /\ accidents' = accidents
      BY <1>3, TouchFacts
    <2> HIDE DEF rec
    <2>3. inode_entries' \in [Id -> InodeRecord] /\ TableOwnsInodes'
      BY <1>2, <2>1, <2>2, SlotTaken
    <2> QED
      BY <1>1, <1>2, <2>2, <2>3, TypeFacts DEF TypeOK, InodeRecord
  <1>4. CASE FreeSlots = {}
    <2>1. inode_entries' = inode_entries /\ accidents' = accidents \cup {"overflow"}
      BY <1>4, TouchFacts
    <2>2. TableOwnsInodes'
      BY <1>2, <2>1 DEF TableOwnsInodes
    <2> QED
      BY <1>1, <1>2, <2>1, <2>2, TypeFacts DEF TypeOK, InodeRecord
  <1> QED
    BY <1>3, <1>4

\* What mkdir does to the table, with a free inode and without.
LEMMA MkdirFacts ==
    ASSUME TypeOK, NEW p \in Path, mkdir(p)
    PROVE  /\ up /\ Dirs(p) = {}
           /\ First(UnnamedSlots) \in Id
           /\ inode_entries[First(UnnamedSlots)].filename = Unnamed
           /\ FreeIds # {} =>
                 /\ create_inode(p, 2)
                 /\ inode_entries' = [inode_entries EXCEPT ![First(UnnamedSlots)] =
                                          Inode(First(FreeIds), p, 2)]
           /\ FreeIds = {} =>
                 /\ inode_entries' = [s \in Id |->
                        IF s \in UnnamedSlots THEN Inode(inode_entries[s].inode_id, p, 2)
                        ELSE inode_entries[s]]
                 /\ UNCHANGED <<disk_bitmap, disk_inode, superblock_inode, kept>>
           /\ UNCHANGED <<up, online, cur_path, accidents>>
  <1>1. UnnamedSlots \subseteq Id /\ UnnamedSlots # {}
    BY DEF UnnamedSlots, mkdir
  <1>2. First(UnnamedSlots) \in UnnamedSlots /\ First(UnnamedSlots) \in Id
    BY <1>1, FirstId
  <1>3. inode_entries[First(UnnamedSlots)].filename = Unnamed
    BY <1>2 DEF UnnamedSlots
  <1> QED
    BY <1>2, <1>3 DEF mkdir

LEMMA MkdirBase ==
    ASSUME Base, NEW p \in Path, mkdir(p)
    PROVE  Base'
  <1> USE DEF Base
  <1>1. /\ up /\ First(UnnamedSlots) \in Id
        /\ UNCHANGED <<up, online, cur_path, accidents>>
    BY MkdirFacts
  <1>2. CASE FreeIds # {}
    <2> DEFINE rec == Inode(First(FreeIds), p, 2)
    <2>1. /\ create_inode(p, 2)
          /\ inode_entries' = [inode_entries EXCEPT ![First(UnnamedSlots)] = rec]
      BY <1>2, MkdirFacts
    <2>2. /\ First(FreeIds) \in Id
          /\ First(FreeIds) \notin superblock_inode
          /\ superblock_inode' = superblock_inode \cup {First(FreeIds)}
          /\ superblock_inode' \subseteq Id
          /\ disk_bitmap' \subseteq Id
          /\ disk_inode' \in [Id -> InodeRecord]
          /\ kept' \in [Id -> Path \cup {Unnamed}]
      BY <1>2, <2>1, CreateFacts
    <2>3. rec \in InodeRecord /\ rec.inode_id = First(FreeIds)
      BY <2>2, InodeType
    <2> HIDE DEF rec
    <2>4. inode_entries' \in [Id -> InodeRecord] /\ TableOwnsInodes'
      BY <1>1, <2>1, <2>2, <2>3, SlotTaken
    <2> QED
      BY <1>1, <2>2, <2>4, TypeFacts DEF TypeOK, InodeRecord
  <1>3. CASE FreeIds = {}
    <2>1. /\ inode_entries' = [s \in Id |->
                 IF s \in UnnamedSlots THEN Inode(inode_entries[s].inode_id, p, 2)
                 ELSE inode_entries[s]]
          /\ UNCHANGED <<disk_bitmap, disk_inode, superblock_inode, kept>>
      BY <1>3, MkdirFacts
    <2>2. ASSUME NEW s \in Id
          PROVE  /\ inode_entries'[s] \in InodeRecord
                 /\ inode_entries'[s].inode_id = inode_entries[s].inode_id
      <3>1. inode_entries[s] \in InodeRecord /\ inode_entries[s].inode_id \in Id \cup {-1}
        BY TypeFacts DEF InodeRecord
      <3>2. /\ Inode(inode_entries[s].inode_id, p, 2) \in InodeRecord
            /\ Inode(inode_entries[s].inode_id, p, 2).inode_id = inode_entries[s].inode_id
        BY <3>1, InodeType
      <3> QED
        BY <2>1, <3>1, <3>2
    <2>3. inode_entries' \in [Id -> InodeRecord]
      BY <2>1, <2>2
    <2>4. TableOwnsInodes'
      BY <2>1, <2>2 DEF TableOwnsInodes
    <2> QED
      BY <1>1, <2>1, <2>3, <2>4, TypeFacts DEF TypeOK, InodeRecord
  <1> QED
    BY <1>2, <1>3

\* rm empties the very slot it found, though it looks it up again by its id.
LEMMA RmFacts ==
    ASSUME TypeOK, TableOwnsInodes, NEW p \in Path, rm(p)
    PROVE  /\ up /\ p # Root
           /\ First(Files(p)) \in Id
           /\ First(Files(p)) \in Files(p)
           /\ inode_entries[First(Files(p))].inode_id \in Id
           /\ Forget(inode_entries[First(Files(p))].inode_id, p)
           /\ inode_entries' = [inode_entries EXCEPT ![First(Files(p))] = DeadSlot]
           /\ UNCHANGED <<disk_inode, up, online, cur_path, accidents>>
  <1> DEFINE f  == First(Files(p))
             id == inode_entries[f].inode_id
             S  == {t \in Id : inode_entries[t].inode_id = id}
  <1>1. Files(p) \subseteq Id /\ Files(p) # {}
    BY DEF Files, rm
  <1>2. f \in Files(p) /\ f \in Id
    BY <1>1, FirstId
  <1>3. id # -1
    BY <1>2 DEF Files
  <1>4. id \in Id
    BY <1>2, <1>3, TypeFacts DEF InodeRecord
  <1>5. First(S) = f
    <2>1. S \subseteq Id /\ f \in S
      BY <1>2
    <2>2. First(S) \in S /\ First(S) \in Id
      BY <2>1, FirstId
    <2>3. inode_entries[First(S)].inode_id = inode_entries[f].inode_id
      BY <2>2
    <2> QED
      BY <1>2, <1>3, <2>2, <2>3 DEF TableOwnsInodes
  <1>6. Forget(id, p) /\ inode_entries' = [inode_entries EXCEPT ![First(S)] = DeadSlot]
    BY DEF rm
  <1> QED
    BY <1>2, <1>4, <1>5, <1>6 DEF rm

LEMMA RmBase ==
    ASSUME Base, NEW p \in Path, rm(p)
    PROVE  Base'
  <1> USE DEF Base
  <1> DEFINE f == First(Files(p))
  <1>1. /\ f \in Id
        /\ inode_entries[f].inode_id \in Id
        /\ Forget(inode_entries[f].inode_id, p)
        /\ inode_entries' = [inode_entries EXCEPT ![f] = DeadSlot]
        /\ UNCHANGED <<disk_inode, up, online, cur_path, accidents>>
    BY RmFacts
  <1> HIDE DEF f
  <1>2. /\ superblock_inode' = superblock_inode \ {inode_entries[f].inode_id}
        /\ superblock_inode' \subseteq Id
        /\ disk_bitmap' \subseteq Id
        /\ kept' \in [Id -> Path \cup {Unnamed}]
    BY <1>1, ForgetFacts
  <1>3. inode_entries' \in [Id -> InodeRecord] /\ TableOwnsInodes'
    BY <1>1, <1>2, EmptySlotFacts, SlotFreed
  <1> QED
    BY <1>1, <1>2, <1>3, TypeFacts DEF TypeOK, InodeRecord

LEMMA RmdirFacts ==
    ASSUME TypeOK, NEW p \in Path, rmdir(p)
    PROVE  /\ up /\ list_dir(p) = {}
           /\ First(Dirs(p)) \in Id
           /\ First(Dirs(p)) \in Dirs(p)
           /\ inode_entries[First(Dirs(p))].inode_id \in Id \cup {-1}
           /\ Forget(inode_entries[First(Dirs(p))].inode_id, p)
           /\ inode_entries' = [inode_entries EXCEPT ![First(Dirs(p))] = EmptySlot]
           /\ accidents' = IF p = Root THEN accidents \cup {"root"} ELSE accidents
           /\ UNCHANGED <<disk_inode, up, online, cur_path>>
  <1>1. Dirs(p) \subseteq Id /\ Dirs(p) # {}
    BY DEF Dirs, rmdir
  <1>2. First(Dirs(p)) \in Dirs(p) /\ First(Dirs(p)) \in Id
    BY <1>1, FirstId
  <1>3. inode_entries[First(Dirs(p))].inode_id \in Id \cup {-1}
    BY <1>2, TypeFacts DEF InodeRecord
  <1> QED
    BY <1>2, <1>3 DEF rmdir

LEMMA RmdirBase ==
    ASSUME Base, NEW p \in Path, rmdir(p)
    PROVE  Base'
  <1> USE DEF Base
  <1> DEFINE d == First(Dirs(p))
  <1>1. /\ d \in Id
        /\ inode_entries[d].inode_id \in Id \cup {-1}
        /\ Forget(inode_entries[d].inode_id, p)
        /\ inode_entries' = [inode_entries EXCEPT ![d] = EmptySlot]
        /\ accidents' = IF p = Root THEN accidents \cup {"root"} ELSE accidents
        /\ UNCHANGED <<disk_inode, up, online, cur_path>>
    BY RmdirFacts
  <1> HIDE DEF d
  <1>2. /\ superblock_inode' = superblock_inode \ {inode_entries[d].inode_id}
        /\ superblock_inode' \subseteq Id
        /\ disk_bitmap' \subseteq Id
        /\ kept' \in [Id -> Path \cup {Unnamed}]
    BY <1>1, ForgetFacts
  <1>3. inode_entries' \in [Id -> InodeRecord] /\ TableOwnsInodes'
    BY <1>1, <1>2, EmptySlotFacts, SlotFreed
  <1> QED
    BY <1>1, <1>2, <1>3, TypeFacts DEF TypeOK, InodeRecord

\* The table of a process that is gone is empty.
LEMMA GoneBase ==
    ASSUME TypeOK, ProcessGone, disk_bitmap' \subseteq Id,
           accidents' \subseteq {"cut", "overflow", "root"}
    PROVE  Base'
  <1>1. /\ inode_entries' = [s \in Id |-> EmptySlot]
        /\ superblock_inode' = {}
    BY DEF ProcessGone
  <1>2. inode_entries' \in [Id -> InodeRecord]
    BY <1>1, EmptySlotFacts
  <1>3. TypeOK'
    BY <1>1, <1>2, TypeFacts, NameFacts DEF ProcessGone, TypeOK, InodeRecord
  <1>4. TableOwnsInodes'
    BY <1>1, EmptySlotFacts DEF TableOwnsInodes
  <1> QED
    BY <1>3, <1>4 DEF Base

LEMMA FreeOnDiskFacts ==
    ASSUME FreeOnDisk # {}
    PROVE  /\ First(FreeOnDisk) \in Id
           /\ First(FreeOnDisk) \notin disk_bitmap
           /\ 0 \in disk_bitmap \cup {First(FreeOnDisk)}
  <1>1. FreeOnDisk \subseteq Id
    BY DEF FreeOnDisk
  <1>2. 0 \in FreeOnDisk \/ 0 \in disk_bitmap
    BY IdFacts DEF FreeOnDisk
  <1> QED
    BY <1>1, <1>2, FirstId DEF FreeOnDisk

LEMMA MountTreeBase ==
    ASSUME Base, MountTree
    PROVE  Base'
  <1> USE DEF Base
  <1>1. /\ superblock_inode' = disk_bitmap
        /\ inode_entries' = Loaded
        /\ cur_path' = inode_entries'[0].filename
        /\ up' = TRUE /\ online' = TRUE
        /\ UNCHANGED <<disk_bitmap, disk_inode, kept, accidents>>
    BY DEF MountTree, Mount
  <1>2. Loaded \in [Id -> InodeRecord]
    BY LoadedFacts
  <1>3. cur_path' \in Path \cup {Unnamed, Removed}
    BY <1>1, <1>2, IdFacts DEF InodeRecord
  <1>4. TypeOK'
    BY <1>1, <1>2, <1>3, TypeFacts DEF TypeOK, InodeRecord
  <1>5. \A s \in Id : /\ inode_entries'[s].inode_id \in {s, -1}
                      /\ inode_entries'[s].inode_id \in superblock_inode' \cup {-1}
    BY <1>1, LoadedFacts DEF Live
  <1>6. TableOwnsInodes'
    BY <1>5, IdFacts DEF TableOwnsInodes
  <1> QED
    BY <1>4, <1>6

\* What mounting does when the root is made: the id the slot is given is not
\* always the one that was taken.
LEMMA MakeRootFacts ==
    ASSUME TypeOK, MountAndMakeRoot
    PROVE  /\ up' = TRUE /\ online' = TRUE /\ accidents' = accidents
           /\ cur_path' = inode_entries'[0].filename
           /\ FreeOnDisk # {} =>
                 /\ superblock_inode' = disk_bitmap \cup {First(FreeOnDisk)}
                 /\ disk_bitmap' = superblock_inode'
                 /\ disk_inode' = [disk_inode EXCEPT ![First(FreeOnDisk)] =
                                       Inode(First(FreeOnDisk), Root, 2)]
                 /\ kept' = [kept EXCEPT ![First(FreeOnDisk)] = Root]
                 /\ inode_entries' = [Loaded EXCEPT ![0] = Inode(0, Root, 2)]
           /\ FreeOnDisk = {} =>
                 /\ superblock_inode' = disk_bitmap
                 /\ inode_entries' = [Loaded EXCEPT ![0] = Inode(-1, Root, 2)]
                 /\ UNCHANGED <<disk_bitmap, disk_inode, kept>>
  BY DEF MountAndMakeRoot, Mount

LEMMA MakeRootBase ==
    ASSUME Base, MountAndMakeRoot
    PROVE  Base'
  <1> USE DEF Base
  <1>1. /\ up' = TRUE /\ online' = TRUE /\ accidents' = accidents
        /\ cur_path' = inode_entries'[0].filename
    BY MakeRootFacts
  <1>2. PICK rec \in InodeRecord :
            /\ inode_entries' = [Loaded EXCEPT ![0] = rec]
            /\ rec.filename = Root
            /\ rec.inode_id \in {0, -1}
            /\ rec.inode_id = 0 => 0 \in superblock_inode'
    <2>1. CASE FreeOnDisk # {}
      <3>1. /\ Inode(0, Root, 2) \in InodeRecord
            /\ Inode(0, Root, 2).filename = Root
            /\ Inode(0, Root, 2).inode_id = 0
        BY InodeType, IdFacts, NameFacts
      <3> QED
        BY <2>1, <3>1, MakeRootFacts, FreeOnDiskFacts
    <2>2. CASE FreeOnDisk = {}
      <3>1. /\ Inode(-1, Root, 2) \in InodeRecord
            /\ Inode(-1, Root, 2).filename = Root
            /\ Inode(-1, Root, 2).inode_id = -1
        BY InodeType, NameFacts
      <3> QED
        BY <2>2, <3>1, MakeRootFacts
    <2> QED
      BY <2>1, <2>2
  <1>3. /\ inode_entries' \in [Id -> InodeRecord]
        /\ \A s \in Id : inode_entries'[s] = IF s = 0 THEN rec ELSE Loaded[s]
    BY <1>2, LoadedFacts
  <1>4. /\ disk_bitmap \subseteq superblock_inode'
        /\ superblock_inode' \subseteq Id
        /\ disk_bitmap' \subseteq Id
        /\ disk_inode' \in [Id -> InodeRecord]
        /\ kept' \in [Id -> Path \cup {Unnamed}]
    <2>1. CASE FreeOnDisk # {}
      <3>1. First(FreeOnDisk) \in Id /\ Inode(First(FreeOnDisk), Root, 2) \in InodeRecord
        BY <2>1, FreeOnDiskFacts, InodeType, NameFacts
      <3> QED
        BY <2>1, <3>1, MakeRootFacts, NameFacts, TypeFacts
    <2>2. CASE FreeOnDisk = {}
      BY <2>2, MakeRootFacts, TypeFacts
    <2> QED
      BY <2>1, <2>2
  <1>5. cur_path' \in Path
    BY <1>1, <1>2, <1>3, IdFacts, NameFacts
  <1>6. TypeOK'
    BY <1>1, <1>3, <1>4, <1>5, TypeFacts DEF TypeOK, InodeRecord
  <1>7. ASSUME NEW s \in Id
        PROVE  /\ inode_entries'[s].inode_id \in {s, -1}
               /\ inode_entries'[s].inode_id \in superblock_inode' \cup {-1}
    <2>1. CASE s = 0
      BY <1>2, <1>3, <2>1
    <2>2. CASE s # 0
      BY <1>3, <1>4, <2>2, LoadedFacts DEF Live
    <2> QED
      BY <2>1, <2>2
  <1>8. TableOwnsInodes'
    BY <1>7, IdFacts DEF TableOwnsInodes
  <1> QED
    BY <1>6, <1>8

LEMMA BaseStep ==
    ASSUME Base, [Next]_vars
    PROVE  Base'
  <1>1. CASE \E p \in Path : touch(p)
    BY <1>1, TouchBase
  <1>2. CASE \E p \in Path : mkdir(p)
    BY <1>2, MkdirBase
  <1>3. CASE \E p \in Path : cd(p)
    BY <1>3 DEF Base, TypeOK, TableOwnsInodes, cd
  <1>4. CASE \E p \in Path : rm(p)
    BY <1>4, RmBase
  <1>5. CASE \E p \in Path : rmdir(p)
    BY <1>5, RmdirBase
  <1>6. CASE CdHome
    BY <1>6, NameFacts DEF Base, TypeOK, TableOwnsInodes, CdHome
  <1>7. CASE GoOffline
    BY <1>7 DEF Base, TypeOK, TableOwnsInodes, GoOffline
  <1>8. CASE Die
    <2>1. TypeOK /\ ProcessGone /\ disk_bitmap' = disk_bitmap /\ accidents' = accidents
      BY <1>8 DEF Base, Die
    <2> QED
      BY <2>1, GoneBase, TypeFacts
  <1>9. CASE DieInCreate
    <2>1. /\ TypeOK /\ ProcessGone /\ FreeIds # {}
          /\ disk_bitmap' = superblock_inode \cup {First(FreeIds)}
          /\ accidents' = accidents \cup {"cut"}
      BY <1>9 DEF Base, DieInCreate
    <2>2. FreeIds \subseteq Id
      BY DEF FreeIds
    <2>3. First(FreeIds) \in Id
      BY <2>1, <2>2, FirstId
    <2> QED
      BY <2>1, <2>3, GoneBase, TypeFacts
  <1>10. CASE MountTree
    BY <1>10, MountTreeBase
  <1>11. CASE MountAndMakeRoot
    BY <1>11, MakeRootBase
  <1>12. CASE DieInMount
    <2>1. First(FreeOnDisk) \in Id
      BY <1>12, FreeOnDiskFacts DEF DieInMount
    <2> QED
      BY <1>12, <2>1 DEF Base, TypeOK, TableOwnsInodes, DieInMount
  <1>13. CASE UNCHANGED vars
    BY <1>13 DEF Base, TypeOK, TableOwnsInodes, vars
  <1> QED
    BY <1>1, <1>2, <1>3, <1>4, <1>5, <1>6, <1>7, <1>8, <1>9, <1>10, <1>11, <1>12, <1>13
       DEF Next, Command

LEMMA BaseInit ==
    ASSUME Init
    PROVE  Base
  <1>1. Inode(0, Unnamed, 0) \in InodeRecord
    BY InodeType, IdFacts
  <1>2. TypeOK
    BY <1>1, EmptySlotFacts, NameFacts, TypeFacts DEF Init
  <1>3. TableOwnsInodes
    BY EmptySlotFacts DEF Init, TableOwnsInodes
  <1> QED
    BY <1>2, <1>3 DEF Base

LEMMA BaseAlways == Spec => []Base
  BY BaseInit, BaseStep, PTL DEF Spec

\* Every slot, inode and path the program works with is of its type.
THEOREM TypeCorrect == Spec => []TypeOK
  BY BaseAlways, PTL DEF Base

\* No two slots ever hold the same inode, and the bit of every inode in the
\* table is set, whatever happened before (create_inode, init_dir).
THEOREM InodesOwned == Spec => []TableOwnsInodes
  BY BaseAlways, PTL DEF Base

-----------------------------------------------------------------------------
(* What rmdir takes away.                                                  *)

\* Everything below a directory is listed.
LEMMA BelowIsListed ==
    ASSUME NEW p, list_dir(p) = {}
    PROVE  Below(p) = {}
  BY DEF list_dir

\* A slot that names a directory keeps it under every step but its rmdir.
LEMMA DirStays ==
    ASSUME Base, [Next]_vars, NEW p \in Path, up, up', NEW d \in Dirs(p), ~rmdir(p)
    PROVE  d \in Dirs(p)'
  <1> USE DEF Base
  <1>1. /\ d \in Id /\ inode_entries[d].filename = p /\ inode_entries[d].file_type = 2
    BY DEF Dirs
  <1>2. p # Unnamed /\ p # Removed
    BY NameFacts
  <1>3. SUFFICES inode_entries'[d] = inode_entries[d]
    BY <1>1 DEF Dirs
  <1>4. CASE \E q \in Path : touch(q)
    <2>1. PICK q \in Path : touch(q)
      BY <1>4
    <2>2. d \notin FreeSlots
      BY <1>1, <1>2 DEF FreeSlots, UnnamedSlots
    <2> QED
      BY <1>1, <2>1, <2>2, TouchFacts, TypeFacts
  <1>5. CASE \E q \in Path : mkdir(q)
    <2>1. PICK q \in Path : mkdir(q)
      BY <1>5
    <2>2. d \notin UnnamedSlots /\ d # First(UnnamedSlots)
      BY <1>1, <1>2, <2>1, MkdirFacts DEF UnnamedSlots
    <2> QED
      BY <1>1, <2>1, <2>2, MkdirFacts, TypeFacts
  <1>6. CASE \E q \in Path : rm(q)
    <2>1. PICK q \in Path : rm(q)
      BY <1>6
    <2>2. d # First(Files(q))
      BY <1>1, <2>1, RmFacts DEF Files
    <2> QED
      BY <1>1, <2>1, <2>2, RmFacts, TypeFacts
  <1>7. CASE \E q \in Path : rmdir(q)
    <2>1. PICK q \in Path : rmdir(q)
      BY <1>7
    <2>2. d # First(Dirs(q))
      BY <1>1, <2>1, RmdirFacts DEF Dirs
    <2> QED
      BY <1>1, <2>1, <2>2, RmdirFacts, TypeFacts
  <1>8. CASE \/ \E q \in Path : cd(q)
             \/ CdHome \/ GoOffline \/ UNCHANGED vars
    BY <1>8 DEF cd, CdHome, GoOffline, vars
  <1>9. ~Die /\ ~DieInCreate /\ ~MountTree /\ ~MountAndMakeRoot /\ ~DieInMount
    BY DEF Die, DieInCreate, ProcessGone, MountTree, MountAndMakeRoot, Mount, DieInMount
  <1> QED
    BY <1>4, <1>5, <1>6, <1>7, <1>8, <1>9 DEF Next, Command

\* rmdir never takes away a directory that has something below it (delete_dir).
THEOREM ChildrenKept == Spec => RmdirKeepsChildren
  <1>1. ASSUME Base, [Next]_vars
        PROVE  [\A p \in Path : up /\ up' /\ Dirs(p) # {} /\ Dirs(p)' = {}
                                => Below(p) = {}]_vars
    <2> SUFFICES ASSUME NEW p \in Path, up, up', Dirs(p) # {}, Dirs(p)' = {}
                 PROVE  Below(p) = {}
      OBVIOUS
    <2>1. PICK d : d \in Dirs(p)
      OBVIOUS
    <2>2. rmdir(p)
      BY <1>1, <2>1, DirStays
    <2>3. list_dir(p) = {}
      BY <2>2 DEF rmdir
    <2> QED
      BY <2>3, BelowIsListed
  <1> QED
    BY <1>1, BaseAlways, PTL DEF Spec, RmdirKeepsChildren

-----------------------------------------------------------------------------
(* What was stored survives.                                               *)

\* While the image can be opened, the bitmap in memory is the one on it.
MapSaved == online => up /\ superblock_inode = disk_bitmap

\* The body of StoredSurvives.
KeptOnDisk ==
    \A id \in Id : kept[id] # Unnamed => Live(id) /\ disk_inode[id].filename = kept[id]

\* A slot names the path its inode is kept under, so a removal by that path
\* is the removal the history counts.
SlotIsKept ==
    online => \A s \in Id : inode_entries[s].inode_id # -1 =>
                  kept[inode_entries[s].inode_id] \in {Unnamed, inode_entries[s].filename}

\* The root is kept, or nothing was ever created: then init_dir, which gives
\* slot 0 the id 0 whatever inode it took, cannot hide an inode in use.
NoRootYet ==
    /\ kept = [id \in Id |-> Unnamed]
    /\ disk_inode = [id \in Id |-> Inode(0, Unnamed, 0)]
    /\ up => superblock_inode = Id /\ \A s \in Id : inode_entries[s].inode_id = -1

RootKept == (\E r \in Id : kept[r] = Root) \/ NoRootYet

Saved ==
    /\ Base
    /\ MapSaved
    /\ "root" \notin accidents => KeptOnDisk /\ SlotIsKept /\ RootKept

\* Live on an inode that is on the image.
LEMMA KeptFacts ==
    ASSUME KeptOnDisk, NEW id \in Id, kept[id] # Unnamed
    PROVE  id \in disk_bitmap /\ disk_inode[id].inode_id = id
           /\ disk_inode[id].filename = kept[id]
  BY DEF KeptOnDisk, Live

\* An inode is created: none that was kept is lost.
LEMMA CreateKeeps ==
    ASSUME TypeOK, MapSaved, up, FreeIds # {}, NEW name \in Path, NEW type \in 0 .. 2,
           create_inode(name, type), UNCHANGED <<up, online>>
    PROVE  /\ MapSaved'
           /\ KeptOnDisk => KeptOnDisk'
           /\ KeptOnDisk /\ RootKept => RootKept'
  <1> DEFINE new == First(FreeIds)
  <1>1. /\ new \in Id /\ new \notin superblock_inode
        /\ online => /\ disk_bitmap' = superblock_inode'
                     /\ superblock_inode' = superblock_inode \cup {new}
                     /\ disk_inode' = [disk_inode EXCEPT ![new] = Inode(new, name, type)]
                     /\ kept' = [kept EXCEPT ![new] = name]
        /\ ~online => UNCHANGED <<disk_bitmap, disk_inode, kept>>
    BY CreateFacts
  <1>2. superblock_inode # Id
    BY <1>1
  <1> HIDE DEF new
  <1>3. /\ Inode(new, name, type).inode_id = new
        /\ Inode(new, name, type).filename = name
    BY DEF Inode
  <1>4. MapSaved'
    BY <1>1 DEF MapSaved
  <1>5. CASE ~online
    BY <1>1, <1>2, <1>4, <1>5 DEF KeptOnDisk, Live, RootKept, NoRootYet
  <1>6. CASE online
    <2>1. /\ \A id \in Id : kept'[id] = IF id = new THEN name ELSE kept[id]
          /\ \A id \in Id : disk_inode'[id] = IF id = new THEN Inode(new, name, type)
                                              ELSE disk_inode[id]
      BY <1>1, <1>6, TypeFacts
    <2>2. disk_bitmap' = disk_bitmap \cup {new} /\ new \notin disk_bitmap
      BY <1>1, <1>6 DEF MapSaved
    <2>3. KeptOnDisk => KeptOnDisk'
      BY <1>3, <2>1, <2>2 DEF KeptOnDisk, Live
    <2>4. ASSUME KeptOnDisk, RootKept
          PROVE  RootKept'
      <3>1. PICK r \in Id : kept[r] = Root
        BY <1>2, <2>4 DEF RootKept, NoRootYet
      <3>2. r # new
        BY <2>2, <2>4, <3>1, KeptFacts, NameFacts
      <3> QED
        BY <2>1, <3>1, <3>2 DEF RootKept
    <2> QED
      BY <1>4, <2>3, <2>4
  <1> QED
    BY <1>5, <1>6

\* Its slot names the path it is kept under.
LEMMA CreateInSlotKeeps ==
    ASSUME Base, SlotIsKept, FreeIds # {}, NEW name \in Path, NEW type \in 0 .. 2,
           create_inode(name, type), UNCHANGED online, NEW s \in Id,
           inode_entries' = [inode_entries EXCEPT ![s] = Inode(First(FreeIds), name, type)]
    PROVE  SlotIsKept'
  <1> DEFINE new == First(FreeIds)
  <1>1. /\ new \in Id /\ new \notin superblock_inode
        /\ online => kept' = [kept EXCEPT ![new] = name]
    BY CreateFacts DEF Base
  <1> HIDE DEF new
  <1>2. /\ Inode(new, name, type).inode_id = new
        /\ Inode(new, name, type).filename = name
    BY DEF Inode
  <1>3. \A t \in Id : inode_entries'[t] = IF t = s THEN Inode(new, name, type)
                                          ELSE inode_entries[t]
    BY TypeFacts DEF Base, new
  <1>4. \A t \in Id : inode_entries[t].inode_id # new
    BY <1>1, IdFacts DEF Base, TableOwnsInodes
  <1>5. ASSUME online
        PROVE  \A id \in Id : kept'[id] = IF id = new THEN name ELSE kept[id]
    BY <1>1, <1>5, TypeFacts DEF Base
  <1>6. \A t \in Id : inode_entries[t].inode_id \in Id \cup {-1}
    BY TypeFacts DEF Base, InodeRecord
  <1> QED
    BY <1>1, <1>2, <1>3, <1>4, <1>5, <1>6 DEF SlotIsKept

\* An inode is removed by the path its slot names.
LEMMA ForgetKeeps ==
    ASSUME Base, MapSaved, KeptOnDisk, SlotIsKept, RootKept,
           NEW p \in Path, p # Root, NEW s \in Id, inode_entries[s].filename = p,
           Forget(inode_entries[s].inode_id, p), NEW rec, rec.inode_id = -1,
           inode_entries' = [inode_entries EXCEPT ![s] = rec],
           UNCHANGED <<disk_inode, up, online>>
    PROVE  KeptOnDisk' /\ SlotIsKept' /\ RootKept'
  <1> DEFINE id == inode_entries[s].inode_id
  <1>1. id \in Id \cup {-1}
    BY TypeFacts DEF Base, InodeRecord
  <1>2. /\ superblock_inode' = superblock_inode \ {id}
        /\ online => /\ disk_bitmap' = superblock_inode'
                     /\ \A k \in Id : kept'[k] = IF k = id /\ kept[k] = p THEN Unnamed
                                                 ELSE kept[k]
        /\ ~online => UNCHANGED <<disk_bitmap, kept>>
        /\ kept' \in [Id -> Path \cup {Unnamed}]
    BY <1>1, ForgetFacts DEF Base
  <1>3. \A t \in Id : inode_entries'[t] = IF t = s THEN rec ELSE inode_entries[t]
    BY TypeFacts DEF Base
  <1>4. \A t \in Id : t # s /\ inode_entries[t].inode_id # -1 => inode_entries[t].inode_id # id
    BY DEF Base, TableOwnsInodes
  <1>5. \A t \in Id : inode_entries[t].inode_id \in Id \cup {-1}
    BY TypeFacts DEF Base, InodeRecord
  <1>6. online /\ id # -1 => kept[id] \in {Unnamed, p}
    BY DEF SlotIsKept
  <1> HIDE DEF id
  <1>7. KeptOnDisk'
    <2>1. CASE ~online
      BY <1>2, <2>1 DEF KeptOnDisk, Live
    <2>2. CASE online
      <3>1. disk_bitmap' = disk_bitmap \ {id}
        BY <1>2, <2>2 DEF MapSaved
      <3>2. ASSUME NEW k \in Id, kept'[k] # Unnamed
            PROVE  kept'[k] = kept[k] /\ k # id
        BY <1>2, <1>6, <2>2, <3>2, IdFacts
      <3> QED
        BY <3>1, <3>2 DEF KeptOnDisk, Live
    <2> QED
      BY <2>1, <2>2
  <1>8. SlotIsKept'
    BY <1>2, <1>3, <1>5 DEF SlotIsKept
  <1>9. RootKept'
    <2>1. CASE \E r \in Id : kept[r] = Root
      BY <1>2, <2>1 DEF RootKept
    <2>2. CASE NoRootYet
      <3>1. kept' = [k \in Id |-> Unnamed]
        BY <1>2, <2>2 DEF NoRootYet
      <3>2. up => id = -1
        BY <2>2 DEF NoRootYet, id
      <3>3. up' => superblock_inode' = Id
        BY <1>2, <2>2, <3>2, IdFacts DEF NoRootYet
      <3>4. up' => \A t \in Id : inode_entries'[t].inode_id = -1
        BY <1>3, <2>2 DEF NoRootYet
      <3> QED
        BY <2>2, <3>1, <3>3, <3>4 DEF RootKept, NoRootYet
    <2> QED
      BY <2>1, <2>2 DEF RootKept
  <1> QED
    BY <1>7, <1>8, <1>9

\* The parts that need the root, for one step that does not remove it.
KeptInv == KeptOnDisk /\ SlotIsKept /\ RootKept

LEMMA TouchKeeps ==
    ASSUME Base, MapSaved, KeptInv, NEW p \in Path, touch(p)
    PROVE  KeptInv'
  <1> USE DEF Base, KeptInv
  <1>1. up /\ FreeIds # {} /\ create_inode(p, 1) /\ UNCHANGED <<up, online>>
    BY TouchFacts
  <1>2. KeptOnDisk' /\ RootKept'
    BY <1>1, CreateKeeps
  <1>3. SlotIsKept'
    <2>1. CASE FreeSlots # {}
      BY <1>1, <2>1, TouchFacts, CreateInSlotKeeps
    <2>2. CASE FreeSlots = {}
      <3>1. inode_entries' = inode_entries
        BY <2>2, TouchFacts
      <3>2. /\ First(FreeIds) \notin superblock_inode
            /\ online => kept' = [kept EXCEPT ![First(FreeIds)] = p]
        BY <1>1, CreateFacts
      <3>3. \A t \in Id : inode_entries[t].inode_id # -1 =>
                /\ inode_entries[t].inode_id \in Id
                /\ inode_entries[t].inode_id # First(FreeIds)
        BY <3>2, TypeFacts DEF TableOwnsInodes, InodeRecord
      <3> QED
        BY <1>1, <3>1, <3>2, <3>3, TypeFacts DEF SlotIsKept
    <2> QED
      BY <2>1, <2>2
  <1> QED
    BY <1>2, <1>3

LEMMA MkdirKeeps ==
    ASSUME Base, MapSaved, KeptInv, NEW p \in Path, mkdir(p)
    PROVE  KeptInv'
  <1> USE DEF Base, KeptInv
  <1>1. up /\ UNCHANGED <<up, online>> /\ First(UnnamedSlots) \in Id
    BY MkdirFacts
  <1>2. CASE FreeIds # {}
    <2>1. /\ create_inode(p, 2)
          /\ inode_entries' = [inode_entries EXCEPT ![First(UnnamedSlots)] =
                                   Inode(First(FreeIds), p, 2)]
      BY <1>2, MkdirFacts
    <2>2. KeptOnDisk' /\ RootKept'
      BY <1>1, <1>2, <2>1, CreateKeeps
    <2>3. SlotIsKept'
      <3>1. SlotIsKept /\ First(UnnamedSlots) \in Id /\ UNCHANGED online
        BY <1>1
      <3>2. 2 \in 0 .. 2
        OBVIOUS
      <3> HIDE DEF Base, KeptInv
      <3> QED
        BY <1>2, <2>1, <3>1, <3>2, CreateInSlotKeeps, Zenon
    <2> QED
      BY <2>2, <2>3
  <1>3. CASE FreeIds = {}
    <2>1. /\ inode_entries' = [s \in Id |->
                 IF s \in UnnamedSlots THEN Inode(inode_entries[s].inode_id, p, 2)
                 ELSE inode_entries[s]]
          /\ UNCHANGED <<disk_bitmap, disk_inode, superblock_inode, kept>>
      BY <1>3, MkdirFacts
    <2>2. ASSUME NEW s \in Id
          PROVE  /\ inode_entries'[s].inode_id = inode_entries[s].inode_id
                 /\ \/ inode_entries[s].filename = Unnamed
                    \/ inode_entries'[s] = inode_entries[s]
      BY <2>1 DEF Inode, UnnamedSlots
    <2>3. SlotIsKept'
      BY <1>1, <2>1, <2>2 DEF SlotIsKept
    <2>4. RootKept'
      BY <1>1, <2>1, <2>2 DEF RootKept, NoRootYet
    <2> QED
      BY <2>1, <2>3, <2>4 DEF KeptOnDisk, Live
  <1> QED
    BY <1>2, <1>3

LEMMA RmKeeps ==
    ASSUME Base, MapSaved, KeptInv, NEW p \in Path, rm(p)
    PROVE  KeptInv'
  <1>1. /\ p # Root
        /\ First(Files(p)) \in Id
        /\ First(Files(p)) \in Files(p)
        /\ Forget(inode_entries[First(Files(p))].inode_id, p)
        /\ inode_entries' = [inode_entries EXCEPT ![First(Files(p))] = DeadSlot]
        /\ UNCHANGED <<disk_inode, up, online>>
    BY RmFacts DEF Base
  <1>2. inode_entries[First(Files(p))].filename = p
    BY <1>1 DEF Files
  <1> QED
    BY <1>1, <1>2, ForgetKeeps, EmptySlotFacts DEF KeptInv

LEMMA RmdirKeeps ==
    ASSUME Base, MapSaved, KeptInv, NEW p \in Path, rmdir(p), "root" \notin accidents'
    PROVE  KeptInv'
  <1>1. /\ First(Dirs(p)) \in Id
        /\ First(Dirs(p)) \in Dirs(p)
        /\ Forget(inode_entries[First(Dirs(p))].inode_id, p)
        /\ inode_entries' = [inode_entries EXCEPT ![First(Dirs(p))] = EmptySlot]
        /\ accidents' = IF p = Root THEN accidents \cup {"root"} ELSE accidents
        /\ UNCHANGED <<disk_inode, up, online>>
    BY RmdirFacts DEF Base
  <1>2. inode_entries[First(Dirs(p))].filename = p
    BY <1>1 DEF Dirs
  <1>3. p # Root
    BY <1>1
  <1> QED
    BY <1>1, <1>2, <1>3, ForgetKeeps, EmptySlotFacts DEF KeptInv

LEMMA DieKeeps ==
    ASSUME Base, MapSaved, KeptInv, Die \/ DieInCreate
    PROVE  KeptInv'
  <1>1. /\ up' = FALSE /\ online' = FALSE
        /\ UNCHANGED <<disk_inode, kept>>
    BY DEF Die, DieInCreate, ProcessGone
  <1>2. disk_bitmap \subseteq disk_bitmap'
    BY DEF Die, DieInCreate, MapSaved
  <1>3. KeptOnDisk'
    BY <1>1, <1>2 DEF KeptInv, KeptOnDisk, Live
  <1> QED
    BY <1>1, <1>3 DEF KeptInv, SlotIsKept, RootKept, NoRootYet

\* Before anything was created, no slot is loaded with a name.
LEMMA NoRootLoaded ==
    ASSUME NoRootYet, NEW id \in Id
    PROVE  /\ Loaded[id].filename = Unnamed
           /\ id # 0 => Loaded[id].inode_id = -1
  BY EmptySlotFacts, IdFacts DEF NoRootYet, Loaded, Live, Inode

LEMMA MountTreeKeeps ==
    ASSUME Base, KeptInv, MountTree
    PROVE  KeptInv'
  <1>1. /\ RootLoaded
        /\ inode_entries' = Loaded
        /\ UNCHANGED <<disk_bitmap, disk_inode, kept>>
    BY DEF MountTree
  <1>2. ~NoRootYet
    BY <1>1, NoRootLoaded, NameFacts DEF RootLoaded
  <1>3. RootKept'
    BY <1>1, <1>2 DEF KeptInv, RootKept
  <1>4. ASSUME NEW s \in Id, inode_entries'[s].inode_id # -1
        PROVE  kept'[inode_entries'[s].inode_id] \in {Unnamed, inode_entries'[s].filename}
    <2>1. Live(s) /\ inode_entries'[s] = disk_inode[s] /\ inode_entries'[s].inode_id = s
      BY <1>1, <1>4, LoadedFacts DEF Base
    <2> QED
      BY <1>1, <2>1 DEF KeptInv, KeptOnDisk
  <1>5. SlotIsKept'
    BY <1>4 DEF SlotIsKept
  <1> QED
    BY <1>1, <1>3, <1>5 DEF KeptInv, KeptOnDisk, Live

\* Where no root is loaded none was ever kept, so the id 0 that init_dir
\* gives slot 0 hides nothing.
LEMMA MakeRootKeeps ==
    ASSUME Base, KeptInv, MountAndMakeRoot
    PROVE  KeptInv'
  <1> USE DEF Base, KeptInv
  <1>1. ~RootLoaded
    BY DEF MountAndMakeRoot
  <1>2. NoRootYet
    <2>1. ASSUME NEW r \in Id, kept[r] = Root
          PROVE  FALSE
      <3>1. Live(r) /\ disk_inode[r].filename = Root
        BY <2>1, NameFacts DEF KeptOnDisk
      <3>2. Loaded[r].filename = Root
        BY <3>1, LoadedFacts
      <3> QED
        BY <1>1, <3>2 DEF RootLoaded
    <2> QED
      BY <2>1 DEF RootKept
  <1>3. \A k \in Id : kept[k] = Unnamed
    BY <1>2 DEF NoRootYet
  <1>4. CASE FreeOnDisk # {}
    <2> DEFINE id == First(FreeOnDisk)
    <2>1. id \in Id
      BY <1>4, FreeOnDiskFacts
    <2>2. /\ disk_bitmap' = disk_bitmap \cup {id}
          /\ disk_inode' = [disk_inode EXCEPT ![id] = Inode(id, Root, 2)]
          /\ kept' = [kept EXCEPT ![id] = Root]
          /\ inode_entries' = [Loaded EXCEPT ![0] = Inode(0, Root, 2)]
      BY <1>4, MakeRootFacts
    <2> HIDE DEF id
    <2>3. \A k \in Id : kept'[k] = IF k = id THEN Root ELSE Unnamed
      BY <1>3, <2>1, <2>2, TypeFacts
    <2>4. Inode(id, Root, 2).inode_id = id /\ Inode(id, Root, 2).filename = Root
          /\ Inode(0, Root, 2).inode_id = 0 /\ Inode(0, Root, 2).filename = Root
      BY DEF Inode
    <2>5. KeptOnDisk'
      BY <2>1, <2>2, <2>3, <2>4, TypeFacts DEF KeptOnDisk, Live
    <2>6. \A s \in Id : inode_entries'[s] = IF s = 0 THEN Inode(0, Root, 2) ELSE Loaded[s]
      BY <2>2, LoadedFacts
    <2>7. \A s \in Id : s # 0 => inode_entries'[s].inode_id = -1
      BY <1>2, <2>6, NoRootLoaded
    <2>8. SlotIsKept'
      BY <2>3, <2>4, <2>6, <2>7, IdFacts DEF SlotIsKept
    <2> QED
      BY <2>1, <2>3, <2>5, <2>8 DEF RootKept
  <1>5. CASE FreeOnDisk = {}
    <2>1. /\ superblock_inode' = disk_bitmap
          /\ inode_entries' = [Loaded EXCEPT ![0] = Inode(-1, Root, 2)]
          /\ UNCHANGED <<disk_bitmap, disk_inode, kept>>
      BY <1>5, MakeRootFacts
    <2>2. disk_bitmap = Id
      BY <1>5, TypeFacts DEF FreeOnDisk
    <2>3. \A s \in Id : inode_entries'[s] = IF s = 0 THEN Inode(-1, Root, 2) ELSE Loaded[s]
      BY <2>1, LoadedFacts
    <2>4. \A s \in Id : inode_entries'[s].inode_id = -1
      BY <1>2, <2>3, NoRootLoaded, IdFacts DEF Inode
    <2>5. NoRootYet'
      BY <1>2, <2>1, <2>2, <2>4 DEF NoRootYet
    <2> QED
      BY <2>1, <2>4, <2>5 DEF KeptOnDisk, Live, SlotIsKept, RootKept
  <1> QED
    BY <1>4, <1>5

LEMMA DieInMountKeeps ==
    ASSUME MapSaved, KeptInv, DieInMount
    PROVE  KeptInv'
  BY DEF DieInMount, MapSaved, KeptInv, KeptOnDisk, Live, SlotIsKept, RootKept, NoRootYet

\* The bitmap in memory and the one on the image part only when the image can
\* no longer be opened.
LEMMA MapSavedStep ==
    ASSUME Base, MapSaved, [Next]_vars
    PROVE  MapSaved'
  <1> USE DEF Base
  <1>1. CASE \E p \in Path : touch(p)
    BY <1>1, TouchFacts, CreateKeeps
  <1>2. CASE \E p \in Path : mkdir(p)
    <2>1. PICK p \in Path : mkdir(p)
      BY <1>2
    <2>2. CASE FreeIds # {}
      <3>1. up /\ create_inode(p, 2) /\ UNCHANGED <<up, online>>
        BY <2>1, <2>2, MkdirFacts
      <3> QED
        BY <2>2, <3>1, CreateKeeps
    <2>3. CASE FreeIds = {}
      <3>1. UNCHANGED <<disk_bitmap, superblock_inode, up, online>>
        BY <2>1, <2>3, MkdirFacts
      <3> QED
        BY <3>1 DEF MapSaved
    <2> QED
      BY <2>2, <2>3
  <1>3. CASE \E p \in Path : rm(p)
    <2>1. PICK p \in Path : rm(p)
      BY <1>3
    <2>2. /\ Forget(inode_entries[First(Files(p))].inode_id, p)
          /\ UNCHANGED <<up, online>> /\ up
      BY <2>1, RmFacts
    <2> QED
      BY <2>2 DEF MapSaved, Forget, SaveBitmap
  <1>4. CASE \E p \in Path : rmdir(p)
    <2>1. PICK p \in Path : rmdir(p)
      BY <1>4
    <2>2. /\ Forget(inode_entries[First(Dirs(p))].inode_id, p)
          /\ UNCHANGED <<up, online>> /\ up
      BY <2>1, RmdirFacts
    <2> QED
      BY <2>2 DEF MapSaved, Forget, SaveBitmap
  <1>5. CASE MountAndMakeRoot
    BY <1>5, MakeRootFacts DEF MapSaved
  <1>6. CASE \/ \E p \in Path : cd(p)
             \/ CdHome \/ GoOffline \/ Die \/ DieInCreate \/ MountTree \/ DieInMount
             \/ UNCHANGED vars
    BY <1>6 DEF MapSaved, cd, CdHome, GoOffline, Die, DieInCreate, ProcessGone, MountTree,
       Mount, DieInMount, vars
  <1> QED
    BY <1>1, <1>2, <1>3, <1>4, <1>5, <1>6 DEF Next, Command

\* What was an accident stays one.
LEMMA AccidentsGrow ==
    ASSUME Base, [Next]_vars
    PROVE  accidents \subseteq accidents'
  BY RmFacts DEF Base, Next, Command, touch, mkdir, cd, CdHome, rmdir, GoOffline, Die,
     DieInCreate, MountTree, MountAndMakeRoot, Mount, DieInMount, vars

LEMMA SavedStep ==
    ASSUME Saved, [Next]_vars
    PROVE  Saved'
  <1> USE DEF Saved
  <1>1. Base' /\ MapSaved'
    BY BaseStep, MapSavedStep
  <1>2. ASSUME "root" \notin accidents'
        PROVE  KeptInv'
    <2>1. KeptInv
      BY <1>2, AccidentsGrow DEF KeptInv
    <2>2. CASE \/ \E p \in Path : cd(p)
               \/ CdHome \/ GoOffline \/ UNCHANGED vars
      BY <2>1, <2>2 DEF KeptInv, KeptOnDisk, Live, SlotIsKept, RootKept, NoRootYet, cd,
         CdHome, GoOffline, vars
    <2> QED
      BY <1>2, <2>1, <2>2, TouchKeeps, MkdirKeeps, RmKeeps, RmdirKeeps, DieKeeps,
         MountTreeKeeps, MakeRootKeeps, DieInMountKeeps DEF Next, Command
  <1> QED
    BY <1>1, <1>2 DEF KeptInv

LEMMA SavedInit ==
    ASSUME Init
    PROVE  Saved
  <1>1. MapSaved /\ SlotIsKept
    BY DEF Init, MapSaved, SlotIsKept
  <1>2. NoRootYet
    BY DEF Init, NoRootYet
  <1>3. KeptOnDisk
    BY <1>2 DEF NoRootYet, KeptOnDisk
  <1> QED
    BY <1>1, <1>2, <1>3, BaseInit DEF Saved, RootKept

LEMMA SavedAlways == Spec => []Saved
  BY SavedInit, SavedStep, PTL DEF Spec

\* What was stored while the image could be opened, and not removed by its
\* own path since, is on the image after any restart (create_inode,
\* query_inode, init_dir).
THEOREM StoredSurvivesAlways == Spec => []StoredSurvives
  <1>1. Saved => StoredSurvives
    BY DEF Saved, KeptOnDisk, StoredSurvives
  <1> QED
    BY <1>1, SavedAlways, PTL

-----------------------------------------------------------------------------
(* A path names one thing, and the program starts in a directory.          *)

\* While the image can be opened, the table is what a restart would load.
SlotOnDisk ==
    online => \A s \in Id : inode_entries[s].inode_id # -1 =>
                  inode_entries[s] = disk_inode[inode_entries[s].inode_id]

LiveInTable ==
    online => \A id \in Id : Live(id) => \E s \in Id : inode_entries[s].inode_id = id

\* Inodes in use have a name.
SlotNamed == \A s \in Id : inode_entries[s].inode_id # -1 => inode_entries[s].filename \in Path

\* No two inodes of the image, or of the table, have one name and type.
LiveUnique ==
    \A i, j \in Id : /\ Live(i) /\ Live(j)
                     /\ disk_inode[i].filename = disk_inode[j].filename
                     /\ disk_inode[i].file_type = disk_inode[j].file_type
                     => i = j

SlotUnique ==
    \A s, t \in Id : /\ inode_entries[s].inode_id # -1
                     /\ inode_entries[t].inode_id # -1
                     /\ inode_entries[s].filename = inode_entries[t].filename
                     /\ inode_entries[s].file_type = inode_entries[t].file_type
                     => s = t

LiveNamed == \A id \in Id : Live(id) => disk_inode[id].filename \in Path

\* Inode 0 is the root, once the program ever ran.
RootFirst ==
    \/ disk_bitmap = {} /\ ~up
    \/ Live(0) /\ disk_inode[0] = Inode(0, Root, 2)

Clean ==
    /\ SlotOnDisk
    /\ LiveInTable
    /\ SlotNamed
    /\ LiveUnique
    /\ SlotUnique
    /\ LiveNamed
    /\ RootFirst

\* No inode in the table has the name and the type.
NameFree(p, type) ==
    \A t \in Id : inode_entries[t].inode_id # -1 /\ inode_entries[t].filename = p
                  => inode_entries[t].file_type # type

\* An inode of a new name and type goes into a slot that has none.
LEMMA CreateClean ==
    ASSUME Base, MapSaved, Clean, up, FreeIds # {}, NEW p \in Path, NEW type \in 0 .. 2,
           create_inode(p, type), UNCHANGED <<up, online>>,
           NEW s \in Id, inode_entries[s].inode_id = -1,
           inode_entries' = [inode_entries EXCEPT ![s] = Inode(First(FreeIds), p, type)],
           NameFree(p, type)
    PROVE  Clean'
  <1> USE DEF Base
  <1> DEFINE new == First(FreeIds)
             rec == Inode(new, p, type)
  <1>1. /\ new \in Id /\ new \notin superblock_inode
        /\ superblock_inode' = superblock_inode \cup {new}
        /\ online => /\ disk_bitmap' = superblock_inode'
                     /\ disk_inode' = [disk_inode EXCEPT ![new] = rec]
        /\ ~online => UNCHANGED <<disk_bitmap, disk_inode>>
    BY CreateFacts
  <1>2. rec.inode_id = new /\ rec.filename = p /\ rec.file_type = type
    BY DEF Inode
  <1>3. \A t \in Id : inode_entries'[t] = IF t = s THEN rec ELSE inode_entries[t]
    BY TypeFacts
  <1>4. \A t \in Id : inode_entries[t].inode_id # -1 =>
            inode_entries[t].inode_id \in Id /\ inode_entries[t].inode_id # new
    BY <1>1, TypeFacts DEF TableOwnsInodes, InodeRecord
  <1>5. SlotNamed' /\ SlotUnique'
    BY <1>2, <1>3 DEF SlotNamed, SlotUnique, NameFree, Clean
  <1>6. Live(0) /\ disk_inode[0] = Inode(0, Root, 2)
    BY DEF Clean, RootFirst
  <1> HIDE DEF new, rec
  <1>7. CASE ~online
    BY <1>1, <1>5, <1>6, <1>7 DEF Clean, SlotOnDisk, LiveInTable, LiveUnique, LiveNamed,
       RootFirst, Live
  <1>8. CASE online
    <2>1. /\ \A id \in Id : disk_inode'[id] = IF id = new THEN rec ELSE disk_inode[id]
          /\ disk_bitmap' = disk_bitmap \cup {new}
          /\ new \notin disk_bitmap
          /\ online'
      BY <1>1, <1>8, TypeFacts DEF MapSaved
    <2>2. \A id \in Id : Live(id)' <=> id = new \/ Live(id)
      BY <1>1, <1>2, <2>1 DEF Live
    <2>3. SlotOnDisk'
      BY <1>1, <1>2, <1>3, <1>4, <1>8, <2>1 DEF SlotOnDisk, Clean
    <2>4. LiveInTable'
      BY <1>2, <1>3, <1>8, <2>2, IdFacts DEF LiveInTable, Clean
    <2>5. \A id \in Id : Live(id) => ~(disk_inode[id].filename = p /\ disk_inode[id].file_type = type)
      <3> SUFFICES ASSUME NEW id \in Id, Live(id)
                   PROVE  ~(disk_inode[id].filename = p /\ disk_inode[id].file_type = type)
        OBVIOUS
      <3>1. PICK t \in Id : inode_entries[t].inode_id = id
        BY <1>8 DEF LiveInTable, Clean
      <3>2. inode_entries[t] = disk_inode[id] /\ inode_entries[t].inode_id # -1
        BY <1>8, <3>1, IdFacts DEF SlotOnDisk, Clean
      <3> QED
        BY <3>2 DEF NameFree
    <2>6. LiveUnique'
      BY <1>2, <2>1, <2>2, <2>5 DEF LiveUnique, Clean
    <2>7. LiveNamed'
      BY <1>2, <2>1, <2>2 DEF LiveNamed, Clean
    <2>8. RootFirst'
      <3>1. 0 # new /\ 0 \in Id
        BY <1>6, <2>1, IdFacts DEF Live
      <3>2. Live(0)' /\ disk_inode'[0] = Inode(0, Root, 2)
        BY <1>6, <2>1, <2>2, <3>1
      <3> QED
        BY <3>2 DEF RootFirst
    <2> QED
      BY <1>5, <2>3, <2>4, <2>6, <2>7, <2>8 DEF Clean
  <1> QED
    BY <1>7, <1>8

\* An inode other than the root goes with its slot.
LEMMA ForgetClean ==
    ASSUME Base, MapSaved, Clean, up, NEW p \in Path, p # Root,
           NEW s \in Id, inode_entries[s].filename = p,
           Forget(inode_entries[s].inode_id, p), NEW rec, rec.inode_id = -1,
           inode_entries' = [inode_entries EXCEPT ![s] = rec],
           UNCHANGED <<disk_inode, up, online>>
    PROVE  Clean'
  <1> USE DEF Base
  <1> DEFINE id == inode_entries[s].inode_id
  <1>1. id \in Id \cup {-1}
    BY TypeFacts DEF InodeRecord
  <1>2. /\ superblock_inode' = superblock_inode \ {id}
        /\ online => disk_bitmap' = superblock_inode'
        /\ ~online => UNCHANGED disk_bitmap
    BY <1>1, ForgetFacts
  <1>3. \A t \in Id : inode_entries'[t] = IF t = s THEN rec ELSE inode_entries[t]
    BY TypeFacts
  <1>4. SlotNamed' /\ SlotUnique' /\ SlotOnDisk'
    BY <1>3 DEF SlotNamed, SlotUnique, SlotOnDisk, Clean
  <1>5. Live(0) /\ disk_inode[0] = Inode(0, Root, 2)
    BY DEF Clean, RootFirst
  <1>6. CASE ~online
    BY <1>2, <1>4, <1>5, <1>6 DEF Clean, LiveInTable, LiveUnique, LiveNamed, RootFirst, Live
  <1>7. CASE online
    <2>1. disk_bitmap' = disk_bitmap \ {id} /\ disk_inode' = disk_inode
      BY <1>2, <1>7 DEF MapSaved
    <2>2. \A k \in Id : Live(k)' <=> Live(k) /\ k # id
      BY <2>1 DEF Live
    <2>3. LiveInTable'
      <3> SUFFICES ASSUME NEW k \in Id, Live(k), k # id
                   PROVE  \E t \in Id : inode_entries'[t].inode_id = k
        BY <2>2 DEF LiveInTable
      <3>1. PICK t \in Id : inode_entries[t].inode_id = k
        BY <1>7 DEF LiveInTable, Clean
      <3> QED
        BY <1>3, <3>1
    <2>4. LiveUnique' /\ LiveNamed'
      BY <2>1, <2>2 DEF LiveUnique, LiveNamed, Clean
    <2>5. id # 0
      <3> SUFFICES ASSUME id = 0
                   PROVE  FALSE
        OBVIOUS
      <3>1. inode_entries[s] = Inode(0, Root, 2)
        BY <1>5, <1>7 DEF SlotOnDisk, Clean
      <3> QED
        BY <3>1 DEF Inode
    <2>6. RootFirst'
      BY <1>5, <2>1, <2>2, <2>5, IdFacts DEF RootFirst
    <2> QED
      BY <1>4, <2>3, <2>4, <2>6 DEF Clean
  <1> QED
    BY <1>6, <1>7

LEMMA TouchClean ==
    ASSUME Base, MapSaved, Clean, NEW p \in Path, touch(p), accidents' = {}
    PROVE  Clean'
  <1>1. /\ up /\ FreeIds # {} /\ create_inode(p, 1) /\ UNCHANGED <<up, online>>
        /\ Files(p) = {} /\ FreeSlots # {}
    BY TouchFacts DEF Base
  <1>2. /\ First(FreeSlots) \in Id
        /\ inode_entries[First(FreeSlots)].inode_id = -1
        /\ inode_entries' = [inode_entries EXCEPT ![First(FreeSlots)] =
                                 Inode(First(FreeIds), p, 1)]
    BY <1>1, TouchFacts DEF Base, FreeSlots
  <1>3. NameFree(p, 1)
    BY <1>1 DEF Files, NameFree
  <1>4. 1 \in 0 .. 2
    OBVIOUS
  <1> QED
    BY <1>1, <1>2, <1>3, <1>4, CreateClean

LEMMA MkdirClean ==
    ASSUME Base, MapSaved, Clean, NEW p \in Path, mkdir(p)
    PROVE  Clean'
  <1>1. /\ up /\ UNCHANGED <<up, online>> /\ Dirs(p) = {}
        /\ First(UnnamedSlots) \in Id
    BY MkdirFacts DEF Base
  <1>2. \A s \in Id : inode_entries[s].filename = Unnamed => inode_entries[s].inode_id = -1
    BY NameFacts DEF Clean, SlotNamed
  <1>3. CASE FreeIds # {}
    <2>1. /\ create_inode(p, 2)
          /\ inode_entries' = [inode_entries EXCEPT ![First(UnnamedSlots)] =
                                   Inode(First(FreeIds), p, 2)]
          /\ inode_entries[First(UnnamedSlots)].inode_id = -1
      BY <1>2, <1>3, MkdirFacts DEF Base
    <2>2. NameFree(p, 2)
      BY <1>1 DEF Dirs, NameFree
    <2>3. 2 \in 0 .. 2
      OBVIOUS
    <2> QED
      BY <1>1, <1>3, <2>1, <2>2, <2>3, CreateClean
  <1>4. CASE FreeIds = {}
    <2>1. /\ inode_entries' = [s \in Id |->
                 IF s \in UnnamedSlots THEN Inode(inode_entries[s].inode_id, p, 2)
                 ELSE inode_entries[s]]
          /\ UNCHANGED <<disk_bitmap, disk_inode, up, online>>
      BY <1>4, MkdirFacts DEF Base
    <2>2. ASSUME NEW s \in Id
          PROVE  \/ inode_entries'[s] = inode_entries[s]
                 \/ inode_entries[s].inode_id = -1 /\ inode_entries'[s].inode_id = -1
      BY <1>2, <2>1 DEF UnnamedSlots, Inode
    <2>3. SlotOnDisk' /\ SlotNamed' /\ SlotUnique'
      BY <2>1, <2>2 DEF SlotOnDisk, SlotNamed, SlotUnique, Clean
    <2>4. LiveInTable'
      <3> SUFFICES ASSUME online, NEW k \in Id, Live(k)
                   PROVE  \E t \in Id : inode_entries'[t].inode_id = k
        BY <2>1 DEF LiveInTable, Live
      <3>1. PICK t \in Id : inode_entries[t].inode_id = k
        BY DEF LiveInTable, Clean
      <3> QED
        BY <2>2, <3>1
    <2>5. LiveUnique' /\ LiveNamed' /\ RootFirst'
      BY <2>1 DEF LiveUnique, LiveNamed, RootFirst, Live, Clean
    <2> QED
      BY <2>3, <2>4, <2>5 DEF Clean
  <1> QED
    BY <1>3, <1>4

LEMMA RmClean ==
    ASSUME Base, MapSaved, Clean, NEW p \in Path, rm(p)
    PROVE  Clean'
  <1>1. /\ up /\ p # Root
        /\ First(Files(p)) \in Id
        /\ First(Files(p)) \in Files(p)
        /\ Forget(inode_entries[First(Files(p))].inode_id, p)
        /\ inode_entries' = [inode_entries EXCEPT ![First(Files(p))] = DeadSlot]
        /\ UNCHANGED <<disk_inode, up, online>>
    BY RmFacts DEF Base
  <1>2. inode_entries[First(Files(p))].filename = p
    BY <1>1 DEF Files
  <1> QED
    BY <1>1, <1>2, ForgetClean, EmptySlotFacts

LEMMA RmdirClean ==
    ASSUME Base, MapSaved, Clean, NEW p \in Path, rmdir(p), accidents' = {}
    PROVE  Clean'
  <1>1. /\ up
        /\ First(Dirs(p)) \in Id
        /\ First(Dirs(p)) \in Dirs(p)
        /\ Forget(inode_entries[First(Dirs(p))].inode_id, p)
        /\ inode_entries' = [inode_entries EXCEPT ![First(Dirs(p))] = EmptySlot]
        /\ accidents' = IF p = Root THEN accidents \cup {"root"} ELSE accidents
        /\ UNCHANGED <<disk_inode, up, online>>
    BY RmdirFacts DEF Base
  <1>2. inode_entries[First(Dirs(p))].filename = p
    BY <1>1 DEF Dirs
  <1>3. p # Root
    BY <1>1
  <1> QED
    BY <1>1, <1>2, <1>3, ForgetClean, EmptySlotFacts

LEMMA DieClean ==
    ASSUME Base, Clean, Die
    PROVE  Clean'
  <1>1. /\ up /\ online' = FALSE
        /\ UNCHANGED <<disk_bitmap, disk_inode>>
        /\ inode_entries' = [s \in Id |-> EmptySlot]
    BY DEF Die, ProcessGone
  <1>2. \A s \in Id : inode_entries'[s].inode_id = -1
    BY <1>1, EmptySlotFacts
  <1> QED
    BY <1>1, <1>2 DEF Clean, SlotOnDisk, LiveInTable, SlotNamed, LiveUnique, SlotUnique,
       LiveNamed, RootFirst, Live

LEMMA MountTreeClean ==
    ASSUME Base, Clean, MountTree
    PROVE  Clean' /\ Dirs(cur_path)' # {}
  <1> USE DEF Base
  <1>1. /\ RootLoaded
        /\ inode_entries' = Loaded
        /\ cur_path' = Loaded[0].filename
        /\ UNCHANGED <<disk_bitmap, disk_inode>>
    BY DEF MountTree, Mount
  <1>2. /\ \A s \in Id : Loaded[s] = IF Live(s) THEN disk_inode[s] ELSE EmptySlot
        /\ \A s \in Id : Loaded[s].inode_id = IF Live(s) THEN s ELSE -1
    BY LoadedFacts
  <1>3. disk_bitmap # {}
    BY <1>1, <1>2, EmptySlotFacts, NameFacts DEF RootLoaded, Live
  <1>4. Live(0) /\ disk_inode[0] = Inode(0, Root, 2)
    BY <1>3 DEF RootFirst, Clean
  <1>5. \A s \in Id : inode_entries'[s].inode_id # -1 =>
            Live(s) /\ inode_entries'[s] = disk_inode[s] /\ inode_entries'[s].inode_id = s
    BY <1>1, <1>2
  <1>6. SlotOnDisk' /\ SlotNamed' /\ SlotUnique'
    BY <1>1, <1>5 DEF SlotOnDisk, SlotNamed, SlotUnique, LiveNamed, LiveUnique, Clean
  <1>7. LiveInTable'
    BY <1>1, <1>2 DEF LiveInTable, Live
  <1>8. LiveUnique' /\ LiveNamed' /\ RootFirst'
    BY <1>1, <1>4 DEF LiveUnique, LiveNamed, RootFirst, Live, Clean
  <1>9. 0 \in Dirs(cur_path)'
    <2>1. Loaded[0] = Inode(0, Root, 2)
      BY <1>2, <1>4, IdFacts
    <2> QED
      BY <1>1, <2>1, IdFacts DEF Dirs, Inode
  <1> QED
    BY <1>6, <1>7, <1>8, <1>9 DEF Clean

LEMMA MakeRootClean ==
    ASSUME Base, Clean, MountAndMakeRoot
    PROVE  Clean' /\ Dirs(cur_path)' # {}
  <1> USE DEF Base
  <1>1. disk_bitmap = {}
    <2>1. ASSUME Live(0), disk_inode[0] = Inode(0, Root, 2)
          PROVE  FALSE
      <3>1. Loaded[0].filename = Root
        BY <2>1, LoadedFacts, IdFacts DEF Inode
      <3> QED
        BY <3>1, IdFacts DEF RootLoaded, MountAndMakeRoot
    <2> QED
      BY <2>1 DEF RootFirst, Clean
  <1>2. FreeOnDisk # {} /\ First(FreeOnDisk) = 0
    <2>1. FreeOnDisk # {}
      BY <1>1, IdFacts DEF FreeOnDisk
    <2> QED
      BY <1>1, <2>1, FreeOnDiskFacts
  <1>3. /\ disk_bitmap' = {0}
        /\ disk_inode' = [disk_inode EXCEPT ![0] = Inode(0, Root, 2)]
        /\ inode_entries' = [Loaded EXCEPT ![0] = Inode(0, Root, 2)]
        /\ cur_path' = inode_entries'[0].filename
    BY <1>1, <1>2, MakeRootFacts
  <1>4. \A s \in Id : /\ disk_inode'[s] = IF s = 0 THEN Inode(0, Root, 2) ELSE disk_inode[s]
                      /\ inode_entries'[s] = IF s = 0 THEN Inode(0, Root, 2) ELSE Loaded[s]
    BY <1>3, LoadedFacts, TypeFacts
  <1>5. \A s \in Id : Loaded[s].inode_id = -1
    BY <1>1, LoadedFacts DEF Live
  <1>6. /\ Inode(0, Root, 2).inode_id = 0
        /\ Inode(0, Root, 2).filename = Root
        /\ Inode(0, Root, 2).file_type = 2
    BY DEF Inode
  <1>7. \A s \in Id : Live(s)' <=> s = 0
    BY <1>3, <1>4, <1>6 DEF Live
  <1>8. \A s \in Id : inode_entries'[s].inode_id # -1 => s = 0
    BY <1>4, <1>5
  <1>9. SlotOnDisk' /\ LiveInTable' /\ SlotNamed' /\ SlotUnique'
    <2>1. inode_entries'[0] = Inode(0, Root, 2) /\ disk_inode'[0] = Inode(0, Root, 2)
      BY <1>4, IdFacts
    <2>2. SlotOnDisk'
      BY <1>6, <1>8, <2>1 DEF SlotOnDisk
    <2>3. LiveInTable'
      BY <1>6, <1>7, <2>1, IdFacts DEF LiveInTable
    <2>4. SlotNamed' /\ SlotUnique'
      BY <1>6, <1>8, <2>1, NameFacts DEF SlotNamed, SlotUnique
    <2> QED
      BY <2>2, <2>3, <2>4
  <1>10. LiveUnique' /\ LiveNamed' /\ RootFirst'
    BY <1>4, <1>6, <1>7, IdFacts, NameFacts DEF LiveUnique, LiveNamed, RootFirst
  <1>11. 0 \in Dirs(cur_path)'
    BY <1>3, <1>4, <1>6, IdFacts DEF Dirs
  <1> QED
    BY <1>9, <1>10, <1>11 DEF Clean

CleanInv == Base /\ MapSaved /\ (accidents = {} => Clean)

LEMMA CleanStep ==
    ASSUME CleanInv, [Next]_vars
    PROVE  CleanInv'
  <1> USE DEF CleanInv
  <1>1. Base' /\ MapSaved'
    BY BaseStep, MapSavedStep
  <1>2. ASSUME accidents' = {}
        PROVE  Clean'
    <2>1. Clean
      BY <1>2, AccidentsGrow
    <2>2. CASE \/ \E p \in Path : cd(p)
               \/ CdHome \/ GoOffline \/ UNCHANGED vars
      BY <2>1, <2>2 DEF Clean, SlotOnDisk, LiveInTable, SlotNamed, LiveUnique, SlotUnique,
         LiveNamed, RootFirst, Live, cd, CdHome, GoOffline, vars
    <2>3. ~DieInCreate /\ ~DieInMount
      BY <1>2 DEF DieInCreate, DieInMount
    <2> QED
      BY <1>2, <2>1, <2>2, <2>3, TouchClean, MkdirClean, RmClean, RmdirClean, DieClean,
         MountTreeClean, MakeRootClean DEF Next, Command
  <1> QED
    BY <1>1, <1>2

LEMMA CleanInit ==
    ASSUME Init
    PROVE  CleanInv
  <1>1. \A s \in Id : inode_entries[s].inode_id = -1
    BY EmptySlotFacts DEF Init
  <1>2. disk_bitmap = {} /\ ~up /\ ~online
    BY DEF Init
  <1>3. Clean
    BY <1>1, <1>2 DEF Clean, SlotOnDisk, LiveInTable, SlotNamed, LiveUnique, SlotUnique,
       LiveNamed, RootFirst, Live
  <1> QED
    BY <1>2, <1>3, BaseInit DEF CleanInv, MapSaved

LEMMA CleanAlways == Spec => []CleanInv
  BY CleanInit, CleanStep, PTL DEF Spec

\* A path names one file and one directory at most (search_file, change_dir).
THEOREM NamesUniqueAlways == Spec => []NamesUnique
  <1>1. CleanInv => NamesUnique
    BY DEF CleanInv, Clean, SlotUnique, NamesUnique
  <1> QED
    BY <1>1, CleanAlways, PTL

\* The program starts in a directory, whatever slot 0 held (init_dir).
THEOREM StartsWell == Spec => StartsInDirectory
  <1>1. ASSUME CleanInv, [Next]_vars
        PROVE  [~up /\ up' => Dirs(cur_path)' # {} \/ accidents # {}]_vars
    <2> SUFFICES ASSUME ~up, up', accidents = {}
                 PROVE  Dirs(cur_path)' # {}
      OBVIOUS
    <2>1. MountTree \/ MountAndMakeRoot
      BY <1>1 DEF Next, Command, touch, mkdir, cd, CdHome, rm, rmdir, GoOffline, Die,
         DieInCreate, DieInMount, vars
    <2> QED
      BY <1>1, <2>1, MountTreeClean, MakeRootClean DEF CleanInv
  <1> QED
    BY <1>1, CleanAlways, PTL DEF Spec, StartsInDirectory

=============================================================================
