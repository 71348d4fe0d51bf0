-------------------------- MODULE BlockDeviceProofs --------------------------
(***************************************************************************)
(* Proofs about BlockDevice, for every number of blocks, every descriptor  *)
(* limit and every set of host failures.                                   *)
(***************************************************************************)
EXTENDS BlockDevice, TLAPS

\* What creation and start-up rely on: before the first map is written there
\* is nothing in it and nobody owns a block; a program that runs without a
\* path has an empty map in memory; and only a header that could not be
\* written leaves an image with a map and no header.
CreationInv ==
    /\ image = "absent" \/ phase \in {"zeroed", "headed"} => disk_map = {} /\ handed = {}
    /\ HostFaults = {} /\ image # "headed" => disk_map = {}
    /\ HostFaults = {} /\ file_system_path => image = "headed"
    /\ phase = "headed" => block_map = Reserved /\ file_system_path
    /\ phase = "down" => block_map = {}
    /\ phase \in {"down", "zeroed"} => ~file_system_path
    /\ phase # "down" => image # "absent"
    /\ phase = "up" /\ ~file_system_path => block_map = {}

\* The reserved blocks are all or none in each of the two maps.
ReservedInv ==
    /\ (disk_map \cap Reserved) \in {{}, Reserved}
    /\ phase = "up" => (block_map \cap Reserved) \in {{}, Reserved}

\* The inductive invariant.
IInv ==
    /\ TypeOK
    /\ CreationInv
    /\ HandedAllocated
    /\ ReservedInv
    /\ MapCoherent

-----------------------------------------------------------------------------
(* Two facts about the sets of blocks.                                     *)

LEMMA BlockFacts ==
    /\ Reserved \subseteq Block
    /\ DataBlock \subseteq Block
    /\ DataBlock \cap Reserved = {}
    /\ 0 \in Reserved
BY DeviceAssumption DEF Reserved, DataBlock, Block

\* Marking or clearing a data block leaves the reserved part of a map alone.
LEMMA ReservedUntouched ==
    ASSUME NEW S, NEW b \in DataBlock
    PROVE  /\ (S \cup {b}) \cap Reserved = S \cap Reserved
           /\ (S \ {b}) \cap Reserved = S \cap Reserved
BY BlockFacts

-----------------------------------------------------------------------------
LEMMA InitIInv == Init => IInv
<1> SUFFICES ASSUME Init PROVE IInv
  OBVIOUS
<1>1. TypeOK
  <2>1. leaked \in 0 .. MaxFds /\ disk \in [Block -> Data]
    BY DeviceAssumption DEF Init
  <2>2. disk_map \subseteq Block /\ block_map \subseteq Block /\ handed \subseteq DataBlock
    BY DEF Init
  <2> QED
    BY <2>1, <2>2 DEF Init, TypeOK
<1>2. CreationInv /\ HandedAllocated /\ ReservedInv /\ MapCoherent
  BY DEF Init, CreationInv, HandedAllocated, ReservedInv, MapCoherent
<1> QED
  BY <1>1, <1>2 DEF IInv

\* Calls that fail before they touch a map.
LEMMA UnavailableStep ==
    ASSUME IInv, Unavailable
    PROVE  IInv'
BY DEF IInv, Unavailable, TypeOK, CreationInv, HandedAllocated, ReservedInv, MapCoherent,
       diskVars

LEMMA EarlyReturnStep ==
    ASSUME IInv, ReturnWithoutClose, UNCHANGED <<block_map, handed, reissued>>,
           disk' \in [Block -> Data]
    PROVE  IInv'
<1>1. leaked' \in 0 .. MaxFds
  BY DeviceAssumption DEF IInv, TypeOK, ReturnWithoutClose, Opened
<1> QED
  BY <1>1 DEF IInv, ReturnWithoutClose, TypeOK, CreationInv, HandedAllocated, ReservedInv,
              MapCoherent

\* Start-up and termination.
LEMMA StartStep ==
    ASSUME IInv,
           CreateImage \/ CreateHeader \/ CreateMap \/ LoadRejected \/ LoadImage
    PROVE  IInv'
<1> USE DEF IInv, diskVars
<1>1. CASE CreateImage
  BY <1>1 DEF CreateImage, TypeOK, CreationInv, HandedAllocated, ReservedInv, MapCoherent
<1>2. CASE CreateHeader
  BY <1>2, BlockFacts
     DEF CreateHeader, TypeOK, CreationInv, HandedAllocated, ReservedInv, MapCoherent
<1>3. CASE CreateMap
  <2>1. TypeOK'
    BY <1>3 DEF CreateMap, TypeOK
  <2>2. CreationInv'
    <3>1. /\ image' # "absent" /\ phase' = "up" /\ file_system_path'
          /\ HostFaults = {} => image' = "headed"
      BY <1>3 DEF CreateMap, CreationInv
    <3> QED
      BY <3>1 DEF CreationInv
  <2>3. HandedAllocated'
    BY <1>3 DEF CreateMap, HandedAllocated, CreationInv
  <2>4. ReservedInv' /\ MapCoherent'
    BY <1>3 DEF CreateMap, CreationInv, ReservedInv, MapCoherent
  <2> QED
    BY <2>1, <2>2, <2>3, <2>4
<1>4. CASE LoadRejected
  <2>1. leaked' \in 0 .. MaxFds
    BY <1>4, DeviceAssumption DEF LoadRejected
  <2>2. block_map = {} /\ ~file_system_path /\ (HostFaults = {} => disk_map = {})
    BY <1>4 DEF LoadRejected, CreationInv
  <2>3. TypeOK' /\ CreationInv'
    BY <1>4, <2>1, <2>2 DEF LoadRejected, TypeOK, CreationInv
  <2>4. HandedAllocated' /\ ReservedInv' /\ MapCoherent'
    BY <1>4, <2>2 DEF LoadRejected, HandedAllocated, ReservedInv, MapCoherent
  <2> QED
    BY <2>3, <2>4
<1>5. CASE LoadImage
  BY <1>5 DEF LoadImage, TypeOK, CreationInv, HandedAllocated, ReservedInv, MapCoherent
<1> QED
  BY <1>1, <1>2, <1>3, <1>4, <1>5

LEMMA HaltStep ==
    ASSUME IInv, Halt \/ HaltInWriteBlock
    PROVE  IInv'
<1> USE DEF IInv, ProcessGone, diskVars
<1>1. CASE Halt
  <2>1. leaked' \in 0 .. MaxFds
    BY <1>1, DeviceAssumption DEF Halt
  <2>2. TypeOK' /\ CreationInv'
    BY <1>1, <2>1 DEF Halt, TypeOK, CreationInv
  <2>3. HandedAllocated' /\ ReservedInv' /\ MapCoherent'
    BY <1>1 DEF Halt, HandedAllocated, ReservedInv, MapCoherent
  <2> QED
    BY <2>2, <2>3
<1>2. CASE HaltInWriteBlock
  <2>1. PICK b \in DataBlock : assignable(b) /\ disk_map' = block_map \cup {b}
    BY <1>2 DEF HaltInWriteBlock
  <2>2. phase = "up" /\ file_system_path
    BY <1>2 DEF HaltInWriteBlock, Opened
  <2>3. TypeOK' /\ CreationInv'
    <3>1. leaked' \in 0 .. MaxFds
      BY <1>2, DeviceAssumption DEF HaltInWriteBlock
    <3>2. disk_map' \subseteq Block
      BY <2>1, BlockFacts DEF TypeOK
    <3>3. TypeOK'
      BY <1>2, <3>1, <3>2 DEF HaltInWriteBlock, TypeOK
    <3>4. /\ image' # "absent" /\ phase' = "down" /\ block_map' = {} /\ ~file_system_path'
          /\ HostFaults = {} => image' = "headed"
      BY <1>2, <2>2 DEF HaltInWriteBlock, CreationInv
    <3> QED
      BY <3>3, <3>4 DEF CreationInv
  <2>4. HandedAllocated' /\ MapCoherent'
    BY <1>2, <2>1, <2>2 DEF HaltInWriteBlock, HandedAllocated, MapCoherent
  <2>5. ReservedInv'
    BY <1>2, <2>1, <2>2, ReservedUntouched DEF HaltInWriteBlock, ReservedInv
  <2> QED
    BY <2>3, <2>4, <2>5
<1> QED
  BY <1>1, <1>2

-----------------------------------------------------------------------------
(* The block operations.                                                   *)

LEMMA ModifyStep ==
    ASSUME IInv, NEW id \in Block, NEW d \in Data, modify_block(id, d)
    PROVE  IInv'
<1>1. CASE Unavailable
  BY <1>1, UnavailableStep
<1>2. CASE ReturnWithoutClose /\ UNCHANGED <<block_map, handed, reissued>>
           /\ (UNCHANGED disk \/ Garbled(id))
  <2>1. disk' \in [Block -> Data]
    BY <1>2 DEF IInv, TypeOK, Garbled
  <2> QED
    BY <1>2, <2>1, EarlyReturnStep
<1>3. CASE /\ disk' = [disk EXCEPT ![id] = d]
           /\ UNCHANGED <<image, disk_map, processVars, handed, reissued>>
  BY <1>3 DEF IInv, processVars, TypeOK, CreationInv, HandedAllocated, ReservedInv,
              MapCoherent
<1> QED
  BY <1>1, <1>2, <1>3 DEF modify_block

LEMMA ReadStep ==
    ASSUME IInv, NEW id \in Block, read_block(id)
    PROVE  IInv'
<1>1. CASE Unavailable
  BY <1>1, UnavailableStep
<1>2. CASE ReturnWithoutClose /\ UNCHANGED <<disk, block_map, handed, reissued>>
  <2>1. disk' \in [Block -> Data]
    BY <1>2 DEF IInv, TypeOK
  <2> QED
    BY <1>2, <2>1, EarlyReturnStep
<1>3. CASE UNCHANGED vars
  BY <1>3 DEF vars, diskVars, processVars, IInv, TypeOK, CreationInv, HandedAllocated,
              ReservedInv, MapCoherent
<1> QED
  BY <1>1, <1>2, <1>3 DEF read_block

\* Assigning a block keeps every owner's block marked.
LEMMA AssignStep ==
    ASSUME IInv, NEW b \in DataBlock, Opened, assign_block(b),
           Granted(b),
           disk' \in [Block -> Data], leaked' \in 0 .. MaxFds,
           UNCHANGED <<image, phase, file_state, file_system_path>>
    PROVE  IInv'
<1> USE DEF assign_block, Granted
<1>1. phase = "up" /\ file_system_path
  BY DEF Opened
<1>2. TypeOK'
  BY BlockFacts DEF IInv, TypeOK
<1>3. CreationInv'
  BY <1>1 DEF IInv, CreationInv
<1>4. HandedAllocated' /\ MapCoherent'
  BY <1>1 DEF IInv, HandedAllocated, MapCoherent
<1>5. ReservedInv'
  BY <1>1, ReservedUntouched DEF IInv, ReservedInv
<1> QED
  BY <1>2, <1>3, <1>4, <1>5 DEF IInv

LEMMA WriteStep ==
    ASSUME IInv, NEW d \in Data, write_block(d)
    PROVE  IInv'
<1>1. CASE Unavailable
  BY <1>1, UnavailableStep
<1>2. CASE WriteBlockFull
  <2>1. CASE UNCHANGED block_map
    <3>1. disk' \in [Block -> Data]
      BY <1>2 DEF WriteBlockFull, IInv, TypeOK
    <3> QED
      BY <1>2, <2>1, <3>1, EarlyReturnStep DEF WriteBlockFull
  <2>2. CASE /\ "write" \in HostFaults
             /\ \E b \in DataBlock : assignable(b) /\ block_map' = block_map \cup {b}
    <3>1. PICK b \in DataBlock : block_map' = block_map \cup {b}
      BY <2>2
    <3>2. phase = "up" /\ file_system_path
      BY <1>2 DEF WriteBlockFull, ReturnWithoutClose, Opened
    <3>3. TypeOK'
      BY <1>2, <3>1, BlockFacts, DeviceAssumption
         DEF WriteBlockFull, ReturnWithoutClose, Opened, IInv, TypeOK
    <3>4. CreationInv' /\ HandedAllocated'
      BY <1>2, <3>1, <3>2
         DEF WriteBlockFull, ReturnWithoutClose, IInv, CreationInv, HandedAllocated
    <3>5. ReservedInv'
      BY <1>2, <3>1, <3>2, ReservedUntouched
         DEF WriteBlockFull, ReturnWithoutClose, IInv, ReservedInv
    <3>6. MapCoherent'
      BY <2>2 DEF MapCoherent
    <3> QED
      BY <3>3, <3>4, <3>5, <3>6 DEF IInv
  <2> QED
    BY <1>2, <2>1, <2>2 DEF WriteBlockFull
<1>3. ASSUME NEW b \in DataBlock, WriteBlockDone(b, d)
      PROVE  IInv'
  <2>1. disk' \in [Block -> Data] /\ leaked' \in 0 .. MaxFds
    BY <1>3, BlockFacts DEF WriteBlockDone, IInv, TypeOK
  <2> QED
    BY <1>3, <2>1, AssignStep DEF WriteBlockDone
<1>4. ASSUME NEW b \in DataBlock, WriteBlockTorn(b)
      PROVE  IInv'
  <2>1. disk' \in [Block -> Data] /\ leaked' \in 0 .. MaxFds
    BY <1>4, BlockFacts, DeviceAssumption
       DEF WriteBlockTorn, Garbled, Opened, IInv, TypeOK
  <2> QED
    BY <1>4, <2>1, AssignStep DEF WriteBlockTorn
<1> QED
  BY <1>1, <1>2, <1>3, <1>4 DEF write_block

LEMMA DeleteStep ==
    ASSUME IInv, NEW id \in DataBlock \cup {0}, delete_block(id)
    PROVE  IInv'
<1>1. CASE Unavailable
  BY <1>1, UnavailableStep
<1>2. CASE ReturnWithoutClose /\ UNCHANGED <<disk, block_map, handed, reissued>>
  <2>1. disk' \in [Block -> Data]
    BY <1>2 DEF IInv, TypeOK
  <2> QED
    BY <1>2, <2>1, EarlyReturnStep
<1>3. CASE /\ id # 0
           /\ Opened
           /\ block_map' = block_map \ {id}
           /\ disk_map' = block_map' \/ ("write" \in HostFaults /\ UNCHANGED disk_map)
           /\ handed' = handed \ {id}
           /\ UNCHANGED <<image, disk, phase, file_state, file_system_path, leaked, reissued>>
  <2>1. phase = "up" /\ file_system_path /\ id \in DataBlock
    BY <1>3 DEF Opened
  <2>2. TypeOK' /\ CreationInv'
    BY <1>3, <2>1 DEF IInv, TypeOK, CreationInv
  <2>3. HandedAllocated' /\ MapCoherent'
    BY <1>3, <2>1 DEF IInv, HandedAllocated, MapCoherent
  <2>4. ReservedInv'
    BY <1>3, <2>1, ReservedUntouched DEF IInv, ReservedInv
  <2> QED
    BY <2>2, <2>3, <2>4 DEF IInv
<1> QED
  BY <1>1, <1>2, <1>3 DEF delete_block

LEMMA NextIInv == IInv /\ [Next]_vars => IInv'
<1> SUFFICES ASSUME IInv, [Next]_vars PROVE IInv'
  OBVIOUS
<1>1. CASE CreateImage \/ CreateHeader \/ CreateMap \/ LoadRejected \/ LoadImage
  BY <1>1, StartStep
<1>2. CASE Halt \/ HaltInWriteBlock
  BY <1>2, HaltStep
<1>3. ASSUME NEW id \in Block, NEW d \in Data, modify_block(id, d)
      PROVE  IInv'
  BY <1>3, ModifyStep
<1>4. ASSUME NEW id \in Block, read_block(id)
      PROVE  IInv'
  BY <1>4, ReadStep
<1>5. ASSUME NEW d \in Data, write_block(d)
      PROVE  IInv'
  BY <1>5, WriteStep
<1>6. ASSUME NEW id \in DataBlock \cup {0}, delete_block(id)
      PROVE  IInv'
  BY <1>6, DeleteStep
<1>7. CASE UNCHANGED vars
  BY <1>7 DEF vars, diskVars, processVars, IInv, TypeOK, CreationInv, HandedAllocated,
              ReservedInv, MapCoherent
<1> QED
  BY <1>1, <1>2, <1>3, <1>4, <1>5, <1>6, <1>7 DEF Next

LEMMA InvariantIInv == Spec => []IInv
BY InitIInv, NextIInv, PTL DEF Spec

-----------------------------------------------------------------------------
(* The theorems.                                                           *)

\* Every variable keeps its type: in particular no more than MaxFds
\* descriptors ever leak and only data blocks are handed out.
THEOREM TypeCorrect == Spec => []TypeOK
BY InvariantIInv, PTL DEF IInv

\* A block handed out stays marked in the image until it is deleted, and in the
\* memory of every session that recorded the path of its image, whichever
\* reads and writes of the host fail, those of the header included, and
\* wherever the process dies. Only a map that could not be read at start-up
\* takes blocks from their owners (LoadImage).
THEOREM BlocksKept == Spec => []HandedAllocated
BY InvariantIInv, PTL DEF IInv

\* The reserved blocks stay marked all together or not at all, whichever calls
\* of the host fail.
THEOREM ReservedTogether == Spec => []ReservedWhole
<1>1. IInv => ReservedWhole
  BY DEF IInv, ReservedInv, ReservedWhole
<1> QED
  BY <1>1, InvariantIInv, PTL

\* On a host whose calls do not fail, memory and image agree on the map
\* between any two calls.
THEOREM MapsAgree == Spec => []MapCoherent
BY InvariantIInv, PTL DEF IInv

\* The block layer implements the allocator: every step of the program is an
\* allocation of a block nobody owns, a release, a loss allowed by a read
\* fault, or no step of the allocator at all.
THEOREM ImplementsAllocator == Spec => AllocatorSpec
<1>1. Init => Allocator!Init
  BY DEF Init, Allocator!Init
<1>2. IInv /\ [Next]_vars => [Allocator!Next]_<<handed, reissued>>
  <2> SUFFICES ASSUME IInv, Next, <<handed, reissued>>' # <<handed, reissued>>
               PROVE  Allocator!Next
    BY DEF vars
  <2>1. CASE LoadImage
    BY <2>1 DEF LoadImage, Allocator!Next, Allocator!Forget
  <2>2. ASSUME NEW d \in Data, NEW b \in DataBlock, WriteBlockDone(b, d) \/ WriteBlockTorn(b)
        PROVE  Allocator!Next
    <3>1. b \notin handed
      BY <2>2 DEF WriteBlockDone, WriteBlockTorn, assign_block, assignable, Free,
                  IInv, HandedAllocated
    <3>2. Allocator!Allocate
      BY <2>2, <3>1 DEF WriteBlockDone, WriteBlockTorn, Granted, Allocator!Allocate, DataBlock
    <3>3. reissued' = reissued
      BY <2>2, <3>1 DEF WriteBlockDone, WriteBlockTorn, Granted
    <3> QED
      BY <3>2, <3>3 DEF Allocator!Next
  <2>3. ASSUME NEW id \in DataBlock \cup {0}, delete_block(id)
        PROVE  Allocator!Next
    <3>1. handed' = handed \ {id} /\ reissued' = reissued
      BY <2>3 DEF delete_block, Unavailable
    <3>2. id \in handed
      BY <3>1
    <3>3. Allocator!Release
      BY <3>1, <3>2 DEF Allocator!Release
    <3> QED
      BY <3>1, <3>3 DEF Allocator!Next
  <2>4. ~(CreateImage \/ CreateHeader \/ CreateMap \/ LoadRejected \/ Halt \/ HaltInWriteBlock)
    BY DEF CreateImage, CreateHeader, CreateMap, LoadRejected, Halt, HaltInWriteBlock
  <2>5. ~\E id \in Block : read_block(id) \/ (\E d \in Data : modify_block(id, d))
    BY DEF read_block, modify_block, Unavailable, vars
  <2>6. ~(WriteBlockFull \/ Unavailable)
    BY DEF WriteBlockFull, Unavailable
  <2> QED
    BY <2>1, <2>2, <2>3, <2>4, <2>5, <2>6 DEF Next, write_block
<1> QED
  BY <1>1, <1>2, InvariantIInv, PTL DEF Spec, AllocatorSpec, Allocator!Spec
=============================================================================
