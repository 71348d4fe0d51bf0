----------------------------- MODULE Namespace -----------------------------
(***************************************************************************)
(* The tree of directories and files: the table of inodes in memory,       *)
(* searched by full path, the inode bitmap and the inodes of the image,    *)
(* and the commands that name, create and remove them                      *)
(* (directories_and_files.c and the commands of commands.c that call it).  *)
(*                                                                         *)
(* A path is the sequence of its names; "/" is <<>>. The code compares     *)
(* paths as character strings; what that adds to comparing names one by    *)
(* one is given by two constants, Within and Leftover. Bytes left after    *)
(* the end of a name can only make rmdir and mkdir refuse more, which the  *)
(* model allows: no command has to be given.                               *)
(***************************************************************************)
EXTENDS Integers, Sequences

CONSTANTS
    INODE_NUM,      \* inodes, and slots of the table
    Path,           \* the paths commands are given
    Within,         \* <<x, y>>: name x occurs inside name y
    Leftover        \* [<<x, y>> |-> z]: y is x, one more character, and then z

Id   == 0 .. INODE_NUM - 1
Root == <<>>

\* The names of a slot that names nothing: "" and " ".
Unnamed == <<"">>
Removed == <<" ">>

ASSUME NamespaceAssumption ==
    /\ INODE_NUM \in Nat \ {0}
    /\ Unnamed \notin Path
    /\ Removed \notin Path
    /\ Root \in Path

VARIABLES
    \* on the image
    disk_bitmap,        \* the ids marked in use
    disk_inode,         \* the inodes
    \* in the process
    up,                 \* is the program serving?
    online,             \* can it still open the image? (file_state in BlockDevice)
    superblock_inode,   \* the bitmap in memory
    inode_entries,      \* the table of inodes
    cur_path,           \* the current directory
    \* history
    kept,               \* the path each inode was last stored under, and not removed
    accidents           \* what happened that the names do not survive

vars == <<disk_bitmap, disk_inode, up, online, superblock_inode, inode_entries, cur_path,
          kept, accidents>>

Parent(p) == IF p = Root THEN Root ELSE SubSeq(p, 1, Len(p) - 1)
Name(p)   == IF p = Root THEN "" ELSE p[Len(p)]
First(S)  == CHOOSE m \in S : \A k \in S : m <= k

\* file_type: 0 none, 1 file, 2 directory.
Inode(id, name, type) == [inode_id |-> id, filename |-> name, file_type |-> type]
EmptySlot == Inode(-1, Unnamed, 0)
DeadSlot  == Inode(-1, Removed, 0)

TypeOK ==
    LET InodeRecord == [inode_id : Id \cup {-1}, filename : Path \cup {Unnamed, Removed},
                        file_type : 0 .. 2]
    IN /\ disk_bitmap \subseteq Id
       /\ disk_inode \in [Id -> InodeRecord]
       /\ up \in BOOLEAN
       /\ online \in BOOLEAN
       /\ superblock_inode \subseteq Id
       /\ inode_entries \in [Id -> InodeRecord]
       /\ cur_path \in Path \cup {Unnamed, Removed}
       /\ kept \in [Id -> Path \cup {Unnamed}]
       /\ accidents \subseteq {"cut", "overflow", "root"}

\* An image just formatted: no bit is set and every inode is zero bytes.
Init ==
    /\ disk_bitmap = {}
    /\ disk_inode = [id \in Id |-> Inode(0, Unnamed, 0)]
    /\ up = FALSE
    /\ online = FALSE
    /\ superblock_inode = {}
    /\ inode_entries = [s \in Id |-> EmptySlot]
    /\ cur_path = Root
    /\ kept = [id \in Id |-> Unnamed]
    /\ accidents = {}

-----------------------------------------------------------------------------
(* Searching the table.                                                    *)

\* get_inode_from_path looks at files, change_dir and delete_dir at
\* directories, whether or not they have an inode.
Files(p) == {s \in Id : /\ inode_entries[s].inode_id # -1
                        /\ inode_entries[s].filename = p
                        /\ inode_entries[s].file_type = 1}
Dirs(p)  == {s \in Id : inode_entries[s].filename = p /\ inode_entries[s].file_type = 2}

InTable == {inode_entries[s].filename : s \in Id} \ {Unnamed, Removed}
Below(p) == {q \in InTable : Len(q) > Len(p) /\ SubSeq(q, 1, Len(p)) = p}

\* Mutant: only the directories below dir are listed.
list_dirOfDirectories(dir) ==
    {q[Len(dir) + 1] : q \in {r \in Below(dir) : Dirs(r) # {}}}

\* list_dir shows a path when it starts with the string dir: the paths below
\* dir, and those below or at a longer name next to dir, by what is left of
\* that name after one more character.
list_dir(dir) ==
    {q[Len(dir) + 1] : q \in Below(dir)} \cup
    (IF dir = Root THEN {} ELSE
     {Leftover[<<Name(dir), q[Len(dir)]>>] :
         q \in {r \in InTable : /\ Len(r) >= Len(dir)
                                /\ SubSeq(r, 1, Len(dir) - 1) = Parent(dir)
                                /\ <<Name(dir), r[Len(dir)]>> \in DOMAIN Leftover}})

\* search_dir: is the name found anywhere in the text of the listing, and is
\* pwd a directory?
search_dir(pwd, name) ==
    /\ name = "" \/ \E x \in list_dir(pwd) : name = x \/ <<name, x>> \in Within
    /\ Dirs(pwd) # {}

\* Mutant: the search runs one id too far.
FreeIdsTooFar == (0 .. INODE_NUM) \ superblock_inode

\* create_inode takes the first id whose bit is clear.
FreeIds == Id \ superblock_inode

\* The slots create_dir takes, and those insert_inode_into_table takes.
UnnamedSlots == {s \in Id : inode_entries[s].filename = Unnamed}
FreeSlots    == {s \in UnnamedSlots : inode_entries[s].inode_id = -1}

-----------------------------------------------------------------------------
(* Changes of the bitmap and of an inode reach the image while it can be   *)
(* opened.                                                                 *)

\* Mutant: the bitmap stays in memory.
SaveBitmapUnsaved(map) ==
    /\ superblock_inode' = map
    /\ UNCHANGED disk_bitmap

SaveBitmap(map) ==
    /\ superblock_inode' = map
    /\ disk_bitmap' = IF online THEN map ELSE disk_bitmap

\* create_inode: the lowest free id is marked, then the inode is written.
create_inode(name, type) ==
    /\ SaveBitmap(superblock_inode \cup {First(FreeIds)})
    /\ IF online
       THEN /\ disk_inode' = [disk_inode EXCEPT ![First(FreeIds)] =
                                  Inode(First(FreeIds), name, type)]
            /\ kept' = [kept EXCEPT ![First(FreeIds)] = name]
       ELSE UNCHANGED <<disk_inode, kept>>

-----------------------------------------------------------------------------
(* The commands.                                                           *)

\* Mutant: the path may be taken.
touchAgain(p) ==
    /\ up
    /\ FreeIds # {} /\ FreeSlots # {}
    /\ create_inode(p, 1)
    /\ inode_entries' = [inode_entries EXCEPT ![First(FreeSlots)] =
                             Inode(First(FreeIds), p, 1)]
    /\ UNCHANGED <<accidents, up, online, cur_path>>

\* touch: the parent is not looked at, and the inode may find no slot.
touch(p) ==
    /\ up
    /\ Files(p) = {}
    /\ FreeIds # {}
    /\ create_inode(p, 1)
    /\ IF FreeSlots # {}
       THEN /\ inode_entries' = [inode_entries EXCEPT ![First(FreeSlots)] =
                                     Inode(First(FreeIds), p, 1)]
            /\ UNCHANGED accidents
       ELSE /\ accidents' = accidents \cup {"overflow"}
            /\ UNCHANGED inode_entries
    /\ UNCHANGED <<up, online, cur_path>>

\* mkdir: a name found in the listing of the parent is refused. Without a free
\* inode every unnamed slot takes the name and the command fails.
mkdir(p) ==
    /\ up
    /\ Dirs(p) = {}
    /\ ~search_dir(Parent(p), Name(p))
    /\ UnnamedSlots # {}
    /\ IF FreeIds # {}
       THEN /\ create_inode(p, 2)
            /\ inode_entries' = [inode_entries EXCEPT ![First(UnnamedSlots)] =
                                     Inode(First(FreeIds), p, 2)]
       ELSE /\ inode_entries' = [s \in Id |->
                   IF s \in UnnamedSlots THEN Inode(inode_entries[s].inode_id, p, 2)
                   ELSE inode_entries[s]]
            /\ UNCHANGED <<disk_bitmap, disk_inode, superblock_inode, kept>>
    /\ UNCHANGED <<up, online, cur_path, accidents>>

\* cd, with a path and without.
cd(p) ==
    /\ up
    /\ Dirs(p) # {}
    /\ cur_path' = p
    /\ UNCHANGED <<disk_bitmap, disk_inode, up, online, superblock_inode, inode_entries,
                   kept, accidents>>

CdHome ==
    /\ up
    /\ cur_path' = Root
    /\ UNCHANGED <<disk_bitmap, disk_inode, up, online, superblock_inode, inode_entries,
                   kept, accidents>>

\* The bit of an inode that goes is cleared, on the image too while it can be
\* opened; the inode itself stays there as it was. The id of a directory that
\* got no inode is -1, and no bit of the map is that id's. Only an inode that
\* was stored under p counts as removed by its owner.
Forget(id, p) ==
    /\ SaveBitmap(superblock_inode \ {id})
    /\ kept' = IF online THEN [k \in Id |-> IF k = id /\ kept[k] = p THEN Unnamed ELSE kept[k]]
               ELSE kept

\* rm: delete_inode_from_table looks the slot up again, by its id.
rm(p) ==
    /\ up
    /\ p # Root
    /\ Files(p) # {}
    /\ LET id == inode_entries[First(Files(p))].inode_id
           s  == First({t \in Id : inode_entries[t].inode_id = id})
       IN /\ Forget(id, p)
          /\ inode_entries' = [inode_entries EXCEPT ![s] = DeadSlot]
    /\ UNCHANGED <<disk_inode, up, online, cur_path, accidents>>

\* rmdir: refused while anything is listed. Nothing protects "/" or the
\* current directory.
rmdir(p) ==
    /\ up
    /\ Dirs(p) # {}
    /\ list_dir(p) = {}
    /\ Forget(inode_entries[First(Dirs(p))].inode_id, p)
    /\ inode_entries' = [inode_entries EXCEPT ![First(Dirs(p))] = EmptySlot]
    /\ accidents' = IF p = Root THEN accidents \cup {"root"} ELSE accidents
    /\ UNCHANGED <<disk_inode, up, online, cur_path>>

-----------------------------------------------------------------------------
(* The image becomes unreachable for the rest of the session: see          *)
(* Unavailable in BlockDevice.                                             *)

GoOffline ==
    /\ up /\ online
    /\ online' = FALSE
    /\ UNCHANGED <<disk_bitmap, disk_inode, up, superblock_inode, inode_entries, cur_path,
                   kept, accidents>>

ProcessGone ==
    /\ up' = FALSE
    /\ online' = FALSE
    /\ superblock_inode' = {}
    /\ inode_entries' = [s \in Id |-> EmptySlot]
    /\ cur_path' = Root
    /\ UNCHANGED <<disk_inode, kept>>

Die ==
    /\ up
    /\ ProcessGone
    /\ UNCHANGED <<disk_bitmap, accidents>>

\* The process dies inside create_inode, between the bitmap and the inode.
DieInCreate ==
    /\ up /\ online
    /\ FreeIds # {}
    /\ disk_bitmap' = superblock_inode \cup {First(FreeIds)}
    /\ accidents' = accidents \cup {"cut"}
    /\ ProcessGone

\* query_inode: an inode is loaded when its bit is set and its own id is
\* right; inode 0 of a new image is, once its bit is set.
Live(id) == id \in disk_bitmap /\ disk_inode[id].inode_id = id

\* Mutant: the bit is not looked at.
LoadedUnmarked ==
    [id \in Id |-> IF disk_inode[id].inode_id = id THEN disk_inode[id] ELSE EmptySlot]

Loaded   == [id \in Id |-> IF Live(id) THEN disk_inode[id] ELSE EmptySlot]
RootLoaded == \E id \in Id : Loaded[id].filename = Root

\* Mutant: the search starts one id too high.
FreeOnDiskShort == Id \ (disk_bitmap \cup {0})

FreeOnDisk == Id \ disk_bitmap

\* init_dir: the table is loaded and, when nothing in it is called "/", slot 0
\* becomes the root whatever it held. create_inode gives it an id, but its
\* result, 0 or -1, is then stored in the slot as the id. The program starts
\* in the directory slot 0 names.
Mount ==
    /\ ~up
    /\ up' = TRUE
    /\ online' = TRUE
    /\ cur_path' = inode_entries'[0].filename
    /\ UNCHANGED accidents

MountTree ==
    /\ RootLoaded
    /\ superblock_inode' = disk_bitmap
    /\ inode_entries' = Loaded
    /\ UNCHANGED <<disk_bitmap, disk_inode, kept>>
    /\ Mount

MountAndMakeRoot ==
    /\ ~RootLoaded
    /\ IF FreeOnDisk # {}
       THEN LET id == First(FreeOnDisk)
            IN /\ superblock_inode' = disk_bitmap \cup {id}
               /\ disk_bitmap' = superblock_inode'
               /\ disk_inode' = [disk_inode EXCEPT ![id] = Inode(id, Root, 2)]
               /\ kept' = [kept EXCEPT ![id] = Root]
               /\ inode_entries' = [Loaded EXCEPT ![0] = Inode(0, Root, 2)]
       ELSE /\ superblock_inode' = disk_bitmap
            /\ inode_entries' = [Loaded EXCEPT ![0] = Inode(-1, Root, 2)]
            /\ UNCHANGED <<disk_bitmap, disk_inode, kept>>
    /\ Mount

\* The process dies inside the create_inode of init_dir.
DieInMount ==
    /\ ~up
    /\ ~RootLoaded
    /\ FreeOnDisk # {}
    /\ disk_bitmap' = disk_bitmap \cup {First(FreeOnDisk)}
    /\ accidents' = accidents \cup {"cut"}
    /\ UNCHANGED <<disk_inode, up, online, superblock_inode, inode_entries, cur_path, kept>>

Command ==
    \/ \E p \in Path : touch(p) \/ mkdir(p) \/ cd(p) \/ rm(p) \/ rmdir(p)
    \/ CdHome

Next ==
    \/ Command
    \/ GoOffline
    \/ Die
    \/ DieInCreate
    \/ MountTree
    \/ MountAndMakeRoot
    \/ DieInMount

Spec == Init /\ [][Next]_vars

-----------------------------------------------------------------------------
(* Properties.                                                             *)

\* No two slots of the table hold the same inode, and the bit of every inode
\* in the table is set, so create_inode never takes an inode that is in use:
\* across restarts, a root made anew with the id init_dir invents for it,
\* and inodes that come back after an unfinished creation.
TableOwnsInodes ==
    /\ \A s, t \in Id : inode_entries[s].inode_id = inode_entries[t].inode_id
                        /\ inode_entries[s].inode_id # -1 => s = t
    /\ \A s \in Id : inode_entries[s].inode_id \in superblock_inode \cup {-1}

\* What was stored is there after any restart: an inode created while the
\* image could be opened, and not removed by its own path since, is on the
\* image under that path (create_inode, query_inode), as long as the root was
\* never removed.
StoredSurvives ==
    "root" \notin accidents =>
        \A id \in Id : kept[id] # Unnamed => Live(id) /\ disk_inode[id].filename = kept[id]

\* A path names one file and one directory at most in the table (search_file
\* in create_file, change_dir in mkdir1), unless an inode was left half made,
\* a file found no slot, or the root was removed.
NamesUnique ==
    accidents = {} =>
        \A s, t \in Id : /\ inode_entries[s].inode_id # -1
                         /\ inode_entries[t].inode_id # -1
                         /\ inode_entries[s].filename = inode_entries[t].filename
                         /\ inode_entries[s].file_type = inode_entries[t].file_type
                         => s = t

\* rmdir never takes away a directory that has something in it (delete_dir,
\* list_dir).
RmdirKeepsChildren ==
    [][\A p \in Path : up /\ up' /\ Dirs(p) # {} /\ Dirs(p)' = {} => Below(p) = {}]_vars

\* The program starts in a directory, though it takes whatever slot 0 names
\* for it (init_dir), unless an inode was left half made, a file found no
\* slot, or the root was removed.
StartsInDirectory ==
    [][~up /\ up' => Dirs(cur_path)' # {} \/ accidents # {}]_vars
=============================================================================
