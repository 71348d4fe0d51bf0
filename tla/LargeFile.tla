----------------------------- MODULE LargeFile -----------------------------
(***************************************************************************)
(* Files that reach past the direct pointers of an inode (inode.c):        *)
(* write_file keeps the rest in a block of pointers at                     *)
(* num[INDIRECT_BLOCK_GROUP_SIZE], never reads that block, and counts the  *)
(* blocks of the file in a local that was not set; read_file and           *)
(* delete_file take the last direct pointer for it.                        *)
(*                                                                         *)
(* Operations are single steps on an image that works: FileStore           *)
(* interrupts them. Sizes are in blocks. The behaviours end where one      *)
(* overruns its locals or reaches the reserved blocks (Stray).             *)
(***************************************************************************)
EXTENDS Integers, FiniteSets, FiniteSetsExt

CONSTANTS
    INDIRECT_BLOCK_GROUP_SIZE,  \* direct pointers in an inode (12)
    Pointers,       \* pointers the program keeps in an indirect block (256)
    Block,          \* data blocks
    SIZE_OF_BLOCK,  \* the id from which delete_block and modify_block refuse
    File,
    Payload,        \* what is written into a file
    Garbage         \* what an uninitialised single_indirect_block may hold

G         == INDIRECT_BLOCK_GROUP_SIZE
MaxBlocks == G + Pointers
Zeroes    == [k \in 0 .. Pointers - 1 |-> 0]

ASSUME LargeFileAssumption ==
    /\ G \in Nat \ {0}
    /\ Pointers \in Nat \ {0}
    /\ Block \subseteq Nat \ {0} /\ IsFiniteSet(Block)
    /\ SIZE_OF_BLOCK \in Nat
    /\ Garbage \subseteq [0 .. Pointers - 1 -> Int]

VARIABLES
    used,       \* the map
    disk,       \* what each block holds
    num,        \* the pointers of each inode, the indirect one last
    file_size,
    \* history
    stored,     \* what the first write of each file stored, until the next one
    reused,     \* has an operation met a file without a free direct pointer?
    starved,    \* did a write run out of blocks?
    astray      \* did an operation overrun its locals, or reach reserved blocks?

vars == <<used, disk, num, file_size, stored, reused, starved, astray>>

Index   == 0 .. G
Nothing == <<"nothing">>
Unknown == "unknown"
Data(f, v, k) == <<"data", f, v, k>>
Indirect(tab) == <<"table", tab>>

Init ==
    /\ used = {}
    /\ disk = [b \in Block |-> Nothing]
    /\ num = [f \in File |-> [k \in Index |-> 0]]
    /\ file_size = [f \in File |-> 0]
    /\ stored = [f \in File |-> Unknown]
    /\ reused = FALSE
    /\ starved = FALSE
    /\ astray = FALSE

-----------------------------------------------------------------------------
First(S) == CHOOSE m \in S : \A k \in S : m <= k

\* The direct pointers a file uses: all G when none is free.
Direct(f) == First({k \in 0 .. G - 1 : num[f][k] = 0} \cup {G})

\* What write_file may count for block_inuse, with tab in its local: up to the
\* free direct pointer, else up to the free one of tab, else whatever was
\* there. Of those ints, a negative one makes every loop go as 0 does, and one
\* beyond the table is left to Stray.
Counts(f, tab) ==
    LET free == {k \in DOMAIN tab : tab[k] = 0}
    IN IF num[f][G] # 0 /\ free # {} THEN {G + First(free)}
       ELSE IF num[f][G] = 0 /\ Direct(f) < G THEN {Direct(f)}
       ELSE 0 .. MaxBlocks

\* Mutant: the search for a free block ends one too late.
TakenTooFar(n) ==
    LET free == (Block \cup {Max(Block) + 1}) \ used
    IN IF n \in 1 .. Cardinality(free)
       THEN CHOOSE b \in free : Cardinality({x \in free : x <= b}) = n
       ELSE 0

\* Every write_block takes the lowest free block: the n-th one, 0 when there
\* are no more.
Taken(n) ==
    LET free == Block \ used
    IN IF n \in 1 .. Cardinality(free)
       THEN CHOOSE b \in free : Cardinality({x \in free : x <= b}) = n
       ELSE 0

\* delete_block of each block of S: ids from SIZE_OF_BLOCK on are refused.
delete_blocks(S) == used \ {b \in S : b < SIZE_OF_BLOCK}

\* Does modify_block write b? It refuses the same ids, and unmarked blocks.
modifies(b) == b \in used' /\ b < SIZE_OF_BLOCK

Pointer(f, tab, k) == IF k < G THEN num[f][k] ELSE tab[k - G]

\* The pieces of v go to the blocks ptr names, then a table to block at. The
\* first kept pieces, and a table that is not made now, go through
\* modify_block, the others into blocks write_block has just taken.
Filled(f, ptr, kept, size, v, tab, at, made) ==
    [b \in Block |->
        LET ks == {k \in 0 .. size - 1 : ptr[k] = b /\ (k >= kept \/ modifies(b))}
        IN IF b = at /\ (made \/ modifies(b)) THEN Indirect(tab)
           ELSE IF ks # {} THEN Data(f, v, Max(ks))
           ELSE disk[b]]

Note(f, blocks) ==
    /\ reused' = (reused \/ Direct(f) = G)
    /\ starved' = (starved \/ blocks > Cardinality(Block \ used))
    /\ UNCHANGED astray

\* Mutant: the indirect block is written one block too late.
NeedsTableLate(size) == size > G + 1

\* file_size / SIZE_OF_BLOCK >= INDIRECT_BLOCK_GROUP_SIZE
NeedsTable(size) == size > G

-----------------------------------------------------------------------------
(* write_file.                                                             *)

\* The file grows: the blocks it has are overwritten, blocks are appended, and
\* the indirect block is written, made if there is none.
Grow(f, size, v) == \E tab \in Garbage : \E inuse \in Counts(f, tab) :
    LET makes == num[f][G] = 0 /\ NeedsTable(size)
        ptr   == [k \in 0 .. MaxBlocks - 1 |->
                     IF k \in inuse .. size - 1 THEN Taken(k - inuse + 1)
                     ELSE Pointer(f, tab, k)]
        at    == IF makes THEN Taken(size - inuse + 1) ELSE num[f][G]
        new   == size - inuse + (IF makes THEN 1 ELSE 0)
    IN /\ inuse < size
       /\ used' = used \cup ({Taken(k) : k \in 1 .. new} \ {0})
       /\ disk' = Filled(f, ptr, inuse, size, v, [k \in DOMAIN tab |-> ptr[G + k]], at, makes)
       /\ num' = [num EXCEPT ![f] = [k \in Index |-> IF k < G THEN ptr[k] ELSE at]]
       /\ Note(f, new)
       /\ stored' = [stored EXCEPT ![f] = IF Direct(f) = 0 /\ new <= Cardinality(Block \ used)
                                          THEN v ELSE Unknown]

\* The file shrinks: blocks are released from the wrong index on (see
\* FileStore), the rest is overwritten, and the indirect block is released,
\* written, or made.
Shrink(f, size, v) == \E tab \in Garbage : \E inuse \in Counts(f, tab) :
    LET gone  == inuse - size .. inuse - 1
        ptr   == [k \in 0 .. MaxBlocks - 1 |-> IF k \in gone THEN 0 ELSE Pointer(f, tab, k)]
        left  == delete_blocks({Pointer(f, tab, k) : k \in gone} \cup
                               (IF size < G THEN {num[f][G]} ELSE {}))
        makes == num[f][G] = 0 /\ size >= G
        at    == IF size < G THEN 0
                 ELSE IF ~makes THEN num[f][G]
                 ELSE IF left = Block THEN 0 ELSE First(Block \ left)
    IN /\ inuse > size
       /\ used' = left \cup (IF makes THEN {at} \ {0} ELSE {})
       /\ disk' = Filled(f, ptr, size, size, v, [k \in DOMAIN tab |-> ptr[G + k]], at, makes)
       /\ num' = [num EXCEPT ![f] = [k \in Index |-> IF k < G THEN ptr[k] ELSE at]]
       /\ Note(f, 0)
       /\ stored' = [stored EXCEPT ![f] = Unknown]

Overwrite(f, size, v) == \E tab \in Garbage :
    /\ size \in Counts(f, tab)
    /\ UNCHANGED <<used, num>>
    /\ disk' = Filled(f, [k \in 0 .. MaxBlocks - 1 |-> Pointer(f, tab, k)],
                      size, size, v, tab, 0, FALSE)
    /\ Note(f, 0)
    /\ stored' = [stored EXCEPT ![f] = Unknown]

write_file(f, size, v) ==
    /\ Grow(f, size, v) \/ Shrink(f, size, v) \/ Overwrite(f, size, v)
    /\ file_size' = [file_size EXCEPT ![f] = size]

-----------------------------------------------------------------------------
(* delete_file. read_file changes nothing on the image.                    *)

\* Mutant: the indirect block is looked for behind the first pointer.
LastPointerFirst(f) == num[f][0]

\* Where read_file and delete_file look for the indirect block: in a data
\* block, four times as long as the local it is read into.
LastPointer(f) == num[f][G - 1]

\* Mutant: the block of the last pointer in use is kept.
DirectBlocksShort(f) == {num[f][k] : k \in 0 .. Direct(f) - 2}

DirectBlocks(f) == {num[f][k] : k \in 0 .. Direct(f) - 1}

\* The pointers delete_file takes from there, up to the first that is 0.
Released(tab) == {tab[k] : k \in {k \in DOMAIN tab : \A l \in 0 .. k : tab[l] # 0}}

delete_file(f) ==
    /\ \E tab \in IF LastPointer(f) # 0 THEN Garbage ELSE {Zeroes} :
           used' = delete_blocks(DirectBlocks(f) \cup Released(tab))
    /\ num' = [num EXCEPT ![f] = [k \in Index |-> 0]]
    /\ file_size' = [file_size EXCEPT ![f] = 0]
    /\ Note(f, 0)
    /\ stored' = [stored EXCEPT ![f] = Unknown]
    /\ UNCHANGED disk

\* A file whose last direct pointer is set, or that has an indirect block:
\* read_file and delete_file read a whole block into a local a quarter as long,
\* write_file may go by an unset count beyond the table, and a pointer of the
\* unset table may name a reserved block. What then happens to the process, the
\* inodes and the map this module does not follow.
Stray(f) ==
    /\ LastPointer(f) # 0 \/ num[f][G] # 0
    /\ astray' = TRUE
    /\ reused' = TRUE
    /\ UNCHANGED <<used, disk, num, file_size, stored, starved>>

Next == ~astray /\ \E f \in File :
    \/ \E size \in 1 .. MaxBlocks, v \in Payload : write_file(f, size, v)
    \/ delete_file(f)
    \/ Stray(f)

Spec == Init /\ [][Next]_vars

-----------------------------------------------------------------------------
(* Properties.                                                             *)

TypeOK ==
    /\ used \subseteq Block
    /\ DOMAIN disk = Block
    /\ num \in [File -> [Index -> Block \cup {0}]]
    /\ file_size \in [File -> 0 .. MaxBlocks]
    /\ stored \in [File -> Payload \cup {Unknown}]
    /\ {reused, starved, astray} \subseteq BOOLEAN

\* The block that holds piece k of a file, through its indirect block too.
Table(f) ==
    IF num[f][G] # 0 /\ disk[num[f][G]][1] = "table" THEN disk[num[f][G]][2] ELSE Zeroes
Where(f, k) == IF k < G THEN num[f][k] ELSE Table(f)[k - G]

\* The first write into a file stores every block of it in its place, on both
\* sides of the last direct pointer (inode.c:158-172), and keeps it whatever
\* is done to other files, as long as no operation met a file without a free
\* direct pointer: from then on write_file, read_file and delete_file follow
\* pointers nobody stored (inode.c:85, :145).
FirstWriteStored ==
    ~reused => \A f \in File : stored[f] # Unknown =>
        \A k \in 0 .. file_size[f] - 1 :
            /\ Where(f, k) \in used
            /\ disk[Where(f, k)] = Data(f, stored[f], k)

\* Until then, and unless a write ran out of blocks, the map marks the blocks
\* the files lead to, and of those delete_block can release
\* (filesystem_and_blocks.c:58) no others: shrinking or deleting a file leaves
\* its blocks beyond SIZE_OF_BLOCK marked and nobody's.
Owned(f) ==
    {num[f][k] : k \in Index} \cup {Where(f, k) : k \in G .. file_size[f] - 1}

MapIsOwned ==
    ~reused /\ ~starved =>
        /\ \A f \in File : Owned(f) \ {0} \subseteq used
        /\ \A b \in used : b < SIZE_OF_BLOCK => \E f \in File : b \in Owned(f)
=============================================================================
