--------------------------- MODULE BlockAllocator ---------------------------
(***************************************************************************)
(* What the block layer promises its callers: a block handed out by        *)
(* write_block belongs to the caller until the caller gives it back to     *)
(* delete_block, and no other call is handed that block in between.        *)
(* BlockDevice implements this specification, across restarts of the       *)
(* program and across host failures.                                       *)
(***************************************************************************)
EXTENDS Integers

CONSTANTS
    BLOCKS_NUMBER,  \* blocks of the image
    blocks_from,    \* first block handed out
    MayForget       \* may a failed load of the block map lose all ownership?

VARIABLES
    used,           \* the blocks owned by callers
    doubled         \* the blocks ever given to a second caller while owned: none

Init ==
    /\ used = {}
    /\ doubled = {}

\* A call is handed a block nobody owns.
Allocate ==
    \E b \in (blocks_from .. BLOCKS_NUMBER - 1) \ used : used' = used \cup {b}

\* An owner gives a block back.
Release ==
    \E b \in used : used' = used \ {b}

\* The map was not read back at start-up: nothing is owned any more.
Forget ==
    /\ MayForget
    /\ used' = {}

Next == (Allocate \/ Release \/ Forget) /\ UNCHANGED doubled

Spec == Init /\ [][Next]_<<used, doubled>>
=============================================================================
