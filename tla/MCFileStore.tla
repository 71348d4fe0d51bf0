---------------------------- MODULE MCFileStore ----------------------------
(***************************************************************************)
(* Instances of FileStore for TLC. Blocks 0, 1 and 2 are reserved; in      *)
(* fs_offline and fs_rewrite the last data block lies beyond the bound of  *)
(* modify_block and delete_block (SIZE_OF_BLOCK), in the others none does. *)
(***************************************************************************)
EXTENDS FileStore, TLC

\* What an unset int may hold: nothing, a block of a file, and no block at all.
Unset == {-7, 0, 3, 99}

Symmetry == Permutations(Path)

\* Histories in which the operations that are not safe to interrupt ran to
\* their end, the only ones NoSharing, NoDangling and Durable speak of, and
\* sessions that can still open the image: the others no longer change it.
UncutAndOnline ==
    /\ cut \subseteq {"write"}
    /\ phase = "up" => file_state = "open"
=============================================================================
