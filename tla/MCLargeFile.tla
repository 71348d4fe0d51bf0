---------------------------- MODULE MCLargeFile ----------------------------
(***************************************************************************)
(* Instances of LargeFile for TLC: three direct pointers and two in the    *)
(* indirect block; the last block lies beyond SIZE_OF_BLOCK; an            *)
(* uninitialised local holds zeros, names a block that can be the other    *)
(* file's, or holds ints that are no blocks.                               *)
(***************************************************************************)
EXTENDS LargeFile

Blocks == 1 .. 8
Locals == {Zeroes, [k \in 0 .. Pointers - 1 |-> 1], [k \in 0 .. Pointers - 1 |-> 4],
           [k \in 0 .. Pointers - 1 |-> k - 7]}

\* What follows an operation on pointers nobody stored is not followed.
FirstReuse == ~reused
=============================================================================
