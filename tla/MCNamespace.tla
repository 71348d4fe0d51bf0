---------------------------- MODULE MCNamespace ----------------------------
(***************************************************************************)
(* Instances of Namespace for TLC: two names at the root, the first a      *)
(* substring and a proper start of the second by two characters, and one   *)
(* path below the first.                                                   *)
(***************************************************************************)
EXTENDS Namespace

Paths     == {<<>>, <<"a">>, <<"abc">>, <<"a", "x">>}
Occurs    == {<<"a", "abc">>}
LeftOver  == [pair \in {<<"a", "abc">>} |-> "c"]

\* The current directory decides nothing else: states that differ in it only
\* are explored once.
WithoutPwd == <<disk_bitmap, disk_inode, up, online, superblock_inode, inode_entries, kept,
                accidents>>

\* Sessions that lost their image are not followed further once the root was
\* removed.
RootWhileOffline == up /\ ~online => "root" \notin accidents
=============================================================================
