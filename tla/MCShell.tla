------------------------------ MODULE MCShell ------------------------------
(***************************************************************************)
(* Instances of Shell for TLC: names of one and two characters, and a      *)
(* table that holds paths of four.                                         *)
(***************************************************************************)
EXTENDS Shell, FiniteSets

Characters == {"a", "b", "/", "."}

Arguments == {<<"a">>, <<"b", "b">>, <<".", ".">>, <<".">>, <<".", ".", "/", "a", "/">>,
              <<"a", "/", "/", "b", "b">>, Root, <<"/", "a", "/">>, <<"/", "/", "a">>}

Small == Cardinality(dirs) + Cardinality(files) + Cardinality(twice) <= 4
=============================================================================
