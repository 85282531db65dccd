-------------------------- MODULE MCCappedRecency --------------------------
(* An instance of CappedRecency for TLC.                                   *)
EXTENDS CappedRecency

\* A file, two directories and a file in each.
TreePaths == { <<"a">>, <<"d">>, <<"e">>, <<"d", "a">>, <<"e", "a">> }

EmptyNode == [p \in Path |-> 0]
EmptyLen == [i \in Inode |-> 0]
=============================================================================
