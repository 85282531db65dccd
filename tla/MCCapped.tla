------------------------------ MODULE MCCapped ------------------------------
(* Instances of Capped for TLC.                                            *)
EXTENDS Capped

\* Two files in the root.
FlatPaths == { <<"a">>, <<"b">> }

\* A file and a directory that holds another.
DirPaths == { <<"a">>, <<"d">>, <<"d", "a">> }

\* The disk holds nothing, or the directory with its file in it.
EmptyNode == [p \in Path |-> 0]
EmptyLen == [i \in Inode |-> 0]
DirNode == [p \in Path |-> IF p = <<"d">> THEN -1 ELSE IF p = <<"d", "a">> THEN 1 ELSE 0]
DirLen == [i \in Inode |-> IF i = 1 THEN 1 ELSE 0]
=============================================================================
