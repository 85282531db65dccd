---------------------------- MODULE MCCopyOnRead ----------------------------
(* Instances of CopyOnRead for TLC.                                        *)
EXTENDS CopyOnRead, TLC

\* A file, and a directory that holds another.
DirPaths == { <<"a">>, <<"d">>, <<"d", "a">> }
DirNode == [p \in Path |-> CASE p = <<"d">> -> -1 [] p = <<"d", "a">> -> 1 [] OTHER -> 0]

\* The clients do the same things.
Clients == Permutations(Thread)
=============================================================================
