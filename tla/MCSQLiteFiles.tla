--------------------------- MODULE MCSQLiteFiles ---------------------------
(* Instances of SQLiteFiles for TLC.                                       *)
EXTENDS SQLiteFiles, TLC

\* Two directories that can be renamed to each other, with a file each.
PairPaths == { <<"d">>, <<"e">>, <<"d", "a">>, <<"e", "a">> }

\* The same, and a file beside them.
TwinPaths == { <<"a">>, <<"d">>, <<"e">>, <<"d", "a">>, <<"e", "a">> }

\* The migration of init.go:51 makes the root.
OnlyRoot == [p \in Row |-> IF p = Root THEN "dir" ELSE "none"]
OneFile == [p \in Row |-> CASE p \in { Root, <<"d">>, <<"e">> } -> "dir"
                            [] p = <<"d", "a">> -> "file" [] OTHER -> "none"]
TwinDir == [p \in Row |-> CASE p \in { Root, <<"d">> } -> "dir" [] OTHER -> "none"]

\* As a LIKE pattern the name d also matches the name e, as "x_" matches "xy".
DMatchesE == { <<"d", "e">> }
TwinFolders == { <<"d">>, <<"e">> }

Clients == Permutations(Thread)
=============================================================================
