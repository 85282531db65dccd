----------------------------- MODULE AtomicTree -----------------------------
(***************************************************************************)
(* What a backend promises of the tree its clients see: every change is    *)
(* one whole operation on a tree that stays a tree.  A file's value is one *)
(* more than the length of what it holds.                                  *)
(***************************************************************************)
EXTENDS Trees

CONSTANTS
    Length,       \* lengths of what a file may hold
    InitialTree

VARIABLE tree

Holding(n) == n + 1

Mkdir(p) == CanMake(tree, p) /\ tree' = [tree EXCEPT ![p] = Directory]
Create(p) == CanMake(tree, p) /\ tree' = [tree EXCEPT ![p] = Holding(0)]
Store(p, n) == IsFile(tree, p) /\ tree' = [tree EXCEPT ![p] = Holding(n)]
RemoveAll(p) == tree' = Without(tree, p)
Rename(src, dst) ==
    /\ CanRename(tree, src, dst)
    /\ ~Exists(tree, dst)
    /\ tree' = Renamed(tree, src, dst)

Init == tree = InitialTree

Next ==
    \/ \E p \in Path : Mkdir(p) \/ Create(p) \/ RemoveAll(p)
    \/ \E p \in Path, n \in Length : Store(p, n)
    \/ \E src, dst \in Path : Rename(src, dst)

Spec == Init /\ [][Next]_tree
=============================================================================
