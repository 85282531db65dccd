------------------------------- MODULE Trees -------------------------------
(***************************************************************************)
(* Directory trees as an operating system keeps them under the directory   *)
(* that golang.org/x/net/webdav.Dir serves (external): what each path      *)
(* names, and what the calls that change a tree make of it.  A tree maps a *)
(* path to Absent, to Directory or to an inode, a positive integer.        *)
(***************************************************************************)
EXTENDS Integers, Sequences, FiniteSets

CONSTANTS
    Component,  \* what the components of a path are made of
    Path        \* the paths of the tree, as sequences of components

ASSUME PathsAreSequences ==
    /\ IsFiniteSet(Path)
    /\ Path \subseteq Seq(Component) \ { << >> }

-----------------------------------------------------------------------------
Root == << >>
Parent(p) == SubSeq(p, 1, Len(p) - 1)
IsUnder(p, d) == Len(p) > Len(d) /\ SubSeq(p, 1, Len(d)) = d
Rebase(p, old, new) == new \o SubSeq(p, Len(old) + 1, Len(p))

-----------------------------------------------------------------------------
Absent == 0
Directory == -1

At(tree, p) == IF p = Root THEN Directory ELSE tree[p]
Exists(tree, p) == At(tree, p) # Absent
IsDir(tree, p) == At(tree, p) = Directory
IsFile(tree, p) == At(tree, p) > 0
Children(tree, d) ==
    { p \in Path : Exists(tree, p) /\ Len(p) = Len(d) + 1 /\ IsUnder(p, d) }

-----------------------------------------------------------------------------
(* Dir.Mkdir, Dir.OpenFile with O_CREATE, Dir.RemoveAll and Dir.Rename.    *)
CanMake(tree, p) == tree[p] = Absent /\ IsDir(tree, Parent(p))

Without(tree, p) == [q \in Path |-> IF q = p \/ IsUnder(q, p) THEN Absent ELSE tree[q]]

CanRename(tree, src, dst) ==
    /\ Exists(tree, src) /\ ~IsUnder(dst, src)
    /\ CanMake(tree, dst) \/ (IsFile(tree, src) /\ IsFile(tree, dst))

Renamed(tree, src, dst) ==
    [q \in Path |->
        IF q = dst THEN tree[src]
        ELSE IF IsUnder(q, dst) /\ Rebase(q, dst, src) \in Path
             THEN tree[Rebase(q, dst, src)]
        ELSE IF q = src \/ IsUnder(q, src) THEN Absent ELSE tree[q]]

(* Everything below the source has a path below the destination: a limit   *)
(* of the constant Path, not of the program.                               *)
Movable(src, dst) ==
    /\ src # dst
    /\ \A q \in Path : IsUnder(q, src) => Rebase(q, src, dst) \in Path
=============================================================================
