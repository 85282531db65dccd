----------------------------- MODULE SizeLedger -----------------------------
(***************************************************************************)
(* The accounting half of pkg/webdav/filesystem/capped: the map `files'    *)
(* and the counter `curSize' that FileSystem keeps under its mutex, and    *)
(* every update of them the code makes while it holds that mutex.  Each    *)
(* operator below is one critical section (or one iteration of a loop      *)
(* inside one); Capped.tla says who executes it and when.                  *)
(*                                                                         *)
(* A ledger is a record [files, curSize].  `files' is total over Name: an  *)
(* untracked name has kind "none".  Only the order of access times is ever *)
(* used by the code (filesystem.go:441), so the clock is renumbered after  *)
(* each update to the ranks 1..k of the k tracked names.                   *)
(***************************************************************************)
EXTENDS Trees

(* The same file is called "d/f" by the WebDAV handler, which strips the   *)
(* prefix "/dav/", and "/d/f" by the initial scan and the explorer.  The   *)
(* code uses the string as it comes as a map key.                          *)
Name == [form : {"rel", "abs"}, at : Path]

Rel(p) == [form |-> "rel", at |-> p]
Abs(p) == [form |-> "abs", at |-> p]

Entry == [kind : {"none", "file", "dir"}, size : Nat, at : Nat]
NoEntry == [kind |-> "none", size |-> 0, at |-> 0]

Ledger == [files : [Name -> Entry], curSize : Int]
EmptyLedger == [files |-> [n \in Name |-> NoEntry], curSize |-> 0]

-----------------------------------------------------------------------------
(* Sizes are counted as sets of byte positions, so that a sum over a set   *)
(* of entries is a cardinality.                                            *)
BytesOf(files, S) == UNION { {n} \X (1 .. files[n].size) : n \in S }
SizeOf(files, S) == Cardinality(BytesOf(files, S))

Tracked(files) == { n \in Name : files[n].kind # "none" }
IsTracked(l, n) == l.files[n].kind # "none"

-----------------------------------------------------------------------------
(* Paths and prefixes                                                      *)
-----------------------------------------------------------------------------
(* The string prefix tests of filesystem.go:139 and :208, on one form.     *)
InTree(n, d) == n.form = d.form /\ (n.at = d.at \/ IsUnder(n.at, d.at))
Moved(n, old, new) == [form |-> new.form, at |-> Rebase(n.at, old.at, new.at)]

-----------------------------------------------------------------------------
(* The clock                                                               *)
-----------------------------------------------------------------------------
Newest == Cardinality(Name) + 1   \* time.Now(): later than every rank

Renumber(files) ==
    [n \in Name |->
        [files[n] EXCEPT !.at =
            IF files[n].kind = "none" THEN 0
            ELSE Cardinality({ m \in Tracked(files) :
                                  files[m].at <= files[n].at })]]

Set(files, n, e) == Renumber([files EXCEPT ![n] = e])

Fresh(dir, size) ==
    [kind |-> IF dir THEN "dir" ELSE "file",
     size |-> IF dir THEN 0 ELSE size, at |-> Newest]

-----------------------------------------------------------------------------
(* Critical sections                                                       *)
-----------------------------------------------------------------------------
(* Mkdir, and a directory met by the scan: the entry is replaced whatever  *)
(* was there, and curSize is left alone.                                   *)
TrackDir(l, n) == [l EXCEPT !.files = Set(@, n, Fresh(TRUE, 0))]

(* A regular file met by the scan: the entry is replaced and its size is   *)
(* added, without subtracting what an older entry had contributed.         *)
TrackScanned(l, n, size) ==
    [files |-> Set(l.files, n, Fresh(FALSE, size)),
     curSize |-> l.curSize + size]

(* First sight of a name by Stat or Close.                                 *)
TrackNew(l, n, dir, size) ==
    [files |-> Set(l.files, n, Fresh(dir, size)),
     curSize |-> l.curSize + (IF dir THEN 0 ELSE size)]

(* Mutant: the difference is recorded in place of the size.                *)
ResizedByDifference(l, n, size) ==
    [files |-> [l.files EXCEPT ![n].size = size - l.files[n].size],
     curSize |-> l.curSize - l.files[n].size + size]

Resized(l, n, size) ==
    [files |-> [l.files EXCEPT ![n].size = size],
     curSize |-> l.curSize - l.files[n].size + size]

(* updateAccessTime.  The code looks the entry up under the read lock and  *)
(* stamps it under the write lock; an entry deleted or replaced in between *)
(* is stamped where nothing can see it, as if the stamp had come first.    *)
Touch(l, n) ==
    IF IsTracked(l, n)
    THEN [l EXCEPT !.files = Renumber([@ EXCEPT ![n].at = Newest])]
    ELSE l

(* The locked half of Stat: the size follows what the backend said unless  *)
(* the backend said it is a directory; the kind of the entry never changes.*)
Observe(l, n, dir, size) ==
    IF ~IsTracked(l, n) THEN TrackNew(l, n, dir, size)
    ELSE IF dir THEN Touch(l, n) ELSE Touch(Resized(l, n, size), n)

(* updateFileSize: here the kind of the entry decides, not the backend's,  *)
(* and the access time is left alone.                                      *)
UpdateSize(l, n, dir, size) ==
    IF ~IsTracked(l, n) THEN TrackNew(l, n, dir, size)
    ELSE IF l.files[n].kind = "dir" THEN l ELSE Resized(l, n, size)

(* Deleting a set of entries: what the regular files among them had        *)
(* contributed is subtracted.                                              *)
Forget(l, S) ==
    [files |-> Renumber([n \in Name |-> IF n \in S THEN NoEntry ELSE l.files[n]]),
     curSize |-> l.curSize
        - SizeOf(l.files, { n \in S : l.files[n].kind = "file" })]

Untrack(l, n) == Forget(l, {n})
UntrackTree(l, d) == Forget(l, { n \in Name : InTree(n, d) })

(* Mutant: the old entries are not deleted.                                *)
CarryCopies(l, carried, old, new, kind) ==
    [l EXCEPT !.files = Renumber([n \in Name |->
        IF \E m \in carried : Moved(m, old, new) = n
        THEN LET m == CHOOSE m \in carried : Moved(m, old, new) = n
             IN  [l.files[m] EXCEPT !.kind = kind[m]]
        ELSE l.files[n]])]

(* Entries that a rename carries from old to new; `carried' is the set of  *)
(* tracked names it moves, and an entry already at a target is overwritten *)
(* without being subtracted.                                               *)
Carry(l, carried, old, new, kind) ==
    [l EXCEPT !.files = Renumber([n \in Name |->
        IF n \in carried THEN NoEntry
        ELSE IF \E m \in carried : Moved(m, old, new) = n
        THEN LET m == CHOOSE m \in carried : Moved(m, old, new) = n
             IN  [l.files[m] EXCEPT !.kind = kind[m]]
        ELSE l.files[n]])]

(* Mutant: the entry of the old name is deleted and none is made.          *)
RetargetFileForgets(l, old, new) ==
    [l EXCEPT !.files = Renumber([@ EXCEPT ![old] = NoEntry])]

RetargetFile(l, old, new) ==
    LET carried == {old} \cap Tracked(l.files)
    IN  Carry(l, carried, old, new, [m \in carried |-> "file"])

(* Mutant: a directory's entry moves, those below it stay.                 *)
RetargetTreeShallow(l, old, new) ==
    LET carried == {old} \cap Tracked(l.files)
    IN  Carry(l, carried, old, new, [m \in carried |-> "dir"])

RetargetTree(l, old, new) ==
    LET carried == { n \in Tracked(l.files) : InTree(n, old) }
    IN  Carry(l, carried, old, new,
              [m \in carried |-> IF m = old THEN "dir" ELSE l.files[m].kind])
=============================================================================
