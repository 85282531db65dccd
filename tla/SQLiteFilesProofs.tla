------------------------- MODULE SQLiteFilesProofs -------------------------
(***************************************************************************)
(* For any paths, goroutines, rows there are at first, pool and bounds:    *)
(* SQLiteFiles is type correct, only two steps part a row from its blob,   *)
(* and only as many creations at once as the pool has connections starve   *)
(* it; with one client no blob is without its row, and the tables          *)
(* implement AtomicTree.                                                   *)
(*                                                                         *)
(* The inductive invariant adds to the types that what has no row has no   *)
(* size, which a rename would carry along.                                 *)
(***************************************************************************)
EXTENDS SQLiteFiles, TreesProofs

FileRow == [kind : {"none", "dir", "file"}, size : Length]

IInv ==
    /\ TypeOK
    /\ \A p \in Row : ~HasRow(p) => files[p].size = 0

-----------------------------------------------------------------------------
LEMMA Constants ==
  /\ Root \in Row /\ Path \subseteq Row
  /\ MaxRequests \in Nat /\ MaxRestarts \in Nat /\ 0 \in Length
  /\ NoRow \in FileRow /\ NoRow.size = 0 /\ NoRow.kind = "none"
  /\ NoBlob \notin Length /\ NoBlob = -1
  /\ Idle \in Local /\ Idle.pc = "idle"
BY SQLiteAssumption DEF Row, Length, NoRow, FileRow, NoBlob, Idle, Local, Label

LEMMA IInvParts ==
  ASSUME IInv
  PROVE  /\ files \in [Row -> FileRow] /\ contents \in [Row -> Length \cup {NoBlob}]
         /\ th \in [Thread -> Local] /\ issued \in 0 .. MaxRequests
         /\ restarts \in 0 .. MaxRestarts
         /\ \A p \in Row : ~HasRow(p) => files[p].size = 0
BY DEF IInv, TypeOK, FileRow

(* A goroutine goes on as r.                                               *)
LEMMA BecomeTyped ==
  ASSUME IInv, NEW t \in Thread, NEW r \in Local, Become(t, r)
  PROVE  th' \in [Thread -> Local] /\ th'[t] = r
BY IInvParts DEF Become

LEMMA GotoTyped ==
  ASSUME IInv, NEW t \in Thread, NEW label \in Label, Goto(t, label)
  PROVE  th' \in [Thread -> Local] /\ th'[t].pc = label
<1>1. th[t] \in Local
  BY IInvParts
<1>2. [th[t] EXCEPT !.pc = label] \in Local /\ [th[t] EXCEPT !.pc = label].pc = label
  BY <1>1 DEF Local
<1> QED BY <1>2, BecomeTyped DEF Goto

LEMMA FinishTyped ==
  ASSUME IInv, NEW t \in Thread, Finish(t)
  PROVE  th' \in [Thread -> Local] /\ th'[t].pc = "idle"
BY Constants, BecomeTyped DEF Finish

LEMMA Locals ==
  ASSUME IInv, NEW t \in Thread
  PROVE  /\ th[t] \in Local /\ th[t].name \in Row /\ th[t].to \in Row
         /\ th[t].body \in Length /\ th[t].dir \in BOOLEAN /\ Subject(t) \in Row
BY IInvParts DEF Local, Subject

(* What a renaming leaves in a row was in a row before, or is nothing.     *)
LEMMA RekeyedValues ==
  ASSUME NEW table, NEW S \in SUBSET Row, NEW image, NEW none
  PROVE  LET moved == Rekeyed(table, S, image, none)
         IN  /\ moved = [q \in Row |-> moved[q]]
             /\ \A q \in Row : moved[q] = none \/ \E s \in Row : moved[q] = table[s]
<1>1. ASSUME NEW q \in Row, \E s \in S : image[s] = q
      PROVE  (CHOOSE s \in S : image[s] = q) \in Row
  BY <1>1
<1> QED BY <1>1 DEF Rekeyed

-----------------------------------------------------------------------------
(* What a step of t does to the tables.                                    *)
TablesKept ==
    /\ files' \in [Row -> FileRow] /\ contents' \in [Row -> Length \cup {NoBlob}]
    /\ \A p \in Row : files'[p].kind = "none" => files'[p].size = 0
    /\ UNCHANGED <<issued, restarts>>

Untorn == SizeWithinContent => SizeWithinContent'

LEMMA TablesUnchanged ==
  ASSUME IInv, UNCHANGED <<files, contents, issued, restarts>>
  PROVE  TablesKept /\ Untorn
BY IInvParts DEF TablesKept, Untorn, SizeWithinContent, HasRow, HasBlob

(* One row changes.                                                        *)
LEMMA RowChanged ==
  ASSUME IInv, UNCHANGED <<contents, issued, restarts>>,
         NEW p \in Row, NEW row \in FileRow, row.size = 0 \/ row.size = files[p].size,
         row.kind # "none",
         files' = [files EXCEPT ![p] = row]
  PROVE  TablesKept /\ Untorn
<1>1. /\ files' \in [Row -> FileRow] /\ files'[p] = row
      /\ \A q \in Row \ {p} : files'[q] = files[q]
  BY IInvParts
<1>2. TablesKept
  BY <1>1, IInvParts DEF TablesKept, HasRow
<1>3. \A q \in Row : files'[q].size = 0 \/ files'[q].size = files[q].size
  BY <1>1
<1> QED BY <1>2, <1>3 DEF Untorn, SizeWithinContent, HasBlob

LEMMA OpenKeeps ==
  ASSUME IInv, NEW t \in Thread, OpenStep(t), th[t].pc # "truncateblob"
  PROVE  TablesKept /\ Untorn /\ th' \in [Thread -> Local]
<1> USE Locals
<1>1. CASE StatOpened(t) \/ StatParent(t) \/ StatCreated(t)
  <2>1. \/ Finish(t)
        \/ \E label \in {"insert", "parent", "truncate"} : Goto(t, label)
    BY <1>1, IInvParts DEF StatOpened, StatParent, StatCreated, FileRow
  <2>2. {"insert", "parent", "truncate"} \subseteq Label
    BY DEF Label
  <2>3. UNCHANGED <<files, contents, issued, restarts>>
    BY <1>1 DEF StatOpened, StatParent, StatCreated
  <2> QED BY <2>1, <2>2, <2>3, TablesUnchanged, FinishTyped, GotoTyped
<1>2. CASE InsertFile(t)
  <2>1. CASE HasRow(th[t].name)
    BY <1>2, <2>1, TablesUnchanged, FinishTyped DEF InsertFile
  <2>2. CASE ~HasRow(th[t].name)
    <3>1. [kind |-> "file", size |-> 0] \in FileRow
      BY Constants DEF FileRow
    <3>2. [th[t] EXCEPT !.pc = "insertblob", !.created = TRUE] \in Local
      BY DEF Local, Label
    <3> QED BY <1>2, <2>2, <3>1, <3>2, RowChanged, BecomeTyped DEF InsertFile
  <2> QED BY <2>1, <2>2
<1>3. CASE InsertBlob(t)
  <2>1. CASE HasBlob(th[t].name)
    BY <1>3, <2>1, TablesUnchanged, FinishTyped DEF InsertBlob
  <2>2. CASE ~HasBlob(th[t].name)
    <3>1. /\ contents' = [contents EXCEPT ![th[t].name] = 0] /\ Goto(t, "restat")
          /\ UNCHANGED <<files, issued, restarts>>
      BY <1>3, <2>2 DEF InsertBlob
    <3>2. TablesKept
      BY <3>1, IInvParts, Constants DEF TablesKept, HasRow
    <3>3. \A q \in Row : q # th[t].name => contents'[q] = contents[q]
      BY <3>1, IInvParts
    <3>4. Untorn
      BY <2>2, <3>1, <3>3 DEF Untorn, SizeWithinContent, HasBlob
    <3> QED BY <3>1, <3>2, <3>4, GotoTyped DEF Label
  <2> QED BY <2>1, <2>2
<1>4. CASE TruncateSize(t)
  <2>1. Goto(t, "truncateblob") /\ UNCHANGED <<contents, issued, restarts>>
    BY <1>4 DEF TruncateSize
  <2>2. CASE HasRow(th[t].name)
    <3>1. PICK row : row = [files[th[t].name] EXCEPT !.size = 0]
      OBVIOUS
    <3>2. files[th[t].name] \in FileRow /\ files' = [files EXCEPT ![th[t].name] = row]
      BY <1>4, <2>2, <3>1, IInvParts DEF TruncateSize
    <3>3. row \in FileRow /\ row.size = 0 /\ row.kind # "none"
      BY <2>2, <3>1, <3>2, Constants DEF FileRow, HasRow
    <3> QED BY <2>1, <3>2, <3>3, RowChanged, GotoTyped DEF Label
  <2>3. CASE ~HasRow(th[t].name)
    BY <1>4, <2>1, <2>3, TablesUnchanged, GotoTyped DEF TruncateSize, Label
  <2> QED BY <2>2, <2>3
<1>5. ~TruncateBlob(t)
  BY DEF TruncateBlob
<1> QED BY <1>1, <1>2, <1>3, <1>4, <1>5 DEF OpenStep

LEMMA TruncateBlobKeeps ==
  ASSUME IInv, NEW t \in Thread, TruncateBlob(t)
  PROVE  /\ TablesKept /\ th' \in [Thread -> Local] /\ th'[t] # th[t]
         /\ Untorn \/ TornByTruncation(t)
<1> USE Locals
<1>1. /\ contents' = IF HasBlob(th[t].name) THEN [contents EXCEPT ![th[t].name] = 0] ELSE contents
      /\ Become(t, [th[t] EXCEPT !.pc = "close", !.created = FALSE])
      /\ UNCHANGED <<files, issued, restarts>> /\ th[t].pc = "truncateblob"
  BY DEF TruncateBlob
<1>2. TablesKept
  BY <1>1, IInvParts, Constants DEF TablesKept, HasRow
<1>3. PICK r : r = [th[t] EXCEPT !.pc = "close", !.created = FALSE]
  OBVIOUS
<1>4. r \in Local /\ r.pc = "close"
  BY <1>3 DEF Local, Label
<1>5. th' \in [Thread -> Local] /\ th'[t] # th[t]
  BY <1>1, <1>3, <1>4, BecomeTyped
<1>6. ASSUME ~TornByTruncation(t)
      PROVE  Untorn
  <2>1. files[th[t].name] \in FileRow
    BY IInvParts
  <2>2. ~(files[th[t].name].size > 0)
    BY <1>1, <1>6 DEF TornByTruncation
  <2>3. \A q \in Row : q # th[t].name => contents'[q] = contents[q]
    BY <1>1, IInvParts
  <2> QED BY <1>1, <2>2, <2>3 DEF Untorn, SizeWithinContent, HasBlob
<1> QED BY <1>2, <1>5, <1>6

LEMMA CloseKeeps ==
  ASSUME IInv, NEW t \in Thread, CloseStep(t)
  PROVE  TablesKept /\ Untorn /\ th' \in [Thread -> Local]
<1> USE Locals
<1>1. Finish(t)
  BY DEF CloseStep, CloseEmpty, StoreUpload, StoreFails
<1>2. CASE CloseEmpty(t) \/ StoreFails(t)
  BY <1>1, <1>2, TablesUnchanged, FinishTyped DEF CloseEmpty, StoreFails
<1>3. CASE StoreUpload(t)
  <2>1. PICK row : row = [files[th[t].name] EXCEPT !.size = th[t].body]
    OBVIOUS
  <2>2. /\ files[th[t].name] \in FileRow /\ files' = [files EXCEPT ![th[t].name] = row]
        /\ contents' = [contents EXCEPT ![th[t].name] = th[t].body]
        /\ UNCHANGED <<issued, restarts>> /\ HasRow(th[t].name)
    BY <1>3, <2>1, IInvParts DEF StoreUpload
  <2>3. row \in FileRow /\ row.size = th[t].body /\ row.kind # "none"
    BY <2>1, <2>2 DEF FileRow, HasRow
  <2>4. /\ files'[th[t].name] = row /\ contents'[th[t].name] = th[t].body
        /\ \A q \in Row \ {th[t].name} : files'[q] = files[q] /\ contents'[q] = contents[q]
    BY <2>2, IInvParts
  <2>5. TablesKept
    BY <2>2, <2>3, <2>4, IInvParts DEF TablesKept, HasRow
  <2>6. th[t].body \in Nat /\ th[t].body # NoBlob
    BY Constants DEF Length
  <2>7. Untorn
    BY <2>3, <2>4, <2>6 DEF Untorn, SizeWithinContent, HasBlob
  <2> QED BY <1>1, <2>5, <2>7, FinishTyped
<1> QED BY <1>2, <1>3 DEF CloseStep

LEMMA MkdirKeeps ==
  ASSUME IInv, NEW t \in Thread, MkdirStep(t)
  PROVE  TablesKept /\ Untorn /\ th' \in [Thread -> Local]
<1> USE Locals
<1>1. CASE StatMkdirParent(t) \/ StatMkdir(t)
  <2>1. Finish(t) \/ \E label \in {"mkself", "mkinsert"} : Goto(t, label)
    BY <1>1 DEF StatMkdirParent, StatMkdir
  <2>2. {"mkself", "mkinsert"} \subseteq Label
    BY DEF Label
  <2>3. UNCHANGED <<files, contents, issued, restarts>>
    BY <1>1 DEF StatMkdirParent, StatMkdir
  <2> QED BY <2>1, <2>2, <2>3, TablesUnchanged, FinishTyped, GotoTyped
<1>2. CASE InsertDir(t)
  <2>1. CASE HasRow(th[t].name)
    BY <1>2, <2>1, TablesUnchanged, FinishTyped DEF InsertDir
  <2>2. CASE ~HasRow(th[t].name)
    <3>1. [kind |-> "dir", size |-> 0] \in FileRow
      BY Constants DEF FileRow
    <3> QED BY <1>2, <2>2, <3>1, RowChanged, FinishTyped DEF InsertDir
  <2> QED BY <2>1, <2>2
<1> QED BY <1>1, <1>2 DEF MkdirStep

LEMMA DirKnown ==
  ASSUME IInv, NEW t \in Thread, NEW p \in Row, NEW label \in Label,
         Become(t, [th[t] EXCEPT !.pc = label, !.dir = (files[p].kind = "dir")])
  PROVE  th' \in [Thread -> Local]
<1>1. PICK dir \in BOOLEAN : dir <=> files[p].kind = "dir"
  <2>1. CASE files[p].kind = "dir"
    BY <2>1
  <2>2. CASE files[p].kind # "dir"
    BY <2>2
  <2> QED BY <2>1, <2>2
<1>2. Become(t, [th[t] EXCEPT !.pc = label, !.dir = dir])
  BY <1>1, Zenon
<1>3. [th[t] EXCEPT !.pc = label, !.dir = dir] \in Local
  BY Locals DEF Local
<1> QED BY <1>2, <1>3, BecomeTyped

LEMMA RemoveKeeps ==
  ASSUME IInv, NEW t \in Thread, RemoveStep(t)
  PROVE  TablesKept /\ Untorn /\ th' \in [Thread -> Local]
<1> USE Locals
<1>1. {"rmstat", "oldstat", "rm"} \subseteq Label
  BY DEF Label
<1>2. AfterRemoval(t) => th' \in [Thread -> Local]
  BY <1>1, FinishTyped, GotoTyped DEF AfterRemoval
<1>3. CASE StatSubject(t)
  <2>1. Finish(t) \/ Goto(t, "rmstat") \/ Goto(t, "oldstat")
    BY <1>3 DEF StatSubject
  <2> QED BY <1>1, <1>3, <2>1, TablesUnchanged, FinishTyped, GotoTyped DEF StatSubject
<1>4. CASE StatRemoved(t)
  <2>1. \/ Become(t, [th[t] EXCEPT !.pc = "rm", !.dir = (files[Subject(t)].kind = "dir")])
        \/ AfterRemoval(t)
    BY <1>4 DEF StatRemoved
  <2> QED BY <1>1, <1>2, <1>4, <2>1, TablesUnchanged, DirKnown DEF StatRemoved
<1>5. CASE RemoveRows(t)
  <2>1. PICK S : S = Doomed(Subject(t), th[t].dir)
    OBVIOUS
  <2>2. /\ files' = Deleted(files, S, NoRow) /\ contents' = Deleted(contents, S, NoBlob)
        /\ AfterRemoval(t) /\ UNCHANGED <<issued, restarts>>
    BY <1>5, <2>1 DEF RemoveRows
  <2>3. /\ files' \in [Row -> FileRow] /\ contents' \in [Row -> Length \cup {NoBlob}]
        /\ \A q \in Row : files'[q] = IF q \in S THEN NoRow ELSE files[q]
        /\ \A q \in Row : contents'[q] = IF q \in S THEN NoBlob ELSE contents[q]
    BY <2>2, IInvParts, Constants DEF Deleted
  <2>4. TablesKept
    BY <2>2, <2>3, IInvParts, Constants DEF TablesKept, HasRow
  <2>5. Untorn
    BY <2>3, Constants DEF Untorn, SizeWithinContent, HasBlob
  <2> QED BY <1>2, <2>2, <2>4, <2>5
<1> QED BY <1>3, <1>4, <1>5 DEF RemoveStep

LEMMA RenameFileKeeps ==
  ASSUME IInv, NEW t \in Thread, RenameFile(t)
  PROVE  TablesKept /\ Untorn /\ th' \in [Thread -> Local]
<1> USE Locals
<1>1. PICK src, dst : src = th[t].name /\ dst = th[t].to
  OBVIOUS
<1>a. PICK image : image = [s \in {src} |-> dst]
  OBVIOUS
<1>b. \A q \in Row : (\E s \in {src} : image[s] = q) <=> q = dst
  BY <1>a
<1>c. (CHOOSE s \in {src} : image[s] = dst) = src
  BY <1>a
<1>2. src \in Row /\ dst \in Row
  BY <1>1
<1>3. /\ Finish(t) /\ UNCHANGED <<issued, restarts>>
      /\ \/ UNCHANGED <<files, contents>>
         \/ /\ ~(HasRow(src) /\ HasRow(dst)) /\ ~(HasBlob(src) /\ HasBlob(dst))
            /\ files' = IF HasRow(src) THEN Rekeyed(files, {src}, image, NoRow) ELSE files
            /\ contents' = IF HasBlob(src) THEN Rekeyed(contents, {src}, image, NoBlob) ELSE contents
  BY <1>1, <1>a DEF RenameFile
<1>4. CASE UNCHANGED <<files, contents>>
  BY <1>3, <1>4, TablesUnchanged, FinishTyped
<1>5. ASSUME ~(HasRow(src) /\ HasRow(dst)), ~(HasBlob(src) /\ HasBlob(dst)),
             files' = IF HasRow(src) THEN Rekeyed(files, {src}, image, NoRow) ELSE files,
             contents' = IF HasBlob(src) THEN Rekeyed(contents, {src}, image, NoBlob) ELSE contents
      PROVE  TablesKept /\ Untorn
  <2>1. CASE src = dst
    <3>1. ~HasRow(src) /\ ~HasBlob(src)
      BY <1>5, <2>1
    <3> QED BY <1>3, <1>5, <3>1, TablesUnchanged
  <2>2. CASE src # dst
    <3>a. /\ Rekeyed(files, {src}, image, NoRow) \in [Row -> FileRow]
          /\ \A q \in Row : Rekeyed(files, {src}, image, NoRow)[q] =
                IF q = dst THEN files[src] ELSE IF q = src THEN NoRow ELSE files[q]
      <4>1. \A q \in Row : Rekeyed(files, {src}, image, NoRow)[q] =
               IF q = dst THEN files[src] ELSE IF q = src THEN NoRow ELSE files[q]
        BY <1>b, <1>c DEF Rekeyed
      <4>2. Rekeyed(files, {src}, image, NoRow) = [q \in Row |-> Rekeyed(files, {src}, image, NoRow)[q]]
        BY <1>2, RekeyedValues
      <4> QED BY <1>2, <4>1, <4>2, IInvParts, Constants
    <3>b. /\ Rekeyed(contents, {src}, image, NoBlob) \in [Row -> Length \cup {NoBlob}]
          /\ \A q \in Row : Rekeyed(contents, {src}, image, NoBlob)[q] =
                IF q = dst THEN contents[src] ELSE IF q = src THEN NoBlob ELSE contents[q]
      <4>1. \A q \in Row : Rekeyed(contents, {src}, image, NoBlob)[q] =
               IF q = dst THEN contents[src] ELSE IF q = src THEN NoBlob ELSE contents[q]
        BY <1>b, <1>c DEF Rekeyed
      <4>2. Rekeyed(contents, {src}, image, NoBlob) = [q \in Row |-> Rekeyed(contents, {src}, image, NoBlob)[q]]
        BY <1>2, RekeyedValues
      <4> QED BY <1>2, <4>1, <4>2, IInvParts, Constants
    <3>1. /\ HasRow(src) => \A q \in Row : files'[q] =
                IF q = dst THEN files[src] ELSE IF q = src THEN NoRow ELSE files[q]
          /\ ~HasRow(src) => files' = files
          /\ files' \in [Row -> FileRow]
      BY <1>5, <3>a, IInvParts
    <3>2. /\ HasBlob(src) => \A q \in Row : contents'[q] =
                IF q = dst THEN contents[src] ELSE IF q = src THEN NoBlob ELSE contents[q]
          /\ ~HasBlob(src) => contents' = contents
          /\ contents' \in [Row -> Length \cup {NoBlob}]
      BY <1>5, <3>b, IInvParts
    <3>3. TablesKept
      BY <1>2, <1>3, <3>1, <3>2, IInvParts, Constants DEF TablesKept, HasRow
    <3>4. Untorn
      <4>1. SUFFICES ASSUME SizeWithinContent, NEW q \in Row, files'[q].size > 0
                     PROVE  contents'[q] # NoBlob /\ files'[q].size <= contents'[q]
        BY DEF Untorn, SizeWithinContent, HasBlob
      <4>2. \A p \in Row : files[p].size > 0 =>
               HasRow(p) /\ HasBlob(p) /\ files[p].size <= contents[p]
        BY <4>1, IInvParts DEF SizeWithinContent
      <4>3. CASE q = dst
        <5>1. CASE HasRow(src)
          BY <1>2, <1>5, <3>1, <3>2, <4>1, <4>2, <4>3, <5>1 DEF HasBlob
        <5>2. CASE ~HasRow(src)
          BY <1>2, <1>5, <3>1, <3>2, <4>1, <4>2, <4>3, <5>2 DEF HasBlob
        <5> QED BY <5>1, <5>2
      <4>4. CASE q = src
        BY <1>2, <2>2, <3>1, <3>2, <4>1, <4>2, <4>4, Constants DEF HasBlob
      <4>5. CASE q # src /\ q # dst
        BY <1>2, <3>1, <3>2, <4>1, <4>2, <4>5 DEF HasBlob
      <4> QED BY <4>3, <4>4, <4>5
    <3> QED BY <3>3, <3>4
  <2> QED BY <2>1, <2>2
<1> QED BY <1>3, <1>4, <1>5, FinishTyped

LEMMA MoveRowsKeeps ==
  ASSUME IInv, NEW t \in Thread, NEW rows \in SUBSET Row, NEW blobs \in SUBSET Row,
         MoveRows(t, rows, blobs), UNCHANGED <<issued, restarts>>
  PROVE  TablesKept
<1>1. PICK S : S = rows \cup ({th[t].name} \cap { q \in Row : HasRow(q) })
  OBVIOUS
<1>2. /\ files' = Rekeyed(files, S, Image(t), NoRow) /\ S \in SUBSET Row
      /\ contents' = Rekeyed(contents, CarriedBlobs(blobs), Image(t), NoBlob)
      /\ CarriedBlobs(blobs) \in SUBSET Row
  BY <1>1 DEF MoveRows, CarriedBlobs
<1>3. /\ files' \in [Row -> FileRow]
      /\ \A q \in Row : files'[q] = NoRow \/ \E s \in Row : files'[q] = files[s]
  <2>1. /\ files' = [q \in Row |-> files'[q]]
        /\ \A q \in Row : files'[q] = NoRow \/ \E s \in Row : files'[q] = files[s]
    BY <1>2, RekeyedValues
  <2> QED BY <2>1, IInvParts, Constants
<1>4. contents' \in [Row -> Length \cup {NoBlob}]
  <2>1. /\ contents' = [q \in Row |-> contents'[q]]
        /\ \A q \in Row : contents'[q] = NoBlob \/ \E s \in Row : contents'[q] = contents[s]
    BY <1>2, RekeyedValues
  <2> QED BY <2>1, IInvParts, Constants
<1> QED BY <1>3, <1>4, IInvParts, Constants DEF TablesKept, HasRow

LEMMA RenameTreeKeeps ==
  ASSUME IInv, NEW t \in Thread, RenameTree(t) \/ RenameTreeCut(t)
  PROVE  TablesKept /\ th' \in [Thread -> Local] /\ th'[t] # th[t] /\ TornByRename(t)
<1>1. Finish(t) /\ TornByRename(t) /\ UNCHANGED <<issued, restarts>>
  BY DEF RenameTree, RenameTreeCut, TornByRename
<1>2. th' \in [Thread -> Local] /\ th'[t] # th[t]
  BY <1>1, FinishTyped DEF TornByRename
<1>3. Carried(t) \subseteq Row
  BY DEF Carried
<1>4. CASE UNCHANGED <<files, contents>>
  BY <1>1, <1>2, <1>4, TablesUnchanged
<1>5. CASE \E rows, blobs \in SUBSET Row : MoveRows(t, rows, blobs)
  BY <1>1, <1>2, <1>5, MoveRowsKeeps
<1>6. CASE RenameTree(t)
  BY <1>3, <1>4, <1>5, <1>6 DEF RenameTree
<1>7. CASE RenameTreeCut(t)
  <2>1. PICK last \in Carried(t), done \in SUBSET Carried(t) :
           MoveRows(t, done, done) \/ MoveRows(t, done \cup {last}, done)
    BY <1>7 DEF RenameTreeCut
  <2> QED BY <1>3, <1>5, <2>1
<1> QED BY <1>6, <1>7

LEMMA RenameLooksKeep ==
  ASSUME IInv, NEW t \in Thread, StatOld(t) \/ StatNew(t) \/ StatNewParent(t)
  PROVE  TablesKept /\ Untorn /\ th' \in [Thread -> Local]
<1> USE Locals
<1>1. {"newstat", "mv", "newparent"} \subseteq Label
  BY DEF Label
<1>2. TablesKept /\ Untorn
  BY TablesUnchanged DEF StatOld, StatNew, StatNewParent
<1>3. \/ Finish(t) \/ Goto(t, "mv") \/ Goto(t, "newparent")
      \/ Become(t, [th[t] EXCEPT !.pc = "newstat", !.dir = (files[th[t].name].kind = "dir")])
  BY DEF StatOld, StatNew, StatNewParent
<1> QED BY <1>1, <1>2, <1>3, FinishTyped, GotoTyped, DirKnown

(* Every step of a goroutine.                                              *)
LEMMA StepKeeps ==
  ASSUME IInv, NEW t \in Thread, Step(t)
  PROVE  /\ IInv'
         /\ Tear => th'[t] # th[t] /\ (TornByRename(t) \/ TornByTruncation(t))
<1>1. /\ TablesKept /\ th' \in [Thread -> Local]
      /\ Tear => th'[t] # th[t] /\ (TornByRename(t) \/ TornByTruncation(t))
  <2>1. CASE OpenStep(t)
    <3>1. CASE th[t].pc = "truncateblob"
      <4>1. TruncateBlob(t)
        BY <2>1, <3>1 DEF OpenStep, StatOpened, StatParent, InsertFile, InsertBlob, StatCreated,
           TruncateSize
      <4> QED BY <4>1, TruncateBlobKeeps DEF Tear, Untorn
    <3> QED BY <2>1, <3>1, OpenKeeps DEF Tear, Untorn
  <2>2. CASE CloseStep(t) \/ MkdirStep(t) \/ RemoveStep(t)
    BY <2>2, CloseKeeps, MkdirKeeps, RemoveKeeps DEF Tear, Untorn
  <2>3. CASE RenameStep(t)
    BY <2>3, RenameFileKeeps, RenameTreeKeeps, RenameLooksKeep DEF RenameStep, Tear, Untorn
  <2>4. CASE GivesUp(t)
    BY <2>4, FinishTyped, TablesUnchanged DEF GivesUp, Tear, Untorn
  <2> QED BY <2>1, <2>2, <2>3, <2>4 DEF Step
<1> QED BY <1>1, IInvParts DEF TablesKept, IInv, TypeOK, FileRow, HasRow

LEMMA IssueKeeps ==
  ASSUME IInv, NEW t \in Thread, IssueOne(t) \/ IssueMove(t)
  PROVE  IInv' /\ ~Tear
<1>1. PICK r \in Local : Issue(t, r)
  <2>1. CASE IssueOne(t)
    <3>a. PICK method \in Method \ {"MOVE"}, p \in Row :
             \E n \in IF method = "PUT" THEN {0, issued + 1} ELSE {0} :
                Issue(t, [Idle EXCEPT !.pc = FirstCall[method], !.method = method,
                                      !.name = p, !.body = n])
      BY <2>1 DEF IssueOne
    <3>1. PICK n \in {0, issued + 1} :
             Issue(t, [Idle EXCEPT !.pc = FirstCall[method], !.method = method,
                                   !.name = p, !.body = n])
      BY <3>a
    <3>2. issued < MaxRequests /\ issued \in Nat /\ MaxRequests \in Nat
      BY <3>1, IInvParts, Constants DEF Issue
    <3>3. n \in Length /\ FirstCall[method] \in Label
      BY <3>2 DEF Length, FirstCall, Method, Label
    <3>4. [Idle EXCEPT !.pc = FirstCall[method], !.method = method, !.name = p, !.body = n] \in Local
      BY <3>3, Constants DEF Local
    <3> QED BY <3>1, <3>4
  <2>2. CASE IssueMove(t)
    <3>1. PICK src, dst \in Path :
            Issue(t, [Idle EXCEPT !.pc = FirstCall["MOVE"], !.method = "MOVE",
                                  !.name = src, !.to = dst])
      BY <2>2 DEF IssueMove
    <3>2. FirstCall["MOVE"] \in Label /\ "MOVE" \in Method /\ src \in Row /\ dst \in Row
      BY Constants DEF FirstCall, Label, Method
    <3>3. [Idle EXCEPT !.pc = FirstCall["MOVE"], !.method = "MOVE",
                       !.name = src, !.to = dst] \in Local
      BY <3>2, Constants DEF Local
    <3> QED BY <3>1, <3>3
  <2> QED BY <2>1, <2>2
<1>2. /\ issued < MaxRequests /\ issued' = issued + 1 /\ Become(t, r)
      /\ UNCHANGED <<files, contents, restarts>>
  BY <1>1 DEF Issue
<1>3. th' \in [Thread -> Local] /\ issued' \in 0 .. MaxRequests
  BY <1>1, <1>2, BecomeTyped, IInvParts, Constants
<1>4. IInv'
  BY <1>2, <1>3 DEF IInv, TypeOK, HasRow
<1> QED BY <1>2, <1>4 DEF Tear, SizeWithinContent, HasBlob

LEMMA RestartKeeps ==
  ASSUME IInv, Restart
  PROVE  IInv' /\ ~Tear
<1>1. /\ restarts' \in 0 .. MaxRestarts /\ th' \in [Thread -> Local]
      /\ UNCHANGED <<files, contents, issued>>
  BY IInvParts, Constants DEF Restart
<1>2. IInv'
  BY <1>1 DEF IInv, TypeOK, HasRow
<1> QED BY <1>1, <1>2 DEF Tear, SizeWithinContent, HasBlob

LEMMA InitEstablishes == Init => IInv
<1> SUFFICES ASSUME Init PROVE IInv
  OBVIOUS
<1>1. files \in [Row -> [kind : {"none", "dir", "file"}, size : Length]]
  BY SQLiteAssumption, Constants DEF Init
<1>2. \A p \in Row : files[p].size = 0
  BY DEF Init
<1>3. contents \in [Row -> Length \cup {NoBlob}]
  BY Constants DEF Init
<1> QED BY <1>1, <1>2, <1>3, Constants DEF Init, IInv, TypeOK

LEMMA NextKeeps ==
  ASSUME IInv, [Next]_vars
  PROVE  /\ IInv'
         /\ Tear => \E t \in Thread : th'[t] # th[t] /\ (TornByRename(t) \/ TornByTruncation(t))
<1>1. CASE UNCHANGED vars
  BY <1>1 DEF vars, IInv, TypeOK, HasRow, Tear, SizeWithinContent, HasBlob
<1> QED BY <1>1, StepKeeps, IssueKeeps, RestartKeeps DEF Next, BudgetSpent

LEMMA Invariant == Spec => []IInv
<1>1. IInv /\ [Next]_vars => IInv'
  BY NextKeeps
<1> QED BY <1>1, InitEstablishes, PTL DEF Spec

-----------------------------------------------------------------------------
(* Both tables keep their types, whatever is cut off, and whoever removes, *)
(* moves or overwrites what another is writing.                            *)
THEOREM TypeCorrect == Spec => []TypeOK
<1>1. IInv => TypeOK
  BY DEF IInv
<1> QED BY <1>1, Invariant, PTL

(* Only a directory's rename that stops half way, and a truncation between *)
(* whose two statements another file took the name, part a row from its    *)
(* blob: uploads, removals, creations and the renames of files never do,   *)
(* for any tree, wildcards in names, and number of requests at once        *)
(* (sqlite/filesystem.go:111-130, :190-243, :285-379; file.go:293-355).    *)
THEOREM NothingElseTears == Spec => OnlyKnownTears
<1> DEFINE Known == Tear => \E t \in Thread : /\ th'[t] # th[t]
                                              /\ TornByRename(t) \/ TornByTruncation(t)
<1>1. IInv /\ [Next]_vars => [Known]_vars
  BY NextKeeps
<1>2. Spec => [][Known]_vars
  BY <1>1, Invariant, PTL DEF Spec
<1> QED BY <1>2 DEF OnlyKnownTears

-----------------------------------------------------------------------------
(* The connections.  Who holds the one it inserted with is creating a file *)
(* (Fine), which no other request names: the handler's locks keep the      *)
(* names of requests at work apart (Apart).                                *)
CreateLabel == {"insertblob", "restat", "truncate", "truncateblob"}
OpenLabel == CreateLabel \cup {"open", "parent", "insert", "close"}

Fine(r) ==
    /\ r.created => r.pc \in CreateLabel
    /\ r.pc \in OpenLabel => r.name # Root

AtWork(t) == th[t].pc # "idle"

Apart ==
    \A t, u \in Thread :
        t # u /\ AtWork(t) /\ AtWork(u) /\ th[t].name # Root => th[t].name # th[u].name

PInv == IInv /\ Apart /\ \A t \in Thread : Fine(th[t])

(* t goes on with the same name, or is done.                               *)
Onward(t) == \E r \in Local : /\ Become(t, r) /\ Fine(r)
                              /\ r.pc = "idle" \/ (AtWork(t) /\ r.name = th[t].name)

LEMMA FinishOnward ==
  ASSUME NEW t \in Thread, Finish(t)
  PROVE  Onward(t)
<1>1. Idle \in Local /\ Idle.pc = "idle" /\ ~Idle.created
  BY Constants DEF Idle
<1>2. Fine(Idle)
  BY <1>1 DEF Fine, OpenLabel, CreateLabel
<1> QED BY <1>1, <1>2 DEF Finish, Onward

LEMMA BecomeOnward ==
  ASSUME PInv, NEW t \in Thread, NEW r \in Local, Become(t, r), AtWork(t),
         r.name = th[t].name,
         r.created => r.pc \in CreateLabel,
         r.pc \in OpenLabel => th[t].pc \in OpenLabel
  PROVE  Onward(t)
<1>1. Fine(r)
  BY DEF Fine, PInv
<1> QED BY <1>1 DEF Onward

LEMMA GotoOnward ==
  ASSUME PInv, NEW t \in Thread, NEW label \in Label, Goto(t, label), AtWork(t),
         th[t].pc \in CreateLabel => label \in CreateLabel,
         label \in OpenLabel => th[t].pc \in OpenLabel
  PROVE  Onward(t)
<1>1. th[t] \in Local /\ Fine(th[t])
  BY Locals DEF PInv
<1>2. PICK r : r = [th[t] EXCEPT !.pc = label]
  OBVIOUS
<1>3. /\ r \in Local /\ r.pc = label /\ r.name = th[t].name
      /\ r.created = th[t].created
  BY <1>1, <1>2 DEF Local
<1>4. r.created => r.pc \in CreateLabel
  BY <1>1, <1>3 DEF Fine
<1> QED BY <1>2, <1>3, <1>4, BecomeOnward DEF Goto

LEMMA DirOnward ==
  ASSUME PInv, NEW t \in Thread, NEW p \in Row, NEW label \in {"rm", "newstat"},
         th[t].pc \in {"rmstat", "oldstat"},
         Become(t, [th[t] EXCEPT !.pc = label, !.dir = (files[p].kind = "dir")])
  PROVE  Onward(t)
<1>1. PICK dir \in BOOLEAN : dir <=> files[p].kind = "dir"
  <2>1. CASE files[p].kind = "dir"
    BY <2>1
  <2>2. CASE files[p].kind # "dir"
    BY <2>2
  <2> QED BY <2>1, <2>2
<1>2. PICK r : r = [th[t] EXCEPT !.pc = label, !.dir = dir]
  OBVIOUS
<1>3. Become(t, r)
  BY <1>1, <1>2, Zenon
<1>4. th[t] \in Local /\ Fine(th[t])
  BY Locals DEF PInv
<1>5. ~th[t].created
  BY <1>4 DEF Fine, CreateLabel
<1>6. /\ r \in Local /\ r.pc = label /\ r.name = th[t].name /\ ~r.created
      /\ r.pc \notin OpenLabel
  BY <1>2, <1>4, <1>5 DEF Local, Label, OpenLabel, CreateLabel
<1> QED BY <1>3, <1>6, BecomeOnward DEF AtWork

LEMMA OpenOnward ==
  ASSUME PInv, NEW t \in Thread, OpenStep(t)
  PROVE  Onward(t)
<1>0. th[t] \in Local /\ Fine(th[t])
  BY Locals DEF PInv
<1>1. CASE InsertFile(t)
  <2>1. CASE HasRow(th[t].name)
    BY <1>1, <2>1, FinishOnward DEF InsertFile
  <2>2. CASE ~HasRow(th[t].name)
    <3>1. PICK r : r = [th[t] EXCEPT !.pc = "insertblob", !.created = TRUE]
      OBVIOUS
    <3>2. r \in Local /\ r.pc = "insertblob" /\ r.name = th[t].name
      BY <1>0, <3>1 DEF Local, Label
    <3>3. Become(t, r) /\ th[t].pc = "insert"
      BY <1>1, <2>2, <3>1 DEF InsertFile
    <3>4. r.pc \in CreateLabel /\ th[t].pc \in OpenLabel /\ AtWork(t)
      BY <3>2, <3>3 DEF CreateLabel, OpenLabel, AtWork
    <3> QED BY <3>2, <3>3, <3>4, BecomeOnward
  <2> QED BY <2>1, <2>2
<1>2. CASE TruncateBlob(t)
  <2>1. PICK r : r = [th[t] EXCEPT !.pc = "close", !.created = FALSE]
    OBVIOUS
  <2>2. r \in Local /\ r.pc = "close" /\ r.name = th[t].name /\ ~r.created
    BY <1>0, <2>1 DEF Local, Label
  <2>3. Become(t, r) /\ th[t].pc = "truncateblob"
    BY <1>2, <2>1 DEF TruncateBlob
  <2>4. th[t].pc \in OpenLabel /\ AtWork(t)
    BY <2>3 DEF CreateLabel, OpenLabel, AtWork
  <2> QED BY <2>2, <2>3, <2>4, BecomeOnward
<1>3. CASE StatOpened(t) \/ StatParent(t)
  <2>1. Finish(t) \/ \E label \in {"insert", "parent", "truncate"} : Goto(t, label)
    <3>1. files[th[t].name].kind \in {"none", "dir", "file"}
      BY IInvParts, Locals DEF PInv, FileRow
    <3> QED BY <1>3, <3>1 DEF StatOpened, StatParent
  <2>2. th[t].pc \in {"open", "parent"}
    BY <1>3 DEF StatOpened, StatParent
  <2> QED BY <2>1, <2>2, FinishOnward, GotoOnward DEF CreateLabel, OpenLabel, Label, AtWork
<1>4. CASE InsertBlob(t) \/ StatCreated(t) \/ TruncateSize(t)
  <2>1. Finish(t) \/ \E label \in {"restat", "truncate", "truncateblob"} : Goto(t, label)
    BY <1>4 DEF InsertBlob, StatCreated, TruncateSize
  <2>2. th[t].pc \in {"insertblob", "restat", "truncate"}
    BY <1>4 DEF InsertBlob, StatCreated, TruncateSize
  <2> QED BY <2>1, <2>2, FinishOnward, GotoOnward DEF CreateLabel, OpenLabel, Label, AtWork
<1> QED BY <1>1, <1>2, <1>3, <1>4 DEF OpenStep

LEMMA OtherOnward ==
  ASSUME PInv, NEW t \in Thread, CloseStep(t) \/ MkdirStep(t) \/ RemoveStep(t) \/ RenameStep(t) \/ GivesUp(t)
  PROVE  Onward(t)
<1> DEFINE Later == {"mkself", "mkinsert", "rmstat", "oldstat", "mv", "newparent"}
<1>1. Later \subseteq Label /\ Later \cap OpenLabel = {}
  BY DEF Label, OpenLabel, CreateLabel
<1>2. ASSUME NEW label \in Later, Goto(t, label), th[t].pc \notin OpenLabel, AtWork(t)
      PROVE  Onward(t)
  BY <1>1, <1>2, GotoOnward DEF OpenLabel
<1>3. CASE CloseStep(t) \/ GivesUp(t)
  BY <1>3, FinishOnward DEF CloseStep, CloseEmpty, StoreUpload, StoreFails, GivesUp
<1>4. CASE MkdirStep(t)
  <2>1. Finish(t) \/ \E label \in Later : Goto(t, label)
    BY <1>4 DEF MkdirStep, StatMkdirParent, StatMkdir, InsertDir
  <2>2. th[t].pc \in {"mkparent", "mkself", "mkinsert"}
    BY <1>4 DEF MkdirStep, StatMkdirParent, StatMkdir, InsertDir
  <2> QED BY <1>2, <2>1, <2>2, FinishOnward DEF OpenLabel, CreateLabel, AtWork
<1>5. CASE RemoveStep(t)
  <2>1. th[t].pc \in {"stat", "rmstat", "rm"}
    BY <1>5 DEF RemoveStep, StatSubject, StatRemoved, RemoveRows
  <2>2. th[t].pc \notin OpenLabel /\ AtWork(t)
    BY <2>1 DEF OpenLabel, CreateLabel, AtWork
  <2>3. CASE Finish(t) \/ \E label \in Later : Goto(t, label)
    BY <1>2, <2>2, <2>3, FinishOnward
  <2>4. CASE StatRemoved(t) /\ HasRow(Subject(t))
    <3>1. /\ Become(t, [th[t] EXCEPT !.pc = "rm", !.dir = (files[Subject(t)].kind = "dir")])
          /\ th[t].pc = "rmstat"
      BY <2>4 DEF StatRemoved
    <3>2. Subject(t) \in Row
      BY Locals DEF PInv
    <3> QED BY <3>1, <3>2, DirOnward
  <2> QED BY <1>5, <2>3, <2>4 DEF RemoveStep, StatSubject, StatRemoved, RemoveRows, AfterRemoval
<1>6. CASE RenameStep(t)
  <2>1. th[t].pc \in {"oldstat", "newstat", "newparent", "mv"}
    BY <1>6 DEF RenameStep, StatOld, StatNew, StatNewParent, RenameFile, RenameTree, RenameTreeCut
  <2>2. th[t].pc \notin OpenLabel /\ AtWork(t)
    BY <2>1 DEF OpenLabel, CreateLabel, AtWork
  <2>3. CASE Finish(t) \/ \E label \in Later : Goto(t, label)
    BY <1>2, <2>2, <2>3, FinishOnward
  <2>4. CASE StatOld(t) /\ HasRow(th[t].name)
    <3>1. /\ Become(t, [th[t] EXCEPT !.pc = "newstat", !.dir = (files[th[t].name].kind = "dir")])
          /\ th[t].pc = "oldstat"
      BY <2>4 DEF StatOld
    <3>2. th[t].name \in Row
      BY Locals DEF PInv
    <3> QED BY <3>1, <3>2, DirOnward
  <2>5. CASE StatOld(t) /\ ~HasRow(th[t].name)
    BY <2>5, FinishOnward DEF StatOld
  <2>6. CASE StatNew(t) \/ StatNewParent(t)
    BY <2>3, <2>6 DEF StatNew, StatNewParent
  <2>7. CASE RenameFile(t) \/ RenameTree(t) \/ RenameTreeCut(t)
    BY <2>7, FinishOnward DEF RenameFile, RenameTree, RenameTreeCut
  <2> QED BY <1>6, <2>4, <2>5, <2>6, <2>7 DEF RenameStep
<1> QED BY <1>3, <1>4, <1>5, <1>6

(* A new request's names are nobody's.                                     *)
LEMMA IssueApart ==
  ASSUME PInv, NEW t \in Thread, IssueOne(t) \/ IssueMove(t), IInv'
  PROVE  PInv'
<1>1. PICK r : /\ Become(t, r) /\ Fine(r) /\ r.name \in (Row \ Held)
  <2>1. CASE IssueOne(t)
    <3>1. PICK method \in Method \ {"MOVE"}, p \in Row \ Held :
             /\ p = Root => method = "DELETE"
             /\ \E n \in IF method = "PUT" THEN {0, issued + 1} ELSE {0} :
                   Issue(t, [Idle EXCEPT !.pc = FirstCall[method], !.method = method,
                                         !.name = p, !.body = n])
      BY <2>1 DEF IssueOne
    <3>2. PICK n : Issue(t, [Idle EXCEPT !.pc = FirstCall[method], !.method = method,
                                         !.name = p, !.body = n])
      BY <3>1
    <3>3. PICK r : r = [Idle EXCEPT !.pc = FirstCall[method], !.method = method,
                                    !.name = p, !.body = n]
      OBVIOUS
    <3>4. r.pc = FirstCall[method] /\ r.name = p /\ ~r.created
      BY <3>3 DEF Idle
    <3>5. p = Root => r.pc = "stat"
      BY <3>1, <3>4 DEF FirstCall
    <3>6. Fine(r)
      BY <3>4, <3>5 DEF Fine, OpenLabel, CreateLabel
    <3> QED BY <3>2, <3>3, <3>4, <3>6 DEF Issue
  <2>2. CASE IssueMove(t)
    <3>1. PICK src \in Path \ Held, dst \in Path \ Held :
             Issue(t, [Idle EXCEPT !.pc = FirstCall["MOVE"], !.method = "MOVE",
                                   !.name = src, !.to = dst])
      BY <2>2 DEF IssueMove
    <3>2. PICK r : r = [Idle EXCEPT !.pc = FirstCall["MOVE"], !.method = "MOVE",
                                    !.name = src, !.to = dst]
      OBVIOUS
    <3>3. r.pc = "stat" /\ r.name = src /\ ~r.created
      BY <3>2 DEF Idle, FirstCall
    <3>4. Fine(r)
      BY <3>3 DEF Fine, OpenLabel, CreateLabel
    <3> QED BY <3>1, <3>2, <3>3, <3>4, Constants DEF Issue
  <2> QED BY <2>1, <2>2
<1>2. th'[t] = r /\ \A u \in Thread \ {t} : th'[u] = th[u]
  BY <1>1, IInvParts DEF PInv, Become
<1>3. \A u \in Thread : AtWork(u) /\ th[u].name # Root => th[u].name \in Held
  BY DEF Held, AtWork
<1>4. Apart'
  <2> SUFFICES ASSUME NEW u \in Thread, NEW v \in Thread, u # v, AtWork(u)', AtWork(v)',
                      th'[u].name # Root
               PROVE  th'[u].name # th'[v].name
    BY DEF Apart
  <2>1. CASE u # t /\ v # t
    BY <1>2, <2>1 DEF PInv, Apart, AtWork
  <2>2. CASE u = t
    BY <1>1, <1>2, <1>3, <2>2 DEF AtWork
  <2>3. CASE v = t
    BY <1>1, <1>2, <1>3, <2>3 DEF AtWork
  <2> QED BY <2>1, <2>2, <2>3
<1> QED BY <1>1, <1>2, <1>4 DEF PInv, Fine

LEMMA OnwardApart ==
  ASSUME PInv, NEW t \in Thread, Onward(t), IInv'
  PROVE  PInv'
<1>1. PICK r \in Local : /\ Become(t, r) /\ Fine(r)
                         /\ r.pc = "idle" \/ (AtWork(t) /\ r.name = th[t].name)
  BY DEF Onward
<1>2. th'[t] = r /\ \A u \in Thread \ {t} : th'[u] = th[u]
  BY <1>1, IInvParts DEF PInv, Become
<1>3. Apart'
  <2> SUFFICES ASSUME NEW u \in Thread, NEW v \in Thread, u # v, AtWork(u)', AtWork(v)',
                      th'[u].name # Root
               PROVE  th'[u].name # th'[v].name
    BY DEF Apart
  <2>1. \A w \in {u, v} : AtWork(w) /\ th'[w].name = th[w].name
    BY <1>1, <1>2 DEF AtWork
  <2> QED BY <2>1 DEF PInv, Apart
<1> QED BY <1>1, <1>2, <1>3 DEF PInv, Fine

LEMMA ConnectionsInvariant == Spec => []PInv
<1>1. Init => PInv
  <2> SUFFICES ASSUME Init PROVE PInv
    OBVIOUS
  <2>1. IInv
    BY InitEstablishes
  <2>2. \A t \in Thread : th[t].pc = "idle" /\ ~th[t].created
    BY DEF Init, Idle
  <2> QED BY <2>1, <2>2 DEF PInv, Apart, AtWork, Fine, OpenLabel, CreateLabel
<1>2. PInv /\ [Next]_vars => PInv'
  <2> SUFFICES ASSUME PInv, [Next]_vars PROVE PInv'
    OBVIOUS
  <2>1. IInv'
    BY NextKeeps DEF PInv
  <2>2. CASE \E t \in Thread : IssueOne(t) \/ IssueMove(t)
    BY <2>1, <2>2, IssueApart
  <2>3. CASE \E t \in Thread : Step(t)
    BY <2>1, <2>3, OpenOnward, OtherOnward, OnwardApart DEF Step
  <2>4. CASE Restart
    <3>1. \A t \in Thread : th'[t].pc = "idle" /\ ~th'[t].created
      BY <2>4 DEF Restart, Idle
    <3> QED BY <2>1, <3>1 DEF PInv, Apart, AtWork, Fine, OpenLabel, CreateLabel
  <2>5. CASE UNCHANGED vars
    BY <2>1, <2>5 DEF vars, PInv, Apart, AtWork, Fine
  <2> QED BY <2>2, <2>3, <2>4, <2>5 DEF Next, BudgetSpent
<1> QED BY <1>1, <1>2, PTL DEF Spec

(* While nobody who holds a connection goes on without another, the        *)
(* connections in use are those of the creations, one each.                *)
LEMMA OneEach ==
  ASSUME PInv,
         \A t \in Thread : Holds(th[t]) = 0 \/ th[t].pc \notin {"insertblob", "truncateblob"}
  PROVE  /\ Cardinality(InUse) \in Nat
         /\ Cardinality({ th[t].name : t \in Creating }) = Cardinality(InUse)
<1> DEFINE Names == { th[t].name : t \in Creating }
           Of == [c \in InUse |-> th[c[1]].name]
<1>1. ASSUME NEW t \in Thread
      PROVE  /\ Holds(th[t]) = IF t \in Creating THEN 1 ELSE 0
             /\ t \in Creating => AtWork(t) /\ th[t].name # Root
  <2>1. Fine(th[t]) /\ th[t].created \in BOOLEAN
    BY Locals DEF PInv, Local
  <2>2. th[t].pc # "truncateblob"
    BY <2>1 DEF Holds
  <2>3. th[t].created => th[t].pc # "insertblob"
    BY <2>2 DEF Holds
  <2>4. t \in Creating <=> th[t].created
    BY <2>1, <2>2, <2>3 DEF Creating, Fine, CreateLabel
  <2>5. t \in Creating => AtWork(t) /\ th[t].name # Root
    BY <2>1 DEF Creating, Fine, CreateLabel, OpenLabel, AtWork
  <2> QED BY <2>2, <2>4, <2>5 DEF Holds
<1>2. InUse = Creating \X {1}
  <2>1. ASSUME NEW c \in InUse
        PROVE  c \in Creating \X {1}
    BY <1>1 DEF InUse
  <2>2. ASSUME NEW t \in Creating
        PROVE  <<t, 1>> \in InUse
    BY <1>1 DEF InUse, Creating
  <2> QED BY <2>1, <2>2
<1>3. IsFiniteSet(InUse)
  <2>1. IsFiniteSet(Creating) /\ IsFiniteSet({1})
    BY SQLiteAssumption, FS_Subset, FS_Singleton DEF Creating
  <2> QED BY <1>2, <2>1, FS_Product
<1>4. Of \in Bijection(InUse, Names)
  <2>1. \A c \in InUse : c[1] \in Creating /\ Of[c] \in Names
    BY <1>2
  <2>2. \A a, b \in InUse : Of[a] = Of[b] => a = b
    <3> SUFFICES ASSUME NEW t \in Creating, NEW u \in Creating, th[t].name = th[u].name
                 PROVE  t = u
      BY <1>2
    <3> QED BY <1>1 DEF PInv, Apart, Creating
  <2>3. \A n \in Names : \E c \in InUse : Of[c] = n
    <3> SUFFICES ASSUME NEW t \in Creating PROVE \E c \in InUse : Of[c] = th[t].name
      OBVIOUS
    <3>1. <<t, 1>> \in InUse /\ Of[<<t, 1>>] = th[t].name
      BY <1>2
    <3> QED BY <3>1
  <2>4. Of \in [InUse -> Names]
    BY <2>1
  <2> HIDE DEF Of, Names
  <2>5. Of \in Injection(InUse, Names)
    BY <2>2, <2>4 DEF Injection, IsInjective
  <2>6. Of \in Surjection(InUse, Names)
    BY <2>3, <2>4 DEF Surjection
  <2> QED BY <2>5, <2>6 DEF Bijection
<1>5. Cardinality(Names) = Cardinality(InUse)
  BY <1>3, <1>4, FS_Bijection DEF ExistsBijection
<1> QED BY <1>3, <1>5, FS_CardinalityType

(* Whatever the size of the pool and the number of requests at once, when  *)
(* all connections are taken either one of those who hold one goes on      *)
(* without another, or at least PoolSize different new files are being     *)
(* created, each holding the connection of its insertions while it waits   *)
(* for one more: no other mixture of requests, cut off or not, makes       *)
(* requests wait for each other                                            *)
(* (sqlite/filesystem.go:105-133, :161-166; file.go:366-370).              *)
THEOREM OnlyCreationsStarve == Spec => []PoolStarvesOnlyByCreations
<1>1. ASSUME PInv
      PROVE  PoolStarvesOnlyByCreations
  <2> SUFFICES ASSUME ~Take,
                      \A t \in Thread : \/ ~(Holds(th[t]) > 0)
                                        \/ th[t].pc \notin {"insertblob", "truncateblob"}
               PROVE  Cardinality({ th[t].name : t \in Creating }) >= PoolSize
    BY DEF PoolStarvesOnlyByCreations
  <2>1. \A t \in Thread : Holds(th[t]) = 0 \/ Holds(th[t]) > 0
    BY DEF Holds
  <2> QED BY <1>1, <2>1, OneEach, SQLiteAssumption DEF Take
<1> QED BY <1>1, ConnectionsInvariant, PTL

-----------------------------------------------------------------------------
(* With one client the tables implement AtomicTree.  The inductive         *)
(* invariant adds that the rows form a tree, blobs being those of files    *)
(* (Shape), and that what the request at work has learnt of the tables     *)
(* still holds (PlacedAs).  The parts: what rows' names are; one row       *)
(* changing; each action; a rename, which is one on the tree whichever     *)
(* rows it finds.                                                          *)
-----------------------------------------------------------------------------
LEMMA RowsAreNames ==
  /\ Row \subseteq Place /\ Root \in Row /\ Path \subseteq Row /\ Root \notin Path
  /\ \A p \in Place : Len(p) \in Nat
  /\ Len(Root) = 0
  /\ \A p \in Place : Len(p) = 0 => p = Root
  /\ \A p \in Path : Len(p) > 0
BY PathsArePlaces DEF Row

LEMMA RowOrder ==
  ASSUME NEW a \in Row, NEW b \in Row, NEW c \in Row
  PROVE  /\ ~IsUnder(a, a)
         /\ IsUnder(a, b) /\ IsUnder(b, c) => IsUnder(a, c)
         /\ IsUnder(a, b) /\ IsUnder(a, c) => b = c \/ IsUnder(b, c) \/ IsUnder(c, b)
<1>1. a \in Place /\ b \in Place /\ c \in Place
  BY RowsAreNames
<1> QED BY <1>1, UnderOrder

LEMMA RowRebaseBack ==
  ASSUME NEW src \in Row, NEW dst \in Row, NEW q \in Row, q = src \/ IsUnder(q, src)
  PROVE  /\ Rebase(q, src, dst) = dst \/ IsUnder(Rebase(q, src, dst), dst)
         /\ Rebase(q, src, dst) = dst <=> q = src
         /\ Rebase(Rebase(q, src, dst), dst, src) = q
<1>1. src \in Place /\ dst \in Place /\ q \in Place
  BY RowsAreNames
<1> QED BY <1>1, RebaseBack

LEMMA RowRebaseBetween ==
  ASSUME NEW src \in Row, NEW dst \in Row, NEW q \in Row, NEW e \in Row, IsUnder(q, src),
         IsUnder(Rebase(q, src, dst), e), IsUnder(e, dst)
  PROVE  \E n \in 1 .. Len(q) - 1 :
            /\ IsUnder(q, SubSeq(q, 1, n)) /\ IsUnder(SubSeq(q, 1, n), src)
            /\ Rebase(SubSeq(q, 1, n), src, dst) = e
<1>1. src \in Place /\ dst \in Place /\ q \in Place /\ e \in Place
  BY RowsAreNames
<1> QED BY <1>1, RebaseBetween

LEMMA RowUnderParent ==
  ASSUME NEW p \in Path
  PROVE  /\ IsUnder(p, Parent(p)) \/ Parent(p) = Root
         /\ \A d \in Row : IsUnder(p, d) => d = Parent(p) \/ IsUnder(Parent(p), d)
         /\ \A d \in Row : IsUnder(Parent(p), d) => IsUnder(p, d)
BY RowsAreNames, UnderParent

-----------------------------------------------------------------------------
(* What the refinement needs: one client; names that match only themselves *)
(* as LIKE patterns; nobody removes the root; no statement of a rename     *)
(* fails; and clients agree on which names are directories, also when      *)
(* directories are moved, which the rows there are at first respect.       *)
OneClient ==
    /\ \A t, u \in Thread : t = u
    /\ Alike = {} /\ DeletesRoot = FALSE /\ RenameFailures = FALSE
    /\ Folder # {} /\ \A p \in Path : \A n \in 1 .. Len(p) - 1 : SubSeq(p, 1, n) \in Folder
    /\ \A src, dst \in Folder : Movable(src, dst) =>
          \A q \in Path : IsUnder(q, src) => (q \in Folder <=> Rebase(q, src, dst) \in Folder)
    /\ InitialRows[Root] = "dir" /\ \A p \in Folder : InitialRows[p] # "file"
    /\ \A q \in Path, d \in Row :
          InitialRows[q] # "none" /\ IsUnder(q, d) => InitialRows[d] = "dir"

KindOf(p) == files[p].kind

(* The rows form a tree under the root, clients' directories are no files, *)
(* and every blob is a file's.                                             *)
Shape ==
    /\ KindOf(Root) = "dir"
    /\ \A q \in Path, d \in Row : HasRow(q) /\ IsUnder(q, d) => KindOf(d) = "dir"
    /\ \A p \in Folder : KindOf(p) # "file"
    /\ \A p \in Row : HasBlob(p) => KindOf(p) = "file"

SubjectOf(r) == IF r.method = "MOVE" THEN r.to ELSE r.name

(* What a request at its label knows: which names it may have, and what    *)
(* its last look at the tables found, which nobody else changes.           *)
PlacedAs(r) ==
    /\ r.pc \in {"open", "parent", "insert", "insertblob", "restat", "truncate",
                 "truncateblob", "close"} => r.name \in Path \ Folder
    /\ r.pc \in {"parent", "insert"} => ~HasRow(r.name)
    /\ r.pc = "insert" => KindOf(Parent(r.name)) = "dir"
    /\ r.pc \in {"insertblob", "truncate"} => KindOf(r.name) = "file"
    /\ r.pc \in {"mkparent", "mkself", "mkinsert"} => r.name \in Folder
    /\ r.pc \in {"mkself", "mkinsert"} => KindOf(Parent(r.name)) = "dir"
    /\ r.pc \in {"stat", "rmstat", "rm"} => SubjectOf(r) \in Path
    /\ r.pc = "rm" => (r.dir <=> KindOf(SubjectOf(r)) = "dir")
    /\ r.pc \in {"oldstat", "newstat", "newparent", "mv"} => r.method = "MOVE"
    /\ r.method = "MOVE" => /\ r.name \in Path /\ r.to \in Path /\ Movable(r.name, r.to)
                            /\ r.name \in Folder <=> r.to \in Folder
    /\ r.pc \in {"newstat", "newparent", "mv"} =>
          HasRow(r.name) /\ (r.dir <=> KindOf(r.name) = "dir")
    /\ r.pc \in {"newparent", "mv"} => ~HasRow(r.to)
    /\ r.pc = "mv" => KindOf(Parent(r.to)) = "dir"

SInv == IInv /\ Shape /\ \A t \in Thread : PlacedAs(th[t])

(* What the client sees, and how a step may change it.                     *)
Seen == [p \in Path |-> Visible(p)]
Atomic == UNCHANGED Seen \/ Tree!Next

-----------------------------------------------------------------------------
(* Above every path are directories only.                                  *)
LEMMA FolderFacts ==
  ASSUME OneClient
  PROVE  /\ Folder \subseteq Path
         /\ \A p \in Path, d \in Row : IsUnder(p, d) => d \in Folder \cup {Root}
         /\ \A p \in Path : Parent(p) \in Folder \cup {Root} /\ Parent(p) \in Row
<1>1. Folder \subseteq Path
  BY SQLiteAssumption
<1>2. ASSUME NEW p \in Path, NEW d \in Row, IsUnder(p, d)
      PROVE  d \in Folder \cup {Root}
  <2>1. Len(p) \in Nat /\ Len(d) \in Nat /\ Len(d) < Len(p) /\ SubSeq(p, 1, Len(d)) = d
    BY <1>2, RowsAreNames DEF IsUnder
  <2>2. CASE Len(d) = 0
    BY <2>2, RowsAreNames
  <2>3. CASE Len(d) > 0
    <3>1. Len(d) \in 1 .. Len(p) - 1
      BY <2>1, <2>3
    <3>2. \A n \in 1 .. Len(p) - 1 : SubSeq(p, 1, n) \in Folder
      BY DEF OneClient
    <3> QED BY <2>1, <3>1, <3>2
  <2> QED BY <2>1, <2>2, <2>3
<1>3. ASSUME NEW p \in Path
      PROVE  Parent(p) \in Folder \cup {Root}
  <2>1. Len(p) \in Nat /\ Len(p) > 0 /\ Parent(p) \in Place /\ Len(Parent(p)) = Len(p) - 1
    BY RowsAreNames, ParentMeans
  <2>2. CASE Len(p) = 1
    BY <2>1, <2>2, RowsAreNames
  <2>3. CASE Len(p) > 1
    <3>1. Len(p) - 1 \in 1 .. Len(p) - 1
      BY <2>1, <2>3
    <3> QED BY <3>1 DEF OneClient, Parent
  <2> QED BY <2>1, <2>2, <2>3
<1> QED BY <1>1, <1>2, <1>3, RowsAreNames

(* Where nothing or a file is, nothing is below.                           *)
LEMMA NothingBelow ==
  ASSUME Shape, NEW d \in Row, KindOf(d) # "dir", NEW q \in Row, IsUnder(q, d)
  PROVE  ~HasRow(q)
<1>1. q # Root
  <2>1. ASSUME q = Root PROVE FALSE
    BY <2>1, RowsAreNames DEF IsUnder
  <2> QED BY <2>1
<1> QED BY <1>1 DEF Shape, Row

LEMMA SeenParts ==
  ASSUME IInv
  PROVE  /\ DOMAIN Seen = Path
         /\ \A p \in Path : /\ KindOf(p) = "none" => Seen[p] = 0
                            /\ KindOf(p) = "dir" => Seen[p] = -1
                            /\ KindOf(p) = "file" => Seen[p] = 1 + files[p].size
                            /\ KindOf(p) \in {"none", "dir", "file"} /\ files[p].size \in Nat
<1>1. \A p \in Path : files[p] \in FileRow
  BY IInvParts, Constants
<1>2. Length \subseteq Nat
  BY SQLiteAssumption DEF Length
<1> QED BY <1>1, <1>2 DEF FileRow, Seen, Visible, KindOf, Absent, Directory

(* The operators of the instance are those of Trees.                       *)
LEMMA SameTrees ==
  /\ \A p : Tree!Parent(p) = Parent(p)
  /\ \A p, d : Tree!IsUnder(p, d) <=> IsUnder(p, d)
  /\ \A p, old, new : Tree!Rebase(p, old, new) = Rebase(p, old, new)
  /\ Tree!Root = Root /\ Tree!Absent = 0 /\ Tree!Directory = -1
BY DEF Tree!Parent, Parent, Tree!IsUnder, IsUnder, Tree!Rebase, Rebase, Tree!Root, Root,
       Tree!Absent, Tree!Directory

(* What Mkdir and OpenFile ask for is what the tree asks for.              *)
LEMMA CanMakeSeen ==
  ASSUME IInv, NEW p \in Path, KindOf(p) = "none", KindOf(Parent(p)) = "dir", Parent(p) \in Row
  PROVE  Tree!CanMake(Seen, p)
<1>1. Seen[p] = 0
  BY SeenParts
<1>2. Parent(p) = Root \/ Seen[Parent(p)] = -1
  BY SeenParts DEF Row
<1> QED BY <1>1, <1>2, SameTrees DEF Tree!CanMake, Tree!IsDir, Tree!At

(* One row changes.                                                        *)
LEMMA SeenChanged ==
  ASSUME IInv, NEW p \in Path, NEW row \in FileRow, files' = [files EXCEPT ![p] = row],
         NEW v,
         \/ row.kind = "none" /\ v = 0
         \/ row.kind = "dir" /\ v = -1
         \/ row.kind = "file" /\ v = 1 + row.size
  PROVE  Seen' = [Seen EXCEPT ![p] = v]
<1>1. files'[p] = row /\ \A q \in Path \ {p} : files'[q] = files[q]
  BY IInvParts, Constants
<1>2. Seen'[p] = v
  BY <1>1 DEF Seen, Visible, Absent, Directory
<1>3. ASSUME NEW q \in Path \ {p}
      PROVE  Seen'[q] = Seen[q]
  <2>1. files'[q] = files[q]
    BY <1>1
  <2>2. Visible(q)' = Visible(q)
    BY <2>1, Zenon DEF Visible
  <2> QED BY <2>2 DEF Seen
<1>4. Seen' = [q \in Path |-> Seen'[q]] /\ Seen = [q \in Path |-> Seen[q]]
  BY DEF Seen
<1> QED BY <1>2, <1>3, <1>4

(* Writing one row is one operation on the tree.                           *)
LEMMA MakesDir ==
  ASSUME IInv, NEW p \in Path, KindOf(p) = "none", KindOf(Parent(p)) = "dir", Parent(p) \in Row,
         files' = [files EXCEPT ![p] = [kind |-> "dir", size |-> 0]]
  PROVE  Tree!Next
<1>1. PICK row \in FileRow : row = [kind |-> "dir", size |-> 0]
  BY Constants DEF FileRow
<1>2. Seen' = [Seen EXCEPT ![p] = -1]
  BY <1>1, SeenChanged
<1>3. Tree!Mkdir(p)
  BY <1>2, CanMakeSeen, SameTrees DEF Tree!Mkdir, Seen
<1> QED BY <1>3 DEF Tree!Next

LEMMA MakesFile ==
  ASSUME IInv, NEW p \in Path, KindOf(p) = "none", KindOf(Parent(p)) = "dir", Parent(p) \in Row,
         files' = [files EXCEPT ![p] = [kind |-> "file", size |-> 0]]
  PROVE  Tree!Next
<1>1. PICK row \in FileRow : row = [kind |-> "file", size |-> 0]
  BY Constants DEF FileRow
<1>2. Seen' = [Seen EXCEPT ![p] = 1]
  <2>1. row.kind = "file" /\ 1 = 1 + row.size
    BY <1>1
  <2> QED BY <1>1, <2>1, SeenChanged
<1>3. Tree!Create(p)
  BY <1>2, CanMakeSeen, SameTrees DEF Tree!Create, Tree!Holding, Seen
<1> QED BY <1>3 DEF Tree!Next

LEMMA StoresFile ==
  ASSUME IInv, NEW p \in Path, KindOf(p) = "file", NEW n \in Length,
         files' = [files EXCEPT ![p].size = n]
  PROVE  Tree!Next
<1>1. PICK row : row = [files[p] EXCEPT !.size = n]
  OBVIOUS
<1>2. row \in FileRow /\ row.kind = "file" /\ row.size = n /\ files' = [files EXCEPT ![p] = row]
  BY <1>1, IInvParts, Constants DEF FileRow, KindOf
<1>3. PICK v : v = 1 + n /\ v = n + 1
  BY SQLiteAssumption DEF Length
<1>6. Seen' = [Seen EXCEPT ![p] = v]
  <2>1. v = 1 + row.size
    BY <1>2, <1>3
  <2> QED BY <1>2, <2>1, SeenChanged
<1>4. Seen[p] > 0 /\ p # Root /\ n \in Nat
  <2>1. n \in Nat
    BY SQLiteAssumption DEF Length
  <2> QED BY <2>1, SeenParts, RowsAreNames
<1>5. Tree!Store(p, n)
  BY <1>3, <1>4, <1>6, SameTrees DEF Tree!Store, Tree!IsFile, Tree!At, Tree!Holding, Seen
<1> QED BY <1>5 DEF Tree!Next

-----------------------------------------------------------------------------
LEMMA SInvParts ==
  ASSUME SInv, NEW t \in Thread
  PROVE  IInv /\ Shape /\ PlacedAs(th[t]) /\ th[t] \in Local
BY IInvParts DEF SInv

LEMMA KindsKept ==
  ASSUME Shape, \A p \in Row : files'[p].kind = files[p].kind,
         \A p \in Row : contents'[p] # NoBlob => HasBlob(p) \/ KindOf(p) = "file"
  PROVE  Shape'
<1>1. \A p \in Row : KindOf(p)' = KindOf(p) /\ (HasRow(p)' <=> HasRow(p))
  BY DEF KindOf, HasRow
<1>2. \A p \in Row : HasBlob(p)' => HasBlob(p) \/ KindOf(p) = "file"
  BY DEF HasBlob
<1>3. Root \in Row /\ Path \subseteq Row /\ Folder \subseteq Row
  BY RowsAreNames, SQLiteAssumption
<1> QED BY <1>1, <1>2, <1>3 DEF Shape

LEMMA RowMade ==
  ASSUME Shape, NEW p \in Path, KindOf(p) = "none", KindOf(Parent(p)) = "dir", Parent(p) \in Row,
         NEW row \in FileRow, row.kind = "dir" \/ (row.kind = "file" /\ p \notin Folder),
         files \in [Row -> FileRow], files' = [files EXCEPT ![p] = row], UNCHANGED contents
  PROVE  Shape'
<1>1. /\ files'[p] = row /\ \A q \in Row \ {p} : files'[q] = files[q]
      /\ p \in Row /\ Root \in Row \ {p} /\ Folder \subseteq Row
  BY RowsAreNames, SQLiteAssumption
<1>2. /\ KindOf(p)' = row.kind /\ \A q \in Row \ {p} : KindOf(q)' = KindOf(q)
      /\ \A q \in Row \ {p} : HasRow(q)' <=> HasRow(q)
      /\ \A q \in Row : HasBlob(q)' <=> HasBlob(q)
  BY <1>1 DEF KindOf, HasRow, HasBlob
<1>3. ASSUME NEW q \in Path, NEW d \in Row, HasRow(q)', IsUnder(q, d)
      PROVE  KindOf(d)' = "dir"
  <2>1. CASE q = p
    <3>1. d # p
      BY <1>1, <1>3, <2>1, RowOrder
    <3>2. CASE d = Parent(p)
      BY <1>2, <3>1, <3>2
    <3>3. CASE IsUnder(Parent(p), d)
      <4>1. Parent(p) # Root
        <5>1. Len(Parent(p)) > Len(d) /\ Len(d) \in Nat
          BY <3>3, RowsAreNames DEF IsUnder
        <5> QED BY <5>1, RowsAreNames
      <4>2. HasRow(Parent(p)) /\ Parent(p) \in Path
        BY <4>1 DEF HasRow, KindOf, Row
      <4> QED BY <1>2, <3>1, <3>3, <4>2 DEF Shape
    <3> QED BY <1>3, <2>1, <3>2, <3>3, RowUnderParent
  <2>2. CASE q # p
    <3>1. HasRow(q) /\ KindOf(d) = "dir"
      BY <1>1, <1>2, <1>3, <2>2, RowsAreNames DEF Shape
    <3> QED BY <1>2, <3>1
  <2> QED BY <2>1, <2>2
<1>4. KindOf(Root)' = "dir" /\ \A q \in Folder : KindOf(q)' # "file"
  BY <1>1, <1>2 DEF Shape
<1>5. \A q \in Row : HasBlob(q)' => KindOf(q)' = "file"
  BY <1>2 DEF Shape
<1> QED BY <1>3, <1>4, <1>5 DEF Shape

LEMMA StillPlaced ==
  ASSUME NEW t \in Thread, NEW r, th'[t] = r, UNCHANGED files, PlacedAs(r)
  PROVE  PlacedAs(th[t])'
<1>1. \A p : (HasRow(p)' <=> HasRow(p)) /\ KindOf(p)' = KindOf(p)
  BY DEF HasRow, KindOf
<1> QED BY <1>1 DEF PlacedAs, SubjectOf

LEMMA IdlePlaced ==
  ASSUME NEW t \in Thread, th'[t].pc = "idle", th'[t].method # "MOVE"
  PROVE  PlacedAs(th[t])'
BY DEF PlacedAs

LEMMA NothingSeen ==
  ASSUME UNCHANGED files
  PROVE  Atomic
<1>1. \A p : Visible(p)' = Visible(p)
  BY DEF Visible
<1> QED BY <1>1 DEF Atomic, Seen

(* What is shown of every step of t.                                       *)
Good(t) == Shape' /\ PlacedAs(th[t])' /\ Atomic

(* t looks at the tables, and goes on as r or not at all.                  *)
LEMMA Looks ==
  ASSUME SInv, NEW t \in Thread, UNCHANGED <<files, contents>>, NEW r,
         PlacedAs(r), Become(t, r)
  PROVE  Good(t)
<1>1. th'[t] = r
  BY IInvParts DEF SInv, Become
<1>2. Shape'
  BY KindsKept DEF SInv, KindOf, HasBlob
<1> QED BY <1>1, <1>2, StillPlaced, NothingSeen DEF Good

LEMMA IdleFits == PlacedAs(Idle)
BY DEF PlacedAs, Idle

LEMMA Ends ==
  ASSUME SInv, NEW t \in Thread, UNCHANGED <<files, contents>>, Finish(t)
  PROVE  Good(t)
BY Looks, IdleFits DEF Finish

LEMMA GoesOn ==
  ASSUME SInv, NEW t \in Thread, UNCHANGED <<files, contents>>, NEW label,
         Goto(t, label), PlacedAs([th[t] EXCEPT !.pc = label])
  PROVE  Good(t)
BY Looks DEF Goto

LEMMA OpenLooks ==
  ASSUME SInv, OneClient, NEW t \in Thread, StatOpened(t) \/ StatParent(t) \/ StatCreated(t)
  PROVE  Good(t)
<1>1. PICK r \in Local : r = th[t] /\ PlacedAs(r)
  BY SInvParts
<1>2. UNCHANGED <<files, contents>>
  BY DEF StatOpened, StatParent, StatCreated
<1>3. r.pc \in {"open", "parent", "restat"} /\ r.name \in Path \ Folder
  BY <1>1 DEF StatOpened, StatParent, StatCreated, PlacedAs
<1>4. Parent(r.name) \in Folder \cup {Root} /\ Parent(r.name) \in Row
  BY <1>3, FolderFacts
<1>5. KindOf(Root) = "dir" /\ \A d \in Folder : KindOf(d) \in {"none", "dir"}
  BY IInvParts, FolderFacts, Constants DEF SInv, Shape, FileRow, KindOf
<1>6. ASSUME NEW label \in {"insert", "parent", "truncate"}, Goto(t, label),
             label \in {"parent", "insert"} => ~HasRow(r.name),
             label = "insert" => KindOf(Parent(r.name)) = "dir",
             label = "truncate" => KindOf(r.name) = "file"
      PROVE  Good(t)
  <2>1. PICK s : s = [r EXCEPT !.pc = label]
    OBVIOUS
  <2>2. s.pc = label /\ s.name = r.name /\ s.method = r.method /\ s.to = r.to
    BY <2>1 DEF Local
  <2>3. PlacedAs(s)
    BY <1>1, <1>3, <1>6, <2>2 DEF PlacedAs
  <2> QED BY <1>1, <1>2, <1>6, <2>1, <2>3, GoesOn
<1>7. CASE StatOpened(t)
  <2>1. CASE files[r.name].kind = "none"
    BY <1>1, <1>2, <1>5, <1>6, <1>7, <2>1 DEF StatOpened, HasRow
  <2>2. CASE files[r.name].kind = "dir"
    BY <1>1, <1>2, <1>7, <2>2, Ends DEF StatOpened
  <2>3. CASE files[r.name].kind = "file"
    BY <1>1, <1>2, <1>6, <1>7, <2>3 DEF StatOpened, KindOf
  <2>4. files[r.name].kind \in {"none", "dir", "file"}
    BY <1>3, IInvParts, Constants DEF SInv, FileRow
  <2> QED BY <2>1, <2>2, <2>3, <2>4
<1>8. CASE StatParent(t)
  <2>1. CASE HasRow(Parent(r.name))
    <3>1. KindOf(Parent(r.name)) = "dir"
      BY <1>4, <1>5, <2>1 DEF HasRow, KindOf
    <3>2. ~HasRow(r.name)
      BY <1>1, <1>8 DEF PlacedAs, StatParent
    <3> QED BY <1>1, <1>6, <1>8, <2>1, <3>1, <3>2 DEF StatParent
  <2>2. CASE ~HasRow(Parent(r.name))
    BY <1>1, <1>2, <1>8, <2>2, Ends DEF StatParent
  <2> QED BY <2>1, <2>2
<1>9. CASE StatCreated(t)
  BY <1>1, <1>2, <1>6, <1>9, Ends DEF StatCreated, KindOf
<1> QED BY <1>7, <1>8, <1>9

LEMMA OpenWrites ==
  ASSUME SInv, OneClient, NEW t \in Thread,
         InsertFile(t) \/ InsertBlob(t) \/ TruncateSize(t) \/ TruncateBlob(t)
  PROVE  Good(t)
<1>1. PICK r \in Local : r = th[t] /\ PlacedAs(r)
  BY SInvParts
<1>2. IInv /\ Shape /\ th \in [Thread -> Local]
      /\ files \in [Row -> FileRow] /\ contents \in [Row -> Length \cup {NoBlob}]
  BY IInvParts DEF SInv
<1>3. /\ r.pc \in {"insert", "insertblob", "truncate", "truncateblob"}
      /\ r.name \in Path \ Folder /\ r.name \in Row
  BY <1>1, RowsAreNames DEF InsertFile, InsertBlob, TruncateSize, TruncateBlob, PlacedAs
<1>4. CASE InsertFile(t)
  <2>1. r.pc = "insert" /\ ~HasRow(r.name) /\ KindOf(Parent(r.name)) = "dir"
        /\ Parent(r.name) \in Row
    BY <1>1, <1>3, <1>4, FolderFacts DEF InsertFile, PlacedAs
  <2>2. PICK s : s = [r EXCEPT !.pc = "insertblob", !.created = TRUE]
    OBVIOUS
  <2>3. /\ files' = [files EXCEPT ![r.name] = [kind |-> "file", size |-> 0]]
        /\ Become(t, s) /\ UNCHANGED contents
    BY <1>1, <1>4, <2>1, <2>2 DEF InsertFile
  <2>4. PICK row \in FileRow : row = [kind |-> "file", size |-> 0]
    BY Constants DEF FileRow
  <2>5. Shape'
    BY <1>2, <1>3, <2>1, <2>3, <2>4, RowMade DEF HasRow, KindOf
  <2>6. Tree!Next
    BY <1>2, <1>3, <2>1, <2>3, MakesFile DEF HasRow, KindOf
  <2>7. /\ th'[t] = s /\ s.pc = "insertblob" /\ s.name = r.name /\ s.to = r.to
        /\ s.method = r.method
    BY <1>2, <2>2, <2>3 DEF Become, Local
  <2>8. KindOf(s.name)' = "file"
    BY <1>2, <1>3, <2>3, <2>7 DEF KindOf
  <2>9. PlacedAs(th[t])'
    <3>1. /\ s.name \in Path \ Folder
          /\ s.method = "MOVE" => /\ s.name \in Path /\ s.to \in Path /\ Movable(s.name, s.to)
                                  /\ s.name \in Folder <=> s.to \in Folder
      BY <1>1, <1>3, <2>7 DEF PlacedAs
    <3> QED BY <2>7, <2>8, <3>1 DEF PlacedAs
  <2> QED BY <2>5, <2>6, <2>9 DEF Good, Atomic
<1>5. CASE InsertBlob(t)
  <2>1. r.pc = "insertblob" /\ KindOf(r.name) = "file" /\ UNCHANGED files
    BY <1>1, <1>5 DEF InsertBlob, PlacedAs
  <2>2. CASE HasBlob(r.name)
    BY <1>1, <1>5, <2>2, Ends DEF InsertBlob
  <2>3. CASE ~HasBlob(r.name)
    <3>1. contents' = [contents EXCEPT ![r.name] = 0] /\ Goto(t, "restat")
      BY <1>1, <1>5, <2>3 DEF InsertBlob
    <3>2. Shape'
      BY <1>2, <1>3, <2>1, <3>1, KindsKept DEF HasBlob, KindOf
    <3>3. PICK s : s = [r EXCEPT !.pc = "restat"]
      OBVIOUS
    <3>4. /\ th'[t] = s /\ s.pc = "restat" /\ s.name = r.name /\ s.to = r.to
          /\ s.method = r.method
      BY <1>1, <1>2, <3>1, <3>3 DEF Goto, Become, Local
    <3>5. PlacedAs(s)
      BY <1>1, <1>3, <3>4 DEF PlacedAs
    <3> QED BY <2>1, <3>2, <3>4, <3>5, StillPlaced, NothingSeen DEF Good
  <2> QED BY <2>2, <2>3
<1>6. CASE TruncateSize(t)
  <2>1. r.pc = "truncate" /\ KindOf(r.name) = "file" /\ UNCHANGED contents
    BY <1>1, <1>6 DEF TruncateSize, PlacedAs
  <2>2. files' = [files EXCEPT ![r.name].size = 0] /\ Goto(t, "truncateblob")
    BY <1>1, <1>6, <2>1 DEF TruncateSize, HasRow, KindOf
  <2>3. Tree!Next
    BY <1>2, <1>3, <2>1, <2>2, Constants, StoresFile
  <2>4. \A p \in Row : files'[p].kind = files[p].kind
    BY <1>2, <1>3, <2>2 DEF FileRow
  <2>5. Shape'
    BY <1>2, <2>1, <2>4, KindsKept DEF HasBlob
  <2>6. PICK s : s = [r EXCEPT !.pc = "truncateblob"]
    OBVIOUS
  <2>7. /\ th'[t] = s /\ s.pc = "truncateblob" /\ s.name = r.name /\ s.to = r.to
        /\ s.method = r.method
    BY <1>1, <1>2, <2>2, <2>6 DEF Goto, Become, Local
  <2>8. PlacedAs(th[t])'
    <3>1. /\ s.name \in Path \ Folder
          /\ s.method = "MOVE" => /\ s.name \in Path /\ s.to \in Path /\ Movable(s.name, s.to)
                                  /\ s.name \in Folder <=> s.to \in Folder
      BY <1>1, <1>3, <2>7 DEF PlacedAs
    <3> QED BY <2>7, <3>1 DEF PlacedAs
  <2> QED BY <2>3, <2>5, <2>8 DEF Good, Atomic
<1>7. CASE TruncateBlob(t)
  <2>1. PICK s : s = [r EXCEPT !.pc = "close", !.created = FALSE]
    OBVIOUS
  <2>2. /\ contents' = IF HasBlob(r.name) THEN [contents EXCEPT ![r.name] = 0] ELSE contents
        /\ Become(t, s) /\ UNCHANGED files
    BY <1>1, <1>7, <2>1 DEF TruncateBlob
  <2>3. Shape'
    BY <1>2, <1>3, <2>2, KindsKept DEF HasBlob
  <2>4. /\ th'[t] = s /\ s.pc = "close" /\ s.name = r.name /\ s.to = r.to
        /\ s.method = r.method
    BY <1>2, <2>1, <2>2 DEF Become, Local
  <2>5. PlacedAs(s)
    BY <1>1, <1>3, <2>4 DEF PlacedAs
  <2> QED BY <2>2, <2>3, <2>4, <2>5, StillPlaced, NothingSeen DEF Good
<1> QED BY <1>4, <1>5, <1>6, <1>7

LEMMA CloseWrites ==
  ASSUME SInv, OneClient, NEW t \in Thread, CloseStep(t)
  PROVE  Good(t)
<1>1. PICK r \in Local : r = th[t] /\ PlacedAs(r)
  BY SInvParts
<1>2. IInv /\ Shape /\ th \in [Thread -> Local]
      /\ files \in [Row -> FileRow] /\ contents \in [Row -> Length \cup {NoBlob}]
  BY IInvParts DEF SInv
<1>3. CASE CloseEmpty(t) \/ StoreFails(t)
  BY <1>3, Ends DEF CloseEmpty, StoreFails
<1>4. CASE StoreUpload(t)
  <2>1. r.pc = "close" /\ r.name \in Path /\ r.name \in Row /\ r.body \in Length
    BY <1>1, <1>4, RowsAreNames DEF StoreUpload, PlacedAs, Local
  <2>2. /\ contents' = [contents EXCEPT ![r.name] = r.body]
        /\ files' = [files EXCEPT ![r.name].size = r.body]
        /\ Finish(t) /\ HasBlob(r.name)
    BY <1>1, <1>4 DEF StoreUpload
  <2>3. KindOf(r.name) = "file"
    BY <1>2, <2>1, <2>2 DEF Shape
  <2>4. Tree!Next
    BY <1>2, <2>1, <2>2, <2>3, StoresFile
  <2>5. \A p \in Row : files'[p].kind = files[p].kind
    BY <1>2, <2>1, <2>2 DEF FileRow
  <2>6. Shape'
    BY <1>2, <2>1, <2>2, <2>3, <2>5, KindsKept DEF HasBlob
  <2>7. th'[t] = Idle
    BY <1>2, <2>2 DEF Finish, Become
  <2> QED BY <2>4, <2>6, <2>7, IdlePlaced DEF Good, Atomic, Idle
<1> QED BY <1>3, <1>4 DEF CloseStep

LEMMA MkdirSteps ==
  ASSUME SInv, OneClient, NEW t \in Thread, MkdirStep(t)
  PROVE  Good(t)
<1>1. PICK r \in Local : r = th[t] /\ PlacedAs(r)
  BY SInvParts
<1>2. IInv /\ Shape /\ th \in [Thread -> Local]
      /\ files \in [Row -> FileRow] /\ contents \in [Row -> Length \cup {NoBlob}]
  BY IInvParts DEF SInv
<1>3. /\ r.pc \in {"mkparent", "mkself", "mkinsert"} /\ r.name \in Folder
      /\ r.name \in Path /\ r.name \in Row
  BY <1>1, RowsAreNames, FolderFacts
     DEF MkdirStep, StatMkdirParent, StatMkdir, InsertDir, PlacedAs
<1>4. Parent(r.name) \in Folder \cup {Root} /\ Parent(r.name) \in Row
  BY <1>3, FolderFacts
<1>5. KindOf(Root) = "dir" /\ \A d \in Folder : KindOf(d) \in {"none", "dir"}
  BY IInvParts, FolderFacts, Constants DEF SInv, Shape, FileRow, KindOf
<1>6. ASSUME NEW label \in {"mkself", "mkinsert"}, Goto(t, label), UNCHANGED <<files, contents>>,
             KindOf(Parent(r.name)) = "dir"
      PROVE  Good(t)
  <2>1. PICK s : s = [r EXCEPT !.pc = label]
    OBVIOUS
  <2>2. s.pc = label /\ s.name = r.name /\ s.method = r.method /\ s.to = r.to
    BY <2>1 DEF Local
  <2>3. PlacedAs(s)
    BY <1>1, <1>3, <1>6, <2>2 DEF PlacedAs
  <2> QED BY <1>1, <1>6, <2>1, <2>3, GoesOn
<1>7. CASE StatMkdirParent(t)
  <2>1. Finish(t) \/ (Goto(t, "mkself") /\ KindOf(Parent(r.name)) = "dir")
    BY <1>1, <1>4, <1>5, <1>7 DEF StatMkdirParent, HasRow, KindOf
  <2> QED BY <1>6, <1>7, <2>1, Ends DEF StatMkdirParent
<1>8. CASE StatMkdir(t)
  <2>1. KindOf(Parent(r.name)) = "dir"
    BY <1>1, <1>8 DEF StatMkdir, PlacedAs
  <2> QED BY <1>6, <1>8, <2>1, Ends DEF StatMkdir
<1>9. CASE InsertDir(t)
  <2>1. KindOf(Parent(r.name)) = "dir" /\ Finish(t) /\ UNCHANGED contents
    BY <1>1, <1>9 DEF InsertDir, PlacedAs
  <2>2. CASE HasRow(r.name)
    BY <1>1, <1>9, <2>1, <2>2, Ends DEF InsertDir
  <2>3. CASE ~HasRow(r.name)
    <3>1. files' = [files EXCEPT ![r.name] = [kind |-> "dir", size |-> 0]]
      BY <1>1, <1>9, <2>3 DEF InsertDir
    <3>2. PICK row \in FileRow : row = [kind |-> "dir", size |-> 0]
      BY Constants DEF FileRow
    <3>3. Shape'
      <4>1. row.kind = "dir" /\ files' = [files EXCEPT ![r.name] = row] /\ KindOf(r.name) = "none"
        BY <2>3, <3>1, <3>2 DEF HasRow, KindOf
      <4>2. /\ r.name \in Path /\ Parent(r.name) \in Row /\ KindOf(Parent(r.name)) = "dir"
            /\ Shape /\ files \in [Row -> FileRow] /\ UNCHANGED contents
        BY <1>2, <1>3, <1>4, <2>1
      <4> QED BY <4>1, <4>2, RowMade
    <3>4. Tree!Next
      BY <1>2, <1>3, <1>4, <2>1, <2>3, <3>1, MakesDir DEF HasRow, KindOf
    <3>5. th'[t] = Idle
      BY <1>2, <2>1 DEF Finish, Become
    <3> QED BY <3>3, <3>4, <3>5, IdlePlaced DEF Good, Atomic, Idle
  <2> QED BY <2>2, <2>3
<1> QED BY <1>7, <1>8, <1>9 DEF MkdirStep

LEMMA RemoveLooks ==
  ASSUME SInv, OneClient, NEW t \in Thread, StatSubject(t) \/ StatRemoved(t)
  PROVE  Good(t)
<1>1. PICK r \in Local : r = th[t] /\ PlacedAs(r)
  BY SInvParts
<1>2. UNCHANGED <<files, contents>> /\ Subject(t) = SubjectOf(r)
  BY <1>1 DEF StatSubject, StatRemoved, Subject, SubjectOf
<1>3. r.pc \in {"stat", "rmstat"} /\ SubjectOf(r) \in Path
  BY <1>1 DEF StatSubject, StatRemoved, PlacedAs
<1>4. ASSUME NEW s \in Local, Become(t, s), s.name = r.name, s.to = r.to, s.method = r.method,
             \/ s.pc = "rmstat"
             \/ s.pc = "oldstat" /\ s.method = "MOVE"
             \/ s.pc = "rm" /\ (s.dir <=> KindOf(SubjectOf(r)) = "dir")
      PROVE  Good(t)
  <2>1. SubjectOf(s) = SubjectOf(r)
    BY <1>4 DEF SubjectOf
  <2>2. PlacedAs(s)
    BY <1>1, <1>3, <1>4, <2>1 DEF PlacedAs
  <2> QED BY <1>2, <1>4, <2>2, Looks
<1>5. ASSUME NEW label \in {"rmstat", "oldstat"}, Goto(t, label),
             label = "oldstat" => r.method = "MOVE"
      PROVE  Good(t)
  <2>1. PICK s : s = [r EXCEPT !.pc = label]
    OBVIOUS
  <2>2. s \in Local /\ s.pc = label /\ s.name = r.name /\ s.method = r.method /\ s.to = r.to
    BY <2>1 DEF Local, Label
  <2> QED BY <1>1, <1>4, <1>5, <2>1, <2>2 DEF Goto
<1>6. CASE StatSubject(t)
  BY <1>1, <1>2, <1>5, <1>6, Ends DEF StatSubject
<1>7. CASE StatRemoved(t)
  <2>1. CASE HasRow(SubjectOf(r))
    <3>1. Become(t, [r EXCEPT !.pc = "rm", !.dir = (files[SubjectOf(r)].kind = "dir")])
      BY <1>1, <1>2, <1>7, <2>1 DEF StatRemoved
    <3>2. PICK dir \in BOOLEAN : dir = (files[SubjectOf(r)].kind = "dir")
      OBVIOUS
    <3>3. PICK s : s = [r EXCEPT !.pc = "rm", !.dir = dir]
      OBVIOUS
    <3>4. /\ s \in Local /\ s.pc = "rm" /\ s.name = r.name /\ s.method = r.method
          /\ s.to = r.to /\ s.dir = dir
      BY <3>3 DEF Local, Label
    <3>5. dir <=> KindOf(SubjectOf(r)) = "dir"
      BY <3>2 DEF KindOf
    <3>6. Become(t, s)
      BY <3>1, <3>2, <3>3, Zenon
    <3> QED BY <1>4, <3>4, <3>5, <3>6
  <2>2. CASE ~HasRow(SubjectOf(r))
    <3>1. AfterRemoval(t)
      BY <1>2, <1>7, <2>2 DEF StatRemoved
    <3> QED BY <1>1, <1>2, <1>5, <3>1, Ends DEF AfterRemoval
  <2> QED BY <2>1, <2>2
<1> QED BY <1>6, <1>7

LEMMA LikeIsUnder ==
  ASSUME OneClient, NEW q \in Row, NEW d \in Row
  PROVE  LikeBelow(q, d) <=> IsUnder(q, d)
<1>1. q \in Place /\ d \in Place
  BY RowsAreNames
<1> QED BY <1>1, UnderMeans DEF LikeBelow, OneClient

LEMMA RemoveWrites ==
  ASSUME SInv, OneClient, NEW t \in Thread, RemoveRows(t)
  PROVE  Good(t)
<1>1. PICK r \in Local : r = th[t] /\ PlacedAs(r)
  BY SInvParts
<1>2. IInv /\ Shape /\ th \in [Thread -> Local]
      /\ files \in [Row -> FileRow] /\ contents \in [Row -> Length \cup {NoBlob}]
  BY IInvParts DEF SInv
<1>3. PICK p : p = SubjectOf(r)
  OBVIOUS
<1>4. /\ p \in Path /\ p \in Row /\ r.pc = "rm" /\ (r.dir <=> KindOf(p) = "dir")
      /\ Subject(t) = p
  BY <1>1, <1>3, RowsAreNames DEF RemoveRows, PlacedAs, Subject, SubjectOf
<1>5. PICK S : S = Doomed(p, r.dir)
  OBVIOUS
<1>6. /\ files' = Deleted(files, S, NoRow) /\ contents' = Deleted(contents, S, NoBlob)
      /\ AfterRemoval(t)
  BY <1>1, <1>4, <1>5 DEF RemoveRows
<1>7. \A q \in Row : q \in S <=> q = p \/ (r.dir /\ IsUnder(q, p))
  BY <1>4, <1>5, LikeIsUnder DEF Doomed, Below
<1>8. /\ \A q \in Row : files'[q] = IF q \in S THEN NoRow ELSE files[q]
      /\ \A q \in Row : contents'[q] = IF q \in S THEN NoBlob ELSE contents[q]
  BY <1>6 DEF Deleted
<1>9. \A q \in Row : q = p \/ IsUnder(q, p) => KindOf(q)' = "none"
  <2>1. SUFFICES ASSUME NEW q \in Row, q = p \/ IsUnder(q, p), q \notin S
                 PROVE  KindOf(q)' = "none"
    BY <1>8, Constants DEF KindOf
  <2>2. IsUnder(q, p) /\ KindOf(p) # "dir"
    BY <1>4, <1>7, <2>1
  <2>3. ~HasRow(q)
    BY <1>2, <1>4, <2>2, NothingBelow
  <2> QED BY <1>8, <2>1, <2>3 DEF HasRow, KindOf
<1>10. \A q \in Row : q = p \/ IsUnder(q, p) \/ (q \notin S /\ files'[q] = files[q])
  BY <1>7, <1>8
<1>11. Shape'
  <2>1. KindOf(Root)' = "dir"
    <3>1. Root \in Row /\ Root # p /\ ~IsUnder(Root, p)
      BY <1>4, RowsAreNames DEF IsUnder
    <3> QED BY <1>2, <1>10, <3>1 DEF Shape, KindOf
  <2>2. ASSUME NEW q \in Path, NEW d \in Row, HasRow(q)', IsUnder(q, d)
        PROVE  KindOf(d)' = "dir"
    <3>1. q \in Row /\ q # p /\ ~IsUnder(q, p)
      BY <1>9, <2>2, RowsAreNames DEF HasRow, KindOf
    <3>2. d # p /\ ~IsUnder(d, p)
      BY <1>4, <2>2, <3>1, RowOrder
    <3>3. files'[q] = files[q] /\ files'[d] = files[d]
      BY <1>10, <3>1, <3>2
    <3> QED BY <1>2, <2>2, <3>3 DEF Shape, HasRow, KindOf
  <2>3. ASSUME NEW q \in Folder
        PROVE  KindOf(q)' # "file"
    <3>1. q \in Row
      BY FolderFacts, RowsAreNames
    <3> QED BY <1>2, <1>9, <1>10, <3>1 DEF Shape, KindOf
  <2>4. ASSUME NEW q \in Row, HasBlob(q)'
        PROVE  KindOf(q)' = "file"
    <3>1. q \notin S /\ HasBlob(q)
      BY <1>8, <2>4 DEF HasBlob
    <3> QED BY <1>2, <1>8, <3>1 DEF Shape, KindOf
  <2> QED BY <2>1, <2>2, <2>3, <2>4 DEF Shape
<1>12. Tree!Next
  <2>1. ASSUME NEW q \in Path
        PROVE  Seen'[q] = IF q = p \/ IsUnder(q, p) THEN 0 ELSE Seen[q]
    <3>1. q \in Row
      BY RowsAreNames
    <3>2. CASE q = p \/ IsUnder(q, p)
      BY <1>9, <3>1, <3>2 DEF Seen, Visible, Absent, KindOf
    <3>3. CASE ~(q = p \/ IsUnder(q, p))
      <4>1. files'[q] = files[q]
        BY <1>10, <3>1, <3>3
      <4>2. Visible(q)' = Visible(q)
        BY <4>1, Zenon DEF Visible
      <4> QED BY <3>3, <4>2 DEF Seen
    <3> QED BY <3>2, <3>3
  <2>2. Seen' = [q \in Path |-> Seen'[q]]
    BY DEF Seen
  <2>3. Tree!RemoveAll(p)
    BY <2>1, <2>2, SameTrees DEF Tree!RemoveAll, Tree!Without, Seen
  <2> QED BY <1>4, <2>3 DEF Tree!Next
<1>13. PlacedAs(th[t])'
  <2>1. CASE r.method = "MOVE"
    <3>1. PICK s : s = [r EXCEPT !.pc = "oldstat"]
      OBVIOUS
    <3>2. /\ th'[t] = s /\ s.pc = "oldstat" /\ s.name = r.name /\ s.to = r.to
          /\ s.method = r.method
      BY <1>1, <1>2, <1>6, <2>1, <3>1 DEF AfterRemoval, Goto, Become, Local
    <3> QED BY <1>1, <2>1, <3>2 DEF PlacedAs
  <2>2. CASE r.method # "MOVE"
    <3>1. th'[t] = Idle
      BY <1>1, <1>2, <1>6, <2>2 DEF AfterRemoval, Finish, Become
    <3> QED BY <3>1, IdlePlaced DEF Idle
  <2> QED BY <2>1, <2>2
<1> QED BY <1>11, <1>12, <1>13 DEF Good, Atomic

LEMMA RenameLooks ==
  ASSUME SInv, OneClient, NEW t \in Thread, StatOld(t) \/ StatNew(t) \/ StatNewParent(t)
  PROVE  Good(t)
<1>1. PICK r \in Local : r = th[t] /\ PlacedAs(r)
  BY SInvParts
<1>2. UNCHANGED <<files, contents>>
  BY DEF StatOld, StatNew, StatNewParent
<1>3. /\ r.pc \in {"oldstat", "newstat", "newparent"} /\ r.method = "MOVE"
      /\ r.name \in Path /\ r.to \in Path /\ Movable(r.name, r.to)
      /\ r.name \in Folder <=> r.to \in Folder
  BY <1>1 DEF StatOld, StatNew, StatNewParent, PlacedAs
<1>4. Parent(r.to) \in Folder \cup {Root} /\ Parent(r.to) \in Row
  BY <1>3, FolderFacts
<1>5. KindOf(Root) = "dir" /\ \A d \in Folder : KindOf(d) \in {"none", "dir"}
  BY IInvParts, FolderFacts, Constants DEF SInv, Shape, FileRow, KindOf
<1>6. ASSUME NEW s \in Local, Become(t, s), s.name = r.name, s.to = r.to, s.method = r.method,
             s.pc \in {"newstat", "newparent", "mv"},
             HasRow(r.name) /\ (s.dir <=> KindOf(r.name) = "dir"),
             s.pc \in {"newparent", "mv"} => ~HasRow(r.to),
             s.pc = "mv" => KindOf(Parent(r.to)) = "dir"
      PROVE  Good(t)
  <2>1. PlacedAs(s)
    BY <1>3, <1>6 DEF PlacedAs
  <2> QED BY <1>2, <1>6, <2>1, Looks
<1>7. ASSUME NEW label \in {"newparent", "mv"}, Goto(t, label), r.pc \in {"newstat", "newparent"},
             ~HasRow(r.to), label = "mv" => KindOf(Parent(r.to)) = "dir"
      PROVE  Good(t)
  <2>1. PICK s : s = [r EXCEPT !.pc = label]
    OBVIOUS
  <2>2. /\ s \in Local /\ s.pc = label /\ s.name = r.name /\ s.method = r.method /\ s.to = r.to
        /\ s.dir = r.dir
    BY <2>1 DEF Local, Label
  <2>3. HasRow(r.name) /\ (r.dir <=> KindOf(r.name) = "dir")
    BY <1>1, <1>7 DEF PlacedAs
  <2> QED BY <1>1, <1>6, <1>7, <2>1, <2>2, <2>3 DEF Goto
<1>8. CASE StatOld(t)
  <2>1. CASE HasRow(r.name)
    <3>1. Become(t, [r EXCEPT !.pc = "newstat", !.dir = (files[r.name].kind = "dir")])
      BY <1>1, <1>8, <2>1 DEF StatOld
    <3>2. PICK dir \in BOOLEAN : dir = (files[r.name].kind = "dir")
      OBVIOUS
    <3>3. PICK s : s = [r EXCEPT !.pc = "newstat", !.dir = dir]
      OBVIOUS
    <3>4. /\ s \in Local /\ s.pc = "newstat" /\ s.name = r.name /\ s.method = r.method
          /\ s.to = r.to /\ s.dir = dir
      BY <3>3 DEF Local, Label
    <3>5. dir <=> KindOf(r.name) = "dir"
      BY <3>2 DEF KindOf
    <3>6. Become(t, s)
      BY <3>1, <3>2, <3>3, Zenon
    <3> QED BY <1>6, <2>1, <3>4, <3>5, <3>6
  <2>2. CASE ~HasRow(r.name)
    BY <1>1, <1>2, <1>8, <2>2, Ends DEF StatOld
  <2> QED BY <2>1, <2>2
<1>9. CASE StatNew(t)
  <2>1. \/ Finish(t)
        \/ ~HasRow(r.to) /\ Parent(r.to) = Root /\ Goto(t, "mv")
        \/ ~HasRow(r.to) /\ Goto(t, "newparent")
    BY <1>1, <1>9 DEF StatNew
  <2>2. r.pc = "newstat"
    BY <1>1, <1>9 DEF StatNew
  <2> QED BY <1>2, <1>5, <1>7, <2>1, <2>2, Ends
<1>10. CASE StatNewParent(t)
  <2>1. \/ Finish(t)
        \/ HasRow(Parent(r.to)) /\ Goto(t, "mv")
    BY <1>1, <1>10 DEF StatNewParent
  <2>2. r.pc = "newparent" /\ ~HasRow(r.to)
    BY <1>1, <1>10 DEF StatNewParent, PlacedAs
  <2>3. HasRow(Parent(r.to)) => KindOf(Parent(r.to)) = "dir"
    BY <1>4, <1>5 DEF HasRow, KindOf
  <2> QED BY <1>2, <1>7, <2>1, <2>2, <2>3, Ends
<1> QED BY <1>8, <1>9, <1>10

(* src and what is below it have become dst and what is below it.          *)
Moved(src, dst) ==
    \A q \in Row :
        files'[q] = IF q = dst THEN files[src]
                    ELSE IF IsUnder(q, dst)
                         THEN IF Rebase(q, dst, src) \in Path THEN files[Rebase(q, dst, src)]
                              ELSE NoRow
                    ELSE IF q = src \/ IsUnder(q, src) THEN NoRow
                    ELSE files[q]

(* What Rename has established before its last statements.                 *)
MayMove(src, dst) ==
    /\ src \in Path /\ dst \in Path /\ Movable(src, dst)
    /\ src \in Folder <=> dst \in Folder
    /\ HasRow(src) /\ ~HasRow(dst) /\ KindOf(Parent(dst)) = "dir"

LEMMA MayMoveFacts ==
  ASSUME SInv, OneClient, NEW src, NEW dst, MayMove(src, dst)
  PROVE  /\ src \in Path /\ dst \in Path /\ src \in Row /\ dst \in Row /\ src # dst
         /\ ~IsUnder(dst, src) /\ ~IsUnder(src, dst)
         /\ \A q \in Row : IsUnder(q, dst) => ~HasRow(q)
         /\ \A q \in Row : ~HasRow(q) => files[q] = NoRow
         /\ \A d \in Row : IsUnder(dst, d) => KindOf(d) = "dir"
<1>1. src \in Path /\ dst \in Path /\ src \in Row /\ dst \in Row /\ src # dst
  BY RowsAreNames DEF MayMove, Movable
<1>2. ~IsUnder(dst, src)
  BY <1>1, NotIntoItself DEF MayMove
<1>3. KindOf(dst) # "dir" /\ Shape
  BY DEF MayMove, HasRow, KindOf, SInv
<1>4. \A q \in Row : IsUnder(q, dst) => ~HasRow(q)
  BY <1>1, <1>3, NothingBelow
<1>5. ~IsUnder(src, dst)
  BY <1>1, <1>4 DEF MayMove
<1>6. \A q \in Row : ~HasRow(q) => files[q] = NoRow
  BY IInvParts DEF SInv, HasRow, FileRow, NoRow
<1>7. ASSUME NEW d \in Row, IsUnder(dst, d)
      PROVE  KindOf(d) = "dir"
  <2>1. KindOf(Parent(dst)) = "dir" /\ Parent(dst) \in Row
    BY <1>1, FolderFacts DEF MayMove
  <2>2. CASE d = Parent(dst)
    BY <2>1, <2>2
  <2>3. CASE IsUnder(Parent(dst), d)
    <3>1. Parent(dst) # Root
      <4>1. Len(Parent(dst)) > Len(d) /\ Len(d) \in Nat
        BY <2>3, RowsAreNames DEF IsUnder
      <4> QED BY <4>1, RowsAreNames
    <3>2. Parent(dst) \in Path /\ HasRow(Parent(dst))
      BY <2>1, <3>1 DEF Row, HasRow, KindOf
    <3> QED BY <1>3, <2>3, <3>2 DEF Shape
  <2> QED BY <1>1, <1>7, <2>2, <2>3, RowUnderParent
<1> QED BY <1>1, <1>2, <1>4, <1>5, <1>6, <1>7

(* Whichever rows a rename finds, the tree stays a tree, and what the      *)
(* client sees is one Rename.                                              *)
LEMMA MovedShape ==
  ASSUME SInv, OneClient, NEW src, NEW dst, MayMove(src, dst), Moved(src, dst),
         \A q \in Row : contents'[q] # NoBlob => KindOf(q)' = "file"
  PROVE  Shape'
<1>1. /\ src \in Path /\ dst \in Path /\ src \in Row /\ dst \in Row /\ src # dst
      /\ ~IsUnder(dst, src) /\ ~IsUnder(src, dst)
      /\ \A q \in Row : IsUnder(q, dst) => ~HasRow(q)
      /\ \A d \in Row : IsUnder(dst, d) => KindOf(d) = "dir"
  BY MayMoveFacts
<1>2. Shape /\ NoRow.kind = "none" /\ Path \subseteq Row
  BY Constants DEF SInv
<1>3. /\ KindOf(dst)' = KindOf(src)
      /\ \A q \in Row : IsUnder(q, dst) /\ KindOf(q)' # "none" =>
            Rebase(q, dst, src) \in Path /\ KindOf(q)' = KindOf(Rebase(q, dst, src))
      /\ \A q \in Row : IsUnder(q, dst) /\ Rebase(q, dst, src) \in Path =>
            KindOf(q)' = KindOf(Rebase(q, dst, src))
      /\ \A q \in Row : q = src \/ IsUnder(q, src) => q = dst \/ IsUnder(q, dst) \/ KindOf(q)' = "none"
      /\ \A q \in Row : q = dst \/ IsUnder(q, dst) \/ q = src \/ IsUnder(q, src)
                        \/ KindOf(q)' = KindOf(q)
  <2>1. \A q \in Row : IsUnder(q, dst) => q # dst
    BY <1>1, RowOrder
  <2> QED BY <1>1, <1>2, <2>1 DEF Moved, KindOf
<1>4. ASSUME NEW q \in Row, KindOf(q) = "dir", q # src, ~IsUnder(q, src)
      PROVE  KindOf(q)' = "dir"
  <2>1. q # dst /\ ~IsUnder(q, dst)
    BY <1>1, <1>4 DEF HasRow, KindOf, MayMove
  <2> QED BY <1>3, <1>4, <2>1
<1>5. KindOf(Root)' = "dir"
  <2>1. Root \in Row /\ Root # src /\ ~IsUnder(Root, src)
    BY <1>1, RowsAreNames DEF IsUnder
  <2> QED BY <1>2, <1>4, <2>1 DEF Shape
<1>6. ASSUME NEW q \in Path, NEW d \in Row, HasRow(q)', IsUnder(q, d)
      PROVE  KindOf(d)' = "dir"
  <2>0. q \in Row /\ KindOf(q)' # "none"
    BY <1>2, <1>6 DEF HasRow, KindOf
  <2>1. ASSUME IsUnder(dst, d)
        PROVE  KindOf(d)' = "dir"
    <3>1. KindOf(d) = "dir" /\ d # src /\ ~IsUnder(d, src)
      BY <1>1, <2>1, RowOrder
    <3> QED BY <1>4, <3>1
  <2>2. CASE q = dst
    BY <1>6, <2>1, <2>2
  <2>3. CASE IsUnder(q, dst)
    <3>1. PICK b \in Path : b = Rebase(q, dst, src) /\ KindOf(b) # "none"
      BY <1>3, <2>0, <2>3
    <3>2. b \in Row /\ HasRow(b) /\ IsUnder(b, src) /\ Rebase(b, src, dst) = q
      <4>1. q # dst
        BY <2>3, <1>1, RowOrder
      <4>2. b # src
        BY <1>1, <2>0, <2>3, <3>1, <4>1, RowRebaseBack
      <4> QED BY <1>1, <1>2, <2>0, <2>3, <3>1, <4>2, RowRebaseBack DEF HasRow, KindOf
    <3>3. CASE d = dst
      <4>1. KindOf(src) = "dir"
        BY <1>1, <1>2, <3>2 DEF Shape
      <4> QED BY <1>3, <3>3, <4>1
    <3>4. CASE IsUnder(d, dst)
      <4>1. PICK n \in 1 .. Len(b) - 1 :
               /\ IsUnder(b, SubSeq(b, 1, n)) /\ IsUnder(SubSeq(b, 1, n), src)
               /\ Rebase(SubSeq(b, 1, n), src, dst) = d
        BY <1>1, <1>6, <3>2, <3>4, RowRebaseBetween
      <4>2. PICK e \in Folder : e = SubSeq(b, 1, n)
        BY DEF OneClient
      <4>3. e \in Path /\ e \in Row
        BY <1>2, FolderFacts
      <4>4. KindOf(e) = "dir"
        BY <1>2, <3>1, <3>2, <4>1, <4>2, <4>3 DEF Shape
      <4>5. Rebase(d, dst, src) = e
        <5>1. Rebase(e, src, dst) = d /\ IsUnder(e, src)
          BY <4>1, <4>2
        <5>2. Rebase(Rebase(e, src, dst), dst, src) = e
          BY <1>1, <4>3, <5>1, RowRebaseBack
        <5> QED BY <5>1, <5>2
      <4> QED BY <1>3, <3>4, <4>3, <4>4, <4>5
    <3> QED BY <1>1, <1>6, <2>0, <2>1, <2>3, <3>3, <3>4, RowOrder
  <2>4. CASE q # dst /\ ~IsUnder(q, dst)
    <3>1. q # src /\ ~IsUnder(q, src) /\ KindOf(q)' = KindOf(q)
      BY <1>3, <2>0, <2>4
    <3>2. KindOf(d) = "dir"
      BY <1>2, <1>6, <2>0, <3>1 DEF Shape, HasRow, KindOf
    <3>3. d # src /\ ~IsUnder(d, src)
      BY <1>1, <1>6, <2>0, <3>1, RowOrder
    <3> QED BY <1>4, <3>2, <3>3
  <2> QED BY <2>2, <2>3, <2>4
<1>7. ASSUME NEW q \in Folder
      PROVE  KindOf(q)' # "file"
  <2>1. q \in Path /\ q \in Row
    BY <1>2, FolderFacts
  <2>2. CASE q = dst
    <3>1. src \in Folder
      BY <2>2 DEF MayMove
    <3> QED BY <1>2, <1>3, <2>2, <3>1 DEF Shape
  <2>3. CASE IsUnder(q, dst)
    <3>1. SUFFICES ASSUME KindOf(q)' # "none" PROVE KindOf(q)' # "file"
      BY <1>3, <2>1
    <3>2. PICK b \in Path : b = Rebase(q, dst, src) /\ KindOf(q)' = KindOf(b)
      BY <1>3, <2>1, <2>3, <3>1
    <3>3. b \in Row /\ IsUnder(b, src) /\ Rebase(b, src, dst) = q
      <4>1. q # dst
        BY <2>3, <1>1, RowOrder
      <4>2. b # src
        BY <1>1, <2>1, <2>3, <3>2, <4>1, RowRebaseBack
      <4> QED BY <1>1, <1>2, <2>1, <2>3, <3>2, <4>2, RowRebaseBack
    <3>4. src \in Folder /\ dst \in Folder
      <4>1. src # Root
        BY <1>1, RowsAreNames
      <4> QED BY <1>1, <3>3, <4>1, FolderFacts DEF MayMove
    <3>5. b \in Folder
      BY <3>3, <3>4 DEF OneClient, MayMove
    <3> QED BY <1>2, <3>2, <3>5 DEF Shape
  <2>4. CASE q # dst /\ ~IsUnder(q, dst)
    BY <1>2, <1>3, <2>1, <2>4 DEF Shape
  <2> QED BY <2>2, <2>3, <2>4
<1>8. \A q \in Row : HasBlob(q)' => KindOf(q)' = "file"
  BY DEF HasBlob
<1> QED BY <1>5, <1>6, <1>7, <1>8 DEF Shape

LEMMA MovedSeen ==
  ASSUME SInv, OneClient, NEW src, NEW dst, MayMove(src, dst), Moved(src, dst)
  PROVE  Tree!Next
<1>1. /\ src \in Path /\ dst \in Path /\ src \in Row /\ dst \in Row /\ src # dst
      /\ ~IsUnder(dst, src) /\ ~IsUnder(src, dst)
      /\ \A q \in Row : IsUnder(q, dst) => ~HasRow(q)
  BY MayMoveFacts
<1>2. IInv /\ Path \subseteq Row /\ KindOf(dst) = "none" /\ KindOf(src) # "none"
      /\ KindOf(Parent(dst)) = "dir" /\ Parent(dst) \in Row
  BY <1>1, RowsAreNames, FolderFacts DEF SInv, MayMove, HasRow, KindOf
<1>3. Tree!CanMake(Seen, dst)
  BY <1>1, <1>2, CanMakeSeen
<1>4. Seen[dst] = 0 /\ Seen[src] # 0
  <2>1. KindOf(src) \in {"none", "dir", "file"} /\ files[src].size \in Nat
    BY <1>1, <1>2, SeenParts
  <2> QED BY <1>1, <1>2, <2>1, SeenParts
<1>5. Tree!CanRename(Seen, src, dst) /\ ~Tree!Exists(Seen, dst)
  <2>1. src # Root /\ dst # Root
    BY <1>1, RowsAreNames
  <2> QED BY <1>1, <1>3, <1>4, <2>1, SameTrees
        DEF Tree!CanRename, Tree!Exists, Tree!At
<1>6. ASSUME NEW q \in Path
      PROVE  Seen'[q] = IF q = dst THEN Seen[src]
                        ELSE IF IsUnder(q, dst) /\ Rebase(q, dst, src) \in Path
                             THEN Seen[Rebase(q, dst, src)]
                        ELSE IF q = src \/ IsUnder(q, src) THEN 0 ELSE Seen[q]
  <2>0. q \in Row
    BY <1>2
  <2>a. ASSUME NEW s \in Path, files'[q] = files[s]
        PROVE  Seen'[q] = Seen[s]
    <3>1. Visible(q)' = Visible(s)
      BY <2>a, Zenon DEF Visible
    <3> QED BY <3>1 DEF Seen
  <2>b. ASSUME files'[q] = NoRow
        PROVE  Seen'[q] = 0
    BY <2>b, Constants DEF Seen, Visible, Absent
  <2>1. CASE q = dst
    BY <1>1, <2>0, <2>1, <2>a DEF Moved
  <2>2. CASE q # dst /\ IsUnder(q, dst) /\ Rebase(q, dst, src) \in Path
    BY <2>0, <2>2, <2>a DEF Moved
  <2>3. CASE q # dst /\ IsUnder(q, dst) /\ Rebase(q, dst, src) \notin Path
    <3>1. Seen'[q] = 0
      BY <2>0, <2>3, <2>b DEF Moved
    <3>2. Seen[q] = 0
      BY <1>1, <1>2, <2>0, <2>3, SeenParts DEF HasRow, KindOf
    <3> QED BY <2>3, <3>1, <3>2
  <2>4. CASE q # dst /\ ~IsUnder(q, dst) /\ (q = src \/ IsUnder(q, src))
    <3>1. files'[q] = NoRow
      BY <2>0, <2>4 DEF Moved
    <3> QED BY <2>4, <3>1, <2>b
  <2>5. CASE q # dst /\ ~IsUnder(q, dst) /\ ~(q = src \/ IsUnder(q, src))
    <3>1. files'[q] = files[q]
      BY <2>0, <2>5 DEF Moved
    <3> QED BY <2>5, <3>1, <2>a
  <2> QED BY <2>1, <2>2, <2>3, <2>4, <2>5
<1>7. Seen' = [q \in Path |-> Seen'[q]]
  BY DEF Seen
<1>8. Seen' = Tree!Renamed(Seen, src, dst)
  BY <1>6, <1>7, SameTrees DEF Tree!Renamed
<1>9. Tree!Rename(src, dst)
  BY <1>5, <1>8 DEF Tree!Rename, Seen
<1> QED BY <1>1, <1>9 DEF Tree!Next

LEMMA RenamesFile ==
  ASSUME SInv, OneClient, NEW t \in Thread, RenameFile(t)
  PROVE  Good(t)
<1>1. PICK r \in Local : r = th[t] /\ PlacedAs(r)
  BY SInvParts
<1>2. PICK src, dst : src = r.name /\ dst = r.to
  OBVIOUS
<1>3. /\ IInv /\ Shape /\ th \in [Thread -> Local]
      /\ files \in [Row -> FileRow] /\ contents \in [Row -> Length \cup {NoBlob}]
  BY IInvParts DEF SInv
<1>4. r.pc = "mv" /\ ~r.dir /\ Finish(t)
  BY <1>1 DEF RenameFile
<1>5. MayMove(src, dst) /\ KindOf(src) # "dir"
  BY <1>1, <1>2, <1>4 DEF PlacedAs, MayMove
<1>6. /\ src \in Path /\ dst \in Path /\ src \in Row /\ dst \in Row /\ src # dst
      /\ ~IsUnder(dst, src) /\ ~IsUnder(src, dst)
      /\ \A q \in Row : IsUnder(q, dst) => ~HasRow(q)
      /\ \A q \in Row : ~HasRow(q) => files[q] = NoRow
  BY <1>5, MayMoveFacts
<1>7. KindOf(src) = "file" /\ ~HasRow(dst) /\ ~HasBlob(dst)
  BY <1>3, <1>5, <1>6 DEF MayMove, FileRow, KindOf, HasRow, Shape
<1>8. PICK image : image = [s \in {src} |-> dst]
  OBVIOUS
<1>9. /\ files' = Rekeyed(files, {src}, image, NoRow)
      /\ contents' = IF HasBlob(src) THEN Rekeyed(contents, {src}, image, NoBlob) ELSE contents
  BY <1>1, <1>2, <1>5, <1>7, <1>8 DEF RenameFile, MayMove
<1>10. /\ \A q \in Row : (\E s \in {src} : image[s] = q) <=> q = dst
       /\ (CHOOSE s \in {src} : image[s] = dst) = src
  BY <1>8
<1>11. \A q \in Row : files'[q] = IF q = dst THEN files[src] ELSE IF q = src THEN NoRow ELSE files[q]
  BY <1>9, <1>10 DEF Rekeyed
<1>12. \A q \in Row : contents'[q] # NoBlob => q = dst \/ (q # src /\ HasBlob(q))
  <2>1. CASE HasBlob(src)
    <3>1. \A q \in Row : contents'[q] = IF q = dst THEN contents[src]
                                        ELSE IF q = src THEN NoBlob ELSE contents[q]
      BY <1>9, <1>10, <2>1 DEF Rekeyed
    <3> QED BY <3>1 DEF HasBlob
  <2>2. CASE ~HasBlob(src)
    BY <1>9, <2>2 DEF HasBlob
  <2> QED BY <2>1, <2>2
<1>13. Moved(src, dst)
  <2>1. SUFFICES ASSUME NEW q \in Row, q # dst
                 PROVE  files'[q] = IF IsUnder(q, dst)
                                    THEN IF Rebase(q, dst, src) \in Path THEN files[Rebase(q, dst, src)]
                                         ELSE NoRow
                                    ELSE IF q = src \/ IsUnder(q, src) THEN NoRow ELSE files[q]
    BY <1>6, <1>11 DEF Moved
  <2>2. \A b \in Row : IsUnder(b, src) => files[b] = NoRow
    BY <1>3, <1>5, <1>6, NothingBelow
  <2>3. CASE IsUnder(q, dst)
    <3>1. files'[q] = NoRow
      BY <1>6, <1>11, <2>1, <2>3
    <3>2. Rebase(q, dst, src) \in Path => files[Rebase(q, dst, src)] = NoRow
      <4>1. SUFFICES ASSUME Rebase(q, dst, src) \in Path
                     PROVE  files[Rebase(q, dst, src)] = NoRow
        OBVIOUS
      <4>2. Rebase(q, dst, src) \in Row /\ IsUnder(Rebase(q, dst, src), src)
        BY <1>6, <2>1, <2>3, <4>1, RowRebaseBack, RowsAreNames
      <4> QED BY <2>2, <4>2
    <3> QED BY <2>3, <3>1, <3>2
  <2>4. CASE ~IsUnder(q, dst)
    BY <1>6, <1>11, <2>1, <2>2, <2>4
  <2> QED BY <2>3, <2>4
<1>14. \A q \in Row : contents'[q] # NoBlob => KindOf(q)' = "file"
  <2>1. ASSUME NEW q \in Row, q # src, HasBlob(q)
        PROVE  KindOf(q)' = "file"
    <3>1. q # dst /\ KindOf(q) = "file"
      BY <1>3, <1>7, <2>1 DEF Shape
    <3> QED BY <1>11, <2>1, <3>1 DEF KindOf
  <2>2. KindOf(dst)' = "file"
    BY <1>6, <1>7, <1>11 DEF KindOf
  <2> QED BY <1>12, <2>1, <2>2
<1>15. Shape' /\ Tree!Next
  BY <1>5, <1>13, <1>14, MovedShape, MovedSeen
<1>16. th'[t] = Idle
  BY <1>3, <1>4 DEF Finish, Become
<1> QED BY <1>15, <1>16, IdlePlaced DEF Good, Atomic, Idle

LEMMA RenamesTree ==
  ASSUME SInv, OneClient, NEW t \in Thread, RenameTree(t)
  PROVE  Good(t)
<1>1. PICK r \in Local : r = th[t] /\ PlacedAs(r)
  BY SInvParts
<1>2. PICK src, dst : src = r.name /\ dst = r.to
  OBVIOUS
<1>3. /\ IInv /\ Shape /\ th \in [Thread -> Local]
      /\ files \in [Row -> FileRow] /\ contents \in [Row -> Length \cup {NoBlob}]
  BY IInvParts DEF SInv
<1>4. r.pc = "mv" /\ r.dir /\ Finish(t)
  BY <1>1 DEF RenameTree
<1>5. MayMove(src, dst) /\ KindOf(src) = "dir" /\ HasRow(src) /\ ~HasRow(dst)
  BY <1>1, <1>2, <1>4 DEF PlacedAs, MayMove
<1>6. /\ src \in Path /\ dst \in Path /\ src \in Row /\ dst \in Row /\ src # dst
      /\ ~IsUnder(dst, src) /\ ~IsUnder(src, dst)
      /\ \A q \in Row : IsUnder(q, dst) => ~HasRow(q)
      /\ \A q \in Row : ~HasRow(q) => files[q] = NoRow
  BY <1>5, MayMoveFacts
<1>7. PICK C \in SUBSET Row : /\ C = Carried(t)
                              /\ \A q \in Row : q \in C <=> IsUnder(q, src) /\ HasRow(q)
  <2>1. /\ Carried(t) \in SUBSET Row
        /\ \A q \in Row : q \in Carried(t) <=> IsUnder(q, src) /\ HasRow(q)
    BY <1>1, <1>2 DEF Carried
  <2> QED BY <2>1
<1>8. PICK image : image = [q \in C \cup {src} |-> Rebase(q, src, dst)]
  OBVIOUS
<1>9. /\ files' = Rekeyed(files, C \cup {src}, image, NoRow)
      /\ contents' = Rekeyed(contents, { q \in C : HasBlob(q) }, image, NoBlob)
  <2>1. Image(t) = image /\ MoveRows(t, C, C)
    BY <1>1, <1>2, <1>5, <1>7, <1>8 DEF RenameTree, Image
  <2>2. {th[t].name} \cap { q \in Row : HasRow(q) } = {src}
    BY <1>1, <1>2, <1>5, <1>6
  <2> QED BY <2>1, <2>2 DEF MoveRows, CarriedBlobs
<1>10. ASSUME NEW s \in C \cup {src}
       PROVE  /\ s \in Row /\ image[s] = Rebase(s, src, dst)
              /\ image[s] = dst \/ IsUnder(image[s], dst)
              /\ image[s] = dst <=> s = src
              /\ Rebase(image[s], dst, src) = s
              /\ s \in Path
  <2>1. s \in Row /\ (s = src \/ IsUnder(s, src))
    BY <1>6, <1>7
  <2>2. s \in Path
    <3>1. s # Root
      <4>1. ASSUME s = Root PROVE FALSE
        <5>1. src # Root
          BY <1>6, RowsAreNames
        <5>2. IsUnder(Root, src)
          BY <2>1, <4>1, <5>1
        <5> QED BY <1>6, <5>2, RowsAreNames DEF IsUnder
      <4> QED BY <4>1
    <3> QED BY <2>1, <3>1 DEF Row
  <2>3. image[s] = Rebase(s, src, dst)
    BY <1>8
  <2> QED BY <1>6, <2>1, <2>2, <2>3, RowRebaseBack
<1>11. ASSUME NEW s \in C \cup {src}, NEW u \in C \cup {src}, image[s] = image[u]
       PROVE  s = u
  <2>1. Rebase(image[s], dst, src) = s /\ Rebase(image[u], dst, src) = u
    BY <1>10
  <2> QED BY <1>11, <2>1
<1>12. ASSUME NEW q \in Row, NEW s \in C \cup {src}, image[s] = q
       PROVE  /\ files'[q] = files[s]
              /\ contents'[q] # NoBlob => s \in C
  <2>1. (CHOOSE u \in C \cup {src} : image[u] = q) = s
    BY <1>11, <1>12
  <2>2. files'[q] = files[s]
    BY <1>9, <1>12, <2>1 DEF Rekeyed
  <2>3. ASSUME s \notin C PROVE contents'[q] = NoBlob
    <3>1. s = src /\ q = dst
      BY <1>10, <1>12, <2>3
    <3>2. ~\E u \in { v \in C : HasBlob(v) } : image[u] = q
      BY <1>11, <1>12, <2>3
    <3>3. contents[dst] = NoBlob
      BY <1>3, <1>5, <1>6 DEF Shape, HasBlob, HasRow, KindOf
    <3> QED BY <1>9, <3>1, <3>2, <3>3 DEF Rekeyed
  <2> QED BY <2>2, <2>3
<1>13. ASSUME NEW q \in Row, \A s \in C \cup {src} : image[s] # q
       PROVE  /\ files'[q] = IF q \in C \cup {src} THEN NoRow ELSE files[q]
              /\ contents'[q] # NoBlob => q \notin C /\ HasBlob(q)
  <2>1. files'[q] = IF q \in C \cup {src} THEN NoRow ELSE files[q]
    BY <1>9, <1>13 DEF Rekeyed
  <2>2. contents'[q] = IF q \in { v \in C : HasBlob(v) } THEN NoBlob ELSE contents[q]
    BY <1>9, <1>13 DEF Rekeyed
  <2> QED BY <2>1, <2>2 DEF HasBlob
<1>14. Moved(src, dst)
  <2>1. SUFFICES ASSUME NEW q \in Row
                 PROVE  files'[q] = IF q = dst THEN files[src]
                                    ELSE IF IsUnder(q, dst)
                                    THEN IF Rebase(q, dst, src) \in Path THEN files[Rebase(q, dst, src)]
                                         ELSE NoRow
                                    ELSE IF q = src \/ IsUnder(q, src) THEN NoRow ELSE files[q]
    BY DEF Moved
  <2>2. CASE q = dst
    <3>1. image[src] = dst
      BY <1>10
    <3> QED BY <1>12, <2>2, <3>1
  <2>3. CASE q # dst /\ IsUnder(q, dst)
    <3>0. q \notin C \cup {src} /\ files[q] = NoRow
      BY <1>5, <1>6, <1>7, <2>3
    <3>1. CASE \E s \in C \cup {src} : image[s] = q
      <4>1. PICK s \in C \cup {src} : image[s] = q
        BY <3>1
      <4>2. Rebase(q, dst, src) = s /\ s \in Path
        BY <1>10, <4>1
      <4> QED BY <1>12, <2>3, <4>1, <4>2
    <3>2. CASE \A s \in C \cup {src} : image[s] # q
      <4>1. files'[q] = NoRow
        BY <1>13, <3>0, <3>2
      <4>2. ASSUME Rebase(q, dst, src) \in Path
            PROVE  files[Rebase(q, dst, src)] = NoRow
        <5>1. PICK b \in Path : b = Rebase(q, dst, src)
          BY <4>2
        <5>2. b \in Row /\ (b = src \/ IsUnder(b, src)) /\ Rebase(b, src, dst) = q
          BY <1>6, <2>3, <5>1, RowRebaseBack, RowsAreNames
        <5>3. b \notin C \cup {src}
          BY <1>10, <3>2, <5>2
        <5> QED BY <1>6, <1>7, <5>1, <5>2, <5>3
      <4> QED BY <2>3, <4>1, <4>2
    <3> QED BY <3>1, <3>2
  <2>4. CASE q # dst /\ ~IsUnder(q, dst)
    <3>1. \A s \in C \cup {src} : image[s] # q
      BY <1>10, <2>4
    <3>2. files'[q] = IF q \in C \cup {src} THEN NoRow ELSE files[q]
      BY <1>13, <3>1
    <3> QED BY <1>6, <1>7, <2>4, <3>2
  <2> QED BY <2>2, <2>3, <2>4
<1>15. \A q \in Row : contents'[q] # NoBlob => KindOf(q)' = "file"
  <2>1. SUFFICES ASSUME NEW q \in Row, contents'[q] # NoBlob PROVE KindOf(q)' = "file"
    OBVIOUS
  <2>2. CASE \E s \in C \cup {src} : image[s] = q
    <3>1. PICK s \in C \cup {src} : image[s] = q
      BY <2>2
    <3>2. s \in C /\ files'[q] = files[s]
      BY <1>12, <2>1, <3>1
    <3>3. HasBlob(s)
      <4>1. ASSUME ~HasBlob(s) PROVE FALSE
        <5>1. ~\E u \in { v \in C : HasBlob(v) } : image[u] = q
          BY <1>11, <3>1, <4>1
        <5>2. contents[q] = NoBlob
          <6>1. q = dst \/ IsUnder(q, dst)
            BY <1>10, <3>1
          <6>2. ~HasRow(q)
            BY <1>5, <1>6, <6>1
          <6> QED BY <1>3, <6>2 DEF Shape, HasBlob, HasRow, KindOf
        <5> QED BY <1>9, <2>1, <5>1, <5>2 DEF Rekeyed
      <4> QED BY <4>1
    <3>4. KindOf(s) = "file"
      BY <1>3, <1>7, <3>2, <3>3 DEF Shape
    <3> QED BY <3>2, <3>4 DEF KindOf
  <2>3. CASE \A s \in C \cup {src} : image[s] # q
    <3>1. q \notin C /\ HasBlob(q)
      BY <1>13, <2>1, <2>3
    <3>2. KindOf(q) = "file"
      BY <1>3, <3>1 DEF Shape
    <3>3. q # src
      BY <1>5, <3>2
    <3> QED BY <1>13, <2>3, <3>1, <3>2, <3>3 DEF KindOf
  <2> QED BY <2>2, <2>3
<1>16. Shape' /\ Tree!Next
  BY <1>5, <1>14, <1>15, MovedShape, MovedSeen
<1>17. th'[t] = Idle
  BY <1>3, <1>4 DEF Finish, Become
<1> QED BY <1>16, <1>17, IdlePlaced DEF Good, Atomic, Idle

(* Nothing is in the way of what is carried along, and no statement fails. *)
LEMMA NeverCut ==
  ASSUME SInv, OneClient, NEW t \in Thread
  PROVE  ~RenameTreeCut(t)
<1> SUFFICES ASSUME RenameTreeCut(t) PROVE FALSE
  OBVIOUS
<1>1. PICK r \in Local : r = th[t] /\ PlacedAs(r)
  BY SInvParts
<1>2. PICK src, dst : src = r.name /\ dst = r.to
  OBVIOUS
<1>3. Shape /\ MayMove(src, dst)
  BY <1>1, <1>2 DEF RenameTreeCut, PlacedAs, MayMove, SInv
<1>4. PICK last \in Carried(t) : HasRow(Image(t)[last]) \/ HasBlob(Image(t)[last])
  BY DEF RenameTreeCut, OneClient
<1>5. last \in Row /\ IsUnder(last, src) /\ Image(t)[last] = Rebase(last, src, dst)
  BY <1>1, <1>2 DEF Carried, Image
<1>6. last \in Path
  <2>1. ASSUME last = Root PROVE FALSE
    <3>1. src \in Row
      BY <1>3, MayMoveFacts
    <3> QED BY <1>5, <2>1, <3>1, RowsAreNames DEF IsUnder
  <2> QED BY <1>5, <2>1 DEF Row
<1>7. PICK q \in Path : q = Image(t)[last]
  BY <1>3, <1>5, <1>6 DEF MayMove, Movable
<1>8. IsUnder(q, dst) /\ q \in Row
  <2>1. src \in Row /\ dst \in Row /\ last # src
    BY <1>3, <1>5, MayMoveFacts, RowOrder
  <2> QED BY <1>5, <1>6, <1>7, <2>1, RowRebaseBack, RowsAreNames
<1>9. ~HasRow(q)
  BY <1>3, <1>8, MayMoveFacts
<1> QED BY <1>3, <1>4, <1>7, <1>8, <1>9 DEF Shape, HasRow, KindOf

LEMMA StepFits ==
  ASSUME SInv, OneClient, NEW t \in Thread, Step(t)
  PROVE  Good(t)
<1>1. CASE OpenStep(t)
  BY <1>1, OpenLooks, OpenWrites DEF OpenStep
<1>2. CASE CloseStep(t)
  BY <1>2, CloseWrites DEF CloseStep
<1>3. CASE MkdirStep(t)
  BY <1>3, MkdirSteps DEF MkdirStep
<1>4. CASE RemoveStep(t)
  BY <1>4, RemoveLooks, RemoveWrites DEF RemoveStep
<1>5. CASE RenameStep(t)
  BY <1>5, RenameLooks, RenamesFile, RenamesTree, NeverCut DEF RenameStep
<1>6. CASE GivesUp(t)
  BY <1>6, Ends DEF GivesUp
<1> QED BY <1>1, <1>2, <1>3, <1>4, <1>5, <1>6 DEF Step

LEMMA IssueFits ==
  ASSUME SInv, OneClient, NEW t \in Thread, IssueOne(t) \/ IssueMove(t)
  PROVE  Good(t)
<1>1. CASE IssueOne(t)
  <2>1. PICK method \in Method \ {"MOVE"}, p \in Row :
           /\ p = Root => method = "DELETE" /\ DeletesRoot
           /\ Suits(method, p)
           /\ \E n \in IF method = "PUT" THEN {0, issued + 1} ELSE {0} :
                 Issue(t, [Idle EXCEPT !.pc = FirstCall[method], !.method = method,
                                       !.name = p, !.body = n])
    BY <1>1 DEF IssueOne
  <2>2. PICK n \in {0, issued + 1} :
           Issue(t, [Idle EXCEPT !.pc = FirstCall[method], !.method = method,
                                 !.name = p, !.body = n])
    BY <2>1
  <2>3. PICK r : r = [Idle EXCEPT !.pc = FirstCall[method], !.method = method,
                                  !.name = p, !.body = n]
    OBVIOUS
  <2>4. r.pc = FirstCall[method] /\ r.method = method /\ r.name = p /\ r.to = Root
    BY <2>3 DEF Idle
  <2>5. /\ method \in {"PUT", "MKCOL", "DELETE"} /\ p \in Path
        /\ method = "PUT" => p \notin Folder
        /\ method = "MKCOL" => p \in Folder
    BY <2>1 DEF Suits, OneClient, Row, Method
  <2>6. PlacedAs(r)
    <3>1. /\ method = "PUT" => r.pc = "open"
          /\ method = "MKCOL" => r.pc = "mkparent"
          /\ method = "DELETE" => r.pc = "stat"
      BY <2>4, <2>5 DEF FirstCall
    <3> QED BY <2>4, <2>5, <3>1 DEF PlacedAs, SubjectOf
  <2>7. UNCHANGED <<files, contents>> /\ Become(t, r)
    BY <2>2, <2>3 DEF Issue
  <2> QED BY <2>6, <2>7, Looks
<1>2. CASE IssueMove(t)
  <2>1. PICK src \in Path, dst \in Path :
          /\ Movable(src, dst)
          /\ src \in Folder <=> dst \in Folder
          /\ Issue(t, [Idle EXCEPT !.pc = FirstCall["MOVE"], !.method = "MOVE",
                                   !.name = src, !.to = dst])
    BY <1>2 DEF IssueMove, OneClient
  <2>2. PICK r : r = [Idle EXCEPT !.pc = FirstCall["MOVE"], !.method = "MOVE",
                                  !.name = src, !.to = dst]
    OBVIOUS
  <2>3. r.pc = "stat" /\ r.method = "MOVE" /\ r.name = src /\ r.to = dst
    BY <2>2 DEF Idle, FirstCall
  <2>4. PlacedAs(r)
    BY <2>1, <2>3 DEF PlacedAs, SubjectOf
  <2>5. UNCHANGED <<files, contents>> /\ Become(t, r)
    BY <2>1, <2>2 DEF Issue
  <2> QED BY <2>4, <2>5, Looks
<1> QED BY <1>1, <1>2

LEMMA NextFits ==
  ASSUME SInv, OneClient, [Next]_vars
  PROVE  SInv' /\ Atomic
<1>0. IInv' /\ Shape /\ \A t \in Thread : PlacedAs(th[t])
  BY NextKeeps DEF SInv
<1>1. CASE \E t \in Thread : IssueOne(t) \/ IssueMove(t) \/ Step(t)
  <2>1. PICK t \in Thread : IssueOne(t) \/ IssueMove(t) \/ Step(t)
    BY <1>1
  <2>2. Good(t)
    BY <2>1, IssueFits, StepFits
  <2>3. \A u \in Thread : u = t
    BY DEF OneClient
  <2> QED BY <1>0, <2>2, <2>3 DEF Good, SInv
<1>2. ASSUME UNCHANGED <<files, contents>>, Restart \/ UNCHANGED vars
      PROVE  SInv' /\ Atomic
  <2>1. Shape' /\ Atomic
    BY <1>0, <1>2, KindsKept, NothingSeen DEF KindOf, HasBlob
  <2>2. ASSUME NEW t \in Thread
        PROVE  PlacedAs(th[t])'
    <3>1. th'[t] = Idle \/ th'[t] = th[t]
      BY <1>2 DEF Restart, vars
    <3>2. PICK r : r = th'[t] /\ PlacedAs(r)
      BY <1>0, <3>1, IdleFits
    <3> QED BY <1>2, <3>2, StillPlaced
  <2> QED BY <1>0, <2>1, <2>2 DEF SInv
<1>3. CASE Restart \/ BudgetSpent \/ UNCHANGED vars
  BY <1>2, <1>3 DEF Restart, BudgetSpent, vars
<1> QED BY <1>1, <1>3 DEF Next

LEMMA InitFits ==
  ASSUME OneClient, Init
  PROVE  SInv /\ Tree!Init
<1>1. IInv
  BY InitEstablishes
<1>2. \A p \in Row : KindOf(p) = InitialRows[p] /\ (HasRow(p) <=> InitialRows[p] # "none")
  BY DEF Init, KindOf, HasRow
<1>3. \A p \in Row : HasBlob(p) => InitialRows[p] = "file"
  BY DEF Init, HasBlob
<1>4. Shape
  BY <1>2, <1>3, FolderFacts, RowsAreNames DEF Shape, OneClient
<1>5. \A t \in Thread : PlacedAs(th[t])
  BY IdleFits DEF Init
<1>6. ASSUME NEW p \in Path
      PROVE  Visible(p) = CASE InitialRows[p] = "none" -> Absent
                            [] InitialRows[p] = "dir" -> Directory
                            [] InitialRows[p] = "file" -> 1
  <2>1. files[p].kind = InitialRows[p] /\ files[p].size = 0
    BY RowsAreNames DEF Init
  <2>2. InitialRows[p] \in {"none", "dir", "file"}
    BY SQLiteAssumption, RowsAreNames
  <2> QED BY <2>1, <2>2 DEF Visible, Absent, Directory
<1>7. Tree!Init
  BY <1>6 DEF Tree!Init
<1> QED BY <1>1, <1>4, <1>5, <1>7 DEF SInv

LEMMA OneClientInvariant == OneClient => (Spec => []SInv)
<1> SUFFICES ASSUME OneClient PROVE Spec => []SInv
  OBVIOUS
<1>1. Init => SInv
  BY InitFits
<1>2. SInv /\ [Next]_vars => SInv'
  BY NextFits
<1> QED BY <1>1, <1>2, PTL DEF Spec

-----------------------------------------------------------------------------
(* No blob outlives or precedes its row, whatever the client asks for and  *)
(* wherever it is cut off: a removal, a rename and the two insertions of   *)
(* OpenFile never leave a blob that would keep its name from being used    *)
(* again (sqlite/filesystem.go:122, :208-241, :339-372).                   *)
THEOREM NoBlobAlone == OneClient => (Spec => []BlobsHaveRows)
<1> SUFFICES ASSUME OneClient PROVE Spec => []BlobsHaveRows
  OBVIOUS
<1>1. SInv => BlobsHaveRows
  BY DEF SInv, Shape, BlobsHaveRows, HasRow, KindOf
<1> QED BY <1>1, OneClientInvariant, PTL

(* What the client sees is a tree that changes by one whole operation at a *)
(* time: each statement of Mkdir, OpenFile, Close, RemoveAll and Rename,   *)
(* of a directory with all that is below it too, is one step of AtomicTree *)
(* or changes nothing, whatever is cut off and at whatever restart         *)
(* (sqlite/filesystem.go:40-133, :190-379; file.go:293-390).               *)
THEOREM ImplementsTree == OneClient => (Spec => TreeIsAtomic)
<1> SUFFICES ASSUME OneClient PROVE Spec => TreeIsAtomic
  OBVIOUS
<1>1. Init => Tree!Init
  BY InitFits
<1>2. SInv /\ [Next]_vars => [Tree!Next]_Seen
  BY NextFits DEF Atomic
<1>3. Spec => [][Tree!Next]_Seen
  BY <1>2, OneClientInvariant, PTL DEF Spec
<1> QED BY <1>1, <1>3, PTL DEF Spec, TreeIsAtomic, Tree!Spec, Seen
=============================================================================
