---------------------------- MODULE SQLiteFiles ----------------------------
(***************************************************************************)
(* pkg/webdav/filesystem/sqlite: a webdav.FileSystem over two tables, one  *)
(* row per path in each, and a pool of connections.                        *)
(*                                                                         *)
(* Outside a savepoint every statement is a transaction of its own, and    *)
(* nothing but the names ties the two tables together: the pragma that     *)
(* would turn foreign keys on runs inside ExecScript's savepoint, where    *)
(* SQLite ignores it.  A step is one such statement, or one savepoint; it  *)
(* takes a connection from the pool unless the goroutine holds one.        *)
(*                                                                         *)
(* Threads serve requests the way webdav.Handler does (external); what     *)
(* only reads is left out.                                                 *)
(***************************************************************************)
EXTENDS Trees

CONSTANTS
    Thread,         \* goroutines serving requests
    PoolSize,       \* connections of the pool
    Alike,          \* pairs: as a LIKE pattern, the first also matches the second
    Folder,         \* the paths that clients use for directories; {}: any
    DeletesRoot,    \* whether clients ask for the removal of the root
    MaxRequests,    \* bound: requests issued altogether
    MaxRestarts,    \* bound: restarts of the process
    Failures,       \* whether a request may be cut off between two steps
    RenameFailures, \* whether a statement of a directory's rename may fail
    InitialRows     \* what the table files holds when the process first starts

Row == Path \cup {Root}
Length == 0 .. MaxRequests

ASSUME SQLiteAssumption ==
    /\ IsFiniteSet(Thread) /\ PoolSize \in Nat \ {0}
    /\ Alike \subseteq Component \X Component
    /\ Folder \subseteq Path
    /\ MaxRequests \in Nat /\ MaxRestarts \in Nat
    /\ DeletesRoot \in BOOLEAN /\ Failures \in BOOLEAN /\ RenameFailures \in BOOLEAN
    /\ InitialRows \in [Row -> {"none", "dir", "file"}]

VARIABLES
    files,     \* table files: the kind and the size of each row
    contents,  \* table file_contents: the length of each row's blob
    th,        \* what each goroutine is doing
    issued,    \* requests issued so far
    restarts   \* restarts so far

vars == <<files, contents, th, issued, restarts>>

-----------------------------------------------------------------------------
(* Rows                                                                    *)
-----------------------------------------------------------------------------
NoRow == [kind |-> "none", size |-> 0]
NoBlob == -1

HasRow(p) == files[p].kind # "none"
HasBlob(p) == contents[p] # NoBlob

(* path LIKE d/% : case does not matter, "_" and "%" stand for others.     *)
LikeBelow(q, d) ==
    /\ Len(q) > Len(d)
    /\ \A i \in 1 .. Len(d) : q[i] = d[i] \/ <<d[i], q[i]>> \in Alike

Below(d) == { q \in Row : LikeBelow(q, d) }

Deleted(table, S, none) == [q \in Row |-> IF q \in S THEN none ELSE table[q]]

(* Rows of S take the names of their images under `image'.                 *)
Rekeyed(table, S, image, none) ==
    [q \in Row |-> IF \E s \in S : image[s] = q
                   THEN table[CHOOSE s \in S : image[s] = q]
                   ELSE IF q \in S THEN none ELSE table[q]]

-----------------------------------------------------------------------------
(* Goroutines and connections                                              *)
-----------------------------------------------------------------------------
Label == {"idle", "open", "parent", "insert", "insertblob", "restat", "truncate",
          "truncateblob", "close", "mkparent", "mkself", "mkinsert",
          "stat", "rmstat", "rm", "oldstat", "newstat", "newparent", "mv"}
Method == {"PUT", "MKCOL", "DELETE", "MOVE"}

Local == [pc : Label, method : Method \cup {"none"}, name : Row, to : Row,
          body : Length,     \* length of the body of a PUT
          dir : BOOLEAN,     \* info.IsDir() of the last Stat
          created : BOOLEAN] \* OpenFile holds the connection it inserted with

Idle == [pc |-> "idle", method |-> "none", name |-> Root, to |-> Root,
         body |-> 0, dir |-> FALSE, created |-> FALSE]

Become(t, r) == th' = [th EXCEPT ![t] = r]
Goto(t, label) == Become(t, [th[t] EXCEPT !.pc = label])
Finish(t) == Become(t, Idle)

(* Put is deferred: OpenFile keeps the connection of its insertions until  *)
(* it returns, truncate keeps its own between its two statements.          *)
Holds(r) == (IF r.created THEN 1 ELSE 0) + (IF r.pc = "truncateblob" THEN 1 ELSE 0)
InUse == { c \in Thread \X {1, 2} : c[2] <= Holds(th[c[1]]) }
Take == Cardinality(InUse) < PoolSize

-----------------------------------------------------------------------------
(* The requests of webdav.Handler (external)                               *)
-----------------------------------------------------------------------------
Held == UNION { {th[t].name, th[t].to} \ {Root} : t \in { u \in Thread : th[u].pc # "idle" } }

FirstCall == [PUT |-> "open", MKCOL |-> "mkparent", DELETE |-> "stat", MOVE |-> "stat"]

(* Clients may agree on which paths are directories.                       *)
Suits(method, p) ==
    Folder = {} \/ (method = "MKCOL" /\ p \in Folder) \/ (method = "PUT" /\ p \notin Folder)
                \/ method = "DELETE"

Issue(t, request) ==
    /\ th[t].pc = "idle"
    /\ issued < MaxRequests
    /\ issued' = issued + 1
    /\ Become(t, request)
    /\ UNCHANGED <<files, contents, restarts>>

IssueOne(t) ==
    \E method \in Method \ {"MOVE"}, p \in Row \ Held :
        /\ p = Root => method = "DELETE" /\ DeletesRoot
        /\ Suits(method, p)
        /\ \E n \in IF method = "PUT" THEN {0, issued + 1} ELSE {0} :
              Issue(t, [Idle EXCEPT !.pc = FirstCall[method], !.method = method,
                                    !.name = p, !.body = n])

(* Limit: nobody moves a directory whose path, as a LIKE pattern, matches  *)
(* a path that has it further down: strings.Replace would rewrite it there *)
(* (MOVE /a to /b takes /A/a to /A/b).                                     *)
Inside(q, src) == \E i \in 1 .. Len(q) - Len(src) : SubSeq(q, i + 1, i + Len(src)) = src
Clear(src) == \A q \in Path : LikeBelow(q, src) /\ Inside(q, src) => IsUnder(q, src)

IssueMove(t) ==
    \E src, dst \in Path \ Held :
        /\ Movable(src, dst) /\ Clear(src)
        /\ Folder = {} \/ (src \in Folder <=> dst \in Folder)
        /\ Issue(t, [Idle EXCEPT !.pc = FirstCall["MOVE"], !.method = "MOVE",
                                 !.name = src, !.to = dst])

Subject(t) == IF th[t].method = "MOVE" THEN th[t].to ELSE th[t].name

-----------------------------------------------------------------------------
(* OpenFile(O_RDWR|O_CREATE|O_TRUNC), for a PUT                            *)
-----------------------------------------------------------------------------
StatOpened(t) ==
    LET p == th[t].name
    IN  /\ th[t].pc = "open" /\ Take
        /\ CASE files[p].kind = "none" ->
                  Goto(t, IF Parent(p) = Root THEN "insert" ELSE "parent")
             [] files[p].kind = "dir" -> Finish(t)
             [] files[p].kind = "file" -> Goto(t, "truncate")
        /\ UNCHANGED <<files, contents, issued, restarts>>

(* Any row will do for a parent.                                           *)
StatParent(t) ==
    /\ th[t].pc = "parent" /\ Take
    /\ IF HasRow(Parent(th[t].name)) THEN Goto(t, "insert") ELSE Finish(t)
    /\ UNCHANGED <<files, contents, issued, restarts>>

InsertFile(t) ==
    LET p == th[t].name
    IN  /\ th[t].pc = "insert" /\ Take
        /\ IF HasRow(p) THEN Finish(t) /\ UNCHANGED files
           ELSE /\ files' = [files EXCEPT ![p] = [kind |-> "file", size |-> 0]]
                /\ Become(t, [th[t] EXCEPT !.pc = "insertblob", !.created = TRUE])
        /\ UNCHANGED <<contents, issued, restarts>>

InsertBlob(t) ==
    LET p == th[t].name
    IN  /\ th[t].pc = "insertblob"
        /\ IF HasBlob(p) THEN Finish(t) /\ UNCHANGED contents
           ELSE /\ contents' = [contents EXCEPT ![p] = 0]
                /\ Goto(t, "restat")
        /\ UNCHANGED <<files, issued, restarts>>

StatCreated(t) ==
    LET p == th[t].name
    IN  /\ th[t].pc = "restat" /\ Take
        /\ IF files[p].kind = "file" THEN Goto(t, "truncate") ELSE Finish(t)
        /\ UNCHANGED <<files, contents, issued, restarts>>

(* truncate: two statements, each its own transaction.                     *)
TruncateSize(t) ==
    LET p == th[t].name
    IN  /\ th[t].pc = "truncate" /\ Take
        /\ files' = IF HasRow(p) THEN [files EXCEPT ![p].size = 0] ELSE files
        /\ Goto(t, "truncateblob")
        /\ UNCHANGED <<contents, issued, restarts>>

\* Mutant of TruncateBlob: OpenFile returns without its deferred Put.
TruncateBlobLeaks(t) ==
    LET p == th[t].name
    IN  /\ th[t].pc = "truncateblob"
        /\ contents' = IF HasBlob(p) THEN [contents EXCEPT ![p] = 0] ELSE contents
        /\ Goto(t, "close")
        /\ UNCHANGED <<files, issued, restarts>>

(* OpenFile returns, and with it all connections.                          *)
TruncateBlob(t) ==
    LET p == th[t].name
    IN  /\ th[t].pc = "truncateblob"
        /\ contents' = IF HasBlob(p) THEN [contents EXCEPT ![p] = 0] ELSE contents
        /\ Become(t, [th[t] EXCEPT !.pc = "close", !.created = FALSE])
        /\ UNCHANGED <<files, issued, restarts>>

(* File.Close: what Write has gathered in a temporary file is stored in    *)
(* one savepoint; with no Write there is nothing to store.  A row that is  *)
(* gone from either table is found missing when its blob is opened.        *)
CloseEmpty(t) ==
    /\ th[t].pc = "close" /\ th[t].body = 0
    /\ Finish(t)
    /\ UNCHANGED <<files, contents, issued, restarts>>

\* Mutant of StoreUpload: the size is the length the client announced.
StoreAnnounced(t) ==
    LET p == th[t].name
    IN  /\ th[t].pc = "close" /\ th[t].body > 0 /\ Take
        /\ HasRow(p) /\ HasBlob(p)
        /\ contents' = [contents EXCEPT ![p] = th[t].body]
        /\ files' = [files EXCEPT ![p].size = NoBlob]
        /\ Finish(t)
        /\ UNCHANGED <<issued, restarts>>

StoreUpload(t) ==
    LET p == th[t].name
    IN  /\ th[t].pc = "close" /\ th[t].body > 0 /\ Take
        /\ HasRow(p) /\ HasBlob(p)
        /\ contents' = [contents EXCEPT ![p] = th[t].body]
        /\ files' = [files EXCEPT ![p].size = th[t].body]
        /\ Finish(t)
        /\ UNCHANGED <<issued, restarts>>

\* Mutant of StoreFails: no savepoint, the size precedes the blob.
StoreFailsHalfway(t) ==
    LET p == th[t].name
    IN  /\ th[t].pc = "close" /\ th[t].body > 0 /\ Take
        /\ ~(HasRow(p) /\ HasBlob(p))
        /\ files' = IF HasRow(p) THEN [files EXCEPT ![p].size = th[t].body] ELSE files
        /\ Finish(t)
        /\ UNCHANGED <<contents, issued, restarts>>

StoreFails(t) ==
    LET p == th[t].name
    IN  /\ th[t].pc = "close" /\ th[t].body > 0 /\ Take
        /\ ~(HasRow(p) /\ HasBlob(p))
        /\ Finish(t)
        /\ UNCHANGED <<files, contents, issued, restarts>>

-----------------------------------------------------------------------------
(* Mkdir                                                                   *)
-----------------------------------------------------------------------------
StatMkdirParent(t) ==
    LET p == th[t].name
    IN  /\ th[t].pc = "mkparent" /\ Take
        /\ IF Parent(p) = Root \/ HasRow(Parent(p)) THEN Goto(t, "mkself") ELSE Finish(t)
        /\ UNCHANGED <<files, contents, issued, restarts>>

StatMkdir(t) ==
    /\ th[t].pc = "mkself" /\ Take
    /\ IF HasRow(th[t].name) THEN Finish(t) ELSE Goto(t, "mkinsert")
    /\ UNCHANGED <<files, contents, issued, restarts>>

InsertDir(t) ==
    LET p == th[t].name
    IN  /\ th[t].pc = "mkinsert" /\ Take
        /\ files' = IF HasRow(p) THEN files
                    ELSE [files EXCEPT ![p] = [kind |-> "dir", size |-> 0]]
        /\ Finish(t)
        /\ UNCHANGED <<contents, issued, restarts>>

-----------------------------------------------------------------------------
(* The handler's Stat, and RemoveAll                                       *)
-----------------------------------------------------------------------------
StatSubject(t) ==
    /\ th[t].pc = "stat" /\ Take
    /\ CASE HasRow(Subject(t)) -> Goto(t, "rmstat")
         [] ~HasRow(Subject(t)) /\ th[t].method = "MOVE" -> Goto(t, "oldstat")
         [] OTHER -> Finish(t)
    /\ UNCHANGED <<files, contents, issued, restarts>>

AfterRemoval(t) == IF th[t].method = "MOVE" THEN Goto(t, "oldstat") ELSE Finish(t)

StatRemoved(t) ==
    LET p == Subject(t)
    IN  /\ th[t].pc = "rmstat" /\ Take
        /\ IF HasRow(p)
           THEN Become(t, [th[t] EXCEPT !.pc = "rm", !.dir = (files[p].kind = "dir")])
           ELSE AfterRemoval(t)
        /\ UNCHANGED <<files, contents, issued, restarts>>

\* Mutant of Doomed: a directory goes alone.
DoomedAlone(p, dir) == {p}

Doomed(p, dir) == {p} \cup (IF dir THEN Below(p) ELSE {})

\* Mutant of RemoveRows: the blobs are left to ON DELETE CASCADE.
RemoveRowsOnly(t) ==
    LET doomed == Doomed(Subject(t), th[t].dir)
    IN  /\ th[t].pc = "rm" /\ Take
        /\ files' = Deleted(files, doomed, NoRow)
        /\ AfterRemoval(t)
        /\ UNCHANGED <<contents, issued, restarts>>

RemoveRows(t) ==
    LET doomed == Doomed(Subject(t), th[t].dir)
    IN  /\ th[t].pc = "rm" /\ Take
        /\ files' = Deleted(files, doomed, NoRow)
        /\ contents' = Deleted(contents, doomed, NoBlob)
        /\ AfterRemoval(t)
        /\ UNCHANGED <<issued, restarts>>

-----------------------------------------------------------------------------
(* Rename                                                                  *)
-----------------------------------------------------------------------------
StatOld(t) ==
    LET p == th[t].name
    IN  /\ th[t].pc = "oldstat" /\ Take
        /\ IF HasRow(p)
           THEN Become(t, [th[t] EXCEPT !.pc = "newstat", !.dir = (files[p].kind = "dir")])
           ELSE Finish(t)
        /\ UNCHANGED <<files, contents, issued, restarts>>

StatNew(t) ==
    LET p == th[t].to
    IN  /\ th[t].pc = "newstat" /\ Take
        /\ CASE HasRow(p) -> Finish(t)
             [] ~HasRow(p) /\ Parent(p) = Root -> Goto(t, "mv")
             [] OTHER -> Goto(t, "newparent")
        /\ UNCHANGED <<files, contents, issued, restarts>>

StatNewParent(t) ==
    /\ th[t].pc = "newparent" /\ Take
    /\ IF HasRow(Parent(th[t].to)) THEN Goto(t, "mv") ELSE Finish(t)
    /\ UNCHANGED <<files, contents, issued, restarts>>

(* A statement that would give a row a name that is taken fails; for a     *)
(* file, the savepoint is rolled back.                                     *)
RenameFile(t) ==
    LET src == th[t].name   dst == th[t].to
        image == [s \in {src} |-> dst]
        files2 == IF HasRow(src) THEN Rekeyed(files, {src}, image, NoRow) ELSE files
        contents2 == IF HasBlob(src) THEN Rekeyed(contents, {src}, image, NoBlob) ELSE contents
    IN  /\ th[t].pc = "mv" /\ ~th[t].dir /\ Take
        /\ IF (HasRow(src) /\ HasRow(dst)) \/ (HasBlob(src) /\ HasBlob(dst))
           THEN UNCHANGED <<files, contents>>
           ELSE files' = files2 /\ contents' = contents2
        /\ Finish(t)
        /\ UNCHANGED <<issued, restarts>>

(* A directory's own row first; then, in any order, a row below it and its *)
(* blob, then the next.  A name that is only LIKE one below it keeps its   *)
(* name, as it contains no src (IssueMove).  The error of these statements *)
(* is assigned to a variable that hides the one the savepoint looks at:    *)
(* what precedes it is committed.                                          *)
Carried(t) == { q \in Row : IsUnder(q, th[t].name) /\ HasRow(q) }
Image(t) == [q \in Carried(t) \cup {th[t].name} |-> Rebase(q, th[t].name, th[t].to)]
CarriedBlobs(S) == { q \in S : HasBlob(q) }

FitsIn(t, q) == ~HasRow(Image(t)[q]) /\ ~(HasBlob(q) /\ HasBlob(Image(t)[q]))

MoveRows(t, rows, blobs) ==
    LET own == {th[t].name} \cap { q \in Row : HasRow(q) }
    IN  /\ files' = Rekeyed(files, rows \cup own, Image(t), NoRow)
        /\ contents' = Rekeyed(contents, CarriedBlobs(blobs), Image(t), NoBlob)

RenameTree(t) ==
    /\ th[t].pc = "mv" /\ th[t].dir /\ Take
    /\ IF HasRow(th[t].name) /\ HasRow(th[t].to)
       THEN UNCHANGED <<files, contents>>
       ELSE /\ \A q \in Carried(t) : FitsIn(t, q)
            /\ MoveRows(t, Carried(t), Carried(t))
    /\ Finish(t)
    /\ UNCHANGED <<issued, restarts>>

(* It stops at the row of `last', or between that row and its blob.        *)
RenameTreeCut(t) ==
    /\ th[t].pc = "mv" /\ th[t].dir /\ Take
    /\ ~(HasRow(th[t].name) /\ HasRow(th[t].to))
    /\ \E last \in Carried(t), done \in SUBSET Carried(t) :
        /\ last \notin done
        /\ \A q \in done : FitsIn(t, q)
        /\ \/ /\ RenameFailures \/ HasRow(Image(t)[last])
              /\ MoveRows(t, done, done)
           \/ /\ ~HasRow(Image(t)[last])
              /\ RenameFailures \/ (HasBlob(last) /\ HasBlob(Image(t)[last]))
              /\ MoveRows(t, done \cup {last}, done)
    /\ Finish(t)
    /\ UNCHANGED <<issued, restarts>>

-----------------------------------------------------------------------------
(* A request is cut off between two steps: its client goes away, which     *)
(* cancels the context that Take waits on and that interrupts statements,  *)
(* or a statement fails.  A savepoint is rolled back.                      *)
GivesUp(t) ==
    /\ th[t].pc # "idle" /\ Failures
    /\ Finish(t)
    /\ UNCHANGED <<files, contents, issued, restarts>>

(* The process dies; committed statements stay.                            *)
Restart ==
    /\ restarts < MaxRestarts
    /\ restarts' = restarts + 1
    /\ th' = [t \in Thread |-> Idle]
    /\ UNCHANGED <<files, contents, issued>>

BudgetSpent ==
    /\ issued = MaxRequests /\ \A t \in Thread : th[t].pc = "idle"
    /\ UNCHANGED vars

-----------------------------------------------------------------------------
Init ==
    /\ files = [p \in Row |-> [kind |-> InitialRows[p], size |-> 0]]
    /\ contents = [p \in Row |-> IF InitialRows[p] = "file" THEN 0 ELSE NoBlob]
    /\ th = [t \in Thread |-> Idle]
    /\ issued = 0
    /\ restarts = 0

OpenStep(t) ==
    \/ StatOpened(t) \/ StatParent(t) \/ InsertFile(t) \/ InsertBlob(t)
    \/ StatCreated(t) \/ TruncateSize(t) \/ TruncateBlob(t)

CloseStep(t) == CloseEmpty(t) \/ StoreUpload(t) \/ StoreFails(t)

MkdirStep(t) == StatMkdirParent(t) \/ StatMkdir(t) \/ InsertDir(t)

RemoveStep(t) == StatSubject(t) \/ StatRemoved(t) \/ RemoveRows(t)

RenameStep(t) ==
    \/ StatOld(t) \/ StatNew(t) \/ StatNewParent(t) \/ RenameFile(t)
    \/ RenameTree(t) \/ RenameTreeCut(t)

Step(t) ==
    OpenStep(t) \/ CloseStep(t) \/ MkdirStep(t) \/ RemoveStep(t) \/ RenameStep(t) \/ GivesUp(t)

Next ==
    \/ \E t \in Thread : IssueOne(t) \/ IssueMove(t) \/ Step(t)
    \/ Restart
    \/ BudgetSpent

Spec == Init /\ [][Next]_vars

-----------------------------------------------------------------------------
TypeOK ==
    /\ files \in [Row -> [kind : {"none", "dir", "file"}, size : Length]]
    /\ contents \in [Row -> Length \cup {NoBlob}]
    /\ th \in [Thread -> Local]
    /\ issued \in 0 .. MaxRequests
    /\ restarts \in 0 .. MaxRestarts

(* No reader is promised bytes that are not there: a row's size never      *)
(* exceeds its blob (filesystem.go:285-379; file.go:293-355, :372-390).    *)
SizeWithinContent ==
    \A p \in Row : files[p].size > 0 => HasBlob(p) /\ files[p].size <= contents[p]

(* Whatever is cut off, and whoever removes, moves or overwrites what      *)
(* another is writing, only two things tear a row from its blob: a         *)
(* directory's rename that stops half way, and a truncation between whose  *)
(* two statements another file was moved, with its directory, to the name  *)
(* (filesystem.go:111-130, :190-243, :285-379; file.go:293-355, :372-390). *)
TornByRename(t) == th[t].pc = "mv" /\ th[t].dir
TornByTruncation(t) == th[t].pc = "truncateblob" /\ files[th[t].name].size > 0
Tear == SizeWithinContent /\ ~SizeWithinContent'
OnlyKnownTears ==
    [][Tear => \E t \in Thread : /\ th'[t] # th[t]
                                 /\ TornByRename(t) \/ TornByTruncation(t)]_vars

(* The pool is smaller than the number of requests at once, and each       *)
(* creation that is past its insertions holds a connection while it waits  *)
(* for another one: as many of them as the pool has connections wait for   *)
(* each other.  That is the only way for it to run dry for good: whatever  *)
(* else is at work, and whatever was cut off, either a connection is free, *)
(* or one who holds one goes on without another, or at least PoolSize      *)
(* different new files are being created at once (filesystem.go:105-133,   *)
(* :161-166; file.go:366-370).                                             *)
Creating == { t \in Thread : th[t].created /\ th[t].pc \in {"restat", "truncate"} }

PoolStarvesOnlyByCreations ==
    \/ Take
    \/ \E t \in Thread : Holds(th[t]) > 0 /\ th[t].pc \in {"insertblob", "truncateblob"}
    \/ Cardinality({ th[t].name : t \in Creating }) >= PoolSize

(* With a single client, no blob is left without its row, which would keep *)
(* a file of that name from ever being created again, wherever a request   *)
(* is cut off, as long as no statement of a directory's rename fails       *)
(* (RenameFailures = FALSE: the half of a rename that is committed leaves  *)
(* such blobs) (filesystem.go:122, :208-241, :339-372).                    *)
BlobsHaveRows == \A p \in Row : HasBlob(p) => HasRow(p)

(* With a single client whose directories are no files, what it sees is a  *)
(* tree that changes by whole operations, whatever is cut off.             *)
Visible(p) ==
    CASE files[p].kind = "none" -> Absent
      [] files[p].kind = "dir" -> Directory
      [] files[p].kind = "file" -> 1 + files[p].size

Tree == INSTANCE AtomicTree WITH
            tree <- [p \in Path |-> Visible(p)],
            InitialTree <- [p \in Path |-> CASE InitialRows[p] = "none" -> Absent
                                              [] InitialRows[p] = "dir" -> Directory
                                              [] InitialRows[p] = "file" -> 1]

TreeIsAtomic == Tree!Spec
=============================================================================
