------------------------------- MODULE Capped -------------------------------
(***************************************************************************)
(* pkg/webdav/filesystem/capped: a webdav.FileSystem that deletes the      *)
(* least recently accessed files of the backend it wraps when the sizes it *)
(* has recorded exceed maxSize.                                            *)
(*                                                                         *)
(* Threads are the goroutines of the HTTP server.  Each serves one request *)
(* at a time the way golang.org/x/net/webdav.Handler does (external: the   *)
(* sequence of FileSystem calls of each method, and the exclusive locks a  *)
(* method that writes holds on its exact paths while it runs).  A step     *)
(* ends where the code releases the mutex or returns from the backend, so  *)
(* everything another goroutine can do in between is explored.             *)
(*                                                                         *)
(* The backend is the `local' one (webdav.Dir over an operating system     *)
(* directory; external).  Open handles refer to inodes, which survive the  *)
(* removal of their name.                                                  *)
(***************************************************************************)
EXTENDS SizeLedger

CONSTANTS
    Thread,        \* goroutines serving requests
    Inode,         \* inodes of the backend, a set of integers
    MaxSize,       \* the cap
    ChunkSizes,    \* how much one File.Write may bring
    MaxChunks,     \* bound: writes in the body of one PUT
    MaxRequests,   \* bound: requests issued altogether
    MaxRestarts,   \* bound: restarts of the process
    BackendErrors, \* whether the backend's operations may fail
    ReadForms,     \* forms of name that reading requests use
    Methods,       \* the methods that are issued
    InitialNode,   \* what each path names when the process first starts
    InitialLen     \* the lengths of the inodes then

ASSUME ConstantsAssumption ==
    /\ IsFiniteSet(Thread)
    /\ MaxSize \in Nat /\ MaxChunks \in Nat
    /\ MaxRequests \in Nat /\ MaxRestarts \in Nat
    /\ BackendErrors \in BOOLEAN
    /\ ChunkSizes \subseteq Nat
    /\ Inode \subseteq Nat \ {0} /\ IsFiniteSet(Inode)
    /\ ReadForms \subseteq {"rel", "abs"}
    /\ InitialNode \in [Path -> Inode \cup {0, -1}]
    /\ InitialLen \in [Inode -> Nat]

VARIABLES
    node,        \* backend: what each path names: Absent, Directory, an inode
    len,         \* backend: the length of each inode
    ledger,      \* FileSystem.files and FileSystem.curSize
    initialized, \* FileSystem.initialized
    th,          \* what each goroutine is doing
    issued,      \* requests issued so far
    restarts     \* restarts so far

vars == <<node, len, ledger, initialized, th, issued, restarts>>

-----------------------------------------------------------------------------
(* The backend (external)                                                  *)
-----------------------------------------------------------------------------
(* What Stat and Readdir report; a directory's own size is never used.     *)
StatSize(p) == IF IsFile(node, p) THEN len[node[p]] ELSE 0

(* Inodes that a name or an open handle still refers to keep their length. *)
Live(nodes, threads) ==
    { nodes[p] : p \in Path } \cup { threads[t].fd : t \in Thread }
Scrub(nodes, threads) ==
    LET live == Live(nodes, threads)
    IN  [i \in Inode |-> IF i \in live THEN len[i] ELSE 0]

-----------------------------------------------------------------------------
(* Goroutines                                                              *)
-----------------------------------------------------------------------------
NoName == [form |-> "rel", at |-> Root]
NoInode == 0

Victim == [name : Name, at : Nat]
NoVictim == [name |-> NoName, at |-> 0]
Frame == [dir : Path \cup {Root}, listed : BOOLEAN,
          left : SUBSET [at : Path, dir : BOOLEAN, size : Nat]]

Label == {"idle", "enter", "begin", "scan", "create", "put", "write", "closing",
          "open", "observe", "remove", "forget", "rename", "retarget",
          "track", "evict", "unlink", "untrack", "verdict"}
Method == {"PUT", "GET", "PROPFIND", "DELETE", "MOVE", "MKCOL"}

Local == [pc : Label, method : Method \cup {"none"},
          name : Name \cup {NoName}, to : Name \cup {NoName},
          fd : Inode \cup {NoInode}, left : Nat, ok : BOOLEAN,
          size : Nat, dir : BOOLEAN,              \* what the last Stat said
          need : Nat, ret : Label,                \* ensureSpace: its argument, its caller
          victims : SUBSET Victim, prey : Victim \cup {NoVictim}, failed : BOOLEAN,
          scan : Seq(Frame)]

Idle == [pc |-> "idle", method |-> "none", name |-> NoName, to |-> NoName,
         fd |-> NoInode, left |-> 0, ok |-> TRUE, size |-> 0, dir |-> FALSE,
         need |-> 0, ret |-> "idle", victims |-> {}, prey |-> NoVictim,
         failed |-> FALSE, scan |-> << >>]

Become(t, r) == th' = [th EXCEPT ![t] = r]
Goto(t, label) == Become(t, [th[t] EXCEPT !.pc = label])
Finish(t) == Become(t, Idle)

(* ensureInitialized finds the flag set, or this goroutine has done the    *)
(* scan itself.  The flag is only ever set, so the check may be taken as   *)
(* late as the first step of the call it opens.                            *)
Ready(t, method) ==
    /\ th[t].method = method
    /\ th[t].pc = "begin" \/ (th[t].pc = "enter" /\ initialized)

-----------------------------------------------------------------------------
(* The requests of webdav.Handler (external)                               *)
-----------------------------------------------------------------------------
Writers == {"PUT", "DELETE", "MOVE", "MKCOL"}
Held == UNION { {th[t].name.at, th[t].to.at} \ {Root} :
                    t \in { u \in Thread : th[u].method \in Writers } }

Issue(t, request) ==
    /\ th[t].pc = "idle"
    /\ issued < MaxRequests
    /\ request.method \in Methods
    /\ issued' = issued + 1
    /\ Become(t, request)
    /\ UNCHANGED <<node, len, ledger, initialized, restarts>>

IssueRead(t) ==
    \E method \in {"GET", "PROPFIND"}, form \in ReadForms, p \in Path :
        Issue(t, [Idle EXCEPT !.pc = "enter", !.method = method,
                              !.name = [form |-> form, at |-> p]])

IssueWrite(t) ==
    \E method \in Writers \ {"MOVE"}, p \in Path :
        /\ p \notin Held
        /\ Issue(t, [Idle EXCEPT !.pc = "enter", !.method = method,
                                 !.name = Rel(p),
                                 !.left = IF method = "PUT" THEN MaxChunks ELSE 0])

IssueMove(t) ==
    \E src \in Path, dst \in Path :
        /\ Movable(src, dst)
        /\ {src, dst} \cap Held = {}
        /\ Issue(t, [Idle EXCEPT !.pc = "enter", !.method = "MOVE",
                                 !.name = Rel(src), !.to = Rel(dst)])

-----------------------------------------------------------------------------
(* ensureSpace                                                             *)
-----------------------------------------------------------------------------
Fits(need) == ledger.curSize + need <= MaxSize

Candidates == { n \in Name : ledger.files[n].kind = "file" /\ ledger.files[n].size > 0 }

(* The check, and when it fails the snapshot of the files sorted by access *)
(* time.  The check is made twice and the sort happens after the mutex is  *)
(* released; an access in between only changes what this snapshot records  *)
(* as taken a little earlier or later.  r is the goroutine's state with    *)
(* `need' and `ret' set.                                                   *)
EnsureSpace(t, r) ==
    Become(t,
        IF Fits(r.need) THEN [r EXCEPT !.pc = r.ret]
        ELSE [r EXCEPT !.pc = "evict", !.failed = FALSE,
                       !.victims = { [name |-> n, at |-> ledger.files[n].at]
                                        : n \in Candidates }])

(* Mutant: the snapshot is sorted the other way round.                     *)
Youngest(victims) == CHOOSE v \in victims : \A w \in victims : v.at >= w.at

Oldest(victims) == CHOOSE v \in victims : \A w \in victims : v.at <= w.at

(* Mutant: the pass ends with its first victim.                            *)
DropAll(t, v) == [th[t] EXCEPT !.victims = {}, !.prey = NoVictim, !.pc = "evict"]

Drop(t, v) == [th[t] EXCEPT !.victims = @ \ {v}, !.prey = NoVictim, !.pc = "evict"]

(* The size is read through a pointer without the mutex: an entry that is  *)
(* now empty, or no longer tracked, may be seen as empty.                  *)
SkipVictim(t) ==
    /\ th[t].pc = "evict" /\ th[t].victims # {}
    /\ LET v == Oldest(th[t].victims)
       IN  /\ ledger.files[v.name].size = 0
           /\ Become(t, Drop(t, v))
    /\ UNCHANGED <<node, len, ledger, initialized, issued, restarts>>

ChooseVictim(t) ==
    /\ th[t].pc = "evict" /\ th[t].victims # {} /\ ~Fits(th[t].need)
    /\ Become(t, [th[t] EXCEPT !.pc = "unlink", !.prey = Oldest(th[t].victims)])
    /\ UNCHANGED <<node, len, ledger, initialized, issued, restarts>>

(* RemoveAll on the backend, without the mutex and without regard to what  *)
(* the name now is.                                                        *)
UnlinkVictim(t) ==
    /\ th[t].pc = "unlink"
    /\ node' = Without(node, th[t].prey.name.at)
    /\ Goto(t, "untrack")
    /\ len' = Scrub(node', th')
    /\ UNCHANGED <<ledger, initialized, issued, restarts>>

(* Mutant: a victim that cannot be removed is tried again.                 *)
UnlinkRetries(t) ==
    /\ th[t].pc = "unlink" /\ BackendErrors
    /\ Become(t, [th[t] EXCEPT !.prey = NoVictim, !.pc = "evict", !.failed = TRUE])
    /\ UNCHANGED <<node, len, ledger, initialized, issued, restarts>>

(* Mutant: the pass ends with the first removal that fails.                *)
UnlinkGivesUp(t) ==
    /\ th[t].pc = "unlink" /\ BackendErrors
    /\ Become(t, [th[t] EXCEPT !.victims = {}, !.prey = NoVictim, !.pc = "evict", !.failed = TRUE])
    /\ UNCHANGED <<node, len, ledger, initialized, issued, restarts>>

UnlinkFails(t) ==
    /\ th[t].pc = "unlink" /\ BackendErrors
    /\ Become(t, [Drop(t, th[t].prey) EXCEPT !.failed = TRUE])
    /\ UNCHANGED <<node, len, ledger, initialized, issued, restarts>>

UntrackVictim(t) ==
    /\ th[t].pc = "untrack"
    /\ ledger' = Untrack(ledger, th[t].prey.name)
    /\ Become(t, Drop(t, th[t].prey))
    /\ UNCHANGED <<node, len, initialized, issued, restarts>>

EndEviction(t) ==
    /\ th[t].pc = "evict"
    /\ th[t].victims = {} \/ Fits(th[t].need)
    /\ Become(t, [th[t] EXCEPT !.pc = "verdict", !.victims = {}])
    /\ UNCHANGED <<node, len, ledger, initialized, issued, restarts>>

(* The final check: ensureSpace returns nil, or ENOSPC, or the last error  *)
(* of the backend.                                                         *)
SpaceFound(t) ==
    /\ th[t].pc = "verdict" /\ Fits(th[t].need)
    /\ Become(t, [th[t] EXCEPT !.pc = th[t].ret, !.failed = FALSE])
    /\ UNCHANGED <<node, len, ledger, initialized, issued, restarts>>

(* A failed Write ends the body of the PUT, whose handle is still closed;  *)
(* a failed OpenFile or scan ends the request.                             *)
NoSpace(t) ==
    /\ th[t].pc = "verdict" /\ ~Fits(th[t].need)
    /\ IF th[t].ret = "write"
       THEN Become(t, [th[t] EXCEPT !.pc = "put", !.ok = FALSE, !.failed = FALSE])
       ELSE Finish(t)
    /\ UNCHANGED <<node, len, ledger, initialized, issued, restarts>>

-----------------------------------------------------------------------------
(* ensureInitialized and scanDirectory                                     *)
-----------------------------------------------------------------------------
(* The flag is set before the scan starts: whoever calls next goes ahead.  *)
StartScan(t) ==
    /\ th[t].pc = "enter" /\ ~initialized
    /\ initialized' = TRUE
    /\ Become(t, [th[t] EXCEPT !.pc = "scan",
                     !.scan = << [dir |-> Root, listed |-> FALSE, left |-> {}] >>])
    /\ UNCHANGED <<node, len, ledger, issued, restarts>>

Listing(d) == { [at |-> p, dir |-> IsDir(node, p), size |-> StatSize(p)] : p \in Children(node, d) }

(* OpenFile and Readdir of the directory at hand.  Readdir's order is not  *)
(* specified, so the entries are a set.                                    *)
ScanList(t) ==
    /\ th[t].pc = "scan" /\ ~Head(th[t].scan).listed
    /\ LET d == Head(th[t].scan).dir
       IN  /\ IsDir(node, d)
           /\ Become(t, [th[t] EXCEPT
                 !.scan = << [dir |-> d, listed |-> TRUE, left |-> Listing(d)] >> \o Tail(@)])
    /\ UNCHANGED <<node, len, ledger, initialized, issued, restarts>>

(* The directory is gone, or the backend fails: the request ends with the  *)
(* error, and nobody scans again.                                          *)
ScanFails(t) ==
    /\ th[t].pc = "scan" /\ ~Head(th[t].scan).listed
    /\ ~IsDir(node, Head(th[t].scan).dir) \/ BackendErrors
    /\ Finish(t)
    /\ UNCHANGED <<node, len, ledger, initialized, issued, restarts>>

ScanEntry(t) ==
    /\ th[t].pc = "scan" /\ Head(th[t].scan).listed
    /\ \E e \in Head(th[t].scan).left :
         LET rest == << [Head(th[t].scan) EXCEPT !.left = @ \ {e}] >> \o Tail(th[t].scan)
             down == << [dir |-> e.at, listed |-> FALSE, left |-> {}] >>
         IN  IF e.dir
             THEN /\ ledger' = TrackDir(ledger, Abs(e.at))
                  /\ Become(t, [th[t] EXCEPT !.scan = down \o rest])
             ELSE /\ ledger' = TrackScanned(ledger, Abs(e.at), e.size)
                  /\ Become(t, [th[t] EXCEPT !.scan = rest])
    /\ UNCHANGED <<node, len, initialized, issued, restarts>>

(* Every scanDirectory, nested ones included, ends in ensureSpace.         *)
ScanSpace(t) ==
    /\ th[t].pc = "scan" /\ Head(th[t].scan).listed /\ Head(th[t].scan).left = {}
    /\ EnsureSpace(t, [th[t] EXCEPT !.scan = Tail(@), !.need = 0,
                          !.ret = IF Len(th[t].scan) = 1 THEN "begin" ELSE "scan"])
    /\ UNCHANGED <<node, len, ledger, initialized, issued, restarts>>

-----------------------------------------------------------------------------
(* PUT: OpenFile(O_RDWR|O_CREATE|O_TRUNC), Write..., Stat, Close           *)
-----------------------------------------------------------------------------
OpenForWriting(t) ==
    /\ Ready(t, "PUT")
    /\ EnsureSpace(t, [th[t] EXCEPT !.need = 0, !.ret = "create"])
    /\ UNCHANGED <<node, len, ledger, initialized, issued, restarts>>

Unused == Inode \ Live(node, th)

Truncate(t) ==
    LET p == th[t].name.at
    IN  /\ th[t].pc = "create" /\ IsFile(node, p)
        /\ Become(t, [th[t] EXCEPT !.pc = "put", !.fd = node[p]])
        /\ len' = [len EXCEPT ![node[p]] = 0]
        /\ UNCHANGED <<node, ledger, initialized, issued, restarts>>

Create(t) ==
    LET p == th[t].name.at
    IN  /\ th[t].pc = "create" /\ CanMake(node, p)
        /\ \E i \in Unused :
              /\ \A j \in Unused : i <= j
              /\ node' = [node EXCEPT ![p] = i]
              /\ len' = [len EXCEPT ![i] = 0]
              /\ Become(t, [th[t] EXCEPT !.pc = "put", !.fd = i])
        /\ UNCHANGED <<ledger, initialized, issued, restarts>>

CreateFails(t) ==
    LET p == th[t].name.at
    IN  /\ th[t].pc = "create"
        /\ ~(IsFile(node, p) \/ CanMake(node, p)) \/ BackendErrors
        /\ Finish(t)
        /\ UNCHANGED <<node, len, ledger, initialized, issued, restarts>>

(* File.Write makes room for what the write adds to the open file.  The    *)
(* handler alone writes to it, from its start, so the write is at its end. *)
MakeRoom(t) ==
    /\ th[t].pc = "put" /\ th[t].ok /\ th[t].left > 0
    /\ \E c \in ChunkSizes :
          EnsureSpace(t, [th[t] EXCEPT !.need = c, !.ret = "write", !.left = @ - 1])
    /\ UNCHANGED <<node, len, ledger, initialized, issued, restarts>>

(* The backend's write, and the access time if any byte was written.  A    *)
(* failing backend may have written part of it.                            *)
Write(t) ==
    /\ th[t].pc = "write"
    /\ \E n \in 0 .. th[t].need :
          /\ n = th[t].need \/ BackendErrors
          /\ len' = [len EXCEPT ![th[t].fd] = @ + n]
          /\ ledger' = IF n > 0 THEN Touch(ledger, th[t].name) ELSE ledger
          /\ Become(t, [th[t] EXCEPT !.pc = "put", !.ok = (n = th[t].need)])
    /\ UNCHANGED <<node, initialized, issued, restarts>>

(* The handler's File.Stat, which counts as an access, and the Stat that   *)
(* File.Close starts with: nobody else writes to this handle in between.   *)
(* Neither fails: they are fstat of a handle that is open.                 *)
EndOfBody(t) ==
    /\ th[t].pc = "put"
    /\ ledger' = Touch(ledger, th[t].name)
    /\ Become(t, [th[t] EXCEPT !.pc = "closing", !.size = len[th[t].fd], !.dir = FALSE])
    /\ UNCHANGED <<node, len, initialized, issued, restarts>>

(* The rest of File.Close, also for a handle opened by GET.                *)
Close(t) ==
    /\ th[t].pc = "closing"
    /\ ledger' = UpdateSize(ledger, th[t].name, th[t].dir, th[t].size)
    /\ Finish(t)
    /\ len' = Scrub(node, th')
    /\ UNCHANGED <<node, initialized, issued, restarts>>

-----------------------------------------------------------------------------
(* GET: OpenFile(O_RDONLY), Stat, Read..., Close                           *)
-----------------------------------------------------------------------------
OpenForReading(t) ==
    /\ Ready(t, "GET")
    /\ ledger' = Touch(ledger, th[t].name)
    /\ Goto(t, "open")
    /\ UNCHANGED <<node, len, initialized, issued, restarts>>

(* What the handle serves depends on nothing the ledger knows; what Close  *)
(* will record is what its Stat sees, possibly long before.                *)
Serve(t) ==
    LET p == th[t].name.at
    IN  /\ th[t].pc = "open" /\ Exists(node, p)
        /\ ledger' = Touch(ledger, th[t].name)
        /\ Become(t, [th[t] EXCEPT !.pc = "closing", !.size = StatSize(p), !.dir = IsDir(node, p)])
        /\ UNCHANGED <<node, len, initialized, issued, restarts>>

OpenFails(t) ==
    /\ th[t].pc = "open" /\ ~Exists(node, th[t].name.at)
    /\ Finish(t)
    /\ UNCHANGED <<node, len, ledger, initialized, issued, restarts>>

-----------------------------------------------------------------------------
(* FileSystem.Stat: all of PROPFIND, and how DELETE and MOVE begin         *)
-----------------------------------------------------------------------------
Subject(t) == IF th[t].method = "MOVE" THEN th[t].to ELSE th[t].name

StatBackend(t) ==
    LET p == Subject(t).at
    IN  /\ \E method \in {"PROPFIND", "DELETE", "MOVE"} : Ready(t, method)
        /\ Exists(node, p)
        /\ Become(t, [th[t] EXCEPT !.pc = "observe", !.size = StatSize(p), !.dir = IsDir(node, p)])
        /\ UNCHANGED <<node, len, ledger, initialized, issued, restarts>>

(* Nothing there: the request is over, except that a MOVE has its way free.*)
StatFails(t) ==
    /\ \/ Ready(t, "PROPFIND") \/ Ready(t, "DELETE")
       \/ Ready(t, "MOVE") /\ BackendErrors
    /\ ~Exists(node, Subject(t).at) \/ BackendErrors
    /\ Finish(t)
    /\ UNCHANGED <<node, len, ledger, initialized, issued, restarts>>

DestinationFree(t) ==
    /\ Ready(t, "MOVE") /\ ~Exists(node, Subject(t).at)
    /\ Goto(t, "rename")
    /\ UNCHANGED <<node, len, ledger, initialized, issued, restarts>>

ObserveStat(t) ==
    /\ th[t].pc = "observe"
    /\ ledger' = Observe(ledger, Subject(t), th[t].dir, th[t].size)
    /\ IF th[t].method = "PROPFIND" THEN Finish(t) ELSE Goto(t, "remove")
    /\ UNCHANGED <<node, len, initialized, issued, restarts>>

-----------------------------------------------------------------------------
(* FileSystem.RemoveAll: the end of DELETE, the destination of MOVE        *)
-----------------------------------------------------------------------------
(* The backend's Stat and RemoveAll: the handler's lock keeps the path     *)
(* from changing between a file and a directory meanwhile.                 *)
RemoveBackend(t) ==
    LET p == Subject(t).at
    IN  /\ th[t].pc = "remove" /\ Exists(node, p)
        /\ node' = Without(node, p)
        /\ Become(t, [th[t] EXCEPT !.pc = "forget", !.dir = IsDir(node, p)])
        /\ len' = Scrub(node', th')
        /\ UNCHANGED <<ledger, initialized, issued, restarts>>

RemoveFails(t) ==
    /\ th[t].pc = "remove" /\ BackendErrors
    /\ Finish(t)
    /\ UNCHANGED <<node, len, ledger, initialized, issued, restarts>>

(* Stat's "not exist" is tolerated, RemoveAll of nothing succeeds, and     *)
(* info.IsDir() dereferences a nil os.FileInfo: the request panics, the    *)
(* deferred unlock runs, and the ledger keeps the entry.                   *)
RemovePanics(t) ==
    /\ th[t].pc = "remove" /\ ~Exists(node, Subject(t).at)
    /\ Finish(t)
    /\ UNCHANGED <<node, len, ledger, initialized, issued, restarts>>

ForgetRemoved(t) ==
    /\ th[t].pc = "forget"
    /\ ledger' = IF th[t].dir THEN UntrackTree(ledger, Subject(t))
                 ELSE Untrack(ledger, Subject(t))
    /\ IF th[t].method = "MOVE" THEN Goto(t, "rename") ELSE Finish(t)
    /\ UNCHANGED <<node, len, initialized, issued, restarts>>

-----------------------------------------------------------------------------
(* FileSystem.Rename and FileSystem.Mkdir                                  *)
-----------------------------------------------------------------------------
(* The backend's Stat and Rename; both paths are locked by the handler.    *)
RenameBackend(t) ==
    LET src == th[t].name.at   dst == th[t].to.at
    IN  /\ th[t].pc = "rename" /\ CanRename(node, src, dst)
        /\ node' = Renamed(node, src, dst)
        /\ Become(t, [th[t] EXCEPT !.pc = "retarget", !.dir = IsDir(node, src)])
        /\ UNCHANGED <<len, ledger, initialized, issued, restarts>>

RenameFails(t) ==
    /\ th[t].pc = "rename"
    /\ ~CanRename(node, th[t].name.at, th[t].to.at) \/ BackendErrors
    /\ Finish(t)
    /\ UNCHANGED <<node, len, ledger, initialized, issued, restarts>>

Retarget(t) ==
    /\ th[t].pc = "retarget"
    /\ ledger' = IF th[t].dir THEN RetargetTree(ledger, th[t].name, th[t].to)
                 ELSE RetargetFile(ledger, th[t].name, th[t].to)
    /\ Finish(t)
    /\ UNCHANGED <<node, len, initialized, issued, restarts>>

MkdirBackend(t) ==
    LET p == th[t].name.at
    IN  /\ Ready(t, "MKCOL")
        /\ CanMake(node, p)
        /\ node' = [node EXCEPT ![p] = Directory]
        /\ Goto(t, "track")
        /\ UNCHANGED <<len, ledger, initialized, issued, restarts>>

MkdirFails(t) ==
    LET p == th[t].name.at
    IN  /\ Ready(t, "MKCOL")
        /\ ~CanMake(node, p) \/ BackendErrors
        /\ Finish(t)
        /\ UNCHANGED <<node, len, ledger, initialized, issued, restarts>>

TrackMkdir(t) ==
    /\ th[t].pc = "track"
    /\ ledger' = TrackDir(ledger, th[t].name)
    /\ Finish(t)
    /\ UNCHANGED <<node, len, initialized, issued, restarts>>

-----------------------------------------------------------------------------
(* The process dies and NewFileSystem starts over: only the backend stays. *)
Restart ==
    /\ restarts < MaxRestarts
    /\ restarts' = restarts + 1
    /\ th' = [t \in Thread |-> Idle]
    /\ ledger' = EmptyLedger
    /\ initialized' = FALSE
    /\ len' = Scrub(node, th')
    /\ UNCHANGED <<node, issued>>

BudgetSpent ==
    /\ issued = MaxRequests /\ \A t \in Thread : th[t].pc = "idle"
    /\ UNCHANGED vars

-----------------------------------------------------------------------------
Init ==
    /\ node = InitialNode
    /\ len = InitialLen
    /\ ledger = EmptyLedger
    /\ initialized = FALSE
    /\ th = [t \in Thread |-> Idle]
    /\ issued = 0
    /\ restarts = 0

ScanStep(t) ==
    StartScan(t) \/ ScanList(t) \/ ScanFails(t) \/ ScanEntry(t) \/ ScanSpace(t)

EvictionStep(t) ==
    \/ SkipVictim(t) \/ ChooseVictim(t) \/ UnlinkVictim(t) \/ UnlinkFails(t)
    \/ UntrackVictim(t) \/ EndEviction(t) \/ SpaceFound(t) \/ NoSpace(t)

PutStep(t) ==
    \/ OpenForWriting(t) \/ Truncate(t) \/ Create(t) \/ CreateFails(t)
    \/ MakeRoom(t) \/ Write(t) \/ EndOfBody(t)

ReadStep(t) ==
    \/ OpenForReading(t) \/ Serve(t) \/ OpenFails(t) \/ Close(t)
    \/ StatBackend(t) \/ StatFails(t) \/ DestinationFree(t) \/ ObserveStat(t)

TreeStep(t) ==
    \/ RemoveBackend(t) \/ RemoveFails(t) \/ RemovePanics(t) \/ ForgetRemoved(t)
    \/ RenameBackend(t) \/ RenameFails(t) \/ Retarget(t)
    \/ MkdirBackend(t) \/ MkdirFails(t) \/ TrackMkdir(t)

Step(t) ==
    ScanStep(t) \/ EvictionStep(t) \/ PutStep(t) \/ ReadStep(t) \/ TreeStep(t)

Request(t) == IssueRead(t) \/ IssueWrite(t) \/ IssueMove(t)

Next == (\E t \in Thread : Request(t) \/ Step(t)) \/ Restart \/ BudgetSpent

Spec == Init /\ [][Next]_vars

(* A goroutine that can take a step eventually does: nothing in this       *)
(* package waits for anything but a mutex held for a bounded time, the     *)
(* backend, and, between two writes of a PUT, the body its client sends.   *)
(* The server sets no ReadTimeout (cmd/main.go), so that fairness also     *)
(* assumes clients that send their body or go away.                        *)
FairSpec == Spec /\ \A t \in Thread : WF_vars(Step(t))

-----------------------------------------------------------------------------
TypeOK ==
    /\ node \in [Path -> Inode \cup {Absent, Directory}]
    /\ len \in [Inode -> Nat]
    /\ ledger \in Ledger
    /\ initialized \in BOOLEAN
    /\ th \in [Thread -> Local]
    /\ issued \in 0 .. MaxRequests
    /\ restarts \in 0 .. MaxRestarts

(* curSize never falls below the sum of the sizes recorded in files,       *)
(* whatever the interleaving of requests, scans, evictions and failures:   *)
(* every path that drops or shrinks an entry subtracts at most what that   *)
(* entry had added (filesystem.go:141, :151, :267, :371, :475), so an      *)
(* accounting error can only make the cap tighter, never looser.           *)
CurSizeCoversTracked == SizeOf(ledger.files, Name) <= ledger.curSize

Quiet == \A t \in Thread : th[t].pc = "idle"

(* Between requests of a single client, every file on disk is recorded     *)
(* under the name the client uses with the size it really has, through any *)
(* sequence of uploads, evictions, removals and renames of files and of    *)
(* directories (the prefix rewriting of filesystem.go:184-220 included).   *)
LedgerMatchesDisk ==
    Quiet => \A p \in Path : IsFile(node, p) =>
        /\ ledger.files[Rel(p)].kind = "file"
        /\ ledger.files[Rel(p)].size = len[node[p]]

(* With concurrent requests on the files of one directory and no eviction, *)
(* a file may be recorded with a stale size but never escapes the ledger:  *)
(* the window between a backend call and the locked update that follows it *)
(* (filesystem.go:127, :181, :253, :507) may leave phantom entries, never  *)
(* a missing one.                                                          *)
NoFileEscapes ==
    Quiet => \A p \in Path : IsFile(node, p) => IsTracked(ledger, Rel(p))

(* ensureSpace reports that the disk is full only after everything it      *)
(* could evict is gone (filesystem.go:448-497), with one client; it        *)
(* reports the backend's error when a removal failed.                      *)
FullMeansNothingToEvict ==
    \A t \in Thread :
        th[t].pc = "verdict" /\ ~Fits(th[t].need) /\ ~th[t].failed => Candidates = {}

(* What testsuite/modify_file.go:62-93 expects: when Close of a handle     *)
(* whose writes all succeeded returns, the name leads to what was written. *)
WrittenFileIsThere ==
    [][\A t \in Thread :
          th[t].pc = "closing" /\ th[t].method = "PUT" /\ th[t].ok /\ th'[t].pc = "idle"
          => node[th[t].name.at] = th[t].fd]_vars

(* Every request is answered: ensureSpace's loop over its snapshot ends    *)
(* even when there is never enough room and removals fail                  *)
(* (filesystem.go:448-480), and so does the scan.                          *)
EveryRequestAnswered ==
    \A t \in Thread : th[t].pc # "idle" ~> th[t].pc = "idle"
=============================================================================
