----------------------------- MODULE CopyOnRead -----------------------------
(***************************************************************************)
(* pkg/webdav/filesystem/cor: a webdav.FileSystem that serves reads from a *)
(* cache file system, copies what the cache lacks from a backend, and      *)
(* sends writes to both.  Both are `local' here (webdav.Dir; external).    *)
(*                                                                         *)
(* Threads serve requests the way golang.org/x/net/webdav.Handler does     *)
(* (external).  Stat of a file that is not cached starts a goroutine that  *)
(* copies it after the call has returned: a copier.  The code takes no     *)
(* lock, so a step is one call on the cache, on the backend or on the map  *)
(* of listings.  The bytes of a file are one value, read or written at     *)
(* once, unless the call fails; a file just created or truncated is Empty. *)
(***************************************************************************)
EXTENDS Trees

CONSTANTS
    Thread,        \* goroutines serving requests
    Copier,        \* bound: goroutines started by Stat that run at a time
    Inode,         \* inodes of either file system, a set of integers
    Spellings,     \* how requests write the name of a directory
    Methods,       \* the methods that are issued
    MaxRequests,   \* bound: requests issued altogether
    MaxRestarts,   \* bound: restarts of the process
    BackendErrors, \* whether calls on the backend may fail
    CacheErrors,   \* whether calls on the cache may fail
    InitialNode    \* what the backend holds when the process first starts

ASSUME CopyOnReadAssumption ==
    /\ IsFiniteSet(Thread) /\ IsFiniteSet(Copier) /\ Thread \cap Copier = {}
    /\ IsFiniteSet(Inode) /\ Inode \subseteq Nat \ {0}
    /\ Spellings \subseteq {"plain", "slash"}
    /\ MaxRequests \in Nat /\ MaxRestarts \in Nat
    /\ BackendErrors \in BOOLEAN /\ CacheErrors \in BOOLEAN
    /\ \A p \in Path : \A n \in 1 .. Len(p) - 1 : SubSeq(p, 1, n) \in Path
    /\ InitialNode \in [Path -> Inode \cup {Absent, Directory}]
    /\ \A p, d \in Path : InitialNode[p] # Absent /\ IsUnder(p, d) => InitialNode[d] = Directory
    /\ \A p, q \in Path : IsFile(InitialNode, p) /\ InitialNode[q] = InitialNode[p] => p = q

VARIABLES
    node,      \* what each path names in "backend" and in "cache"
    data,      \* what each inode of either holds
    listings,  \* FileSystem.dirCache
    proc,      \* what each goroutine is doing
    issued,    \* requests issued so far
    restarts   \* restarts so far

vars == <<node, data, listings, proc, issued, restarts>>

-----------------------------------------------------------------------------
(* Names as they come: "d" and "d/" lead to the same directory but are     *)
(* different keys of dirCache, and the root is "" for the handler and "."  *)
(* for path.Dir.                                                           *)
Key == [at : Path \cup {Root}, spelled : {"plain", "slash", "dot"}]
Plain(p) == [at |-> p, spelled |-> "plain"]

(* path.Dir                                                                *)
DirKey(n) ==
    IF n.spelled = "slash" THEN Plain(n.at)
    ELSE LET d == Parent(n.at)
         IN  [at |-> d, spelled |-> IF d = Root THEN "dot" ELSE "plain"]

Names(tree, d) == { p[Len(p)] : p \in Children(tree, d) }
Unlisted == [known |-> FALSE, names |-> {}]
Listing == [known : BOOLEAN, names : SUBSET Component]

-----------------------------------------------------------------------------
Side == {"backend", "cache"}
Empty == 0
Part(c) == IF c > 0 THEN -c ELSE c
Body == 0 .. MaxRequests \cup { MaxRequests + i : i \in Inode }
Content == Body \cup { -c : c \in Body }
NoInode == 0

Proc == Thread \cup Copier
Label == {"idle", "stat", "statbackend", "open", "fetch", "parents", "mkparents",
          "copyopen", "copyread", "copywrite", "reopen", "serve", "store",
          "create", "createcache", "write", "writecache", "closing",
          "mkdir", "mkdircache", "remove", "removecache", "dropremoved",
          "rename", "renamecache", "droprenamed"}
Method == {"PUT", "GET", "PROPFIND", "DELETE", "MOVE", "MKCOL"}

Local == [pc : Label, method : Method \cup {"none", "copy"}, name : Key, to : Key,
          side : Side,                   \* which of the two handles is served
          from : Inode \cup {NoInode},   \* handle on the backend
          fd : Inode \cup {NoInode},     \* handle on the cache
          dir : BOOLEAN,                 \* whether the handle is a directory's
          todo : SUBSET Path,            \* directories to create in the cache
          buf : Content, names : SUBSET Component]

Idle == [pc |-> "idle", method |-> "none", name |-> Plain(Root), to |-> Plain(Root),
         side |-> "cache", from |-> NoInode, fd |-> NoInode, dir |-> FALSE,
         todo |-> {}, buf |-> Empty, names |-> {}]

Become(x, r) == proc' = [proc EXCEPT ![x] = r]
Goto(x, label) == Become(x, [proc[x] EXCEPT !.pc = label])
Finish(x) == Become(x, Idle)

Subject(x) == IF proc[x].method = "MOVE" THEN proc[x].to ELSE proc[x].name
PathOf(x) == proc[x].name.at

(* Inodes that a name or an open handle still refers to keep their bytes.  *)
Live(side, nodes, procs) ==
    { nodes[side][p] : p \in Path }
    \cup { IF side = "cache" THEN procs[x].fd ELSE procs[x].from : x \in Proc }
Scrubbed(contents, nodes, procs) ==
    [side \in Side |-> [i \in Inode |->
        IF i \in Live(side, nodes, procs) THEN contents[side][i] ELSE Empty]]

Unused(side) == Inode \ Live(side, node, proc)
NewInode(side) == CHOOSE i \in Unused(side) : TRUE

(* OpenFile with O_CREATE|O_TRUNC: the inode it leads to, if it succeeds.  *)
CanOpen(side, p) == IsFile(node[side], p) \/ (CanMake(node[side], p) /\ Unused(side) # {})
Opened(side, p) == IF IsFile(node[side], p) THEN node[side][p] ELSE NewInode(side)
OpenTruncated(side, p) ==
    /\ node' = [node EXCEPT ![side][p] = Opened(side, p)]
    /\ data' = [data EXCEPT ![side][Opened(side, p)] = Empty]

(* A call that fails may have done part of what it was asked for: a Write  *)
(* may have stored the beginning, a RemoveAll may have removed some of     *)
(* what is below the path, from the bottom.                                *)
WrittenInPart(side, i, c) == { data, [data EXCEPT ![side][i] = Part(c)] }

RemovedInPart(side, p) ==
    { [node EXCEPT ![side] = [q \in Path |-> IF q \in gone THEN Absent ELSE @[q]]] :
        gone \in { S \in SUBSET { q \in Path : IsUnder(q, p) } :
                     \A d \in S, q \in Path : IsUnder(q, d) => q \in S } }

-----------------------------------------------------------------------------
(* The requests of webdav.Handler (external)                               *)
-----------------------------------------------------------------------------
Writers == {"PUT", "DELETE", "MOVE", "MKCOL"}
Held == UNION { {proc[x].name.at, proc[x].to.at} \ {Root} :
                    x \in { y \in Thread : proc[y].method \in Writers } }

Issue(x, request) ==
    /\ request.method \in Methods
    /\ issued' = issued + 1
    /\ Become(x, request)
    /\ UNCHANGED <<node, data, listings, restarts>>

FirstCall == [PUT |-> "create", GET |-> "open", PROPFIND |-> "stat",
              DELETE |-> "stat", MOVE |-> "stat", MKCOL |-> "mkdir"]

IssueRead(x) ==
    \E method \in {"GET", "PROPFIND"}, p \in Path \cup {Root}, s \in Spellings :
        /\ p = Root => s = "plain"
        /\ Issue(x, [Idle EXCEPT !.pc = FirstCall[method], !.method = method,
                                 !.name = [at |-> p, spelled |-> s]])

IssueWrite(x) ==
    \E method \in Writers \ {"MOVE"}, p \in Path \ Held, s \in Spellings :
        /\ method = "PUT" => s = "plain"
        /\ Issue(x, [Idle EXCEPT !.pc = FirstCall[method], !.method = method,
                                 !.name = [at |-> p, spelled |-> s],
                                 !.buf = IF method = "PUT" THEN issued + 1 ELSE Empty])

IssueMove(x) ==
    \E src, dst \in Path \ Held, s \in Spellings :
        /\ Movable(src, dst)
        /\ Issue(x, [Idle EXCEPT !.pc = FirstCall["MOVE"], !.method = "MOVE",
                                 !.name = [at |-> src, spelled |-> s],
                                 !.to = [at |-> dst, spelled |-> s]])

-----------------------------------------------------------------------------
(* FileSystem.Stat: how PROPFIND, DELETE and MOVE begin                    *)
-----------------------------------------------------------------------------
(* What the handler calls next.                                            *)
AfterStat(x, found) ==
    CASE proc[x].method = "PROPFIND" /\ found -> [proc[x] EXCEPT !.pc = "open"]
      [] proc[x].method = "DELETE" /\ found -> [proc[x] EXCEPT !.pc = "remove"]
      [] proc[x].method = "MOVE" /\ found -> [proc[x] EXCEPT !.pc = "remove"]
      [] proc[x].method = "MOVE" /\ ~found -> [proc[x] EXCEPT !.pc = "rename"]
      [] OTHER -> Idle

StatCache(x) ==
    /\ proc[x].pc = "stat"
    /\ \/ Exists(node["cache"], Subject(x).at) /\ Become(x, AfterStat(x, TRUE))
       \/ ~Exists(node["cache"], Subject(x).at) /\ Goto(x, "statbackend")
       \/ CacheErrors /\ Goto(x, "statbackend")
    /\ UNCHANGED <<node, data, listings, issued, restarts>>

(* A file that is only on the backend is copied by a goroutine of its own, *)
(* which the call does not wait for.                                       *)
StatBackend(x) ==
    LET n == Subject(x)
    IN  /\ proc[x].pc = "statbackend"
        /\ IF IsFile(node["backend"], n.at)
           THEN \E c \in Copier :
                    /\ proc[c].pc = "idle"
                    /\ proc' = [proc EXCEPT
                           ![x] = AfterStat(x, TRUE),
                           ![c] = [Idle EXCEPT !.pc = "fetch", !.method = "copy", !.name = n]]
           ELSE Become(x, AfterStat(x, Exists(node["backend"], n.at)))
        /\ UNCHANGED <<node, data, listings, issued, restarts>>

StatFails(x) ==
    /\ proc[x].pc = "statbackend" /\ BackendErrors
    /\ Finish(x)
    /\ UNCHANGED <<node, data, listings, issued, restarts>>

-----------------------------------------------------------------------------
(* FileSystem.OpenFile for reading, and copyToCache                        *)
-----------------------------------------------------------------------------
\* Mutant of Serving: a directory is taken for a file.
ServingAnything(x, side, p) ==
    IF side = "cache"
    THEN [proc[x] EXCEPT !.pc = "serve", !.side = side, !.fd = At(node[side], p)]
    ELSE [proc[x] EXCEPT !.pc = "serve", !.side = side, !.from = At(node[side], p)]

Serving(x, side, p) ==
    IF IsDir(node[side], p)
    THEN [proc[x] EXCEPT !.pc = "serve", !.side = side, !.dir = TRUE,
                         !.from = NoInode, !.fd = NoInode]
    ELSE IF side = "cache"
    THEN [proc[x] EXCEPT !.pc = "serve", !.side = side, !.fd = node[side][p], !.from = NoInode]
    ELSE [proc[x] EXCEPT !.pc = "serve", !.side = side, !.from = node[side][p], !.fd = NoInode]

OpenCached(x) ==
    /\ proc[x].pc = "open"
    /\ \/ /\ Exists(node["cache"], PathOf(x))
          /\ Become(x, Serving(x, "cache", PathOf(x)))
       \/ ~Exists(node["cache"], PathOf(x)) /\ Goto(x, "fetch")
       \/ CacheErrors /\ Goto(x, "fetch")
    /\ UNCHANGED <<node, data, listings, issued, restarts>>

(* OpenFile and Stat on the backend.  A directory is served from there; a  *)
(* copier found a file and finds a directory now only if it was replaced.  *)
Fetch(x) ==
    LET p == PathOf(x)
    IN  /\ proc[x].pc = "fetch"
        /\ \/ /\ IsFile(node["backend"], p)
              /\ Become(x, [proc[x] EXCEPT !.pc = "parents", !.from = node["backend"][p]])
           \/ /\ IsDir(node["backend"], p)
              /\ Become(x, IF x \in Copier THEN [proc[x] EXCEPT !.pc = "parents", !.dir = TRUE]
                           ELSE Serving(x, "backend", p))
           \/ (~Exists(node["backend"], p) \/ BackendErrors) /\ Finish(x)
        /\ UNCHANGED <<node, data, listings, issued, restarts>>

(* copyToCache has failed: a copier gives up, a reader is served by the    *)
(* handle it has on the backend.                                           *)
CopyFailed(x) ==
    IF x \in Copier THEN Finish(x)
    ELSE Become(x, [proc[x] EXCEPT !.pc = "serve", !.side = "backend", !.fd = NoInode,
                                   !.buf = Empty, !.todo = {}])

(* ensureDirectory asks, upwards, which directories above the file are     *)
(* missing (one step here), and then creates them from the top.            *)
MissingAbove(p) == { d \in Path : IsUnder(p, d) /\ ~Exists(node["cache"], d) }

EnsureDirectory(x) ==
    /\ proc[x].pc = "parents"
    /\ LET todo == MissingAbove(PathOf(x))
       IN  Become(x, [proc[x] EXCEPT !.pc = IF todo = {} THEN "copyopen" ELSE "mkparents",
                                     !.todo = todo])
    /\ UNCHANGED <<node, data, listings, issued, restarts>>

MakeParent(x) ==
    /\ proc[x].pc = "mkparents"
    /\ \E d \in proc[x].todo :
        /\ \A e \in proc[x].todo : Len(d) <= Len(e)
        /\ LET rest == proc[x].todo \ {d}
               next == [proc[x] EXCEPT !.pc = IF rest = {} THEN "copyopen" ELSE "mkparents",
                                       !.todo = rest]
           IN  \/ /\ CanMake(node["cache"], d)
                  /\ node' = [node EXCEPT !["cache"][d] = Directory]
                  /\ Become(x, next)
               \/ /\ Exists(node["cache"], d)
                  /\ Become(x, next)
                  /\ UNCHANGED node
               \/ /\ CacheErrors \/ ~(CanMake(node["cache"], d) \/ Exists(node["cache"], d))
                  /\ CopyFailed(x)
                  /\ UNCHANGED node
    /\ UNCHANGED <<data, listings, issued, restarts>>

CreateCopy(x) ==
    /\ proc[x].pc = "copyopen" /\ CanOpen("cache", PathOf(x))
    /\ OpenTruncated("cache", PathOf(x))
    /\ Become(x, [proc[x] EXCEPT !.pc = "copyread", !.fd = Opened("cache", PathOf(x))])
    /\ UNCHANGED <<listings, issued, restarts>>

CreateCopyFails(x) ==
    /\ proc[x].pc = "copyopen" /\ (CacheErrors \/ ~CanOpen("cache", PathOf(x)))
    /\ CopyFailed(x)
    /\ UNCHANGED <<node, data, listings, issued, restarts>>

(* The two halves of io.Copy.  Nothing is written when nothing was read;   *)
(* a failure leaves the file in the cache, empty or with the beginning.    *)
ReadForCopy(x) ==
    /\ proc[x].pc = "copyread" /\ ~proc[x].dir
    /\ Become(x, [proc[x] EXCEPT !.pc = "copywrite", !.buf = data["backend"][proc[x].from]])
    /\ UNCHANGED <<node, data, listings, issued, restarts>>

ReadForCopyFails(x) ==
    /\ proc[x].pc = "copyread" /\ (proc[x].dir \/ BackendErrors)
    /\ CopyFailed(x)
    /\ \E d \in IF proc[x].dir THEN {data}
                ELSE WrittenInPart("cache", proc[x].fd, data["backend"][proc[x].from]) :
          data' = Scrubbed(d, node, proc')
    /\ UNCHANGED <<node, listings, issued, restarts>>

WriteCopy(x) ==
    /\ proc[x].pc = "copywrite"
    /\ IF x \in Copier THEN Finish(x)
       ELSE Become(x, [proc[x] EXCEPT !.pc = "reopen", !.buf = Empty,
                                      !.from = NoInode, !.fd = NoInode])
    /\ data' = Scrubbed(IF proc[x].buf = Empty THEN data
                        ELSE [data EXCEPT !["cache"][proc[x].fd] = proc[x].buf], node, proc')
    /\ UNCHANGED <<node, listings, issued, restarts>>

WriteCopyFails(x) ==
    /\ proc[x].pc = "copywrite" /\ CacheErrors
    /\ CopyFailed(x)
    /\ \E d \in WrittenInPart("cache", proc[x].fd, proc[x].buf) : data' = Scrubbed(d, node, proc')
    /\ UNCHANGED <<node, listings, issued, restarts>>

Reopen(x) ==
    LET p == PathOf(x)
    IN  /\ proc[x].pc = "reopen"
        /\ \/ Exists(node["cache"], p) /\ Become(x, Serving(x, "cache", p))
           \/ /\ ~Exists(node["cache"], p) \/ CacheErrors
              /\ Exists(node["backend"], p)
              /\ Become(x, Serving(x, "backend", p))
           \/ /\ ~Exists(node["cache"], p) \/ CacheErrors
              /\ ~Exists(node["backend"], p) \/ BackendErrors
              /\ Finish(x)
        /\ UNCHANGED <<node, data, listings, issued, restarts>>

-----------------------------------------------------------------------------
(* File.Read, File.Readdir and File.Close                                  *)
-----------------------------------------------------------------------------
(* A file is read, or refused when a GET finds a directory: nothing of it  *)
(* is kept.  Served is what a GET sends.                                   *)
Served(x) == IF proc[x].side = "cache" THEN data["cache"][proc[x].fd]
             ELSE data["backend"][proc[x].from]

ServeFile(x) ==
    /\ proc[x].pc = "serve" /\ ~(proc[x].dir /\ proc[x].method = "PROPFIND")
    /\ Finish(x)
    /\ data' = Scrubbed(data, node, proc')
    /\ UNCHANGED <<node, listings, issued, restarts>>

ServeKnownListing(x) ==
    /\ proc[x].pc = "serve" /\ proc[x].dir /\ proc[x].method = "PROPFIND"
    /\ listings[proc[x].name].known
    /\ Finish(x)
    /\ UNCHANGED <<node, data, listings, issued, restarts>>

(* The listing is that of whichever file system the directory was found    *)
(* on: the cache if it is there, and the root always is.                   *)
ReadListing(x) ==
    /\ proc[x].pc = "serve" /\ proc[x].dir /\ proc[x].method = "PROPFIND"
    /\ ~listings[proc[x].name].known
    /\ Become(x, [proc[x] EXCEPT !.pc = "store",
                                 !.names = Names(node[proc[x].side], PathOf(x))])
    /\ UNCHANGED <<node, data, listings, issued, restarts>>

StoreListing(x) ==
    /\ proc[x].pc = "store"
    /\ listings' = [listings EXCEPT ![proc[x].name] = [known |-> TRUE, names |-> proc[x].names]]
    /\ Finish(x)
    /\ UNCHANGED <<node, data, issued, restarts>>

-----------------------------------------------------------------------------
(* PUT: OpenFile(O_RDWR|O_CREATE|O_TRUNC), writeThroughFile.Write, Close   *)
-----------------------------------------------------------------------------
CreateOnBackend(x) ==
    /\ proc[x].pc = "create" /\ CanOpen("backend", PathOf(x))
    /\ OpenTruncated("backend", PathOf(x))
    /\ Become(x, [proc[x] EXCEPT !.pc = "createcache",
                                 !.from = Opened("backend", PathOf(x))])
    /\ UNCHANGED <<listings, issued, restarts>>

CreateFails(x) ==
    /\ proc[x].pc = "create" /\ (BackendErrors \/ ~CanOpen("backend", PathOf(x)))
    /\ Finish(x)
    /\ UNCHANGED <<node, data, listings, issued, restarts>>

CreateInCache(x) ==
    /\ proc[x].pc = "createcache" /\ CanOpen("cache", PathOf(x))
    /\ OpenTruncated("cache", PathOf(x))
    /\ Become(x, [proc[x] EXCEPT !.pc = "write", !.fd = Opened("cache", PathOf(x))])
    /\ UNCHANGED <<listings, issued, restarts>>

(* The request fails although the backend's file is created or truncated.  *)
CreateInCacheFails(x) ==
    /\ proc[x].pc = "createcache" /\ (CacheErrors \/ ~CanOpen("cache", PathOf(x)))
    /\ Finish(x)
    /\ data' = Scrubbed(data, node, proc')
    /\ UNCHANGED <<node, listings, issued, restarts>>

WriteBackend(x) ==
    /\ proc[x].pc = "write"
    /\ data' = [data EXCEPT !["backend"][proc[x].from] = proc[x].buf]
    /\ Goto(x, "writecache")
    /\ UNCHANGED <<node, listings, issued, restarts>>

\* Mutant of WriteFails: no return between the two writes.
WriteFailsGoesOn(x) ==
    /\ proc[x].pc = "write" /\ BackendErrors
    /\ data' \in WrittenInPart("backend", proc[x].from, proc[x].buf)
    /\ Goto(x, "writecache")
    /\ UNCHANGED <<node, listings, issued, restarts>>

(* The cache is not written to, whatever the backend has stored.           *)
WriteFails(x) ==
    /\ proc[x].pc = "write" /\ BackendErrors
    /\ data' \in WrittenInPart("backend", proc[x].from, proc[x].buf)
    /\ Goto(x, "closing")
    /\ UNCHANGED <<node, listings, issued, restarts>>

(* An error of the cache is dropped.                                       *)
WriteCache(x) ==
    /\ proc[x].pc = "writecache"
    /\ \/ data' = [data EXCEPT !["cache"][proc[x].fd] = proc[x].buf]
       \/ CacheErrors /\ data' \in WrittenInPart("cache", proc[x].fd, proc[x].buf)
    /\ Goto(x, "closing")
    /\ UNCHANGED <<node, listings, issued, restarts>>

Close(x) ==
    /\ proc[x].pc = "closing"
    /\ listings' = [listings EXCEPT ![DirKey(proc[x].name)] = Unlisted]
    /\ Finish(x)
    /\ data' = Scrubbed(data, node, proc')
    /\ UNCHANGED <<node, issued, restarts>>

-----------------------------------------------------------------------------
(* FileSystem.Mkdir, RemoveAll and Rename: the backend, then the cache     *)
(* whatever it answers, then the listings of the parents.                  *)
-----------------------------------------------------------------------------
MkdirBackend(x) ==
    /\ proc[x].pc = "mkdir" /\ CanMake(node["backend"], PathOf(x))
    /\ node' = [node EXCEPT !["backend"][PathOf(x)] = Directory]
    /\ Goto(x, "mkdircache")
    /\ UNCHANGED <<data, listings, issued, restarts>>

MkdirFails(x) ==
    /\ proc[x].pc = "mkdir" /\ (BackendErrors \/ ~CanMake(node["backend"], PathOf(x)))
    /\ Finish(x)
    /\ UNCHANGED <<node, data, listings, issued, restarts>>

MkdirCache(x) ==
    /\ proc[x].pc = "mkdircache"
    /\ \/ /\ CanMake(node["cache"], PathOf(x))
          /\ node' = [node EXCEPT !["cache"][PathOf(x)] = Directory]
       \/ /\ CacheErrors \/ ~CanMake(node["cache"], PathOf(x))
          /\ UNCHANGED node
    /\ Goto(x, "closing")
    /\ UNCHANGED <<data, listings, issued, restarts>>

RemoveBackend(x) ==
    /\ proc[x].pc = "remove"
    /\ node' = [node EXCEPT !["backend"] = Without(@, Subject(x).at)]
    /\ Goto(x, "removecache")
    /\ data' = Scrubbed(data, node', proc')
    /\ UNCHANGED <<listings, issued, restarts>>

(* The cache is left as it is, whatever the backend has removed.           *)
RemoveFails(x) ==
    /\ proc[x].pc = "remove" /\ BackendErrors
    /\ node' \in RemovedInPart("backend", Subject(x).at)
    /\ Finish(x)
    /\ data' = Scrubbed(data, node', proc')
    /\ UNCHANGED <<listings, issued, restarts>>

RemoveCache(x) ==
    /\ proc[x].pc = "removecache"
    /\ \/ node' = [node EXCEPT !["cache"] = Without(@, Subject(x).at)]
       \/ CacheErrors /\ node' \in RemovedInPart("cache", Subject(x).at)
    /\ Goto(x, "dropremoved")
    /\ data' = Scrubbed(data, node', proc')
    /\ UNCHANGED <<listings, issued, restarts>>

DropRemoved(x) ==
    /\ proc[x].pc = "dropremoved"
    /\ listings' = [listings EXCEPT ![DirKey(Subject(x))] = Unlisted]
    /\ IF proc[x].method = "MOVE" THEN Goto(x, "rename") ELSE Finish(x)
    /\ UNCHANGED <<node, data, issued, restarts>>

RenameBackend(x) ==
    /\ proc[x].pc = "rename"
    /\ CanRename(node["backend"], PathOf(x), proc[x].to.at)
    /\ node' = [node EXCEPT !["backend"] = Renamed(@, PathOf(x), proc[x].to.at)]
    /\ Goto(x, "renamecache")
    /\ UNCHANGED <<data, listings, issued, restarts>>

\* Mutant of RenameFails: the cache is renamed all the same.
RenameFailsGoesOn(x) ==
    /\ proc[x].pc = "rename"
    /\ BackendErrors \/ ~CanRename(node["backend"], PathOf(x), proc[x].to.at)
    /\ Goto(x, "renamecache")
    /\ UNCHANGED <<node, data, listings, issued, restarts>>

RenameFails(x) ==
    /\ proc[x].pc = "rename"
    /\ BackendErrors \/ ~CanRename(node["backend"], PathOf(x), proc[x].to.at)
    /\ Finish(x)
    /\ UNCHANGED <<node, data, listings, issued, restarts>>

RenameCache(x) ==
    /\ proc[x].pc = "renamecache"
    /\ \/ /\ CanRename(node["cache"], PathOf(x), proc[x].to.at)
          /\ node' = [node EXCEPT !["cache"] = Renamed(@, PathOf(x), proc[x].to.at)]
       \/ /\ CacheErrors \/ ~CanRename(node["cache"], PathOf(x), proc[x].to.at)
          /\ UNCHANGED node
    /\ Goto(x, "droprenamed")
    /\ data' = Scrubbed(data, node', proc')
    /\ UNCHANGED <<listings, issued, restarts>>

DropRenamed(x) ==
    /\ proc[x].pc = "droprenamed"
    /\ listings' = [k \in Key |->
           IF k \in {DirKey(proc[x].name), DirKey(proc[x].to)} THEN Unlisted ELSE listings[k]]
    /\ Finish(x)
    /\ UNCHANGED <<node, data, issued, restarts>>

-----------------------------------------------------------------------------
(* The process dies and NewFileSystem starts over: both trees stay.        *)
Restart ==
    /\ restarts < MaxRestarts
    /\ restarts' = restarts + 1
    /\ proc' = [x \in Proc |-> Idle]
    /\ listings' = [k \in Key |-> Unlisted]
    /\ data' = Scrubbed(data, node, proc')
    /\ UNCHANGED <<node, issued>>

Quiet == \A x \in Proc : proc[x].pc = "idle"

BudgetSpent ==
    /\ issued = MaxRequests /\ Quiet
    /\ UNCHANGED vars

-----------------------------------------------------------------------------
(* The cache starts with part of what the backend holds, as a run of the   *)
(* program that was left to finish would have filled it.                   *)
Init ==
    /\ \E kept \in SUBSET { p \in Path : InitialNode[p] # Absent } :
        /\ \A p \in kept, d \in Path : IsUnder(p, d) => d \in kept
        /\ node = [side \in Side |->
                      IF side = "backend" THEN InitialNode
                      ELSE [p \in Path |-> IF p \in kept THEN InitialNode[p] ELSE Absent]]
    /\ data = [side \in Side |-> [i \in Inode |->
                  IF \E p \in Path : node[side][p] = i THEN MaxRequests + i ELSE Empty]]
    /\ listings = [k \in Key |-> Unlisted]
    /\ proc = [x \in Proc |-> Idle]
    /\ issued = 0
    /\ restarts = 0

StatStep(x) == StatCache(x) \/ StatBackend(x) \/ StatFails(x)

CopyStep(x) ==
    \/ Fetch(x) \/ EnsureDirectory(x) \/ MakeParent(x)
    \/ CreateCopy(x) \/ CreateCopyFails(x) \/ ReadForCopy(x) \/ ReadForCopyFails(x)
    \/ WriteCopy(x) \/ WriteCopyFails(x)

ReadStep(x) ==
    \/ OpenCached(x) \/ Reopen(x) \/ ServeFile(x)
    \/ ServeKnownListing(x) \/ ReadListing(x) \/ StoreListing(x)

PutStep(x) ==
    \/ CreateOnBackend(x) \/ CreateFails(x) \/ CreateInCache(x) \/ CreateInCacheFails(x)
    \/ WriteBackend(x) \/ WriteFails(x) \/ WriteCache(x) \/ Close(x)

TreeStep(x) ==
    \/ MkdirBackend(x) \/ MkdirFails(x) \/ MkdirCache(x)
    \/ RemoveBackend(x) \/ RemoveFails(x) \/ RemoveCache(x) \/ DropRemoved(x)
    \/ RenameBackend(x) \/ RenameFails(x) \/ RenameCache(x) \/ DropRenamed(x)

Step(x) == StatStep(x) \/ CopyStep(x) \/ ReadStep(x) \/ PutStep(x) \/ TreeStep(x)

Request(x) ==
    /\ proc[x].pc = "idle" /\ issued < MaxRequests
    /\ IssueRead(x) \/ IssueWrite(x) \/ IssueMove(x)

Next ==
    \/ \E x \in Proc : Step(x)
    \/ \E x \in Thread : Request(x)
    \/ Restart
    \/ BudgetSpent

Spec == Init /\ [][Next]_vars

-----------------------------------------------------------------------------
TypeOK ==
    /\ node \in [Side -> [Path -> Inode \cup {Absent, Directory}]]
    /\ data \in [Side -> [Inode -> Content]]
    /\ listings \in [Key -> Listing]
    /\ proc \in [Proc -> Local]
    /\ issued \in 0 .. MaxRequests
    /\ restarts \in 0 .. MaxRestarts

(* The backend is the source of truth (filesystem.go:18): what a GET sends *)
(* is what the file holds there, checked with clients that only read.      *)
ReadsReturnTheFile ==
    \A x \in Thread :
        proc[x].pc = "serve" /\ proc[x].method = "GET" /\ ~proc[x].dir
        => /\ IsFile(node["backend"], PathOf(x))
           /\ Served(x) = data["backend"][node["backend"][PathOf(x)]]
=============================================================================
