# Verification of Calli

Calli serves files over WebDAV. A request passes authentication, a rate limiter
and authorisation and reaches one `webdav.FileSystem`, chosen by the
configuration: a local directory, an S3 bucket, an SQLite database, or one of
two file systems that wrap others, `capped` (deletes the least recently used
files above a size) and `cor` (copies what is read from a slow backend into a
cache). This directory models the parts where state, concurrency and failure
meet, checks them with TLC on small instances, and proves some of the
properties with TLAPS for every instance.

Paths below are relative to the repository. Line numbers without a file are of
the `filesystem.go` of the package under discussion.

## 1. Inventory

| part | state | operations | what is hard |
|---|---|---|---|
| `pkg/webdav/filesystem/capped` | `files` (name to size, kind, lastAccess), `curSize`, `initialized`, under one mutex; the backend | FileSystem.Mkdir, OpenFile, RemoveAll, Rename, Stat; File.Write, Close; the initial scan; `ensureSpace` | the mutex is released around every backend call, so the ledger is updated from answers that may be old; eviction works from a snapshot; the scan is not waited for |
| `pkg/webdav/filesystem/cor` | a cache tree and a backend tree, `dirCache`; no lock at all | the same FileSystem calls, `copyToCache`, `writeThroughFile`, File.Readdir | two trees changed one after the other, errors of the cache dropped, copies made by readers and by goroutines that outlive the call |
| `pkg/webdav/filesystem/sqlite` | tables `files` and `file_contents`, a pool of connections, a temporary file per upload | the same calls; File.Write, Close, truncate | several statements and connections per operation, partly outside a transaction |
| `pkg/webdav/filesystem/s3` | objects, part objects, one `streamingBuffer` per upload | the same calls; Write, flush, Close, cleanup | no call on the store is atomic with another; Close has many failure points, may be called twice and runs under the client's context |
| `pkg/webdav/filesystem/local` | a directory | webdav.Dir | left to the operating system |
| `internal/authz`, `authz/expr` | rules of a user's groups; a cache of compiled rules, one hour | `assertAuthorization` before each call | the first rule that is true decides; an error in one rule ends the evaluation |
| `internal/store` | tables `users`, `groups`, `users_groups`, `rules` | FindOrCreateUser, UpdateUser, DeleteUsers, GetUsers, Authenticate, RegenerateBasicPassword | what runs in `Tx` and what runs in `Do` |
| `internal/setup/on_authenticated.go` | an error variable shared by all requests; the user's row | first login, connected_at | several transactions per login; results that are dropped |
| `internal/admin` | none of its own | update of a user's groups, deletion | three transactions per update, errors dropped; ids are given again |
| `internal/authn` | none (sessions are cookies) | chain of authenticators | fall through from one authenticator to the next |
| `internal/ratelimit` | one token bucket per user | Middleware | goes on after an error, which its place behind authentication excludes |
| `internal/explorer`, `config`, `ui`, `pprof`, `registry.go`, `cmd` | none that changes while serving | pages, start-up | nothing a model checker would add to |

Interactions. `webdav.Handler` turns a method into a fixed sequence of
FileSystem and File calls (PUT: OpenFile, Write..., Stat, Close; DELETE: Stat,
RemoveAll; MOVE: Stat of the destination, RemoveAll of it if there, Rename; and
so on) and holds an in-memory lock on the exact paths of a method that writes
while it runs. Methods that read take no lock. `authz` and the logger sit
between the handler and the file system and keep nothing between calls. `capped`
and `cor` call the file systems they wrap and are called by the handler's
goroutines at the same time. Login, administration and the explorer share
the store.

What makes each part correct:

* capped: the counter is never below what is recorded, so that the cap binds;
  every file on disk is recorded; eviction follows the client's accesses and
  `ENOSPC` is answered only when nothing is left to evict; every request ends.
* cor: the cache holds nothing the backend does not; what is read, and listed,
  is what the backend has.
* sqlite: the two tables agree; an operation on one path touches no other; what
  makes requests wait for each other's connections is known.
* s3: an upload that is reported as stored is stored whole; no part object is
  left behind or taken for another upload's.
* authz: a method that is refused half way has changed nothing before.
* store, login, administration: whoever administers is an administrator by the
  configuration in force; a request writes to its own user's row; groups are what
  the last form said, and are never inherited with an id; the name shown for
  WebDAV clients is the one that is stored.

## 2. Modules

| module | models | state and actions |
|---|---|---|
| `Trees` | webdav.Dir's directory tree (external) | operators only: what Mkdir, OpenFile, RemoveAll and Rename need and do |
| `SizeLedger` | `files` and `curSize` of capped | operators only: one per critical section (`Observe` is the locked half of Stat, `Forget` the loop of RemoveAll, `RetargetTree` that of Rename, ...) |
| `Capped` | capped over a local backend | `node`, `len` (backend), `ledger`, `initialized`, `th` (what each goroutine is doing); one action per critical section or backend call |
| `CappedRecency` | adds histories of what clients accessed and of removals the backend refused | `recency`, a relation: who was accessed not after whom; `refused`, the victims of the pass at hand that could not be removed; they constrain nothing |
| `CopyOnRead` | cor over two local file systems | `node`, `data` (both sides), `listings` (dirCache), `proc` (goroutines of requests and background copiers); one action per call on a side or on dirCache |
| `CopyOnReadRaces` | adds a history of the first disturbance | `disturbed`; a behaviour is not followed beyond it |
| `AtomicTree` | what a backend promises | `tree`; one action per whole operation |
| `SQLiteFiles` | sqlite | `files`, `contents` (the two tables), `th`; one action per statement outside a savepoint, or per savepoint |
| `S3Files` | s3 over the objects of a bucket (external) | `object`, `keep` (directories with a .keepdir), `parts`, `th`; one action per call on the store |
| `Authorisation` | authz and its rules | operators only: `Allowed` for one call of a user, `Calls` for the calls of each method (external) |
| `Accounts` | store, first login, basic authentication, administration, explorer, over `Authorisation` | `users`, `grants` (the tables), `admins` (configuration), `err` (the shared variable), `th`; one action per transaction, statement, call put to the rules, or look at `err` |
| `TreesProofs` | lemmas about the operators of `Trees` | |
| `CappedProofs`, `CappedClientProofs`, `CopyOnReadProofs`, `SQLiteFilesProofs`, `S3FilesProofs`, `AccountsProofs`, `AccountsHistoryProofs` | lemmas and theorems | |
| `MC*` | instances for TLC | |

**Capped.** A goroutine's record says where in the code it stands (`pc`) and
holds the locals that survive a step: the size and kind its last Stat saw, what
`ensureSpace` was asked for and by whom, the snapshot of victims, the stack of
directories of the scan. A step ends where the mutex is released or the backend
returns. Things kept as in the code because they matter: `initialized` is set
before the scan runs (:302); the scan records `/a` where requests say `a`, so
ledger names carry a form; the victims are sorted once and their sizes looked at
later without the mutex; a victim's name is removed whatever it now leads to;
RemoveAll panics when the file vanished between the handler's Stat and its own
(:131). lastAccess is renumbered to ranks after each update, since only its order
is used.

**CopyOnRead.** `writeThroughFile`, `copyToCache` and `ensureDirectory` are broken
into their calls. Stat of a file that is only on the backend starts a copier
(:203) that runs beside its caller and goes on after it. A listing is stored
under the name as requested and dropped under `path.Dir` of the name, so keys
carry their spelling. The bytes of a file are one value; a file just created or
truncated is `Empty`. A call that fails may have done part of its work, on either
side: a Write has stored nothing or the beginning (`WrittenInPart`), an os.RemoveAll
has removed nothing or some of what is below the path, from the bottom
(`RemovedInPart`); the code treats both as if nothing had been done.

**SQLiteFiles.** Outside a savepoint each statement commits by itself, so OpenFile
and truncate are four separate changes; RemoveAll, Rename and the storing of an
upload are one each. Nothing but the names ties the tables together: the pragma
that should turn foreign keys on (init.go:57) runs inside the savepoint that
sqlitex.ExecScript opens, where SQLite documents it to have no effect. (This is
taken from the two libraries, which are not in the repository; with foreign keys
in force every rename of a file would be refused, for want of ON UPDATE.) A step needs a free connection unless
its goroutine holds one (`Holds`: OpenFile keeps the connection it inserted with
until it returns, file.truncate its own between its statements). Rename of a
directory is one savepoint that may stop between any two of its updates and still
commit (`RenameTreeCut`): because a taken name, or a failing statement
(`RenameFailures`), sets an `err` the savepoint does not look at. The length of a
PUT's body is the number of the request, so that uploads can be told apart.
`Alike` says which names match others as LIKE patterns; a directory whose path occurs
in the middle of a name that it matches is not moved (`Clear`). `Tree` maps the tables to
`AtomicTree`.

**S3Files.** What fills the streaming buffer once is a piece; a body has up to
`MaxPieces` of them. PutPart is a flush, from Write or from Close; the calls of
Close follow one another as in the code: one part is copied to the file, more are
read back and appended, and `cleanupPartsLocked` removes them one by one, going on
after errors. A call on the store is refused, or done and its answer lost
(`Outcome`); a client that goes away (`Disconnect`) makes every later call of its
request fail, the clean-up's too. webdav.Handler asks a PUT for the file's Stat,
which closes the stream, and calls Close again: the first error has the last word
(`Closed`). A directory is what is below its name, or its .keepdir; `Kind` and
`Listed` follow stat and readdir. `ForceDelete` says whether the store removes
what is below a key with the key, as MinIO does when asked so and AWS does not.
`author`, `mixed`, `leaky` and `log` are histories that the properties speak
about and no guard reads. `log` tells apart two answers that a client sees as the
same: a DELETE whose RemoveAll finds nothing to remove is answered "unseen" if
something is left deeper than the directory's own entries.
`PrefixesArePaths` says that what is above a path is a path.

**Authorisation, Accounts.** An authenticated request carries a copy of its user
(`storeUser`), taken when it was authenticated; rights are asked of the copy. Transactions
and autocommitted statements are single steps, and each may fail (`Fates`), with
the error that follows in the code: answered, logged, or dropped. A request of a
session finds or creates the row (one transaction), completes it (a statement),
looks at the shared `err` (a step of its own, since another request may have
assigned it), perhaps notes when the user connected, and looks at it again. What
then is served: the calls of a WebDAV method one by one, a page, a new password,
or an administrator's update or deletion, which reads the user, its groups, writes
them back, deletes them and inserts the form's, each a step. Ids are SQLite's: one
more than the largest, so the last one is given again after a deletion. Names and
passwords are numbered by the request that drew them. A restart comes with any
configuration of administrators in `Conf`. `orphans` and `log` are histories.

## 3. Runs

All bounds are constants of the configurations: goroutines, requests, restarts,
chunks of an upload, copiers, inodes.

| run | bounds | states | shows |
|---|---|---|---|
| `capped_concurrent` | 2 goroutines, 2 requests of any method, 3 paths with a directory, cap 1, errors, 1 restart | 227,394 | types; curSize covers the recorded sizes in every interleaving of requests, scan, eviction |
| `capped_roomy` | 2 goroutines, 3 requests of any method on 2 paths, both forms of name, cap out of reach, errors | 389,784 | no file on disk is missing from the ledger when nobody is at work |
| `capped_sequential` | 1 client, 4 requests, 5 paths in 2 directories, cap 2, errors | 222,115 | between requests ledger and disk agree; ENOSPC only if nothing is left to evict; a removal that fails does not end the pass; victims in the order of the client's accesses; every request ends |
| `capped_overwrite` (violation) | 1 client, overwrite at the cap | | an upload evicts its own file |
| `cor_races` | 2 clients, 1 copier, 3 requests of any method, 3 paths, both sides fail, in part or wholly, 1 restart | 2,055,196 | until the first disturbance the cache is current and reads are true |
| `cor_readers` (violation) | 2 clients, 2 GETs | | two copies into one cache file |
| `sqlite_clients` | 2 goroutines, 2 connections, 3 requests of any method, 2 directories of which one's name matches the other's, cut off anywhere, 1 restart | 174,278 | types; only as many creations at once as there are connections make the pool run dry for good; only two things part a row from its blob |
| `sqlite_sequential` | 1 client, 5 requests on 2 directories and 3 files, cut off anywhere, 2 restarts | 72,264 | no blob without a row; the tables implement `AtomicTree` |
| `sqlite_rename` (violation) | 1 client, upload, rename of its directory | | a rename that fails half way is committed |
| `s3_uploads` | 2 goroutines, 2 requests of any method, bodies of 0 to 2 pieces, 2 directories of which one has another in it, 1 mishap | 191,505 | what is answered as stored is whole, files hold one body's beginning, DELETE leaves nothing that others did not write beside it, MOVE loses nothing it removes, parts go |
| `s3_disconnect` (violation) | 1 client, PUT and DELETE, 1 mishap | | the clean-up of an upload is cancelled with it |
| `accounts_logins` | 2 goroutines, 3 requests of seven kinds, 3 persons of whom one has no row, 2 configurations, 1 mishap | 1,564,290 | rights are those of one moment and one configuration; what a request writes it writes to its user; groups are as set, and not inherited |

Why the bounds are enough. The capped hazards need one goroutine between another
goroutine's backend call and its locked update: two goroutines and two requests,
of which the first may also be the one that scans. A third request in
`capped_roomy` lets a file be created again after a removal that is still being
recorded. Eviction order needs two files, an access between them and a third
write: four requests. The disturbances of cor need a reader, a writer and a
request that sees the outcome: three requests. Inodes are one more than names and
open handles can hold, so creating never fails for want of one; a copier more
would only start the same copy twice. The longest way to a torn row in sqlite is
an upload, a second upload cut between truncate's statements, and a directory
moved over it: three requests, with both directories there from the start.

The pool has ten connections by default, and there may be any number of requests
at once. `sqlite_clients` has as many goroutines as connections, which is the case
that matters: two uploads of new files do hold both connections and wait for a
third, until their clients give up, and TLC reaches such states. The property
says when this happens, for any size of the pool (section 5): not that it does not.

`sqlite_sequential` makes the assumptions under which its refinement holds explicit: one client;
`Folder`, clients agree on which names are directories (Mkdir and OpenFile accept
a file as a parent, :45, :95); `DeletesRoot` false (a DELETE of `/` removes the
root's row for good); `RenameFailures` false (the finding below, which also leaves
blobs without rows). `Alike` is
empty there, since a LIKE match reaches into another directory.

A mishap of `s3_uploads` is a refused call, a lost answer, a client that goes
away or a restart, at any point. Two pieces are the least that are put together
(one is copied, none makes an empty object), and reading back, appending and
removing are the same for every further piece. Two requests are a writer and
whoever reads, moves, copies or removes what it writes; a restart between them
also leaves the second one the parts of the first. Three requests on a directory
with a file and another directory in it, without COPY, show nothing new for
`RemovedMeansGone` and `MovedIsNotLost`, which are also proved. In `accounts_logins` the hazards
need at most two requests at once and one that finds what they left: an update or
deletion beside a login, then a page or a WebDAV request. Two persons share a
subject with different providers, so that the provider matters; the person without
a row is an administrator by one of the two configurations, so that a restart
makes or unmakes one. The largest id exceeds the rows that three requests can
make. The requests are the seven of `Traffic` rather than all combinations, one of each
kind that differs in what it reads or writes: a read-write user's COPY and MOVE
are the methods whose refusal half way would leave something.

In `cor_races`, `disturbed` is set by

1. a step that falls in the middle of what another goroutine is doing on a path that
   is the same, above or below, one of them writing (`Race`);
2. a call on the backend that does part of its work and fails, which the code takes for
   one that did nothing (`HalfDone`);
3. a change that the cache refuses while the code drops the error, among them, with no
   fault anywhere, the rename into a directory that the cache has never seen (`Refused`);
4. a copy that is cut short (`CutShort`);
5. a restart while somebody stands between the two halves of a change or of a copy
   (`HalfWay`).

Each of them does make the cache keep or serve what the backend does not have, for
good: section 4 has a case of each but the fourth (a copy that an error cuts
short leaves what one cut by a restart does). Beyond the first
disturbance nothing is promised. What `cor_races` says is that nothing else makes the
cache wrong: calls that the backend refuses without doing part of them, errors of
the cache where the code looks at them, restarts at any other point, copies made on the
way, listings, and requests at once on unrelated paths or that only read.
What comes in between the two halves of a change by the same goroutine is not a
disturbance; the property leaves out the paths at which somebody is at work.

Fairness. `capped_sequential` checks `EveryRequestAnswered` under weak fairness
of each goroutine's `Step`: a goroutine that has a request is scheduled by the Go
runtime, and waits for a mutex that every holder releases, for the backend, which
answers, and, between two writes of a PUT, for its client. The last is an
assumption on clients: `http.Server` is given no ReadTimeout (cmd/main.go:73), so a client
that neither sends its body nor closes its connection keeps its request, and its
open handle, for ever. Nothing that a pass of `ensureSpace` waits for depends on it.
`s3_uploads` checks `PartsAreRemoved` under the same fairness and the same assumption
(with `Disconnect` for a client that goes away): every call on the store returns, if only
with an error. Issuing
requests, failing and restarting are not fair. No other property needs fairness.

Deadlock is checked everywhere; a behaviour that has used up its bounds may only
stutter (`BudgetSpent`) when every goroutine is idle, so a goroutine that could
not go on would be found.

## 4. Findings

* `capped_overwrite`: `ensureSpace` does not spare the file it makes room for.
* `cor_readers`: concurrent first reads of one file truncate each other's copy.
* `sqlite_rename`: `stmt, err :=` (sqlite/filesystem.go:305) hides the error from
  the savepoint, which commits half of a directory's rename.
* `s3_disconnect`: `cleanupPartsLocked` runs under the context of the request
  (s3/file.go:316), so a client that goes away leaves the parts in the bucket.

What else the models do that nobody would want, and no run states otherwise:

Capped. An upload counts towards the cap only once it is closed, and the cap is compared
with one chunk at a time (:560). A first scan that fails counts as done (:302), and
the files it missed are neither counted nor evicted until a request names them. An evictor
drops an entry by name after removing a file by name (:464-479): when another client has
created the file again in between, it is on disk and in no entry, and no eviction will
free it. This is why `capped_roomy` keeps the cap out of reach and `capped_concurrent`
checks the counter only. The counter is bounded from below: that scans and restarts count
files twice, and that entries of removed files stay, makes it too large (:131, :302, :326),
which evicts early and is not forbidden by any property.

Cor, with one client. The copier that Stat starts (:203) puts a file back in the cache
that the DELETE it was called for has removed. A MOVE to a directory the cache lacks
leaves the old name in the cache (:171). A RemoveAll that the backend carries out in
part and refuses leaves the cache as it was (:149). A copy cut short by a restart is
taken for the file (:252). In each case a later GET is served from the cache, for good;
TLC shows so when `ReadsReturnTheFile` is checked with one client and a DELETE, a MOVE
or a restart beside the GETs, and failing calls where the case needs them. Directories the cache has, the root always, are listed from
it and never from the backend (:72).

Seen in the model of sqlite and not claimed otherwise: an upload cut between
its two inserts leaves a file that can be opened, truncated and read as empty, and
that every later upload fails to store (`StoreFails`) until it is deleted; creations
of new files starve each other of connections (section 3); a directory whose name contains
`_` or `%`, or differs in case, takes the files of others with it when it is removed
(`Below`); a directory removed between the look at a new file's parent (:94) and the
insertion of its row (:111) leaves a file without a parent.

Seen in the model of s3: without `ForceDelete` a DELETE of a directory leaves what is
below its subdirectories (testsuite/recursive_directory.go:106 expects it gone),
since one level is listed and each entry removed under its own name; a directory
cannot be moved, as it has no object of its own, and a MOVE that is refused for
this has removed the destination before. A directory that holds nothing but
directories is not found (`statDir` looks one level deep for a date, util.go:107-143):
when a DELETE has seen it and another request takes its last entry before RemoveAll
looks again, RemoveAll has nothing to do, the DELETE is answered as done, and what is
deeper stays. The file is put together under its own name, so readers see, and
failures leave, prefixes of it. Part keys are not unique (file.go:126 says
"Generate a unique key"): a COPY of a directory writes the files below its
destination under a lock on the destination alone, so it may meet a PUT of one of
them (`mixed`), and the file may get pieces of both.

Seen in the models of accounts: a WebDAV request with a password keeps the
administrator's flag of its row, though the configuration has changed, until the
user's next login with a session; the rules of `auth.groups` in the configuration
are documented and never read; `err` keeps the last login's error, so a request
with a password may fail on it, and a login whose error another request
clears panics on a user that is nil (`CheckLogin`); the comment "Update the user
without groups" (admin/user.go:169) precedes a call that writes the groups back;
a user that is deleted while logged in gets a new row with the next request; two
updates of one user at once may leave the groups of both, or one group twice; of two
first logins of one user at once, one goes on with a name that no row has, since
lookup and completion of a row are two transactions (on_authenticated.go:62-108).

## 5. Proofs

**Capped.** The assumptions are those named in the modules: paths are non-empty
sequences, inodes are positive integers. Proved for every finite set of paths and
goroutines, every cap, initial tree and bound:

| theorem | property | if |
|---|---|---|
| `TypeCorrect` | `TypeOK` | |
| `CurSizeNeverBelowTracked` | `CurSizeCoversTracked` | |
| `FullIsTheLastResort` | `FullMeansNothingToEvict` | `OneThread` |
| `EveryFileIsTried` | `EveryVictimIsTried` | `OneThread` |
| `FilesStayRecorded` | `NoFileEscapes` | `OneDirectory`, `[]NothingEvicted` |
| `DiskIsRecorded` | `LedgerMatchesDisk` | `SoleClient` |
| `EvictionIsByAccess` | `EvictsLeastRecentlyAccessed`, an action property | `SoleClient` |

`OneThread`: one goroutine serves requests. `OneDirectory`: no path is below another,
the backend holds no file at first and the process is started once; any number of
goroutines. `NothingEvicted`: no victim is ever chosen, which the cap of `capped_roomy`
makes so. `SoleClient`: one goroutine, one form of name, a backend that is empty at
first, one start of the process, and a set of paths that holds what is above each. The
property needs each of them: a scan records files under their other name, and a second
goroutine makes the first record what is no longer so. `EvictionIsByAccess` and
`EveryFileIsTried` are theorems of `HistorySpec`, which is `Spec` with the histories of
`CappedRecency` beside it.

*Argument of the first two.* `CurSizeCoversTracked` is not inductive by itself: an update adds
and subtracts sizes, so entries must be typed, and what a step records is what a
goroutine noted steps ago. `IInv` adds `TypeOK` and, for each goroutine,
`ControlOK`: where it stands it has a name to record under, a victim chosen, an
open handle to write to, a scan that is not over. The first part of `CappedProofs` shows
of each critical section that it turns a sound ledger (typed, and curSize at least
the sum of the recorded sizes) into a sound one. A sum over a set of names is the
cardinality of a set of byte positions, which lets the library's theorems on
finite cardinalities do the arithmetic without induction over the set. The only
sections that need thought are those that delete and create entries in one go:
`ForgetSound` (a directory's entries) and `CarrySound` (a rename carries entries
to names that may be taken; the map from old to new names is injective on the
carried set). The module then goes through the actions, group by group
(`RequestKeeps`, `ScanStepKeeps`, `EvictionStepKeeps`, `PutStepKeeps`,
`ReadStepKeeps`, `TreeStepKeeps`), and `NextKeeps` combines them.

*`FullIsTheLastResort`.* `PassOK` adds what a pass of `ensureSpace` knows: unless a
removal failed, every name that could be evicted is still in the snapshot. One goroutine
makes no new candidates during its own pass. An empty snapshot therefore means that none
is left. `Tries` says the same of passes with failed removals: a name is in the snapshot
still, or was refused.

*`FilesStayRecorded`.* The lemmas say of each critical section which names it adds and
drops: `UntrackTreeMeans`, `RetargetTreeMeans` and `RetargetFileMeans` for the names that clients
use, `Grows` for those that drop none. `NInv` then says of every file on disk that it is
recorded or some goroutine still owes its entry (`Owes`): it has the file open for
writing, or it has renamed the file and not yet the entry. It is inductive because nobody else
can take the entry away in the meantime: what a goroutine is about to drop is gone from
the disk (`Gone`), and stays so since goroutines that change names hold locks on them
(`Claims`), which are disjoint. `StepTo` and `StepAt` tell which action brings a goroutine where,
and which takes it away; `StepBackend` which actions change names on disk at all.

*`DiskIsRecorded`.* The property says nothing of directories or of a goroutine at work,
and neither can be left out. `Tells` is what the entry of a path has to say, directories
included: without it a rename of a directory could not be told from that of a file whose
entry it resembles, and an entry below something that is no directory would be carried
along with it. `Records` asks it of all paths but those a goroutine has open for
writing (`Unsettled`), and of the ledger as it will be once the goroutine has
recorded what it has done on disk (`Due`): for the two critical sections of a
RemoveAll, Rename or Mkdir the proof therefore compares one operator of `Trees` with
one of `SizeLedger` (`RecordsRemoved`, `RecordsMovedTree`, `RecordsMovedFile`,
`RecordsMade`), and the later step changes nothing. The rest of `DInv` is
what is noted and used steps later: what a Stat has seen (`Looks`), which inode a handle
writes (`Stores`), which names a pass may delete (`Evicts`), and that the scan of an empty
backend records nothing (`Starts`). TLC checked `DInv` on the instance of
`capped_sequential` before it was proved.

*`EvictionIsByAccess`.* The stamps and the history are kept apart and change at different steps:
a PUT stamps with every chunk and is an access once it is closed, and a rename
reaches the history after the disk. `Orders` relates the two: of two recorded files, the
later still on disk, the one stamped earlier was accessed earlier. `Ordered` asks this of
the ledger as it will be (`Due`) and of the history as it will be (`Upcoming`), leaving out
the file whose access is not over (`Exempt`); of that one it says that it has the last stamp
when its access ends, which is what `OrdersAccessed` needs. A rename of a tree carries
the order along (`OrdersCarried`): each entry there is afterwards came from one name before it.
`Passes` says the same of the snapshot, which outlives the ledger it was taken from: entries
are dropped from it during the pass, and nothing else is accessed meanwhile. That the
snapshot has every file the property speaks of is `PassOK` and `DInv`.

**CopyOnRead.** Proved for all paths, initial trees, goroutines, copiers, methods, errors
of either side, restarts and bounds (`CopyOnReadAssumption`: what is above a path is a
path, what the backend holds at first is a tree, and no two of its files share an inode):

| theorem | property |
|---|---|
| `CopyOnReadTypes` | `TypeOK` |
| `UndisturbedCacheIsCurrent` | `CachedIsCurrent` |
| `UndisturbedReads` | `UndisturbedReadsAreTrue` |

*Argument.* `IInv` adds to the types that both sides are trees and, for each label, what a
goroutine's record holds there (`Fits`); it is kept by every step, disturbed or not.
`CachedIsCurrent` says nothing of the paths at which somebody works, so it cannot be
inductive: the work ends. `Settled` says more. `Excluded`: nobody works at, above or below a path
that somebody else is writing. `Knows`: where a goroutine stands, what its calls have told it
still holds: the handle on the backend is the file's, the copy in hand is what the file
holds, the file just created is empty, a rename done on the backend left at the
destination what the cache still has at the source. A call on the
backend that fails has changed nothing, or is `HalfDone`. And every path at which the cache
is not current is owed by a goroutine that is about to set it right (`Owes`): one that
copies to it, or is between its call on the backend and the one on the cache.

Each action has a lemma that says how it comes out (`Outcome`): what its goroutine's record
becomes, that it touched only its own paths (`Frame`), what it knows now, and that what it
owed is paid, or still owed (`Meets`). `Settles` shows once that this keeps `Settled`:
others know what they knew (`KnowsKept`), since a step that touched their paths
would have been a race. That a rename of the cache pays for both subtrees
rests on `RenamedFrom`: what is at or below the destination afterwards came from one
path at or below the source.

The attempt found `CachedIsCurrent` false as first stated, on trees the run does not have: one
client asks to MOVE `a` to `e/a` and finds nothing there; another MOVEs a directory with a
cached `a` to `e`; then the first renames, on the backend over the file at `e/a`, while
the cache, which has no `a` to rename, keeps the old file there, and the error is dropped.
`Refused` now counts such a rename. TLC confirmed it, and the inductive invariant, on a tree of
five paths.

**SQLiteFiles.** Proved for all paths, names that match each other (`Alike`),
goroutines, initial rows, sizes of the pool and bounds (`SQLiteAssumption`,
`PathsAreSequences`):

| theorem | property |
|---|---|
| `TypeCorrect` | `TypeOK` |
| `NothingElseTears` | `OnlyKnownTears`, an action property |
| `OnlyCreationsStarve` | `PoolStarvesOnlyByCreations`, for any size of the pool and number of goroutines |
| `NoBlobAlone` | `BlobsHaveRows`, if `OneClient` |
| `ImplementsTree` | `TreeIsAtomic`: the tables implement `AtomicTree`, if `OneClient` |

*Argument.* A step tears if sizes were within the blobs before it and are not
after it. `IInv` adds to the types that what has no row has no size: a rename would
carry such a size to a name with a shorter blob. One lemma per action shows that
it keeps the tables typed and does not tear, or that it is one of the two steps
`OnlyKnownTears` names; what a rename leaves in a row is the row of one
source or nothing (`RekeyedValues`), and `RenameFileKeeps` follows the one row that
moves, whose name must be free in both tables for the statements to succeed.
`OnlyCreationsStarve` counts. Who holds two connections, or one that it needs no other
beside, goes on. If nobody does, everybody who holds one is a creation that waits for
its second (`Creating`): `Fine` says that a record marked `created` stands in OpenFile or
in the truncation it calls. `Apart` says that requests at work have different names, which
the handler's locks see to. So the connections in use are in one-to-one correspondence
with the names of the files being created (`OneEach`), and there are `PoolSize` of them.

*The refinement.* `OneClient` names the assumptions of `sqlite_sequential` (section 3)
for any paths and folders: one goroutine; no LIKE matches; nobody removes the root; no
failing statement in a rename; everything above a path is in `Folder`, moving a directory keeps
files files and directories directories, and the initial rows are a tree that respects it.
Requests may be cut off and the process restarted anywhere. The invariant `SInv` adds to
`IInv` that the rows form a tree and blobs belong to files (`Shape`), and that
what the request at work has learnt still holds where it is used (`PlacedAs`): what
Stat saw absent is absent when the row is inserted, `dir` is the kind of the row that
RemoveAll or Rename then takes. Each action is shown to keep `Shape` and to be one step of
`AtomicTree`, or none that is seen (`Good`). Most write one row (`MakesDir`, `MakesFile`,
`StoresFile`); a removal without LIKE matches is exactly what is below
(`LikeIsUnder`). Both renames make of the tables what `Moved` says, from which
`MovedShape` and `MovedSeen` show once that the tree stays one and that it
is `AtomicTree`'s Rename; `NeverCut` shows that nothing stands in a rename's way. `AtomicTree`
refuses to move a directory below itself, which the code does not check; `NotIntoItself` shows
that it cannot be asked to when the paths are finitely many, since the names below would
be mapped one to one to themselves but one. The facts about paths (`TreesProofs`) come from
the library's theorems on sequences.

**S3Files.** Proved for all paths, goroutines, methods, bodies, initial files, numbers
of failed and lost calls, clients that go away, restarts and bounds
(`S3Assumption`, `PrefixesArePaths`):

| theorem | property |
|---|---|
| `TypeCorrect` | `TypeOK` |
| `FilesAreOfOneUpload` | `FilesComeFromOneUpload` |
| `StoredIsWhole` | `AnsweredMeansWhole` |
| `RemovedIsGone` | `RemovedMeansGone`, if `ForceDelete` |
| `MovesKeep` | `MovedIsNotLost`, an action property |

*Argument.* Each of these speaks of what a request finds or is answered many calls after
the ones that matter, so `IInv` says how far every request is. `Controlled`: where a
goroutine stands says which method it serves (`Serves`), how many parts it has stored and
put together (`Progress`), and what the log has of it. `Acquainted`: a request knows the
requests it runs beside, or they come later, which is what makes a change by another
count as `Disturbed`. `Alone`: two uploads of one file mark it `mixed`. Then, per
goroutine, `Uploads`: the parts stored so far, the file while it is put together and the
bytes read back are the beginning of one body, or the file is gone; `Stores`: an upload
without an error that is still the file's last author has the whole body there;
`Removes`: what a DELETE has still to remove, and nobody disturbed, is below an entry it
still has in hand; `Moves`: the copy of a MOVE is there before the source goes.

`Lawful` says what a step of one goroutine may do to the others: write only
the file it uploads or moves to, erase, mark, and answer what is so. `LawfulKeeps`
shows once that such a step preserves `IInv`: an object another
goroutine relies on is untouched, erased (which no promise forbids), or disturbed. One lemma per
action shows that the action is lawful. `ChildCarries` and `ListedCovers` are the facts
about paths: what is below a directory goes where the directory goes, and is an entry
or below one.

The attempt to prove `RemovedMeansGone` found it false as first stated, on trees with
a file beside a directory that holds another, which the run does not have; the
answer "unseen" in `log` comes from this.

**Accounts.** Proved for all persons, configurations, requests, initial rows and
groups, numbers of goroutines and bounds (`AccountsAssumption`, by which no two initial
rows are one person's: `UNIQUE (subject, provider)`, store/user.go:36):

| theorem | property |
|---|---|
| `TypeCorrect` | `TypeOK`: types, and whoever is served has the id of a row |
| `DenialsChangeNothing` | `DeniedChangesNothing` |
| `OnlyConfiguredAdministrate` | `AdministratorsAreConfigured` |
| `GroupsAreNotInherited` | `GroupsAreGiven` |
| `WritesAreToTheirUser` | `WritesReachTheirUser`, an action property |
| `GroupsStayAsSet` | `GroupsAreAsSet` |
| `NamesStayShown` | `ShownNamesWork` |

*Argument of the first five.* None of the four invariants is inductive. `IInv` adds what a request
relies on where it stands (`Fits`): the kinds that reach each label, and that a
request which has changed a file is still at its calls with a copy of its user
that may write, so that `WritersMayAll` lets every later call through. `Configured` says
that a request that has been found to administer, or will be, is of somebody in
`admins`, which only a restart changes and which ends every request. `Owned` says
that the row a request holds the id of is its user's unless the request is in
`orphans`: an id changes hands only through a deletion, which records who held it.
`Recorded` ties the history to the requests at work, which `GroupsAreGiven` needs
to name the update that gave a group. `Kept` shows once that any step of one
goroutine that respects these (`Advances`, `TablesKept`, `RestKept`) preserves
`IInv`; one lemma per action shows that the action is such a step; `NextKeeps`
combines them. `OneWrites` says which steps write rows and whose they are, from
which the action property follows with `Owned`.

*Argument of the last two.* They compare tables with what a request left in the
history, any number of requests ago. `HInv` adds what the requests at work know of it.
For the groups (`Setting`): the form is whole until the groups are deleted, and then the
row has exactly the groups that are no longer in it, as long as no statement failed and
the update is the only one that sets them (`Sole`). For the names: a request holds the name of
its user's row (`Named`), and a request that comes after a page and is still to
complete the row holds the name the page showed (`Later`), so it does not draw another.
Both need that a person has one row (`Unique`), which the lookup and the insertion in one
transaction give, and that a request at work overlaps with all that begin after it
(`LaterOverlaps`): what it does to somebody's row is done to an orphan's or beside a
request of the same person, which `ShownNamesWork` leaves out (`CleanRow`). `SoleKept`,
`ShownRow` and `OthersKept` say what any step of one goroutine leaves to the others
(`HistoryKept`); one lemma per action, ending in `Tells`, shows that the action is such a step.

Only model-checked: `EveryRequestAnswered` and `PartsAreRemoved`, which as liveness
properties are out of the prover's reach, and the violation runs of
section 4, which are counterexamples.

## 6. What is not modelled

* Of capped: requests that name a directory with a trailing slash, COPY,
  `Overwrite: F`, a RemoveAll of the operating system that removes only part of a
  tree (the ledger then keeps entries of what is gone), a failing fstat of an open
  file in File.Close (:503; the size would not be recorded), writes to a handle from elsewhere than its end, the nil context that
  File.Write passes on (:562), access times taken within one clock tick.
* Of cor: bytes in chunks, so a reader sees a file empty, whole or as a failed Write
  left it, never as one in progress has it; a call on a cache or backend other than a
  local directory; COPY; the same directory behind cache and backend.
* Calls of the explorer on the file systems are covered by GET and PROPFIND.
* Of s3: a body that ends early while its context is intact, DELETE of the root,
  `Overwrite: F`, the paging of listings, Seek, sizes and dates. What becomes of files
  that two requests upload at once is modelled, and left out of the properties (`mixed`).
* Of authorisation: rules other than the store's own, which an operator would write
  into the database, with their paths and run-time errors; the cache of compiled
  rules, whose entries are determined by their key.
* Of accounts: the OAuth2 exchange, sessions and cookies, that all requests of one
  person come with the same email and nickname, `connected_at` other than that it may or may not be
  written, the pages that only read, a form that names a group twice (the
  page has one checkbox for each; the handler would insert the row twice), a torn value of the `err` that goroutines assign
  without a lock (it is an error or none), migrations.
* The rate limiter: one LoadOrStore on a sync.Map, with the token bucket in
  golang.org/x/time/rate. It runs behind authentication, so the case in which it
  goes on after an error does not arise.
* Of sqlite: the rename of a directory whose path occurs again further down a name
  that LIKE gives with it (`Clear`): strings.Replace (:325) rewrites the first occurrence,
  so MOVE /a to /b takes /A/a to /A/b, and /A/ab to /A/bb; names are atoms here, so
  none begins with another; COPY; Read, Seek and Readdir, which change nothing; times and modes; bytes
  of a blob beyond their number; a directory moved below itself, which needs
  paths of any length; the contention between connections that SQLite answers
  with SQLITE_BUSY, which is one of the failures of `GivesUp`.
* Configuration, wiring, templates, logging and start-up: sequential input and
  output before the server listens.

## 7. Plan

Every invariant and action property that a run checks is also a theorem. What is left is
to ask more of the code:

1. `NoFileEscapes` while files are evicted: which of a goroutine's steps would have to be
   one critical section for it to hold with several clients.
2. COPY, which the handler makes of the calls modelled for PUT and MKCOL.
3. The cap while a file is being written (the hazard at :560): a bound on what
   lies on disk in terms of the number of goroutines and the length of their bodies.
