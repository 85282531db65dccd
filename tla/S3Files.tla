------------------------------ MODULE S3Files ------------------------------
(***************************************************************************)
(* pkg/webdav/filesystem/s3: a webdav.FileSystem over the objects of a     *)
(* bucket.  A file is an object; a directory is the objects below its      *)
(* name, or the object .keepdir that Mkdir puts there.  An upload goes     *)
(* through a buffer: each time it is full it becomes an object of its own, *)
(* a part, and Close makes the file of the parts and removes them.         *)
(*                                                                         *)
(* A step is one call on the store, and each may fail: it is refused, or   *)
(* it is done and only its answer is lost.  A client that goes away        *)
(* cancels the context of every later call of its request.  Threads serve  *)
(* requests the way webdav.Handler does (external).  A piece of a body is  *)
(* what fills the buffer once.                                             *)
(***************************************************************************)
EXTENDS Trees

CONSTANTS
    Thread,         \* goroutines serving requests
    Folder,         \* the paths that clients use for directories
    Method,         \* the methods clients use
    ForceDelete,    \* whether the store removes what is below a key as well
    MaxPieces,      \* bound: pieces of a body
    MaxRequests,    \* bound: requests issued altogether
    MaxMishaps,     \* bound: failed calls, clients that go away, restarts
    InitialFiles,   \* the files there are at first, of one piece each
    InitialKeeps    \* the directories that Mkdir made before

ASSUME S3Assumption ==
    /\ IsFiniteSet(Thread) /\ Folder \subseteq Path
    /\ Method \subseteq {"PUT", "MKCOL", "DELETE", "MOVE", "COPY"}
    /\ ForceDelete \in BOOLEAN
    /\ MaxPieces \in Nat \ {0} /\ MaxRequests \in Nat /\ MaxMishaps \in Nat
    /\ InitialFiles \subseteq Path \ Folder /\ InitialKeeps \subseteq Folder

ASSUME PrefixesArePaths == \A p \in Path : \A n \in 1 .. Len(p) : SubSeq(p, 1, n) \in Path

VARIABLES
    object,  \* the files of the bucket: their pieces, or Gone
    keep,    \* the directories with a .keepdir
    parts,   \* the part objects: of which file, their number, their piece
    th,      \* what each goroutine is doing
    used,    \* how much of each bound is used up
    author,  \* history: the request that last changed each file
    mixed,   \* history: files that two writers wrote at the same time
    leaky,   \* history: a part could not be told of, or not removed
    log      \* history: the requests, and what they were answered, "unseen"
             \*   for a removal that was told there is nothing to remove
             \*   though only something deeper than its own entries is left

store == <<object, keep, parts>>
history == <<author, mixed, leaky, log>>
vars == <<object, keep, parts, th, used, author, mixed, leaky, log>>

-----------------------------------------------------------------------------
(* The bucket                                                              *)
-----------------------------------------------------------------------------
Piece == (0 .. MaxRequests) \X (0 .. MaxPieces)
NoPiece == <<0, 0>>
Gone == <<NoPiece>>
Body(r, n) == [i \in 1 .. n |-> <<r, i>>]

There(p) == object[p] # Gone

(* A directory is listed without what is below its subdirectories, and a   *)
(* prefix has no date: one that holds nothing but directories is not seen. *)
Kind(p) ==
    CASE There(p) -> "file"
      [] ~There(p) /\ (p \in keep \/ \E q \in Path : Parent(q) = p /\ There(q)) -> "dir"
      [] OTHER -> "none"

Listed(d) ==
    { q \in Path : /\ Parent(q) = d
                   /\ \/ There(q) \/ q \in keep
                      \/ \E b \in Path : IsUnder(b, q) /\ (There(b) \/ b \in keep) }

Hides(d) == \E q \in Path : IsUnder(q, d) /\ There(q)

Part(p, n) == { x \in parts : x.of = p /\ x.number = n }

-----------------------------------------------------------------------------
(* Requests and calls                                                      *)
-----------------------------------------------------------------------------
Label == {"idle", "stat", "rmstat", "rmlist", "rmkeep", "rm", "mkcol", "dst", "mvcopy", "mvremove",
          "src", "mkdir", "list", "read",
          "put", "empty", "copy", "readdest", "readpart", "append", "clean", "check"}
Uploading == {"put", "empty", "copy", "readdest", "readpart", "append"}

Local == [pc : Label, method : Method \cup {"none"}, req : 0 .. MaxRequests,
          name : Path \cup {Root}, to : Path \cup {Root}, locks : SUBSET Path,
          body : Seq(Piece),                \* what is being uploaded
          stored : Nat,                     \* len(partKeys)
          at : Nat,                         \* the part being appended or removed
          combined : Seq(Piece),
          dir : BOOLEAN,                    \* info.IsDir() of COPY's source
          todo : SUBSET Path,               \* what RemoveAll has still to remove
          jobs : SUBSET (Path \X Path),     \* what COPY has still to copy
          failed : BOOLEAN,                 \* an error will be answered
          gone : BOOLEAN]                   \* the context is cancelled

Idle == [pc |-> "idle", method |-> "none", req |-> 0, name |-> Root, to |-> Root,
         locks |-> {}, body |-> << >>, stored |-> 0, at |-> 0, combined |-> << >>,
         dir |-> FALSE, todo |-> {}, jobs |-> {}, failed |-> FALSE, gone |-> FALSE]

Become(t, r) == th' = [th EXCEPT ![t] = r]
Goto(t, label) == Become(t, [th[t] EXCEPT !.pc = label])
Answered(t, answer) ==
    /\ Become(t, Idle)
    /\ log' = [log EXCEPT ![th[t].req].answer = answer]

Mishap == used.faults + used.disconnects + used.restarts < MaxMishaps

Outcome(t) ==
    IF th[t].gone THEN {"refused"}
    ELSE {"ok"} \cup (IF Mishap THEN {"refused", "lost"} ELSE {})

(* A call that only reads has no answer to lose.                           *)
ReadOutcome(t) == Outcome(t) \ {"lost"}

Spend(t, outcome) ==
    used' = IF outcome = "ok" \/ th[t].gone THEN used ELSE [used EXCEPT !.faults = @ + 1]

Write(p, content, r) ==
    /\ object' = [object EXCEPT ![p] = content]
    /\ author' = [author EXCEPT ![p] = r]

(* RemoveObject with ForceDelete set.                                      *)
\* Mutant of Removed: without ForceDelete.
RemovedAlone(p) == {p}
Removed(p) == { q \in Path : q = p \/ (ForceDelete /\ IsUnder(q, p)) }
WithoutObjects(S, r) ==
    /\ object' = [q \in Path |-> IF q \in S THEN Gone ELSE object[q]]
    /\ author' = [q \in Path |-> IF q \in S /\ There(q) THEN r ELSE author[q]]

Writers(p, t) == { u \in Thread \ {t} : th[u].pc \in Uploading /\ th[u].to = p }

-----------------------------------------------------------------------------
(* webdav.Handler's requests (external)                                    *)
-----------------------------------------------------------------------------
Held == UNION { th[t].locks : t \in Thread }
Busy == { th[t].req : t \in { u \in Thread : th[u].pc # "idle" } }
NewRequest == used.requests + 1

Issue(t, request, dest) ==
    /\ th[t].pc = "idle"
    /\ used.requests < MaxRequests
    /\ request.locks \cap Held = {}
    /\ used' = [used EXCEPT !.requests = NewRequest]
    /\ Become(t, [request EXCEPT !.req = NewRequest])
    /\ log' = [log EXCEPT ![NewRequest] = [answer |-> "none", method |-> request.method,
                                      on |-> dest, body |-> request.body, beside |-> Busy]]
    /\ mixed' = IF request.method = "PUT" /\ Writers(dest, t) # {}
                THEN mixed \cup {dest} ELSE mixed
    /\ UNCHANGED <<store, author, leaky>>

First(n) == IF n = 0 THEN "empty" ELSE "put"
Call == [DELETE |-> "stat", MKCOL |-> "mkcol", MOVE |-> "dst", COPY |-> "src"]

IssuePut(t) ==
    \E p \in Path \ Folder, n \in 0 .. MaxPieces :
        /\ "PUT" \in Method
        /\ Issue(t, [Idle EXCEPT !.pc = First(n), !.method = "PUT", !.name = p, !.to = p,
                                 !.locks = {p}, !.body = Body(NewRequest, n)], p)

IssueOne(t) ==
    \E method \in Method \cap {"MKCOL", "DELETE"}, p \in Path :
        /\ method = "MKCOL" => p \in Folder
        /\ Issue(t, [Idle EXCEPT !.pc = Call[method], !.method = method,
                                 !.name = p, !.to = p, !.locks = {p}], p)

IssueTwo(t) ==
    \E method \in Method \cap {"MOVE", "COPY"}, src, dst \in Path :
        /\ Movable(src, dst) /\ ~IsUnder(dst, src) /\ ~IsUnder(src, dst)
        /\ src \in Folder <=> dst \in Folder
        /\ Issue(t, [Idle EXCEPT !.pc = Call[method], !.method = method,
                                 !.name = src, !.to = dst,
                                 !.locks = IF method = "MOVE" THEN {src, dst} ELSE {dst}], dst)

(* A client goes away: the server cancels the context of its request.      *)
Disconnect(t) ==
    /\ th[t].pc # "idle" /\ ~th[t].gone
    /\ Mishap
    /\ used' = [used EXCEPT !.disconnects = @ + 1]
    /\ Become(t, [th[t] EXCEPT !.gone = TRUE])
    /\ UNCHANGED <<store, history>>

-----------------------------------------------------------------------------
(* streamingBuffer: Write, Close                                           *)
-----------------------------------------------------------------------------
(* After streamingBuffer.Close: PUT asks for the file's Stat, COPY goes on *)
(* with the next file of a directory, in the order of names.               *)
NextJob(t, r) ==
    \/ r.jobs = {} /\ Answered(t, "ok")
    \/ /\ \E job \in r.jobs :
              Become(t, [Idle EXCEPT !.pc = "src", !.method = "COPY", !.req = r.req,
                                     !.name = job[1], !.to = job[2], !.locks = r.locks,
                                     !.jobs = r.jobs \ {job}, !.gone = r.gone])
       /\ log' = log

\* Mutant of Closed: the second Close, which answers nil, has the last word.
ClosedTwice(t, r) ==
    IF r.method = "PUT" THEN Become(t, [r EXCEPT !.pc = "check"]) /\ log' = log
    ELSE IF r.failed THEN Answered(t, "failed") ELSE NextJob(t, r)

Closed(t, r) ==
    CASE r.failed -> Answered(t, "failed")
      [] ~r.failed /\ r.method = "PUT" -> Become(t, [r EXCEPT !.pc = "check"]) /\ log' = log
      [] ~r.failed /\ r.method = "COPY" -> NextJob(t, r)

(* cleanupPartsLocked has nothing to do if no part was stored.             *)
CleanUp(t, r) ==
    IF r.stored = 0 THEN Closed(t, r)
    ELSE Become(t, [r EXCEPT !.pc = "clean", !.at = 0]) /\ log' = log

\* Mutant of Fails: an error of Close returns at once.
FailsAtOnce(t) == Closed(t, [th[t] EXCEPT !.failed = TRUE])
Fails(t) == CleanUp(t, [th[t] EXCEPT !.failed = TRUE])
GoesOn(t, r) == Become(t, r) /\ log' = log

(* flushBufferLocked, from Write or from Close.                            *)
PutPart(t) ==
    LET r == th[t]
        part == [of |-> r.to, number |-> r.stored, piece |-> r.body[r.stored + 1]]
    IN  /\ r.pc = "put"
        /\ \E outcome \in Outcome(t) :
            /\ parts' = IF outcome = "refused" THEN parts
                        ELSE (parts \ Part(r.to, r.stored)) \cup {part}
            /\ IF outcome = "ok"
               THEN GoesOn(t, [r EXCEPT !.stored = @ + 1,
                                        !.pc = IF r.stored + 1 < Len(r.body) THEN "put" ELSE "copy"])
               ELSE Fails(t)
            /\ leaky' = (leaky \/ outcome = "lost")
            /\ Spend(t, outcome)
        /\ UNCHANGED <<object, keep, author, mixed>>

(* A call of Close that writes the file.                                   *)
Compose(t, content, next) ==
    \E outcome \in Outcome(t) :
        /\ IF outcome = "refused" THEN UNCHANGED <<object, author>>
           ELSE Write(th[t].to, content, th[t].req)
        /\ IF outcome = "ok" THEN next ELSE Fails(t)
        /\ Spend(t, outcome)
        /\ UNCHANGED <<keep, parts, mixed, leaky>>

NoSuchKey(t) ==
    /\ Fails(t)
    /\ UNCHANGED <<store, used, author, mixed, leaky>>

PutEmpty(t) ==
    th[t].pc = "empty" /\ Compose(t, << >>, CleanUp(t, th[t]))

AfterPiece(r) ==
    IF r.at + 1 < r.stored THEN [r EXCEPT !.pc = "readdest", !.at = @ + 1]
    ELSE [r EXCEPT !.pc = "clean", !.at = 0]

CopyFirstPart(t) ==
    LET first == Part(th[t].to, 0)
    IN  /\ th[t].pc = "copy"
        /\ \/ first = {} /\ NoSuchKey(t)
           \/ \E part \in first :
                 Compose(t, <<part.piece>>, GoesOn(t, AfterPiece(th[t])))

ReadCall(t, next) ==
    \E outcome \in ReadOutcome(t) :
        /\ IF outcome = "ok" THEN next ELSE Fails(t)
        /\ Spend(t, outcome)
        /\ UNCHANGED <<store, author, mixed, leaky>>

ReadDest(t) ==
    /\ th[t].pc = "readdest"
    /\ \/ ~There(th[t].to) /\ NoSuchKey(t)
       \/ /\ There(th[t].to)
          /\ ReadCall(t, GoesOn(t, [th[t] EXCEPT !.pc = "readpart", !.combined = object[th[t].to]]))

\* Mutant of ReadPart: the part is read before the destination.
ReadPartFirst(t) ==
    /\ th[t].pc = "readpart"
    /\ \E x \in Part(th[t].to, th[t].at) :
          ReadCall(t, GoesOn(t, [th[t] EXCEPT !.pc = "append", !.combined = <<x.piece>> \o @]))

ReadPart(t) ==
    LET part == Part(th[t].to, th[t].at)
    IN  /\ th[t].pc = "readpart"
        /\ \/ part = {} /\ NoSuchKey(t)
           \/ \E x \in part :
                 ReadCall(t, GoesOn(t, [th[t] EXCEPT !.pc = "append",
                                                     !.combined = Append(@, x.piece)]))

PutCombined(t) ==
    /\ th[t].pc = "append"
    /\ Compose(t, th[t].combined, GoesOn(t, [AfterPiece(th[t]) EXCEPT !.combined = << >>]))

\* Mutant of RemovePart: the loop runs once too often.
RemovePartTwice(t) ==
    LET r == th[t]
        after == [r EXCEPT !.at = @ + 1]
    IN  /\ r.pc = "clean"
        /\ parts' = parts \ Part(r.to, r.at)
        /\ IF after.at <= r.stored THEN GoesOn(t, after) ELSE Closed(t, after)
        /\ UNCHANGED <<object, keep, used, author, mixed, leaky>>

(* One turn of cleanupPartsLocked's loop, which goes on after an error.    *)
RemovePart(t) ==
    LET r == th[t]
        part == Part(r.to, r.at)
    IN  /\ r.pc = "clean"
        /\ \E outcome \in Outcome(t) :
            LET after == [r EXCEPT !.at = @ + 1, !.failed = @ \/ outcome # "ok"]
            IN  /\ parts' = IF outcome = "refused" THEN parts ELSE parts \ part
                /\ IF after.at < r.stored THEN GoesOn(t, after) ELSE Closed(t, after)
                /\ leaky' = (leaky \/ (outcome = "refused" /\ part # {}))
                /\ Spend(t, outcome)
        /\ UNCHANGED <<object, keep, author, mixed>>

(* File.Stat for a PUT, and its answer.                                    *)
StatStored(t) ==
    /\ th[t].pc = "check"
    /\ \E outcome \in ReadOutcome(t) :
        /\ Answered(t, IF outcome = "ok" /\ Kind(th[t].to) # "none" THEN "ok" ELSE "failed")
        /\ Spend(t, outcome)
    /\ UNCHANGED <<store, author, mixed, leaky>>

-----------------------------------------------------------------------------
(* Mkdir, RemoveAll, Rename                                                *)
-----------------------------------------------------------------------------
Refuse(t) == Answered(t, "failed")

Mkdir(t) ==
    /\ th[t].pc \in {"mkcol", "mkdir"}
    /\ \E outcome \in Outcome(t) :
        /\ keep' = IF outcome = "refused" THEN keep ELSE keep \cup {th[t].to}
        /\ IF outcome # "ok" THEN Refuse(t)
           ELSE IF th[t].pc = "mkcol" THEN Answered(t, "ok")
           ELSE GoesOn(t, [th[t] EXCEPT !.pc = "list"])
        /\ Spend(t, outcome)
    /\ UNCHANGED <<object, parts, author, mixed, leaky>>

(* What follows RemoveAll.                                                 *)
Cleared(t) ==
    CASE th[t].method = "DELETE" -> Answered(t, "ok")
      [] th[t].method = "MOVE" -> GoesOn(t, [th[t] EXCEPT !.pc = "mvcopy", !.todo = {}])
      [] th[t].method = "COPY" ->
            GoesOn(t, [th[t] EXCEPT !.pc = IF th[t].dir THEN "mkdir" ELSE "read", !.todo = {}])

Look(t, label, found) ==
    /\ th[t].pc = label
    /\ \E outcome \in ReadOutcome(t) :
        /\ IF outcome = "ok" THEN found ELSE Refuse(t)
        /\ Spend(t, outcome)
    /\ UNCHANGED <<store, author, mixed, leaky>>

Asks(t, label) == GoesOn(t, [th[t] EXCEPT !.pc = label])

StatDeleted(t) ==
    Look(t, "stat", IF Kind(th[t].to) = "none" THEN Refuse(t) ELSE Asks(t, "rmstat"))

StatDestination(t) ==
    Look(t, "dst", IF Kind(th[t].to) = "none" THEN Cleared(t) ELSE Asks(t, "rmstat"))

StatRemoved(t) ==
    Look(t, "rmstat",
         CASE Kind(th[t].to) = "none" ->
                 IF th[t].method = "DELETE" /\ Hides(th[t].to) THEN Answered(t, "unseen")
                 ELSE Cleared(t)
           [] Kind(th[t].to) = "file" -> GoesOn(t, [th[t] EXCEPT !.pc = "rm", !.todo = {th[t].to}])
           [] Kind(th[t].to) = "dir" -> Asks(t, "rmlist"))

ListRemoved(t) ==
    LET listed == Listed(th[t].to)
        kept == th[t].to \in keep
    IN  Look(t, "rmlist",
             IF listed = {} /\ ~kept THEN Cleared(t)
             ELSE GoesOn(t, [th[t] EXCEPT !.pc = IF kept THEN "rmkeep" ELSE "rm",
                                          !.todo = listed]))

RemoveKeep(t) ==
    /\ th[t].pc = "rmkeep"
    /\ \E outcome \in Outcome(t) :
        /\ keep' = IF outcome = "refused" THEN keep ELSE keep \ {th[t].to}
        /\ IF outcome # "ok" THEN Refuse(t)
           ELSE IF th[t].todo = {} THEN Cleared(t) ELSE Asks(t, "rm")
        /\ Spend(t, outcome)
    /\ UNCHANGED <<object, parts, author, mixed, leaky>>

(* An entry is removed under its own name, a subdirectory's too.           *)
RemoveEntry(t) ==
    /\ th[t].pc = "rm"
    /\ \E entry \in th[t].todo, outcome \in Outcome(t) :
        /\ IF outcome = "refused" THEN UNCHANGED <<object, keep, author>>
           ELSE /\ WithoutObjects(Removed(entry), th[t].req)
                /\ keep' = IF ForceDelete THEN keep \ Removed(entry) ELSE keep
        /\ IF outcome # "ok" THEN Refuse(t)
           ELSE IF th[t].todo = {entry} THEN Cleared(t)
           ELSE GoesOn(t, [th[t] EXCEPT !.todo = @ \ {entry}])
        /\ Spend(t, outcome)
    /\ UNCHANGED <<parts, mixed, leaky>>

\* Mutant of RenameCopy: an error of the copy is not looked at.
RenameCopyBlind(t) ==
    /\ th[t].pc = "mvcopy"
    /\ \E outcome \in Outcome(t) :
        /\ IF outcome = "refused" THEN UNCHANGED <<object, author>>
           ELSE Write(th[t].to, object[th[t].name], th[t].req)
        /\ Asks(t, "mvremove")
        /\ Spend(t, outcome)
    /\ UNCHANGED <<keep, parts, mixed, leaky>>

(* One object: a directory has none, and is refused.                       *)
RenameCopy(t) ==
    LET src == th[t].name
        dst == th[t].to
    IN  /\ th[t].pc = "mvcopy"
        /\ \/ ~There(src) /\ Refuse(t) /\ UNCHANGED <<store, used, author, mixed, leaky>>
           \/ /\ There(src)
              /\ \E outcome \in Outcome(t) :
                  /\ IF outcome = "refused" THEN UNCHANGED <<object, author>>
                     ELSE Write(dst, object[src], th[t].req)
                  /\ IF outcome = "ok" THEN Asks(t, "mvremove") ELSE Refuse(t)
                  /\ mixed' = IF src \in mixed \/ Writers(dst, t) # {}
                              THEN mixed \cup {dst} ELSE mixed
                  /\ Spend(t, outcome)
              /\ UNCHANGED <<keep, parts, leaky>>

RenameRemove(t) ==
    /\ th[t].pc = "mvremove"
    /\ \E outcome \in Outcome(t) :
        /\ IF outcome = "refused" THEN UNCHANGED <<object, keep, author>>
           ELSE /\ WithoutObjects(Removed(th[t].name), th[t].req)
                /\ keep' = IF ForceDelete THEN keep \ Removed(th[t].name) ELSE keep
        /\ IF outcome = "ok" THEN Answered(t, "ok") ELSE Refuse(t)
        /\ Spend(t, outcome)
    /\ UNCHANGED <<parts, mixed, leaky>>

-----------------------------------------------------------------------------
(* COPY, file by file                                                      *)
-----------------------------------------------------------------------------
StatSource(t) ==
    Look(t, "src", IF Kind(th[t].name) = "none" THEN Refuse(t)
                   ELSE GoesOn(t, [th[t] EXCEPT !.pc = "dst", !.dir = (Kind(th[t].name) = "dir")]))

ListSource(t) ==
    Look(t, "list",
         NextJob(t, [th[t] EXCEPT !.jobs =
                        @ \cup { <<q, Rebase(q, th[t].name, th[t].to)>> : q \in Listed(th[t].name) }]))

(* A source that cannot be read to its end is stored as far as it was.     *)
ReadSource(t) ==
    LET r == th[t]
        begin(body, failed) ==
            GoesOn(t, [r EXCEPT !.pc = First(Len(body)), !.body = body, !.failed = failed])
    IN  /\ r.pc = "read"
        /\ \E outcome \in ReadOutcome(t) :
            /\ IF ~There(r.name) THEN begin(<< >>, TRUE)
               ELSE IF outcome = "ok" THEN begin(object[r.name], FALSE)
               ELSE \E n \in 0 .. Len(object[r.name]) : begin(SubSeq(object[r.name], 1, n), TRUE)
            /\ Spend(t, outcome)
        /\ mixed' = IF r.name \in mixed \/ Writers(r.to, t) # {} THEN mixed \cup {r.to} ELSE mixed
        /\ UNCHANGED <<store, author, leaky>>

-----------------------------------------------------------------------------
(* The process dies: what is in the bucket stays.                          *)
Restart ==
    /\ Mishap
    /\ used' = [used EXCEPT !.restarts = @ + 1]
    /\ th' = [t \in Thread |-> Idle]
    /\ leaky' = (leaky \/ parts # {})
    /\ UNCHANGED <<store, author, mixed, log>>

BudgetSpent ==
    /\ used.requests = MaxRequests /\ \A t \in Thread : th[t].pc = "idle"
    /\ UNCHANGED vars

-----------------------------------------------------------------------------
NoRequest == [answer |-> "none", method |-> "none", on |-> Root, body |-> << >>, beside |-> {}]

Init ==
    /\ object = [p \in Path |-> IF p \in InitialFiles THEN << <<0, 1>> >> ELSE Gone]
    /\ keep = InitialKeeps
    /\ parts = {}
    /\ th = [t \in Thread |-> Idle]
    /\ used = [requests |-> 0, faults |-> 0, disconnects |-> 0, restarts |-> 0]
    /\ author = [p \in Path |-> 0]
    /\ mixed = {}
    /\ leaky = FALSE
    /\ log = [r \in 1 .. MaxRequests |-> NoRequest]

UploadStep(t) ==
    \/ PutPart(t) \/ PutEmpty(t) \/ CopyFirstPart(t) \/ ReadDest(t) \/ ReadPart(t)
    \/ PutCombined(t) \/ RemovePart(t) \/ StatStored(t)

TreeStep(t) ==
    \/ Mkdir(t) \/ StatDeleted(t) \/ StatDestination(t) \/ StatRemoved(t) \/ ListRemoved(t)
    \/ RemoveKeep(t) \/ RemoveEntry(t) \/ RenameCopy(t) \/ RenameRemove(t)
    \/ StatSource(t) \/ ListSource(t) \/ ReadSource(t)

Step(t) == UploadStep(t) \/ TreeStep(t)

Next ==
    \/ \E t \in Thread :
          IssuePut(t) \/ IssueOne(t) \/ IssueTwo(t) \/ Disconnect(t) \/ Step(t)
    \/ Restart
    \/ BudgetSpent

Spec == Init /\ [][Next]_vars

(* A goroutine that has a request is scheduled, every call on the store    *)
(* returns, and the client of a PUT sends its body or goes away: the       *)
(* server sets no ReadTimeout (cmd/main.go) and waits for it.              *)
FairSpec == Spec /\ \A t \in Thread : WF_vars(Step(t))

-----------------------------------------------------------------------------
TypeOK ==
    /\ object \in [Path -> Seq(Piece)]
    /\ keep \subseteq Path
    /\ \A x \in parts : x.of \in Path /\ x.number \in Nat /\ x.piece \in Piece \ {NoPiece}
    /\ th \in [Thread -> Local]
    /\ \A t \in Thread : th[t].at <= th[t].stored /\ th[t].stored <= Len(th[t].body)
    /\ author \in [Path -> 0 .. MaxRequests]
    /\ mixed \subseteq Path /\ leaky \in BOOLEAN

(* An upload that is answered as stored is stored whole, until another     *)
(* request changes the file: whatever call failed on the way, though Close *)
(* is called twice, and whatever parts a crash left of an earlier upload   *)
(* (file.go:117-149, :152-303, :348-382, :411-431).  Only two uploads of   *)
(* one file at a time, which share their parts, are left out.              *)
AnsweredMeansWhole ==
    \A r \in 1 .. MaxRequests :
        LET p == log[r].on
        IN  /\ log[r].method = "PUT" /\ log[r].answer = "ok"
            /\ author[p] = r /\ p \notin mixed
            => object[p] = log[r].body

(* A file holds the beginning of one body, in order and without a hole:    *)
(* pieces of two uploads never meet in it, whoever copies, renames,        *)
(* overwrites or reads it back while it is put together.  Left out are the *)
(* names two requests have written to at once (mixed): their parts share   *)
(* keys, and nothing keeps the bodies apart there                          *)
(* (file.go:213-299; filesystem.go:145-173).                               *)
FilesComeFromOneUpload ==
    \A p \in Path \ mixed :
        There(p) => \E r \in 0 .. MaxRequests : object[p] = Body(r, Len(object[p]))

(* Another request, beside r or later, was the last to change p.           *)
Disturbed(p, r) == author[p] > r \/ author[p] \in log[r].beside

(* A DELETE that is answered as done leaves nothing at the name or below   *)
(* it but what requests wrote that were at work beside it, or came later:  *)
(* unless its own entries were gone between its two looks at it, when what *)
(* is deeper is not seen (filesystem.go:99-142; util.go:20-62, :107-143).  *)
RemovedMeansGone ==
    \A r \in 1 .. MaxRequests :
        log[r].method = "DELETE" /\ log[r].answer = "ok" =>
            \A q \in Path :
                /\ q = log[r].on \/ IsUnder(q, log[r].on)
                /\ There(q)
                => Disturbed(q, r)

(* What a MOVE removes from its source is at its destination, unless       *)
(* another request that is at work beside it, or came later, wrote either  *)
(* of them: a copy that fails keeps the source (filesystem.go:145-173).    *)
MovedIsNotLost ==
    [][\A t \in Thread :
          LET src == th[t].name
              dst == th[t].to
          IN  th[t].pc = "mvremove" /\ There(src) /\ object'[src] = Gone =>
                 \/ object[dst] = object[src]
                 \/ Disturbed(src, th[t].req) \/ Disturbed(dst, th[t].req)]_vars

(* Parts do not outlive their upload, whichever of its calls is refused,   *)
(* unless the call is the removal of a part, the answer of a part's upload *)
(* was lost, or the process died (file.go:163-177, :207-212, :231-303,     *)
(* :307-328).                                                              *)
PartsAreRemoved == parts # {} ~> (parts = {} \/ leaky)

(* The parts of an upload are cleaned up before Close returns an error:    *)
(* the store answers every call, and a client that goes away is all that   *)
(* happens (file.go:163-168).                                              *)
DisconnectsLeaveNoParts ==
    /\ used.faults = 0 /\ used.restarts = 0
    /\ \A t \in Thread : th[t].pc = "idle"
    => parts = {}
=============================================================================
