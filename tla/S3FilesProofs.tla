--------------------------- MODULE S3FilesProofs ---------------------------
(***************************************************************************)
(* For any paths, goroutines, bodies, failures and restarts: S3Files is    *)
(* type correct, files are made of one upload, what is answered as stored  *)
(* is whole, what is answered as removed is gone if the store removes      *)
(* prefixes, and what is moved is not lost.                                *)
(***************************************************************************)
EXTENDS S3Files, SequenceTheorems, TLAPS

-----------------------------------------------------------------------------
(* Types                                                                   *)
-----------------------------------------------------------------------------
Bytes == Seq(Piece \ {NoPiece})
Answer == {"none", "ok", "failed", "unseen"}
LogEntry == [answer : Answer, method : Method \cup {"none"}, on : Path \cup {Root},
             body : Bytes, beside : SUBSET (0 .. MaxRequests)]
Count == [requests : 0 .. MaxRequests, faults : Nat, disconnects : Nat, restarts : Nat]
PartObject == [of : Path, number : Nat, piece : Piece \ {NoPiece}]

StoreTyped ==
    /\ object \in [Path -> Bytes \cup {Gone}] /\ keep \subseteq Path
    /\ parts \subseteq PartObject
    /\ author \in [Path -> 0 .. MaxRequests] /\ mixed \subseteq Path /\ leaky \in BOOLEAN

Types ==
    /\ StoreTyped
    /\ th \in [Thread -> Local] /\ used \in Count
    /\ log \in [1 .. MaxRequests -> LogEntry]

-----------------------------------------------------------------------------
(* What a goroutine relies on where it stands                              *)
-----------------------------------------------------------------------------
Carries(src, dst) == \A q \in Path : IsUnder(q, src) => Rebase(q, src, dst) \in Path

Serves(r) ==
    /\ r.pc = "idle" => r.method = "none"
    /\ r.pc = "stat" => r.method = "DELETE"
    /\ r.pc \in {"rmstat", "rmlist", "rmkeep", "rm"} => r.method \in {"DELETE", "MOVE", "COPY"}
    /\ r.pc = "mkcol" => r.method = "MKCOL"
    /\ r.pc = "dst" => r.method \in {"MOVE", "COPY"}
    /\ r.pc \in {"mvcopy", "mvremove"} => r.method = "MOVE"
    /\ r.pc \in {"src", "mkdir", "list", "read"} => r.method = "COPY"
    /\ r.pc \in Uploading \cup {"clean"} => r.method \in {"PUT", "COPY"}
    /\ r.pc = "check" => r.method = "PUT"

Progress(r) ==
    /\ r.pc \notin Uploading \cup {"clean", "check"} => r.stored = 0 /\ r.at = 0
    /\ r.pc = "put" => r.stored < Len(r.body) /\ r.at = 0
    /\ r.pc = "empty" => r.body = << >> /\ r.stored = 0 /\ r.at = 0
    /\ r.pc \in {"copy", "readdest", "readpart", "append"} =>
          r.stored = Len(r.body) /\ r.at < r.stored
    /\ r.pc = "copy" => r.at = 0
    /\ r.pc \in {"readdest", "readpart", "append"} => r.at > 0
    /\ r.pc = "clean" => r.at < r.stored /\ r.stored <= Len(r.body)
    /\ r.pc = "check" => r.at <= r.stored /\ r.stored <= Len(r.body) /\ ~r.failed

Fits(r) ==
    /\ r.body \in Bytes /\ r.combined \in Bytes
    /\ r.pc = "idle" => r = Idle
    /\ r.pc # "idle" => r.to \in Path /\ r.name \in Path /\ r.req > 0
    /\ Serves(r) /\ (r.pc # "idle" => r.method \in Method)
    /\ r.method = "MOVE" => r.name # r.to
    /\ r.method = "COPY" => Carries(r.name, r.to)
    /\ \A job \in r.jobs : Carries(job[1], job[2])
    /\ Progress(r)

(* What the log has of a request that is at work.                          *)
Recorded(r) ==
    r.pc # "idle" =>
        /\ r.req <= used.requests
        /\ log[r.req].answer = "none" /\ log[r.req].method = r.method
        /\ r.method \in {"PUT", "DELETE"} => log[r.req].on = r.to
        /\ r.method = "PUT" => log[r.req].body = r.body

Controlled == \A t \in Thread : Fits(th[t]) /\ Recorded(th[t])

(* Every request has a goroutine of its own, and knows the others.         *)
Acquainted ==
    /\ \A t, u \in Thread : t # u /\ th[t].pc # "idle" => th[t].req # th[u].req
    /\ \A r \in 1 .. used.requests, u \in Thread :
          th[u].pc # "idle" /\ th[u].req # r => th[u].req > r \/ th[u].req \in log[r].beside
    /\ \A r \in 1 .. MaxRequests : r > used.requests => log[r] = NoRequest
    /\ \A r \in 1 .. MaxRequests : log[r].method = "PUT" => log[r].on \in Path

-----------------------------------------------------------------------------
(* Uploads                                                                 *)
-----------------------------------------------------------------------------
Alone ==
    \A t, u \in Thread :
        /\ t # u /\ th[t].pc \in Uploading /\ th[u].pc \in Uploading /\ th[t].to = th[u].to
        => th[t].to \in mixed

OneUpload(s) == \E r \in 0 .. MaxRequests : \A i \in 1 .. Len(s) : s[i] = <<r, i>>
Begins(s, body, n) == Len(s) = n /\ \A i \in 1 .. n : s[i] = body[i]

Whole == \A p \in Path \ mixed : There(p) => OneUpload(object[p])

(* How far an upload is: what it stores is the beginning of one body.      *)
Uploads(t) ==
    LET r == th[t]
    IN  r.pc \in Uploading /\ r.to \notin mixed =>
            /\ OneUpload(r.body)
            /\ \A x \in parts :
                  x.of = r.to /\ x.number < r.stored => x.piece = r.body[x.number + 1]
            /\ r.pc = "readdest" /\ There(r.to) => Begins(object[r.to], r.body, r.at)
            /\ r.pc = "readpart" => Begins(r.combined, r.body, r.at)
            /\ r.pc = "append" => Begins(r.combined, r.body, r.at + 1)

Stores(t) ==
    LET r == th[t]
    IN  /\ r.method = "PUT" /\ r.pc \in {"clean", "check"} /\ ~r.failed
        /\ r.to \notin mixed /\ author[r.to] = r.req
        => object[r.to] = r.body

-----------------------------------------------------------------------------
(* Removals and moves                                                      *)
-----------------------------------------------------------------------------
(* What is left of what a removal has to remove.                           *)
Left(d, r) == { q \in Path : (q = d \/ IsUnder(q, d)) /\ There(q) /\ ~Disturbed(q, r) }

Removes(t) ==
    LET r == th[t]
    IN  ForceDelete /\ r.method = "DELETE" =>
            /\ r.pc = "rmlist" => r.to \notin Left(r.to, r.req)
            /\ r.pc \in {"rmkeep", "rm"} =>
                  \A q \in Left(r.to, r.req) : \E entry \in r.todo : q \in Removed(entry)

Moves(t) ==
    LET r == th[t]
    IN  r.pc = "mvremove" /\ There(r.name) =>
            \/ object[r.to] = object[r.name]
            \/ Disturbed(r.name, r.req) \/ Disturbed(r.to, r.req)

Own(t) == Uploads(t) /\ Stores(t) /\ Removes(t) /\ Moves(t)

Promises == AnsweredMeansWhole /\ (ForceDelete => RemovedMeansGone)

IInv ==
    /\ Types /\ Controlled /\ Acquainted /\ Alone /\ Whole
    /\ \A t \in Thread : Own(t)
    /\ Promises

-----------------------------------------------------------------------------
LEMMA Constants ==
  /\ MaxRequests \in Nat /\ MaxPieces \in Nat /\ Root \notin Path
  /\ NoPiece \in Piece /\ Gone \notin Bytes /\ << >> \in Bytes /\ Len(<< >>) = 0
  /\ Idle \in Local /\ Idle.pc = "idle" /\ Fits(Idle)
<1>1. MaxRequests \in Nat /\ MaxPieces \in Nat
  BY S3Assumption
<1>2. Root \notin Path
  BY PathsAreSequences DEF Root
<1>3. NoPiece \in Piece
  BY <1>1 DEF NoPiece, Piece
<1>4. Gone \notin Bytes
  <2>1. Gone[1] = NoPiece /\ 1 \in 1 .. Len(Gone)
    BY DEF Gone
  <2> QED BY <2>1, ElementOfSeq DEF Bytes
<1>5. << >> \in Bytes /\ Len(<< >>) = 0
  BY EmptySeq DEF Bytes
<1>6. Idle \in Local /\ Idle.pc = "idle"
  BY <1>1 DEF Idle, Local, Label
<1>7. Fits(Idle)
  BY <1>5 DEF Fits, Idle, Serves, Progress, Uploading
<1> QED BY <1>1, <1>2, <1>3, <1>4, <1>5, <1>6, <1>7

LEMMA ParentLength ==
  ASSUME NEW q \in Seq(Component), q # << >>
  PROVE  Len(Parent(q)) = Len(q) - 1
<1> DEFINE n == Len(q) - 1
<1>1. n \in Nat
  OBVIOUS
<1>2. \A i \in 1 .. n : q[i] \in Component
  BY <1>1
<1> HIDE DEF n
<1>3. Len(SubSeq(q, 1, n)) = n
  BY <1>1, <1>2, SubSeqProperties
<1> QED BY <1>3 DEF Parent, n

LEMMA SpliceRebased ==
  ASSUME NEW c \in Seq(Component), NEW q \in Seq(Component), NEW dst \in Seq(Component),
         NEW n \in 0 .. Len(q), Len(q) <= Len(c), SubSeq(c, 1, Len(q)) = q
  PROVE  (dst \o SubSeq(q, n + 1, Len(q))) \o SubSeq(c, Len(q) + 1, Len(c))
            = dst \o SubSeq(c, n + 1, Len(c))
<1> DEFINE k == Len(q)
           m == Len(c)
<1>1. k \in Nat /\ m \in Nat /\ n \in Nat /\ n <= k /\ k <= m
  OBVIOUS
<1>2. SubSeq(q, n + 1, k) = SubSeq(c, n + 1, k)
  BY <1>1
<1> HIDE DEF k, m
<1>3. SubSeq(c, n + 1, k) \o SubSeq(c, k + 1, m) = SubSeq(c, n + 1, m)
  <2>1. n + 1 \in 1 .. Len(c) + 1 /\ k \in n + 1 - 1 .. Len(c) /\ m \in k .. Len(c)
    BY <1>1 DEF m
  <2> QED BY <2>1, ConcatAdjacentSubSeq
<1>4. SubSeq(c, n + 1, k) \in Seq(Component) /\ SubSeq(c, k + 1, m) \in Seq(Component)
  BY <1>1 DEF m
<1>5. (dst \o SubSeq(c, n + 1, k)) \o SubSeq(c, k + 1, m)
         = dst \o (SubSeq(c, n + 1, k) \o SubSeq(c, k + 1, m))
  <2> DEFINE u == SubSeq(c, n + 1, k)
             v == SubSeq(c, k + 1, m)
  <2>1. u \in Seq(Component) /\ v \in Seq(Component)
    BY <1>4
  <2> HIDE DEF u, v
  <2>2. (dst \o u) \o v = dst \o (u \o v)
    BY <2>1, ConcatAssociative, SMTT(60)
  <2> QED BY <2>2 DEF u, v
<1> QED BY <1>2, <1>3, <1>5 DEF k, m

(* What is below a directory goes where the directory goes.                *)
LEMMA ChildCarries ==
  ASSUME NEW src \in Path, NEW dst \in Path, Carries(src, dst),
         NEW q \in Path, Parent(q) = src
  PROVE  /\ IsUnder(q, src) /\ Rebase(q, src, dst) \in Path
         /\ Carries(q, Rebase(q, src, dst))
<1>0. src \in Seq(Component) /\ dst \in Seq(Component) /\ q \in Seq(Component) /\ q # << >>
  BY PathsAreSequences
<1>1. Len(q) = Len(src) + 1 /\ SubSeq(q, 1, Len(src)) = src
  BY <1>0, ParentLength DEF Parent
<1>2. IsUnder(q, src)
  BY <1>0, <1>1 DEF IsUnder
<1>3. Rebase(q, src, dst) \in Path
  BY <1>2 DEF Carries
<1>4. ASSUME NEW c \in Path, IsUnder(c, q)
      PROVE  Rebase(c, q, Rebase(q, src, dst)) \in Path
  <2>1. /\ c \in Seq(Component) /\ Len(c) \in Nat /\ Len(q) \in Nat /\ Len(src) \in Nat
        /\ Len(c) > Len(q) /\ SubSeq(c, 1, Len(q)) = q
    BY <1>0, <1>4, PathsAreSequences, LenProperties DEF IsUnder
  <2>2. IsUnder(c, src)
    <3>1. \A i \in 1 .. Len(q) : q[i] = c[i]
      BY <2>1
    <3>2. SubSeq(c, 1, Len(src)) = SubSeq(q, 1, Len(src))
      BY <3>1, <1>1, <2>1
    <3> QED BY <3>2, <1>1, <2>1 DEF IsUnder
  <2>3. Rebase(c, q, Rebase(q, src, dst)) = Rebase(c, src, dst)
    <3>1. Len(src) \in 0 .. Len(q) /\ Len(q) <= Len(c)
      BY <1>1, <2>1
    <3> QED BY <3>1, <2>1, <1>0, SpliceRebased DEF Rebase
  <2> QED BY <2>2, <2>3 DEF Carries
<1> QED BY <1>2, <1>3, <1>4 DEF Carries

-----------------------------------------------------------------------------
(* What a step of one goroutine is allowed to do                           *)
-----------------------------------------------------------------------------
Proceeds(t) ==
    \E r \in Local :
        /\ Become(t, r) /\ log' = log
        /\ r.pc # "idle" /\ Fits(r)
        /\ r.req = th[t].req /\ r.method = th[t].method
        /\ r.method \in {"PUT", "DELETE"} => r.to = th[t].to
        /\ r.method = "PUT" => r.body = th[t].body

Ends(t) == \E answer \in Answer \ {"none"} : Answered(t, answer)

Costs == used' \in Count /\ used'.requests = used.requests

(* Who changes an object becomes its author, and writes only where it      *)
(* says, the beginning of one body, beside no other upload of the file.    *)
Untouched(p) == object'[p] = object[p] /\ author'[p] = author[p]
Erases(t, p) == object'[p] = Gone /\ There(p) /\ author'[p] = th[t].req
Writes(t, p) ==
    /\ p = th[t].to /\ object'[p] # Gone /\ author'[p] = th[t].req
    /\ p \notin mixed' => OneUpload(object'[p]) /\ (th[t].pc \in Uploading \/ Writers(p, t) = {})

Effects(t) ==
    /\ mixed \subseteq mixed'
    /\ \A p \in Path : Untouched(p) \/ Erases(t, p) \/ Writes(t, p)
    /\ \A x \in parts' : x \in parts \/ (x.of = th[t].to /\ th[t].pc \in Uploading)

(* A goroutine begins to upload where nobody else does.                    *)
Enters(t) ==
    LET r == th'[t]
    IN  r.pc \in Uploading /\ r.to \notin mixed' =>
            (th[t].pc \in Uploading /\ r.to = th[t].to) \/ Writers(r.to, t) = {}

(* What it answers is so.                                                  *)
Sound(t) ==
    \A r \in 1 .. MaxRequests, p \in Path :
        r = th[t].req /\ p = th[t].to /\ log'[r].answer = "ok" =>
            /\ th[t].method = "PUT" /\ author'[p] = r /\ p \notin mixed' => object'[p] = th[t].body
            /\ th[t].method = "DELETE" /\ ForceDelete => Left(p, r)' = {}

Lawful(t) ==
    /\ Proceeds(t) \/ Ends(t)
    /\ Costs /\ StoreTyped' /\ Effects(t) /\ Enters(t) /\ Sound(t)
    /\ Own(t)'

-----------------------------------------------------------------------------
LEMMA IInvParts ==
  ASSUME IInv, NEW t \in Thread
  PROVE  /\ Types /\ StoreTyped /\ th \in [Thread -> Local] /\ th[t] \in Local
         /\ Fits(th[t]) /\ Recorded(th[t]) /\ Own(t)
BY DEF IInv, Types, Controlled

LEMMA Moving ==
  ASSUME IInv, NEW t \in Thread, th[t].pc # "idle", Proceeds(t) \/ Ends(t), Costs
  PROVE  /\ th' \in [Thread -> Local] /\ log' \in [1 .. MaxRequests -> LogEntry]
         /\ \A u \in Thread \ {t} : th'[u] = th[u]
         /\ \A r \in 1 .. MaxRequests :
               /\ r # th[t].req => log'[r] = log[r]
               /\ log'[r].on = log[r].on /\ log'[r].method = log[r].method
               /\ log'[r].body = log[r].body /\ log'[r].beside = log[r].beside
         /\ th'[t].pc # "idle" =>
               /\ Proceeds(t) /\ log' = log
               /\ th'[t].req = th[t].req /\ th'[t].method = th[t].method
         /\ Fits(th'[t]) /\ Recorded(th[t])'
<1>1. th[t].req \in 1 .. MaxRequests /\ th[t].req <= used.requests /\ th \in [Thread -> Local]
  BY IInvParts, Constants DEF Fits, Local, Recorded
<1>2. log \in [1 .. MaxRequests -> LogEntry]
  BY DEF IInv, Types
<1>3. CASE Proceeds(t)
  <2>1. PICK r \in Local :
          /\ th' = [th EXCEPT ![t] = r] /\ log' = log
          /\ r.pc # "idle" /\ Fits(r)
          /\ r.req = th[t].req /\ r.method = th[t].method
          /\ r.method \in {"PUT", "DELETE"} => r.to = th[t].to
          /\ r.method = "PUT" => r.body = th[t].body
    BY <1>3 DEF Proceeds, Become
  <2>2. th'[t] = r /\ th' \in [Thread -> Local] /\ \A u \in Thread \ {t} : th'[u] = th[u]
    BY <2>1, <1>1
  <2>3. Recorded(r)'
    BY <2>1, <1>1, IInvParts DEF Recorded, Costs
  <2> QED BY <1>2, <1>3, <2>1, <2>2, <2>3
<1>4. CASE Ends(t)
  <2>1. PICK answer \in Answer \ {"none"} :
          th' = [th EXCEPT ![t] = Idle] /\ log' = [log EXCEPT ![th[t].req].answer = answer]
    BY <1>4 DEF Ends, Answered, Become
  <2>2. th'[t] = Idle /\ th' \in [Thread -> Local] /\ \A u \in Thread \ {t} : th'[u] = th[u]
    BY <2>1, <1>1, Constants
  <2>3. /\ log' \in [1 .. MaxRequests -> LogEntry]
        /\ \A r \in 1 .. MaxRequests :
               /\ r # th[t].req => log'[r] = log[r]
               /\ log'[r].on = log[r].on /\ log'[r].method = log[r].method
               /\ log'[r].body = log[r].body /\ log'[r].beside = log[r].beside
    BY <2>1, <1>1, <1>2 DEF LogEntry
  <2> QED BY <2>2, <2>3, Constants DEF Recorded
<1> QED BY <1>3, <1>4

LEMMA MovingKeeps ==
  ASSUME IInv, NEW t \in Thread, th[t].pc # "idle", Proceeds(t) \/ Ends(t), Costs
  PROVE  Controlled' /\ Acquainted'
<1>1. Controlled'
  <2>1. ASSUME NEW u \in Thread PROVE Fits(th'[u]) /\ Recorded(th[u])'
    <3>1. CASE u = t
      BY <3>1, Moving
    <3>2. CASE u # t
      <4>1. th'[u] = th[u] /\ Fits(th[u]) /\ Recorded(th[u]) /\ th[u] \in Local
        BY <3>2, Moving, IInvParts
      <4>2. ASSUME th[u].pc # "idle" PROVE log'[th[u].req] = log[th[u].req]
        <5>1. th[u].req # th[t].req
          BY <3>2, <4>2 DEF IInv, Acquainted
        <5>2. th[u].req \in 1 .. MaxRequests
          BY <4>1, <4>2, Constants DEF Local, Fits
        <5> QED BY <5>1, <5>2, Moving
      <4> QED BY <4>1, <4>2 DEF Recorded, Costs
    <3> QED BY <3>1, <3>2
  <2> QED BY <2>1 DEF Controlled, Fits
<1>2. Acquainted'
  <2>1. \A u \in Thread : th'[u].pc # "idle" => th[u].pc # "idle" /\ th'[u].req = th[u].req
    BY Moving
  <2>2. \A r \in 1 .. MaxRequests : log'[r].beside = log[r].beside
    BY Moving
  <2>3. th[t].req \in 1 .. used.requests
    BY IInvParts, Constants DEF Fits, Local, Recorded
  <2>4. used.requests \in 0 .. MaxRequests
    BY DEF IInv, Types, Count
  <2>5. \A r \in 1 .. MaxRequests : r > used.requests => log'[r] = log[r]
    BY <2>3, <2>4, Moving, Constants
  <2>6. \A v, u \in Thread : v # u /\ th'[v].pc # "idle" => th'[v].req # th'[u].req
    <3>1. SUFFICES ASSUME NEW v \in Thread, NEW u \in Thread, v # u, th'[v].pc # "idle"
                   PROVE  th'[v].req # th'[u].req
      OBVIOUS
    <3>2. th[v].pc # "idle" /\ th'[v].req = th[v].req /\ th[v].req # th[u].req /\ th[v].req > 0
      BY <2>1, <3>1, IInvParts DEF IInv, Acquainted, Fits
    <3>3. CASE th'[u].pc # "idle"
      BY <2>1, <3>2, <3>3
    <3>4. CASE th'[u].pc = "idle"
      <4>1. th'[u] = Idle
        BY <1>1, <3>4 DEF Controlled, Fits
      <4> QED BY <3>2, <4>1 DEF Idle
    <3> QED BY <3>3, <3>4
  <2>7. \A r \in 1 .. used.requests, u \in Thread :
           th'[u].pc # "idle" /\ th'[u].req # r => th'[u].req > r \/ th'[u].req \in log'[r].beside
    BY <2>1, <2>2, <2>4, Constants DEF IInv, Acquainted
  <2>8. \A r \in 1 .. MaxRequests : log'[r].method = "PUT" => log'[r].on \in Path
    BY Moving DEF IInv, Acquainted
  <2> QED BY <2>4, <2>5, <2>6, <2>7, <2>8, Constants DEF IInv, Acquainted, Costs
<1> QED BY <1>1, <1>2

(* What others change is disturbed, and stays so.                          *)
LEMMA DisturbedStays ==
  ASSUME IInv, NEW t \in Thread, th[t].pc # "idle", Proceeds(t) \/ Ends(t), Effects(t),
         NEW r \in 1 .. used.requests, r # th[t].req, NEW p \in Path
  PROVE  (Untouched(p) /\ (Disturbed(p, r)' <=> Disturbed(p, r))) \/ Disturbed(p, r)'
<1>1. r \in 1 .. MaxRequests
  BY Constants DEF IInv, Types, Count
<1>2. CASE Untouched(p)
  <2>1. log'[r] = log[r] \/ log'[r].beside = log[r].beside
    BY <1>1 DEF Proceeds, Ends, Answered, IInv, Types, LogEntry
  <2> QED BY <1>2, <2>1 DEF Untouched, Disturbed
<1>3. CASE author'[p] = th[t].req
  <2>1. log'[r].beside = log[r].beside
    BY <1>1 DEF Proceeds, Ends, Answered, IInv, Types, LogEntry
  <2>2. th[t].req > r \/ th[t].req \in log[r].beside
    BY DEF IInv, Acquainted
  <2> QED BY <1>3, <2>1, <2>2 DEF Disturbed
<1> QED BY <1>2, <1>3 DEF Effects, Erases, Writes

LEMMA OthersKeep ==
  ASSUME IInv, NEW t \in Thread, th[t].pc # "idle", Lawful(t), NEW u \in Thread, u # t
  PROVE  Own(u)'
<1>1. PICK r \in Local : r = th[u] /\ th'[u] = r /\ Own(u) /\ Fits(r) /\ Recorded(r)
  BY Moving, IInvParts DEF Lawful
<1>2. Effects(t) /\ (Proceeds(t) \/ Ends(t))
  BY DEF Lawful
<1>3. ASSUME r.pc # "idle"
      PROVE  /\ r.req \in 1 .. used.requests /\ r.req # th[t].req
             /\ r.to \in Path /\ r.name \in Path
  BY <1>1, <1>3, Constants DEF IInv, Acquainted, Fits, Recorded, Local
<1>4. Uploads(u)'
  <2>1. SUFFICES ASSUME r.pc \in Uploading, r.to \notin mixed'
                 PROVE  Uploads(u)'
    BY <1>1 DEF Uploads
  <2>2. r.pc # "idle" /\ r.to \notin mixed
    BY <1>2, <2>1 DEF Uploading, Effects
  <2>3. ~(th[t].pc \in Uploading /\ th[t].to = r.to)
    BY <1>1, <2>1, <2>2 DEF IInv, Alone
  <2>4. u \in Writers(r.to, t)
    BY <1>1, <2>1 DEF Writers
  <2>5. \A x \in parts' : x.of = r.to => x \in parts
    BY <1>2, <2>3 DEF Effects
  <2>6. Untouched(r.to) \/ object'[r.to] = Gone
    BY <1>2, <1>3, <2>1, <2>2, <2>3, <2>4 DEF Effects, Erases, Writes
  <2> QED BY <1>1, <2>1, <2>2, <2>5, <2>6 DEF Own, Uploads, Untouched, There
<1>5. Stores(u)'
  <2>1. SUFFICES ASSUME r.method = "PUT", r.pc \in {"clean", "check"}, ~r.failed,
                        r.to \notin mixed', author'[r.to] = r.req
                 PROVE  object'[r.to] = r.body
    BY <1>1 DEF Stores
  <2>2. r.pc # "idle" /\ r.to \notin mixed
    BY <1>2, <2>1 DEF Effects
  <2>3. Untouched(r.to)
    BY <1>2, <1>3, <2>1, <2>2 DEF Effects, Erases, Writes
  <2> QED BY <1>1, <2>1, <2>2, <2>3 DEF Own, Stores, Untouched
<1>6. Removes(u)'
  <2>1. SUFFICES ASSUME ForceDelete, r.method = "DELETE", r.pc \in {"rmlist", "rmkeep", "rm"}
                 PROVE  Removes(u)'
    BY <1>1 DEF Removes
  <2>2. r.pc # "idle"
    BY <2>1
  <2>3. ASSUME NEW q \in Path, There(q)', ~Disturbed(q, r.req)'
        PROVE  There(q) /\ ~Disturbed(q, r.req)
    <3>1. r.req \in 1 .. used.requests /\ r.req # th[t].req
      BY <1>3, <2>2
    <3>2. Untouched(q) /\ (Disturbed(q, r.req)' <=> Disturbed(q, r.req))
      BY <1>2, <2>3, <3>1, DisturbedStays
    <3> QED BY <2>3, <3>2 DEF Untouched, There
  <2>4. \A q \in Left(r.to, r.req)' : q \in Left(r.to, r.req)
    BY <2>3 DEF Left
  <2> QED BY <1>1, <2>1, <2>4 DEF Own, Removes
<1>7. Moves(u)'
  <2>1. SUFFICES ASSUME r.pc = "mvremove", object'[r.name] # Gone,
                        ~Disturbed(r.name, r.req)', ~Disturbed(r.to, r.req)'
                 PROVE  object'[r.to] = object'[r.name]
    BY <1>1 DEF Moves, There
  <2>2. r.pc # "idle"
    BY <2>1
  <2>3. /\ Untouched(r.name) /\ Untouched(r.to)
        /\ ~Disturbed(r.name, r.req) /\ ~Disturbed(r.to, r.req)
    <3>1. /\ r.req \in 1 .. used.requests /\ r.req # th[t].req
          /\ r.to \in Path /\ r.name \in Path
      BY <1>3, <2>2
    <3> QED BY <1>2, <2>1, <3>1, DisturbedStays
  <2> QED BY <1>1, <2>1, <2>3 DEF Own, Moves, Untouched, There
<1> QED BY <1>4, <1>5, <1>6, <1>7 DEF Own

LEMMA LawfulKeeps ==
  ASSUME IInv, NEW t \in Thread, th[t].pc # "idle", Lawful(t)
  PROVE  IInv'
<1>1. Types' /\ Controlled' /\ Acquainted'
  BY Moving, MovingKeeps DEF Lawful, Types, Costs
<1>2. \A u \in Thread : Own(u)'
  BY OthersKeep DEF Lawful
<1>3. Alone'
  <2>1. SUFFICES ASSUME NEW u \in Thread, u # t, th'[t].pc \in Uploading,
                        th[u].pc \in Uploading, th'[t].to = th[u].to
                 PROVE  th[u].to \in mixed'
    <3>1. \A u \in Thread \ {t} : th'[u] = th[u]
      BY Moving DEF Lawful
    <3>2. mixed \subseteq mixed'
      BY DEF Lawful, Effects
    <3> QED BY <3>1, <3>2 DEF Alone, IInv
  <2>2. CASE th[t].pc \in Uploading /\ th[t].to = th[u].to
    BY <2>1, <2>2 DEF IInv, Alone, Lawful, Effects
  <2>3. CASE Writers(th[u].to, t) = {}
    BY <2>1, <2>3 DEF Writers
  <2> QED BY <2>1, <2>2, <2>3 DEF Lawful, Enters
<1>4. Whole'
  BY DEF Lawful, Effects, Whole, IInv, Untouched, Erases, Writes, There
<1>5. Promises'
  <2>1. /\ th[t].req \in 1 .. MaxRequests /\ used.requests \in 0 .. MaxRequests
        /\ th[t].to \in Path
    <3>1. th[t] \in Local /\ Fits(th[t])
      BY IInvParts
    <3>2. used \in Count
      BY DEF IInv, Types
    <3> QED BY <3>1, <3>2, Constants, SMTT(60) DEF Fits, Local, Count
  <2>2. ASSUME NEW r \in 1 .. MaxRequests, r # th[t].req, log[r].answer = "ok"
        PROVE  r \in 1 .. used.requests
    BY <2>1, <2>2 DEF IInv, Acquainted, NoRequest
  <2>3. ASSUME NEW r \in 1 .. MaxRequests
        PROVE  /\ r # th[t].req => log'[r] = log[r]
               /\ log'[r].on = log[r].on /\ log'[r].method = log[r].method
               /\ log'[r].body = log[r].body /\ log'[r].beside = log[r].beside
    BY Moving DEF Lawful
  <2>4. /\ log[th[t].req].method = th[t].method
        /\ th[t].method \in {"PUT", "DELETE"} => log[th[t].req].on = th[t].to
        /\ th[t].method = "PUT" => log[th[t].req].body = th[t].body
    BY IInvParts DEF Recorded
  <2>5. AnsweredMeansWhole'
    <3>1. SUFFICES ASSUME NEW r \in 1 .. MaxRequests, log'[r].method = "PUT", log'[r].answer = "ok",
                          author'[log'[r].on] = r, log'[r].on \notin mixed'
                   PROVE  object'[log'[r].on] = log'[r].body
      BY DEF AnsweredMeansWhole
    <3>2. CASE r = th[t].req
      BY <2>1, <2>3, <2>4, <3>1, <3>2 DEF Lawful, Sound
    <3>3. CASE r # th[t].req
      <4>1. log'[r] = log[r] /\ log[r].on \notin mixed
        BY <2>3, <3>1, <3>3 DEF Lawful, Effects
      <4>2. log[r].on \in Path
        BY <3>1, <4>1 DEF IInv, Acquainted
      <4>3. Untouched(log[r].on)
        BY <3>1, <3>3, <4>1, <4>2 DEF Lawful, Effects, Erases, Writes
      <4> QED BY <3>1, <4>1, <4>3 DEF IInv, Promises, AnsweredMeansWhole, Untouched
    <3> QED BY <3>2, <3>3
  <2>6. ForceDelete => RemovedMeansGone'
    <3>1. SUFFICES ASSUME ForceDelete, NEW r \in 1 .. MaxRequests, log'[r].method = "DELETE",
                          log'[r].answer = "ok", NEW q \in Path,
                          q = log'[r].on \/ IsUnder(q, log'[r].on), There(q)'
                   PROVE  Disturbed(q, r)'
      BY DEF RemovedMeansGone
    <3>2. CASE r = th[t].req
      <4>1. PICK p \in Path : p = th[t].to
        BY <2>1
      <4>2. Left(p, r)' = {} /\ log'[r].on = p
        BY <2>3, <2>4, <3>1, <3>2, <4>1 DEF Lawful, Sound
      <4> QED BY <3>1, <4>2 DEF Left
    <3>3. CASE r # th[t].req
      <4>1. log'[r] = log[r] /\ r \in 1 .. used.requests
        BY <2>2, <2>3, <3>1, <3>3
      <4>2. (Untouched(q) /\ (Disturbed(q, r)' <=> Disturbed(q, r))) \/ Disturbed(q, r)'
        BY <3>3, <4>1, DisturbedStays DEF Lawful
      <4> QED BY <3>1, <4>1, <4>2 DEF IInv, Promises, RemovedMeansGone, Untouched, There
    <3> QED BY <3>2, <3>3
  <2> QED BY <2>5, <2>6 DEF Promises
<1> QED BY <1>1, <1>2, <1>3, <1>4, <1>5 DEF IInv

-----------------------------------------------------------------------------
(* How steps end                                                           *)
-----------------------------------------------------------------------------
(* The next record of a goroutine that goes on with its request.           *)
Follows(t, r) ==
    /\ r \in Local /\ r.pc # "idle" /\ Fits(r)
    /\ r.req = th[t].req /\ r.method = th[t].method
    /\ r.method \in {"PUT", "DELETE"} => r.to = th[t].to
    /\ r.method = "PUT" => r.body = th[t].body

LEMMA GoesOnProceeds ==
  ASSUME IInv, NEW t \in Thread, th[t].pc # "idle", NEW r, Follows(t, r), GoesOn(t, r)
  PROVE  Proceeds(t) /\ th'[t] = r /\ log' = log /\ Sound(t)
<1>1. th[t].req \in 1 .. MaxRequests /\ log[th[t].req].answer = "none" /\ th \in [Thread -> Local]
  BY IInvParts, Constants, SMTT(60) DEF Fits, Local, Recorded
<1>2. Proceeds(t) /\ th'[t] = r /\ log' = log
  BY <1>1 DEF GoesOn, Become, Follows, Proceeds
<1> QED BY <1>1, <1>2 DEF Sound

LEMMA AnsweredEnds ==
  ASSUME IInv, NEW t \in Thread, th[t].pc # "idle", NEW answer \in Answer \ {"none"},
         Answered(t, answer)
  PROVE  /\ Ends(t) /\ th'[t] = Idle /\ log'[th[t].req].answer = answer
         /\ answer # "ok" \/ th[t].method \notin {"PUT", "DELETE"} => Sound(t)
<1>1. th[t].req \in 1 .. MaxRequests /\ th \in [Thread -> Local]
  BY IInvParts, Constants, SMTT(60) DEF Fits, Local, Recorded
<1>2. Ends(t) /\ th'[t] = Idle
  BY <1>1 DEF Ends, Answered, Become
<1>3. log'[th[t].req].answer = answer
  BY <1>1 DEF Answered, IInv, Types, LogEntry
<1> QED BY <1>2, <1>3 DEF Sound

LEMMA NothingOwned ==
  ASSUME NEW t \in Thread,
         th'[t].pc \notin Uploading \cup {"check", "mvremove", "rmlist", "rmkeep", "rm"},
         th'[t].pc = "clean" => th'[t].failed
  PROVE  Own(t)' /\ Enters(t)
BY DEF Own, Uploads, Stores, Removes, Moves, Enters

LEMMA Spent ==
  ASSUME IInv, NEW t \in Thread, NEW outcome, Spend(t, outcome)
  PROVE  Costs
BY DEF IInv, Types, Count, Spend, Costs

LEMMA NothingSpent ==
  ASSUME IInv, used' = used
  PROVE  Costs
BY DEF IInv, Types, Costs

(* The store and the history stay as they are.                             *)
LEMMA StoreKept ==
  ASSUME IInv, NEW t \in Thread, UNCHANGED <<store, author, mixed, leaky>>
  PROVE  StoreTyped' /\ Effects(t)
BY IInvParts DEF StoreTyped, store, Effects, Untouched

LEMMA RefuseEnds ==
  ASSUME IInv, NEW t \in Thread, th[t].pc # "idle", Refuse(t)
  PROVE  Ends(t) /\ Sound(t) /\ Own(t)' /\ Enters(t)
<1>1. Ends(t) /\ Sound(t) /\ th'[t] = Idle
  BY AnsweredEnds DEF Refuse, Answer
<1> QED BY <1>1, NothingOwned, Constants DEF Uploading

(* COPY goes on with another file, or is done.                             *)
LEMMA NextJobGoesOn ==
  ASSUME IInv, NEW t \in Thread, th[t].pc # "idle", th[t].method = "COPY",
         NEW r \in Local, NextJob(t, r), r.req = th[t].req,
         \A job \in r.jobs : Carries(job[1], job[2])
  PROVE  /\ Proceeds(t) \/ Ends(t)
         /\ Sound(t) /\ th'[t].pc \in {"idle", "src"}
<1>1. CASE Answered(t, "ok")
  BY <1>1, AnsweredEnds, Constants DEF Answer
<1>2. CASE r.jobs # {}
  <2>1. PICK job \in r.jobs :
          GoesOn(t, [Idle EXCEPT !.pc = "src", !.method = "COPY", !.req = r.req,
                                 !.name = job[1], !.to = job[2], !.locks = r.locks,
                                 !.jobs = r.jobs \ {job}, !.gone = r.gone])
    BY <1>2 DEF NextJob, GoesOn
  <2> DEFINE next == [Idle EXCEPT !.pc = "src", !.method = "COPY", !.req = r.req,
                                  !.name = job[1], !.to = job[2], !.locks = r.locks,
                                  !.jobs = r.jobs \ {job}, !.gone = r.gone]
  <2>2. job \in Path \X Path /\ r.jobs \subseteq Path \X Path
    BY DEF Local
  <2>3. "COPY" \in Method /\ r.req > 0
    BY IInvParts DEF Fits
  <2>4. next \in Local /\ next.pc = "src"
    <3>1. "COPY" \in Method \cup {"none"} /\ "src" \in Label /\ r.req \in 0 .. MaxRequests
          /\ job[1] \in Path \cup {Root} /\ job[2] \in Path \cup {Root}
          /\ r.locks \in SUBSET Path /\ r.gone \in BOOLEAN
          /\ r.jobs \ {job} \in SUBSET (Path \X Path)
      BY <2>2, <2>3 DEF Local, Label
    <3> QED BY <3>1, Constants DEF Local
  <2>5. Fits(next)
    BY <2>2, <2>3, Constants DEF Fits, Serves, Progress, Idle, Uploading
  <2>6. Follows(t, next)
    BY <2>4, <2>5 DEF Follows, Idle
  <2> HIDE DEF next
  <2> QED BY <2>1, <2>4, <2>6, GoesOnProceeds DEF next
<1> QED BY <1>1, <1>2 DEF NextJob

(* streamingBuffer.Close has done what it could.                           *)
LEMMA ClosedEnds ==
  ASSUME IInv, NEW t \in Thread, th[t].pc \in Uploading \cup {"clean"},
         NEW r \in Local, Closed(t, r), r.body \in Bytes, r.combined \in Bytes,
         \A field \in {"method", "req", "name", "to", "body", "jobs"} : r[field] = th[t][field],
         r.at <= r.stored, r.stored <= Len(r.body)
  PROVE  /\ Proceeds(t) \/ Ends(t)
         /\ Sound(t)
         /\ \/ th'[t].pc \in {"idle", "src"}
            \/ r.method = "PUT" /\ ~r.failed /\ th'[t] = [r EXCEPT !.pc = "check"]
<1>1. /\ th[t].pc # "idle" /\ Fits(th[t]) /\ th[t] \in Local /\ th[t].method \in {"PUT", "COPY"}
      /\ r.method = th[t].method /\ r.req = th[t].req /\ r.name = th[t].name /\ r.to = th[t].to
      /\ r.body = th[t].body /\ r.jobs = th[t].jobs
  BY IInvParts DEF Uploading, Fits, Serves
<1>2. CASE r.failed
  BY <1>1, <1>2, AnsweredEnds, Constants DEF Closed, Answer
<1>3. CASE ~r.failed /\ r.method = "PUT"
  <2>1. th' = [th EXCEPT ![t] = [r EXCEPT !.pc = "check"]] /\ log' = log
    BY <1>3 DEF Closed, Become
  <2>2. Follows(t, [r EXCEPT !.pc = "check"])
    <3> DEFINE next == [r EXCEPT !.pc = "check"]
    <3>1. next \in Local /\ next.pc = "check"
      BY DEF Local, Label
    <3>2. Fits(next)
      BY <1>1, <1>3 DEF Fits, Serves, Progress, Local, Uploading
    <3> QED BY <1>1, <1>3, <3>1, <3>2 DEF Follows, Local
  <2> QED BY <1>1, <1>3, <2>1, <2>2, GoesOnProceeds DEF GoesOn, Become
<1>4. CASE ~r.failed /\ r.method = "COPY"
  <2>1. NextJob(t, r)
    BY <1>4 DEF Closed
  <2>2. \A job \in r.jobs : Carries(job[1], job[2])
    BY <1>1 DEF Fits
  <2> QED BY <1>1, <1>4, <2>1, <2>2, NextJobGoesOn
<1> QED BY <1>1, <1>2, <1>3, <1>4

LEMMA FailsEnds ==
  ASSUME IInv, NEW t \in Thread, th[t].pc \in Uploading, Fails(t)
  PROVE  (Proceeds(t) \/ Ends(t)) /\ Sound(t) /\ Own(t)' /\ Enters(t)
<1>1. /\ th[t] \in Local /\ Fits(th[t]) /\ th[t].pc # "idle" /\ th[t].method \in {"PUT", "COPY"}
  BY IInvParts DEF Uploading, Fits, Serves
<1>2. th[t].stored \in Nat /\ th[t].at <= th[t].stored /\ th[t].stored <= Len(th[t].body)
  <2>1. Len(th[t].body) \in Nat /\ th[t].stored \in Nat /\ th[t].at \in Nat
    BY <1>1, LenProperties DEF Local, Fits, Bytes
  <2> QED BY <1>1, <2>1, Constants DEF Fits, Progress, Uploading
<1> DEFINE r == [th[t] EXCEPT !.failed = TRUE]
<1>3. /\ r \in Local /\ r.failed /\ r.stored = th[t].stored /\ r.at = th[t].at
      /\ r.body = th[t].body /\ r.combined = th[t].combined /\ r.pc = th[t].pc
      /\ \A field \in {"method", "req", "name", "to", "body", "jobs"} : r[field] = th[t][field]
  BY <1>1 DEF Local
<1>4. CASE r.stored = 0
  <2>1. Closed(t, r)
    BY <1>4 DEF Fails, CleanUp
  <2>2. /\ Proceeds(t) \/ Ends(t)
        /\ Sound(t) /\ th'[t].pc \in {"idle", "src"}
    <3> HIDE DEF r
    <3> QED BY <1>1, <1>2, <1>3, <2>1, ClosedEnds DEF Fits
  <2> QED BY <2>2, NothingOwned DEF Uploading
<1>5. CASE r.stored # 0
  <2> DEFINE next == [r EXCEPT !.pc = "clean", !.at = 0]
  <2>1. GoesOn(t, next)
    BY <1>5 DEF Fails, CleanUp, GoesOn
  <2>2. next \in Local /\ next.pc = "clean" /\ next.failed
    BY <1>3, ZenonT(60) DEF Local, Label
  <2>3. Fits(next)
    BY <1>1, <1>2, <1>3, <1>5 DEF Fits, Serves, Progress, Local, Uploading
  <2>4. Follows(t, next)
    BY <1>1, <1>3, <2>2, <2>3 DEF Follows, Local
  <2>5. Proceeds(t) /\ th'[t] = next /\ Sound(t)
    <3> HIDE DEF next
    <3> QED BY <1>1, <2>1, <2>4, GoesOnProceeds
  <2> QED BY <2>2, <2>5, NothingOwned DEF Uploading
<1> QED BY <1>4, <1>5

LEMMA PutPartLawful ==
  ASSUME IInv, NEW t \in Thread, PutPart(t)
  PROVE  th[t].pc # "idle" /\ Lawful(t)
<1>1. PICK r \in Local : r = th[t] /\ r.pc = "put" /\ Fits(r) /\ Own(t)
  BY IInvParts DEF PutPart
<1> DEFINE part == [of |-> r.to, number |-> r.stored, piece |-> r.body[r.stored + 1]]
<1>2. PICK outcome \in Outcome(t) :
        /\ parts' = IF outcome = "refused" THEN parts
                    ELSE (parts \ Part(r.to, r.stored)) \cup {part}
        /\ IF outcome = "ok"
           THEN GoesOn(t, [r EXCEPT !.stored = @ + 1,
                                    !.pc = IF r.stored + 1 < Len(r.body) THEN "put" ELSE "copy"])
           ELSE Fails(t)
        /\ leaky' = (leaky \/ outcome = "lost")
        /\ Spend(t, outcome)
  BY <1>1 DEF PutPart
<1>3. UNCHANGED <<object, keep, author, mixed>>
  BY DEF PutPart
<1>4. /\ r.stored \in Nat /\ Len(r.body) \in Nat /\ r.stored < Len(r.body) /\ r.at = 0
      /\ r.to \in Path /\ r.req > 0 /\ r.body[r.stored + 1] \in Piece \ {NoPiece}
  BY <1>1, LenProperties, ElementOfSeq DEF Fits, Progress, Local, Bytes
<1>5. part \in PartObject
  BY <1>4 DEF PartObject
<1>6. StoreTyped'
  BY <1>2, <1>3, <1>5, IInvParts DEF StoreTyped
<1>7. Effects(t)
  BY <1>1, <1>2, <1>3 DEF Effects, Untouched, Uploading
<1>8. CASE outcome # "ok"
  BY <1>1, <1>2, <1>6, <1>7, <1>8, FailsEnds, Spent DEF Lawful, Uploading
<1>9. CASE outcome = "ok"
  <2> DEFINE next == [r EXCEPT !.stored = @ + 1,
                               !.pc = IF r.stored + 1 < Len(r.body) THEN "put" ELSE "copy"]
  <2>1. /\ next \in Local /\ next.pc \in {"put", "copy"} /\ next.to = r.to /\ next.body = r.body
        /\ next.stored = r.stored + 1
    <3> DEFINE label == IF r.stored + 1 < Len(r.body) THEN "put" ELSE "copy"
    <3>1. label \in {"put", "copy"} /\ label \in Label /\ r.stored + 1 \in Nat
      BY <1>4 DEF Label
    <3> HIDE DEF label
    <3>2. LET n == [r EXCEPT !.stored = @ + 1, !.pc = label]
          IN  n \in Local /\ n.pc = label /\ n.to = r.to /\ n.body = r.body /\ n.stored = r.stored + 1
      BY <3>1 DEF Local
    <3> QED BY <3>1, <3>2 DEF label
  <2>2. Fits(next)
    BY <1>1, <1>4 DEF Fits, Serves, Progress, Local, Uploading
  <2>3. Follows(t, next)
    BY <1>1, <2>1, <2>2 DEF Follows, Local
  <2>4. GoesOn(t, next)
    BY <1>2, <1>9
  <2> HIDE DEF next
  <2>5. Proceeds(t) /\ th'[t] = next /\ Sound(t)
    BY <1>1, <2>3, <2>4, GoesOnProceeds
  <2>6. ASSUME r.to \notin mixed
        PROVE  /\ OneUpload(r.body)
               /\ \A x \in parts' : x.of = r.to /\ x.number < r.stored + 1 =>
                                     x.piece = r.body[x.number + 1]
    <3>1. OneUpload(r.body) /\ \A x \in parts :
             x.of = r.to /\ x.number < r.stored => x.piece = r.body[x.number + 1]
      BY <1>1, <2>6 DEF Own, Uploads, Uploading
    <3>2. \A x \in parts' : x = part \/ (x \in parts /\ ~(x.of = r.to /\ x.number = r.stored))
      <4>1. parts' = (parts \ Part(r.to, r.stored)) \cup {part}
        BY <1>2, <1>9
      <4> HIDE DEF part
      <4>2. \A x \in parts : x.of = r.to /\ x.number = r.stored => x \in Part(r.to, r.stored)
        BY DEF Part
      <4> QED BY <4>1, <4>2
    <3>3. \A x \in parts : x.number \in Nat
      BY IInvParts DEF StoreTyped, PartObject
    <3> QED BY <1>4, <3>1, <3>2, <3>3
  <2>7. Own(t)' /\ Enters(t)
    BY <1>1, <1>3, <2>1, <2>5, <2>6 DEF Own, Uploads, Stores, Removes, Moves, Enters, Uploading
  <2> QED BY <1>1, <1>2, <1>6, <1>7, <2>5, <2>7, Spent DEF Lawful
<1> QED BY <1>8, <1>9

(* An upload writes the file.                                              *)
LEMMA ComposeEffects ==
  ASSUME IInv, NEW t \in Thread, th[t].pc \in Uploading, NEW content \in Bytes,
         th[t].to \notin mixed => OneUpload(content),
         UNCHANGED <<object, author>> \/ Write(th[t].to, content, th[t].req),
         UNCHANGED <<keep, parts, mixed, leaky>>
  PROVE  StoreTyped' /\ Effects(t)
<1>1. th[t].to \in Path /\ th[t].req \in 0 .. MaxRequests /\ StoreTyped
  BY IInvParts DEF Fits, Local, Uploading
<1>2. CASE UNCHANGED <<object, author>>
  BY <1>1, <1>2 DEF StoreTyped, Effects, Untouched
<1>3. CASE Write(th[t].to, content, th[t].req)
  <2>1. /\ object' \in [Path -> Bytes \cup {Gone}] /\ author' \in [Path -> 0 .. MaxRequests]
        /\ object'[th[t].to] = content /\ author'[th[t].to] = th[t].req
        /\ \A p \in Path \ {th[t].to} : Untouched(p)
    BY <1>1, <1>3 DEF Write, StoreTyped, Untouched
  <2> QED BY <1>1, <2>1, Constants DEF StoreTyped, Effects, Writes
<1> QED BY <1>2, <1>3

LEMMA ReadLawful ==
  ASSUME IInv, NEW t \in Thread, UNCHANGED <<store, author, mixed, leaky>>, Costs,
         Proceeds(t) \/ Ends(t), Sound(t), Own(t)', Enters(t)
  PROVE  Lawful(t)
BY StoreKept DEF Lawful

LEMMA NoSuchKeyLawful ==
  ASSUME IInv, NEW t \in Thread, th[t].pc \in Uploading, NoSuchKey(t)
  PROVE  Lawful(t)
BY FailsEnds, NothingSpent, ReadLawful DEF NoSuchKey

LEMMA SameSequence ==
  ASSUME NEW s \in Bytes, NEW body \in Bytes, Begins(s, body, Len(body))
  PROVE  s = body
BY SeqEqual DEF Bytes, Begins

LEMMA BeginsOneUpload ==
  ASSUME NEW s \in Bytes, NEW body \in Bytes, NEW n \in 0 .. Len(body), Begins(s, body, n),
         OneUpload(body)
  PROVE  OneUpload(s)
BY LenProperties DEF Bytes, Begins, OneUpload

(* A piece has been written to the file: there is another, or it is whole. *)
LEMMA PieceWritten ==
  ASSUME IInv, NEW t \in Thread, th[t].pc \in {"copy", "append"},
         NEW combined \in {th[t].combined, << >>},
         GoesOn(t, [AfterPiece(th[t]) EXCEPT !.combined = combined]),
         NEW content \in Bytes, Write(th[t].to, content, th[t].req),
         th[t].to \notin mixed => Begins(content, th[t].body, th[t].at + 1),
         UNCHANGED <<parts, mixed>>
  PROVE  Proceeds(t) /\ Sound(t) /\ Own(t)' /\ Enters(t)
<1>1. PICK r \in Local : r = th[t] /\ r.pc \in {"copy", "append"} /\ Fits(r) /\ Own(t)
  BY IInvParts
<1>2. /\ r.stored \in Nat /\ r.at \in Nat /\ r.stored = Len(r.body) /\ r.at < r.stored
      /\ r.to \in Path /\ r.body \in Bytes /\ r.combined \in Bytes /\ combined \in Bytes
  BY <1>1, Constants DEF Fits, Progress, Local
<1>3. object'[r.to] = content /\ (r.to \notin mixed' => Begins(content, r.body, r.at + 1))
  BY <1>1, <1>2, IInvParts DEF Write, StoreTyped
<1>4. combined \in Seq(Piece) /\ r.at + 1 \in Nat
  <2>1. r.combined \in Seq(Piece)
    BY DEF Local
  <2>2. << >> \in Seq(Piece)
    OBVIOUS
  <2>3. combined \in {r.combined, << >>}
    BY <1>1
  <2>4. combined \in Seq(Piece)
    BY <2>1, <2>2, <2>3, Zenon
  <2> QED BY <1>2, <2>4
<1>5. CASE r.at + 1 < r.stored
  <2> DEFINE next == [r EXCEPT !.pc = "readdest", !.at = @ + 1, !.combined = combined]
  <2>1. GoesOn(t, next)
    BY <1>1, <1>5 DEF AfterPiece
  <2>2. /\ next \in Local /\ next.pc = "readdest" /\ next.at = r.at + 1 /\ next.to = r.to
        /\ next.body = r.body /\ next.stored = r.stored /\ next.combined = combined
        /\ \A field \in {"method", "req", "name", "jobs"} : next[field] = r[field]
    BY <1>2, <1>4 DEF Local, Label
  <2> HIDE DEF next
  <2>3. Follows(t, next)
    BY <1>1, <1>2, <1>5, <2>2 DEF Follows, Fits, Serves, Progress, Uploading
  <2>4. Proceeds(t) /\ th'[t] = next /\ Sound(t)
    BY <1>1, <2>1, <2>3, GoesOnProceeds
  <2>5. Own(t)' /\ Enters(t)
    BY <1>1, <1>3, <2>2, <2>4 DEF Own, Uploads, Stores, Removes, Moves, Enters, Uploading
  <2> QED BY <2>4, <2>5
<1>6. CASE ~(r.at + 1 < r.stored)
  <2> DEFINE next == [r EXCEPT !.pc = "clean", !.at = 0, !.combined = combined]
  <2>1. GoesOn(t, next)
    BY <1>1, <1>6 DEF AfterPiece
  <2>2. /\ next \in Local /\ next.pc = "clean" /\ next.at = 0 /\ next.to = r.to
        /\ next.body = r.body /\ next.stored = r.stored /\ next.combined = combined
        /\ \A field \in {"method", "req", "name", "jobs"} : next[field] = r[field]
    BY <1>2, <1>4 DEF Local, Label
  <2> HIDE DEF next
  <2>3. Follows(t, next)
    BY <1>1, <1>2, <2>2 DEF Follows, Fits, Serves, Progress, Uploading
  <2>4. Proceeds(t) /\ th'[t] = next /\ Sound(t)
    BY <1>1, <2>1, <2>3, GoesOnProceeds
  <2>5. r.to \notin mixed' => object'[r.to] = r.body
    <3>1. r.at + 1 = Len(r.body)
      BY <1>2, <1>6
    <3> QED BY <1>2, <1>3, <3>1, SameSequence
  <2>6. Own(t)' /\ Enters(t)
    BY <2>2, <2>4, <2>5 DEF Own, Uploads, Stores, Removes, Moves, Enters, Uploading
  <2> QED BY <2>4, <2>6
<1> QED BY <1>5, <1>6

LEMMA PutEmptyLawful ==
  ASSUME IInv, NEW t \in Thread, PutEmpty(t)
  PROVE  th[t].pc # "idle" /\ Lawful(t)
<1>1. PICK r \in Local : r = th[t] /\ r.pc = "empty" /\ Fits(r) /\ Own(t)
  BY IInvParts DEF PutEmpty
<1>2. PICK outcome \in Outcome(t) :
        /\ IF outcome = "refused" THEN UNCHANGED <<object, author>>
           ELSE Write(r.to, << >>, r.req)
        /\ IF outcome = "ok" THEN CleanUp(t, r) ELSE Fails(t)
        /\ Spend(t, outcome)
  BY <1>1 DEF PutEmpty, Compose
<1>3. UNCHANGED <<keep, parts, mixed, leaky>>
  BY DEF PutEmpty, Compose
<1>4. th[t].pc \in Uploading /\ r.body = << >> /\ r.stored = 0 /\ r.at = 0 /\ r.to \in Path
  BY <1>1 DEF Uploading, Fits, Progress
<1>5. StoreTyped' /\ Effects(t)
  <2>1. OneUpload(<< >>)
    BY Constants DEF OneUpload
  <2> QED BY <1>1, <1>2, <1>3, <1>4, <2>1, Constants, ComposeEffects
<1>6. CASE outcome # "ok"
  BY <1>1, <1>2, <1>4, <1>5, <1>6, FailsEnds, Spent DEF Lawful
<1>7. CASE outcome = "ok"
  <2>1. Closed(t, r)
    BY <1>2, <1>4, <1>7 DEF CleanUp
  <2>2. /\ Proceeds(t) \/ Ends(t)
        /\ Sound(t)
        /\ \/ th'[t].pc \in {"idle", "src"}
           \/ r.method = "PUT" /\ ~r.failed /\ th'[t] = [r EXCEPT !.pc = "check"]
    BY <1>1, <1>4, <2>1, Constants, ClosedEnds DEF Fits
  <2>3. object'[r.to] = r.body
    BY <1>2, <1>4, <1>7, IInvParts DEF Write, StoreTyped
  <2>4. Own(t)' /\ Enters(t)
    <3>1. CASE th'[t].pc \in {"idle", "src"}
      BY <3>1, NothingOwned DEF Uploading
    <3>2. CASE th'[t] = [r EXCEPT !.pc = "check"]
      <4>1. th'[t].pc = "check" /\ th'[t].to = r.to /\ th'[t].body = r.body
        BY <3>2 DEF Local
      <4> QED BY <2>3, <4>1 DEF Own, Uploads, Stores, Removes, Moves, Enters, Uploading
    <3> QED BY <2>2, <3>1, <3>2
  <2> QED BY <1>1, <1>2, <1>5, <2>2, <2>4, Spent DEF Lawful
<1> QED BY <1>6, <1>7

LEMMA CopyFirstPartLawful ==
  ASSUME IInv, NEW t \in Thread, CopyFirstPart(t)
  PROVE  th[t].pc # "idle" /\ Lawful(t)
<1>1. PICK r \in Local : r = th[t] /\ r.pc = "copy" /\ Fits(r) /\ Own(t)
  BY IInvParts DEF CopyFirstPart
<1>2. th[t].pc \in Uploading
  BY <1>1 DEF Uploading
<1>3. CASE NoSuchKey(t)
  BY <1>1, <1>2, <1>3, NoSuchKeyLawful
<1>4. CASE \E part \in Part(r.to, 0) : Compose(t, <<part.piece>>, GoesOn(t, AfterPiece(r)))
  <2>1. PICK part \in Part(r.to, 0), outcome \in Outcome(t) :
          /\ IF outcome = "refused" THEN UNCHANGED <<object, author>>
             ELSE Write(r.to, <<part.piece>>, r.req)
          /\ IF outcome = "ok" THEN GoesOn(t, AfterPiece(r)) ELSE Fails(t)
          /\ Spend(t, outcome)
          /\ UNCHANGED <<keep, parts, mixed, leaky>>
    BY <1>1, <1>4 DEF Compose
  <2>2. part \in parts /\ part.of = r.to /\ part.number = 0 /\ part.piece \in Piece \ {NoPiece}
    BY IInvParts DEF Part, StoreTyped, PartObject
  <2>3. r.stored = Len(r.body) /\ 0 < r.stored /\ r.at = 0 /\ r.body \in Bytes
    BY <1>1 DEF Fits, Progress
  <2> DEFINE content == <<part.piece>>
  <2>4. content \in Bytes /\ Len(content) = 1 /\ content[1] = part.piece
    BY <2>2 DEF Bytes
  <2> HIDE DEF content
  <2>5. r.to \notin mixed => OneUpload(r.body) /\ Begins(content, r.body, r.at + 1)
    <3>1. SUFFICES ASSUME r.to \notin mixed
                   PROVE  OneUpload(r.body) /\ content[1] = r.body[1]
      BY <2>3, <2>4 DEF Begins
    <3>2. OneUpload(r.body) /\ part.piece = r.body[0 + 1]
      BY <1>1, <1>2, <2>2, <2>3, <3>1 DEF Own, Uploads
    <3> QED BY <2>4, <3>2
  <2>6. r.to \notin mixed => OneUpload(content)
    <3>1. r.at + 1 \in 0 .. Len(r.body)
      BY <2>3, LenProperties DEF Bytes
    <3> QED BY <2>3, <2>4, <2>5, <3>1, BeginsOneUpload
  <2>7. StoreTyped' /\ Effects(t)
    BY <1>1, <1>2, <2>1, <2>4, <2>6, ComposeEffects DEF content
  <2>8. CASE outcome # "ok"
    BY <1>1, <1>2, <2>1, <2>7, <2>8, FailsEnds, Spent DEF Lawful
  <2>9. CASE outcome = "ok"
    <3>1. GoesOn(t, [AfterPiece(r) EXCEPT !.combined = r.combined])
      BY <1>1, <2>1, <2>9 DEF AfterPiece, Local
    <3>2. Write(r.to, content, r.req)
      BY <2>1, <2>9 DEF content
    <3>3. Proceeds(t) /\ Sound(t) /\ Own(t)' /\ Enters(t)
      BY <1>1, <2>1, <2>4, <2>5, <3>1, <3>2, PieceWritten
    <3> QED BY <1>1, <2>1, <2>7, <3>3, Spent DEF Lawful
  <2> QED BY <2>8, <2>9
<1> QED BY <1>1, <1>3, <1>4 DEF CopyFirstPart

LEMMA PutCombinedLawful ==
  ASSUME IInv, NEW t \in Thread, PutCombined(t)
  PROVE  th[t].pc # "idle" /\ Lawful(t)
<1>1. PICK r \in Local : r = th[t] /\ r.pc = "append" /\ Fits(r) /\ Own(t)
  BY IInvParts DEF PutCombined
<1>2. th[t].pc \in Uploading
  BY <1>1 DEF Uploading
<1>3. PICK outcome \in Outcome(t) :
        /\ IF outcome = "refused" THEN UNCHANGED <<object, author>>
           ELSE Write(r.to, r.combined, r.req)
        /\ IF outcome = "ok" THEN GoesOn(t, [AfterPiece(r) EXCEPT !.combined = << >>]) ELSE Fails(t)
        /\ Spend(t, outcome)
        /\ UNCHANGED <<keep, parts, mixed, leaky>>
  BY <1>1 DEF PutCombined, Compose
<1>4. /\ r.stored = Len(r.body) /\ r.at < r.stored /\ r.at \in Nat
      /\ r.body \in Bytes /\ r.combined \in Bytes
  BY <1>1 DEF Fits, Progress, Local
<1>5. r.to \notin mixed => OneUpload(r.body) /\ Begins(r.combined, r.body, r.at + 1)
  BY <1>1, <1>2 DEF Own, Uploads
<1>6. r.to \notin mixed => OneUpload(r.combined)
  <2>1. r.at + 1 \in 0 .. Len(r.body)
    BY <1>4, LenProperties DEF Bytes
  <2> QED BY <1>4, <1>5, <2>1, BeginsOneUpload
<1>7. StoreTyped' /\ Effects(t)
  BY <1>1, <1>2, <1>3, <1>4, <1>6, ComposeEffects
<1>8. CASE outcome # "ok"
  BY <1>1, <1>2, <1>3, <1>7, <1>8, FailsEnds, Spent DEF Lawful
<1>9. CASE outcome = "ok"
  <2>1. Proceeds(t) /\ Sound(t) /\ Own(t)' /\ Enters(t)
    BY <1>1, <1>3, <1>4, <1>5, <1>9, PieceWritten
  <2> QED BY <1>1, <1>3, <1>7, <2>1, Spent DEF Lawful
<1> QED BY <1>8, <1>9

LEMMA ReadDestLawful ==
  ASSUME IInv, NEW t \in Thread, ReadDest(t)
  PROVE  th[t].pc # "idle" /\ Lawful(t)
<1>1. PICK r \in Local : r = th[t] /\ r.pc = "readdest" /\ Fits(r) /\ Own(t)
  BY IInvParts DEF ReadDest
<1>2. th[t].pc \in Uploading
  BY <1>1 DEF Uploading
<1>3. CASE NoSuchKey(t)
  BY <1>1, <1>2, <1>3, NoSuchKeyLawful
<1>4. ASSUME There(r.to),
             ReadCall(t, GoesOn(t, [r EXCEPT !.pc = "readpart", !.combined = object[r.to]]))
      PROVE  Lawful(t)
  <2>1. PICK outcome \in ReadOutcome(t) :
          /\ IF outcome = "ok"
             THEN GoesOn(t, [r EXCEPT !.pc = "readpart", !.combined = object[r.to]]) ELSE Fails(t)
          /\ Spend(t, outcome)
          /\ UNCHANGED <<store, author, mixed, leaky>>
    BY <1>1, <1>4 DEF ReadCall
  <2>2. CASE outcome # "ok"
    BY <1>1, <1>2, <2>1, <2>2, FailsEnds, ReadLawful, Spent
  <2>3. CASE outcome = "ok"
    <3>1. PICK content \in Bytes : content = object[r.to]
      BY <1>1, <1>4, IInvParts DEF StoreTyped, There, Fits
    <3> DEFINE next == [r EXCEPT !.pc = "readpart", !.combined = content]
    <3>2. GoesOn(t, next)
      BY <2>1, <2>3, <3>1
    <3>3. content \in Seq(Piece)
      BY DEF Bytes
    <3>4. /\ next \in Local /\ next.pc = "readpart" /\ next.combined = content
          /\ next.at = r.at /\ next.stored = r.stored /\ next.to = r.to /\ next.body = r.body
          /\ \A field \in {"method", "req", "name", "jobs"} : next[field] = r[field]
      BY <3>3 DEF Local, Label
    <3> HIDE DEF next
    <3>5. Follows(t, next)
      BY <1>1, <3>4 DEF Follows, Fits, Serves, Progress, Uploading
    <3>6. Proceeds(t) /\ th'[t] = next /\ Sound(t)
      BY <1>1, <3>2, <3>5, GoesOnProceeds
    <3>7. Own(t)' /\ Enters(t)
      BY <1>1, <1>2, <1>4, <2>1, <3>1, <3>4, <3>6
      DEF Own, Uploads, Stores, Removes, Moves, Enters, Uploading, store
    <3> QED BY <2>1, <3>6, <3>7, Spent, ReadLawful
  <2> QED BY <2>2, <2>3
<1> QED BY <1>1, <1>3, <1>4 DEF ReadDest

LEMMA ReadPartLawful ==
  ASSUME IInv, NEW t \in Thread, ReadPart(t)
  PROVE  th[t].pc # "idle" /\ Lawful(t)
<1>1. PICK r \in Local : r = th[t] /\ r.pc = "readpart" /\ Fits(r) /\ Own(t)
  BY IInvParts DEF ReadPart
<1>2. th[t].pc \in Uploading
  BY <1>1 DEF Uploading
<1>3. CASE NoSuchKey(t)
  BY <1>1, <1>2, <1>3, NoSuchKeyLawful
<1>4. ASSUME NEW x \in Part(r.to, r.at),
             ReadCall(t, GoesOn(t, [r EXCEPT !.pc = "append",
                                             !.combined = Append(@, x.piece)]))
      PROVE  Lawful(t)
  <2>1. PICK outcome \in ReadOutcome(t) :
          /\ IF outcome = "ok"
             THEN GoesOn(t, [r EXCEPT !.pc = "append", !.combined = Append(@, x.piece)])
             ELSE Fails(t)
          /\ Spend(t, outcome)
          /\ UNCHANGED <<store, author, mixed, leaky>>
    BY <1>1, <1>4 DEF ReadCall
  <2>2. CASE outcome # "ok"
    BY <1>1, <1>2, <2>1, <2>2, FailsEnds, ReadLawful, Spent
  <2>3. CASE outcome = "ok"
    <3>1. x \in parts /\ x.of = r.to /\ x.number = r.at /\ x.piece \in Piece \ {NoPiece}
      BY IInvParts DEF Part, StoreTyped, PartObject
    <3>2. /\ r.combined \in Bytes /\ r.combined \in Seq(Piece)
          /\ r.stored = Len(r.body) /\ r.at < r.stored /\ r.at \in Nat
      BY <1>1 DEF Fits, Progress, Local
    <3>3. PICK content \in Bytes : content = Append(r.combined, x.piece)
      <4> DEFINE S == Piece \ {NoPiece}
      <4>1. r.combined \in Seq(S) /\ x.piece \in S
        BY <3>1, <3>2 DEF Bytes
      <4> HIDE DEF S
      <4>2. Append(r.combined, x.piece) \in Seq(S)
        BY <4>1, AppendProperties
      <4> QED BY <4>2 DEF S, Bytes
    <3>4. r.to \notin mixed => Begins(content, r.body, r.at + 1)
      <4>1. SUFFICES ASSUME r.to \notin mixed PROVE Begins(content, r.body, r.at + 1)
        OBVIOUS
      <4>2. Begins(r.combined, r.body, r.at) /\ x.piece = r.body[r.at + 1]
        BY <1>1, <1>2, <3>1, <3>2, <4>1 DEF Own, Uploads
      <4> QED BY <3>1, <3>2, <3>3, <4>2 DEF Begins, Bytes
    <3> DEFINE next == [r EXCEPT !.pc = "append", !.combined = content]
    <3>5. GoesOn(t, next)
      BY <2>1, <2>3, <3>3
    <3>6. content \in Seq(Piece)
      BY DEF Bytes
    <3>7. /\ next \in Local /\ next.pc = "append" /\ next.combined = content
          /\ next.at = r.at /\ next.stored = r.stored /\ next.to = r.to /\ next.body = r.body
          /\ \A field \in {"method", "req", "name", "jobs"} : next[field] = r[field]
      BY <3>6 DEF Local, Label
    <3> HIDE DEF next
    <3>8. Follows(t, next)
      BY <1>1, <3>7 DEF Follows, Fits, Serves, Progress, Uploading
    <3>9. Proceeds(t) /\ th'[t] = next /\ Sound(t)
      BY <1>1, <3>5, <3>8, GoesOnProceeds
    <3>10. Own(t)' /\ Enters(t)
      BY <1>1, <1>2, <2>1, <3>4, <3>7, <3>9
      DEF Own, Uploads, Stores, Removes, Moves, Enters, Uploading, store
    <3> QED BY <2>1, <3>9, <3>10, Spent, ReadLawful
  <2> QED BY <2>2, <2>3
<1> QED BY <1>1, <1>3, <1>4 DEF ReadPart

LEMMA RemovePartLawful ==
  ASSUME IInv, NEW t \in Thread, RemovePart(t)
  PROVE  th[t].pc # "idle" /\ Lawful(t)
<1>1. PICK r \in Local : r = th[t] /\ r.pc = "clean" /\ Fits(r) /\ Own(t)
  BY IInvParts DEF RemovePart
<1>2. PICK outcome \in Outcome(t) :
        LET after == [r EXCEPT !.at = @ + 1, !.failed = @ \/ outcome # "ok"]
        IN  /\ parts' = IF outcome = "refused" THEN parts ELSE parts \ Part(r.to, r.at)
            /\ IF after.at < r.stored THEN GoesOn(t, after) ELSE Closed(t, after)
            /\ leaky' = (leaky \/ (outcome = "refused" /\ Part(r.to, r.at) # {}))
            /\ Spend(t, outcome)
  BY <1>1 DEF RemovePart
<1>3. UNCHANGED <<object, keep, author, mixed>>
  BY DEF RemovePart
<1>4. /\ r.at \in Nat /\ r.stored \in Nat /\ r.at < r.stored /\ r.stored <= Len(r.body)
      /\ r.failed \in BOOLEAN /\ r.body \in Bytes /\ r.combined \in Bytes
  BY <1>1 DEF Fits, Progress, Local
<1>5. StoreTyped' /\ Effects(t)
  BY <1>2, <1>3, IInvParts DEF StoreTyped, Effects, Untouched
<1> DEFINE failed == r.failed \/ outcome # "ok"
<1>6. failed \in BOOLEAN /\ (~failed => ~r.failed)
  BY <1>4
<1> HIDE DEF failed
<1> DEFINE after == [r EXCEPT !.at = @ + 1, !.failed = failed]
<1>7. /\ after \in Local /\ after.at = r.at + 1 /\ after.failed = failed /\ after.pc = "clean"
      /\ after.stored = r.stored /\ after.combined = r.combined
      /\ \A field \in {"method", "req", "name", "to", "body", "jobs"} : after[field] = r[field]
  <2>1. r.at + 1 \in Nat
    BY <1>4
  <2>2. r \in Local /\ r.pc = "clean"
    BY <1>1
  <2> QED BY <1>6, <2>1, <2>2 DEF Local
<1>8. IF after.at < r.stored THEN GoesOn(t, after) ELSE Closed(t, after)
  BY <1>2 DEF failed
<1> HIDE DEF after
<1>9. Costs
  BY <1>2, Spent
<1>10. CASE after.at < r.stored
  <2>1. Follows(t, after)
    BY <1>1, <1>4, <1>7, <1>10 DEF Follows, Fits, Serves, Progress, Uploading
  <2>2. Proceeds(t) /\ th'[t] = after /\ Sound(t)
    BY <1>1, <1>8, <1>10, <2>1, GoesOnProceeds
  <2>3. Own(t)' /\ Enters(t)
    BY <1>1, <1>3, <1>6, <1>7, <2>2 DEF Own, Uploads, Stores, Removes, Moves, Enters, Uploading
  <2> QED BY <1>1, <1>5, <1>9, <2>2, <2>3 DEF Lawful
<1>11. CASE ~(after.at < r.stored)
  <2>1. /\ Proceeds(t) \/ Ends(t)
        /\ Sound(t)
        /\ \/ th'[t].pc \in {"idle", "src"}
           \/ after.method = "PUT" /\ ~after.failed /\ th'[t] = [after EXCEPT !.pc = "check"]
    <3>1. Closed(t, after)
      BY <1>8, <1>11
    <3>2. after.at <= after.stored /\ after.stored <= Len(after.body)
      BY <1>4, <1>7
    <3> QED BY <1>1, <1>4, <1>7, <3>1, <3>2, ClosedEnds
  <2>2. Own(t)' /\ Enters(t)
    <3>1. CASE th'[t].pc \in {"idle", "src"}
      BY <3>1, NothingOwned DEF Uploading
    <3>2. CASE ~after.failed /\ th'[t] = [after EXCEPT !.pc = "check"]
      <4>1. /\ th'[t].pc = "check" /\ th'[t].to = r.to /\ th'[t].body = r.body
            /\ th'[t].req = r.req /\ th'[t].method = r.method
        BY <1>7, <3>2 DEF Local
      <4>2. ~r.failed
        BY <1>6, <1>7, <3>2
      <4> QED BY <1>1, <1>3, <4>1, <4>2 DEF Own, Uploads, Stores, Removes, Moves, Enters, Uploading
    <3> QED BY <2>1, <3>1, <3>2
  <2> QED BY <1>1, <1>5, <1>9, <2>1, <2>2 DEF Lawful
<1> QED BY <1>10, <1>11

LEMMA StatStoredLawful ==
  ASSUME IInv, NEW t \in Thread, StatStored(t)
  PROVE  th[t].pc # "idle" /\ Lawful(t)
<1>1. PICK r \in Local : r = th[t] /\ r.pc = "check" /\ Fits(r) /\ Own(t)
  BY IInvParts DEF StatStored
<1>2. PICK outcome \in ReadOutcome(t) :
        /\ Answered(t, IF outcome = "ok" /\ Kind(r.to) # "none" THEN "ok" ELSE "failed")
        /\ Spend(t, outcome)
  BY <1>1 DEF StatStored
<1>3. UNCHANGED <<store, author, mixed, leaky>>
  BY DEF StatStored
<1>4. PICK answer \in {"ok", "failed"} : Answered(t, answer)
  BY <1>2
<1>5. Ends(t) /\ th'[t] = Idle
  BY <1>1, <1>4, AnsweredEnds DEF Answer
<1>6. Own(t)' /\ Enters(t)
  BY <1>5, NothingOwned, Constants DEF Uploading
<1>7. Sound(t)
  <2>1. r.method = "PUT" /\ ~r.failed
    BY <1>1 DEF Fits, Serves, Progress
  <2>2. r.to \notin mixed /\ author[r.to] = r.req => object[r.to] = r.body
    BY <1>1, <2>1 DEF Own, Stores
  <2> QED BY <1>1, <1>3, <2>1, <2>2 DEF Sound, store
<1> QED BY <1>1, <1>2, <1>3, <1>5, <1>6, <1>7, Spent, ReadLawful

(* A goroutine goes on without an upload.                                  *)
LEMMA WalksOn ==
  ASSUME IInv, NEW t \in Thread, th[t].pc \notin Uploading \cup {"clean", "check", "idle"},
         NEW next \in Local, GoesOn(t, next), Serves(next),
         next.pc \notin Uploading \cup {"clean", "check", "idle"},
         \A field \in {"method", "req", "name", "to", "body", "combined", "stored", "at", "jobs"} :
            next[field] = th[t][field]
  PROVE  Proceeds(t) /\ th'[t] = next /\ Sound(t) /\ Enters(t)
<1>1. PICK r \in Local : r = th[t] /\ r.pc # "idle" /\ Fits(r)
  BY IInvParts
<1>2. r.stored = 0 /\ r.at = 0
  BY <1>1 DEF Fits, Progress
<1>3. /\ next.method = r.method /\ next.req = r.req /\ next.name = r.name /\ next.to = r.to
      /\ next.body = r.body /\ next.combined = r.combined /\ next.stored = 0 /\ next.at = 0
      /\ next.jobs = r.jobs
  BY <1>1, <1>2
<1>4. Progress(next)
  BY <1>3 DEF Progress, Uploading
<1>5. Follows(t, next)
  BY <1>1, <1>3, <1>4 DEF Follows, Fits
<1>6. Proceeds(t) /\ th'[t] = next /\ Sound(t)
  BY <1>5, GoesOnProceeds
<1> QED BY <1>6 DEF Enters

(* Nothing is left for the request of t to remove.                         *)
Empties(t) ==
    \A r \in 1 .. MaxRequests, p \in Path :
        r = th[t].req /\ p = th[t].to /\ th[t].method = "DELETE" /\ ForceDelete => Left(p, r)' = {}

LEMMA ClearedGoesOn ==
  ASSUME IInv, NEW t \in Thread, th[t].pc \in {"dst", "rmstat", "rmlist", "rmkeep", "rm"},
         Cleared(t), Empties(t)
  PROVE  (Proceeds(t) \/ Ends(t)) /\ Sound(t) /\ Own(t)' /\ Enters(t)
<1>1. PICK r \in Local : r = th[t] /\ r.pc # "idle" /\ Fits(r) /\ r.method \in {"DELETE", "MOVE", "COPY"}
  BY IInvParts DEF Fits, Serves
<1>2. th[t].pc \notin Uploading \cup {"clean", "check", "idle"}
  BY DEF Uploading
<1>3. CASE r.method = "DELETE"
  <2>1. Answered(t, "ok")
    BY <1>1, <1>3 DEF Cleared
  <2>2. Ends(t) /\ th'[t] = Idle
    BY <1>1, <2>1, AnsweredEnds DEF Answer
  <2>3. Sound(t)
    BY <1>1, <1>3 DEF Sound, Empties
  <2> QED BY <2>2, <2>3, NothingOwned, Constants DEF Uploading
<1>4. ASSUME NEW label \in {"mvcopy", "mkdir", "read"},
             GoesOn(t, [r EXCEPT !.pc = label, !.todo = {}]),
             label = "mvcopy" => r.method = "MOVE",
             label \in {"mkdir", "read"} => r.method = "COPY"
      PROVE  Proceeds(t) /\ Sound(t) /\ Own(t)' /\ Enters(t)
  <2> DEFINE next == [r EXCEPT !.pc = label, !.todo = {}]
  <2>1. /\ next \in Local /\ next.pc = label
        /\ \A field \in {"method", "req", "name", "to", "body", "combined", "stored", "at", "jobs"} :
              next[field] = r[field]
    BY ZenonT(60) DEF Local, Label
  <2> HIDE DEF next
  <2>2. Serves(next) /\ next.pc \notin Uploading \cup {"clean", "check", "idle"}
    BY <1>4, <2>1 DEF Serves, Uploading
  <2>3. GoesOn(t, next)
    BY <1>4 DEF next
  <2>4. Proceeds(t) /\ th'[t] = next /\ Sound(t) /\ Enters(t)
    BY <1>1, <1>2, <2>1, <2>2, <2>3, WalksOn
  <2> QED BY <2>1, <2>4, NothingOwned DEF Uploading
<1>5. CASE r.method = "MOVE"
  BY <1>1, <1>4, <1>5 DEF Cleared
<1>6. CASE r.method = "COPY"
  <2>1. PICK label \in {"mkdir", "read"} : GoesOn(t, [r EXCEPT !.pc = label, !.todo = {}])
    BY <1>1, <1>6 DEF Cleared
  <2> QED BY <1>4, <1>6, <2>1
<1> QED BY <1>1, <1>3, <1>5, <1>6

LEMMA RequestOf ==
  ASSUME IInv, NEW t \in Thread, th[t].pc # "idle"
  PROVE  /\ th[t].req \in 1 .. MaxRequests /\ th[t].to \in Path /\ th[t].name \in Path
         /\ th \in [Thread -> Local] /\ StoreTyped
BY IInvParts, Constants, SMTT(60) DEF Fits, Local

(* What a step leaves of what a request has to remove.                     *)
LEMMA LeftShrinks ==
  ASSUME IInv, NEW t \in Thread, th[t].pc # "idle", Proceeds(t) \/ Ends(t),
         \A q \in Path : Untouched(q) \/ object'[q] = Gone,
         NEW d \in Path, NEW r \in 1 .. MaxRequests, NEW q \in Left(d, r)'
  PROVE  q \in Left(d, r) /\ object'[q] # Gone
<1>1. log'[r].beside = log[r].beside
  <2>1. log \in [1 .. MaxRequests -> LogEntry]
    BY DEF IInv, Types
  <2>2. CASE log' = log
    BY <2>2
  <2>3. ASSUME NEW answer, log' = [log EXCEPT ![th[t].req].answer = answer]
        PROVE  log'[r].beside = log[r].beside
    <3>1. CASE r = th[t].req
      BY <2>1, <2>3, <3>1 DEF LogEntry
    <3>2. CASE r # th[t].req
      BY <2>1, <2>3, <3>2
    <3> QED BY <3>1, <3>2
  <2> QED BY <2>2, <2>3 DEF Proceeds, Ends, Answered
<1>2. q \in Path /\ (q = d \/ IsUnder(q, d)) /\ object'[q] # Gone /\ ~Disturbed(q, r)'
  BY DEF Left, There
<1>3. Untouched(q)
  BY <1>2
<1> QED BY <1>1, <1>2, <1>3 DEF Left, There, Untouched, Disturbed

(* What is below a directory is an entry of it, or below an entry.         *)
LEMMA ListedCovers ==
  ASSUME NEW d \in Path, NEW q \in Path, IsUnder(q, d), There(q)
  PROVE  \E entry \in Listed(d) : q = entry \/ IsUnder(q, entry)
<1> DEFINE n == Len(d) + 1
           entry == SubSeq(q, 1, n)
<1>1. q \in Seq(Component) /\ d \in Seq(Component) /\ d # << >>
  BY PathsAreSequences
<1>2. n \in 1 .. Len(q) /\ SubSeq(q, 1, Len(d)) = d
  BY <1>1 DEF IsUnder
<1>3. entry \in Path
  BY <1>2, PrefixesArePaths
<1>4. Len(entry) = n /\ \A i \in 1 .. n : entry[i] = q[i]
  BY <1>1, <1>2
<1>5. Parent(entry) = d
  <2>1. entry \in Seq(Component)
    BY <1>3, PathsAreSequences
  <2> HIDE DEF entry
  <2>2. SubSeq(entry, 1, Len(d)) = SubSeq(q, 1, Len(d))
    BY <1>1, <1>2, <1>4, <2>1
  <2> QED BY <1>1, <1>2, <1>4, <2>2 DEF Parent
<1>6. q = entry \/ IsUnder(q, entry)
  <2>1. CASE n = Len(q)
    BY <1>1, <2>1
  <2>2. CASE n < Len(q)
    BY <1>1, <1>2, <1>4, <2>2 DEF IsUnder
  <2> QED BY <1>1, <1>2, <2>1, <2>2
<1>7. entry \in Listed(d)
  BY <1>3, <1>5, <1>6 DEF Listed
<1> QED BY <1>6, <1>7

LEMMA AsksOn ==
  ASSUME IInv, NEW t \in Thread, NEW label \in {"rmstat", "list"}, Asks(t, label),
         th[t].pc \notin Uploading \cup {"clean", "check", "idle"},
         label = "rmstat" => th[t].method \in {"DELETE", "MOVE", "COPY"},
         label = "list" => th[t].method = "COPY"
  PROVE  Proceeds(t) /\ Sound(t) /\ Own(t)' /\ Enters(t)
<1>1. PICK r \in Local : r = th[t]
  BY IInvParts
<1> DEFINE next == [r EXCEPT !.pc = label]
<1>2. /\ next \in Local /\ next.pc = label
      /\ \A field \in {"method", "req", "name", "to", "body", "combined", "stored", "at", "jobs"} :
            next[field] = r[field]
  BY DEF Local, Label
<1>3. GoesOn(t, next)
  BY <1>1 DEF Asks
<1> HIDE DEF next
<1>4. Serves(next) /\ next.pc \notin Uploading \cup {"clean", "check", "idle"}
  BY <1>1, <1>2 DEF Serves, Uploading
<1>5. Proceeds(t) /\ th'[t] = next /\ Sound(t) /\ Enters(t)
  BY <1>1, <1>2, <1>3, <1>4, WalksOn
<1> QED BY <1>2, <1>5, NothingOwned DEF Uploading

LEMMA MkdirLawful ==
  ASSUME IInv, NEW t \in Thread, Mkdir(t)
  PROVE  th[t].pc # "idle" /\ Lawful(t)
<1>1. PICK r \in Local : r = th[t] /\ r.pc \in {"mkcol", "mkdir"} /\ Fits(r) /\ r.to \in Path
  BY IInvParts DEF Mkdir, Fits
<1>2. PICK outcome \in Outcome(t) :
        /\ keep' = IF outcome = "refused" THEN keep ELSE keep \cup {r.to}
        /\ IF outcome # "ok" THEN Refuse(t)
           ELSE IF r.pc = "mkcol" THEN Answered(t, "ok")
           ELSE GoesOn(t, [r EXCEPT !.pc = "list"])
        /\ Spend(t, outcome)
  BY <1>1 DEF Mkdir
<1>3. UNCHANGED <<object, parts, author, mixed, leaky>>
  BY DEF Mkdir
<1>4. StoreTyped' /\ Effects(t)
  BY <1>1, <1>2, <1>3, IInvParts DEF StoreTyped, Effects, Untouched
<1>5. CASE Refuse(t)
  BY <1>1, <1>2, <1>4, <1>5, RefuseEnds, Spent DEF Lawful
<1>6. CASE r.pc = "mkcol" /\ Answered(t, "ok")
  <2>1. r.method = "MKCOL"
    BY <1>1, <1>6 DEF Fits, Serves
  <2>2. Ends(t) /\ th'[t] = Idle /\ Sound(t)
    BY <1>1, <1>6, <2>1, AnsweredEnds DEF Answer
  <2>3. Own(t)' /\ Enters(t)
    BY <2>2, NothingOwned, Constants DEF Uploading
  <2> QED BY <1>1, <1>2, <1>4, <2>2, <2>3, Spent DEF Lawful
<1>7. CASE r.pc = "mkdir" /\ GoesOn(t, [r EXCEPT !.pc = "list"])
  <2>1. Asks(t, "list") /\ r.method = "COPY"
    BY <1>1, <1>7 DEF Asks, Fits, Serves
  <2> QED BY <1>1, <1>2, <1>4, <1>7, <2>1, AsksOn, Spent DEF Lawful, Uploading
<1> QED BY <1>1, <1>2, <1>5, <1>6, <1>7

LEMMA StatDeletedLawful ==
  ASSUME IInv, NEW t \in Thread, StatDeleted(t)
  PROVE  th[t].pc # "idle" /\ Lawful(t)
<1>1. PICK r \in Local : r = th[t] /\ r.pc = "stat" /\ Fits(r)
  BY IInvParts DEF StatDeleted, Look
<1>2. Costs /\ UNCHANGED <<store, author, mixed, leaky>>
  BY Spent DEF StatDeleted, Look
<1>3. CASE Refuse(t)
  BY <1>1, <1>2, <1>3, RefuseEnds, ReadLawful
<1>4. CASE Asks(t, "rmstat")
  BY <1>1, <1>2, <1>4, AsksOn, ReadLawful DEF Fits, Serves, Uploading
<1> QED BY <1>1, <1>3, <1>4 DEF StatDeleted, Look

LEMMA StatDestinationLawful ==
  ASSUME IInv, NEW t \in Thread, StatDestination(t)
  PROVE  th[t].pc # "idle" /\ Lawful(t)
<1>1. PICK r \in Local : r = th[t] /\ r.pc = "dst" /\ Fits(r) /\ r.method \in {"MOVE", "COPY"}
  BY IInvParts DEF StatDestination, Look, Fits, Serves
<1>2. Costs /\ UNCHANGED <<store, author, mixed, leaky>>
  BY Spent DEF StatDestination, Look
<1>3. CASE Refuse(t)
  BY <1>1, <1>2, <1>3, RefuseEnds, ReadLawful
<1>4. CASE Asks(t, "rmstat")
  BY <1>1, <1>2, <1>4, AsksOn, ReadLawful DEF Fits, Serves, Uploading
<1>5. CASE Cleared(t)
  <2>1. Empties(t)
    BY <1>1 DEF Empties
  <2> QED BY <1>1, <1>2, <1>5, <2>1, ClearedGoesOn, ReadLawful
<1> QED BY <1>1, <1>3, <1>4, <1>5 DEF StatDestination, Look

(* A goroutine goes on with a removal.                                     *)
LEMMA RemovesOn ==
  ASSUME IInv, NEW t \in Thread, th[t].pc \in {"rmstat", "rmlist", "rmkeep", "rm"},
         NEW label \in {"rmlist", "rmkeep", "rm"}, NEW todo \in SUBSET Path,
         GoesOn(t, [th[t] EXCEPT !.pc = label, !.todo = todo]),
         NEW d \in Path, d = th[t].to, NEW n \in 1 .. MaxRequests, n = th[t].req,
         Proceeds(t) /\ ForceDelete /\ th[t].method = "DELETE" =>
            IF label = "rmlist" THEN d \notin Left(d, n)'
            ELSE \A q \in Left(d, n)' : \E entry \in todo : q \in Removed(entry)
  PROVE  Proceeds(t) /\ Sound(t) /\ Own(t)' /\ Enters(t)
<1>1. PICK r \in Local : r = th[t] /\ Fits(r)
  BY IInvParts
<1> DEFINE next == [r EXCEPT !.pc = label, !.todo = todo]
<1>2. /\ next \in Local /\ next.pc = label /\ next.todo = todo
      /\ \A field \in {"method", "req", "name", "to", "body", "combined", "stored", "at", "jobs"} :
              next[field] = r[field]
  BY ZenonT(60) DEF Local, Label
<1> HIDE DEF next
<1>3. Serves(next) /\ \A s \in {r, next} : s.pc \notin Uploading \cup {"clean", "check", "idle"}
  BY <1>1, <1>2 DEF Fits, Serves, Uploading
<1>4. Proceeds(t) /\ th'[t] = next /\ Sound(t) /\ Enters(t)
  <2>1. GoesOn(t, next)
    BY <1>1 DEF next
  <2> QED BY <1>1, <1>2, <1>3, <2>1, WalksOn
<1>5. next.to = d /\ next.req = n /\ next.method = th[t].method
  BY <1>1, <1>2
<1>6. Removes(t)'
  <2>1. SUFFICES ASSUME ForceDelete, th[t].method = "DELETE"
                 PROVE  /\ label = "rmlist" => d \notin Left(d, n)'
                        /\ label \in {"rmkeep", "rm"} =>
                              \A q \in Left(d, n)' : \E entry \in todo : q \in Removed(entry)
    BY <1>2, <1>4, <1>5 DEF Removes, Removed
  <2> QED BY <1>4, <2>1
<1>7. Own(t)'
  BY <1>2, <1>4, <1>6 DEF Own, Uploads, Stores, Moves, Uploading
<1> QED BY <1>4, <1>7

LEMMA StatRemovedLawful ==
  ASSUME IInv, NEW t \in Thread, StatRemoved(t)
  PROVE  th[t].pc # "idle" /\ Lawful(t)
<1>1. PICK r \in Local : r = th[t] /\ r.pc = "rmstat" /\ Fits(r)
  BY IInvParts DEF StatRemoved, Look
<1>2. Costs /\ UNCHANGED <<store, author, mixed, leaky>>
  BY Spent DEF StatRemoved, Look
<1>3. PICK d \in Path, n \in 1 .. MaxRequests : d = r.to /\ n = r.req
  BY <1>1, RequestOf
<1>4. \A q \in Left(d, n)' : q = d \/ IsUnder(q, d)
  BY DEF Left
<1>5. \A q \in Left(d, n)' : There(q)
  BY <1>2 DEF Left, store, There
<1>6. CASE Refuse(t)
  BY <1>1, <1>2, <1>6, RefuseEnds, ReadLawful
<1>7. CASE Answered(t, "unseen")
  <2>1. Ends(t) /\ th'[t] = Idle /\ Sound(t)
    BY <1>1, <1>7, AnsweredEnds DEF Answer
  <2>2. Own(t)' /\ Enters(t)
    BY <2>1, NothingOwned, Constants DEF Uploading
  <2> QED BY <1>1, <1>2, <2>1, <2>2, ReadLawful
<1>8. CASE Kind(d) = "none" /\ ~(r.method = "DELETE" /\ Hides(d)) /\ Cleared(t)
  <2>1. r.method = "DELETE" => Left(d, n)' = {}
    <3>1. ~There(d)
      BY <1>8 DEF Kind
    <3>2. r.method = "DELETE" => \A q \in Path : IsUnder(q, d) => ~There(q)
      BY <1>8 DEF Hides
    <3>3. Left(d, n)' \subseteq Path
      BY DEF Left
    <3> QED BY <1>4, <1>5, <3>1, <3>2, <3>3
  <2>2. Empties(t)
    BY <1>1, <1>3, <2>1 DEF Empties
  <2> QED BY <1>1, <1>2, <1>8, <2>2, ClearedGoesOn, ReadLawful
<1>9. CASE GoesOn(t, [r EXCEPT !.pc = "rm", !.todo = {d}])
  <2>1. PICK todo \in SUBSET Path : todo = {d}
    OBVIOUS
  <2>2. ForceDelete => \A q \in Left(d, n)' : \E entry \in todo : q \in Removed(entry)
    <3>1. Left(d, n)' \subseteq Path
      BY DEF Left
    <3> QED BY <1>4, <2>1, <3>1 DEF Removed
  <2>3. GoesOn(t, [th[t] EXCEPT !.pc = "rm", !.todo = todo])
    BY <1>1, <1>9, <2>1
  <2> QED BY <1>1, <1>2, <1>3, <2>2, <2>3, RemovesOn, ReadLawful
<1>10. CASE Kind(d) = "dir" /\ GoesOn(t, [r EXCEPT !.pc = "rmlist"])
  <2>1. d \notin Left(d, n)'
    BY <1>5, <1>10 DEF Kind
  <2>2. GoesOn(t, [r EXCEPT !.pc = "rmlist", !.todo = r.todo]) /\ r.todo \in SUBSET Path
    <3>1. [r EXCEPT !.pc = "rmlist"] = [r EXCEPT !.pc = "rmlist", !.todo = r.todo]
      BY DEF Local
    <3> QED BY <1>10, <3>1 DEF Local
  <2> QED BY <1>1, <1>2, <1>3, <2>1, <2>2, RemovesOn, ReadLawful
<1>11. PICK outcome \in ReadOutcome(t) :
         IF outcome = "ok"
         THEN CASE Kind(d) = "none" ->
                      IF r.method = "DELETE" /\ Hides(d) THEN Answered(t, "unseen") ELSE Cleared(t)
                [] Kind(d) = "file" -> GoesOn(t, [r EXCEPT !.pc = "rm", !.todo = {d}])
                [] Kind(d) = "dir" -> GoesOn(t, [r EXCEPT !.pc = "rmlist"])
         ELSE Refuse(t)
  BY <1>1, <1>3 DEF StatRemoved, Look, Asks
<1>12. Kind(d) \in {"none", "file", "dir"}
  BY DEF Kind
<1> QED BY <1>1, <1>6, <1>7, <1>8, <1>9, <1>10, <1>11, <1>12

LEMMA ListRemovedLawful ==
  ASSUME IInv, NEW t \in Thread, ListRemoved(t)
  PROVE  th[t].pc # "idle" /\ Lawful(t)
<1>1. PICK r \in Local : r = th[t] /\ r.pc = "rmlist" /\ Fits(r) /\ Own(t)
  BY IInvParts DEF ListRemoved, Look
<1>2. Costs /\ UNCHANGED <<store, author, mixed, leaky>>
  BY Spent DEF ListRemoved, Look
<1>3. PICK d \in Path, n \in 1 .. MaxRequests : d = r.to /\ n = r.req
  BY <1>1, RequestOf
<1>4. ASSUME Proceeds(t) \/ Ends(t), ForceDelete, r.method = "DELETE", NEW q \in Left(d, n)'
      PROVE  \E entry \in Listed(d) : q \in Removed(entry)
  <2>1. q \in Left(d, n)
    <3>1. \A p \in Path : Untouched(p)
      BY <1>2 DEF store, Untouched
    <3> QED BY <1>1, <1>4, <3>1, LeftShrinks
  <2>2. d \notin Left(d, n)
    BY <1>1, <1>3, <1>4 DEF Own, Removes
  <2>3. q \in Path /\ There(q) /\ IsUnder(q, d)
    BY <2>1, <2>2 DEF Left
  <2> QED BY <1>4, <2>3, ListedCovers DEF Removed
<1>5. CASE Refuse(t)
  BY <1>1, <1>2, <1>5, RefuseEnds, ReadLawful
<1>6. CASE Listed(d) = {} /\ Cleared(t)
  <2>1. r.method = "DELETE" => Ends(t)
    BY <1>1, <1>6, AnsweredEnds DEF Cleared, Answer
  <2>2. Empties(t)
    BY <1>1, <1>3, <1>4, <1>6, <2>1 DEF Empties
  <2> QED BY <1>1, <1>2, <1>6, <2>2, ClearedGoesOn, ReadLawful
<1>7. ASSUME NEW label \in {"rmkeep", "rm"},
             GoesOn(t, [r EXCEPT !.pc = label, !.todo = Listed(d)])
      PROVE  Lawful(t)
  <2>1. Listed(d) \in SUBSET Path
    BY DEF Listed
  <2>2. Proceeds(t) /\ ForceDelete /\ r.method = "DELETE" =>
           \A q \in Left(d, n)' : \E entry \in Listed(d) : q \in Removed(entry)
    BY <1>4
  <2>3. GoesOn(t, [th[t] EXCEPT !.pc = label, !.todo = Listed(d)])
    BY <1>1, <1>7
  <2>4. Proceeds(t) /\ Sound(t) /\ Own(t)' /\ Enters(t)
    BY <1>1, <1>3, <2>1, <2>2, <2>3, RemovesOn
  <2> QED BY <1>2, <2>4, ReadLawful
<1>8. PICK label \in {"rmkeep", "rm"} :
        \/ Refuse(t)
        \/ Listed(d) = {} /\ Cleared(t)
        \/ GoesOn(t, [r EXCEPT !.pc = label, !.todo = Listed(d)])
  BY <1>1, <1>3 DEF ListRemoved, Look
<1> QED BY <1>1, <1>5, <1>6, <1>7, <1>8

LEMMA RemoveKeepLawful ==
  ASSUME IInv, NEW t \in Thread, RemoveKeep(t)
  PROVE  th[t].pc # "idle" /\ Lawful(t)
<1>1. PICK r \in Local : r = th[t] /\ r.pc = "rmkeep" /\ Fits(r) /\ Own(t)
  BY IInvParts DEF RemoveKeep
<1>2. PICK outcome \in Outcome(t) :
        /\ keep' = IF outcome = "refused" THEN keep ELSE keep \ {r.to}
        /\ IF outcome # "ok" THEN Refuse(t)
           ELSE IF r.todo = {} THEN Cleared(t) ELSE GoesOn(t, [r EXCEPT !.pc = "rm"])
        /\ Spend(t, outcome)
  BY <1>1 DEF RemoveKeep, Asks
<1>3. UNCHANGED <<object, parts, author, mixed, leaky>>
  BY DEF RemoveKeep
<1>4. StoreTyped' /\ Effects(t) /\ Costs
  BY <1>2, <1>3, Spent, IInvParts DEF StoreTyped, Effects, Untouched
<1>5. PICK d \in Path, n \in 1 .. MaxRequests : d = r.to /\ n = r.req
  BY <1>1, RequestOf
<1>6. ASSUME Proceeds(t) \/ Ends(t), ForceDelete, r.method = "DELETE", NEW q \in Left(d, n)'
      PROVE  \E entry \in r.todo : q \in Removed(entry)
  <2>1. q \in Left(d, n)
    <3>1. \A p \in Path : Untouched(p)
      BY <1>3 DEF Untouched
    <3> QED BY <1>1, <1>6, <3>1, LeftShrinks
  <2> QED BY <1>1, <1>5, <1>6, <2>1 DEF Own, Removes
<1>7. CASE Refuse(t)
  BY <1>1, <1>4, <1>7, RefuseEnds DEF Lawful
<1>8. CASE r.todo = {} /\ Cleared(t)
  <2>1. r.method = "DELETE" => Ends(t)
    BY <1>1, <1>8, AnsweredEnds DEF Cleared, Answer
  <2>2. Empties(t)
    BY <1>1, <1>5, <1>6, <1>8, <2>1 DEF Empties
  <2> QED BY <1>1, <1>4, <1>8, <2>2, ClearedGoesOn DEF Lawful
<1>9. CASE GoesOn(t, [r EXCEPT !.pc = "rm"])
  <2>1. GoesOn(t, [th[t] EXCEPT !.pc = "rm", !.todo = r.todo]) /\ r.todo \in SUBSET Path
    <3>1. [r EXCEPT !.pc = "rm"] = [r EXCEPT !.pc = "rm", !.todo = r.todo]
      BY DEF Local
    <3> QED BY <1>1, <1>9, <3>1 DEF Local
  <2>2. Proceeds(t) /\ ForceDelete /\ r.method = "DELETE" =>
           \A q \in Left(d, n)' : \E entry \in r.todo : q \in Removed(entry)
    BY <1>6
  <2> QED BY <1>1, <1>4, <1>5, <2>1, <2>2, RemovesOn, ZenonT(60) DEF Lawful
<1> QED BY <1>1, <1>2, <1>7, <1>8, <1>9

(* Objects are removed for the request of t.                               *)
LEMMA WithoutEffects ==
  ASSUME IInv, NEW t \in Thread, th[t].pc # "idle", NEW S \in SUBSET Path,
         UNCHANGED <<object, author>> \/ WithoutObjects(S, th[t].req),
         keep' \subseteq keep, UNCHANGED <<parts, mixed, leaky>>
  PROVE  /\ StoreTyped' /\ Effects(t)
         /\ \A q \in Path : Untouched(q) \/ object'[q] = Gone
         /\ WithoutObjects(S, th[t].req) => \A q \in S : object'[q] = Gone
<1>1. th[t].req \in 0 .. MaxRequests /\ StoreTyped
  BY RequestOf
<1>2. CASE UNCHANGED <<object, author>>
  <2>1. StoreTyped' /\ Effects(t) /\ \A q \in Path : Untouched(q)
    BY <1>1, <1>2 DEF StoreTyped, Effects, Untouched
  <2> QED BY <1>1, <2>1 DEF WithoutObjects, StoreTyped
<1>3. CASE WithoutObjects(S, th[t].req)
  <2>1. \A q \in Path : Untouched(q) \/ Erases(t, q)
    BY <1>1, <1>3 DEF WithoutObjects, Untouched, Erases, StoreTyped, There
  <2>2. /\ object' \in [Path -> Bytes \cup {Gone}] /\ author' \in [Path -> 0 .. MaxRequests]
        /\ \A q \in S : object'[q] = Gone
    BY <1>1, <1>3 DEF WithoutObjects, StoreTyped
  <2>3. Effects(t)
    BY <2>1 DEF Effects
  <2>4. StoreTyped'
    BY <1>1, <2>2 DEF StoreTyped
  <2> QED BY <2>1, <2>2, <2>3, <2>4 DEF Erases
<1> QED BY <1>2, <1>3

LEMMA RemoveEntryLawful ==
  ASSUME IInv, NEW t \in Thread, RemoveEntry(t)
  PROVE  th[t].pc # "idle" /\ Lawful(t)
<1>1. PICK r \in Local : r = th[t] /\ r.pc = "rm" /\ Fits(r) /\ Own(t)
  BY IInvParts DEF RemoveEntry
<1>2. PICK entry \in r.todo, outcome \in Outcome(t) :
        /\ IF outcome = "refused" THEN UNCHANGED <<object, keep, author>>
           ELSE /\ WithoutObjects(Removed(entry), r.req)
                /\ keep' = IF ForceDelete THEN keep \ Removed(entry) ELSE keep
        /\ IF outcome # "ok" THEN Refuse(t)
           ELSE IF r.todo = {entry} THEN Cleared(t)
           ELSE GoesOn(t, [r EXCEPT !.todo = @ \ {entry}])
        /\ Spend(t, outcome)
  BY <1>1 DEF RemoveEntry
<1>3. UNCHANGED <<parts, mixed, leaky>>
  BY DEF RemoveEntry
<1>4. PICK d \in Path, n \in 1 .. MaxRequests : d = r.to /\ n = r.req
  BY <1>1, RequestOf
<1>5. /\ StoreTyped' /\ Effects(t) /\ Costs
      /\ \A q \in Path : Untouched(q) \/ object'[q] = Gone
      /\ outcome = "ok" => \A q \in Removed(entry) : object'[q] = Gone
  <2>1. Removed(entry) \in SUBSET Path
    BY DEF Removed
  <2>2. UNCHANGED <<object, author>> \/ WithoutObjects(Removed(entry), th[t].req)
    BY <1>1, <1>2
  <2>3. keep' \subseteq keep
    BY <1>2
  <2>4. outcome = "ok" => WithoutObjects(Removed(entry), th[t].req)
    BY <1>1, <1>2
  <2> QED BY <1>1, <1>2, <1>3, <2>1, <2>2, <2>3, <2>4, WithoutEffects, Spent
<1>6. ASSUME Proceeds(t) \/ Ends(t), ForceDelete, r.method = "DELETE", outcome = "ok",
             NEW q \in Left(d, n)'
      PROVE  \E e \in r.todo \ {entry} : q \in Removed(e)
  <2>1. q \in Left(d, n) /\ object'[q] # Gone
    BY <1>1, <1>5, <1>6, LeftShrinks
  <2>2. PICK e \in r.todo : q \in Removed(e)
    BY <1>1, <1>4, <1>6, <2>1 DEF Own, Removes
  <2> QED BY <1>5, <1>6, <2>1, <2>2
<1>7. CASE Refuse(t)
  BY <1>1, <1>5, <1>7, RefuseEnds DEF Lawful
<1>8. CASE outcome = "ok" /\ r.todo = {entry} /\ Cleared(t)
  <2>1. r.method = "DELETE" => Ends(t)
    BY <1>1, <1>8, AnsweredEnds DEF Cleared, Answer
  <2>2. Empties(t)
    BY <1>1, <1>4, <1>6, <1>8, <2>1 DEF Empties
  <2> QED BY <1>1, <1>5, <1>8, <2>2, ClearedGoesOn DEF Lawful
<1>9. CASE outcome = "ok" /\ GoesOn(t, [r EXCEPT !.todo = @ \ {entry}])
  <2>1. PICK todo \in SUBSET Path : todo = r.todo \ {entry}
    BY DEF Local
  <2>2. GoesOn(t, [th[t] EXCEPT !.pc = "rm", !.todo = todo])
    <3>1. [r EXCEPT !.todo = @ \ {entry}] = [r EXCEPT !.pc = "rm", !.todo = todo]
      BY <1>1, <2>1 DEF Local
    <3> QED BY <1>1, <1>9, <3>1
  <2>3. Proceeds(t) /\ ForceDelete /\ r.method = "DELETE" =>
           \A q \in Left(d, n)' : \E e \in todo : q \in Removed(e)
    BY <1>6, <1>9, <2>1
  <2> QED BY <1>1, <1>4, <1>5, <2>2, <2>3, RemovesOn DEF Lawful
<1> QED BY <1>1, <1>2, <1>7, <1>8, <1>9

LEMMA RenameCopyLawful ==
  ASSUME IInv, NEW t \in Thread, RenameCopy(t)
  PROVE  th[t].pc # "idle" /\ Lawful(t)
<1>1. PICK r \in Local : r = th[t] /\ r.pc = "mvcopy" /\ Fits(r) /\ Own(t)
  BY IInvParts DEF RenameCopy
<1>2. /\ r.name \in Path /\ r.to \in Path /\ r.name # r.to /\ r.method = "MOVE"
      /\ r.req \in 1 .. MaxRequests /\ StoreTyped
  BY <1>1, RequestOf DEF Fits, Serves
<1>3. CASE Refuse(t) /\ UNCHANGED <<store, used, author, mixed, leaky>>
  BY <1>1, <1>3, RefuseEnds, NothingSpent, ReadLawful
<1>4. ASSUME There(r.name), UNCHANGED <<keep, parts, leaky>>, NEW outcome \in Outcome(t),
             IF outcome = "refused" THEN UNCHANGED <<object, author>>
             ELSE Write(r.to, object[r.name], r.req),
             IF outcome = "ok" THEN Asks(t, "mvremove") ELSE Refuse(t),
             mixed' = (IF r.name \in mixed \/ Writers(r.to, t) # {} THEN mixed \cup {r.to} ELSE mixed),
             Spend(t, outcome)
      PROVE  Lawful(t)
  <2>1. PICK content \in Bytes : content = object[r.name]
    BY <1>2, <1>4 DEF StoreTyped, There
  <2>2. StoreTyped' /\ Effects(t) /\ (outcome = "ok" => object'[r.to] = object'[r.name])
    <3>1. CASE UNCHANGED <<object, author>> /\ outcome = "refused"
      BY <1>2, <1>4, <3>1 DEF StoreTyped, Effects, Untouched
    <3>2. CASE Write(r.to, content, r.req)
      <4>1. /\ object' \in [Path -> Bytes \cup {Gone}] /\ author' \in [Path -> 0 .. MaxRequests]
            /\ object'[r.to] = content /\ author'[r.to] = r.req
            /\ \A p \in Path \ {r.to} : Untouched(p)
        BY <1>2, <3>2 DEF Write, StoreTyped, Untouched
      <4>2. StoreTyped'
        BY <1>2, <1>4, <4>1 DEF StoreTyped
      <4>3. r.to \notin mixed' => OneUpload(content) /\ Writers(r.to, t) = {}
        BY <1>2, <1>4, <2>1 DEF IInv, Whole
      <4>4. Writes(t, r.to)
        BY <1>1, <4>1, <4>3, Constants DEF Writes
      <4>5. Effects(t)
        BY <1>2, <1>4, <4>1, <4>4 DEF Effects
      <4> QED BY <1>2, <2>1, <4>1, <4>2, <4>5 DEF Untouched
    <3> QED BY <1>4, <2>1, <3>1, <3>2
  <2>3. CASE Refuse(t)
    BY <1>1, <1>4, <2>2, <2>3, RefuseEnds, Spent DEF Lawful
  <2>4. CASE outcome = "ok" /\ Asks(t, "mvremove")
    <3> DEFINE next == [r EXCEPT !.pc = "mvremove"]
    <3>1. /\ next \in Local /\ next.pc = "mvremove"
          /\ \A field \in {"method", "req", "name", "to", "body", "combined", "stored", "at", "jobs"} :
                next[field] = r[field]
      BY DEF Local, Label
    <3>2. GoesOn(t, next)
      BY <1>1, <2>4 DEF Asks
    <3> HIDE DEF next
    <3>3. Serves(next) /\ \A s \in {r, next} : s.pc \notin Uploading \cup {"clean", "check", "idle"}
      BY <1>1, <1>2, <3>1 DEF Serves, Uploading
    <3>4. Proceeds(t) /\ th'[t] = next /\ Sound(t) /\ Enters(t)
      BY <1>1, <3>1, <3>2, <3>3, WalksOn
    <3>5. Own(t)'
      BY <2>2, <2>4, <3>1, <3>4 DEF Own, Uploads, Stores, Removes, Moves, Uploading
    <3> QED BY <1>4, <2>2, <3>4, <3>5, Spent DEF Lawful
  <2> QED BY <1>4, <2>3, <2>4
<1> QED BY <1>1, <1>3, <1>4 DEF RenameCopy

LEMMA RenameRemoveLawful ==
  ASSUME IInv, NEW t \in Thread, RenameRemove(t)
  PROVE  th[t].pc # "idle" /\ Lawful(t)
<1>1. PICK r \in Local : r = th[t] /\ r.pc = "mvremove" /\ Fits(r) /\ r.method = "MOVE"
  BY IInvParts DEF RenameRemove, Fits, Serves
<1>2. PICK outcome \in Outcome(t) :
        /\ IF outcome = "refused" THEN UNCHANGED <<object, keep, author>>
           ELSE /\ WithoutObjects(Removed(r.name), r.req)
                /\ keep' = IF ForceDelete THEN keep \ Removed(r.name) ELSE keep
        /\ IF outcome = "ok" THEN Answered(t, "ok") ELSE Refuse(t)
        /\ Spend(t, outcome)
  BY <1>1 DEF RenameRemove
<1>3. UNCHANGED <<parts, mixed, leaky>>
  BY DEF RenameRemove
<1>4. StoreTyped' /\ Effects(t)
  <2>1. Removed(r.name) \in SUBSET Path
    BY DEF Removed
  <2>2. UNCHANGED <<object, author>> \/ WithoutObjects(Removed(r.name), th[t].req)
    BY <1>1, <1>2
  <2>3. keep' \subseteq keep
    BY <1>2
  <2> QED BY <1>1, <1>3, <2>1, <2>2, <2>3, WithoutEffects
<1>5. CASE Refuse(t)
  BY <1>1, <1>2, <1>4, <1>5, RefuseEnds, Spent DEF Lawful
<1>6. CASE Answered(t, "ok")
  <2>1. Ends(t) /\ th'[t] = Idle /\ Sound(t)
    BY <1>1, <1>6, AnsweredEnds DEF Answer
  <2>2. Own(t)' /\ Enters(t)
    BY <2>1, NothingOwned, Constants DEF Uploading
  <2> QED BY <1>1, <1>2, <1>4, <2>1, <2>2, Spent DEF Lawful
<1> QED BY <1>1, <1>2, <1>5, <1>6

LEMMA StatSourceLawful ==
  ASSUME IInv, NEW t \in Thread, StatSource(t)
  PROVE  th[t].pc # "idle" /\ Lawful(t)
<1>1. PICK r \in Local : r = th[t] /\ r.pc = "src" /\ Fits(r) /\ r.method = "COPY"
  BY IInvParts DEF StatSource, Look, Fits, Serves
<1>2. Costs /\ UNCHANGED <<store, author, mixed, leaky>>
  BY Spent DEF StatSource, Look
<1>3. CASE Refuse(t)
  BY <1>1, <1>2, <1>3, RefuseEnds, ReadLawful
<1>4. ASSUME NEW dir \in BOOLEAN, GoesOn(t, [r EXCEPT !.pc = "dst", !.dir = dir])
      PROVE  Lawful(t)
  <2> DEFINE next == [r EXCEPT !.pc = "dst", !.dir = dir]
  <2>1. /\ next \in Local /\ next.pc = "dst"
        /\ \A field \in {"method", "req", "name", "to", "body", "combined", "stored", "at", "jobs"} :
              next[field] = r[field]
    BY ZenonT(60) DEF Local, Label
  <2> HIDE DEF next
  <2>2. Serves(next) /\ \A s \in {r, next} : s.pc \notin Uploading \cup {"clean", "check", "idle"}
    BY <1>1, <2>1 DEF Serves, Uploading
  <2>3. Proceeds(t) /\ th'[t] = next /\ Sound(t) /\ Enters(t)
    <3>1. GoesOn(t, next)
      BY <1>4 DEF next
    <3> QED BY <1>1, <2>1, <2>2, <3>1, WalksOn
  <2>4. Own(t)'
    BY <2>1, <2>3, NothingOwned DEF Uploading
  <2> QED BY <1>2, <2>3, <2>4, ReadLawful
<1>5. PICK dir \in BOOLEAN : Refuse(t) \/ GoesOn(t, [r EXCEPT !.pc = "dst", !.dir = dir])
  BY <1>1 DEF StatSource, Look
<1> QED BY <1>1, <1>3, <1>4, <1>5

LEMMA ListSourceLawful ==
  ASSUME IInv, NEW t \in Thread, ListSource(t)
  PROVE  th[t].pc # "idle" /\ Lawful(t)
<1>1. PICK r \in Local : r = th[t] /\ r.pc = "list" /\ Fits(r) /\ r.method = "COPY"
  BY IInvParts DEF ListSource, Look, Fits, Serves
<1>2. Costs /\ UNCHANGED <<store, author, mixed, leaky>>
  BY Spent DEF ListSource, Look
<1>3. CASE Refuse(t)
  BY <1>1, <1>2, <1>3, RefuseEnds, ReadLawful
<1> DEFINE jobs == r.jobs \cup { <<q, Rebase(q, r.name, r.to)>> : q \in Listed(r.name) }
           next == [r EXCEPT !.jobs = jobs]
<1>4. /\ jobs \in SUBSET (Path \X Path)
      /\ \A job \in jobs : Carries(job[1], job[2])
  <2>1. r.jobs \in SUBSET (Path \X Path) /\ \A job \in r.jobs : Carries(job[1], job[2])
    BY <1>1 DEF Fits, Local
  <2>2. ASSUME NEW q \in Listed(r.name)
        PROVE  /\ q \in Path /\ Rebase(q, r.name, r.to) \in Path
               /\ Carries(q, Rebase(q, r.name, r.to))
    <3>1. r.name \in Path /\ r.to \in Path /\ Carries(r.name, r.to)
      BY <1>1 DEF Fits
    <3>2. q \in Path /\ Parent(q) = r.name
      BY DEF Listed
    <3> QED BY <3>1, <3>2, ChildCarries
  <2> QED BY <2>1, <2>2
<1> HIDE DEF jobs
<1>5. next \in Local /\ next.jobs = jobs /\ next.req = r.req
  BY <1>4 DEF Local
<1>6. CASE NextJob(t, next)
  <2> HIDE DEF next
  <2>1. (Proceeds(t) \/ Ends(t)) /\ Sound(t) /\ th'[t].pc \in {"idle", "src"}
    BY <1>1, <1>4, <1>5, <1>6, NextJobGoesOn
  <2>2. Own(t)' /\ Enters(t)
    BY <2>1, NothingOwned DEF Uploading
  <2> QED BY <1>1, <1>2, <2>1, <2>2, ReadLawful
<1>7. Refuse(t) \/ NextJob(t, next)
  <2> USE DEF jobs
  <2> QED BY <1>1 DEF ListSource, Look
<1> QED BY <1>1, <1>3, <1>6, <1>7

LEMMA PrefixOneUpload ==
  ASSUME NEW s \in Bytes, NEW n \in 0 .. Len(s)
  PROVE  /\ SubSeq(s, 1, n) \in Bytes /\ Len(SubSeq(s, 1, n)) = n
         /\ OneUpload(s) => OneUpload(SubSeq(s, 1, n))
<1> DEFINE S == Piece \ {NoPiece}
<1>1. s \in Seq(S) /\ n \in Nat /\ n <= Len(s)
  BY LenProperties DEF Bytes
<1> HIDE DEF S
<1>2. /\ SubSeq(s, 1, n) \in Seq(S) /\ Len(SubSeq(s, 1, n)) = n
      /\ \A i \in 1 .. n : SubSeq(s, 1, n)[i] = s[i]
  BY <1>1
<1>3. OneUpload(s) => OneUpload(SubSeq(s, 1, n))
  BY <1>1, <1>2 DEF OneUpload
<1> QED BY <1>2, <1>3 DEF S, Bytes

LEMMA ReadSourceLawful ==
  ASSUME IInv, NEW t \in Thread, ReadSource(t)
  PROVE  th[t].pc # "idle" /\ Lawful(t)
<1>1. PICK r \in Local : r = th[t] /\ r.pc = "read" /\ Fits(r)
  BY IInvParts DEF ReadSource
<1>2. /\ r.name \in Path /\ r.to \in Path /\ r.method = "COPY" /\ r.stored = 0 /\ r.at = 0
      /\ StoreTyped
  BY <1>1, RequestOf DEF Fits, Serves, Progress, Uploading
<1>3. /\ mixed' = IF r.name \in mixed \/ Writers(r.to, t) # {} THEN mixed \cup {r.to} ELSE mixed
      /\ UNCHANGED <<store, author, leaky>>
  BY <1>1 DEF ReadSource
<1>4. PICK outcome \in ReadOutcome(t), body \in Bytes, failed \in BOOLEAN :
        /\ GoesOn(t, [r EXCEPT !.pc = First(Len(body)), !.body = body, !.failed = failed])
        /\ Spend(t, outcome)
        /\ (There(r.name) => OneUpload(object[r.name])) => OneUpload(body)
  <2>1. PICK outcome \in ReadOutcome(t) :
          /\ IF ~There(r.name)
             THEN GoesOn(t, [r EXCEPT !.pc = First(Len(<< >>)), !.body = << >>, !.failed = TRUE])
             ELSE IF outcome = "ok"
             THEN GoesOn(t, [r EXCEPT !.pc = First(Len(object[r.name])), !.body = object[r.name],
                                      !.failed = FALSE])
             ELSE \E n \in 0 .. Len(object[r.name]) :
                    GoesOn(t, [r EXCEPT !.pc = First(Len(SubSeq(object[r.name], 1, n))),
                                        !.body = SubSeq(object[r.name], 1, n), !.failed = TRUE])
          /\ Spend(t, outcome)
    BY <1>1 DEF ReadSource
  <2>2. CASE ~There(r.name)
    <3>1. OneUpload(<< >>)
      BY Constants DEF OneUpload
    <3> QED BY <2>1, <2>2, <3>1, Constants
  <2>3. CASE There(r.name) /\ outcome = "ok"
    <3>1. object[r.name] \in Bytes
      BY <1>2, <2>3 DEF StoreTyped, There
    <3> QED BY <2>1, <2>3, <3>1
  <2>4. CASE There(r.name) /\ outcome # "ok"
    <3>1. PICK s \in Bytes : s = object[r.name]
      BY <1>2, <2>4 DEF StoreTyped, There
    <3>2. PICK n \in 0 .. Len(s) :
            GoesOn(t, [r EXCEPT !.pc = First(Len(SubSeq(s, 1, n))), !.body = SubSeq(s, 1, n),
                                !.failed = TRUE])
      BY <2>1, <2>4, <3>1
    <3>3. SubSeq(s, 1, n) \in Bytes /\ (OneUpload(s) => OneUpload(SubSeq(s, 1, n)))
      BY PrefixOneUpload
    <3> QED BY <2>1, <2>4, <3>1, <3>2, <3>3
  <2> QED BY <2>2, <2>3, <2>4
<1>5. Costs
  BY <1>4, Spent
<1>6. StoreTyped' /\ Effects(t)
  BY <1>2, <1>3 DEF StoreTyped, store, Effects, Untouched
<1>7. r.to \notin mixed' => OneUpload(body) /\ Writers(r.to, t) = {}
  BY <1>2, <1>3, <1>4 DEF IInv, Whole
<1> DEFINE label == First(Len(body))
<1>8. label \in {"put", "empty"} /\ (label = "put" => 0 < Len(body)) /\ (label = "empty" => body = << >>)
  BY LenProperties, EmptySeq DEF First, Bytes
<1> HIDE DEF label
<1> DEFINE next == [r EXCEPT !.pc = label, !.body = body, !.failed = failed]
<1>9. GoesOn(t, next)
  BY <1>4 DEF label
<1>10. /\ next \in Local /\ next.pc = label /\ next.body = body /\ next.to = r.to
       /\ \A field \in {"method", "req", "name", "combined", "stored", "at", "jobs"} :
             next[field] = r[field]
  <2>1. body \in Seq(Piece)
    BY DEF Bytes
  <2> QED BY <1>8, <2>1, ZenonT(60) DEF Local, Label
<1> HIDE DEF next
<1>11. Follows(t, next)
  BY <1>1, <1>2, <1>8, <1>10 DEF Follows, Fits, Serves, Progress, Uploading
<1>12. Proceeds(t) /\ th'[t] = next /\ Sound(t)
  BY <1>1, <1>9, <1>11, GoesOnProceeds
<1>13. Own(t)' /\ Enters(t)
  <2>1. \A x \in parts' : x.number \in Nat
    BY <1>6 DEF StoreTyped, PartObject
  <2> QED BY <1>2, <1>7, <1>8, <1>10, <1>12, <2>1
      DEF Own, Uploads, Stores, Removes, Moves, Enters, Uploading
<1> QED BY <1>1, <1>5, <1>6, <1>12, <1>13 DEF Lawful

-----------------------------------------------------------------------------
(* Requests come, clients go away, the process dies                        *)
-----------------------------------------------------------------------------
(* A request that a goroutine is given.                                    *)
Given(r, dest) ==
    /\ r \in Local /\ Fits(r) /\ r.method # "none" /\ r.req = NewRequest /\ dest \in Path
    /\ r.pc \in {"put", "empty"} => r.method = "PUT"
    /\ r.pc \in {"put", "empty", "stat", "mkcol", "dst", "src"}
    /\ r.method \in {"PUT", "DELETE"} => dest = r.to
    /\ r.method = "PUT" => OneUpload(r.body)
    /\ r.stored = 0

LEMMA IssueKeeps ==
  ASSUME IInv, NEW t \in Thread, NEW request, NEW dest \in Path, Issue(t, request, dest),
         Given([request EXCEPT !.req = NewRequest], dest),
         [request EXCEPT !.req = NewRequest].method = request.method,
         [request EXCEPT !.req = NewRequest].body = request.body
  PROVE  IInv'
<1> DEFINE n == NewRequest
<1>1. PICK r \in Local : r = [request EXCEPT !.req = n]
  BY DEF Given
<1>2. Given(r, dest) /\ r.method = request.method /\ r.body = request.body
  BY <1>1
<1>3. /\ used \in Count /\ log \in [1 .. MaxRequests -> LogEntry] /\ th \in [Thread -> Local]
      /\ StoreTyped /\ th[t].pc = "idle"
  BY IInvParts DEF IInv, Types, Issue
<1>4. /\ used.requests \in 0 .. MaxRequests /\ n = used.requests + 1 /\ n \in 1 .. MaxRequests
      /\ used' = [used EXCEPT !.requests = n] /\ used' \in Count /\ used'.requests = n
  BY <1>3, Constants, SMTT(60) DEF Issue, NewRequest, Count
<1>5. /\ th' = [th EXCEPT ![t] = r] /\ th' \in [Thread -> Local] /\ th'[t] = r
      /\ \A u \in Thread \ {t} : th'[u] = th[u]
  BY <1>1, <1>3 DEF Issue, Become
<1> DEFINE entry == [answer |-> "none", method |-> r.method, on |-> dest, body |-> r.body,
                     beside |-> Busy]
<1>6. log' = [log EXCEPT ![n] = entry]
  BY <1>2 DEF Issue
<1>7. /\ mixed' = (IF r.method = "PUT" /\ Writers(dest, t) # {} THEN mixed \cup {dest} ELSE mixed)
      /\ UNCHANGED <<object, keep, parts, author, leaky>>
  BY <1>2 DEF Issue, store
<1>8. entry \in LogEntry
  <2>1. Busy \subseteq 0 .. MaxRequests
    BY <1>3 DEF Busy, Local
  <2>2. r.method \in Method \cup {"none"} /\ r.body \in Bytes
    BY <1>2 DEF Given, Local, Fits
  <2> QED BY <2>1, <2>2 DEF LogEntry, Answer
<1>9. log' \in [1 .. MaxRequests -> LogEntry] /\ log'[n] = entry
      /\ \A k \in 1 .. MaxRequests \ {n} : log'[k] = log[k]
  BY <1>3, <1>4, <1>6, <1>8
<1> HIDE DEF n
<1>10. Types'
  BY <1>2, <1>3, <1>4, <1>5, <1>7, <1>9 DEF Types, StoreTyped, Given
<1>11. ASSUME NEW u \in Thread, th[u].pc # "idle"
       PROVE  th[u].req \in 1 .. used.requests /\ th[u].req # n /\ th[u].req \in 1 .. MaxRequests
  <2>1. th[u].req \in 0 .. MaxRequests /\ th[u].req > 0 /\ th[u].req <= used.requests
    BY <1>11, IInvParts DEF Recorded, Fits, Local
  <2> QED BY <1>4, <2>1, Constants
<1>12. r.req = n /\ r.method = entry.method /\ r.body = entry.body /\ entry.answer = "none"
       /\ (r.method \in {"PUT", "DELETE"} => entry.on = r.to)
  BY <1>2 DEF Given, n
<1>13. Controlled'
  <2>1. ASSUME NEW u \in Thread PROVE Fits(th'[u]) /\ Recorded(th[u])'
    <3>1. CASE u = t
      BY <1>2, <1>4, <1>5, <1>9, <1>12, <3>1 DEF Recorded, Given
    <3>2. CASE u # t
      <4>1. th'[u] = th[u] /\ Fits(th[u]) /\ Recorded(th[u])
        BY <1>5, <3>2, IInvParts
      <4>2. th[u].pc # "idle" => /\ log'[th[u].req] = log[th[u].req] /\ th[u].req <= n
        BY <1>4, <1>9, <1>11
      <4> QED BY <1>4, <4>1, <4>2 DEF Recorded
    <3> QED BY <3>1, <3>2
  <2> QED BY <2>1 DEF Controlled, Fits
<1>14. Acquainted'
  <2>1. \A v, u \in Thread : v # u /\ th'[v].pc # "idle" => th'[v].req # th'[u].req
    <3>1. SUFFICES ASSUME NEW v \in Thread, NEW u \in Thread, v # u, th'[v].pc # "idle"
                   PROVE  th'[v].req # th'[u].req
      OBVIOUS
    <3>2. \A w \in Thread : th[w].pc = "idle" => th[w].req = 0
      BY IInvParts DEF Fits, Idle
    <3> QED BY <1>4, <1>5, <1>11, <1>12, <3>1, <3>2 DEF IInv, Acquainted
  <2>2. \A k \in 1 .. n, u \in Thread :
           th'[u].pc # "idle" /\ th'[u].req # k => th'[u].req > k \/ th'[u].req \in log'[k].beside
    <3>1. SUFFICES ASSUME NEW k \in 1 .. n, NEW u \in Thread, th'[u].pc # "idle", th'[u].req # k
                   PROVE  th'[u].req > k \/ th'[u].req \in log'[k].beside
      OBVIOUS
    <3>2. CASE u = t
      BY <1>4, <1>5, <1>12, <3>1, <3>2
    <3>3. CASE u # t /\ k = n
      <4>1. th'[u] = th[u] /\ th[u].req \in Busy
        BY <1>5, <3>1, <3>3 DEF Busy
      <4> QED BY <1>9, <3>3, <4>1
    <3>4. CASE u # t /\ k # n
      <4>1. th'[u] = th[u] /\ k \in 1 .. used.requests /\ log'[k] = log[k]
        <5>1. k \in 1 .. used.requests /\ k \in 1 .. MaxRequests
          BY <1>4, <3>4, Constants
        <5> QED BY <1>5, <1>9, <3>4, <5>1
      <4> QED BY <3>1, <4>1 DEF IInv, Acquainted
    <3> QED BY <3>2, <3>3, <3>4
  <2>3. \A k \in 1 .. MaxRequests : k > n => log'[k] = NoRequest
    BY <1>3, <1>4, <1>9 DEF IInv, Acquainted, Count
  <2>4. \A k \in 1 .. MaxRequests : log'[k].method = "PUT" => log'[k].on \in Path
    BY <1>9 DEF IInv, Acquainted
  <2> QED BY <1>4, <2>1, <2>2, <2>3, <2>4 DEF Acquainted
<1>15. mixed \subseteq mixed'
  BY <1>7
<1>16. Alone'
  <2>1. SUFFICES ASSUME NEW u \in Thread, u # t, r.pc \in Uploading, th[u].pc \in Uploading,
                        r.to = th[u].to
                 PROVE  r.to \in mixed'
    BY <1>5, <1>15 DEF IInv, Alone
  <2>2. r.method = "PUT" /\ dest = r.to /\ u \in Writers(dest, t)
    BY <1>2, <2>1 DEF Given, Uploading, Writers
  <2> QED BY <1>7, <2>2
<1>17. Whole'
  BY <1>7, <1>15 DEF IInv, Whole, There
<1>18. ASSUME NEW k \in 1 .. MaxRequests, k # n
       PROVE  \A p \in Path : Disturbed(p, k)' <=> Disturbed(p, k)
  BY <1>7, <1>9, <1>18 DEF Disturbed
<1>19. ASSUME NEW u \in Thread PROVE Own(u)'
  <2>1. CASE u = t
    <3>1. r.pc \in {"put", "empty"} => r.method = "PUT" /\ OneUpload(r.body) /\ r.stored = 0
      BY <1>2 DEF Given
    <3>2. \A x \in parts : x.number \in Nat
      BY <1>3 DEF StoreTyped, PartObject
    <3> QED BY <1>2, <1>5, <1>7, <2>1, <3>1, <3>2
        DEF Own, Uploads, Stores, Removes, Moves, Given, Uploading
  <2>2. CASE u # t
    <3>1. PICK v \in Local : v = th[u] /\ th'[u] = v /\ Own(u) /\ Fits(v)
      BY <1>5, <2>2, IInvParts
    <3>2. CASE v.pc = "idle"
      BY <3>1, <3>2, NothingOwned DEF Uploading
    <3>3. CASE v.pc # "idle"
      <4>1. v.req \in 1 .. MaxRequests /\ v.req # n /\ v.name \in Path /\ v.to \in Path
        BY <1>11, <3>1, <3>3 DEF Fits
      <4>2. \A p \in Path : Disturbed(p, v.req)' <=> Disturbed(p, v.req)
        BY <1>18, <4>1
      <4>3. \A q \in Left(v.to, v.req)' : q \in Left(v.to, v.req)
        BY <1>7, <4>2 DEF Left, There
      <4>4. Uploads(u)' /\ Stores(u)'
        BY <1>7, <1>15, <3>1 DEF Own, Uploads, Stores, There
      <4>5. Removes(u)'
        <5>1. SUFFICES ASSUME ForceDelete, v.method = "DELETE" PROVE Removes(u)'
          BY <3>1 DEF Removes
        <5>2. v.to \in Left(v.to, v.req)' => v.to \in Left(v.to, v.req)
          BY <4>3
        <5> QED BY <3>1, <4>3, <5>1, <5>2 DEF Own, Removes
      <4>6. Moves(u)'
        BY <1>7, <3>1, <4>1, <4>2 DEF Own, Moves, There
      <4> QED BY <4>4, <4>5, <4>6 DEF Own
    <3> QED BY <3>2, <3>3
  <2> QED BY <2>1, <2>2
<1>20. Promises'
  <2>1. ASSUME NEW k \in 1 .. MaxRequests, log'[k].answer = "ok"
        PROVE  k # n /\ log'[k] = log[k]
    BY <1>9, <1>12, <2>1
  <2>2. AnsweredMeansWhole'
    BY <1>7, <1>15, <2>1 DEF IInv, Promises, AnsweredMeansWhole
  <2>3. ForceDelete => RemovedMeansGone'
    BY <1>7, <1>18, <2>1 DEF IInv, Promises, RemovedMeansGone, There
  <2> QED BY <2>2, <2>3 DEF Promises
<1> QED BY <1>10, <1>13, <1>14, <1>16, <1>17, <1>19, <1>20 DEF IInv

LEMMA IssuePutKeeps ==
  ASSUME IInv, NEW t \in Thread, IssuePut(t)
  PROVE  IInv'
<1>1. PICK p \in Path, n \in 0 .. MaxPieces :
        /\ "PUT" \in Method
        /\ Issue(t, [Idle EXCEPT !.pc = First(n), !.method = "PUT", !.name = p, !.to = p,
                                 !.locks = {p}, !.body = Body(NewRequest, n)], p)
  BY DEF IssuePut
<1>2. NewRequest \in 1 .. MaxRequests
  BY <1>1, Constants DEF Issue, NewRequest, IInv, Types, Count
<1>3. PICK body \in Bytes : body = Body(NewRequest, n) /\ Len(body) = n /\ OneUpload(body)
  <2>1. \A i \in 1 .. n : <<NewRequest, i>> \in Piece \ {NoPiece}
    BY <1>2, Constants DEF Piece, NoPiece
  <2>2. /\ Body(NewRequest, n) \in Bytes /\ Len(Body(NewRequest, n)) = n
        /\ \A i \in 1 .. n : Body(NewRequest, n)[i] = <<NewRequest, i>>
    BY <2>1 DEF Body, Bytes
  <2> QED BY <1>2, <2>2 DEF OneUpload
<1> DEFINE label == First(n)
<1>4. label \in {"put", "empty"} /\ label \in Label /\ (label = "put" => n > 0) /\ (label = "empty" => n = 0)
  BY DEF First, Label
<1> HIDE DEF label
<1> DEFINE request == [Idle EXCEPT !.pc = label, !.method = "PUT", !.name = p, !.to = p,
                                   !.locks = {p}, !.body = body]
           r == [request EXCEPT !.req = NewRequest]
<1>5. Issue(t, request, p)
  BY <1>1, <1>3 DEF label
<1>6. r \in Local
  <2>1. body \in Seq(Piece) /\ "PUT" \in Method \cup {"none"} /\ NewRequest \in 0 .. MaxRequests
    BY <1>1, <1>2 DEF Bytes
  <2> QED BY <1>4, <2>1, Constants DEF Local
<1>7. /\ r.pc = label /\ r.method = "PUT" /\ r.to = p /\ r.name = p /\ r.body = body /\ r.stored = 0
      /\ r.at = 0 /\ r.req = NewRequest /\ r.combined = << >> /\ r.jobs = {}
      /\ request.method = "PUT" /\ request.body = body
  BY DEF Idle
<1> HIDE DEF r
<1>8. Fits(r)
  <2>1. body = << >> <=> n = 0
    BY <1>3, EmptySeq DEF Bytes
  <2> QED BY <1>1, <1>2, <1>3, <1>4, <1>7, <2>1, Constants DEF Fits, Serves, Progress, Uploading
<1>9. Given(r, p)
  BY <1>3, <1>4, <1>6, <1>7, <1>8 DEF Given
<1> HIDE DEF request
<1> QED BY <1>5, <1>7, <1>9, IssueKeeps DEF r

LEMMA IssueOneKeeps ==
  ASSUME IInv, NEW t \in Thread, IssueOne(t)
  PROVE  IInv'
<1>1. PICK method \in Method \cap {"MKCOL", "DELETE"}, p \in Path :
        Issue(t, [Idle EXCEPT !.pc = Call[method], !.method = method,
                              !.name = p, !.to = p, !.locks = {p}], p)
  BY DEF IssueOne
<1>2. NewRequest \in 1 .. MaxRequests
  BY <1>1, Constants DEF Issue, NewRequest, IInv, Types, Count
<1> DEFINE label == Call[method]
<1>3. /\ label \in {"mkcol", "stat"}
      /\ (label = "mkcol" => method = "MKCOL") /\ (label = "stat" => method = "DELETE")
  BY DEF Call, Label
<1> HIDE DEF label
<1> DEFINE request == [Idle EXCEPT !.pc = label, !.method = method, !.name = p, !.to = p,
                                   !.locks = {p}]
           r == [request EXCEPT !.req = NewRequest]
<1>4. Issue(t, request, p)
  BY <1>1 DEF label
<1>5. r \in Local
  <2>1. method \in Method \cup {"none"} /\ NewRequest \in 0 .. MaxRequests /\ label \in Label
    BY <1>2, <1>3 DEF Label
  <2> QED BY <2>1, Constants DEF Local
<1>6. /\ r.pc = label /\ r.method = method /\ r.to = p /\ r.name = p /\ r.body = << >> /\ r.stored = 0
      /\ r.at = 0 /\ r.req = NewRequest /\ r.combined = << >> /\ r.jobs = {}
      /\ request.method = method /\ request.body = << >>
  BY DEF Idle
<1> HIDE DEF r
<1>7. Fits(r)
  BY <1>2, <1>3, <1>6, Constants DEF Fits, Serves, Progress, Uploading
<1>8. Given(r, p)
  BY <1>3, <1>5, <1>6, <1>7 DEF Given
<1> HIDE DEF request
<1> QED BY <1>4, <1>6, <1>8, IssueKeeps DEF r

LEMMA IssueTwoKeeps ==
  ASSUME IInv, NEW t \in Thread, IssueTwo(t)
  PROVE  IInv'
<1>1. PICK method \in Method \cap {"MOVE", "COPY"}, src \in Path, dst \in Path :
        /\ Movable(src, dst)
        /\ Issue(t, [Idle EXCEPT !.pc = Call[method], !.method = method, !.name = src, !.to = dst,
                                 !.locks = IF method = "MOVE" THEN {src, dst} ELSE {dst}], dst)
  BY DEF IssueTwo
<1>2. NewRequest \in 1 .. MaxRequests
  BY <1>1, Constants DEF Issue, NewRequest, IInv, Types, Count
<1> DEFINE label == Call[method]
           locks == IF method = "MOVE" THEN {src, dst} ELSE {dst}
<1>3. /\ label \in {"dst", "src"}
      /\ (label = "dst" => method = "MOVE") /\ (label = "src" => method = "COPY")
      /\ locks \in SUBSET Path
  BY DEF Call
<1> HIDE DEF label, locks
<1> DEFINE request == [Idle EXCEPT !.pc = label, !.method = method, !.name = src, !.to = dst,
                                   !.locks = locks]
           r == [request EXCEPT !.req = NewRequest]
<1>4. Issue(t, request, dst)
  BY <1>1 DEF label, locks
<1>5. r \in Local
  <2>1. method \in Method \cup {"none"} /\ NewRequest \in 0 .. MaxRequests /\ label \in Label
    BY <1>2, <1>3 DEF Label
  <2> QED BY <1>3, <2>1, Constants DEF Local
<1>6. /\ r.pc = label /\ r.method = method /\ r.to = dst /\ r.name = src /\ r.body = << >>
      /\ r.stored = 0 /\ r.at = 0 /\ r.req = NewRequest /\ r.combined = << >> /\ r.jobs = {}
      /\ request.method = method /\ request.body = << >>
  BY DEF Idle
<1> HIDE DEF r
<1>7. Fits(r)
  <2>1. src # dst /\ Carries(src, dst)
    BY <1>1 DEF Movable, Carries
  <2> QED BY <1>2, <1>3, <1>6, <2>1, Constants DEF Fits, Serves, Progress, Uploading
<1>8. Given(r, dst)
  BY <1>3, <1>5, <1>6, <1>7 DEF Given
<1> HIDE DEF request
<1> QED BY <1>4, <1>6, <1>8, IssueKeeps DEF r

LEMMA DisconnectKeeps ==
  ASSUME IInv, NEW t \in Thread, Disconnect(t)
  PROVE  IInv'
<1>1. PICK r \in Local : r = th[t] /\ r.pc # "idle" /\ Fits(r) /\ Own(t)
  BY IInvParts DEF Disconnect
<1> DEFINE next == [r EXCEPT !.gone = TRUE]
<1>2. /\ next \in Local
      /\ \A field \in {"pc", "method", "req", "name", "to", "body", "combined", "stored", "at", "jobs",
                       "todo", "failed"} : next[field] = r[field]
  BY DEF Local
<1>3. GoesOn(t, next)
  BY <1>1 DEF Disconnect, GoesOn, history
<1>4. UNCHANGED <<store, author, mixed, leaky>>
  BY DEF Disconnect, history
<1> HIDE DEF next
<1>5. Follows(t, next)
  BY <1>1, <1>2 DEF Follows, Fits, Serves, Progress
<1>6. Proceeds(t) /\ th'[t] = next /\ Sound(t) /\ log' = log
  BY <1>1, <1>3, <1>5, GoesOnProceeds
<1>7. Costs
  BY DEF Disconnect, Costs, IInv, Types, Count
<1>8. Own(t)'
  <2>1. \A p \in Path, n \in 0 .. MaxRequests : Disturbed(p, n)' <=> Disturbed(p, n)
    BY <1>4, <1>6 DEF Disturbed
  <2>2. r.req \in 0 .. MaxRequests /\ r.to \in Path /\ r.name \in Path
    BY <1>1 DEF Fits, Local
  <2>3. \A q \in Path : q \in Left(r.to, r.req)' <=> q \in Left(r.to, r.req)
    BY <1>4, <2>1, <2>2 DEF Left, There, store
  <2>4. Uploads(t)' /\ Stores(t)'
    BY <1>1, <1>2, <1>4, <1>6 DEF Own, Uploads, Stores, There, store
  <2>5. Removes(t)'
    <3>1. Left(r.to, r.req)' = Left(r.to, r.req)
      BY <2>3 DEF Left
    <3>2. th'[t].to = r.to /\ th'[t].req = r.req /\ th'[t].pc = r.pc /\ th'[t].todo = r.todo
          /\ th'[t].method = r.method
      BY <1>2, <1>6
    <3> QED BY <1>1, <2>2, <2>3, <3>2 DEF Own, Removes, Left
  <2>6. Moves(t)'
    BY <1>1, <1>2, <1>4, <1>6, <2>1, <2>2 DEF Own, Moves, There, store
  <2> QED BY <2>4, <2>5, <2>6 DEF Own
<1>9. Enters(t)
  BY <1>1, <1>2, <1>6 DEF Enters
<1>10. Lawful(t)
  BY <1>4, <1>6, <1>7, <1>8, <1>9, ReadLawful
<1> QED BY <1>1, <1>10, LawfulKeeps

LEMMA RestartKeeps ==
  ASSUME IInv, Restart
  PROVE  IInv'
<1>1. /\ th' = [t \in Thread |-> Idle] /\ used' = [used EXCEPT !.restarts = @ + 1]
      /\ leaky' = (leaky \/ parts # {})
      /\ UNCHANGED <<object, keep, parts, author, mixed, log>>
  BY DEF Restart, store
<1>2. Types /\ StoreTyped
  BY DEF IInv, Types
<1>3. th' \in [Thread -> Local] /\ \A t \in Thread : th'[t] = Idle
  BY <1>1, Constants
<1>4. used' \in Count /\ used'.requests = used.requests
  BY <1>1, <1>2 DEF Types, Count
<1>5. Types'
  BY <1>1, <1>2, <1>3, <1>4 DEF Types, StoreTyped
<1>6. Controlled'
  <2>1. \A t \in Thread : Fits(th'[t]) /\ Recorded(th[t])'
    BY <1>3, Constants DEF Recorded
  <2> QED BY <2>1 DEF Controlled, Fits
<1>7. Acquainted'
  BY <1>1, <1>3, <1>4, Constants DEF IInv, Acquainted
<1>8. Alone' /\ Whole'
  BY <1>1, <1>3, Constants DEF Alone, IInv, Whole, There, Uploading
<1>9. \A t \in Thread : Own(t)'
  BY <1>3, NothingOwned, Constants DEF Uploading
<1>10. Promises'
  BY <1>1 DEF IInv, Promises, AnsweredMeansWhole, RemovedMeansGone, There, Disturbed
<1> QED BY <1>5, <1>6, <1>7, <1>8, <1>9, <1>10 DEF IInv

LEMMA NothingChanges ==
  ASSUME IInv, UNCHANGED vars
  PROVE  IInv'
<1>1. /\ object' = object /\ keep' = keep /\ parts' = parts /\ th' = th /\ used' = used
      /\ author' = author /\ mixed' = mixed /\ leaky' = leaky /\ log' = log
  BY DEF vars
<1>2. Types' /\ Alone' /\ Whole'
  BY <1>1 DEF IInv, Types, StoreTyped, Alone, Whole, There
<1>3. Controlled' /\ Acquainted'
  BY <1>1 DEF IInv, Controlled, Recorded, Fits, Acquainted
<1>4. Promises'
  BY <1>1 DEF IInv, Promises, AnsweredMeansWhole, RemovedMeansGone, There, Disturbed
<1>5. \A t \in Thread : Own(t)'
  BY <1>1 DEF IInv, Own, Uploads, Stores, Removes, Moves, Left, There, Disturbed
<1> QED BY <1>2, <1>3, <1>4, <1>5 DEF IInv

-----------------------------------------------------------------------------
LEMMA InitIInv ==
  ASSUME Init
  PROVE  IInv
<1>1. /\ object = [p \in Path |-> IF p \in InitialFiles THEN << <<0, 1>> >> ELSE Gone]
      /\ keep = InitialKeeps /\ parts = {} /\ th = [t \in Thread |-> Idle]
      /\ used = [requests |-> 0, faults |-> 0, disconnects |-> 0, restarts |-> 0]
      /\ author = [p \in Path |-> 0] /\ mixed = {} /\ leaky = FALSE
      /\ log = [r \in 1 .. MaxRequests |-> NoRequest]
  BY DEF Init
<1>2. PICK first : first = << <<0, 1>> >>
  OBVIOUS
<1>3. first \in Bytes /\ OneUpload(first)
  <2>1. <<0, 1>> \in Piece \ {NoPiece}
    BY S3Assumption DEF Piece, NoPiece
  <2>2. first \in Bytes /\ Len(first) = 1 /\ first[1] = <<0, 1>>
    BY <1>2, <2>1 DEF Bytes
  <2> QED BY <2>2, Constants DEF OneUpload
<1>4. \A p \in Path : object[p] \in {first, Gone}
  BY <1>1, <1>2
<1>5. StoreTyped
  <2>1. object \in [Path -> Bytes \cup {Gone}]
    BY <1>1, <1>2, <1>3
  <2>2. keep \subseteq Path /\ author \in [Path -> 0 .. MaxRequests]
    BY <1>1, Constants, S3Assumption
  <2> QED BY <1>1, <2>1, <2>2 DEF StoreTyped
<1>6. \A t \in Thread : th[t] = Idle
  BY <1>1
<1>7. Types
  <2>1. NoRequest \in LogEntry
    BY Constants DEF NoRequest, LogEntry, Answer
  <2>2. th \in [Thread -> Local] /\ used \in Count /\ log \in [1 .. MaxRequests -> LogEntry]
    BY <1>1, <2>1, Constants DEF Count
  <2> QED BY <1>5, <2>2 DEF Types
<1>8. Controlled
  BY <1>6, Constants DEF Controlled, Recorded
<1>9. Acquainted
  <2>1. used.requests = 0 /\ \A r \in 1 .. MaxRequests : log[r] = NoRequest
    BY <1>1
  <2>2. 1 .. used.requests = {} /\ \A r \in 1 .. MaxRequests : log[r].method # "PUT"
    BY <2>1 DEF NoRequest
  <2> QED BY <1>6, <2>1, <2>2, Constants DEF Acquainted
<1>10. Alone
  BY <1>6, Constants DEF Alone, Uploading
<1>11. Whole
  BY <1>3, <1>4 DEF Whole, There
<1>12. \A t \in Thread : Own(t)
  BY <1>6, Constants DEF Own, Uploads, Stores, Removes, Moves, Uploading
<1>13. Promises
  BY <1>1 DEF Promises, AnsweredMeansWhole, RemovedMeansGone, NoRequest
<1> QED BY <1>7, <1>8, <1>9, <1>10, <1>11, <1>12, <1>13 DEF IInv

LEMMA NextKeeps ==
  ASSUME IInv, [Next]_vars
  PROVE  IInv'
<1>1. CASE UNCHANGED vars
  BY <1>1, NothingChanges
<1>2. ASSUME NEW t \in Thread, UploadStep(t)
      PROVE  IInv'
  <2>1. th[t].pc # "idle" /\ Lawful(t)
    BY <1>2, PutPartLawful, PutEmptyLawful, CopyFirstPartLawful, ReadDestLawful, ReadPartLawful,
       PutCombinedLawful, RemovePartLawful, StatStoredLawful DEF UploadStep
  <2> QED BY <2>1, LawfulKeeps
<1>3. ASSUME NEW t \in Thread, TreeStep(t)
      PROVE  IInv'
  <2>1. th[t].pc # "idle" /\ Lawful(t)
    BY <1>3, MkdirLawful, StatDeletedLawful, StatDestinationLawful, StatRemovedLawful,
       ListRemovedLawful, RemoveKeepLawful, RemoveEntryLawful, RenameCopyLawful,
       RenameRemoveLawful, StatSourceLawful, ListSourceLawful, ReadSourceLawful DEF TreeStep
  <2> QED BY <2>1, LawfulKeeps
<1>4. ASSUME NEW t \in Thread, IssuePut(t) \/ IssueOne(t) \/ IssueTwo(t) \/ Disconnect(t)
      PROVE  IInv'
  BY <1>4, IssuePutKeeps, IssueOneKeeps, IssueTwoKeeps, DisconnectKeeps
<1>5. CASE Restart
  BY <1>5, RestartKeeps
<1>6. CASE BudgetSpent
  BY <1>6, NothingChanges DEF BudgetSpent
<1> QED BY <1>1, <1>2, <1>3, <1>4, <1>5, <1>6 DEF Next, Step

LEMMA Invariant == Spec => []IInv
<1>1. Init => IInv
  BY InitIInv
<1>2. IInv /\ [Next]_vars => IInv'
  BY NextKeeps
<1> QED BY <1>1, <1>2, PTL DEF Spec

(* Every state is of the types the model gives it, and no upload removes   *)
(* or appends a part it has not stored.                                    *)
THEOREM TypeCorrect == Spec => []TypeOK
<1>1. ASSUME IInv PROVE TypeOK
  <2>1. Types
    BY <1>1 DEF IInv
  <2>2. object \in [Path -> Seq(Piece)]
    <3>1. \A s \in Bytes : s \in Seq(Piece)
      BY DEF Bytes
    <3>2. Gone \in Seq(Piece)
      BY Constants DEF Gone
    <3> QED BY <2>1, <3>1, <3>2 DEF Types, StoreTyped
  <2>3. \A x \in parts : x.of \in Path /\ x.number \in Nat /\ x.piece \in Piece \ {NoPiece}
    BY <2>1 DEF Types, StoreTyped, PartObject
  <2>4. ASSUME NEW t \in Thread
        PROVE  th[t].at <= th[t].stored /\ th[t].stored <= Len(th[t].body)
    <3>1. PICK r \in Local : r = th[t] /\ Fits(r)
      BY <1>1, IInvParts
    <3>2. r.stored \in Nat /\ r.at \in Nat /\ Len(r.body) \in Nat
      BY <3>1, LenProperties DEF Local
    <3>3. CASE r.pc \in Uploading \cup {"clean", "check"}
      BY <3>1, <3>2, <3>3, Constants DEF Fits, Progress, Uploading
    <3>4. CASE r.pc \notin Uploading \cup {"clean", "check"}
      BY <3>1, <3>2, <3>4 DEF Fits, Progress
    <3> QED BY <3>1, <3>3, <3>4
  <2> QED BY <2>1, <2>2, <2>3, <2>4 DEF TypeOK, Types, StoreTyped
<1> QED BY <1>1, Invariant, PTL

(* A file that no two writers wrote at the same time holds the beginning   *)
(* of one body, in order and without a hole, whatever calls failed and     *)
(* wherever the process died (file.go:213-299).                            *)
THEOREM FilesAreOfOneUpload == Spec => []FilesComeFromOneUpload
<1>1. ASSUME IInv PROVE FilesComeFromOneUpload
  <2>1. SUFFICES ASSUME NEW p \in Path \ mixed, There(p)
                 PROVE  \E r \in 0 .. MaxRequests : object[p] = Body(r, Len(object[p]))
    BY DEF FilesComeFromOneUpload
  <2>2. object[p] \in Bytes /\ OneUpload(object[p])
    BY <1>1, <2>1 DEF IInv, Types, StoreTyped, Whole, There
  <2>3. PICK s \in Bytes, r \in 0 .. MaxRequests :
          s = object[p] /\ \A i \in 1 .. Len(s) : s[i] = <<r, i>>
    BY <2>2 DEF OneUpload
  <2>4. s = Body(r, Len(s))
    <3>1. s \in Seq(Piece) /\ Len(s) \in Nat
      BY LenProperties DEF Bytes
    <3>2. \A i \in 1 .. Len(s) : <<r, i>> = s[i] /\ s[i] \in Piece
      BY <2>3, <3>1, ElementOfSeq
    <3>3. /\ Body(r, Len(s)) \in Seq(Piece) /\ Len(Body(r, Len(s))) = Len(s)
          /\ \A i \in 1 .. Len(s) : Body(r, Len(s))[i] = s[i]
      BY <3>1, <3>2, SMTT(60) DEF Body
    <3> QED BY <3>1, <3>3, SeqEqual
  <2> QED BY <2>3, <2>4
<1> QED BY <1>1, Invariant, PTL

(* An upload that is answered as stored is stored whole, until another     *)
(* request changes the file: no failed or lost call, no second Close, no   *)
(* part that a crash left of an earlier upload takes a piece from it       *)
(* (file.go:117-149, :152-303, :411-431).                                  *)
THEOREM StoredIsWhole == Spec => []AnsweredMeansWhole
<1>1. IInv => AnsweredMeansWhole
  BY DEF IInv, Promises
<1> QED BY <1>1, Invariant, PTL

(* If the store removes what is below a key with it, a DELETE that is      *)
(* answered as done leaves nothing at the name or below it but what        *)
(* requests beside it, or later, wrote (filesystem.go:99-142).             *)
THEOREM RemovedIsGone == ForceDelete => (Spec => []RemovedMeansGone)
<1> SUFFICES ASSUME ForceDelete PROVE Spec => []RemovedMeansGone
  OBVIOUS
<1>1. IInv => RemovedMeansGone
  BY DEF IInv, Promises
<1> QED BY <1>1, Invariant, PTL

(* What a MOVE removes from its source is at its destination, unless a     *)
(* request beside it, or later, wrote either (filesystem.go:145-173).      *)
THEOREM MovesKeep == Spec => MovedIsNotLost
<1> DEFINE Kept == \A t \in Thread :
                      LET src == th[t].name
                          dst == th[t].to
                      IN  th[t].pc = "mvremove" /\ There(src) /\ object'[src] = Gone =>
                             \/ object[dst] = object[src]
                             \/ Disturbed(src, th[t].req) \/ Disturbed(dst, th[t].req)
<1>1. ASSUME IInv PROVE Kept
  BY <1>1 DEF IInv, Own, Moves
<1>2. [Next]_vars /\ IInv => [Kept]_vars
  BY <1>1
<1> QED BY <1>2, Invariant, PTL DEF Spec, MovedIsNotLost
=============================================================================
