----------------------- MODULE AccountsHistoryProofs -----------------------
(***************************************************************************)
(* For any persons, configurations, requests, goroutines and bounds: the   *)
(* groups that an administrator set stay the user's, and the name that a   *)
(* page showed stays the name of the row.                                  *)
(*                                                                         *)
(* Both are about what a request left behind long ago, so the inductive    *)
(* invariant HInv says what each request at work must know for them: how   *)
(* far it is with the groups it sets (Setting), that it holds the name of  *)
(* its row (Named), and that it will not give another to a row of which a  *)
(* page has shown the name (Later).  That persons have one row each        *)
(* (Unique) is what makes the name of a person's row a single one.         *)
(***************************************************************************)
EXTENDS AccountsProofs

(* A request holds no user before it has found one, is not answered yet,   *)
(* and is where its kind can be.                                           *)
Told(r) ==
    /\ r.pc \in {"idle", "find", "basic"} => r.user = NoUser
    /\ r.pc # "idle" => /\ log[r.req].answer = "none" /\ log[r.req].me = r.me
                        /\ r.pc = "calls" => r.kind \in {"dav", "basic", "page"}
                        /\ r.pc = "regenerate" => r.kind = "regenerate"
                        /\ r.pc = "look" => r.kind \in {"update", "delete"}
                        /\ r.pc = "remove" => r.kind = "delete"

(* The groups of S, each once.                                             *)
Ones(S) == [g \in Group |-> IF g \in S THEN 1 ELSE 0]

(* An update whose target has a row that is older than the request and did *)
(* not begin beside it, and that no later or simultaneous update sets.     *)
Sole(q) ==
    LET i == log[q].target
    IN  /\ HasRow(i) /\ users[i].born < q /\ ~Overlap(q, users[i].born)
        /\ ~ \E p \in 1 .. MaxRequests :
                log[p].kind = "update" /\ log[p].target = i /\ (p > q \/ Overlap(p, q))

(* While an update inserts groups, the row has those already inserted.     *)
Setting(r) ==
    r.pc # "idle" /\ r.kind = "update" =>
        /\ r.pc # "insert" => r.form = log[r.req].form
        /\ r.pc = "insert" => r.form \subseteq log[r.req].form
        /\ r.pc = "insert" /\ Sole(r.req) /\ ~log[r.req].failed =>
              grants[r.target] = Ones(log[r.req].form \ r.form)

(* No request of the same user, and no orphan, was at work with q.         *)
Clean(q) ==
    ~ \E p \in 1 .. MaxRequests : Overlap(p, q) /\ (log[p].me = log[q].me \/ p \in orphans)

(* A request holds the name of its user's row, which is the only one.      *)
Named(r) ==
    r.kind # "basic" /\ r.user.id \in Id =>
        /\ r.pc # "profile" => r.user.name # 0
        /\ Clean(r.req) => \A i \in Id : users[i].person = r.me =>
              i = r.user.id /\ users[i].name = r.user.name

(* ShownNamesWork of one request, and what was shown is a name.            *)
Shown(q) ==
    log[q].kind = "page" /\ log[q].answer = "ok" =>
        /\ log[q].name # 0
        /\ Clean(q) => \A i \in Id : users[i].person = log[q].me /\ users[i].born <= q =>
              users[i].name = log[q].name

(* A request that will complete a row, of which a page before it has shown *)
(* the name, holds that name.                                              *)
Later(r) ==
    r.pc = "profile" =>
        \A q \in 1 .. MaxRequests :
            /\ log[q].kind = "page" /\ log[q].answer = "ok" /\ Clean(q)
            /\ q < r.req /\ ~Overlap(q, r.req)
            /\ users[r.user.id].person = log[q].me /\ users[r.user.id].born <= q
            => r.user.name = users[r.user.id].name

(* Requests are of persons, persons have one row, and a request is served  *)
(* by one goroutine.                                                       *)
Written(q) == log[q].kind # "none" => log[q].target \in Id /\ log[q].me \in Person

Apart == \A t, u \in Thread : th[t].pc # "idle" /\ th[u].pc # "idle" /\ th[t].req = th[u].req => t = u
Unique == \A i, j \in Id : HasRow(i) /\ users[i].person = users[j].person => i = j

HInv ==
    /\ Apart /\ Unique
    /\ \A t \in Thread : Told(th[t]) /\ Setting(th[t]) /\ Named(th[t]) /\ Later(th[t])
    /\ \A q \in 1 .. MaxRequests : Written(q) /\ Shown(q)
    /\ GroupsAreAsSet

-----------------------------------------------------------------------------
(* What the steps of a request do to what the history tells.               *)
AtWork(r) == r.pc # "idle"

Tells(t) ==
    LET k == th[t].req
    IN  /\ th[t].pc # "idle" /\ k \in 1 .. MaxRequests
        /\ \A u \in Thread \ {t} : th'[u] = th[u]
        /\ th'[t].pc # "idle" => Same(th'[t], th[t])
        /\ used'.requests = used.requests /\ orphans \subseteq orphans'
        /\ \A q \in 1 .. MaxRequests \ {k} : log'[q] = log[q]
        /\ log'[k].kind = log[k].kind /\ log'[k].me = log[k].me
        /\ log'[k].target = log[k].target /\ log'[k].form = log[k].form
        /\ log'[k].beside = log[k].beside
        /\ log[k].failed => log'[k].failed
        /\ th'[t].pc # "idle" => log'[k].answer = log[k].answer

RowTells(t, i) ==
    \/ users'[i] = users[i]
    \/ users'[i].person = Nobody
    \/ /\ th[t].pc = "find" /\ users'[i].person = th[t].me /\ users'[i].born = th[t].req
       /\ \A j \in Id : users[j].person # th[t].me
    \/ /\ users'[i].person = users[i].person /\ users'[i].born = users[i].born
       /\ \/ users'[i].name = users[i].name
          \/ /\ th[t].pc = "profile" /\ th[t].user.id = i
             /\ users'[i].name = IF th[t].user.name = 0 THEN th[t].req ELSE th[t].user.name

TablesTell(t) ==
    /\ \A i, j \in Id :
          users'[i].person # users[i].person /\ users'[j].person # users[j].person => i = j
    /\ \A i \in Id :
          /\ RowTells(t, i)
          /\ \/ grants'[i] = grants[i] \/ users'[i].person = Nobody
             \/ th[t].kind = "update" /\ th[t].target = i

(* What is left to show of the request itself.                             *)
AsSet(q) ==
    log[q].kind = "update" /\ log[q].answer = "ok" /\ ~log[q].failed /\ Sole(q) =>
        grants[log[q].target] = Ones(log[q].form)

OwnKept(t) ==
    /\ (Told(th[t]) /\ Setting(th[t]) /\ Named(th[t]) /\ Later(th[t]))'
    /\ \A k \in 1 .. MaxRequests : k = th[t].req => (Shown(k) /\ AsSet(k))'

-----------------------------------------------------------------------------
LEMMA AsSetMeans == GroupsAreAsSet <=> \A q \in 1 .. MaxRequests : AsSet(q)
BY DEF GroupsAreAsSet, AsSet, Sole, Ones

LEMMA HInvParts ==
  ASSUME IInv, HInv, NEW t \in Thread
  PROVE  /\ Told(th[t]) /\ Setting(th[t]) /\ Named(th[t]) /\ Later(th[t])
         /\ Fits(th[t]) /\ Owned(th[t]) /\ Recorded(th[t]) /\ th[t] \in Local
         /\ th[t].user \in User /\ users \in [Id -> Row]
         /\ \A q \in 1 .. MaxRequests : Shown(q) /\ AsSet(q) /\ Written(q) /\ log[q] \in Logged
         /\ used.requests \in Nat /\ used.requests <= MaxRequests
BY IInvParts, AsSetMeans, AccountsAssumption DEF HInv

(* Of two requests at work the later one knows of the earlier one.         *)
LEMMA Together ==
  ASSUME IInv, HInv, NEW t \in Thread, NEW u \in Thread, t # u,
         th[t].pc # "idle", th[u].pc # "idle"
  PROVE  Overlap(th[t].req, th[u].req) /\ th[t].req # th[u].req
<1>1. /\ th[t].req \in 1 .. MaxRequests /\ th[u].req \in 1 .. MaxRequests
      /\ th[t].req <= used.requests /\ th[u].req <= used.requests
      /\ Recorded(th[t]) /\ Recorded(th[u])
  BY IInvParts DEF Recorded
<1>2. th[t].req # th[u].req
  BY DEF HInv, Apart
<1> QED BY <1>1, <1>2 DEF Recorded, Overlap

(* A request at work overlaps with every later one.                        *)
LEMMA LaterOverlaps ==
  ASSUME IInv, NEW t \in Thread, th[t].pc # "idle",
         NEW q \in 1 .. MaxRequests, log[q].kind # "none", th[t].req < q
  PROVE  Overlap(th[t].req, q) /\ Overlap(q, th[t].req)
<1>1. q <= used.requests
  <2>1. ASSUME ~(q <= used.requests) PROVE FALSE
    <3>1. q > used.requests
      BY <2>1, IInvParts
    <3> QED BY <3>1 DEF IInv, Request
  <2> QED BY <2>1
<1>2. th[t].req \in 1 .. MaxRequests /\ Recorded(th[t])
  BY IInvParts
<1> QED BY <1>1, <1>2 DEF Recorded, Overlap

LEMMA OverlapsKept ==
  ASSUME NEW t \in Thread, Tells(t), NEW p \in 0 .. MaxRequests, NEW q \in 0 .. MaxRequests
  PROVE  Overlap(p, q)' <=> Overlap(p, q)
<1>1. \A r \in 1 .. MaxRequests : log'[r].beside = log[r].beside
  BY DEF Tells
<1>2. CASE p > 0 /\ q > 0
  BY <1>1, <1>2 DEF Overlap
<1>3. CASE ~(p > 0 /\ q > 0)
  BY <1>3 DEF Overlap
<1> QED BY <1>2, <1>3

LEMMA LogKept ==
  ASSUME NEW t \in Thread, Tells(t), NEW q \in 1 .. MaxRequests
  PROVE  /\ log'[q].kind = log[q].kind /\ log'[q].me = log[q].me
         /\ log'[q].target = log[q].target /\ log'[q].form = log[q].form
         /\ log'[q].beside = log[q].beside /\ (log[q].failed => log'[q].failed)
BY DEF Tells

LEMMA CleanKept ==
  ASSUME NEW t \in Thread, Tells(t), NEW q \in 1 .. MaxRequests, Clean(q)'
  PROVE  Clean(q)
<1> SUFFICES ASSUME NEW p \in 1 .. MaxRequests, Overlap(p, q), log[p].me = log[q].me \/ p \in orphans
             PROVE  FALSE
  BY DEF Clean
<1>1. Overlap(p, q)'
  BY OverlapsKept
<1>2. log'[p].me = log'[q].me \/ p \in orphans'
  BY LogKept DEF Tells
<1> QED BY <1>1, <1>2 DEF Clean

(* What another request does to a row of the same person shows in the      *)
(* history.                                                                *)
LEMMA CleanRow ==
  ASSUME IInv, HInv, NEW t \in Thread, Tells(t), TablesTell(t), NEW q \in 1 .. MaxRequests,
         Clean(q)', Overlap(th[t].req, q), log[q].me # Nobody,
         NEW i \in Id, users'[i].person = log[q].me
  PROVE  users[i].person = log[q].me /\ users'[i].name = users[i].name
         /\ users'[i].born = users[i].born
<1>1. Clean(q)
  BY CleanKept
<1>2. th[t].req \in 1 .. MaxRequests /\ th[t].pc # "idle" /\ log[th[t].req].me = th[t].me
  BY HInvParts DEF Tells, Told
<1>3. th[t].me # log[q].me /\ th[t].req \notin orphans
  BY <1>1, <1>2 DEF Clean
<1>4. th[t].pc = "profile" => th[t].user.id \in Id /\ th[t].kind # "basic"
  BY HInvParts DEF Fits
<1>5. RowTells(t, i)
  BY DEF TablesTell
<1>6. CASE users'[i] = users[i]
  BY <1>6
<1>7. CASE users'[i].person = users[i].person /\ users'[i].born = users[i].born
           /\ th[t].pc = "profile" /\ th[t].user.id = i
  <2>1. users[i].person = th[t].me \/ th[t].req \in orphans
    BY <1>4, <1>7, HInvParts DEF Owned
  <2> QED BY <1>3, <1>7, <2>1
<1> QED BY <1>3, <1>5, <1>6, <1>7 DEF RowTells

(* The row that a page has shown the name of keeps its name.               *)
LEMMA ShownRow ==
  ASSUME IInv, HInv, NEW t \in Thread, Tells(t), TablesTell(t), NEW q \in 1 .. MaxRequests,
         log[q].kind = "page", log[q].answer = "ok", th[t].req # q, Clean(q)',
         NEW i \in Id, users'[i].person = log[q].me, users'[i].born <= q
  PROVE  users[i].person = log[q].me /\ users'[i].name = users[i].name
         /\ users'[i].born = users[i].born
<1>1. log[q].me # Nobody
  BY HInvParts, AccountsAssumption DEF Written, Tells
<1>2. Clean(q)
  BY CleanKept
<1>3. /\ th[t].req \in 1 .. MaxRequests /\ th[t].pc # "idle"
      /\ th[t].req < q \/ th[t].req > q
  BY DEF Tells
<1>4. CASE Overlap(th[t].req, q)
  BY <1>1, <1>4, CleanRow
<1>5. CASE ~Overlap(th[t].req, q)
  <2>1. th[t].req > q
    BY <1>3, <1>5, LaterOverlaps
  <2>2. ~Overlap(q, th[t].req)
    BY <1>5 DEF Overlap
  <2>3. RowTells(t, i)
    BY DEF TablesTell
  <2>4. CASE users'[i] = users[i]
    BY <2>4
  <2>5. CASE users'[i].born = th[t].req
    BY <2>1, <2>5, <1>3
  <2>6. CASE /\ users'[i].person = users[i].person /\ users'[i].born = users[i].born
             /\ th[t].pc = "profile" /\ th[t].user.id = i
             /\ users'[i].name = IF th[t].user.name = 0 THEN th[t].req ELSE th[t].user.name
    <3>1. th[t].user.name = users[i].name
      BY <1>2, <2>1, <2>2, <2>6, HInvParts DEF Later
    <3>2. users[i].name # 0
      BY <1>2, <2>6, HInvParts DEF Shown
    <3> QED BY <2>6, <3>1, <3>2
  <2> QED BY <1>1, <2>3, <2>4, <2>5, <2>6 DEF RowTells
<1> QED BY <1>4, <1>5

(* While nobody disturbs what an update sets, only the update changes it.  *)
LEMMA SoleKept ==
  ASSUME IInv, HInv, NEW t \in Thread, Tells(t), TablesTell(t), NEW q \in 1 .. MaxRequests,
         log[q].kind = "update", Sole(q)', th[t].req # q \/ th[t].pc # "find"
  PROVE  /\ Sole(q)
         /\ th[t].req # q => grants'[log[q].target] = grants[log[q].target]
<1> PICK i \in Id : i = log[q].target
  BY HInvParts DEF Written, Tells
<1> PICK b : b = users'[i].born
  OBVIOUS
<1>1. /\ th[t].req \in 1 .. MaxRequests /\ th[t].pc # "idle"
      /\ th[t].req < q \/ th[t].req > q \/ th[t].req = q
      /\ users[i].born \in 0 .. MaxRequests /\ users \in [Id -> Row]
  BY HInvParts DEF Tells, Row
<1>2. log'[q].target = i
  BY LogKept
<1>3. HasRow(i)' /\ b < q /\ ~Overlap(q, b)'
  BY <1>2 DEF Sole, HasRow, Overlap
<1>4. ~ \E p \in 1 .. MaxRequests :
           log[p].kind = "update" /\ log[p].target = i /\ (p > q \/ Overlap(p, q))
  <2> SUFFICES ASSUME NEW p \in 1 .. MaxRequests, log[p].kind = "update", log[p].target = i,
                      p > q \/ Overlap(p, q)
               PROVE  FALSE
    OBVIOUS
  <2>1. log'[p].kind = "update" /\ log'[p].target = i
    BY LogKept
  <2>2. p > q \/ Overlap(p, q)'
    BY OverlapsKept
  <2> QED BY <1>2, <2>1, <2>2 DEF Sole
<1>5. HasRow(i) /\ users[i].born = b
  <2>1. RowTells(t, i) /\ users'[i].person # Nobody
    BY <1>3 DEF TablesTell, HasRow
  <2>2. ASSUME b = th[t].req PROVE FALSE
    <3>1. th[t].req < q
      BY <1>1, <1>3, <2>2
    <3>2. Overlap(q, th[t].req)
      BY <1>1, <3>1, LaterOverlaps
    <3> QED BY <1>1, <1>3, <2>2, <3>2, OverlapsKept
  <2> QED BY <2>1, <2>2 DEF RowTells, HasRow
<1>6. ~Overlap(q, users[i].born)
  BY <1>1, <1>3, <1>5, OverlapsKept
<1>7. ASSUME th[t].req # q PROVE grants'[i] = grants[i]
  <2>1. ASSUME th[t].kind = "update", th[t].target = i PROVE FALSE
    <3>1. log[th[t].req].kind = "update" /\ log[th[t].req].target = i
      BY <1>1, <2>1, HInvParts DEF Recorded
    <3>2. th[t].req > q \/ Overlap(th[t].req, q)
      BY <1>1, <1>7, LaterOverlaps
    <3> QED BY <1>1, <1>4, <3>1, <3>2
  <2> QED BY <1>3, <2>1 DEF TablesTell, HasRow
<1> QED BY <1>3, <1>4, <1>5, <1>6, <1>7 DEF Sole

(* The other requests still rely on what they relied on.                   *)
LEMMA OthersKept ==
  ASSUME IInv, HInv, NEW t \in Thread, Tells(t), TablesTell(t), NEW u \in Thread, u # t
  PROVE  (Told(th[u]) /\ Setting(th[u]) /\ Named(th[u]) /\ Later(th[u]))'
<1> PICK r \in Local : r = th[u] /\ r = th'[u]
  BY HInvParts DEF Tells
<1>1. Told(r) /\ Setting(r) /\ Named(r) /\ Later(r) /\ Fits(r) /\ Recorded(r)
  BY HInvParts
<1>2. CASE r.pc = "idle"
  <2>1. r.user = NoUser
    BY <1>1, <1>2 DEF Told
  <2> QED BY <1>2, <2>1, Constants DEF Told, Setting, Named, Later
<1>3. CASE r.pc # "idle"
  <2>1. /\ r.req \in 1 .. MaxRequests /\ r.req # th[t].req /\ th[t].req \in 1 .. MaxRequests
        /\ Overlap(th[t].req, r.req) /\ log'[r.req] = log[r.req]
    BY <1>1, <1>3, Together DEF Fits, Tells
  <2>2. log[r.req].me = r.me /\ log[r.req].kind = r.kind /\ log[r.req].target = r.target
        /\ r.me # Nobody
    BY <1>1, <1>3, AccountsAssumption DEF Told, Recorded, Fits
  <2>3. Told(r)'
    BY <1>1, <2>1 DEF Told
  <2>4. Setting(r)'
    BY <1>1, <1>3, <2>1, <2>2, SoleKept DEF Setting
  <2>5. Named(r)'
    <3>1. ASSUME Clean(r.req)', NEW i \in Id, users'[i].person = r.me
          PROVE  users[i].person = r.me /\ users'[i].name = users[i].name
      BY <2>1, <2>2, <3>1, CleanRow
    <3>2. Clean(r.req)' => Clean(r.req)
      BY <2>1, CleanKept
    <3> QED BY <1>1, <3>1, <3>2 DEF Named
  <2>6. Later(r)'
    <3> SUFFICES ASSUME r.pc = "profile", NEW q \in 1 .. MaxRequests,
                        log'[q].kind = "page", log'[q].answer = "ok", Clean(q)',
                        q < r.req, ~Overlap(q, r.req)',
                        users'[r.user.id].person = log'[q].me, users'[r.user.id].born <= q
                 PROVE  r.user.name = users'[r.user.id].name
      BY DEF Later
    <3>1. ~Overlap(q, r.req) /\ q # th[t].req
      BY <2>1, OverlapsKept
    <3>2. log'[q] = log[q] /\ Clean(q) /\ r.user.id \in Id
      BY <1>1, <3>1, CleanKept DEF Tells, Fits
    <3>3. /\ users[r.user.id].person = log[q].me
          /\ users'[r.user.id].name = users[r.user.id].name
          /\ users'[r.user.id].born = users[r.user.id].born
      BY <3>1, <3>2, ShownRow
    <3> QED BY <1>1, <3>1, <3>2, <3>3 DEF Later
  <2> QED BY <2>3, <2>4, <2>5, <2>6 DEF Told, Setting, Named, Later
<1> QED BY <1>2, <1>3

LEMMA HistoryKept ==
  ASSUME IInv, HInv, NEW t \in Thread, Tells(t), TablesTell(t), OwnKept(t)
  PROVE  HInv'
<1>1. Apart'
  <2> SUFFICES ASSUME NEW u \in Thread, NEW v \in Thread, th'[u].pc # "idle", th'[v].pc # "idle",
                      th'[u].req = th'[v].req
               PROVE  u = v
    BY DEF Apart
  <2>1. \A w \in Thread : th'[w].pc # "idle" => th[w].pc # "idle" /\ th'[w].req = th[w].req
    BY DEF Tells, Same
  <2> QED BY <2>1 DEF HInv, Apart
<1>2. Unique'
  <2> SUFFICES ASSUME NEW i \in Id, NEW j \in Id, users'[i].person # Nobody,
                      users'[i].person = users'[j].person
               PROVE  i = j
    BY DEF Unique, HasRow
  <2>1. RowTells(t, i) /\ RowTells(t, j)
    BY DEF TablesTell
  <2>2. CASE users'[i].person = users[i].person /\ users'[j].person = users[j].person
    BY <2>2 DEF HInv, Unique, HasRow
  <2>3. CASE users'[i].person # users[i].person /\ users'[j].person = users[j].person
    BY <2>1, <2>3 DEF RowTells
  <2>4. CASE users'[i].person = users[i].person /\ users'[j].person # users[j].person
    BY <2>1, <2>4 DEF RowTells
  <2>5. CASE users'[i].person # users[i].person /\ users'[j].person # users[j].person
    BY <2>5 DEF TablesTell
  <2> QED BY <2>2, <2>3, <2>4, <2>5
<1>3. \A u \in Thread : (Told(th[u]) /\ Setting(th[u]) /\ Named(th[u]) /\ Later(th[u]))'
  BY OthersKept DEF OwnKept
<1>4. ASSUME NEW q \in 1 .. MaxRequests
      PROVE  (Written(q) /\ Shown(q) /\ AsSet(q))'
  <2>1. Written(q)'
    BY LogKept, HInvParts DEF Written
  <2>2. CASE q = th[t].req
    BY <2>1, <2>2 DEF OwnKept
  <2>3. CASE q # th[t].req
    <3>1. log'[q] = log[q] /\ Shown(q) /\ AsSet(q)
      BY <2>3, HInvParts DEF Tells
    <3>2. Shown(q)'
      <4>1. Clean(q)' => Clean(q)
        BY CleanKept
      <4> QED BY <2>3, <3>1, <4>1, ShownRow DEF Shown
    <3>3. AsSet(q)'
      BY <2>3, <3>1, SoleKept DEF AsSet
    <3> QED BY <2>1, <3>2, <3>3
  <2> QED BY <2>2, <2>3
<1>5. GroupsAreAsSet'
  BY <1>4 DEF GroupsAreAsSet, AsSet, Sole, Ones
<1> QED BY <1>1, <1>2, <1>3, <1>4, <1>5 DEF HInv

-----------------------------------------------------------------------------
(* The forms a step of a request takes.                                    *)
LEMMA StepTells ==
  ASSUME IInv, NEW t \in Thread, th[t].pc # "idle", NEW r, Become(t, r),
         r.pc # "idle" => Same(r, th[t]), NEW e, log' = [log EXCEPT ![th[t].req] = e],
         e.kind = Entry(t).kind, e.me = Entry(t).me, e.target = Entry(t).target,
         e.form = Entry(t).form, e.beside = Entry(t).beside, e.failed \in {Entry(t).failed, TRUE},
         r.pc # "idle" => e.answer = Entry(t).answer,
         used'.requests = used.requests, orphans \subseteq orphans'
  PROVE  Tells(t) /\ th'[t] = r /\ log'[th[t].req] = e
<1> PICK k \in 1 .. MaxRequests : k = th[t].req
  BY IInvParts
<1>1. /\ th'[t] = r /\ \A u \in Thread \ {t} : th'[u] = th[u]
      /\ log'[k] = e /\ \A q \in 1 .. MaxRequests \ {k} : log'[q] = log[q]
  BY IInvParts DEF Become
<1>2. log[k].failed => log'[k].failed
  BY <1>1 DEF Entry
<1> QED BY <1>1, <1>2 DEF Tells, Entry

LEMMA GoesOnTells ==
  ASSUME IInv, NEW t \in Thread, th[t].pc # "idle", NEW r, GoesOn(t, r), Same(r, th[t]),
         used'.requests = used.requests, orphans \subseteq orphans'
  PROVE  Tells(t) /\ th'[t] = r /\ log' = log
<1>1. log' = [log EXCEPT ![th[t].req] = Entry(t)] /\ log' = log /\ Become(t, r)
  BY IInvParts DEF GoesOn, Entry
<1> QED BY <1>1, StepTells

LEMMA GoesOnAfterTells ==
  ASSUME IInv, NEW t \in Thread, th[t].pc # "idle", NEW fate, NEW r \in Local,
         GoesOnAfter(t, fate, r), Same(r, th[t]),
         used'.requests = used.requests, orphans \subseteq orphans'
  PROVE  \E s \in Local :
            /\ Tells(t) /\ th'[t] = s /\ Same(s, th[t])
            /\ s.pc = r.pc /\ s.user = r.user /\ s.form = r.form
            /\ log'[th[t].req].failed <=> log[th[t].req].failed \/ fate # "ok"
<1> PICK e, s : /\ e = [Entry(t) EXCEPT !.failed = @ \/ fate # "ok"]
               /\ s = [r EXCEPT !.gone = (fate = "gone")]
  OBVIOUS
<1>1. Entry(t) \in Logged
  BY IInvParts
<1>2. /\ e.kind = Entry(t).kind /\ e.me = Entry(t).me /\ e.target = Entry(t).target
      /\ e.form = Entry(t).form /\ e.beside = Entry(t).beside /\ e.answer = Entry(t).answer
      /\ e.failed \in {Entry(t).failed, TRUE}
      /\ e.failed <=> Entry(t).failed \/ fate # "ok"
  BY <1>1 DEF Logged
<1>3. /\ s \in Local /\ s.pc = r.pc /\ s.user = r.user /\ s.form = r.form /\ Same(s, th[t])
  BY DEF Local, Same
<1>4. Become(t, s) /\ log' = [log EXCEPT ![th[t].req] = e]
  BY DEF GoesOnAfter, Notes
<1>5. Tells(t) /\ th'[t] = s /\ log'[th[t].req] = e
  BY <1>2, <1>3, <1>4, StepTells
<1> QED BY <1>2, <1>3, <1>5 DEF Entry

LEMMA AnsweredTells ==
  ASSUME IInv, NEW t \in Thread, th[t].pc # "idle", NEW answer, Answered(t, answer),
         used'.requests = used.requests, orphans \subseteq orphans'
  PROVE  Tells(t) /\ th'[t] = Idle /\ log'[th[t].req].answer = answer
<1>a. PICK e : e = [Entry(t) EXCEPT !.answer = answer, !.touched = th[t].touched]
  OBVIOUS
<1>1. Entry(t) \in Logged
  BY IInvParts
<1>2. /\ e.kind = Entry(t).kind /\ e.me = Entry(t).me /\ e.target = Entry(t).target
      /\ e.form = Entry(t).form /\ e.beside = Entry(t).beside /\ e.answer = answer
      /\ e.failed = Entry(t).failed
  BY <1>a, <1>1 DEF Logged
<1>3. Become(t, Idle) /\ log' = [log EXCEPT ![th[t].req] = e]
  BY <1>a DEF Answered, Notes
<1>4. Idle.pc = "idle"
  BY DEF Idle
<1>5. Tells(t) /\ th'[t] = Idle /\ log'[th[t].req] = e
  <2>1. Idle.pc # "idle" => Same(Idle, th[t])
    BY <1>4
  <2>2. Idle.pc # "idle" => e.answer = Entry(t).answer
    BY <1>4
  <2>3. e.failed \in {Entry(t).failed, TRUE}
    BY <1>2
  <2> QED BY <1>2, <1>3, <2>1, <2>2, <2>3, StepTells
<1> QED BY <1>2, <1>5

LEMMA AnsweredAfterTells ==
  ASSUME IInv, NEW t \in Thread, th[t].pc # "idle", NEW fate, NEW answer,
         AnsweredAfter(t, fate, answer),
         used'.requests = used.requests, orphans \subseteq orphans'
  PROVE  /\ Tells(t) /\ th'[t] = Idle /\ log'[th[t].req].answer = answer
         /\ log'[th[t].req].failed <=> log[th[t].req].failed \/ fate # "ok"
<1>a. PICK e : e = [Entry(t) EXCEPT !.answer = answer, !.failed = @ \/ fate # "ok"]
  OBVIOUS
<1>1. Entry(t) \in Logged
  BY IInvParts
<1>2. /\ e.kind = Entry(t).kind /\ e.me = Entry(t).me /\ e.target = Entry(t).target
      /\ e.form = Entry(t).form /\ e.beside = Entry(t).beside /\ e.answer = answer
      /\ e.failed \in {Entry(t).failed, TRUE}
      /\ e.failed <=> Entry(t).failed \/ fate # "ok"
  BY <1>a, <1>1 DEF Logged
<1>3. Become(t, Idle) /\ log' = [log EXCEPT ![th[t].req] = e]
  BY <1>a DEF AnsweredAfter, Notes
<1>4. Idle.pc = "idle"
  BY DEF Idle
<1>5. Tells(t) /\ th'[t] = Idle /\ log'[th[t].req] = e
  <2>1. Idle.pc # "idle" => Same(Idle, th[t])
    BY <1>4
  <2>2. Idle.pc # "idle" => e.answer = Entry(t).answer
    BY <1>4
  <2>3. e.failed \in {Entry(t).failed, TRUE}
    BY <1>2
  <2> QED BY <1>2, <1>3, <2>1, <2>2, <2>3, StepTells
<1> QED BY <1>2, <1>5 DEF Entry

-----------------------------------------------------------------------------
(* What such a step has to show.                                           *)
LEMMA Continues ==
  ASSUME IInv, HInv, NEW t \in Thread, Tells(t), TablesTell(t),
         NEW r \in Local, th'[t] = r, r.pc \notin {"idle", "find", "basic"},
         r.pc = "calls" => r.kind \in {"dav", "basic", "page"},
         r.pc = "regenerate" => r.kind = "regenerate",
         r.pc = "look" => r.kind \in {"update", "delete"},
         r.pc = "remove" => r.kind = "delete",
         Setting(r)', Named(r)', Later(r)'
  PROVE  HInv'
<1> PICK k \in 1 .. MaxRequests : k = th[t].req
  BY DEF Tells
<1>1. /\ r.req = k /\ r.me = th[t].me /\ log'[k].me = log[k].me
      /\ log'[k].answer = log[k].answer
  BY DEF Tells, Same
<1>2. log[k].answer = "none" /\ log[k].me = th[t].me
  BY HInvParts DEF Tells, Told
<1>3. Told(r)'
  BY <1>1, <1>2 DEF Told
<1>4. (Shown(k) /\ AsSet(k))'
  BY <1>1, <1>2 DEF Shown, AsSet
<1>5. OwnKept(t)
  BY <1>3, <1>4 DEF OwnKept, Told, Setting, Named, Later
<1> QED BY <1>5, HistoryKept

LEMMA Ends ==
  ASSUME IInv, HInv, NEW t \in Thread, Tells(t), TablesTell(t), th'[t] = Idle,
         NEW k \in 1 .. MaxRequests, k = th[t].req, (Shown(k) /\ AsSet(k))'
  PROVE  HInv'
<1>1. Idle.pc = "idle" /\ Idle.user = NoUser /\ Idle.user.id \notin Id
  BY IdleFits DEF Idle
<1>2. (Told(Idle) /\ Setting(Idle) /\ Named(Idle) /\ Later(Idle))'
  BY <1>1 DEF Told, Setting, Named, Later
<1>3. OwnKept(t)
  BY <1>2 DEF OwnKept, Told, Setting, Named, Later
<1> QED BY <1>3, HistoryKept

LEMMA EndsBadly ==
  ASSUME IInv, HInv, NEW t \in Thread, Tells(t), TablesTell(t), th'[t] = Idle,
         log'[th[t].req].answer # "ok" \/ th[t].kind \notin {"page", "update"}
  PROVE  HInv'
<1> PICK k \in 1 .. MaxRequests : k = th[t].req
  BY DEF Tells
<1>1. log[k].kind = th[t].kind
  BY HInvParts DEF Recorded, Tells
<1>2. (Shown(k) /\ AsSet(k))'
  BY <1>1 DEF Shown, AsSet, Tells
<1> QED BY <1>2, Ends

LEMMA TablesSame ==
  ASSUME NEW t \in Thread, UNCHANGED <<users, grants>>
  PROVE  TablesTell(t)
BY DEF TablesTell, RowTells

(* A step that neither reads nor writes the row, nor begins to set groups. *)
LEMMA PlainStep ==
  ASSUME IInv, HInv, NEW t \in Thread, Tells(t), TablesTell(t), UNCHANGED users,
         NEW r \in Local, th'[t] = r, r.form = th[t].form, th[t].pc # "insert",
         r.pc \notin {"idle", "find", "basic", "profile", "insert"},
         r.pc = "calls" => r.kind \in {"dav", "basic", "page"},
         r.pc = "regenerate" => r.kind = "regenerate",
         r.pc = "look" => r.kind \in {"update", "delete"},
         r.pc = "remove" => r.kind = "delete",
         \/ r.user = NoUser \/ r.kind = "basic"
         \/ r.user = th[t].user /\ th[t].pc # "profile"
  PROVE  HInv'
<1> PICK k \in 1 .. MaxRequests : k = th[t].req
  BY DEF Tells
<1>1. Same(r, th[t]) /\ r.req = k /\ th[t].pc # "idle"
  BY DEF Tells, Same
<1>2. Setting(r)'
  <2>1. log'[k].form = log[k].form
    BY LogKept
  <2>2. Setting(th[t])
    BY HInvParts
  <2>3. r.kind = "update" => r.form = log'[k].form
    BY <1>1, <2>1, <2>2 DEF Setting, Same
  <2> QED BY <1>1, <2>3 DEF Setting
<1>3. Named(r)'
  <2>1. CASE r.user = NoUser \/ r.kind = "basic"
    BY <2>1, Constants DEF Named
  <2>2. CASE r.user = th[t].user /\ th[t].pc # "profile"
    <3>1. Clean(k)' => Clean(k)
      BY CleanKept
    <3> QED BY <1>1, <2>2, <3>1, HInvParts DEF Named, Same
  <2> QED BY <2>1, <2>2
<1>4. Later(r)'
  BY DEF Later
<1> QED BY <1>2, <1>3, <1>4, Continues

-----------------------------------------------------------------------------
(* Authentication.                                                         *)
LEMMA Spent ==
  ASSUME IInv, NEW t \in Thread, NEW fate, Spend(t, fate)
  PROVE  used'.requests = used.requests
BY IInvParts DEF Spend

LEMMA LoginFailsTells ==
  ASSUME IInv, HInv, NEW t \in Thread, th[t].pc \in {"find", "profile"}, NEW fate,
         LoginFails(t, fate), Spend(t, fate), UNCHANGED <<users, grants, orphans>>
  PROVE  HInv'
<1>a. PICK r : r = [th[t] EXCEPT !.pc = "check", !.user = NoUser]
  OBVIOUS
<1>1. /\ r \in Local /\ r.pc = "check" /\ r.user = NoUser /\ r.form = th[t].form
      /\ Same(r, th[t])
  <2>1. th[t] \in Local /\ "check" \in Label /\ NoUser \in User
    BY HInvParts, Constants DEF Label
  <2> QED BY <1>a, <2>1 DEF Local, Same
<1>2. GoesOnAfter(t, fate, r)
  BY <1>a DEF LoginFails
<1>3. PICK s \in Local :
        /\ Tells(t) /\ th'[t] = s /\ Same(s, th[t])
        /\ s.pc = r.pc /\ s.user = r.user /\ s.form = r.form
  BY <1>1, <1>2, GoesOnAfterTells, Spent
<1> QED BY <1>1, <1>3, TablesSame, PlainStep

(* A login that begins to complete a row.                                  *)
LEMMA LoginBegins ==
  ASSUME IInv, HInv, NEW t \in Thread, th[t].pc = "find", Tells(t), TablesTell(t),
         UNCHANGED grants, NEW i \in Id, NEW s \in Local, th'[t] = s, Same(s, th[t]),
         s.pc = "profile", s.user.id = i, s.form = th[t].form,
         s.user.name = users'[i].name,
         \A j \in Id : users'[j].person = th[t].me => j = i
  PROVE  HInv'
<1> PICK k \in 1 .. MaxRequests : k = th[t].req
  BY DEF Tells
<1>1. Setting(s)'
  <2>1. log'[k].form = log[k].form
    BY LogKept
  <2>2. s.kind = "update" => s.form = log'[k].form
    BY <2>1, HInvParts DEF Setting, Same
  <2> QED BY <2>2 DEF Setting, Same
<1>2. Named(s)'
  BY DEF Named, Same
<1>3. Later(s)'
  BY DEF Later
<1> QED BY <1>1, <1>2, <1>3, Continues

LEMMA FindOrCreateUserTells ==
  ASSUME IInv, HInv, NEW t \in Thread, FindOrCreateUser(t)
  PROVE  HInv'
<1>1. PICK fate \in Fates(t) :
        /\ \/ fate # "ok" /\ UNCHANGED tables /\ LoginFails(t, fate)
           \/ /\ fate = "ok"
              /\ \E i \in Id : users[i].person = th[t].me /\ Finds(t, fate, i)
           \/ /\ fate = "ok"
              /\ \A i \in Id : users[i].person # th[t].me
              /\ \E i \in Id : /\ Inserts(t, i)
                              /\ GoesOn(t, [th[t] EXCEPT !.pc = "profile", !.user = Created(i)])
        /\ Spend(t, fate)
  BY DEF FindOrCreateUser
<1>2. /\ th[t].pc = "find" /\ orphans' = orphans /\ used'.requests = used.requests
      /\ th[t] \in Local /\ "profile" \in Label /\ th[t].me \in Person /\ th[t].me # Nobody
  BY <1>1, Spent, HInvParts, AccountsAssumption DEF FindOrCreateUser, Label, Fits
<1>3. CASE UNCHANGED tables /\ LoginFails(t, fate)
  BY <1>1, <1>2, <1>3, LoginFailsTells DEF tables
<1>4. CASE \E i \in Id : users[i].person = th[t].me /\ Finds(t, fate, i)
  <2>1. PICK i \in Id : users[i].person = th[t].me /\ Finds(t, fate, i)
    BY <1>4
  <2>a. PICK user : user = Loaded(i)
    OBVIOUS
  <2>b. PICK r : r = [th[t] EXCEPT !.pc = "profile", !.user = user]
    OBVIOUS
  <2>2. user \in User /\ user.id = i /\ user.name = users[i].name
    BY <2>a, LoadedFits DEF Loaded
  <2>3. r \in Local /\ r.pc = "profile" /\ r.user = user /\ r.form = th[t].form /\ Same(r, th[t])
    BY <1>2, <2>2, <2>b DEF Local, Same
  <2>4. GoesOnAfter(t, fate, r) /\ UNCHANGED <<users, grants>>
    BY <2>1, <2>a, <2>b DEF Finds, tables
  <2>5. PICK s \in Local :
          /\ Tells(t) /\ th'[t] = s /\ Same(s, th[t])
          /\ s.pc = r.pc /\ s.user = r.user /\ s.form = r.form
    BY <1>2, <2>3, <2>4, GoesOnAfterTells
  <2>6. \A j \in Id : users'[j].person = th[t].me => j = i
    BY <1>2, <2>1, <2>4 DEF HInv, Unique, HasRow
  <2>7. s.user.name = users'[i].name
    BY <2>2, <2>3, <2>4, <2>5
  <2> QED BY <1>2, <2>2, <2>3, <2>4, <2>5, <2>6, <2>7, TablesSame, LoginBegins
<1>5. CASE /\ \A i \in Id : users[i].person # th[t].me
           /\ \E i \in Id : /\ Inserts(t, i)
                           /\ GoesOn(t, [th[t] EXCEPT !.pc = "profile", !.user = Created(i)])
  <2>1. PICK i \in Id :
           Inserts(t, i) /\ GoesOn(t, [th[t] EXCEPT !.pc = "profile", !.user = Created(i)])
    BY <1>5
  <2>a. PICK user : user = Created(i)
    OBVIOUS
  <2>b. PICK r : r = [th[t] EXCEPT !.pc = "profile", !.user = user]
    OBVIOUS
  <2>c. PICK row : row = [NoRow EXCEPT !.person = th[t].me, !.born = th[t].req]
    OBVIOUS
  <2>2. user \in User /\ user.id = i /\ user.name = 0
    BY <2>a, LoadedFits DEF Created, NoUser
  <2>3. r \in Local /\ r.pc = "profile" /\ r.user = user /\ r.form = th[t].form /\ Same(r, th[t])
    BY <1>2, <2>2, <2>b DEF Local, Same
  <2>4. GoesOn(t, r) /\ grants' = grants /\ users' = [users EXCEPT ![i] = row]
    BY <2>1, <2>a, <2>b, <2>c DEF Inserts
  <2>5. Tells(t) /\ th'[t] = r
    BY <1>2, <2>3, <2>4, GoesOnTells
  <2>6. row.person = th[t].me /\ row.born = th[t].req /\ row.name = 0
    BY <2>c DEF NoRow
  <2>7. users'[i] = row /\ \A j \in Id \ {i} : users'[j] = users[j]
    BY <2>4, HInvParts
  <2>8. TablesTell(t)
    <3>1. \A j \in Id : RowTells(t, j)
      BY <1>2, <1>5, <2>6, <2>7 DEF RowTells
    <3>2. \A j \in Id : users'[j].person # users[j].person => j = i
      BY <2>7
    <3> QED BY <2>4, <3>1, <3>2 DEF TablesTell
  <2>9. \A j \in Id : users'[j].person = th[t].me => j = i
    BY <1>5, <2>7
  <2>10. r.user.id = i /\ r.user.name = users'[i].name
    BY <2>2, <2>3, <2>6, <2>7
  <2> QED BY <1>2, <2>3, <2>4, <2>5, <2>8, <2>9, <2>10, LoginBegins
<1> QED BY <1>1, <1>3, <1>4, <1>5

(* The row has the name that the request holds, or nobody has the row.     *)
LEMMA UpdateProfileTells ==
  ASSUME IInv, HInv, NEW t \in Thread, UpdateProfile(t)
  PROVE  HInv'
<1>a. PICK user : user = Completed(t)
  OBVIOUS
<1>1. PICK fate \in Fates(t) :
        /\ \/ LoginFails(t, fate) /\ UNCHANGED users
           \/ /\ GoesOn(t, [th[t] EXCEPT !.pc = "check", !.user = user])
              /\ \/ user = th[t].user /\ UNCHANGED users
                 \/ UpdateRow(user.id, [users[user.id] EXCEPT
                        !.name = user.name, !.profile = user.profile, !.admin = user.admin])
        /\ Spend(t, fate)
  BY <1>a DEF UpdateProfile
<1>2. /\ th[t].pc = "profile" /\ UNCHANGED <<grants, orphans>> /\ used'.requests = used.requests
      /\ th[t] \in Local /\ "check" \in Label /\ th[t].me \in Person /\ th[t].me # Nobody
      /\ th[t].user \in User /\ th[t].user.id \in Id
      /\ th[t].req \in Number /\ th[t].req \in 1 .. MaxRequests /\ th[t].kind # "basic"
  BY <1>1, Spent, HInvParts, Constants, AccountsAssumption DEF UpdateProfile, Label, Fits
<1>3. CASE LoginFails(t, fate) /\ UNCHANGED users
  BY <1>1, <1>2, <1>3, LoginFailsTells
<1>4. CASE /\ GoesOn(t, [th[t] EXCEPT !.pc = "check", !.user = user])
           /\ \/ user = th[t].user /\ UNCHANGED users
              \/ UpdateRow(user.id, [users[user.id] EXCEPT
                     !.name = user.name, !.profile = user.profile, !.admin = user.admin])
  <2> PICK i \in Id, k \in 1 .. MaxRequests : i = th[t].user.id /\ k = th[t].req
    BY <1>2
  <2>1. PICK name \in Number : name = IF th[t].user.name = 0 THEN th[t].req ELSE th[t].user.name
    BY <1>2 DEF User
  <2>2. name # 0
    BY <1>2, <2>1, AccountsAssumption
  <2>3. user \in User /\ user.id = i /\ user.name = name
    <3>1. PICK admin \in BOOLEAN : admin <=> th[t].me \in admins
      <4>1. CASE th[t].me \in admins
        BY <4>1
      <4>2. CASE th[t].me \notin admins
        BY <4>2
      <4> QED BY <4>1, <4>2
    <3>2. user = [th[t].user EXCEPT !.name = name, !.profile = th[t].me, !.admin = admin]
      BY <1>a, <2>1, <3>1, Zenon DEF Completed
    <3> QED BY <1>2, <3>2 DEF User
  <2>b. PICK r : r = [th[t] EXCEPT !.pc = "check", !.user = user]
    OBVIOUS
  <2>4. r \in Local /\ r.pc = "check" /\ r.user = user /\ r.form = th[t].form /\ Same(r, th[t])
    BY <1>2, <2>3, <2>b DEF Local, Same
  <2>5. GoesOn(t, r)
    BY <1>4, <2>b
  <2>6. Tells(t) /\ th'[t] = r /\ log' = log
    BY <1>2, <2>4, <2>5, GoesOnTells
  <2>7. /\ \A j \in Id \ {i} : users'[j] = users[j]
        /\ users'[i].person = users[i].person /\ users'[i].born = users[i].born
        /\ \/ users'[i] = users[i] /\ (user = th[t].user \/ ~HasRow(i))
           \/ users'[i].name = name
    <3>1. CASE user = th[t].user /\ UNCHANGED users
      BY <3>1
    <3>2. CASE UpdateRow(user.id, [users[user.id] EXCEPT
                   !.name = user.name, !.profile = user.profile, !.admin = user.admin])
      <4>1. PICK row : row = [users[user.id] EXCEPT
                !.name = user.name, !.profile = user.profile, !.admin = user.admin]
        OBVIOUS
      <4>2. users[i] \in Row /\ users \in [Id -> Row]
        BY HInvParts
      <4>3. row.person = users[i].person /\ row.born = users[i].born /\ row.name = name
        BY <2>3, <4>1, <4>2 DEF Row
      <4>4. users' = IF HasRow(i) THEN [users EXCEPT ![i] = row] ELSE users
        BY <2>3, <3>2, <4>1 DEF UpdateRow
      <4> QED BY <4>2, <4>3, <4>4
    <3> QED BY <1>4, <3>1, <3>2
  <2>8. TablesTell(t)
    <3>1. RowTells(t, i)
      BY <1>2, <2>1, <2>7 DEF RowTells
    <3>2. \A j \in Id \ {i} : RowTells(t, j)
      BY <2>7 DEF RowTells
    <3> QED BY <1>2, <2>7, <3>1, <3>2 DEF TablesTell
  <2>9. Setting(r)'
    <3>1. r.kind = "update" => r.form = log'[k].form
      BY <1>2, <2>4, <2>6, HInvParts DEF Setting, Same
    <3> QED BY <2>4, <3>1 DEF Setting, Same
  <2>10. Named(r)'
    <3> SUFFICES ASSUME Clean(k)', NEW j \in Id, users'[j].person = th[t].me
                 PROVE  j = i /\ users'[j].name = name
      BY <2>2, <2>3, <2>4 DEF Named, Same
    <3>1. Clean(k) /\ users[j].person = th[t].me
      BY <2>6, <2>7, CleanKept
    <3>2. j = i /\ users[j].name = th[t].user.name /\ HasRow(i)
      BY <1>2, <3>1, HInvParts DEF Named, HasRow
    <3> QED BY <2>3, <2>7, <3>2
  <2>11. Later(r)'
    BY <2>4 DEF Later
  <2> QED BY <2>4, <2>6, <2>8, <2>9, <2>10, <2>11, Continues
<1> QED BY <1>1, <1>3, <1>4

LEMMA ServeTells ==
  ASSUME IInv, HInv, NEW t \in Thread, th[t].pc \in {"check", "connect", "basic"},
         NEW s \in Local, Same(s, th[t]), s.form = th[t].form,
         s.kind = "basic" \/ s.user = th[t].user,
         UNCHANGED <<users, grants, orphans>>, used'.requests = used.requests,
         ConnectsOrServes(t, s)
  PROVE  HInv'
<1>1. ASSUME NEW label \in {"connect", "calls", "regenerate", "look"},
             GoesOn(t, [s EXCEPT !.pc = label]),
             label = "calls" => s.kind \in {"dav", "basic", "page"},
             label = "regenerate" => s.kind = "regenerate",
             label = "look" => s.kind \in {"update", "delete"}
      PROVE  HInv'
  <2>a. PICK r : r = [s EXCEPT !.pc = label]
    OBVIOUS
  <2>1. label \in Label
    BY DEF Label
  <2>2. /\ r \in Local /\ r.pc = label /\ r.user = s.user /\ r.form = s.form
        /\ r.kind = s.kind /\ Same(r, th[t])
    BY <2>a, <2>1 DEF Local, Same
  <2>3. Tells(t) /\ th'[t] = r
    BY <1>1, <2>a, <2>2, GoesOnTells
  <2> QED BY <1>1, <2>2, <2>3, TablesSame, PlainStep
<1>2. CASE Answered(t, "forbidden")
  BY <1>2, AnsweredTells, TablesSame, EndsBadly
<1> QED BY <1>1, <1>2 DEF ConnectsOrServes, Serve, Administers

LEMMA CheckLoginTells ==
  ASSUME IInv, HInv, NEW t \in Thread, CheckLogin(t) \/ Connect(t)
  PROVE  HInv'
<1>1. /\ th[t].pc \in {"check", "connect"}
      /\ UNCHANGED <<users, grants, admins, err, used, orphans>>
      /\ \/ Answered(t, "error") \/ Answered(t, "dropped")
         \/ ConnectsOrServes(t, th[t])
  BY DEF CheckLogin, Connect, ConnectsOrServes, tables
<1>2. CASE Answered(t, "error")
  BY <1>1, <1>2, AnsweredTells, TablesSame, EndsBadly
<1>3. CASE Answered(t, "dropped")
  BY <1>1, <1>3, AnsweredTells, TablesSame, EndsBadly
<1>4. CASE ConnectsOrServes(t, th[t])
  BY <1>1, <1>4, HInvParts, ServeTells DEF Same
<1> QED BY <1>1, <1>2, <1>3, <1>4

LEMMA AuthenticateTells ==
  ASSUME IInv, HInv, NEW t \in Thread, Authenticate(t)
  PROVE  HInv'
<1>1. PICK fate \in Fates(t) :
        /\ \/ AnsweredAfter(t, fate, "unauthorized")
           \/ \E i \in Id : ConnectsOrServes(t, [th[t] EXCEPT !.user = Loaded(i)])
        /\ Spend(t, fate)
  BY DEF Authenticate
<1>2. /\ th[t].pc = "basic" /\ UNCHANGED <<users, grants, orphans>>
      /\ used'.requests = used.requests
  BY <1>1, Spent DEF Authenticate, tables
<1>3. CASE AnsweredAfter(t, fate, "unauthorized")
  BY <1>2, <1>3, AnsweredAfterTells, TablesSame, EndsBadly
<1>4. CASE \E i \in Id : ConnectsOrServes(t, [th[t] EXCEPT !.user = Loaded(i)])
  <2>1. PICK i \in Id : ConnectsOrServes(t, [th[t] EXCEPT !.user = Loaded(i)])
    BY <1>4
  <2>a. PICK s : s = [th[t] EXCEPT !.user = Loaded(i)]
    OBVIOUS
  <2>2. th[t] \in Local /\ Loaded(i) \in User /\ th[t].kind = "basic"
    BY <1>2, HInvParts, LoadedFits DEF Fits
  <2>3. s \in Local /\ Same(s, th[t]) /\ s.form = th[t].form /\ s.kind = "basic"
    BY <2>2, <2>a DEF Local, Same
  <2> QED BY <1>2, <2>1, <2>3, <2>a, ServeTells
<1> QED BY <1>1, <1>3, <1>4

-----------------------------------------------------------------------------
(* What is served: a page shows the name that the request holds.           *)
LEMMA CallsDoneTells ==
  ASSUME IInv, HInv, NEW t \in Thread, th[t].pc = "calls",
         NEW s \in Local, Same(s, th[t]), s.pc = "calls", s.user = th[t].user,
         s.form = th[t].form, CallsDone(t, s),
         UNCHANGED <<users, grants, used, orphans>>
  PROVE  HInv'
<1> PICK k \in 1 .. MaxRequests : k = th[t].req
  BY HInvParts DEF Fits
<1>1. th[t].kind \in {"dav", "basic", "page"}
  BY HInvParts DEF Told
<1>2. CASE GoesOn(t, [s EXCEPT !.at = @ + 1])
  <2>a. PICK r : r = [s EXCEPT !.at = @ + 1]
    OBVIOUS
  <2>1. /\ r \in Local /\ r.pc = "calls" /\ r.user = s.user /\ r.form = s.form
        /\ Same(r, th[t])
    BY <2>a DEF Local, Same
  <2>2. Tells(t) /\ th'[t] = r
    BY <1>2, <2>a, <2>1, GoesOnTells
  <2> QED BY <1>1, <2>1, <2>2, TablesSame, PlainStep DEF Same
<1>3. ASSUME Become(t, Idle),
             Notes(t, [Entry(t) EXCEPT !.answer = "ok", !.touched = s.touched,
                           !.name = IF s.kind = "page" THEN s.user.name ELSE 0])
      PROVE  HInv'
  <2>1. PICK name : name = IF s.kind = "page" THEN s.user.name ELSE 0
    OBVIOUS
  <2>a. PICK e : e = [Entry(t) EXCEPT !.answer = "ok", !.touched = s.touched, !.name = name]
    OBVIOUS
  <2>2. Entry(t) \in Logged
    BY HInvParts DEF Entry
  <2>3. /\ e.kind = Entry(t).kind /\ e.me = Entry(t).me /\ e.target = Entry(t).target
        /\ e.form = Entry(t).form /\ e.beside = Entry(t).beside
        /\ e.failed = Entry(t).failed /\ e.name = name
    BY <2>a, <2>2 DEF Logged
  <2>4. log' = [log EXCEPT ![th[t].req] = e]
    BY <1>3, <2>1, <2>a DEF Notes
  <2>5. Tells(t) /\ th'[t] = Idle /\ log'[th[t].req] = e
    <3>1. Idle.pc = "idle"
      BY DEF Idle
    <3>2. Idle.pc # "idle" => Same(Idle, th[t])
      BY <3>1
    <3>3. Idle.pc # "idle" => e.answer = Entry(t).answer
      BY <3>1
    <3>4. e.failed \in {Entry(t).failed, TRUE}
      BY <2>3
    <3> QED BY <1>3, <2>3, <2>4, <3>2, <3>3, <3>4, StepTells
  <2>6. log[k].kind = th[t].kind /\ log[k].me = th[t].me
    BY HInvParts DEF Recorded, Told
  <2>7. log'[k].kind = th[t].kind /\ log'[k].me = th[t].me /\ log'[k].name = name
    BY <2>3, <2>5, <2>6 DEF Entry
  <2>8. AsSet(k)'
    BY <1>1, <2>7 DEF AsSet
  <2>9. Shown(k)'
    <3> SUFFICES ASSUME th[t].kind = "page"
                 PROVE  /\ name # 0
                        /\ Clean(k)' => \A i \in Id : users'[i].person = th[t].me =>
                              users'[i].name = name
      BY <2>7 DEF Shown
    <3>1. name = th[t].user.name /\ th[t].user.id \in Id /\ th[t].kind # "basic"
      BY <2>1, HInvParts DEF Fits, Same
    <3>2. Clean(k)' => Clean(k)
      BY <2>5, CleanKept
    <3> QED BY <3>1, <3>2, HInvParts DEF Named
  <2> QED BY <2>5, <2>8, <2>9, TablesSame, Ends
<1> QED BY <1>2, <1>3 DEF CallsDone

LEMMA CallFileSystemTells ==
  ASSUME IInv, HInv, NEW t \in Thread, CallFileSystem(t)
  PROVE  HInv'
<1>1. PICK call :
        \/ CallsDone(t, [th[t] EXCEPT !.touched = @ \/ Changes(call)])
        \/ Answered(t, "denied")
        \/ CallsDone(t, th[t])
  BY DEF CallFileSystem, Rights
<1>2. th[t].pc = "calls" /\ UNCHANGED <<users, grants, used, orphans>>
  BY DEF CallFileSystem, tables
<1>3. th[t] \in Local
  BY HInvParts
<1>4. CASE CallsDone(t, [th[t] EXCEPT !.touched = @ \/ Changes(call)])
  <2>1. PICK touched \in BOOLEAN : touched <=> th[t].touched \/ Changes(call)
    <3>1. CASE th[t].touched \/ Changes(call)
      BY <3>1
    <3>2. CASE ~(th[t].touched \/ Changes(call))
      BY <3>2
    <3> QED BY <3>1, <3>2
  <2>2. PICK s : s = [th[t] EXCEPT !.touched = touched]
    OBVIOUS
  <2>3. /\ s \in Local /\ s.pc = "calls" /\ s.user = th[t].user /\ s.form = th[t].form
        /\ Same(s, th[t])
    BY <1>2, <1>3, <2>2 DEF Local, Same
  <2>4. s = [th[t] EXCEPT !.touched = @ \/ Changes(call)]
    BY <2>1, <2>2, Zenon
  <2> QED BY <1>2, <1>4, <2>3, <2>4, CallsDoneTells
<1>5. CASE Answered(t, "denied")
  BY <1>2, <1>5, AnsweredTells, TablesSame, EndsBadly
<1>6. CASE CallsDone(t, th[t])
  BY <1>2, <1>3, <1>6, CallsDoneTells DEF Same
<1> QED BY <1>1, <1>4, <1>5, <1>6

LEMMA RegenerateBasicPasswordTells ==
  ASSUME IInv, HInv, NEW t \in Thread, RegenerateBasicPassword(t)
  PROVE  HInv'
<1> PICK i : i = th[t].user.id
  OBVIOUS
<1>a. PICK row : row = [users[i] EXCEPT !.password = th[t].req]
  OBVIOUS
<1>1. PICK fate \in Fates(t), answer \in {"ok", "error"} :
        /\ UpdateRow(i, row) \/ UNCHANGED users
        /\ AnsweredAfter(t, fate, answer)
        /\ Spend(t, fate)
  BY <1>a DEF RegenerateBasicPassword
<1>2. /\ th[t].pc = "regenerate" /\ UNCHANGED <<grants, orphans>>
      /\ used'.requests = used.requests
  BY <1>1, Spent DEF RegenerateBasicPassword
<1>3. i \in Id /\ users[i] \in Row /\ users \in [Id -> Row]
  BY <1>2, HInvParts DEF Fits
<1>4. row.person = users[i].person /\ row.born = users[i].born /\ row.name = users[i].name
  BY <1>3, <1>a DEF Row
<1>5. TablesTell(t)
  <2>1. \A j \in Id : /\ users'[j].person = users[j].person /\ users'[j].born = users[j].born
                      /\ users'[j].name = users[j].name
    BY <1>1, <1>3, <1>4 DEF UpdateRow
  <2> QED BY <1>2, <2>1 DEF TablesTell, RowTells
<1>6. th[t].kind = "regenerate"
  BY <1>2, HInvParts DEF Told
<1> QED BY <1>1, <1>2, <1>5, <1>6, AnsweredAfterTells, EndsBadly

-----------------------------------------------------------------------------
(* Administration.                                                         *)
LEMMA LookUpTells ==
  ASSUME IInv, HInv, NEW t \in Thread, LookUp(t) \/ LookUpGroups(t)
  PROVE  HInv'
<1>a. PICK label \in {"groups", "remove", "rewrite"} :
         \/ th[t].pc = "look" /\ label = IF th[t].kind = "update" THEN "groups" ELSE "remove"
         \/ th[t].pc = "groups" /\ label = "rewrite"
  BY DEF LookUp, LookUpGroups
<1>b. PICK found \in [Group -> Nat] :
         found = IF label = "rewrite" THEN grants[th[t].target] ELSE th[t].found
  <2>1. th[t].found \in [Group -> Nat]
    BY HInvParts DEF Local
  <2>2. label = "rewrite" => grants[th[t].target] \in [Group -> Nat]
    BY <1>a, IInvParts DEF Fits
  <2> QED BY <2>1, <2>2
<1>c. PICK r : r = [th[t] EXCEPT !.pc = label, !.found = found]
  OBVIOUS
<1>1. /\ th[t] \in Local /\ label \in Label
      /\ th[t].kind \in Kind /\ (label = "remove" => th[t].kind # "update")
  BY <1>a, HInvParts DEF Label, Fits
<1>2. /\ r \in Local /\ r.pc = label /\ r.user = th[t].user /\ r.form = th[t].form
      /\ Same(r, th[t])
  BY <1>1, <1>c, <1>b DEF Local, Same
<1>3. \E fate \in Fates(t) :
        /\ GoesOn(t, r) \/ AnsweredAfter(t, fate, "error")
        /\ Spend(t, fate)
  <2>1. CASE LookUp(t)
    <3>1. label = (IF th[t].kind = "update" THEN "groups" ELSE "remove") /\ found = th[t].found
      BY <1>a, <1>b, <2>1 DEF LookUp
    <3>2. r = [th[t] EXCEPT !.pc = label]
      BY <1>1, <1>c, <3>1 DEF Local
    <3> QED BY <2>1, <3>1, <3>2 DEF LookUp
  <2>2. CASE LookUpGroups(t)
    <3>1. label = "rewrite" /\ found = grants[th[t].target]
      BY <1>a, <1>b, <2>2 DEF LookUpGroups
    <3> QED BY <1>c, <2>2, <3>1 DEF LookUpGroups
  <2> QED BY <2>1, <2>2
<1>4. UNCHANGED <<users, grants, orphans>> /\ used'.requests = used.requests
  BY <1>3, Spent DEF LookUp, LookUpGroups, tables
<1>5. CASE \E fate : AnsweredAfter(t, fate, "error")
  BY <1>a, <1>4, <1>5, AnsweredAfterTells, TablesSame, EndsBadly
<1>6. CASE GoesOn(t, r)
  <2>1. Tells(t) /\ th'[t] = r
    BY <1>a, <1>2, <1>4, <1>6, GoesOnTells
  <2>2. label = "remove" => r.kind = "delete"
    <3>1. label = "remove" => th[t].pc = "look"
      BY <1>a
    <3>2. th[t].pc = "look" => th[t].kind \in {"update", "delete"}
      BY HInvParts DEF Told
    <3> QED BY <1>1, <1>2, <3>1, <3>2 DEF Same
  <2> QED BY <1>a, <1>2, <1>4, <2>1, <2>2, TablesSame, PlainStep
<1> QED BY <1>3, <1>5, <1>6

LEMMA UpdateUserTells ==
  ASSUME IInv, HInv, NEW t \in Thread, UpdateUser(t)
  PROVE  HInv'
<1>a. PICK r : r = [th[t] EXCEPT !.pc = "clear"]
  OBVIOUS
<1>1. PICK fate \in Fates(t) :
        /\ \/ /\ grants' = [grants EXCEPT ![th[t].target] = th[t].found]
              /\ GoesOn(t, r)
           \/ UNCHANGED grants /\ AnsweredAfter(t, fate, "error")
        /\ Spend(t, fate)
  BY <1>a DEF UpdateUser
<1>2. /\ th[t].pc = "rewrite" /\ UNCHANGED <<users, orphans>> /\ used'.requests = used.requests
      /\ th[t] \in Local /\ th[t].kind = "update" /\ "clear" \in Label
  BY <1>1, Spent, HInvParts DEF UpdateUser, Fits, Label
<1>3. CASE UNCHANGED grants /\ AnsweredAfter(t, fate, "error")
  BY <1>2, <1>3, AnsweredAfterTells, TablesSame, EndsBadly
<1>4. CASE grants' = [grants EXCEPT ![th[t].target] = th[t].found] /\ GoesOn(t, r)
  <2>1. /\ r \in Local /\ r.pc = "clear" /\ r.user = th[t].user /\ r.form = th[t].form
        /\ Same(r, th[t])
    BY <1>2, <1>a DEF Local, Same
  <2>2. Tells(t) /\ th'[t] = r
    BY <1>2, <1>4, <2>1, GoesOnTells
  <2>3. TablesTell(t)
    <3>1. \A i \in Id : i # th[t].target => grants'[i] = grants[i]
      BY <1>4, IInvParts
    <3> QED BY <1>2, <3>1 DEF TablesTell, RowTells
  <2> QED BY <1>2, <2>1, <2>2, <2>3, PlainStep
<1> QED BY <1>1, <1>3, <1>4

(* With each group that is inserted, or with the deletion of all, the      *)
(* target has those of the form that are no longer to be inserted.         *)
LEMMA AfterInsertionTells ==
  ASSUME IInv, HInv, NEW t \in Thread, th[t].pc \in {"clear", "insert"},
         UNCHANGED <<users, orphans>>, used'.requests = used.requests, TablesTell(t),
         NEW k \in 1 .. MaxRequests, k = th[t].req,
         NEW r \in Local, Same(r, th[t]), r.user = th[t].user, r.form \subseteq log[k].form,
         NEW fate, AfterInsertion(t, fate, r),
         fate = "ok" /\ Sole(k) /\ ~log[k].failed =>
             grants'[th[t].target] = Ones(log[k].form \ r.form)
  PROVE  HInv'
<1> PICK i \in Id : i = th[t].target
  BY HInvParts DEF Fits
<1>1. /\ th[t].kind = "update" /\ log[k].kind = "update" /\ log[k].target = i
      /\ log[k].me = th[t].me
  BY HInvParts DEF Fits, Recorded, Told
<1>2. ASSUME Tells(t), Sole(k)', ~log'[k].failed,
             log'[k].failed <=> log[k].failed \/ fate # "ok"
      PROVE  grants'[i] = Ones(log[k].form \ r.form)
  BY <1>1, <1>2, SoleKept
<1>3. CASE r.form = {} /\ AnsweredAfter(t, fate, "ok")
  <2>1. /\ Tells(t) /\ th'[t] = Idle
        /\ log'[k].failed <=> log[k].failed \/ fate # "ok"
    BY <1>3, AnsweredAfterTells
  <2>2. log'[k].kind = "update" /\ log'[k].target = i /\ log'[k].form = log[k].form
    BY <1>1, <2>1, LogKept
  <2>3. log[k].form \ r.form = log[k].form
    BY <1>3
  <2>4. Shown(k)'
    BY <2>2 DEF Shown
  <2>5. AsSet(k)'
    BY <1>2, <2>1, <2>2, <2>3 DEF AsSet
  <2> QED BY <2>1, <2>4, <2>5, Ends
<1>4. CASE GoesOnAfter(t, fate, [r EXCEPT !.pc = "insert"])
  <2>a. PICK p : p = [r EXCEPT !.pc = "insert"]
    OBVIOUS
  <2>1. "insert" \in Label
    BY DEF Label
  <2>2. /\ p \in Local /\ p.pc = "insert" /\ p.user = r.user /\ p.form = r.form
        /\ Same(p, th[t])
    BY <2>a, <2>1 DEF Local, Same
  <2>3. GoesOnAfter(t, fate, p)
    BY <1>4, <2>a
  <2>4. PICK s \in Local :
          /\ Tells(t) /\ th'[t] = s /\ Same(s, th[t])
          /\ s.pc = p.pc /\ s.user = p.user /\ s.form = p.form
          /\ log'[k].failed <=> log[k].failed \/ fate # "ok"
    BY <2>2, <2>3, GoesOnAfterTells
  <2>5. log'[k].form = log[k].form
    BY <2>4, LogKept
  <2>6. Setting(s)'
    BY <1>2, <2>2, <2>4, <2>5 DEF Setting, Same
  <2>7. Named(s)'
    <3>1. Clean(k)' => Clean(k)
      BY <2>4, CleanKept
    <3>2. Named(th[t])
      BY HInvParts
    <3> QED BY <2>2, <2>4, <3>1, <3>2 DEF Named, Same
  <2>8. Later(s)'
    BY <2>2, <2>4 DEF Later
  <2> QED BY <2>2, <2>4, <2>6, <2>7, <2>8, Continues
<1> QED BY <1>3, <1>4 DEF AfterInsertion

LEMMA DeleteGroupsTells ==
  ASSUME IInv, HInv, NEW t \in Thread, DeleteGroups(t)
  PROVE  HInv'
<1>1. PICK fate \in Fates(t) :
        /\ grants' = IF fate = "ok" THEN [grants EXCEPT ![th[t].target] = NoGroups] ELSE grants
        /\ AfterInsertion(t, fate, th[t])
        /\ Spend(t, fate)
  BY DEF DeleteGroups
<1>2. /\ th[t].pc = "clear" /\ UNCHANGED <<users, orphans>> /\ used'.requests = used.requests
      /\ th[t] \in Local /\ th[t].kind = "update" /\ th[t].target \in Id
  BY <1>1, Spent, HInvParts DEF DeleteGroups, Fits
<1> PICK k \in 1 .. MaxRequests : k = th[t].req
  BY <1>2, HInvParts DEF Fits
<1>3. th[t].form = log[k].form
  BY <1>2, HInvParts DEF Setting
<1>4. TablesTell(t)
  <2>1. \A i \in Id : i # th[t].target => grants'[i] = grants[i]
    BY <1>1, IInvParts
  <2> QED BY <1>2, <2>1 DEF TablesTell, RowTells
<1>5. NoGroups = Ones(log[k].form \ th[t].form)
  BY <1>3 DEF NoGroups, Ones
<1>6. fate = "ok" => grants'[th[t].target] = NoGroups
  BY <1>1, <1>2, IInvParts
<1> QED BY <1>1, <1>2, <1>3, <1>4, <1>5, <1>6, AfterInsertionTells DEF Same

LEMMA InsertGroupTells ==
  ASSUME IInv, HInv, NEW t \in Thread, InsertGroup(t)
  PROVE  HInv'
<1>1. PICK g \in th[t].form, fate \in Fates(t) :
        /\ grants' = IF fate = "ok" /\ HasRow(th[t].target)
                     THEN [grants EXCEPT ![th[t].target][g] = @ + 1] ELSE grants
        /\ AfterInsertion(t, fate, [th[t] EXCEPT !.form = @ \ {g}])
        /\ Spend(t, fate)
  BY DEF InsertGroup
<1>2. /\ th[t].pc = "insert" /\ UNCHANGED <<users, orphans>> /\ used'.requests = used.requests
      /\ th[t] \in Local /\ th[t].kind = "update"
  BY <1>1, Spent, HInvParts DEF InsertGroup, Fits
<1> PICK k \in 1 .. MaxRequests, i \in Id : k = th[t].req /\ i = th[t].target
  BY <1>2, HInvParts DEF Fits
<1>3. th[t].form \subseteq log[k].form /\ log[k].target = i
  BY <1>2, HInvParts DEF Setting, Recorded
<1>4. TablesTell(t)
  <2>1. \A j \in Id : j # i => grants'[j] = grants[j]
    BY <1>1, IInvParts
  <2> QED BY <1>2, <2>1 DEF TablesTell, RowTells
<1>a. PICK r : r = [th[t] EXCEPT !.form = @ \ {g}]
  OBVIOUS
<1>5. /\ r \in Local /\ Same(r, th[t]) /\ r.user = th[t].user /\ r.form = th[t].form \ {g}
      /\ g \in Group
  BY <1>2, <1>a DEF Local, Same
<1>6. AfterInsertion(t, fate, r)
  BY <1>1, <1>a
<1>7. ASSUME fate = "ok", Sole(k), ~log[k].failed
      PROVE  grants'[i] = Ones(log[k].form \ r.form)
  <2>1. HasRow(i)
    BY <1>3, <1>7 DEF Sole
  <2>2. grants[i] = Ones(log[k].form \ th[t].form)
    BY <1>2, <1>7, HInvParts DEF Setting
  <2>3. grants'[i] = [grants[i] EXCEPT ![g] = @ + 1]
    BY <1>1, <1>7, <2>1, IInvParts
  <2>4. log[k].form \ r.form = (log[k].form \ th[t].form) \cup {g} /\ g \notin log[k].form \ th[t].form
    BY <1>1, <1>3, <1>5
  <2> QED BY <1>5, <2>2, <2>3, <2>4 DEF Ones
<1> QED BY <1>2, <1>3, <1>4, <1>5, <1>6, <1>7, AfterInsertionTells

LEMMA DeleteUsersTells ==
  ASSUME IInv, HInv, NEW t \in Thread, DeleteUsers(t)
  PROVE  HInv'
<1> PICK i : i = th[t].target
  OBVIOUS
<1>1. PICK fate \in Fates(t), answer \in {"ok", "error"} :
        /\ \/ /\ users' = [users EXCEPT ![i] = NoRow]
              /\ grants' = [grants EXCEPT ![i] = NoGroups]
              /\ orphans \subseteq orphans'
           \/ UNCHANGED <<users, grants, orphans>>
        /\ AnsweredAfter(t, fate, answer)
        /\ Spend(t, fate)
  BY DEF DeleteUsers, Cascade, tables
<1>2. /\ th[t].pc = "remove" /\ orphans \subseteq orphans' /\ used'.requests = used.requests
      /\ i \in Id /\ th[t].kind = "delete"
  BY <1>1, Spent, HInvParts DEF DeleteUsers, Fits, Told
<1>3. TablesTell(t)
  <2>1. CASE UNCHANGED <<users, grants>>
    BY <2>1, TablesSame
  <2>2. CASE users' = [users EXCEPT ![i] = NoRow] /\ grants' = [grants EXCEPT ![i] = NoGroups]
    <3>1. users'[i] = NoRow /\ NoRow.person = Nobody
      BY <1>2, <2>2, HInvParts DEF NoRow
    <3>2. \A j \in Id \ {i} : users'[j] = users[j] /\ grants'[j] = grants[j]
      BY <2>2, IInvParts
    <3>3. \A j \in Id : RowTells(t, j) /\ (grants'[j] = grants[j] \/ users'[j].person = Nobody)
      BY <3>1, <3>2 DEF RowTells
    <3>4. \A j \in Id : users'[j].person # users[j].person => j = i
      BY <3>2
    <3> QED BY <3>3, <3>4 DEF TablesTell
  <2> QED BY <1>1, <2>1, <2>2
<1> QED BY <1>1, <1>2, <1>3, AnsweredAfterTells, EndsBadly

-----------------------------------------------------------------------------
(* A request begins; the process starts again.                             *)
LEMMA IssueTells ==
  ASSUME IInv, HInv, NEW t \in Thread, NEW q \in Requests, NEW label \in {"find", "basic"},
         NEW name \in Number, NEW password \in Number, Issue(t, q, label, name, password)
  PROVE  HInv'
<1>a. PICK new : new = used.requests + 1
  OBVIOUS
<1>b. PICK r : r = [Idle EXCEPT !.pc = label, !.kind = q.kind, !.req = new, !.me = q.me,
                                !.method = q.method, !.name = name, !.password = password,
                                !.target = q.target, !.form = q.form]
  OBVIOUS
<1>c. PICK e : e = [Request EXCEPT !.kind = q.kind, !.me = q.me, !.target = q.target,
                                   !.form = q.form, !.beside = Active]
  OBVIOUS
<1>1. /\ th[t].pc = "idle" /\ used.requests < MaxRequests
      /\ th' = [th EXCEPT ![t] = r] /\ log' = [log EXCEPT ![new] = e]
      /\ UNCHANGED <<users, grants, orphans>>
  BY <1>a, <1>b, <1>c DEF Issue, NewRequest, Become, tables
<1>2. q.me \in Person /\ q.target \in Id /\ new \in 1 .. MaxRequests /\ used.requests \in Nat
  BY <1>a, <1>1, IInvParts, AccountsAssumption
<1>3. r.pc = label /\ r.req = new /\ r.me = q.me /\ r.user = NoUser /\ r.form = q.form
  BY <1>b DEF Idle
<1>4. e.me = q.me /\ e.target = q.target /\ e.form = q.form /\ e.answer = "none"
  BY <1>c DEF Request
<1>5. th'[t] = r /\ \A u \in Thread \ {t} : th'[u] = th[u]
  BY <1>1, IInvParts
<1>6. log'[new] = e /\ \A p \in 1 .. MaxRequests \ {new} : log'[p] = log[p]
  BY <1>1, <1>2, IInvParts
<1>7. log[new] = Request
  BY <1>a, <1>2 DEF IInv
<1>8. ASSUME NEW u \in Thread, th[u].pc # "idle"
      PROVE  u # t /\ th[u].req \in 1 .. MaxRequests \ {new}
  BY <1>a, <1>1, <1>8, IInvParts DEF Recorded
<1>9. ASSUME NEW p \in 0 .. MaxRequests, NEW z \in 0 .. MaxRequests, p # new, z # new
      PROVE  Overlap(p, z)' <=> Overlap(p, z)
  <2>1. p > 0 => log'[p] = log[p]
    BY <1>6, <1>9
  <2>2. z > 0 => log'[z] = log[z]
    BY <1>6, <1>9
  <2> QED BY <2>1, <2>2 DEF Overlap
<1>10. ASSUME NEW z \in 1 .. MaxRequests, z # new, log[z].kind # "none", Clean(z)'
       PROVE  Clean(z)
  <2> SUFFICES ASSUME NEW p \in 1 .. MaxRequests, Overlap(p, z),
                      log[p].me = log[z].me \/ p \in orphans
               PROVE  FALSE
    BY DEF Clean
  <2>1. log'[z] = log[z] /\ log[z].me \in Person
    BY <1>6, <1>10, HInvParts DEF Written
  <2>2. CASE p # new
    <3>1. Overlap(p, z)' /\ log'[p] = log[p]
      BY <1>6, <1>9, <1>10, <2>2
    <3> QED BY <1>1, <1>10, <2>1, <3>1 DEF Clean
  <2>3. CASE p = new
    <3>1. log[p].me = Nobody /\ log[p].beside = {}
      BY <1>7, <2>3 DEF Request
    <3>2. p \in orphans
      BY <2>1, <3>1, AccountsAssumption
    <3>3. p \in log'[z].beside
      BY <2>1, <3>1 DEF Overlap
    <3>4. Overlap(p, z)'
      BY <3>3 DEF Overlap
    <3> QED BY <1>1, <1>10, <3>2, <3>4 DEF Clean
  <2> QED BY <2>2, <2>3
<1>11. ASSUME NEW z \in 1 .. MaxRequests, z # new, log[z].kind = "update", Sole(z)'
       PROVE  Sole(z)
  <2> PICK i \in Id : i = log[z].target
    BY <1>11, HInvParts DEF Written
  <2> PICK b : b = users[i].born
    OBVIOUS
  <2>1. b \in 0 .. MaxRequests /\ b # new
    BY <1>a, <1>2, HInvParts DEF IInv, Row
  <2>2. log'[z] = log[z] /\ users' = users
    BY <1>1, <1>6, <1>11
  <2>3. HasRow(i) /\ b < z /\ ~Overlap(z, b)'
    BY <1>11, <2>2 DEF Sole, HasRow, Overlap
  <2>4. ~Overlap(z, b)
    BY <1>9, <1>11, <2>1, <2>3
  <2>5. ASSUME NEW p \in 1 .. MaxRequests, log[p].kind = "update", log[p].target = i,
               p > z \/ Overlap(p, z)
        PROVE  FALSE
    <3>1. p # new
      BY <1>7, <2>5 DEF Request
    <3>2. log'[p] = log[p] /\ (p > z \/ Overlap(p, z)')
      BY <1>6, <1>9, <1>11, <2>5, <3>1
    <3> QED BY <1>11, <2>2, <2>5, <3>2 DEF Sole
  <2> QED BY <2>3, <2>4, <2>5 DEF Sole
<1>12. Apart'
  <2> SUFFICES ASSUME NEW u \in Thread, NEW v \in Thread, th'[u].pc # "idle", th'[v].pc # "idle",
                      th'[u].req = th'[v].req
               PROVE  u = v
    BY DEF Apart
  <2>1. CASE u # t /\ v # t
    BY <1>5, <2>1 DEF HInv, Apart
  <2>2. CASE u = t /\ v # t
    BY <1>3, <1>5, <1>8, <2>2
  <2>3. CASE u # t /\ v = t
    BY <1>3, <1>5, <1>8, <2>3
  <2> QED BY <2>1, <2>2, <2>3
<1>13. Unique'
  BY <1>1 DEF HInv, Unique, HasRow
<1>14. (Told(r) /\ Setting(r) /\ Named(r) /\ Later(r))'
  <2>1. Told(r)'
    BY <1>3, <1>4, <1>6 DEF Told
  <2>2. Setting(r)'
    BY <1>3, <1>4, <1>6 DEF Setting
  <2>3. Named(r)'
    BY <1>3, Constants DEF Named
  <2>4. Later(r)'
    BY <1>3 DEF Later
  <2> QED BY <2>1, <2>2, <2>3, <2>4
<1>15. ASSUME NEW u \in Thread \ {t}
       PROVE  (Told(th[u]) /\ Setting(th[u]) /\ Named(th[u]) /\ Later(th[u]))'
  <2> PICK s \in Local : s = th[u] /\ s = th'[u]
    BY <1>5, HInvParts
  <2>1. Told(s) /\ Setting(s) /\ Named(s) /\ Later(s) /\ Fits(s) /\ Recorded(s)
    BY HInvParts
  <2>2. CASE s.pc = "idle"
    <3>1. s.user = NoUser
      BY <2>1, <2>2 DEF Told
    <3> QED BY <2>2, <3>1, Constants DEF Told, Setting, Named, Later
  <2>3. CASE s.pc # "idle"
    <3> PICK k \in 1 .. MaxRequests : k = s.req /\ k # new
      BY <1>8, <2>3
    <3>1. log'[k] = log[k] /\ log[k].kind = s.kind /\ log[k].kind # "none"
      BY <1>6, <2>1, <2>3 DEF Recorded, Fits, Kind
    <3>2. Told(s)'
      BY <2>1, <3>1 DEF Told
    <3>3. Setting(s)'
      <4>1. log[k].kind = "update" /\ Sole(k)' => Sole(k)
        BY <1>11
      <4> QED BY <1>1, <2>1, <3>1, <4>1 DEF Setting
    <3>4. Named(s)'
      <4>1. Clean(k)' => Clean(k)
        BY <1>10, <3>1
      <4> QED BY <1>1, <2>1, <4>1 DEF Named
    <3>5. Later(s)'
      <4> SUFFICES ASSUME s.pc = "profile", NEW z \in 1 .. MaxRequests,
                          log'[z].kind = "page", log'[z].answer = "ok", Clean(z)',
                          z < k, ~Overlap(z, k)',
                          users'[s.user.id].person = log'[z].me, users'[s.user.id].born <= z
                   PROVE  s.user.name = users'[s.user.id].name
        BY DEF Later
      <4>1. z # new
        BY <1>4, <1>6
      <4>2. log'[z] = log[z] /\ Clean(z) /\ ~Overlap(z, k)
        BY <1>6, <1>9, <1>10, <4>1
      <4> QED BY <1>1, <2>1, <4>2 DEF Later
    <3> QED BY <3>2, <3>3, <3>4, <3>5 DEF Told, Setting, Named, Later
  <2> QED BY <2>2, <2>3
<1>16. \A u \in Thread : (Told(th[u]) /\ Setting(th[u]) /\ Named(th[u]) /\ Later(th[u]))'
  <2> SUFFICES ASSUME NEW u \in Thread
               PROVE  (Told(th[u]) /\ Setting(th[u]) /\ Named(th[u]) /\ Later(th[u]))'
    OBVIOUS
  <2>1. CASE u = t
    BY <1>5, <1>14, <2>1 DEF Told, Setting, Named, Later
  <2>2. CASE u # t
    BY <1>15, <2>2
  <2> QED BY <2>1, <2>2
<1>17. ASSUME NEW z \in 1 .. MaxRequests
       PROVE  (Written(z) /\ Shown(z) /\ AsSet(z))'
  <2>1. CASE z = new
    BY <1>2, <1>4, <1>6, <2>1 DEF Written, Shown, AsSet
  <2>2. CASE z # new
    <3>1. log'[z] = log[z] /\ Written(z) /\ Shown(z) /\ AsSet(z)
      BY <1>6, <2>2, HInvParts
    <3>2. Written(z)'
      BY <3>1 DEF Written
    <3>3. Shown(z)'
      BY <1>1, <1>10, <2>2, <3>1 DEF Shown
    <3>4. AsSet(z)'
      BY <1>1, <1>11, <2>2, <3>1 DEF AsSet
    <3> QED BY <3>2, <3>3, <3>4
  <2> QED BY <2>1, <2>2
<1>18. GroupsAreAsSet'
  BY <1>17 DEF GroupsAreAsSet, AsSet, Sole, Ones
<1> QED BY <1>12, <1>13, <1>16, <1>17, <1>18 DEF HInv

LEMMA RestartTells ==
  ASSUME IInv, HInv, Restart
  PROVE  HInv'
<1>1. UNCHANGED <<users, grants, orphans, log>> /\ \A t \in Thread : th'[t] = Idle
  BY DEF Restart, tables
<1>2. Idle.pc = "idle" /\ Idle.user = NoUser /\ Idle.user.id \notin Id
  BY IdleFits DEF Idle
<1>3. (Told(Idle) /\ Setting(Idle) /\ Named(Idle) /\ Later(Idle))'
  BY <1>2 DEF Told, Setting, Named, Later
<1>4. \A t \in Thread : (Told(th[t]) /\ Setting(th[t]) /\ Named(th[t]) /\ Later(th[t]))'
  BY <1>1, <1>3 DEF Told, Setting, Named, Later
<1>5. Apart' /\ Unique'
  BY <1>1, <1>2 DEF HInv, Apart, Unique, HasRow
<1>6. \A q \in 1 .. MaxRequests : (Written(q) /\ Shown(q))'
  BY <1>1 DEF HInv, Written, Shown, Clean, Overlap
<1>7. GroupsAreAsSet'
  BY <1>1 DEF HInv, GroupsAreAsSet, HasRow, Overlap
<1> QED BY <1>4, <1>5, <1>6, <1>7 DEF HInv

LEMMA InitTells == Init => HInv
<1> SUFFICES ASSUME Init PROVE HInv
  OBVIOUS
<1>1. \A q \in 1 .. MaxRequests : log[q] = Request
  BY DEF Init
<1>2. Request.kind = "none"
  BY DEF Request
<1>3. \A t \in Thread : th[t] = Idle
  BY DEF Init
<1>4. Idle.pc = "idle" /\ Idle.user = NoUser /\ Idle.user.id \notin Id
  BY IdleFits DEF Idle
<1>5. Apart
  BY <1>3, <1>4 DEF Apart
<1>6. Unique
  <2>1. ASSUME NEW i \in Id
        PROVE  users[i].person = IF i \in DOMAIN InitialRows THEN InitialRows[i] ELSE Nobody
    BY DEF Init, InitialRow, NoRow
  <2>2. \A i \in DOMAIN InitialRows : InitialRows[i] # Nobody
    BY AccountsAssumption
  <2> SUFFICES ASSUME NEW i \in Id, NEW j \in Id, users[i].person # Nobody,
                      users[i].person = users[j].person
               PROVE  i = j
    BY DEF Unique, HasRow
  <2>3. i \in DOMAIN InitialRows /\ j \in DOMAIN InitialRows /\ InitialRows[i] = InitialRows[j]
    BY <2>1
  <2> QED BY <2>3, AccountsAssumption
<1>7. \A t \in Thread : Told(th[t]) /\ Setting(th[t]) /\ Named(th[t]) /\ Later(th[t])
  BY <1>3, <1>4 DEF Told, Setting, Named, Later
<1>8. \A q \in 1 .. MaxRequests : Written(q) /\ Shown(q)
  BY <1>1, <1>2 DEF Written, Shown
<1>9. GroupsAreAsSet
  BY <1>1, <1>2 DEF GroupsAreAsSet
<1> QED BY <1>5, <1>6, <1>7, <1>8, <1>9 DEF HInv

LEMMA NextTells == IInv /\ HInv /\ [Next]_vars => HInv'
<1> SUFFICES ASSUME IInv, HInv, [Next]_vars PROVE HInv'
  OBVIOUS
<1>1. ASSUME NEW t \in Thread, IssueSession(t)
      PROVE  HInv'
  BY <1>1, IssueTells, Constants DEF IssueSession
<1>2. ASSUME NEW t \in Thread, IssueBasic(t)
      PROVE  HInv'
  <2>1. \A i \in Id : users[i].name \in Number /\ users[i].password \in Number
    BY IInvParts DEF Row
  <2> QED BY <1>2, <2>1, IssueTells DEF IssueBasic
<1>3. ASSUME NEW t \in Thread, Login(t)
      PROVE  HInv'
  BY <1>3, FindOrCreateUserTells, UpdateProfileTells, CheckLoginTells, AuthenticateTells DEF Login
<1>4. ASSUME NEW t \in Thread, CallFileSystem(t) \/ RegenerateBasicPassword(t)
      PROVE  HInv'
  BY <1>4, CallFileSystemTells, RegenerateBasicPasswordTells
<1>5. ASSUME NEW t \in Thread, Administer(t)
      PROVE  HInv'
  BY <1>5, LookUpTells, UpdateUserTells, DeleteGroupsTells, InsertGroupTells, DeleteUsersTells
     DEF Administer
<1>6. CASE UNCHANGED vars
  <2>1. UNCHANGED <<users, grants, orphans, th, log>>
    BY <1>6 DEF vars, tables
  <2>2. Apart' /\ Unique' /\ GroupsAreAsSet'
    BY <2>1 DEF HInv, Apart, Unique, GroupsAreAsSet, HasRow, Overlap
  <2>3. \A t \in Thread : (Told(th[t]) /\ Setting(th[t]) /\ Named(th[t]) /\ Later(th[t]))'
    <3> SUFFICES ASSUME NEW t \in Thread
                 PROVE  (Told(th[t]) /\ Setting(th[t]) /\ Named(th[t]) /\ Later(th[t]))'
      OBVIOUS
    <3>1. Told(th[t]) /\ Setting(th[t]) /\ Named(th[t]) /\ Later(th[t])
      BY DEF HInv
    <3>2. Told(th[t])'
      BY <2>1, <3>1 DEF Told
    <3>3. Setting(th[t])'
      BY <2>1, <3>1 DEF Setting, Sole, HasRow, Overlap
    <3>4. Named(th[t])'
      BY <2>1, <3>1 DEF Named, Clean, Overlap
    <3>5. Later(th[t])'
      BY <2>1, <3>1 DEF Later, Clean, Overlap
    <3> QED BY <3>2, <3>3, <3>4, <3>5
  <2>4. \A q \in 1 .. MaxRequests : (Written(q) /\ Shown(q))'
    BY <2>1 DEF HInv, Written, Shown, Clean, Overlap
  <2> QED BY <2>2, <2>3, <2>4 DEF HInv
<1> QED BY <1>1, <1>2, <1>3, <1>4, <1>5, <1>6, RestartTells DEF Next, BudgetSpent

LEMMA HistoryInvariant == Spec => []HInv
BY InitTells, NextTells, Invariant, PTL DEF Spec

-----------------------------------------------------------------------------
(* The groups that an administrator set are the user's, each once, for any *)
(* persons, requests, failures and restarts, until another request sets    *)
(* them or did so at the same time (admin/user.go:151-206;                 *)
(* store/user.go:235-299).                                                 *)
THEOREM GroupsStayAsSet == Spec => []GroupsAreAsSet
<1>1. HInv => GroupsAreAsSet
  BY DEF HInv
<1> QED BY <1>1, HistoryInvariant, PTL

(* The name that a page shows for WebDAV clients is the name of the user's *)
(* row for as long as the row lives, for any persons, requests, failures   *)
(* and restarts, but for requests that overlap with another of the same    *)
(* user or with an orphan (on_authenticated.go:62-123;                     *)
(* store/user.go:116-170; explorer/index.go:101-137).                      *)
THEOREM NamesStayShown == Spec => []ShownNamesWork
<1>1. HInv => ShownNamesWork
  BY DEF HInv, Shown, Clean, ShownNamesWork
<1> QED BY <1>1, HistoryInvariant, PTL
=============================================================================
