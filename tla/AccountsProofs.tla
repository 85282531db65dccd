--------------------------- MODULE AccountsProofs ---------------------------
(***************************************************************************)
(* For any persons, configurations, requests, goroutines and bounds:       *)
(* Accounts is type correct, a request that is denied has changed nothing, *)
(* administrators are configured, requests write to their own user's row   *)
(* and groups are given, never inherited with an id.                       *)
(*                                                                         *)
(* The inductive invariant adds what each request relies on where it       *)
(* stands (Fits), that it administers only by the configuration in force   *)
(* (Configured), that the row it holds the id of is its user's (Owned) and *)
(* that the history tells of it (Recorded).                                *)
(***************************************************************************)
EXTENDS Accounts, TLAPS

Administering == {"look", "groups", "rewrite", "clear", "insert", "remove"}

MayWrite(user) == user.admin \/ "read-write" \in user.groups

Fits(r) ==
    /\ r \in Local
    /\ r.pc # "idle" =>
          r.kind \in Kind /\ r.req \in 1 .. MaxRequests /\ r.me \in Person /\ r.target \in Id
    /\ r.pc = "idle" => r.user = NoUser
    /\ r.pc \in {"idle", "find", "check", "basic"} \/ r.user.id \in Id
    /\ r.pc = "check" => r.user = NoUser \/ r.user.id \in Id
    /\ r.touched => r.pc = "calls" /\ MayWrite(r.user)
    /\ r.pc = "basic" => r.kind = "basic"
    /\ r.kind = "basic" => r.pc \in {"basic", "connect", "calls"}
    /\ r.pc \in {"groups", "rewrite", "clear", "insert"} => r.kind = "update"

Configured(r) ==
    \/ r.pc \in Administering
    \/ r.kind \in {"update", "delete"} /\ r.pc \in {"check", "connect"} /\ r.user.admin
    => r.me \in admins

Owned(r) ==
    r.kind # "basic" /\ r.user.id \in Id =>
        users[r.user.id].person = r.me \/ r.req \in orphans

Recorded(r) ==
    r.pc # "idle" =>
        /\ r.req <= used.requests
        /\ log[r.req].kind = r.kind /\ log[r.req].target = r.target
        /\ \A q \in 1 .. MaxRequests :
              r.req < q /\ q <= used.requests => r.req \in log[q].beside

IInv ==
    /\ TypeOK
    /\ \A t \in Thread : Fits(th[t]) /\ Configured(th[t]) /\ Owned(th[t]) /\ Recorded(th[t])
    /\ \A q \in 1 .. MaxRequests : q > used.requests => log[q] = Request
    /\ \A i \in Id : users[i].born <= used.requests
    /\ DeniedChangesNothing
    /\ GroupsAreGiven

-----------------------------------------------------------------------------
(* The rules.                                                              *)

(* Who may write may do everything.                                        *)
LEMMA WritersMayAll ==
  ASSUME NEW user \in User, NEW call, MayWrite(user)
  PROVE  Allowed(user, call)
<1>1. "true" \in FileSystemRules(user)
  BY DEF MayWrite, FileSystemRules, GroupRules, Group, User
<1>2. Exec("true", call)
  BY DEF Exec
<1> QED BY <1>1, <1>2 DEF Allowed

(* Who is let through with a call that changes something may write.        *)
LEMMA ChangesAreWritten ==
  ASSUME NEW user \in User, NEW call, Allowed(user, call), Changes(call)
  PROVE  MayWrite(user)
<1>1. PICK script \in FileSystemRules(user) : Exec(script, call)
  BY DEF Allowed
<1>2. ~Exec("stat", call)
  BY DEF Exec, Changes
<1>3. ~Exec("open without O_WRITE", call)
  BY DEF Exec, Changes, O_WRITE
<1>4. script \notin {"stat", "open without O_WRITE"}
  BY <1>1, <1>2, <1>3
<1> QED BY <1>1, <1>4 DEF FileSystemRules, GroupRules, Group, MayWrite, User

-----------------------------------------------------------------------------
(* What every step of a request but the first has in common: the request   *)
(* goes on as r or is over, and the history says of it what it said.       *)
Same(r, s) == r.kind = s.kind /\ r.req = s.req /\ r.me = s.me /\ r.target = s.target

Advances(t, r) ==
    /\ th[t].pc # "idle"
    /\ th' = [th EXCEPT ![t] = r]
    /\ Fits(r)
    /\ r.pc # "idle" => Same(r, th[t])
    /\ \E e \in Logged :
          /\ log' = [log EXCEPT ![th[t].req] = e]
          /\ e.kind = Entry(t).kind /\ e.target = Entry(t).target /\ e.beside = Entry(t).beside
          /\ e.answer = "denied" => ~e.touched

(* Rows change hands only if they were nobody's, or their user's requests  *)
(* are orphans; groups are given to rows by updates.                       *)
TablesKept(t) ==
    /\ users' \in [Id -> Row] /\ grants' \in [Id -> [Group -> Nat]]
    /\ orphans \subseteq orphans' /\ orphans' \subseteq 0 .. MaxRequests
    /\ \A i \in Id : users'[i].born \in {users[i].born, th[t].req, 0}
    /\ \A i \in Id :
          \/ users'[i].person = users[i].person
          \/ users[i].person = Nobody
          \/ \A u \in Thread : th[u].user.id = i => th[u].req \in orphans'
    /\ \A i \in Id, g \in Group : grants'[i][g] > 0 =>
          /\ users'[i].person # Nobody /\ users'[i].born = users[i].born
          /\ \/ \E h \in Group : grants[i][h] > 0
             \/ th[t].kind = "update" /\ th[t].target = i

RestKept ==
    /\ admins' = admins /\ err' \in BOOLEAN
    /\ used' \in [requests : 0 .. MaxRequests, failures : Nat, restarts : Nat]
    /\ used'.requests = used.requests

LEMMA IInvParts ==
  ASSUME IInv, NEW t \in Thread
  PROVE  /\ th \in [Thread -> Local] /\ th[t] \in Local /\ th[t].user \in User
         /\ Fits(th[t]) /\ Configured(th[t]) /\ Owned(th[t]) /\ Recorded(th[t])
         /\ log \in [1 .. MaxRequests -> Logged]
         /\ users \in [Id -> Row] /\ grants \in [Id -> [Group -> Nat]]
         /\ used \in [requests : 0 .. MaxRequests, failures : Nat, restarts : Nat]
         /\ used.requests \in Nat /\ err \in BOOLEAN
         /\ th[t].pc # "idle" => th[t].req \in 1 .. MaxRequests /\ Entry(t) \in Logged
         /\ th[t].pc # "idle" => (Entry(t).answer = "denied" => ~Entry(t).touched)
BY AccountsAssumption DEF IInv, TypeOK, Local, Fits, Entry, DeniedChangesNothing

LEMMA Kept ==
  ASSUME IInv, NEW t \in Thread, NEW r, Advances(t, r), Configured(r), Owned(r)',
         TablesKept(t), RestKept
  PROVE  IInv'
<1>0. MaxRequests \in Nat
  BY AccountsAssumption
<1> USE <1>0
<1>1. /\ th \in [Thread -> Local] /\ r \in Local
      /\ th' = [th EXCEPT ![t] = r]
      /\ th' \in [Thread -> Local]
      /\ th'[t] = r
      /\ \A u \in Thread \ {t} : th'[u] = th[u]
  BY IInvParts DEF Advances, Fits
<1>2. PICK e \in Logged :
        /\ log' = [log EXCEPT ![th[t].req] = e]
        /\ e.kind = Entry(t).kind /\ e.target = Entry(t).target /\ e.beside = Entry(t).beside
        /\ e.answer = "denied" => ~e.touched
  BY DEF Advances
<1>3. th[t].req \in 1 .. MaxRequests /\ th[t].pc # "idle"
  BY IInvParts DEF Advances
<1>4. /\ log' \in [1 .. MaxRequests -> Logged]
      /\ \A q \in 1 .. MaxRequests :
            /\ log'[q].kind = log[q].kind /\ log'[q].target = log[q].target
            /\ log'[q].beside = log[q].beside
            /\ q # th[t].req => log'[q] = log[q]
      /\ log'[th[t].req] = e
  BY <1>2, <1>3, IInvParts DEF Entry
<1>5. \A u \in Thread : Fits(th'[u])
  BY <1>1 DEF Advances, IInv
<1>6. TypeOK'
  <2>1. \A u \in Thread : th'[u].pc \in {"idle", "find", "check", "basic"} \/ th'[u].user.id \in Id
    BY <1>5 DEF Fits
  <2>2. admins' \subseteq Person
    BY DEF IInv, TypeOK, RestKept
  <2> QED BY <1>1, <1>4, <2>1, <2>2 DEF TypeOK, Loading, TablesKept, RestKept
<1>7. \A u \in Thread : Configured(th[u])'
  <2> SUFFICES ASSUME NEW u \in Thread PROVE Configured(th[u])'
    OBVIOUS
  <2>1. Configured(th[u])
    BY DEF IInv
  <2>2. CASE u = t
    BY <1>1, <2>2 DEF Configured, RestKept
  <2>3. CASE u # t
    BY <1>1, <2>1, <2>3 DEF Configured, RestKept
  <2> QED BY <2>2, <2>3
<1>8. \A u \in Thread : Owned(th[u])'
  <2> SUFFICES ASSUME NEW u \in Thread PROVE Owned(th[u])'
    OBVIOUS
  <2>1. CASE u = t
    BY <1>1, <2>1 DEF Owned
  <2>2. CASE u # t
    <3>1. th'[u] = th[u]
      BY <1>1, <2>2
    <3> SUFFICES ASSUME th[u].kind # "basic", th[u].user.id \in Id
                 PROVE  users'[th[u].user.id].person = th[u].me \/ th[u].req \in orphans'
      BY <3>1 DEF Owned
    <3>2. users[th[u].user.id].person = th[u].me \/ th[u].req \in orphans
      BY DEF Owned, IInv
    <3>3. th[u].me # Nobody
      BY AccountsAssumption DEF IInv, Fits, NoUser, Id
    <3> QED BY <3>2, <3>3 DEF TablesKept
  <2> QED BY <2>1, <2>2
<1>9. \A u \in Thread : Recorded(th[u])'
  <2> SUFFICES ASSUME NEW u \in Thread, th'[u].pc # "idle" PROVE Recorded(th[u])'
    BY DEF Recorded
  <2>1. PICK v \in Thread : th[v].pc # "idle" /\ Same(th'[u], th[v])
    <3>1. CASE u = t
      BY <1>1, <1>3, <3>1 DEF Advances
    <3>2. CASE u # t
      BY <1>1, <3>2 DEF Same
    <3> QED BY <3>1, <3>2
  <2>2. Recorded(th[v]) /\ th[v].req \in 1 .. MaxRequests
    BY <2>1, IInvParts
  <2> QED BY <1>4, <2>1, <2>2 DEF Recorded, Same, RestKept
<1>10. \A q \in 1 .. MaxRequests : q > used'.requests => log'[q] = Request
  <2>1. th[t].req <= used.requests
    BY <1>3 DEF IInv, Recorded
  <2>2. used'.requests = used.requests /\ used.requests \in Nat
    BY IInvParts DEF RestKept
  <2>3. \A q \in 1 .. MaxRequests : q > used.requests => log[q] = Request
    BY DEF IInv
  <2> QED BY <1>3, <1>4, <2>1, <2>2, <2>3
<1>11. \A i \in Id : users'[i].born <= used'.requests
  <2>1. th[t].req <= used.requests /\ 0 <= used.requests
    BY <1>3, IInvParts DEF IInv, Recorded
  <2> QED BY <2>1 DEF IInv, TablesKept, RestKept
<1>12. DeniedChangesNothing'
  BY <1>2, <1>4 DEF IInv, DeniedChangesNothing
<1>13. GroupsAreGiven'
  <2> SUFFICES ASSUME NEW i \in Id, NEW g \in Group, grants'[i][g] > 0
               PROVE  /\ users'[i].person # Nobody
                      /\ users'[i].born = 0 \/ \E q \in 1 .. MaxRequests :
                            /\ log'[q].kind = "update" /\ log'[q].target = i
                            /\ q >= users'[i].born \/ Overlap(q, users[i].born)'
    BY DEF GroupsAreGiven, Groups, HasRow
  <2>1. users'[i].person # Nobody /\ users'[i].born = users[i].born
    BY DEF TablesKept
  <2>2. CASE \E h \in Group : grants[i][h] > 0
    <3>1. users[i].born = 0 \/ \E q \in 1 .. MaxRequests :
             /\ log[q].kind = "update" /\ log[q].target = i
             /\ q >= users[i].born \/ Overlap(q, users[i].born)
      BY <2>2 DEF IInv, GroupsAreGiven, Groups
    <3>2. users[i].born \in 0 .. MaxRequests
      BY IInvParts DEF Row
    <3>3. CASE users[i].born # 0
      <4>1. PICK q \in 1 .. MaxRequests :
              /\ log[q].kind = "update" /\ log[q].target = i
              /\ q >= users[i].born \/ Overlap(q, users[i].born)
        BY <3>1, <3>3
      <4>2. log'[q].kind = "update" /\ log'[q].target = i
        BY <1>4, <4>1
      <4>3. log'[q].beside = log[q].beside
        BY <1>4
      <4>4. users[i].born \in 1 .. MaxRequests
        BY <3>2, <3>3
      <4>5. log'[users[i].born].beside = log[users[i].born].beside
        BY <1>4, <4>4
      <4>6. q >= users'[i].born \/ Overlap(q, users[i].born)'
        BY <2>1, <4>1, <4>3, <4>5 DEF Overlap
      <4> QED BY <2>1, <4>2, <4>6
    <3> QED BY <2>1, <3>3
  <2>3. CASE th[t].kind = "update" /\ th[t].target = i
    <3>1. Recorded(th[t]) /\ users[i].born <= used.requests /\ users[i].born \in 0 .. MaxRequests
      BY IInvParts DEF IInv, Row
    <3>2. log[th[t].req].kind = "update" /\ log[th[t].req].target = i
      BY <1>3, <2>3, <3>1 DEF Recorded
    <3>3. th[t].req >= users[i].born \/ Overlap(th[t].req, users[i].born)
      BY <1>3, <3>1 DEF Recorded, Overlap
    <3>4. users[i].born = 0 \/ users[i].born \in 1 .. MaxRequests
      BY <3>1
    <3>5. CASE users[i].born \in 1 .. MaxRequests
      <4>1. PICK q \in 1 .. MaxRequests : q = th[t].req
        BY <1>3
      <4>2. log'[q].beside = log[q].beside /\ log'[users[i].born].beside = log[users[i].born].beside
        BY <1>4, <3>5
      <4>3. q >= users'[i].born \/ Overlap(q, users[i].born)'
        BY <2>1, <3>3, <4>1, <4>2 DEF Overlap
      <4>4. log'[q].kind = "update" /\ log'[q].target = i
        BY <1>4, <3>2, <4>1
      <4> QED BY <2>1, <4>3, <4>4
    <3> QED BY <2>1, <3>4, <3>5
  <2> QED BY <2>2, <2>3 DEF TablesKept
<1> QED BY <1>5, <1>6, <1>7, <1>8, <1>9, <1>10, <1>11, <1>12, <1>13 DEF IInv

-----------------------------------------------------------------------------
(* The forms a step of a request takes.                                    *)
LEMMA Constants ==
  /\ 0 \in Number /\ 0 .. MaxRequests \subseteq Number /\ 0 \notin Id
  /\ NoUser \in User /\ NoUser.id = 0 /\ NoUser.admin = FALSE
  /\ NoRow \in Row /\ NoGroups \in [Group -> Nat]
<1>1. Len(InitialRows) \in Nat /\ MaxRequests \in Nat /\ MaxId \in Nat
  BY AccountsAssumption
<1>2. 0 \in Number /\ 0 .. MaxRequests \subseteq Number /\ 0 \notin Id /\ 0 \in 0 .. MaxRequests
  BY <1>1 DEF Number, Id
<1> QED BY <1>2 DEF NoUser, User, NoRow, Row, NoGroups

LEMMA IdleFits ==
  /\ MaxRequests \in Nat => Fits(Idle)
  /\ Idle.pc = "idle" /\ Idle.user.id \notin Id
  /\ Configured(Idle) /\ Owned(Idle)'
BY DEF Fits, Idle, Local, Label, Kind, NoUser, User, Number, Method, Group, NoGroups,
       Configured, Administering, Owned, Id

LEMMA GoesOnAdvances ==
  ASSUME IInv, NEW t \in Thread, th[t].pc # "idle", NEW r, GoesOn(t, r), Fits(r), Same(r, th[t])
  PROVE  Advances(t, r)
<1>1. Entry(t) \in Logged /\ (Entry(t).answer = "denied" => ~Entry(t).touched)
  BY IInvParts
<1>2. log' = [log EXCEPT ![th[t].req] = Entry(t)]
  BY IInvParts DEF GoesOn, Entry
<1> QED BY <1>1, <1>2 DEF Advances, GoesOn, Become

LEMMA AnsweredAdvances ==
  ASSUME IInv, NEW t \in Thread, th[t].pc # "idle", NEW answer \in Answer, Answered(t, answer),
         answer = "denied" => ~th[t].touched
  PROVE  Advances(t, Idle)
<1>1. Entry(t) \in Logged /\ th[t].touched \in BOOLEAN
  BY IInvParts DEF Local
<1> DEFINE e == [Entry(t) EXCEPT !.answer = answer, !.touched = th[t].touched]
<1>2. e \in Logged
  BY <1>1 DEF Logged
<1>3. /\ e.kind = Entry(t).kind /\ e.target = Entry(t).target /\ e.beside = Entry(t).beside
      /\ e.answer = answer /\ e.touched = th[t].touched
  BY <1>1 DEF Logged
<1> QED BY <1>2, <1>3, IdleFits, AccountsAssumption DEF Advances, Answered, Become, Notes

(* A statement may have failed, and the client may be gone.                *)
LEMMA AnsweredAfterAdvances ==
  ASSUME IInv, NEW t \in Thread, th[t].pc # "idle", NEW fate, NEW answer \in Answer \ {"denied"},
         AnsweredAfter(t, fate, answer)
  PROVE  Advances(t, Idle)
<1>1. Entry(t) \in Logged
  BY IInvParts
<1> DEFINE e == [Entry(t) EXCEPT !.answer = answer, !.failed = @ \/ fate # "ok"]
<1>2. e \in Logged
  BY <1>1 DEF Logged
<1>3. /\ e.kind = Entry(t).kind /\ e.target = Entry(t).target /\ e.beside = Entry(t).beside
      /\ e.answer # "denied"
  BY <1>1 DEF Logged
<1> QED BY <1>2, <1>3, IdleFits, AccountsAssumption DEF Advances, AnsweredAfter, Become, Notes

LEMMA GoesOnAfterAdvances ==
  ASSUME IInv, NEW t \in Thread, th[t].pc # "idle", NEW fate, NEW r,
         GoesOnAfter(t, fate, r), Fits(r), Same(r, th[t])
  PROVE  Advances(t, [r EXCEPT !.gone = (fate = "gone")])
<1>1. Entry(t) \in Logged /\ (Entry(t).answer = "denied" => ~Entry(t).touched)
  BY IInvParts
<1> DEFINE e == [Entry(t) EXCEPT !.failed = @ \/ fate # "ok"]
           s == [r EXCEPT !.gone = (fate = "gone")]
<1>2. e \in Logged
  BY <1>1 DEF Logged
<1>3. /\ e.kind = Entry(t).kind /\ e.target = Entry(t).target /\ e.beside = Entry(t).beside
      /\ e.answer = "denied" => ~e.touched
  BY <1>1 DEF Logged
<1>4. Fits(s) /\ Same(s, th[t])
  <2>1. /\ s \in Local /\ s.pc = r.pc /\ s.kind = r.kind /\ s.req = r.req /\ s.me = r.me
        /\ s.target = r.target /\ s.user = r.user /\ s.touched = r.touched
    BY DEF Fits, Local
  <2> QED BY <2>1 DEF Fits, Same
<1> QED BY <1>2, <1>3, <1>4 DEF Advances, GoesOnAfter, Become, Notes

(* With what such a step does to the rest of the state, it keeps the       *)
(* invariant.                                                              *)
LEMMA GoesOnKeeps ==
  ASSUME IInv, NEW t \in Thread, th[t].pc # "idle", NEW r, GoesOn(t, r), Fits(r), Same(r, th[t]),
         Configured(r), Owned(r)', TablesKept(t), RestKept
  PROVE  IInv'
BY GoesOnAdvances, Kept

LEMMA GoesOnAfterKeeps ==
  ASSUME IInv, NEW t \in Thread, th[t].pc # "idle", NEW fate, NEW r,
         GoesOnAfter(t, fate, r), Fits(r), Same(r, th[t]),
         Configured(r), Owned(r)', TablesKept(t), RestKept
  PROVE  IInv'
<1> DEFINE s == [r EXCEPT !.gone = (fate = "gone")]
<1>1. Advances(t, s)
  BY GoesOnAfterAdvances
<1>2. /\ s.pc = r.pc /\ s.kind = r.kind /\ s.req = r.req /\ s.me = r.me /\ s.user = r.user
  BY DEF Fits, Local
<1>3. Configured(s)
  BY <1>2 DEF Configured
<1>4. Owned(s)'
  BY <1>2 DEF Owned
<1> HIDE DEF s
<1> QED BY <1>1, <1>3, <1>4, Kept

LEMMA AnsweredKeeps ==
  ASSUME IInv, NEW t \in Thread, th[t].pc # "idle", NEW answer \in Answer, Answered(t, answer),
         answer = "denied" => ~th[t].touched, TablesKept(t), RestKept
  PROVE  IInv'
BY AnsweredAdvances, IdleFits, Kept

LEMMA AnsweredAfterKeeps ==
  ASSUME IInv, NEW t \in Thread, th[t].pc # "idle", NEW fate, NEW answer \in Answer \ {"denied"},
         AnsweredAfter(t, fate, answer), TablesKept(t), RestKept
  PROVE  IInv'
BY AnsweredAfterAdvances, IdleFits, Kept

LEMMA RestUnchanged ==
  ASSUME IInv, UNCHANGED <<admins, err, used>>
  PROVE  RestKept
BY DEF IInv, TypeOK, RestKept

LEMMA RestSpent ==
  ASSUME IInv, NEW t \in Thread, NEW fate, Spend(t, fate), UNCHANGED admins, err' \in BOOLEAN
  PROVE  RestKept
<1>1. used \in [requests : 0 .. MaxRequests, failures : Nat, restarts : Nat]
  BY DEF IInv, TypeOK
<1> QED BY <1>1 DEF Spend, RestKept

LEMMA TablesUnchanged ==
  ASSUME IInv, NEW t \in Thread, UNCHANGED <<users, grants, orphans>>
  PROVE  TablesKept(t)
<1>1. \A i \in Id, g \in Group : grants[i][g] > 0 => users[i].person # Nobody
  BY DEF IInv, GroupsAreGiven, Groups, HasRow
<1> QED BY <1>1 DEF IInv, TypeOK, TablesKept

(* A row that keeps its person and its birth.                              *)
LEMMA RowUpdated ==
  ASSUME IInv, NEW t \in Thread, NEW i \in Id, NEW row, UNCHANGED <<grants, orphans>>,
         UpdateRow(i, row), row \in Row, row.person = users[i].person, row.born = users[i].born
  PROVE  /\ TablesKept(t)
         /\ \A j \in Id : users'[j].person = users[j].person
<1>1. \A j \in Id, g \in Group : grants[j][g] > 0 => users[j].person # Nobody
  BY DEF IInv, GroupsAreGiven, Groups, HasRow
<1>2. /\ users' \in [Id -> Row]
      /\ \A j \in Id : users'[j].person = users[j].person /\ users'[j].born = users[j].born
  BY DEF IInv, TypeOK, UpdateRow
<1> QED BY <1>1, <1>2 DEF IInv, TypeOK, TablesKept

LEMMA RowInserted ==
  ASSUME IInv, NEW t \in Thread, th[t].pc # "idle", NEW i \in Id, Inserts(t, i), UNCHANGED orphans
  PROVE  TablesKept(t) /\ users'[i].person = th[t].me
<1>1. \A j \in Id, g \in Group : grants[j][g] > 0 => users[j].person # Nobody
  BY DEF IInv, GroupsAreGiven, Groups, HasRow
<1>2. users[i].person = Nobody
  BY AccountsAssumption DEF Inserts, IsNewId, HasRow, Id
<1> DEFINE row == [NoRow EXCEPT !.person = th[t].me, !.born = th[t].req]
<1>3. row \in Row /\ row.person = th[t].me /\ row.born = th[t].req
  <2>1. th[t].me \in Person \cup {Nobody} /\ th[t].req \in 0 .. MaxRequests
    BY IInvParts DEF Local
  <2> QED BY <2>1, Constants DEF NoRow, Row
<1>4. users' = [users EXCEPT ![i] = row] /\ grants' = grants
  BY DEF Inserts
<1> HIDE DEF row
<1>5. /\ users' \in [Id -> Row] /\ users'[i] = row
      /\ \A j \in Id \ {i} : users'[j] = users[j]
  BY <1>3, <1>4 DEF IInv, TypeOK
<1> QED BY <1>1, <1>2, <1>3, <1>4, <1>5 DEF IInv, TypeOK, TablesKept

-----------------------------------------------------------------------------
(* Authentication.                                                         *)
LEMMA LoadedFits ==
  ASSUME IInv, NEW i \in Id
  PROVE  /\ Loaded(i) \in User /\ Loaded(i).id = i
         /\ Created(i) \in User /\ Created(i).id = i
<1>1. users[i] \in Row
  BY DEF IInv, TypeOK
<1>2. Groups(i) \subseteq Group
  BY DEF Groups
<1>3. Loaded(i) \in User /\ Loaded(i).id = i
  BY <1>1, <1>2 DEF Loaded, User, Row
<1>4. Created(i) \in User /\ Created(i).id = i
  BY Constants DEF Created, NoUser, User
<1> QED BY <1>3, <1>4

LEMMA LoginFailsKeeps ==
  ASSUME IInv, NEW t \in Thread, th[t].pc \in {"find", "profile"}, NEW fate, LoginFails(t, fate),
         Spend(t, fate), UNCHANGED <<tables, admins, orphans>>
  PROVE  IInv'
<1> PICK r : r = [th[t] EXCEPT !.pc = "check", !.user = NoUser]
  OBVIOUS
<1>1. th[t] \in Local /\ "check" \in Label
  BY IInvParts DEF Label
<1>2. /\ r \in Local /\ r.pc = "check" /\ r.user = NoUser /\ r.touched = th[t].touched
      /\ Same(r, th[t])
  <2>1. NoUser \in User
    BY Constants
  <2> QED BY <1>1, <2>1 DEF Local, Same
<1>3. GoesOnAfter(t, fate, r)
  BY DEF LoginFails
<1>4. Fits(r)
  BY <1>2, IInvParts DEF Fits, Same
<1>5. Configured(r) /\ Owned(r)'
  BY <1>2, Constants DEF Configured, Owned, Administering
<1>6. TablesKept(t) /\ RestKept
  BY TablesUnchanged, RestSpent DEF LoginFails, tables
<1> QED BY <1>2, <1>3, <1>4, <1>5, <1>6, GoesOnAfterKeeps

(* A login that has a row goes on to complete it.                          *)
LEMMA LoginGoesOn ==
  ASSUME IInv, NEW t \in Thread, th[t].pc = "find", NEW user \in User, user.id \in Id,
         users'[user.id].person = th[t].me,
         NEW r, r = [th[t] EXCEPT !.pc = "profile", !.user = user]
  PROVE  Fits(r) /\ Same(r, th[t]) /\ Configured(r) /\ Owned(r)'
<1>1. th[t] \in Local /\ "profile" \in Label
  BY IInvParts DEF Label
<1>2. /\ r \in Local /\ r.pc = "profile" /\ r.user = user /\ r.touched = th[t].touched
      /\ Same(r, th[t])
  BY <1>1 DEF Local, Same
<1>3. Fits(r)
  BY <1>2, IInvParts DEF Fits, Same
<1> QED BY <1>2, <1>3 DEF Configured, Administering, Owned, Same

LEMMA FindOrCreateUserKeeps ==
  ASSUME IInv, NEW t \in Thread, FindOrCreateUser(t)
  PROVE  IInv'
<1>1. PICK fate \in Fates(t) :
        /\ \/ fate # "ok" /\ UNCHANGED tables /\ LoginFails(t, fate)
           \/ /\ fate = "ok"
              /\ \E i \in Id : users[i].person = th[t].me /\ Finds(t, fate, i)
           \/ /\ fate = "ok"
              /\ \A i \in Id : users[i].person # th[t].me
              /\ \E i \in Id : /\ Inserts(t, i)
                              /\ GoesOn(t, [th[t] EXCEPT !.pc = "profile", !.user = Created(i)])
        /\ Spend(t, fate)
  BY DEF FindOrCreateUser
<1>2. th[t].pc = "find" /\ admins' = admins /\ orphans' = orphans
  BY DEF FindOrCreateUser
<1>3. CASE fate # "ok" /\ UNCHANGED tables /\ LoginFails(t, fate)
  BY <1>1, <1>2, <1>3, LoginFailsKeeps
<1>4. CASE \E i \in Id : users[i].person = th[t].me /\ Finds(t, fate, i)
  <2>1. PICK i \in Id : users[i].person = th[t].me /\ Finds(t, fate, i)
    BY <1>4
  <2>2. TablesKept(t) /\ RestKept /\ users' = users
    BY <1>1, <1>2, <2>1, TablesUnchanged, RestSpent, IInvParts DEF Finds, tables
  <2> PICK r : r = [th[t] EXCEPT !.pc = "profile", !.user = Loaded(i)]
    OBVIOUS
  <2>3. Fits(r) /\ Same(r, th[t]) /\ Configured(r) /\ Owned(r)'
    BY <1>2, <2>1, <2>2, LoadedFits, LoginGoesOn
  <2>4. GoesOnAfter(t, fate, r)
    BY <2>1 DEF Finds
  <2> QED BY <1>2, <2>2, <2>3, <2>4, GoesOnAfterKeeps
<1>5. CASE /\ fate = "ok"
           /\ \E i \in Id : /\ Inserts(t, i)
                           /\ GoesOn(t, [th[t] EXCEPT !.pc = "profile", !.user = Created(i)])
  <2>a. PICK i \in Id :
           Inserts(t, i) /\ GoesOn(t, [th[t] EXCEPT !.pc = "profile", !.user = Created(i)])
    BY <1>5
  <2>b. PICK r : r = [th[t] EXCEPT !.pc = "profile", !.user = Created(i)]
    OBVIOUS
  <2>1. Inserts(t, i) /\ GoesOn(t, r) /\ r = [th[t] EXCEPT !.pc = "profile", !.user = Created(i)]
    BY <2>a, <2>b
  <2>2. TablesKept(t) /\ users'[i].person = th[t].me
    BY <1>2, <2>1, RowInserted
  <2>3. RestKept
    BY <1>1, <1>2, <2>1, RestSpent, IInvParts DEF Inserts
  <2>4. Fits(r) /\ Same(r, th[t]) /\ Configured(r) /\ Owned(r)'
    BY <1>2, <2>1, <2>2, LoadedFits, LoginGoesOn
  <2> QED BY <1>2, <2>1, <2>2, <2>3, <2>4, GoesOnKeeps
<1> QED BY <1>1, <1>3, <1>4, <1>5

LEMMA UpdateProfileKeeps ==
  ASSUME IInv, NEW t \in Thread, UpdateProfile(t)
  PROVE  /\ IInv'
         /\ \A j \in Id \ {th[t].user.id} : users'[j] = users[j]
<1> PICK user : user = Completed(t)
  OBVIOUS
<1>1. PICK fate \in Fates(t) :
        /\ \/ fate # "ok" /\ LoginFails(t, fate) /\ UNCHANGED users
           \/ /\ err' = FALSE
              /\ GoesOn(t, [th[t] EXCEPT !.pc = "check", !.user = user])
              /\ \/ UNCHANGED users
                 \/ UpdateRow(user.id, [users[user.id] EXCEPT
                        !.name = user.name, !.profile = user.profile, !.admin = user.admin])
        /\ Spend(t, fate)
  BY DEF UpdateProfile
<1>2. th[t].pc = "profile" /\ UNCHANGED <<grants, admins, orphans>>
  BY DEF UpdateProfile
<1>3. th[t] \in Local /\ th[t].user \in User /\ th[t].user.id \in Id
  BY <1>2, IInvParts DEF Fits
<1>4. /\ user \in User /\ user.id = th[t].user.id
      /\ user.admin => th[t].me \in admins
  <2>1. th[t].me \in Person \cup {Nobody} /\ th[t].req \in Number /\ th[t].user.name \in Number
    BY <1>3, Constants DEF Local, User
  <2>2. PICK name \in Number : name = IF th[t].user.name = 0 THEN th[t].req ELSE th[t].user.name
    BY <2>1
  <2>3. PICK admin \in BOOLEAN : admin <=> th[t].me \in admins
    <3>1. CASE th[t].me \in admins
      BY <3>1
    <3>2. CASE th[t].me \notin admins
      BY <3>2
    <3> QED BY <3>1, <3>2
  <2>4. user = [th[t].user EXCEPT !.name = name, !.profile = th[t].me, !.admin = admin]
    BY <2>2, <2>3, Zenon DEF Completed
  <2>5. user \in User /\ user.id = th[t].user.id /\ user.admin = admin
    BY <1>3, <2>1, <2>4 DEF User
  <2> QED BY <2>3, <2>5
<1>5. ASSUME fate # "ok" /\ LoginFails(t, fate) /\ UNCHANGED users
      PROVE  IInv'
  BY <1>1, <1>2, <1>5, LoginFailsKeeps DEF tables
<1>6. ASSUME /\ err' = FALSE
             /\ GoesOn(t, [th[t] EXCEPT !.pc = "check", !.user = user])
             /\ \/ UNCHANGED users
                \/ UpdateRow(user.id, [users[user.id] EXCEPT
                       !.name = user.name, !.profile = user.profile, !.admin = user.admin])
      PROVE  IInv'
  <2>1. TablesKept(t) /\ \A j \in Id : users'[j].person = users[j].person
    <3>1. CASE UNCHANGED users
      BY <1>2, <3>1, TablesUnchanged
    <3>2. CASE UpdateRow(user.id, [users[user.id] EXCEPT
                   !.name = user.name, !.profile = user.profile, !.admin = user.admin])
      <4>1. PICK row : row = [users[user.id] EXCEPT
                !.name = user.name, !.profile = user.profile, !.admin = user.admin]
        OBVIOUS
      <4>2. users[user.id] \in Row
        BY <1>3, <1>4, IInvParts
      <4>3. row \in Row /\ row.person = users[user.id].person /\ row.born = users[user.id].born
        BY <1>4, <4>1, <4>2 DEF Row, User
      <4> QED BY <1>2, <1>3, <1>4, <3>2, <4>1, <4>3, RowUpdated
    <3> QED BY <1>6, <3>1, <3>2
  <2>2. RestKept
    BY <1>1, <1>2, <1>6, RestSpent
  <2>3. PICK r : r = [th[t] EXCEPT !.pc = "check", !.user = user]
    OBVIOUS
  <2>4. "check" \in Label
    BY DEF Label
  <2>5. /\ r \in Local /\ r.pc = "check" /\ r.user = user /\ r.touched = th[t].touched
        /\ Same(r, th[t])
    BY <1>3, <1>4, <2>3, <2>4 DEF Local, Same
  <2>6. Fits(r)
    BY <1>2, <1>3, <1>4, <2>5, IInvParts DEF Fits, Same
  <2>7. Configured(r)
    BY <1>4, <2>5 DEF Configured, Administering, Same
  <2>8. Owned(r)'
    BY <1>2, <1>3, <1>4, <2>1, <2>5, IInvParts DEF Owned, Same
  <2> QED BY <1>2, <1>6, <2>1, <2>2, <2>3, <2>5, <2>6, <2>7, <2>8, GoesOnKeeps
<1>7. IInv'
  BY <1>1, <1>5, <1>6
<1>8. \A j \in Id \ {user.id} : users'[j] = users[j]
  BY <1>1, <1>3, <1>4, IInvParts DEF UpdateRow
<1> QED BY <1>4, <1>7, <1>8

(* Whoever is served has a row, and administers only if it is configured.  *)
LEMMA ServeKeeps ==
  ASSUME IInv, NEW t \in Thread, th[t].pc \in {"check", "connect", "basic"},
         NEW s \in Local, Same(s, th[t]), s.user.id \in Id, ~s.touched,
         s.kind \in {"update", "delete"} /\ s.user.admin => s.me \in admins, Owned(s),
         UNCHANGED <<users, grants, orphans>>, RestKept,
         ConnectsOrServes(t, s)
  PROVE  IInv'
<1>1. ASSUME NEW label \in {"connect", "calls", "regenerate", "look"},
             GoesOn(t, [s EXCEPT !.pc = label]),
             label = "calls" => s.kind \in {"dav", "basic", "page"},
             label = "regenerate" => s.kind = "regenerate",
             label = "look" => s.kind \in {"update", "delete"} /\ s.user.admin
      PROVE  IInv'
  <2>1. PICK r : r = [s EXCEPT !.pc = label]
    OBVIOUS
  <2>2. label \in Label
    BY DEF Label
  <2>3. /\ r \in Local /\ r.pc = label /\ r.user = s.user /\ r.touched = s.touched
        /\ Same(r, s)
    BY <2>1, <2>2 DEF Local, Same
  <2>4. Fits(r)
    BY <1>1, <2>3, IInvParts DEF Fits, Same
  <2>5. Configured(r)
    BY <1>1, <2>3 DEF Configured, Administering, Same
  <2>6. Owned(r)'
    BY <2>3 DEF Owned, Same
  <2>7. TablesKept(t)
    BY TablesUnchanged
  <2> QED BY <1>1, <2>1, <2>3, <2>4, <2>5, <2>6, <2>7, GoesOnKeeps DEF Same
<1>2. CASE Answered(t, "forbidden")
  BY <1>2, AnsweredKeeps, TablesUnchanged DEF Answer
<1> QED BY <1>1, <1>2 DEF ConnectsOrServes, Serve, Administers

LEMMA CheckLoginKeeps ==
  ASSUME IInv, NEW t \in Thread, CheckLogin(t) \/ Connect(t)
  PROVE  IInv'
<1>1. /\ th[t].pc \in {"check", "connect"}
      /\ UNCHANGED <<users, grants, admins, err, used, orphans>>
      /\ \/ Answered(t, "error") \/ Answered(t, "dropped")
         \/ (th[t].pc = "check" => th[t].user # NoUser) /\ ConnectsOrServes(t, th[t])
  BY DEF CheckLogin, Connect, ConnectsOrServes, tables
<1>2. TablesKept(t) /\ RestKept
  BY <1>1, TablesUnchanged, RestUnchanged
<1>3. CASE Answered(t, "error") \/ Answered(t, "dropped")
  BY <1>1, <1>2, <1>3, AnsweredKeeps DEF Answer
<1>4. CASE (th[t].pc = "check" => th[t].user # NoUser) /\ ConnectsOrServes(t, th[t])
  <2>1. th[t].user.id \in Id /\ ~th[t].touched /\ th[t] \in Local
    BY <1>1, <1>4, IInvParts DEF Fits
  <2>2. th[t].kind \in {"update", "delete"} /\ th[t].user.admin => th[t].me \in admins
    BY <1>1, IInvParts DEF Configured
  <2>3. Same(th[t], th[t]) /\ Owned(th[t])
    BY IInvParts DEF Same
  <2> QED BY <1>1, <1>2, <1>4, <2>1, <2>2, <2>3, ServeKeeps
<1> QED BY <1>1, <1>3, <1>4

LEMMA AuthenticateKeeps ==
  ASSUME IInv, NEW t \in Thread, Authenticate(t)
  PROVE  IInv'
<1>1. PICK fate \in Fates(t) :
        /\ \/ AnsweredAfter(t, fate, "unauthorized")
           \/ \E i \in Id : ConnectsOrServes(t, [th[t] EXCEPT !.user = Loaded(i)])
        /\ Spend(t, fate)
  BY DEF Authenticate
<1>2. th[t].pc = "basic" /\ UNCHANGED <<users, grants, admins, err, orphans>>
  BY DEF Authenticate, tables
<1>3. TablesKept(t) /\ RestKept
  BY <1>1, <1>2, TablesUnchanged, RestSpent, IInvParts
<1>4. CASE AnsweredAfter(t, fate, "unauthorized")
  BY <1>2, <1>3, <1>4, AnsweredAfterKeeps DEF Answer
<1>5. CASE \E i \in Id : ConnectsOrServes(t, [th[t] EXCEPT !.user = Loaded(i)])
  <2>a. PICK i \in Id : ConnectsOrServes(t, [th[t] EXCEPT !.user = Loaded(i)])
    BY <1>5
  <2>b. PICK s : s = [th[t] EXCEPT !.user = Loaded(i)]
    OBVIOUS
  <2>1. ConnectsOrServes(t, s) /\ s = [th[t] EXCEPT !.user = Loaded(i)]
    BY <2>a, <2>b
  <2>2. th[t] \in Local /\ Loaded(i) \in User /\ Loaded(i).id = i
    BY IInvParts, LoadedFits
  <2>3. s \in Local /\ Same(s, th[t]) /\ s.user = Loaded(i) /\ s.touched = th[t].touched
    BY <2>1, <2>2 DEF Local, Same
  <2>4. s.kind = "basic" /\ ~s.touched
    BY <1>2, <2>3, IInvParts DEF Fits, Same
  <2>5. Owned(s)
    BY <2>4 DEF Owned
  <2> QED BY <1>2, <1>3, <2>1, <2>2, <2>3, <2>4, <2>5, ServeKeeps
<1> QED BY <1>1, <1>4, <1>5

-----------------------------------------------------------------------------
(* What is served.                                                         *)
LEMMA CallsDoneKeeps ==
  ASSUME IInv, NEW t \in Thread, th[t].pc = "calls",
         NEW s \in Local, Same(s, th[t]), s.pc = "calls", s.user = th[t].user,
         s.touched => MayWrite(s.user), CallsDone(t, s),
         UNCHANGED <<users, grants, admins, err, used, orphans>>
  PROVE  IInv'
<1>1. TablesKept(t) /\ RestKept
  BY TablesUnchanged, RestUnchanged
<1>2. CASE GoesOn(t, [s EXCEPT !.at = @ + 1])
  <2>1. PICK r : r = [s EXCEPT !.at = @ + 1]
    OBVIOUS
  <2>2. /\ r \in Local /\ r.pc = "calls" /\ r.user = s.user /\ r.touched = s.touched
        /\ Same(r, s)
    BY <2>1 DEF Local, Same
  <2>3. Fits(r)
    BY <2>2, IInvParts DEF Fits, Same
  <2>4. Configured(r) /\ Owned(r)'
    BY <2>2, IInvParts DEF Configured, Administering, Owned, Same
  <2> QED BY <1>1, <1>2, <2>1, <2>2, <2>3, <2>4, GoesOnKeeps DEF Same
<1>3. ASSUME Become(t, Idle),
             Notes(t, [Entry(t) EXCEPT !.answer = "ok", !.touched = s.touched,
                           !.name = IF s.kind = "page" THEN s.user.name ELSE 0])
      PROVE  IInv'
  <2>1. PICK name \in Number : name = IF s.kind = "page" THEN s.user.name ELSE 0
    BY Constants DEF Local, User
  <2>2. PICK e : e = [Entry(t) EXCEPT !.answer = "ok", !.touched = s.touched, !.name = name]
    OBVIOUS
  <2>3. Entry(t) \in Logged /\ s.touched \in BOOLEAN /\ "ok" \in Answer
    BY IInvParts DEF Local, Answer
  <2>4. e \in Logged
    BY <2>1, <2>2, <2>3 DEF Logged
  <2>5. /\ e.kind = Entry(t).kind /\ e.target = Entry(t).target /\ e.beside = Entry(t).beside
        /\ e.answer = "ok"
    BY <2>2, <2>3 DEF Logged
  <2>6. log' = [log EXCEPT ![th[t].req] = e]
    BY <1>3, <2>1, <2>2 DEF Notes
  <2>7. Advances(t, Idle)
    BY <1>3, <2>4, <2>5, <2>6, IdleFits, AccountsAssumption DEF Advances, Become
  <2> QED BY <1>1, <2>7, IdleFits, Kept
<1> QED BY <1>2, <1>3 DEF CallsDone

LEMMA CallFileSystemKeeps ==
  ASSUME IInv, NEW t \in Thread, CallFileSystem(t)
  PROVE  IInv'
<1>1. PICK call :
        \/ Allowed(th[t].user, call) /\ CallsDone(t, [th[t] EXCEPT !.touched = @ \/ Changes(call)])
        \/ ~Allowed(th[t].user, call) /\ Answered(t, "denied")
        \/ CallsDone(t, th[t])
  BY DEF CallFileSystem, Rights
<1>2. th[t].pc = "calls" /\ UNCHANGED <<users, grants, admins, err, used, orphans>>
  BY DEF CallFileSystem, tables
<1>3. th[t] \in Local /\ th[t].user \in User /\ (th[t].touched => MayWrite(th[t].user))
  BY IInvParts DEF Fits
<1>4. CASE /\ Allowed(th[t].user, call)
           /\ CallsDone(t, [th[t] EXCEPT !.touched = @ \/ Changes(call)])
  <2>1. PICK touched \in BOOLEAN : touched <=> th[t].touched \/ Changes(call)
    <3>1. CASE th[t].touched \/ Changes(call)
      BY <3>1
    <3>2. CASE ~(th[t].touched \/ Changes(call))
      BY <3>2
    <3> QED BY <3>1, <3>2
  <2>2. PICK s : s = [th[t] EXCEPT !.touched = touched]
    OBVIOUS
  <2>3. /\ s \in Local /\ s.pc = "calls" /\ s.user = th[t].user /\ s.touched = touched
        /\ Same(s, th[t])
    BY <1>2, <1>3, <2>2 DEF Local, Same
  <2>4. s = [th[t] EXCEPT !.touched = @ \/ Changes(call)]
    BY <2>1, <2>2, Zenon
  <2>5. s.touched => MayWrite(s.user)
    BY <1>3, <1>4, <2>1, <2>3, ChangesAreWritten
  <2> QED BY <1>2, <1>4, <2>3, <2>4, <2>5, CallsDoneKeeps
<1>5. CASE ~Allowed(th[t].user, call) /\ Answered(t, "denied")
  <2>1. ~th[t].touched
    BY <1>3, <1>5, WritersMayAll
  <2> QED BY <1>2, <1>5, <2>1, AnsweredKeeps, TablesUnchanged, RestUnchanged DEF Answer
<1>6. CASE CallsDone(t, th[t])
  BY <1>2, <1>3, <1>6, CallsDoneKeeps DEF Same
<1> QED BY <1>1, <1>4, <1>5, <1>6

LEMMA RegenerateBasicPasswordKeeps ==
  ASSUME IInv, NEW t \in Thread, RegenerateBasicPassword(t)
  PROVE  /\ IInv'
         /\ \A j \in Id \ {th[t].user.id} : users'[j] = users[j]
<1> PICK i, row : i = th[t].user.id /\ row = [users[i] EXCEPT !.password = th[t].req]
  OBVIOUS
<1>1. PICK fate \in Fates(t) :
        /\ UpdateRow(i, row) \/ UNCHANGED users
        /\ \E answer \in {"ok", "error"} : AnsweredAfter(t, fate, answer)
        /\ Spend(t, fate)
  BY DEF RegenerateBasicPassword
<1>2. th[t].pc = "regenerate" /\ UNCHANGED <<grants, admins, err, orphans>>
  BY DEF RegenerateBasicPassword
<1>3. i \in Id /\ users[i] \in Row /\ th[t].req \in Number
  BY <1>2, IInvParts, Constants DEF Fits, Local
<1>4. row \in Row /\ row.person = users[i].person /\ row.born = users[i].born
  BY <1>3 DEF Row
<1>5. TablesKept(t)
  BY <1>1, <1>2, <1>3, <1>4, RowUpdated, TablesUnchanged
<1>6. RestKept
  BY <1>1, <1>2, RestSpent, IInvParts
<1>7. IInv'
  BY <1>1, <1>2, <1>5, <1>6, AnsweredAfterKeeps DEF Answer
<1>8. \A j \in Id \ {i} : users'[j] = users[j]
  BY <1>1, <1>3, <1>4, IInvParts DEF UpdateRow
<1> QED BY <1>7, <1>8

-----------------------------------------------------------------------------
(* Administration.                                                         *)
LEMMA AdministrationGoesOn ==
  ASSUME IInv, NEW t \in Thread, th[t].pc \in Administering, UNCHANGED <<users, orphans>>,
         NEW r \in Local, r.pc \in Administering, Same(r, th[t]),
         r.user = th[t].user, r.touched = th[t].touched,
         r.pc \in {"groups", "rewrite", "clear", "insert"} => r.kind = "update"
  PROVE  Fits(r) /\ Configured(r) /\ Owned(r)'
<1>1. th[t].pc \notin {"idle", "find", "check", "basic", "connect", "calls"}
  BY DEF Administering
<1>2. r.pc \notin {"idle", "find", "check", "basic", "connect", "calls"}
  BY DEF Administering
<1>3. Fits(r)
  BY <1>1, <1>2, IInvParts DEF Fits, Same
<1>4. Configured(r)
  BY IInvParts DEF Configured, Same
<1>5. Owned(r)'
  BY IInvParts DEF Owned, Same
<1> QED BY <1>3, <1>4, <1>5

(* The groups of the request's target change, if it has a row or loses     *)
(* them.                                                                   *)
LEMMA GrantsChanged ==
  ASSUME IInv, NEW t \in Thread, th[t].kind = "update", UNCHANGED <<users, orphans>>,
         NEW f \in [Group -> Nat], grants' = [grants EXCEPT ![th[t].target] = f],
         HasRow(th[t].target) \/ f = NoGroups
  PROVE  TablesKept(t)
<1>1. \A i \in Id, g \in Group : grants[i][g] > 0 => users[i].person # Nobody
  BY DEF IInv, GroupsAreGiven, Groups, HasRow
<1>2. grants' \in [Id -> [Group -> Nat]] /\ \A i \in Id \ {th[t].target} : grants'[i] = grants[i]
  BY IInvParts
<1>3. ASSUME NEW i \in Id, NEW g \in Group, grants'[i][g] > 0, i = th[t].target
      PROVE  users[i].person # Nobody
  <2>1. grants'[i] = f
    BY <1>3, IInvParts
  <2> QED BY <1>3, <2>1 DEF NoGroups, HasRow
<1> QED BY <1>1, <1>2, <1>3 DEF IInv, TypeOK, TablesKept

LEMMA AfterInsertionKeeps ==
  ASSUME IInv, NEW t \in Thread, th[t].pc \in {"clear", "insert"}, UNCHANGED <<users, orphans>>,
         NEW r \in Local, Same(r, th[t]), r.user = th[t].user, r.touched = th[t].touched,
         NEW fate, AfterInsertion(t, fate, r), TablesKept(t), RestKept
  PROVE  IInv'
<1>1. th[t].pc \in Administering /\ th[t].kind = "update"
  BY IInvParts DEF Administering, Fits
<1>2. CASE AnsweredAfter(t, fate, "ok")
  BY <1>2, AnsweredAfterKeeps DEF Answer
<1>3. CASE GoesOnAfter(t, fate, [r EXCEPT !.pc = "insert"])
  <2>1. PICK s : s = [r EXCEPT !.pc = "insert"]
    OBVIOUS
  <2>2. "insert" \in Label /\ "insert" \in Administering
    BY DEF Label, Administering
  <2>3. /\ s \in Local /\ s.pc = "insert" /\ s.user = r.user /\ s.touched = r.touched
        /\ Same(s, th[t])
    BY <2>1, <2>2 DEF Local, Same
  <2>4. Fits(s) /\ Configured(s) /\ Owned(s)'
    BY <1>1, <2>2, <2>3, AdministrationGoesOn DEF Same
  <2> QED BY <1>3, <2>1, <2>3, <2>4, GoesOnAfterKeeps
<1> QED BY <1>2, <1>3 DEF AfterInsertion

LEMMA LookUpKeeps ==
  ASSUME IInv, NEW t \in Thread, LookUp(t)
  PROVE  IInv'
<1> DEFINE next == IF th[t].kind = "update" THEN "groups" ELSE "remove"
<1>1. PICK fate \in Fates(t) :
        /\ GoesOn(t, [th[t] EXCEPT !.pc = next]) \/ AnsweredAfter(t, fate, "error")
        /\ Spend(t, fate)
  BY DEF LookUp
<1>2. th[t].pc = "look" /\ UNCHANGED <<users, grants, admins, err, orphans>>
  BY DEF LookUp, tables
<1>3. TablesKept(t) /\ RestKept
  BY <1>1, <1>2, TablesUnchanged, RestSpent, IInvParts
<1>4. CASE AnsweredAfter(t, fate, "error")
  BY <1>2, <1>3, <1>4, AnsweredAfterKeeps DEF Answer
<1>5. CASE GoesOn(t, [th[t] EXCEPT !.pc = next])
  <2>1. PICK r : r = [th[t] EXCEPT !.pc = next]
    OBVIOUS
  <2>2. next \in Label /\ next \in Administering /\ th[t].pc \in Administering
    BY <1>2 DEF Label, Administering
  <2>3. next # "remove" => th[t].kind = "update"
    OBVIOUS
  <2> HIDE DEF next
  <2>4. /\ r \in Local /\ r.pc = next /\ r.user = th[t].user /\ r.touched = th[t].touched
        /\ Same(r, th[t])
    BY <2>1, <2>2, IInvParts DEF Local, Same
  <2>5. Fits(r) /\ Configured(r) /\ Owned(r)'
    BY <1>2, <2>2, <2>3, <2>4, AdministrationGoesOn DEF Same
  <2> QED BY <1>2, <1>3, <1>5, <2>1, <2>4, <2>5, GoesOnKeeps
<1> QED BY <1>1, <1>4, <1>5

LEMMA LookUpGroupsKeeps ==
  ASSUME IInv, NEW t \in Thread, LookUpGroups(t)
  PROVE  IInv'
<1> PICK r : r = [th[t] EXCEPT !.pc = "rewrite", !.found = grants[th[t].target]]
  OBVIOUS
<1>1. PICK fate \in Fates(t) :
        /\ GoesOn(t, r) \/ AnsweredAfter(t, fate, "error")
        /\ Spend(t, fate)
  BY DEF LookUpGroups
<1>2. th[t].pc = "groups" /\ UNCHANGED <<users, grants, admins, err, orphans>>
  BY DEF LookUpGroups, tables
<1>3. TablesKept(t) /\ RestKept
  BY <1>1, <1>2, TablesUnchanged, RestSpent, IInvParts
<1>4. CASE AnsweredAfter(t, fate, "error")
  BY <1>2, <1>3, <1>4, AnsweredAfterKeeps DEF Answer
<1>5. CASE GoesOn(t, r)
  <2>1. "rewrite" \in Label /\ "rewrite" \in Administering /\ th[t].pc \in Administering
    BY <1>2 DEF Label, Administering
  <2>2. th[t] \in Local /\ th[t].kind = "update" /\ grants[th[t].target] \in [Group -> Nat]
    BY <1>2, IInvParts DEF Fits
  <2>3. /\ r \in Local /\ r.pc = "rewrite" /\ r.user = th[t].user /\ r.touched = th[t].touched
        /\ Same(r, th[t])
    BY <2>1, <2>2 DEF Local, Same
  <2>4. Fits(r) /\ Configured(r) /\ Owned(r)'
    BY <1>2, <2>1, <2>2, <2>3, AdministrationGoesOn DEF Same
  <2> QED BY <1>2, <1>3, <1>5, <2>3, <2>4, GoesOnKeeps
<1> QED BY <1>1, <1>4, <1>5

LEMMA UpdateUserKeeps ==
  ASSUME IInv, NEW t \in Thread, UpdateUser(t)
  PROVE  IInv'
<1> PICK r : r = [th[t] EXCEPT !.pc = "clear"]
  OBVIOUS
<1>1. PICK fate \in Fates(t) :
        /\ \/ /\ HasRow(th[t].target)
              /\ grants' = [grants EXCEPT ![th[t].target] = th[t].found]
              /\ GoesOn(t, r)
           \/ UNCHANGED grants /\ AnsweredAfter(t, fate, "error")
        /\ Spend(t, fate)
  BY DEF UpdateUser
<1>2. th[t].pc = "rewrite" /\ UNCHANGED <<users, admins, err, orphans>>
  BY DEF UpdateUser
<1>3. RestKept
  BY <1>1, <1>2, RestSpent, IInvParts
<1>4. CASE UNCHANGED grants /\ AnsweredAfter(t, fate, "error")
  BY <1>2, <1>3, <1>4, TablesUnchanged, AnsweredAfterKeeps DEF Answer
<1>5. CASE /\ HasRow(th[t].target)
           /\ grants' = [grants EXCEPT ![th[t].target] = th[t].found]
           /\ GoesOn(t, r)
  <2>1. "clear" \in Label /\ "clear" \in Administering /\ th[t].pc \in Administering
    BY <1>2 DEF Label, Administering
  <2>2. th[t] \in Local /\ th[t].kind = "update" /\ th[t].found \in [Group -> Nat]
    BY <1>2, IInvParts DEF Fits, Local
  <2>3. /\ r \in Local /\ r.pc = "clear" /\ r.user = th[t].user /\ r.touched = th[t].touched
        /\ Same(r, th[t])
    BY <2>1, <2>2 DEF Local, Same
  <2>4. Fits(r) /\ Configured(r) /\ Owned(r)'
    BY <1>2, <2>1, <2>2, <2>3, AdministrationGoesOn DEF Same
  <2>5. TablesKept(t)
    BY <1>2, <1>5, <2>2, GrantsChanged
  <2> QED BY <1>2, <1>3, <1>5, <2>3, <2>4, <2>5, GoesOnKeeps
<1> QED BY <1>1, <1>4, <1>5

LEMMA DeleteGroupsKeeps ==
  ASSUME IInv, NEW t \in Thread, DeleteGroups(t)
  PROVE  IInv'
<1>1. PICK fate \in Fates(t) :
        /\ grants' = [grants EXCEPT ![th[t].target] = NoGroups] \/ UNCHANGED grants
        /\ AfterInsertion(t, fate, th[t])
        /\ Spend(t, fate)
  BY DEF DeleteGroups
<1>2. th[t].pc = "clear" /\ UNCHANGED <<users, admins, err, orphans>>
  BY DEF DeleteGroups
<1>3. RestKept
  BY <1>1, <1>2, RestSpent, IInvParts
<1>4. th[t].kind = "update" /\ th[t] \in Local
  BY <1>2, IInvParts DEF Fits
<1>5. TablesKept(t)
  BY <1>1, <1>2, <1>4, GrantsChanged, TablesUnchanged, Constants
<1> QED BY <1>1, <1>2, <1>3, <1>4, <1>5, AfterInsertionKeeps DEF Same

LEMMA InsertGroupKeeps ==
  ASSUME IInv, NEW t \in Thread, InsertGroup(t)
  PROVE  IInv'
<1>1. PICK g \in th[t].form, fate \in Fates(t) :
        /\ grants' = IF fate = "ok" /\ HasRow(th[t].target)
                     THEN [grants EXCEPT ![th[t].target][g] = @ + 1] ELSE grants
        /\ AfterInsertion(t, fate, [th[t] EXCEPT !.form = @ \ {g}])
        /\ Spend(t, fate)
  BY DEF InsertGroup
<1>2. th[t].pc = "insert" /\ UNCHANGED <<users, admins, err, orphans>>
  BY DEF InsertGroup
<1>3. RestKept
  BY <1>1, <1>2, RestSpent, IInvParts
<1>4. th[t].kind = "update" /\ th[t] \in Local /\ th[t].target \in Id
  BY <1>2, IInvParts DEF Fits
<1>5. TablesKept(t)
  <2>1. CASE grants' = grants
    BY <1>2, <2>1, TablesUnchanged
  <2>2. CASE HasRow(th[t].target) /\ grants' = [grants EXCEPT ![th[t].target][g] = @ + 1]
    <3>1. PICK f : f = [grants[th[t].target] EXCEPT ![g] = @ + 1]
      OBVIOUS
    <3>2. grants[th[t].target] \in [Group -> Nat] /\ g \in Group
      BY <1>1, <1>4, IInvParts DEF Local
    <3>3. f \in [Group -> Nat]
      BY <3>1, <3>2
    <3>4. grants' = [grants EXCEPT ![th[t].target] = f]
      BY <2>2, <3>1
    <3> QED BY <1>2, <1>4, <2>2, <3>3, <3>4, GrantsChanged
  <2> QED BY <1>1, <2>1, <2>2
<1>6. PICK r : r = [th[t] EXCEPT !.form = @ \ {g}]
  OBVIOUS
<1>7. /\ r \in Local /\ Same(r, th[t])
      /\ r.user = th[t].user /\ r.touched = th[t].touched
  BY <1>4, <1>6 DEF Local, Same
<1> QED BY <1>1, <1>2, <1>3, <1>5, <1>6, <1>7, AfterInsertionKeeps

LEMMA DeleteUsersKeeps ==
  ASSUME IInv, NEW t \in Thread, DeleteUsers(t)
  PROVE  IInv'
<1> DEFINE i == th[t].target
           holders == { th[u].req : u \in { u \in Thread : th[u].user.id = i } }
<1>1. PICK fate \in Fates(t) :
        /\ \/ /\ users' = [users EXCEPT ![i] = NoRow]
              /\ grants' = [grants EXCEPT ![i] = NoGroups]
              /\ orphans' = orphans \cup holders
           \/ UNCHANGED <<users, grants, orphans>>
        /\ \E answer \in {"ok", "error"} : AnsweredAfter(t, fate, answer)
        /\ Spend(t, fate)
  BY DEF DeleteUsers, Cascade, tables
<1>2. th[t].pc = "remove" /\ UNCHANGED <<admins, err>>
  BY DEF DeleteUsers
<1>3. RestKept
  BY <1>1, <1>2, RestSpent, IInvParts
<1>4. TablesKept(t)
  <2>1. CASE UNCHANGED <<users, grants, orphans>>
    BY <2>1, TablesUnchanged
  <2>2. CASE /\ users' = [users EXCEPT ![i] = NoRow]
             /\ grants' = [grants EXCEPT ![i] = NoGroups]
             /\ orphans' = orphans \cup holders
    <3>1. \A j \in Id, g \in Group : grants[j][g] > 0 => users[j].person # Nobody
      BY DEF IInv, GroupsAreGiven, Groups, HasRow
    <3>2. i \in Id /\ NoRow \in Row /\ NoRow.born = 0 /\ NoGroups \in [Group -> Nat]
      BY <1>2, IInvParts, Constants DEF Fits, NoRow
    <3>3. /\ users' \in [Id -> Row] /\ users'[i].born = 0
          /\ \A j \in Id \ {i} : users'[j] = users[j]
      BY <2>2, <3>2, IInvParts
    <3>4. /\ grants' \in [Id -> [Group -> Nat]] /\ grants'[i] = NoGroups
          /\ \A j \in Id \ {i} : grants'[j] = grants[j]
      BY <2>2, <3>2, IInvParts
    <3>5. holders \subseteq 0 .. MaxRequests
      <4>1. \A u \in Thread : th[u].req \in 0 .. MaxRequests
        BY DEF IInv, TypeOK, Local
      <4> QED BY <4>1
    <3>6. orphans \subseteq orphans' /\ orphans' \subseteq 0 .. MaxRequests
      BY <2>2, <3>5 DEF IInv, TypeOK
    <3>7. \A u \in Thread : th[u].user.id = i => th[u].req \in orphans'
      BY <2>2
    <3>8. \A g \in Group : ~(grants'[i][g] > 0)
      BY <3>4 DEF NoGroups
    <3> HIDE DEF i, holders
    <3> QED BY <3>1, <3>3, <3>4, <3>6, <3>7, <3>8 DEF TablesKept
  <2> QED BY <1>1, <2>1, <2>2
<1> QED BY <1>1, <1>2, <1>3, <1>4, AnsweredAfterKeeps DEF Answer

-----------------------------------------------------------------------------
(* A request begins; the process starts again.                             *)
LEMMA IssueKeeps ==
  ASSUME IInv, NEW t \in Thread, NEW q \in Requests, NEW label \in {"find", "basic"},
         label = "basic" <=> q.kind = "basic",
         NEW name \in Number, NEW password \in Number, Issue(t, q, label, name, password)
  PROVE  IInv'
<1>0. /\ MaxRequests \in Nat
      /\ Requests \subseteq [kind : Kind, me : Person, method : Method, target : Id,
                           form : SUBSET Group]
  BY AccountsAssumption
<1> USE <1>0
<1>a. PICK new : new = used.requests + 1
  OBVIOUS
<1>b. PICK r : r = [Idle EXCEPT !.pc = label, !.kind = q.kind, !.req = new, !.me = q.me,
                                !.method = q.method, !.name = name, !.password = password,
                                !.target = q.target, !.form = q.form]
  OBVIOUS
<1>c. PICK e : e = [Request EXCEPT !.kind = q.kind, !.me = q.me, !.target = q.target,
                                   !.form = q.form, !.beside = Active]
  OBVIOUS
<1>1. /\ th[t].pc = "idle" /\ used.requests < MaxRequests
      /\ used' = [used EXCEPT !.requests = new]
      /\ th' = [th EXCEPT ![t] = r]
      /\ log' = [log EXCEPT ![new] = e]
      /\ UNCHANGED <<users, grants, admins, err, orphans>>
  BY <1>a, <1>b, <1>c DEF Issue, NewRequest, Become, tables
<1>2. /\ q.kind \in Kind /\ q.me \in Person /\ q.method \in Method /\ q.target \in Id
      /\ q.form \subseteq Group
  OBVIOUS
<1>3. /\ new \in 1 .. MaxRequests /\ used.requests \in Nat
      /\ used' \in [requests : 0 .. MaxRequests, failures : Nat, restarts : Nat]
      /\ used'.requests = new
  <2>1. /\ used \in [requests : 0 .. MaxRequests, failures : Nat, restarts : Nat]
        /\ used.requests \in 0 .. MaxRequests
    BY IInvParts
  <2>2. new \in 1 .. MaxRequests
    BY <1>a, <1>1, <2>1
  <2> QED BY <1>1, <2>1, <2>2
<1>4. /\ r \in Local /\ r.pc = label /\ r.kind = q.kind /\ r.req = new /\ r.me = q.me
      /\ r.target = q.target /\ r.user = NoUser /\ r.touched = FALSE
  <2>1. label \in Label
    BY DEF Label
  <2>2. Idle \in Local
    BY IdleFits DEF Fits
  <2>3. Idle.user = NoUser /\ Idle.touched = FALSE
    BY DEF Idle
  <2>4. new \in 0 .. MaxRequests
    BY <1>3
  <2> QED BY <1>b, <1>2, <2>1, <2>2, <2>3, <2>4 DEF Local
<1>5. /\ e \in Logged /\ e.kind = q.kind /\ e.target = q.target /\ e.beside = Active
      /\ e.answer = "none"
  <2>1. Active \subseteq 0 .. MaxRequests
    <3>1. \A u \in Thread : th[u].req \in 0 .. MaxRequests
      BY DEF IInv, TypeOK, Local
    <3> QED BY <3>1 DEF Active
  <2>2. Request \in Logged /\ Request.answer = "none"
    BY Constants DEF Request, Logged, Answer
  <2> QED BY <1>c, <1>2, <2>1, <2>2 DEF Logged
<1>6. /\ th \in [Thread -> Local] /\ th' \in [Thread -> Local] /\ th'[t] = r
      /\ \A u \in Thread \ {t} : th'[u] = th[u]
  BY <1>1, <1>4, IInvParts
<1>7. /\ log' \in [1 .. MaxRequests -> Logged] /\ log'[new] = e
      /\ \A p \in 1 .. MaxRequests : p # new => log'[p] = log[p]
  BY <1>1, <1>3, <1>5, IInvParts
<1>8. /\ new > used.requests
      /\ \A p \in 1 .. MaxRequests : p <= new /\ p # new => p <= used.requests
  BY <1>a, <1>3
<1>9. \A u \in Thread : Fits(th'[u])
  <2>1. Fits(r)
    BY <1>2, <1>3, <1>4, Constants DEF Fits
  <2> QED BY <1>6, <2>1 DEF IInv
<1>10. TypeOK'
  <2>1. \A u \in Thread : th'[u].pc \in {"idle", "find", "check", "basic"} \/ th'[u].user.id \in Id
    BY <1>9 DEF Fits
  <2> QED BY <1>1, <1>3, <1>6, <1>7, <2>1 DEF IInv, TypeOK, Loading
<1>11. \A u \in Thread : (Configured(th[u]) /\ Owned(th[u]))'
  <2> SUFFICES ASSUME NEW u \in Thread PROVE (Configured(th[u]) /\ Owned(th[u]))'
    OBVIOUS
  <2>1. CASE u = t
    BY <1>4, <1>6, <2>1, Constants DEF Configured, Administering, Owned
  <2>2. CASE u # t
    <3>1. th'[u] = th[u] /\ Configured(th[u]) /\ Owned(th[u])
      BY <1>6, <2>2 DEF IInv
    <3> QED BY <1>1, <3>1 DEF Configured, Owned
  <2> QED BY <2>1, <2>2
<1>12. \A u \in Thread : Recorded(th[u])'
  <2> SUFFICES ASSUME NEW u \in Thread, th'[u].pc # "idle" PROVE Recorded(th[u])'
    BY DEF Recorded
  <2>1. CASE u = t
    BY <1>3, <1>4, <1>5, <1>6, <1>7, <2>1 DEF Recorded
  <2>2. CASE u # t
    <3>1. th'[u] = th[u] /\ Recorded(th[u]) /\ th[u].req \in 1 .. MaxRequests
      BY <1>6, <2>2, IInvParts
    <3>2. th[u].req \in Active
      BY <3>1 DEF Active
    <3>3. th[u].req # new /\ th[u].req <= used'.requests
      BY <1>3, <1>8, <3>1 DEF Recorded
    <3>4. log'[th[u].req] = log[th[u].req]
      BY <1>7, <3>1, <3>3
    <3>5. ASSUME NEW p \in 1 .. MaxRequests, th[u].req < p, p <= used'.requests
          PROVE  th[u].req \in log'[p].beside
      <4>1. CASE p = new
        BY <1>5, <1>7, <3>2, <4>1
      <4>2. CASE p # new
        BY <1>3, <1>7, <1>8, <3>1, <3>5, <4>2 DEF Recorded
      <4> QED BY <4>1, <4>2
    <3>6. log[th[u].req].kind = th[u].kind /\ log[th[u].req].target = th[u].target
      BY <3>1 DEF Recorded
    <3> QED BY <3>1, <3>3, <3>4, <3>5, <3>6 DEF Recorded
  <2> QED BY <2>1, <2>2
<1>13. \A p \in 1 .. MaxRequests : p > used'.requests => log'[p] = Request
  BY <1>3, <1>7, <1>8 DEF IInv
<1>14. \A i \in Id : users'[i].born <= used'.requests
  <2>1. \A i \in Id : users[i].born \in 0 .. MaxRequests
    BY IInvParts DEF Row
  <2> QED BY <1>1, <1>3, <1>8, <2>1 DEF IInv
<1>15. DeniedChangesNothing'
  BY <1>5, <1>7 DEF IInv, DeniedChangesNothing
<1>16. GroupsAreGiven'
  <2> SUFFICES ASSUME NEW i \in Id, Groups(i) # {}
               PROVE  /\ HasRow(i)
                      /\ users[i].born = 0 \/ \E p \in 1 .. MaxRequests :
                            /\ log'[p].kind = "update" /\ log'[p].target = i
                            /\ p >= users[i].born \/ Overlap(p, users[i].born)'
    BY <1>1 DEF GroupsAreGiven, Groups, HasRow
  <2>1. HasRow(i)
    BY DEF IInv, GroupsAreGiven
  <2>2. users[i].born \in 0 .. MaxRequests /\ users[i].born <= used.requests
    BY IInvParts DEF IInv, Row
  <2>3. CASE users[i].born # 0
    <3>1. PICK p \in 1 .. MaxRequests :
            /\ log[p].kind = "update" /\ log[p].target = i
            /\ p >= users[i].born \/ Overlap(p, users[i].born)
      BY <2>3 DEF IInv, GroupsAreGiven
    <3>2. Request.kind # "update"
      BY DEF Request
    <3>3. p # new /\ users[i].born # new
      BY <1>8, <1>3, <2>2, <3>1, <3>2 DEF IInv
    <3>4. log'[p] = log[p] /\ log'[users[i].born] = log[users[i].born]
      BY <1>7, <2>2, <2>3, <3>3
    <3> QED BY <1>1, <2>1, <3>1, <3>4 DEF Overlap
  <2> QED BY <2>1, <2>3
<1> QED BY <1>9, <1>10, <1>11, <1>12, <1>13, <1>14, <1>15, <1>16 DEF IInv

LEMMA RequestKeeps ==
  ASSUME IInv, NEW t \in Thread, IssueSession(t) \/ IssueBasic(t)
  PROVE  IInv'
<1>1. CASE IssueSession(t)
  BY <1>1, IssueKeeps, Constants DEF IssueSession
<1>2. CASE IssueBasic(t)
  <2>1. \A i \in Id : users[i].name \in Number /\ users[i].password \in Number
    BY IInvParts DEF Row
  <2> QED BY <1>2, <2>1, IssueKeeps DEF IssueBasic
<1> QED BY <1>1, <1>2

LEMMA RestartKeeps ==
  ASSUME IInv, Restart
  PROVE  IInv'
<1> USE AccountsAssumption
<1>1. /\ th' = [t \in Thread |-> Idle] /\ admins' \in Conf /\ err' = FALSE
      /\ used' = [used EXCEPT !.restarts = @ + 1]
      /\ UNCHANGED <<users, grants, orphans, log>>
  BY DEF Restart, tables
<1>2. /\ used' \in [requests : 0 .. MaxRequests, failures : Nat, restarts : Nat]
      /\ used'.requests = used.requests
  <2>1. used \in [requests : 0 .. MaxRequests, failures : Nat, restarts : Nat]
    BY DEF IInv, TypeOK
  <2> QED BY <1>1, <2>1
<1>3. Fits(Idle) /\ Idle.pc = "idle" /\ Idle.user.id \notin Id
  BY IdleFits
<1>4. th' \in [Thread -> Local] /\ \A t \in Thread : th'[t] = Idle
  BY <1>1, <1>3 DEF Fits
<1>5. TypeOK'
  BY <1>1, <1>2, <1>3, <1>4 DEF IInv, TypeOK, Loading
<1>6. \A t \in Thread : (Fits(th[t]) /\ Configured(th[t]) /\ Owned(th[t]) /\ Recorded(th[t]))'
  BY <1>3, <1>4 DEF Configured, Administering, Owned, Recorded
<1>7. DeniedChangesNothing' /\ GroupsAreGiven'
  BY <1>1 DEF IInv, DeniedChangesNothing, GroupsAreGiven, Groups, HasRow, Overlap
<1> QED BY <1>1, <1>2, <1>5, <1>6, <1>7 DEF IInv

LEMMA InitEstablishes == Init => IInv
<1> SUFFICES ASSUME Init PROVE IInv
  OBVIOUS
<1> USE AccountsAssumption
<1>1. \A i \in DOMAIN InitialRows : /\ i \in Id /\ InitialRows[i] \in Person
                                    /\ MaxRequests + i \in Number
  BY DEF Id, Number
<1>2. users \in [Id -> Row] /\ \A i \in Id : users[i].born = 0
  <2>1. ASSUME NEW i \in DOMAIN InitialRows
        PROVE  InitialRow(i) \in Row /\ InitialRow(i).born = 0
    <3>1. PICK admin \in BOOLEAN : admin <=> InitialRows[i] \in admins
      <4>1. CASE InitialRows[i] \in admins
        BY <4>1
      <4>2. CASE InitialRows[i] \notin admins
        BY <4>2
      <4> QED BY <4>1, <4>2
    <3>2. InitialRow(i) = [person |-> InitialRows[i], profile |-> InitialRows[i],
                           name |-> MaxRequests + i, password |-> MaxRequests + i,
                           admin |-> admin, born |-> 0]
      BY <3>1, Zenon DEF InitialRow
    <3> QED BY <1>1, <3>2 DEF Row
  <2>2. NoRow \in Row /\ NoRow.born = 0
    BY Constants DEF NoRow
  <2>3. users = [i \in Id |-> IF i \in DOMAIN InitialRows THEN InitialRow(i) ELSE NoRow]
    BY DEF Init
  <2> QED BY <2>1, <2>2, <2>3
<1>3. /\ grants \in [Id -> [Group -> Nat]]
      /\ \A i \in Id, g \in Group : grants[i][g] > 0 => i \in DOMAIN InitialRows
  BY DEF Init
<1>4. used \in [requests : 0 .. MaxRequests, failures : Nat, restarts : Nat] /\ used.requests = 0
  BY DEF Init
<1>5. /\ log = [r \in 1 .. MaxRequests |-> Request]
      /\ log \in [1 .. MaxRequests -> Logged]
  <2>1. Request \in Logged
    BY Constants DEF Request, Logged, Answer
  <2> QED BY <2>1 DEF Init
<1>6. Fits(Idle) /\ Idle.pc = "idle" /\ Idle.user.id \notin Id
  BY IdleFits
<1>7. th \in [Thread -> Local] /\ \A t \in Thread : th[t] = Idle
  BY <1>6 DEF Init, Fits
<1>8. TypeOK
  BY <1>2, <1>3, <1>4, <1>5, <1>6, <1>7 DEF Init, TypeOK, Loading
<1>9. \A t \in Thread : Fits(th[t]) /\ Configured(th[t]) /\ Owned(th[t]) /\ Recorded(th[t])
  BY <1>6, <1>7 DEF Configured, Administering, Owned, Recorded
<1>10. DeniedChangesNothing
  BY <1>5 DEF DeniedChangesNothing, Request
<1>11. GroupsAreGiven
  <2> SUFFICES ASSUME NEW i \in Id, i \in DOMAIN InitialRows
               PROVE  HasRow(i) /\ users[i].born = 0
    BY <1>3 DEF GroupsAreGiven, Groups
  <2>1. users[i].person = InitialRows[i]
    BY DEF Init, InitialRow
  <2> QED BY <1>1, <1>2, <2>1 DEF HasRow
<1> QED BY <1>2, <1>4, <1>5, <1>8, <1>9, <1>10, <1>11 DEF IInv

LEMMA NextKeeps == IInv /\ [Next]_vars => IInv'
<1> SUFFICES ASSUME IInv, [Next]_vars PROVE IInv'
  OBVIOUS
<1>1. ASSUME NEW t \in Thread, IssueSession(t) \/ IssueBasic(t)
      PROVE  IInv'
  BY <1>1, RequestKeeps
<1>2. ASSUME NEW t \in Thread, Login(t)
      PROVE  IInv'
  BY <1>2, FindOrCreateUserKeeps, UpdateProfileKeeps, CheckLoginKeeps, AuthenticateKeeps DEF Login
<1>3. ASSUME NEW t \in Thread, CallFileSystem(t) \/ RegenerateBasicPassword(t)
      PROVE  IInv'
  BY <1>3, CallFileSystemKeeps, RegenerateBasicPasswordKeeps
<1>4. ASSUME NEW t \in Thread, Administer(t)
      PROVE  IInv'
  BY <1>4, LookUpKeeps, LookUpGroupsKeeps, UpdateUserKeeps, DeleteGroupsKeeps, InsertGroupKeeps,
     DeleteUsersKeeps DEF Administer
<1>5. CASE UNCHANGED vars
  <2>1. UNCHANGED <<users, grants, admins, err, th, used, orphans, log>>
    BY <1>5 DEF vars, tables
  <2>2. TypeOK' /\ DeniedChangesNothing' /\ GroupsAreGiven'
    BY <2>1 DEF IInv, TypeOK, Loading, DeniedChangesNothing, GroupsAreGiven, Groups, HasRow, Overlap
  <2> QED BY <2>1, <2>2 DEF IInv, Configured, Owned, Recorded
<1> QED BY <1>1, <1>2, <1>3, <1>4, <1>5, RestartKeeps DEF Next, BudgetSpent

LEMMA Invariant == Spec => []IInv
BY InitEstablishes, NextKeeps, PTL DEF Spec

-----------------------------------------------------------------------------
(* Every variable keeps its type, whoever logs in, is administered or      *)
(* deleted meanwhile; whoever is served has the id of a row, which is what *)
(* the closure of NewOnAuthenticatedFromConfig relies on.                  *)
THEOREM TypeCorrect == Spec => []TypeOK
<1>1. IInv => TypeOK
  BY DEF IInv
<1> QED BY <1>1, Invariant, PTL

(* A request that is refused for want of permission, at whichever of its   *)
(* calls, has changed no file, for any requests, groups and administrators *)
(* (authz/filesystem.go:91-134).                                           *)
THEOREM DenialsChangeNothing == Spec => []DeniedChangesNothing
<1>1. IInv => DeniedChangesNothing
  BY DEF IInv
<1> QED BY <1>1, Invariant, PTL

(* Whoever administers is an administrator by the configuration in force,  *)
(* for any configurations, restarts and failures                           *)
(* (on_authenticated.go:86-108, admin/user.go:126-140).                    *)
THEOREM OnlyConfiguredAdministrate == Spec => []AdministratorsAreConfigured
<1>1. IInv => AdministratorsAreConfigured
  BY DEF IInv, Configured, Administering, AdministratorsAreConfigured
<1> QED BY <1>1, Invariant, PTL

(* Nobody has groups by being given the id of a user that was deleted, for *)
(* any number of users and requests (store/user.go:301-323).               *)
THEOREM GroupsAreNotInherited == Spec => []GroupsAreGiven
<1>1. IInv => GroupsAreGiven
  BY DEF IInv
<1> QED BY <1>1, Invariant, PTL

-----------------------------------------------------------------------------
(* A step that changes rows of users is one of these, and of one request.  *)
LEMMA OneWrites ==
  ASSUME IInv, Next, users' # users
  PROVE  \E u \in Thread :
            /\ FindOrCreateUser(u) \/ UpdateProfile(u) \/ RegenerateBasicPassword(u) \/ DeleteUsers(u)
            /\ \A t \in Thread \ {u} : th'[t] = th[t]
<1>1. ASSUME NEW u \in Thread, IssueSession(u) \/ IssueBasic(u) \/ CallFileSystem(u)
      PROVE  UNCHANGED users
  BY <1>1 DEF IssueSession, IssueBasic, Issue, CallFileSystem, tables
<1>2. ASSUME NEW u \in Thread, CheckLogin(u) \/ Connect(u) \/ Authenticate(u)
      PROVE  UNCHANGED users
  BY <1>2 DEF CheckLogin, Connect, Authenticate, tables
<1>3. ASSUME NEW u \in Thread,
             LookUp(u) \/ LookUpGroups(u) \/ UpdateUser(u) \/ DeleteGroups(u) \/ InsertGroup(u)
      PROVE  UNCHANGED users
  BY <1>3 DEF LookUp, LookUpGroups, UpdateUser, DeleteGroups, InsertGroup, tables
<1>4. Restart \/ BudgetSpent => UNCHANGED users
  BY DEF Restart, BudgetSpent, vars, tables
<1>5. PICK u \in Thread :
         FindOrCreateUser(u) \/ UpdateProfile(u) \/ RegenerateBasicPassword(u) \/ DeleteUsers(u)
  BY <1>1, <1>2, <1>3, <1>4 DEF Next, Login, Administer
<1>6. \E r : Become(u, r)
  <2>1. CASE FindOrCreateUser(u)
    BY <2>1 DEF FindOrCreateUser, LoginFails, Finds, GoesOnAfter, GoesOn
  <2>2. CASE UpdateProfile(u)
    BY <2>2 DEF UpdateProfile, LoginFails, GoesOnAfter, GoesOn
  <2>3. CASE RegenerateBasicPassword(u)
    BY <2>3 DEF RegenerateBasicPassword, AnsweredAfter
  <2>4. CASE DeleteUsers(u)
    BY <2>4 DEF DeleteUsers, AnsweredAfter
  <2> QED BY <1>5, <2>1, <2>2, <2>3, <2>4
<1>7. th \in [Thread -> Local]
  BY DEF IInv, TypeOK
<1> QED BY <1>5, <1>6, <1>7 DEF Become

(* What a request writes to a row, it writes to its own user's, unless     *)
(* that was deleted under it, for any number of users, requests and        *)
(* failures (on_authenticated.go:101-108, basic.go:16-40).                 *)
THEOREM WritesAreToTheirUser == Spec => WritesReachTheirUser
<1> DEFINE Writes == \A t \in Thread, i \in Id :
        /\ th[t].pc \in {"profile", "regenerate"} /\ th'[t] # th[t]
        /\ users'[i] # users[i]
        => users[i].person = th[t].me \/ th[t].req \in orphans
<1>1. IInv /\ [Next]_vars => [Writes]_vars
  <2> SUFFICES ASSUME IInv, Next,
                      NEW t \in Thread, NEW i \in Id,
                      th[t].pc \in {"profile", "regenerate"}, th'[t] # th[t],
                      users'[i] # users[i]
               PROVE  users[i].person = th[t].me \/ th[t].req \in orphans
    OBVIOUS
  <2>1. FindOrCreateUser(t) \/ UpdateProfile(t) \/ RegenerateBasicPassword(t) \/ DeleteUsers(t)
    BY OneWrites
  <2>2. UpdateProfile(t) \/ RegenerateBasicPassword(t)
    BY <2>1 DEF FindOrCreateUser, DeleteUsers
  <2>3. th[t].user.id = i
    BY <2>2, UpdateProfileKeeps, RegenerateBasicPasswordKeeps
  <2>4. th[t].kind # "basic"
    BY IInvParts DEF Fits
  <2> QED BY <2>3, <2>4, IInvParts DEF Owned
<1>2. Spec => [][Writes]_vars
  BY <1>1, Invariant, PTL DEF Spec
<1> QED BY <1>2 DEF WritesReachTheirUser
=============================================================================
