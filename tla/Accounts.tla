------------------------------ MODULE Accounts ------------------------------
(***************************************************************************)
(* Who is served, and with which rights: internal/store (the tables of     *)
(* users and of their groups), internal/setup (first login, and every      *)
(* request of a session), internal/authn, internal/admin (an administrator *)
(* sets a user's groups or deletes the user), internal/explorer and        *)
(* internal/authz.                                                         *)
(*                                                                         *)
(* A step is one transaction or autocommitted statement, one call that is  *)
(* put to the rules, or one look at the error variable that all requests   *)
(* share.  A transaction or statement may fail, with or without the        *)
(* client's going away, which makes every later one of the request fail.   *)
(***************************************************************************)
EXTENDS Authorisation

CONSTANTS
    Thread,         \* goroutines serving requests
    Person,         \* pairs of a subject and a provider
    Conf,           \* the sets of persons that auth.admins may name
    MaxId,          \* bound: the largest id of a user
    Requests,       \* the requests clients make
    InitialRows,    \* the persons that have a row at first, in the order of ids
    InitialGroups,  \* the groups of each of them
    MaxRequests,    \* bound: requests issued altogether
    MaxMishaps      \* bound: statements that fail, and restarts of the process

Nobody == <<"", "">>
Id == 1 .. MaxId
Kind == {"dav", "basic", "page", "regenerate", "update", "delete"}

ASSUME AccountsAssumption ==
    /\ IsFiniteSet(Thread) /\ IsFiniteSet(Person) /\ Nobody \notin Person
    /\ Conf \subseteq SUBSET Person /\ Conf # {}
    /\ MaxId \in Nat
    /\ Requests \subseteq [kind : Kind, me : Person, method : Method, target : Id, form : SUBSET Group]
    /\ InitialRows \in Seq(Person) /\ Len(InitialRows) <= MaxId
    /\ \A i, j \in DOMAIN InitialRows : InitialRows[i] = InitialRows[j] => i = j
    /\ InitialGroups \in [DOMAIN InitialRows -> SUBSET Group]
    /\ MaxRequests \in Nat /\ MaxMishaps \in Nat

VARIABLES
    users,    \* the table users: its row for each id
    grants,   \* the table users_groups: how often it has each pair
    admins,   \* conf.Auth.Admins
    err,      \* whether the constructor's error variable holds an error
    th,       \* what each goroutine is doing
    used,     \* how much of each bound is used up
    orphans,  \* history: requests whose user was deleted while they were at work
    log       \* history: the requests, and how they went

tables == <<users, grants>>
vars == <<users, grants, admins, err, th, used, orphans, log>>

-----------------------------------------------------------------------------
(* The tables                                                              *)
-----------------------------------------------------------------------------
(* Names and passwords are numbered by the request that drew them, or, for *)
(* the rows there are at first, by what follows MaxRequests; 0 is NULL.    *)
Number == 0 .. MaxRequests + Len(InitialRows)
Row == [person : Person \cup {Nobody}, profile : Person \cup {Nobody},
        name : Number, password : Number, admin : BOOLEAN,
        born : 0 .. MaxRequests]   \* history: the request that inserted it
NoRow == [person |-> Nobody, profile |-> Nobody, name |-> 0, password |-> 0,
          admin |-> FALSE, born |-> 0]

HasRow(i) == users[i].person # Nobody

(* INTEGER PRIMARY KEY: one more than the largest, so that the id of the   *)
(* last user is given again once it is deleted.                            *)
IsNewId(n) == (\A i \in Id : HasRow(i) => i < n) /\ (n = 1 \/ HasRow(n - 1))

Groups(i) == { g \in Group : grants[i][g] > 0 }
NoGroups == [g \in Group |-> 0]

-----------------------------------------------------------------------------
(* Requests                                                                *)
-----------------------------------------------------------------------------
Label == {"idle", "find", "profile", "check", "connect", "basic", "calls", "regenerate",
          "look", "groups", "rewrite", "clear", "insert", "remove"}

User == [id : Id \cup {0}, name : Number, profile : Person \cup {Nobody},
         admin : BOOLEAN, groups : SUBSET Group]
NoUser == [id |-> 0, name |-> 0, profile |-> Nobody, admin |-> FALSE, groups |-> {}]

Local == [pc : Label, kind : Kind \cup {"none"}, req : 0 .. MaxRequests,
          me : Person \cup {Nobody},
          user : User,                      \* storeUser, NoUser if it is nil
          method : Method, at : Nat,        \* the call that comes next
          name : Number, password : Number, \* of basic authentication
          target : Id \cup {0},             \* the user being administered
          found : [Group -> Nat],           \* the groups GetUsers read
          form : SUBSET Group,              \* the groups still to be inserted
          touched : BOOLEAN,                \* a call was let through that changes files
          gone : BOOLEAN]                   \* the context is cancelled

Idle == [pc |-> "idle", kind |-> "none", req |-> 0, me |-> Nobody, user |-> NoUser,
         method |-> "GET", at |-> 1, name |-> 0, password |-> 0, target |-> 0,
         found |-> NoGroups, form |-> {}, touched |-> FALSE, gone |-> FALSE]

Answer == {"none", "ok", "denied", "forbidden", "unauthorized", "error", "dropped"}
Logged == [kind : Kind \cup {"none"}, me : Person \cup {Nobody}, target : Id \cup {0},
           form : SUBSET Group, answer : Answer, name : Number, failed : BOOLEAN,
           touched : BOOLEAN, beside : SUBSET (0 .. MaxRequests)]
Request == [kind |-> "none", me |-> Nobody, target |-> 0, form |-> {}, answer |-> "none",
            name |-> 0, failed |-> FALSE, touched |-> FALSE, beside |-> {}]

Become(t, r) == th' = [th EXCEPT ![t] = r]
Notes(t, entry) == log' = [log EXCEPT ![th[t].req] = entry]
Entry(t) == log[th[t].req]

GoesOn(t, r) == Become(t, r) /\ UNCHANGED log
Answered(t, answer) ==
    /\ Become(t, Idle)
    /\ Notes(t, [Entry(t) EXCEPT !.answer = answer, !.touched = th[t].touched])

Mishap == used.failures + used.restarts < MaxMishaps

(* What becomes of a transaction or a statement.                           *)
Fates(t) ==
    IF th[t].gone THEN {"gone"}
    ELSE {"ok"} \cup (IF Mishap THEN {"error", "gone"} ELSE {})
Spend(t, fate) ==
    used' = IF fate = "ok" \/ th[t].gone THEN used ELSE [used EXCEPT !.failures = @ + 1]

(* An error that is logged or dropped: the request goes on as r.           *)
GoesOnAfter(t, fate, r) ==
    /\ Become(t, [r EXCEPT !.gone = (fate = "gone")])
    /\ Notes(t, [Entry(t) EXCEPT !.failed = @ \/ fate # "ok"])
AnsweredAfter(t, fate, answer) ==
    /\ Become(t, Idle)
    /\ Notes(t, [Entry(t) EXCEPT !.answer = answer, !.failed = @ \/ fate # "ok"])

Active == { th[t].req : t \in { u \in Thread : th[u].pc # "idle" } }
NewRequest == used.requests + 1

(* A request of the set Requests: it comes with the session of a person,   *)
(* or with the name and the password that the person's row has.            *)
Issue(t, q, label, name, password) ==
    /\ th[t].pc = "idle"
    /\ used.requests < MaxRequests
    /\ used' = [used EXCEPT !.requests = NewRequest]
    /\ Become(t, [Idle EXCEPT !.pc = label, !.kind = q.kind, !.req = NewRequest, !.me = q.me,
                              !.method = q.method, !.name = name, !.password = password,
                              !.target = q.target, !.form = q.form])
    /\ log' = [log EXCEPT ![NewRequest] =
                  [Request EXCEPT !.kind = q.kind, !.me = q.me, !.target = q.target,
                                  !.form = q.form, !.beside = Active]]
    /\ UNCHANGED <<tables, admins, err, orphans>>

IssueSession(t) ==
    \E q \in Requests : q.kind # "basic" /\ Issue(t, q, "find", 0, 0)

IssueBasic(t) ==
    \E q \in Requests, i \in Id :
        /\ q.kind = "basic" /\ users[i].person = q.me /\ users[i].password # 0
        /\ Issue(t, q, "basic", users[i].name, users[i].password)

-----------------------------------------------------------------------------
(* Authentication                                                          *)
-----------------------------------------------------------------------------
Loaded(i) == [id |-> i, name |-> users[i].name, profile |-> users[i].profile,
              admin |-> users[i].admin, groups |-> Groups(i)]

(* The closure of NewOnAuthenticatedFromConfig, when its call of           *)
(* findOrCreateUserFromOAuth2 returns an error: the variable is shared.    *)
LoginFails(t, fate) ==
    /\ err' = TRUE
    /\ GoesOnAfter(t, fate, [th[t] EXCEPT !.pc = "check", !.user = NoUser])

Finds(t, fate, i) ==
    /\ UNCHANGED <<tables, err>>
    /\ GoesOnAfter(t, fate, [th[t] EXCEPT !.pc = "profile", !.user = Loaded(i)])

Inserts(t, i) ==
    /\ IsNewId(i)
    /\ users' = [users EXCEPT ![i] = [NoRow EXCEPT !.person = th[t].me, !.born = th[t].req]]
    /\ UNCHANGED <<grants, err>>
Created(i) == [NoUser EXCEPT !.id = i]

\* Mutant of FindOrCreateUser: the provider is not asked for.
FindBySubject(t) ==
    /\ th[t].pc = "find"
    /\ \/ \E i \in Id : HasRow(i) /\ users[i].person[1] = th[t].me[1] /\ Finds(t, "ok", i)
       \/ /\ \A i \in Id : HasRow(i) => users[i].person[1] # th[t].me[1]
          /\ \E i \in Id : /\ Inserts(t, i)
                          /\ GoesOn(t, [th[t] EXCEPT !.pc = "profile", !.user = Created(i)])
    /\ UNCHANGED <<admins, used, orphans>>

\* Mutant of FindOrCreateUser: what the insertion returns is not bound.
CreateUnbound(t) ==
    /\ th[t].pc = "find"
    /\ \/ \E i \in Id : users[i].person = th[t].me /\ Finds(t, "ok", i)
       \/ /\ \A i \in Id : users[i].person # th[t].me
          /\ \E i \in Id : Inserts(t, i) /\ GoesOn(t, [th[t] EXCEPT !.pc = "profile"])
    /\ UNCHANGED <<admins, used, orphans>>

FindOrCreateUser(t) ==
    /\ th[t].pc = "find"
    /\ \E fate \in Fates(t) :
        /\ \/ fate # "ok" /\ UNCHANGED tables /\ LoginFails(t, fate)
           \/ /\ fate = "ok"
              /\ \E i \in Id : users[i].person = th[t].me /\ Finds(t, fate, i)
           \/ /\ fate = "ok"
              /\ \A i \in Id : users[i].person # th[t].me
              /\ \E i \in Id : /\ Inserts(t, i)
                              /\ GoesOn(t, [th[t] EXCEPT !.pc = "profile", !.user = Created(i)])
        /\ Spend(t, fate)
    /\ UNCHANGED <<admins, orphans>>

(* The user as findOrCreateUserFromOAuth2 completes it: it keeps the name  *)
(* the row had when it was read.                                           *)
\* Mutant of Completed: administrators are only ever added.
CompletedGrants(t) ==
    [th[t].user EXCEPT !.name = IF @ = 0 THEN th[t].req ELSE @,
                       !.profile = th[t].me, !.admin = @ \/ th[t].me \in admins]
\* Mutant of Completed: a name is drawn on every login.
CompletedAnew(t) ==
    [th[t].user EXCEPT !.name = th[t].req, !.profile = th[t].me, !.admin = th[t].me \in admins]
Completed(t) ==
    [th[t].user EXCEPT !.name = IF @ = 0 THEN th[t].req ELSE @,
                       !.profile = th[t].me, !.admin = th[t].me \in admins]

(* UPDATE users ... WHERE id = ?, without a word if there is no such row.  *)
UpdateRow(i, row) == users' = IF HasRow(i) THEN [users EXCEPT ![i] = row] ELSE users

UpdateProfile(t) ==
    LET user == Completed(t)
    IN  /\ th[t].pc = "profile"
        /\ \E fate \in Fates(t) :
            /\ \/ fate # "ok" /\ LoginFails(t, fate) /\ UNCHANGED users
               \/ /\ fate = "ok"
                  /\ err' = FALSE
                  /\ GoesOn(t, [th[t] EXCEPT !.pc = "check", !.user = user])
                  /\ \/ user = th[t].user /\ UNCHANGED users
                     \/ /\ user # th[t].user
                        /\ UpdateRow(user.id, [users[user.id] EXCEPT
                               !.name = user.name, !.profile = user.profile, !.admin = user.admin])
            /\ Spend(t, fate)
        /\ UNCHANGED <<grants, admins, orphans>>

(* The guard of the administration's handlers.                             *)
Administers(user) == user.admin

Serve(t, r) ==
    \/ r.kind \in {"dav", "basic", "page"} /\ GoesOn(t, [r EXCEPT !.pc = "calls"])
    \/ r.kind = "regenerate" /\ GoesOn(t, [r EXCEPT !.pc = "regenerate"])
    \/ r.kind \in {"update", "delete"} /\ Administers(r.user) /\ GoesOn(t, [r EXCEPT !.pc = "look"])
    \/ r.kind \in {"update", "delete"} /\ ~Administers(r.user) /\ Answered(t, "forbidden")

(* If the user was last seen more than a minute ago, the row is told, and  *)
(* the shared variable looked at, again.                                   *)
ConnectsOrServes(t, r) ==
    \/ GoesOn(t, [r EXCEPT !.pc = "connect"])
    \/ Serve(t, r)

(* The error may be another request's by now.  Without an error and        *)
(* without a user the closure panics, and the request is dropped.          *)
CheckLogin(t) ==
    /\ th[t].pc = "check"
    /\ \/ err /\ Answered(t, "error")
       \/ ~err /\ th[t].user = NoUser /\ Answered(t, "dropped")
       \/ ~err /\ th[t].user # NoUser /\ ConnectsOrServes(t, th[t])
    /\ UNCHANGED <<tables, admins, err, used, orphans>>

Connect(t) ==
    /\ th[t].pc = "connect"
    /\ \/ err /\ Answered(t, "error")
       \/ ~err /\ Serve(t, th[t])
    /\ UNCHANGED <<tables, admins, err, used, orphans>>

(* Store.Authenticate, for a request without a session.                    *)
Authenticate(t) ==
    LET known == { i \in Id : HasRow(i) /\ users[i].name = th[t].name
                                        /\ users[i].password = th[t].password }
    IN  /\ th[t].pc = "basic"
        /\ \E fate \in Fates(t) :
            /\ \/ (fate # "ok" \/ known = {}) /\ AnsweredAfter(t, fate, "unauthorized")
               \/ /\ fate = "ok"
                  /\ \E i \in known : ConnectsOrServes(t, [th[t] EXCEPT !.user = Loaded(i)])
            /\ Spend(t, fate)
        /\ UNCHANGED <<tables, admins, err, orphans>>

-----------------------------------------------------------------------------
(* What is served                                                          *)
-----------------------------------------------------------------------------
\* Mutant of Rights: the user is loaded again for each call.
RightsNow(t) ==
    IF HasRow(th[t].user.id) THEN Loaded(th[t].user.id) ELSE NoUser
Rights(t) == th[t].user

(* A call on the file system, which answers it or says there is nothing.   *)
MayBeLeftOut(t) == th[t].method \in {"MOVE", "COPY"} /\ Calls[th[t].method][th[t].at].op = "remove"

CallsDone(t, r) ==
    \/ /\ r.at < Len(Calls[r.method])
       /\ GoesOn(t, [r EXCEPT !.at = @ + 1])
    \/ /\ r.at = Len(Calls[r.method])
       /\ Become(t, Idle)
       /\ Notes(t, [Entry(t) EXCEPT !.answer = "ok", !.touched = r.touched,
                                    !.name = IF r.kind = "page" THEN r.user.name ELSE 0])

CallFileSystem(t) ==
    LET r == th[t]
        call == Calls[r.method][r.at]
    IN  /\ r.pc = "calls"
        /\ \/ Allowed(Rights(t), call) /\ CallsDone(t, [r EXCEPT !.touched = @ \/ Changes(call)])
           \/ ~Allowed(Rights(t), call) /\ Answered(t, "denied")
           \/ MayBeLeftOut(t) /\ CallsDone(t, r)
        /\ UNCHANGED <<tables, admins, err, used, orphans>>

RegenerateBasicPassword(t) ==
    LET i == th[t].user.id
    IN  /\ th[t].pc = "regenerate"
        /\ \E fate \in Fates(t) :
            /\ IF fate = "ok" THEN UpdateRow(i, [users[i] EXCEPT !.password = th[t].req])
               ELSE UNCHANGED users
            /\ AnsweredAfter(t, fate, IF fate = "ok" THEN "ok" ELSE "error")
            /\ Spend(t, fate)
        /\ UNCHANGED <<grants, admins, err, orphans>>

-----------------------------------------------------------------------------
(* Administration                                                          *)
-----------------------------------------------------------------------------
(* There is such a user, and nobody deletes himself.                       *)
MayBeAdministered(r) == HasRow(r.target) /\ (r.kind = "delete" => r.target # r.user.id)

(* GetUsers, first its rows and then their groups.                         *)
LookUp(t) ==
    LET r == th[t]
        next == IF r.kind = "update" THEN "groups" ELSE "remove"
    IN  /\ r.pc = "look"
        /\ \E fate \in Fates(t) :
            /\ IF fate = "ok" /\ MayBeAdministered(r)
               THEN GoesOn(t, [r EXCEPT !.pc = next])
               ELSE AnsweredAfter(t, fate, "error")
            /\ Spend(t, fate)
        /\ UNCHANGED <<tables, admins, err, orphans>>

LookUpGroups(t) ==
    /\ th[t].pc = "groups"
    /\ \E fate \in Fates(t) :
        /\ IF fate = "ok" THEN GoesOn(t, [th[t] EXCEPT !.pc = "rewrite", !.found = grants[th[t].target]])
           ELSE AnsweredAfter(t, fate, "error")
        /\ Spend(t, fate)
    /\ UNCHANGED <<tables, admins, err, orphans>>

(* UpdateUser writes the groups back.  For a user that is gone it fails on *)
(* the foreign key, or panics on the row that was not returned.            *)
UpdateUser(t) ==
    LET r == th[t]
    IN  /\ r.pc = "rewrite"
        /\ \E fate \in Fates(t) :
            /\ IF fate = "ok" /\ HasRow(r.target)
               THEN /\ grants' = [grants EXCEPT ![r.target] = r.found]
                    /\ GoesOn(t, [r EXCEPT !.pc = "clear"])
               ELSE UNCHANGED grants /\ AnsweredAfter(t, fate, "error")
            /\ Spend(t, fate)
        /\ UNCHANGED <<users, admins, err, orphans>>

AfterInsertion(t, fate, r) ==
    IF r.form = {} THEN AnsweredAfter(t, fate, "ok")
    ELSE GoesOnAfter(t, fate, [r EXCEPT !.pc = "insert"])

\* Mutant of DeleteGroups: what UpdateUser wrote is left there.
DeleteNoGroups(t) ==
    /\ th[t].pc = "clear"
    /\ AfterInsertion(t, "ok", th[t])
    /\ UNCHANGED <<tables, admins, err, used, orphans>>

DeleteGroups(t) ==
    /\ th[t].pc = "clear"
    /\ \E fate \in Fates(t) :
        /\ grants' = IF fate = "ok" THEN [grants EXCEPT ![th[t].target] = NoGroups] ELSE grants
        /\ AfterInsertion(t, fate, th[t])
        /\ Spend(t, fate)
    /\ UNCHANGED <<users, admins, err, orphans>>

(* For a user that is gone the foreign key fails, which is logged.         *)
InsertGroup(t) ==
    LET i == th[t].target
    IN  /\ th[t].pc = "insert"
        /\ \E g \in th[t].form, fate \in Fates(t) :
            /\ grants' = IF fate = "ok" /\ HasRow(i) THEN [grants EXCEPT ![i][g] = @ + 1] ELSE grants
            /\ AfterInsertion(t, fate, [th[t] EXCEPT !.form = @ \ {g}])
            /\ Spend(t, fate)
        /\ UNCHANGED <<users, admins, err, orphans>>

(* The rows of users_groups go with the user's.                            *)
\* Mutant of Cascade: PRAGMA foreign_keys is off.
NoCascade(i) == grants
Cascade(i) == [grants EXCEPT ![i] = NoGroups]

DeleteUsers(t) ==
    LET i == th[t].target
    IN  /\ th[t].pc = "remove"
        /\ \E fate \in Fates(t) :
            /\ IF fate = "ok"
               THEN /\ users' = [users EXCEPT ![i] = NoRow]
                    /\ grants' = Cascade(i)
                    /\ orphans' = orphans \cup { th[u].req : u \in { u \in Thread : th[u].user.id = i } }
                    /\ AnsweredAfter(t, fate, "ok")
               ELSE UNCHANGED <<tables, orphans>> /\ AnsweredAfter(t, fate, "error")
            /\ Spend(t, fate)
        /\ UNCHANGED <<admins, err>>

-----------------------------------------------------------------------------
(* The process dies and is started again, with the same tables and perhaps *)
(* another configuration.                                                  *)
Restart ==
    /\ Mishap
    /\ used' = [used EXCEPT !.restarts = @ + 1]
    /\ admins' \in Conf
    /\ err' = FALSE
    /\ th' = [t \in Thread |-> Idle]
    /\ UNCHANGED <<tables, orphans, log>>

BudgetSpent ==
    /\ used.requests = MaxRequests /\ \A t \in Thread : th[t].pc = "idle"
    /\ UNCHANGED vars

-----------------------------------------------------------------------------
InitialRow(i) ==
    LET p == InitialRows[i]
        number == MaxRequests + i
    IN  [person |-> p, profile |-> p, name |-> number, password |-> number,
         admin |-> p \in admins, born |-> 0]

Init ==
    /\ admins \in Conf
    /\ users = [i \in Id |-> IF i \in DOMAIN InitialRows THEN InitialRow(i) ELSE NoRow]
    /\ grants = [i \in Id |-> [g \in Group |->
                    IF i \in DOMAIN InitialRows /\ g \in InitialGroups[i] THEN 1 ELSE 0]]
    /\ err = FALSE
    /\ th = [t \in Thread |-> Idle]
    /\ used = [requests |-> 0, failures |-> 0, restarts |-> 0]
    /\ orphans = {}
    /\ log = [r \in 1 .. MaxRequests |-> Request]

Login(t) ==
    \/ FindOrCreateUser(t) \/ UpdateProfile(t) \/ CheckLogin(t) \/ Connect(t) \/ Authenticate(t)
Administer(t) ==
    \/ LookUp(t) \/ LookUpGroups(t) \/ UpdateUser(t) \/ DeleteGroups(t) \/ InsertGroup(t)
    \/ DeleteUsers(t)
Next ==
    \/ \E t \in Thread :
          IssueSession(t) \/ IssueBasic(t) \/ Login(t) \/ CallFileSystem(t) \/ RegenerateBasicPassword(t) \/ Administer(t)
    \/ Restart
    \/ BudgetSpent

Spec == Init /\ [][Next]_vars

-----------------------------------------------------------------------------
Loading(t) == th[t].pc \in {"idle", "find", "check", "basic"}

TypeOK ==
    /\ users \in [Id -> Row]
    /\ grants \in [Id -> [Group -> Nat]]
    /\ admins \subseteq Person
    /\ err \in BOOLEAN
    /\ th \in [Thread -> Local]
    /\ \A t \in Thread : Loading(t) \/ th[t].user.id \in Id
    /\ used \in [requests : 0 .. MaxRequests, failures : Nat, restarts : Nat]
    /\ orphans \subseteq 0 .. MaxRequests
    /\ log \in [1 .. MaxRequests -> Logged]

(* Requests that were at work at the same time.                            *)
Overlap(r, q) == r > 0 /\ q > 0 /\ (r \in log[q].beside \/ q \in log[r].beside)

(* A request that is refused for want of permission, at whichever of its   *)
(* calls, has changed no file before: the rights are those of one moment,  *)
(* and whoever may make one change may make all of them, though an         *)
(* administrator takes the groups away meanwhile (authz/filesystem.go:     *)
(* 91-134; authz/context.go:15-17; store/user.go:80-102; group.go:28-34).  *)
DeniedChangesNothing ==
    \A r \in 1 .. MaxRequests : log[r].answer = "denied" => ~log[r].touched

(* The name that a page shows for WebDAV clients is the name of the user's *)
(* row for as long as the row lives, whoever logs in, is administered or   *)
(* deleted meanwhile.  Two cases are left out: another request of the same *)
(* user at the same time, since two first logins both draw a name, and one *)
(* at the same time whose own row was deleted under it, since its id may   *)
(* be another user's by then (on_authenticated.go:62-123;                  *)
(* store/user.go:116-170; explorer/index.go:101-137).                      *)
ShownNamesWork ==
    \A r \in 1 .. MaxRequests, i \in Id :
        /\ log[r].kind = "page" /\ log[r].answer = "ok"
        /\ users[i].person = log[r].me /\ users[i].born <= r
        /\ ~ \E q \in 1 .. MaxRequests :
                Overlap(q, r) /\ (log[q].me = log[r].me \/ q \in orphans)
        => users[i].name = log[r].name

(* Whoever administers is an administrator by the configuration in force,  *)
(* however the row was left by an earlier configuration, by concurrent     *)
(* logins or by a statement that failed (on_authenticated.go:86-108;       *)
(* admin/user.go:126-140, :276-290).                                       *)
AdministratorsAreConfigured ==
    \A t \in Thread :
        th[t].pc \in {"look", "groups", "rewrite", "clear", "insert", "remove"} =>
            th[t].me \in admins

(* What a request writes to a row that is there, it writes to the row of   *)
(* its own user, unless that was deleted while the request was at work     *)
(* (on_authenticated.go:101-108; basic.go:16-40; store/user.go:116-170).   *)
WritesReachTheirUser ==
    [][\A t \in Thread, i \in Id :
          /\ th[t].pc \in {"profile", "regenerate"} /\ th'[t] # th[t]
          /\ users'[i] # users[i]
          => users[i].person = th[t].me \/ th[t].req \in orphans]_vars

(* The groups that an administrator set are the user's, each once, if none *)
(* of the request's statements failed, until another request sets them, or *)
(* did so at the same time; the groups read before are gone, whatever      *)
(* UpdateUser wrote back.  A form is a set: the page has one checkbox for  *)
(* each group, though the handler would insert a repeated one twice        *)
(* (admin/user.go:151-206; store/user.go:235-299).                         *)
GroupsAreAsSet ==
    \A r \in 1 .. MaxRequests :
        LET i == log[r].target
        IN  /\ log[r].kind = "update" /\ log[r].answer = "ok" /\ ~log[r].failed
            /\ HasRow(i) /\ users[i].born < r /\ ~Overlap(r, users[i].born)
            /\ ~ \E q \in 1 .. MaxRequests :
                    /\ log[q].kind = "update" /\ log[q].target = i
                    /\ q > r \/ Overlap(q, r)
            => grants[i] = [g \in Group |-> IF g \in log[r].form THEN 1 ELSE 0]

(* Nobody has groups by being given the id of a user that was deleted:     *)
(* those of a new row were set by a request of its lifetime, or one at     *)
(* work when it began (store/user.go:301-323; group.go:17-23;              *)
(* store.go:68-74).                                                        *)
GroupsAreGiven ==
    \A i \in Id : Groups(i) # {} =>
        /\ HasRow(i)
        /\ users[i].born = 0 \/ \E r \in 1 .. MaxRequests :
               /\ log[r].kind = "update" /\ log[r].target = i
               /\ r >= users[i].born \/ Overlap(r, users[i].born)
=============================================================================
