----------------------------- MODULE MCAccounts -----------------------------
(* Instances of Accounts for TLC.                                          *)
EXTENDS Accounts, TLC

\* Two persons have the same subject with two providers.  One is to become
\* an administrator, and has no row yet.
Root == <<"1", "google">>
Ann == <<"2", "google">>
Bob == <<"2", "github">>
Persons == {Root, Ann, Bob}
Configurations == { {Root}, {Root, Bob} }
FirstRows == <<Root, Ann>>
FirstGroups == << {}, {"read-write"} >>

Asks(kind, me) == [kind |-> kind, me |-> me, method |-> "GET", target |-> 1, form |-> {}]
Admins(kind, me, target, form) ==
    [kind |-> kind, me |-> me, method |-> "GET", target |-> target, form |-> form]
Traffic == {
    Asks("page", Bob), Asks("regenerate", Ann),
    [Asks("dav", Ann) EXCEPT !.method = "COPY"], [Asks("basic", Ann) EXCEPT !.method = "MOVE"],
    Admins("update", Root, 2, {"read-only"}), Admins("update", Bob, 2, {"read-write"}),
    Admins("delete", Root, 2, {}) }

Goroutines == Permutations(Thread)
=============================================================================
