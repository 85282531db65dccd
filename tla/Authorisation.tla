--------------------------- MODULE Authorisation ---------------------------
(***************************************************************************)
(* internal/authz: what a user may do to the file system.  Every call of   *)
(* webdav.FileSystem is put to the rules of the user and allowed as soon   *)
(* as one of them allows it.  A rule is a script over the operation and,   *)
(* for OpenFile, its flag: the set of its bits.  The rules are those that  *)
(* the store makes on every start and "true" for an administrator; none of *)
(* them fails.                                                             *)
(***************************************************************************)
EXTENDS Integers, Sequences, FiniteSets

Operation == {"mkdir", "open", "remove", "rename", "stat"}
Bit == {"WRONLY", "RDWR", "APPEND", "TRUNC", "CREATE", "EXCL", "SYNC"}
O_WRITE == {"WRONLY", "APPEND", "RDWR", "TRUNC", "CREATE"}
Invocation == [op : Operation, flag : SUBSET Bit]

Group == {"read-only", "read-write"}
GroupRules == [g \in Group |->
    IF g = "read-only" THEN {"open without O_WRITE", "stat"} ELSE {"true"}]

(* Rule.Exec.                                                              *)
Exec(script, call) ==
    CASE script = "open without O_WRITE" -> call.op = "open" /\ call.flag \cap O_WRITE = {}
      [] script = "stat" -> call.op = "stat"
      [] script = "true" -> TRUE

FileSystemRules(user) ==
    (IF user.admin THEN {"true"} ELSE {}) \cup UNION { GroupRules[g] : g \in user.groups }

(* assertAuthorization.                                                    *)
Allowed(user, call) == \E script \in FileSystemRules(user) : Exec(script, call)

(* What a call that is allowed may change.                                 *)
Changes(call) ==
    \/ call.op \in {"mkdir", "remove", "rename"}
    \/ call.op = "open" /\ call.flag \cap {"CREATE", "TRUNC"} # {}

-----------------------------------------------------------------------------
(* The calls that webdav.Handler makes for a method, and the explorer for  *)
(* a page (external); the destination of MOVE and COPY is removed only if  *)
(* it exists.                                                              *)
Opens(flag) == [op |-> "open", flag |-> flag]
Does(op) == [op |-> op, flag |-> {}]
Creates == Opens({"RDWR", "CREATE", "TRUNC"})

Method == {"GET", "PUT", "MKCOL", "DELETE", "MOVE", "COPY", "PROPFIND"}
Calls == [
    GET      |-> <<Opens({})>>,
    PUT      |-> <<Creates>>,
    MKCOL    |-> <<Does("mkdir")>>,
    DELETE   |-> <<Does("stat"), Does("remove")>>,
    MOVE     |-> <<Does("stat"), Does("remove"), Does("rename")>>,
    COPY     |-> <<Opens({}), Does("stat"), Does("remove"), Creates>>,
    PROPFIND |-> <<Does("stat"), Opens({})>> ]
=============================================================================
