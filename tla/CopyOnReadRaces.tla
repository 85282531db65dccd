-------------------------- MODULE CopyOnReadRaces --------------------------
(***************************************************************************)
(* CopyOnRead with a history variable, `disturbed', set by the first step  *)
(* after which nothing is promised of the cache: a step that races with    *)
(* another goroutine on related paths, one of the two writing; a call that *)
(* the backend carries out in part and reports as failed; a change the     *)
(* cache refuses and whose refusal the code drops; a copy cut short; a     *)
(* restart between the two halves of a change or of a copy.  It constrains *)
(* nothing.                                                                *)
(***************************************************************************)
EXTENDS CopyOnRead

VARIABLE disturbed

racesVars == <<vars, disturbed>>

-----------------------------------------------------------------------------
(* What a goroutine is in the middle of, and what its next step may do.    *)
Reading == {"parents", "mkparents", "copyopen", "copyread", "copywrite", "reopen", "serve"}
Writing == {"createcache", "write", "writecache", "mkdircache", "removecache", "renamecache"}
Working == Reading \cup Writing

(* The backend has its half of a change, or the cache a file still empty,  *)
(* and the other half is to come.                                          *)
HalfWay == {"copyread", "copywrite", "createcache", "writecache", "removecache", "renamecache"}

Reads(x) == proc[x].pc \in Reading \cup {"stat", "statbackend", "open", "fetch"}
Writes(x) == proc[x].pc \in Writing \cup {"create", "mkdir", "remove", "rename"}

PathsOf(x) == {proc[x].name.at} \cup (IF proc[x].method = "MOVE" THEN {proc[x].to.at} ELSE {})
RelatedPaths(p, q) == p = q \/ IsUnder(p, q) \/ IsUnder(q, p)
Related(x, y) == \E p \in PathsOf(x), q \in PathsOf(y) : RelatedPaths(p, q)

(* A step of x falls in the middle of what y is doing.                     *)
Race(x) ==
    \E y \in Proc \ {x} :
        /\ \/ Writes(x) /\ proc[y].pc \in Working
           \/ Reads(x) /\ proc[y].pc \in Writing
        /\ Related(x, y)

(* The cache keeps what a request removed, moved or rewrote.  A MOVE is    *)
(* such a case without any fault: into a directory the cache has never     *)
(* seen, or of a file it lacks onto one it has.                            *)
Refused(x) ==
    \/ proc[x].pc = "removecache" /\ Exists(node'["cache"], Subject(x).at)
    \/ /\ proc[x].pc = "renamecache"
       /\ \/ Exists(node'["cache"], PathOf(x))
          \/ ~Exists(node["cache"], PathOf(x)) /\ Exists(node["cache"], proc[x].to.at)
    \/ proc[x].pc = "createcache" /\ proc'[x].pc = "idle" /\ Exists(node["cache"], PathOf(x))
    \/ proc[x].pc = "writecache" /\ data'["cache"][proc[x].fd] # proc[x].buf

(* The code takes a backend that answers with an error for one that has    *)
(* changed nothing.                                                        *)
HalfDone(x) ==
    \/ proc[x].pc = "write" /\ proc'[x].pc = "closing" /\ data'["backend"] # data["backend"]
    \/ proc[x].pc = "remove" /\ proc'[x].pc = "idle" /\ node'["backend"] # node["backend"]

CutShort(x) ==
    \/ proc[x].pc = "copyread" /\ proc'[x].pc # "copywrite"
    \/ proc[x].pc = "copywrite" /\ data'["cache"][proc[x].fd] # proc[x].buf

RacesInit == Init /\ disturbed = FALSE

(* A behaviour is followed up to its first disturbance.                    *)
RacesNext ==
    \/ /\ ~disturbed
       /\ \/ \E x \in Proc : Step(x) /\ disturbed' = (Race(x) \/ HalfDone(x) \/ Refused(x) \/ CutShort(x))
          \/ \E x \in Thread : Request(x) /\ UNCHANGED disturbed
          \/ /\ Restart
             /\ disturbed' = \E x \in Proc : proc[x].pc \in HalfWay
          \/ BudgetSpent /\ UNCHANGED disturbed
    \/ disturbed /\ UNCHANGED racesVars

RacesSpec == RacesInit /\ [][RacesNext]_racesVars

-----------------------------------------------------------------------------
(* As long as nothing has disturbed it, the cache holds nothing but what   *)
(* the backend holds, wherever no request is at work: every copy is        *)
(* current, nothing removed or renamed is left behind, whatever the        *)
(* backend refuses without doing part of it, and wherever else the process *)
(* is restarted (filesystem.go:26-40, :145-180, :228-258, :367-382).       *)
CachedIsCurrent ==
    ~disturbed => \A p \in Path :
        \/ ~Exists(node["cache"], p)
        \/ \E x \in Proc : /\ proc[x].pc \in Working
                           /\ \E q \in PathsOf(x) : RelatedPaths(p, q)
        \/ IsDir(node["cache"], p) /\ IsDir(node["backend"], p)
        \/ /\ IsFile(node["cache"], p) /\ IsFile(node["backend"], p)
           /\ data["cache"][node["cache"][p]] = data["backend"][node["backend"][p]]

(* As long as nothing has disturbed the cache, a GET sends what the file   *)
(* holds unless somebody else is copying the same file at that moment      *)
(* (filesystem.go:72-143, :228-258).                                       *)
UndisturbedReadsAreTrue ==
    ~disturbed => \A x \in Thread :
        /\ proc[x].pc = "serve" /\ proc[x].method = "GET" /\ ~proc[x].dir
        /\ \A y \in Proc \ {x} :
              ~(proc[y].pc \in {"copyread", "copywrite"} /\ PathOf(y) = PathOf(x))
        => /\ IsFile(node["backend"], PathOf(x))
           /\ Served(x) = data["backend"][node["backend"][PathOf(x)]]
=============================================================================
