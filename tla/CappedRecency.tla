--------------------------- MODULE CappedRecency ---------------------------
(***************************************************************************)
(* Capped with two histories, which constrain nothing.  What clients       *)
(* accessed, kept apart from the lastAccess stamps of the code: `recency'  *)
(* holds <<p, q>> when both paths have been accessed and p not after q; it *)
(* is updated when a request is over or, for the Stat that opens DELETE    *)
(* and MOVE, when that call is.  And `refused', the victims the backend    *)
(* has refused to remove in the pass at hand.  Used with a single thread.  *)
(***************************************************************************)
EXTENDS Capped

VARIABLES recency, refused

historyVars == <<vars, recency, refused>>

Seen == { p \in Path : <<p, p>> \in recency }
Accessed(p) == { e \in recency : p \notin {e[1], e[2]} } \cup ((Seen \cup {p}) \X {p})

(* What a rename does to the history: names move with their files.         *)
HistoryRenamed(src, dst) ==
    LET In(p, d) == p = d \/ IsUnder(p, d)
        Now(p) == IF In(p, src) THEN Rebase(p, src, dst) ELSE p
    IN  { <<Now(e[1]), Now(e[2])>> :
             e \in { x \in recency : ~In(x[1], dst) /\ ~In(x[2], dst) } }

Recorded(t) ==
    CASE th[t].pc = "closing" -> Accessed(th[t].name.at)
      [] th[t].pc = "observe" -> Accessed(Subject(t).at)
      [] th[t].pc = "retarget" -> HistoryRenamed(th[t].name.at, th[t].to.at)
      [] OTHER -> recency

(* A pass begins with nothing refused.                                     *)
Refusals(t) ==
    IF th[t].pc = "unlink" /\ th'[t].pc # "untrack" THEN refused \cup {th[t].prey.name}
    ELSE IF th'[t].pc \in {"evict", "unlink", "untrack", "verdict"} THEN refused ELSE {}

HistoryInit == Init /\ recency = {} /\ refused = {}

HistoryNext ==
    \/ \E t \in Thread : /\ Request(t) \/ Step(t)
                         /\ recency' = Recorded(t) /\ refused' = Refusals(t)
    \/ (Restart \/ BudgetSpent) /\ UNCHANGED <<recency, refused>>

HistorySpec ==
    /\ HistoryInit /\ [][HistoryNext]_historyVars
    /\ \A t \in Thread : WF_vars(Step(t))

(* A pass that could not make room has tried every file: with one client,  *)
(* whichever removals the backend refuses, it goes on with the others, and *)
(* what is left when the request fails is what was refused                 *)
(* (filesystem.go:448-497).                                                *)
EveryVictimIsTried ==
    \A t \in Thread : th[t].pc = "verdict" /\ ~Fits(th[t].need) => Candidates \subseteq refused

AccessedBefore(p, q) == p # q /\ <<p, q>> \in recency

(* Eviction takes the least recently accessed file: every other non-empty  *)
(* file that stays on disk was accessed after the victim, as seen by the   *)
(* client and not by the stamps (filesystem.go:17-19, :441, and the five   *)
(* places that stamp).  The file being written is left out on both sides:  *)
(* its access is not over yet, and so is a pass in which the backend has   *)
(* refused to remove an older file.                                        *)
EvictsLeastRecentlyAccessed ==
    [][\A t \in Thread :
          LET own == th[t].name.at
              victim == th[t].prey.name.at
          IN  th[t].pc = "unlink" /\ th'[t].pc = "untrack" /\ victim # own /\ ~th[t].failed
              => \A p \in Path \ {own, victim} :
                    IsFile(node, p) /\ StatSize(p) > 0 => AccessedBefore(victim, p)
      ]_historyVars
=============================================================================
