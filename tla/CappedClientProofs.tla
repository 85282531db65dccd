------------------------- MODULE CappedClientProofs -------------------------
(***************************************************************************)
(* What clients can rely on: theorems about CappedRecency and Capped that  *)
(* rest on what each method of the handler names and holds while it runs.  *)
(* The inductive invariants of CappedProofs are used throughout.           *)
(*                                                                         *)
(* FilesStayRecorded: with concurrent requests on the files of one         *)
(* directory, no file is missing from the ledger.  NInv says who still     *)
(* owes the entry of a file the ledger does not have yet.                  *)
(*                                                                         *)
(* DiskIsRecorded: between requests of a sole client, the ledger says of   *)
(* every file on disk what is true.  DInv says at each step what the       *)
(* client's goroutine has still to record.                                 *)
(*                                                                         *)
(* EvictionIsByAccess: what a sole client's uploads push out is what it    *)
(* has left alone longest.  Ordered says how far the stamps, and a pass's  *)
(* snapshot of them, go by the order of the client's own accesses.         *)
(*                                                                         *)
(* EveryFileIsTried: a pass that cannot make room has tried every file.    *)
(***************************************************************************)
EXTENDS CappedRecency, CappedProofs, TreesProofs

-----------------------------------------------------------------------------
(* What a goroutine serves                                                 *)
-----------------------------------------------------------------------------
(* Where a goroutine stands says which method it serves; what a writing    *)
(* method names, it names as the handler does.                             *)
Serves(r) ==
    /\ r.pc = "idle" <=> r.method = "none"
    /\ r.method \in Writers => r.name.form = "rel"
    /\ IF r.method = "MOVE" THEN r.to.form = "rel" /\ Movable(r.name.at, r.to.at)
       ELSE r.to = NoName
    /\ r.pc \in {"create", "put", "write"} => r.method = "PUT"
    /\ r.pc \in Evicting /\ r.ret \in {"create", "write"} => r.method = "PUT"
    /\ r.pc = "open" => r.method = "GET"
    /\ r.pc = "closing" => r.method \in {"GET", "PUT"}
    /\ r.pc = "observe" => r.method \in {"PROPFIND", "DELETE", "MOVE"}
    /\ r.pc \in {"remove", "forget"} => r.method \in {"DELETE", "MOVE"}
    /\ r.pc \in {"rename", "retarget"} => r.method = "MOVE"
    /\ r.pc = "track" => r.method = "MKCOL"

(* A goroutine goes on with its request, or is done with it.               *)
Continues(r, s) ==
    \/ s = Idle
    \/ s.method = r.method /\ s.name = r.name /\ s.to = r.to

LEMMA IdleServes == Serves(Idle)
BY DEF Serves, Idle, Writers, Evicting

LEMMA ScanStepServes ==
  ASSUME IInv, NEW t \in Thread, ScanStep(t), Serves(th[t])
  PROVE  Serves(th'[t]) /\ Continues(th[t], th'[t])
<1>1. th \in [Thread -> Local] /\ th[t] \in Local /\ ControlOK(th[t])
  BY IInvParts DEF IInv, TypeOK
<1> USE IdleServes DEF Become, Goto, Finish, Continues
<1>2. CASE StartScan(t)
  BY <1>1, <1>2 DEF StartScan, Serves, Local, Evicting, Writers
<1>3. CASE ScanList(t)
  BY <1>1, <1>3 DEF ScanList, Serves, Local, Evicting, Writers
<1>4. CASE ScanFails(t)
  BY <1>1, <1>4 DEF ScanFails, Serves, Local, Evicting, Writers
<1>5. CASE ScanEntry(t)
  <2>1. \E s : th'[t] = [th[t] EXCEPT !.scan = s]
    BY <1>1, <1>5 DEF ScanEntry
  <2> QED BY <1>1, <1>5, <2>1 DEF ScanEntry, Serves, Local, Evicting, Writers
<1>6. CASE ScanSpace(t)
  BY <1>1, <1>6 DEF ScanSpace, EnsureSpace, Serves, Local, Evicting, Writers
<1> QED BY <1>2, <1>3, <1>4, <1>5, <1>6 DEF ScanStep

LEMMA EvictionStepServes ==
  ASSUME IInv, NEW t \in Thread, EvictionStep(t), Serves(th[t])
  PROVE  Serves(th'[t]) /\ Continues(th[t], th'[t])
<1>1. th \in [Thread -> Local] /\ th[t] \in Local /\ ControlOK(th[t])
  BY IInvParts DEF IInv, TypeOK
<1> USE IdleServes DEF Become, Goto, Finish, Continues
<1>2. CASE SkipVictim(t)
  BY <1>1, <1>2 DEF SkipVictim, Drop, Serves, Local, Evicting, Writers
<1>3. CASE ChooseVictim(t)
  BY <1>1, <1>3 DEF ChooseVictim, Serves, Local, Evicting, Writers
<1>4. CASE UnlinkVictim(t)
  BY <1>1, <1>4 DEF UnlinkVictim, Serves, Local, Evicting, Writers
<1>5. CASE UnlinkFails(t)
  BY <1>1, <1>5 DEF UnlinkFails, Drop, Serves, Local, Evicting, Writers
<1>6. CASE UntrackVictim(t)
  BY <1>1, <1>6 DEF UntrackVictim, Drop, Serves, Local, Evicting, Writers
<1>7. CASE EndEviction(t)
  BY <1>1, <1>7 DEF EndEviction, Serves, Local, Evicting, Writers
<1>8. CASE SpaceFound(t)
  <2>1. th[t].ret \in {"create", "write", "scan", "begin"}
    BY <1>1, <1>8 DEF SpaceFound, ControlOK, Evicting
  <2> QED BY <1>1, <1>8, <2>1 DEF SpaceFound, Serves, Local, Evicting, Writers
<1>9. CASE NoSpace(t)
  <2>1. CASE th[t].ret = "write"
    <3>1. /\ th'[t].pc = "put" /\ th'[t].method = th[t].method
          /\ th'[t].name = th[t].name /\ th'[t].to = th[t].to
      <4> DEFINE r == [th[t] EXCEPT !.pc = "put", !.ok = FALSE, !.failed = FALSE]
      <4>1. th'[t] = r
        BY <1>1, <1>9, <2>1 DEF NoSpace
      <4>2. r.pc = "put" /\ r.method = th[t].method /\ r.name = th[t].name /\ r.to = th[t].to
        BY <1>1 DEF Local
      <4> QED BY <4>1, <4>2
    <3>2. th[t].method = "PUT"
      BY <1>9, <2>1 DEF NoSpace, Serves, Evicting
    <3> QED BY <3>1, <3>2 DEF Serves, Evicting, Writers
  <2>2. CASE th[t].ret # "write"
    BY <1>1, <1>9, <2>2 DEF NoSpace
  <2> QED BY <2>1, <2>2
<1> QED BY <1>2, <1>3, <1>4, <1>5, <1>6, <1>7, <1>8, <1>9 DEF EvictionStep

LEMMA PutStepServes ==
  ASSUME IInv, NEW t \in Thread, PutStep(t), Serves(th[t])
  PROVE  Serves(th'[t]) /\ Continues(th[t], th'[t])
<1>1. th \in [Thread -> Local] /\ th[t] \in Local /\ ControlOK(th[t])
  BY IInvParts DEF IInv, TypeOK
<1> USE IdleServes DEF Become, Goto, Finish, Continues
<1>2. CASE OpenForWriting(t)
  BY <1>1, <1>2 DEF OpenForWriting, EnsureSpace, Ready, Serves, Local, Evicting, Writers
<1>3. CASE Truncate(t)
  BY <1>1, <1>3 DEF Truncate, Serves, Local, Evicting, Writers
<1>4. CASE Create(t)
  BY <1>1, <1>4 DEF Create, Serves, Local, Evicting, Writers
<1>5. CASE CreateFails(t)
  BY <1>1, <1>5 DEF CreateFails, Serves, Local, Evicting, Writers
<1>6. CASE MakeRoom(t)
  BY <1>1, <1>6 DEF MakeRoom, EnsureSpace, Serves, Local, Evicting, Writers
<1>7. CASE Write(t)
  BY <1>1, <1>7 DEF Write, Serves, Local, Evicting, Writers
<1>8. CASE EndOfBody(t)
  BY <1>1, <1>8 DEF EndOfBody, Serves, Local, Evicting, Writers
<1> QED BY <1>2, <1>3, <1>4, <1>5, <1>6, <1>7, <1>8 DEF PutStep

LEMMA ReadStepServes ==
  ASSUME IInv, NEW t \in Thread, ReadStep(t), Serves(th[t])
  PROVE  Serves(th'[t]) /\ Continues(th[t], th'[t])
<1>1. th \in [Thread -> Local] /\ th[t] \in Local /\ ControlOK(th[t])
  BY IInvParts DEF IInv, TypeOK
<1> USE IdleServes DEF Become, Goto, Finish, Continues
<1>2. CASE OpenForReading(t)
  BY <1>1, <1>2 DEF OpenForReading, Ready, Serves, Local, Evicting, Writers
<1>3. CASE Serve(t)
  BY <1>1, <1>3 DEF Serve, Serves, Local, Evicting, Writers
<1>4. CASE OpenFails(t)
  BY <1>1, <1>4 DEF OpenFails, Serves, Local, Evicting, Writers
<1>5. CASE Close(t)
  BY <1>1, <1>5 DEF Close, Serves, Local, Evicting, Writers
<1>6. CASE StatBackend(t)
  BY <1>1, <1>6 DEF StatBackend, Ready, Serves, Local, Evicting, Writers
<1>7. CASE StatFails(t)
  BY <1>1, <1>7 DEF StatFails, Ready, Serves, Local, Evicting, Writers
<1>8. CASE DestinationFree(t)
  BY <1>1, <1>8 DEF DestinationFree, Ready, Serves, Local, Evicting, Writers
<1>9. CASE ObserveStat(t)
  <2>1. CASE th[t].method = "PROPFIND"
    BY <1>1, <1>9, <2>1 DEF ObserveStat
  <2>2. CASE th[t].method # "PROPFIND"
    BY <1>1, <1>9, <2>2 DEF ObserveStat, Serves, Local, Evicting, Writers
  <2> QED BY <2>1, <2>2
<1> QED BY <1>2, <1>3, <1>4, <1>5, <1>6, <1>7, <1>8, <1>9 DEF ReadStep

LEMMA TreeStepServes ==
  ASSUME IInv, NEW t \in Thread, TreeStep(t), Serves(th[t])
  PROVE  Serves(th'[t]) /\ Continues(th[t], th'[t])
<1>1. th \in [Thread -> Local] /\ th[t] \in Local /\ ControlOK(th[t])
  BY IInvParts DEF IInv, TypeOK
<1> USE IdleServes DEF Become, Goto, Finish, Continues
<1>2. CASE RemoveBackend(t)
  BY <1>1, <1>2 DEF RemoveBackend, Serves, Local, Evicting, Writers
<1>3. CASE RemoveFails(t)
  BY <1>1, <1>3 DEF RemoveFails, Serves, Local, Evicting, Writers
<1>4. CASE RemovePanics(t)
  BY <1>1, <1>4 DEF RemovePanics, Serves, Local, Evicting, Writers
<1>5. CASE ForgetRemoved(t)
  <2>1. CASE th[t].method = "MOVE"
    <3>1. th[t].pc = "forget" /\ Goto(t, "rename")
      BY <1>5, <2>1 DEF ForgetRemoved
    <3>2. /\ th'[t].pc = "rename" /\ th'[t].method = th[t].method /\ th'[t].name = th[t].name
          /\ th'[t].to = th[t].to
      BY <1>1, <3>1 DEF Local
    <3> QED BY <2>1, <3>1, <3>2 DEF Serves, Evicting, Writers
  <2>2. CASE th[t].method # "MOVE"
    <3>1. th'[t] = Idle
      BY <1>1, <1>5, <2>2 DEF ForgetRemoved
    <3> QED BY <3>1
  <2> QED BY <2>1, <2>2
<1>6. CASE RenameBackend(t)
  BY <1>1, <1>6 DEF RenameBackend, Serves, Local, Evicting, Writers
<1>7. CASE RenameFails(t)
  BY <1>1, <1>7 DEF RenameFails, Serves, Local, Evicting, Writers
<1>8. CASE Retarget(t)
  BY <1>1, <1>8 DEF Retarget, Serves, Local, Evicting, Writers
<1>9. CASE MkdirBackend(t)
  BY <1>1, <1>9 DEF MkdirBackend, Ready, Serves, Local, Evicting, Writers
<1>10. CASE MkdirFails(t)
  BY <1>1, <1>10 DEF MkdirFails, Ready, Serves, Local, Evicting, Writers
<1>11. CASE TrackMkdir(t)
  BY <1>1, <1>11 DEF TrackMkdir, Serves, Local, Evicting, Writers
<1> QED BY <1>2, <1>3, <1>4, <1>5, <1>6, <1>7, <1>8, <1>9, <1>10, <1>11 DEF TreeStep

(* What a goroutine that writes holds a lock on.                           *)
Claims(r) == IF r.method \in Writers THEN {r.name.at, r.to.at} \ {Root} ELSE {}

LEMMA HeldAreClaims == Held = UNION { Claims(th[t]) : t \in Thread }
BY DEF Held, Claims

(* A goroutine that takes a request claims only what nobody holds.         *)
LEMMA RequestServes ==
  ASSUME IInv, NEW t \in Thread, Request(t), Serves(th[t])
  PROVE  /\ Serves(th'[t]) /\ th'[t].pc = "enter"
         /\ Claims(th'[t]) \cap Held = {}
         /\ th'[t].name.form = "abs" => "abs" \in ReadForms
<1>1. th \in [Thread -> Local]
  BY DEF IInv, TypeOK
<1> USE DEF Issue, Become, Idle
<1>2. CASE IssueRead(t)
  <2>1. /\ Serves(th'[t]) /\ th'[t].pc = "enter"
        /\ th'[t].name.form = "abs" => "abs" \in ReadForms
    BY <1>1, <1>2 DEF IssueRead, Serves, Evicting, Writers
  <2>2. th'[t].method \notin Writers
    BY <1>1, <1>2 DEF IssueRead, Writers
  <2> QED BY <2>1, <2>2 DEF Claims
<1>3. CASE IssueWrite(t)
  <2>1. Serves(th'[t]) /\ th'[t].pc = "enter" /\ th'[t].name.form = "rel"
    BY <1>1, <1>3 DEF IssueWrite, Serves, Evicting, Writers, Rel
  <2>2. th'[t].name.at \notin Held /\ th'[t].to = NoName
    BY <1>1, <1>3 DEF IssueWrite, Rel
  <2>3. Claims(th'[t]) \subseteq {th'[t].name.at}
    BY <2>2 DEF Claims, NoName
  <2> QED BY <2>1, <2>2, <2>3
<1>4. CASE IssueMove(t)
  <2>1. Serves(th'[t]) /\ th'[t].pc = "enter" /\ th'[t].name.form = "rel"
    BY <1>1, <1>4 DEF IssueMove, Serves, Evicting, Writers, Rel
  <2>2. {th'[t].name.at, th'[t].to.at} \cap Held = {}
    BY <1>1, <1>4 DEF IssueMove, Rel
  <2>3. Claims(th'[t]) \subseteq {th'[t].name.at, th'[t].to.at}
    BY DEF Claims
  <2> QED BY <2>1, <2>2, <2>3
<1> QED BY <1>2, <1>3, <1>4 DEF Request

-----------------------------------------------------------------------------
(* What deleting and renaming make of the names that clients use           *)
-----------------------------------------------------------------------------
LEMMA NamesOfPaths ==
  /\ \A p \in Path : Rel(p) \in Name /\ Abs(p) \in Name /\ Rel(p) # Abs(p)
  /\ \A p, q \in Path : (Rel(p) = Rel(q) <=> p = q) /\ Rel(p) # Abs(q)
  /\ \A n \in Name : n.at \in Path /\ (n.form = "rel" => n = Rel(n.at)) /\ (n.form = "abs" => n = Abs(n.at))
BY DEF Name, Rel, Abs

LEMMA UntrackMeans ==
  ASSUME NEW l, Sound(l), Stamped(l.files), NEW n \in Name, NEW g, g = Untrack(l, n).files
  PROVE  /\ g[n].kind = "none"
         /\ SameBut(l.files, g, n) /\ Stamped(g) /\ SameOrder(l.files, g, Name)
<1> DEFINE S == {n}
<1>1. g = Forget(l, S).files
  BY DEF Untrack
<1> HIDE DEF S
<1>2. /\ \A m \in Name \cap S : g[m].kind = "none" /\ g[m].size = 0
      /\ \A m \in Name \ S : g[m].kind = l.files[m].kind /\ g[m].size = l.files[m].size
      /\ Stamped(g) /\ SameOrder(l.files, g, Name)
  BY <1>1, ForgetMeans
<1> QED BY <1>2 DEF S, SameBut

LEMMA UntrackTreeMeans ==
  ASSUME NEW l, Sound(l), Stamped(l.files), NEW d \in Path, NEW g, g = UntrackTree(l, Rel(d)).files
  PROVE  /\ \A p \in Path :
               /\ g[Abs(p)].kind = l.files[Abs(p)].kind
               /\ IF AtOrUnder(p, d) THEN g[Rel(p)].kind = "none"
                  ELSE g[Rel(p)].kind = l.files[Rel(p)].kind /\ g[Rel(p)].size = l.files[Rel(p)].size
         /\ Stamped(g) /\ SameOrder(l.files, g, Name)
<1> DEFINE S == { n \in Name : InTree(n, Rel(d)) }
<1>1. g = Forget(l, S).files
  BY DEF UntrackTree
<1>2. \A p \in Path : Abs(p) \notin S /\ (Rel(p) \in S <=> AtOrUnder(p, d))
  BY NamesOfPaths DEF InTree, Rel, Abs, AtOrUnder
<1> HIDE DEF S
<1>3. /\ \A m \in Name \cap S : g[m].kind = "none" /\ g[m].size = 0
      /\ \A m \in Name \ S : g[m].kind = l.files[m].kind /\ g[m].size = l.files[m].size
      /\ Stamped(g) /\ SameOrder(l.files, g, Name)
  BY <1>1, ForgetMeans
<1> QED BY <1>2, <1>3, NamesOfPaths

(* Where a name comes from when src is renamed to dst.                     *)
Origin(l, src, dst, n) ==
    IF n.form = "rel" /\ AtOrUnder(n.at, dst) /\ Rebase(n.at, dst, src) \in Path
       /\ IsTracked(l, Rel(Rebase(n.at, dst, src)))
    THEN Rel(Rebase(n.at, dst, src)) ELSE n

LEMMA RetargetTreeMeans ==
  ASSUME NEW l, Sound(l), Stamped(l.files), NEW src \in Path, NEW dst \in Path,
         ~AtOrUnder(src, dst), ~AtOrUnder(dst, src), Movable(src, dst),
         NEW g, g = RetargetTree(l, Rel(src), Rel(dst)).files
  PROVE  /\ \A p \in Path :
              LET o == Origin(l, src, dst, Rel(p))
              IN  /\ g[Abs(p)].kind = l.files[Abs(p)].kind
                  /\ IF AtOrUnder(p, src) THEN g[Rel(p)].kind = "none"
                     ELSE /\ g[Rel(p)].kind = IF o = Rel(src) THEN "dir" ELSE l.files[o].kind
                          /\ g[Rel(p)].size = l.files[o].size
         /\ Stamped(g)
         /\ \A m, n \in Tracked(g) :
               g[m].at < g[n].at <=> l.files[Origin(l, src, dst, m)].at < l.files[Origin(l, src, dst, n)].at
<1> DEFINE carried == { n \in Tracked(l.files) : InTree(n, Rel(src)) }
           kind == [m \in carried |-> IF m = Rel(src) THEN "dir" ELSE l.files[m].kind]
           from == [n \in Name |-> Origin(l, src, dst, n)]
           old == Rel(src)
           new == Rel(dst)
<1>0. /\ g = Carry(l, carried, old, new, kind).files
      /\ carried \in SUBSET Tracked(l.files)
      /\ old \in Name /\ new \in Name
  BY NamesOfPaths DEF RetargetTree
<1>1. kind \in [carried -> {"file", "dir"}]
  BY LedgerParts DEF Tracked, Entry
<1>2. from \in [Name -> Name]
  BY NamesOfPaths DEF Origin
<1>3. \A p \in Path : p \in Place
  BY PathsArePlaces
<1>4. ASSUME NEW m \in carried
      PROVE  /\ m.form = "rel" /\ m.at \in Path /\ AtOrUnder(m.at, src)
             /\ Moved(m, old, new) = Rel(Rebase(m.at, src, dst))
             /\ Rebase(m.at, src, dst) \in Path
             /\ AtOrUnder(Rebase(m.at, src, dst), dst)
             /\ Rebase(Rebase(m.at, src, dst), dst, src) = m.at
             /\ m = Rel(m.at) /\ IsTracked(l, m)
  <2>1. m.form = "rel" /\ m.at \in Path /\ AtOrUnder(m.at, src) /\ m = Rel(m.at) /\ IsTracked(l, m)
    BY NamesOfPaths DEF Tracked, InTree, Rel, AtOrUnder, IsTracked
  <2>2. Moved(m, old, new) = Rel(Rebase(m.at, src, dst))
    BY DEF Moved, Rel
  <2>3. /\ AtOrUnder(Rebase(m.at, src, dst), dst)
        /\ Rebase(Rebase(m.at, src, dst), dst, src) = m.at
        /\ m.at = src => Rebase(m.at, src, dst) = dst
    BY <1>3, <2>1, RebaseBack DEF AtOrUnder
  <2>4. Rebase(m.at, src, dst) \in Path
    BY <2>1, <2>3 DEF Movable, AtOrUnder
  <2> QED BY <2>1, <2>2, <2>3, <2>4
<1>5. ASSUME NEW n \in Name, n.form = "rel", AtOrUnder(n.at, dst), Rebase(n.at, dst, src) \in Path,
             IsTracked(l, Rel(Rebase(n.at, dst, src)))
      PROVE  /\ Rel(Rebase(n.at, dst, src)) \in carried
             /\ Moved(Rel(Rebase(n.at, dst, src)), old, new) = n
  <2>1. n.at \in Path /\ n = Rel(n.at)
    BY <1>5, NamesOfPaths
  <2>2. /\ AtOrUnder(Rebase(n.at, dst, src), src)
        /\ Rebase(Rebase(n.at, dst, src), src, dst) = n.at
    BY <1>3, <1>5, <2>1, RebaseBack DEF AtOrUnder
  <2>3. InTree(Rel(Rebase(n.at, dst, src)), Rel(src))
    BY <2>2 DEF InTree, Rel, AtOrUnder
  <2>4. Rel(Rebase(n.at, dst, src)) \in Tracked(l.files)
    BY <1>5, NamesOfPaths DEF Tracked, IsTracked
  <2> QED BY <2>1, <2>2, <2>3, <2>4 DEF Moved, Rel
<1>6. ASSUME NEW n \in Name
      PROVE  /\ (\E m \in carried : Moved(m, old, new) = n) =>
                   /\ from[n] \in carried
                   /\ \A m \in carried : Moved(m, old, new) = n <=> m = from[n]
             /\ ~(\E m \in carried : Moved(m, old, new) = n) => from[n] = n
  <2> DEFINE o == Rel(Rebase(n.at, dst, src))
  <2>1. ASSUME NEW m \in carried, Moved(m, old, new) = n
        PROVE  from[n] = o /\ m = o
    <3>1. n.at = Rebase(m.at, src, dst) /\ n.form = "rel"
      <4>1. Moved(m, old, new) = Rel(Rebase(m.at, src, dst))
        BY <1>4
      <4>2. n = Rel(Rebase(m.at, src, dst))
        BY <2>1, <4>1
      <4> QED BY <4>2 DEF Rel
    <3>2. o = m
      BY <1>4, <3>1
    <3>3. Rebase(n.at, dst, src) \in Path /\ IsTracked(l, o) /\ AtOrUnder(n.at, dst)
      BY <1>4, <3>1, <3>2
    <3> QED BY <3>1, <3>2, <3>3 DEF Origin
  <2>2. CASE \E m \in carried : Moved(m, old, new) = n
    <3>1. PICK m \in carried : Moved(m, old, new) = n
      BY <2>2
    <3>2. from[n] = m
      BY <2>1, <3>1
    <3> QED BY <2>1, <2>2, <3>1, <3>2
  <2>3. CASE ~\E m \in carried : Moved(m, old, new) = n
    <3>1. from[n] = n
      BY <1>5, <2>3 DEF Origin
    <3> QED BY <2>3, <3>1
  <2> QED BY <2>2, <2>3
<1>7. \A n \in Name \ carried :
            IF \E m \in carried : Moved(m, old, new) = n
            THEN from[n] \in carried /\ \A m \in carried : Moved(m, old, new) = n <=> m = from[n]
            ELSE from[n] = n
  BY <1>6
<1>8. /\ \A p \in Path : Abs(p) \notin carried /\ from[Abs(p)] = Abs(p)
      /\ \A p \in Path : AtOrUnder(p, src) => (Rel(p) \in carried <=> IsTracked(l, Rel(p)))
      /\ \A p \in Path : AtOrUnder(p, src) => ~AtOrUnder(p, dst)
      /\ \A p \in Path : ~AtOrUnder(p, src) => Rel(p) \notin carried
  <2>1. \A p \in Path : Abs(p) \notin carried /\ from[Abs(p)] = Abs(p)
    BY NamesOfPaths DEF InTree, Abs, Rel, Origin
  <2>2. \A p \in Path : AtOrUnder(p, src) => (Rel(p) \in carried <=> IsTracked(l, Rel(p)))
    BY NamesOfPaths DEF InTree, Rel, AtOrUnder, Tracked, IsTracked
  <2>3. \A p \in Path : AtOrUnder(p, src) => ~AtOrUnder(p, dst)
    BY <1>3, UnderOrder DEF AtOrUnder
  <2>4. \A p \in Path : ~AtOrUnder(p, src) => Rel(p) \notin carried
    BY NamesOfPaths DEF InTree, Rel, AtOrUnder
  <2> QED BY <2>1, <2>2, <2>3, <2>4
<1>9. \A n \in Name : from[n] = Origin(l, src, dst, n)
  OBVIOUS
<1>10. /\ \A m \in carried : kind[m] = IF m = Rel(src) THEN "dir" ELSE l.files[m].kind
  OBVIOUS
<1> HIDE DEF carried, kind, from, old, new
<1>p. PICK c, k, f, a, b : c = carried /\ k = kind /\ f = from /\ a = old /\ b = new
  OBVIOUS
<1>q. /\ c \in SUBSET Tracked(l.files) /\ k \in [c -> {"file", "dir"}] /\ f \in [Name -> Name]
      /\ a \in Name /\ b \in Name /\ g = Carry(l, c, a, b, k).files
      /\ \A n \in Name \ c :
            IF \E m \in c : Moved(m, a, b) = n
            THEN f[n] \in c /\ \A m \in c : Moved(m, a, b) = n <=> m = f[n]
            ELSE f[n] = n
  BY <1>0, <1>1, <1>2, <1>7, <1>p
<1>r. CarriedFrom(l.files, g, c, k, f)
  BY <1>q, CarryMeans
<1>11. /\ \A n \in carried : g[n].kind = "none" /\ g[n].size = 0
       /\ \A n \in Name \ carried :
             /\ g[n].kind = IF from[n] \in carried THEN kind[from[n]] ELSE l.files[n].kind
             /\ g[n].size = l.files[from[n]].size
       /\ Stamped(g)
       /\ \A m, n \in Tracked(g) : g[m].at < g[n].at <=> l.files[from[m]].at < l.files[from[n]].at
  BY <1>p, <1>r DEF CarriedFrom
<1>12. ASSUME NEW p \in Path
       PROVE  LET o == Origin(l, src, dst, Rel(p))
              IN  /\ g[Abs(p)].kind = l.files[Abs(p)].kind
                  /\ IF AtOrUnder(p, src) THEN g[Rel(p)].kind = "none"
                     ELSE /\ g[Rel(p)].kind = IF o = Rel(src) THEN "dir" ELSE l.files[o].kind
                          /\ g[Rel(p)].size = l.files[o].size
  <2>0. Rel(p) \in Name /\ Abs(p) \in Name
    BY NamesOfPaths
  <2>1. g[Abs(p)].kind = l.files[Abs(p)].kind
    BY <1>8, <1>11, <2>0
  <2>2. CASE AtOrUnder(p, src)
    <3>1. CASE Rel(p) \in carried
      BY <1>11, <2>1, <2>2, <3>1
    <3>2. CASE Rel(p) \notin carried
      <4>1. ~IsTracked(l, Rel(p)) /\ ~AtOrUnder(p, dst)
        BY <1>8, <2>2, <3>2
      <4>2. from[Rel(p)] = Rel(p)
        BY <1>9, <2>0, <4>1 DEF Origin, Rel
      <4>3. g[Rel(p)].kind = l.files[Rel(p)].kind
        BY <1>11, <2>0, <3>2, <4>2
      <4> QED BY <2>1, <2>2, <4>1, <4>3 DEF IsTracked
    <3> QED BY <3>1, <3>2
  <2>3. CASE ~AtOrUnder(p, src)
    <3>1. Rel(p) \in Name \ carried
      BY <1>8, <2>0, <2>3
    <3>2. /\ g[Rel(p)].kind = IF from[Rel(p)] \in carried THEN kind[from[Rel(p)]] ELSE l.files[Rel(p)].kind
          /\ g[Rel(p)].size = l.files[from[Rel(p)]].size
      BY <1>11, <3>1
    <3>3. CASE from[Rel(p)] \in carried
      BY <1>9, <1>10, <2>0, <2>1, <2>3, <3>2, <3>3
    <3>4. CASE from[Rel(p)] \notin carried
      <4>1. from[Rel(p)] = Rel(p)
        BY <1>7, <3>1, <3>4
      <4>2. p # src
        BY <2>3 DEF AtOrUnder
      <4> QED BY <1>9, <2>0, <2>1, <2>3, <3>2, <3>4, <4>1, <4>2, NamesOfPaths
    <3> QED BY <3>3, <3>4
  <2> QED BY <2>2, <2>3
<1> QED BY <1>9, <1>11, <1>12 DEF Tracked

(* The new name stands among the others where the old one did.             *)
InPlaceOf(f, g, old, new) ==
    \A n \in Tracked(g) \ {new} :
        /\ g[n].at < g[new].at <=> f[n].at < f[old].at
        /\ g[new].at < g[n].at <=> f[old].at < f[n].at

(* The same for a rename of a file, which has nothing below it.            *)
LEMMA RetargetFileMeans ==
  ASSUME NEW l, Sound(l), Stamped(l.files), NEW src \in Path, NEW dst \in Path, src # dst,
         NEW g, g = RetargetFile(l, Rel(src), Rel(dst)).files
  PROVE  /\ IF IsTracked(l, Rel(src))
            THEN /\ g[Rel(src)].kind = "none"
                 /\ g[Rel(dst)].kind = "file" /\ g[Rel(dst)].size = l.files[Rel(src)].size
                 /\ SameEntries(l.files, g, Name \ {Rel(src), Rel(dst)})
            ELSE SameEntries(l.files, g, Name)
         /\ Stamped(g)
         /\ SameOrder(l.files, g, Name \ {Rel(dst)})
         /\ IsTracked(l, Rel(src)) => InPlaceOf(l.files, g, Rel(src), Rel(dst))
         /\ ~IsTracked(l, Rel(src)) => SameOrder(l.files, g, Name)
<1>0. PICK old, new : old = Rel(src) /\ new = Rel(dst)
  OBVIOUS
<1>1. /\ old \in Name /\ new \in Name /\ old # new
      /\ Moved(old, old, new) = new
  <2>1. Rebase(src, src, dst) = dst
    BY PathsArePlaces, RebaseBack
  <2> QED BY <1>0, <2>1, NamesOfPaths DEF Moved, Rel
<1>2. PICK carried : carried = {old} \cap Tracked(l.files)
  OBVIOUS
<1>3. PICK kind : kind = [m \in carried |-> "file"]
  OBVIOUS
<1>4. PICK from : from = [n \in Name |-> IF n = new /\ carried # {} THEN old ELSE n]
  OBVIOUS
<1>5. /\ carried \in SUBSET Tracked(l.files)
      /\ kind \in [carried -> {"file", "dir"}] /\ from \in [Name -> Name]
  BY <1>1, <1>2, <1>3, <1>4
<1>6. \A n \in Name \ carried :
            IF \E m \in carried : Moved(m, old, new) = n
            THEN from[n] \in carried /\ \A m \in carried : Moved(m, old, new) = n <=> m = from[n]
            ELSE from[n] = n
  <2>1. \A m \in carried : m = old /\ Moved(m, old, new) = new
    BY <1>1, <1>2
  <2>2. carried = {} \/ carried = {old}
    BY <1>2
  <2> QED BY <1>1, <1>4, <2>1, <2>2
<1>7. g = Carry(l, carried, old, new, kind).files
  BY <1>0, <1>2, <1>3 DEF RetargetFile
<1>8. CarriedFrom(l.files, g, carried, kind, from)
  BY <1>1, <1>5, <1>6, <1>7, CarryMeans
<1>9. CASE IsTracked(l, old)
  <2>1. carried = {old}
    BY <1>1, <1>2, <1>9 DEF IsTracked, Tracked
  <2>2. from[new] = old /\ kind[old] = "file" /\ \A n \in Name \ {new} : from[n] = n
    BY <1>1, <1>3, <1>4, <2>1
  <2>3. /\ g[old].kind = "none"
        /\ g[new].kind = "file" /\ g[new].size = l.files[old].size
        /\ SameEntries(l.files, g, Name \ {old, new})
    BY <1>1, <1>8, <2>1, <2>2 DEF CarriedFrom, SameEntries
  <2>4. /\ Stamped(g)
        /\ \A m, n \in Tracked(g) : g[m].at < g[n].at <=> l.files[from[m]].at < l.files[from[n]].at
    BY <1>8 DEF CarriedFrom
  <2>5. SameOrder(l.files, g, Name \ {new})
    BY <2>2, <2>4 DEF SameOrder
  <2>6. InPlaceOf(l.files, g, old, new)
    <3>1. new \in Tracked(g)
      BY <1>1, <2>3 DEF Tracked
    <3> QED BY <2>2, <2>4, <3>1 DEF Tracked, InPlaceOf
  <2> QED BY <1>0, <1>9, <2>3, <2>4, <2>5, <2>6
<1>10. CASE ~IsTracked(l, old)
  <2>1. carried = {}
    BY <1>1, <1>2, <1>10 DEF IsTracked, Tracked
  <2>2. \A n \in Name : from[n] = n
    BY <1>4, <2>1
  <2>3. /\ SameEntries(l.files, g, Name)
        /\ Stamped(g)
        /\ \A m, n \in Tracked(g) : g[m].at < g[n].at <=> l.files[m].at < l.files[n].at
    BY <1>8, <2>1, <2>2 DEF CarriedFrom, Tracked, SameEntries
  <2> QED BY <1>0, <1>10, <2>3 DEF SameOrder
<1> QED BY <1>9, <1>10

-----------------------------------------------------------------------------
(* Concurrent requests on the files of one directory                       *)
-----------------------------------------------------------------------------
(* The backend is one directory that holds no file when the process        *)
(* starts, once.                                                           *)
OneDirectory ==
    /\ \A p, q \in Path : ~IsUnder(p, q)
    /\ \A p \in Path : ~IsFile(InitialNode, p)
    /\ MaxRestarts = 0

NothingEvicted == \A t \in Thread : th[t].pc # "unlink"

(* The goroutine has still to record the file p.                           *)
Owes(l, r, p) ==
    /\ p \in Claims(r)
    /\ \/ Writing(r)
       \/ r.pc = "closing" /\ r.method = "PUT"
       \/ r.pc = "retarget" /\ p = r.to.at /\ IsTracked(l, r.name)

Accounted(p) == IsTracked(ledger, Rel(p)) \/ \E t \in Thread : Owes(ledger, th[t], p)

(* What a request deletes, or stats.                                       *)
About(r) == IF r.method = "MOVE" THEN r.to ELSE r.name

(* What the goroutine is about to drop from the ledger is gone from disk.  *)
Gone(r) ==
    /\ r.pc = "forget" => node[About(r).at] = Absent
    /\ r.pc = "retarget" => node[r.name.at] = Absent

NInv ==
    /\ Stamped(ledger.files)
    /\ \A t \in Thread : Serves(th[t]) /\ Gone(th[t]) /\ th[t].pc # "untrack"
    /\ \A t, u \in Thread : t # u => Claims(th[t]) \cap Claims(th[u]) = {}
    /\ \A p \in Path : IsFile(node, p) => Accounted(p)

(* No name is dropped, and stamps stay ranks.                              *)
Grows(l, k) == Stamped(k.files) /\ \A n \in Name : IsTracked(l, n) => IsTracked(k, n)

LEMMA NamingGrows ==
  ASSUME NEW l, Sound(l), Stamped(l.files), NEW n \in Name
  PROVE  Grows(l, l) /\ Grows(l, TrackDir(l, n)) /\ Grows(l, Touch(l, n))
<1>1. Grows(l, l)
  BY DEF Grows
<1>2. Grows(l, TrackDir(l, n))
  <2>1. PICK g : g = TrackDir(l, n).files
    OBVIOUS
  <2>2. g[n].kind = "dir" /\ SameBut(l.files, g, n) /\ Stamped(g)
    BY <2>1, TrackDirMeans
  <2> QED BY <2>1, <2>2 DEF Grows, IsTracked, SameBut
<1>3. Grows(l, Touch(l, n))
  <2>1. PICK g : g = Touch(l, n).files
    OBVIOUS
  <2>2. SameEntries(l.files, g, Name) /\ Stamped(g)
    BY <2>1, TouchMeans
  <2> QED BY <2>1, <2>2 DEF Grows, IsTracked, SameEntries
<1> QED BY <1>1, <1>2, <1>3

LEMMA ScannedGrows ==
  ASSUME NEW l, Sound(l), Stamped(l.files), NEW n \in Name, NEW size \in Nat
  PROVE  Grows(l, TrackScanned(l, n, size))
<1>1. PICK g : g = TrackScanned(l, n, size).files
  OBVIOUS
<1>2. g[n].kind = "file" /\ SameBut(l.files, g, n) /\ Stamped(g)
  BY <1>1, TrackScannedMeans
<1> QED BY <1>1, <1>2 DEF Grows, IsTracked, SameBut

LEMMA SeenGrows ==
  ASSUME NEW l, Sound(l), Stamped(l.files), NEW n \in Name, NEW dir \in BOOLEAN, NEW size \in Nat
  PROVE  /\ Grows(l, UpdateSize(l, n, dir, size)) /\ IsTracked(UpdateSize(l, n, dir, size), n)
         /\ Grows(l, Observe(l, n, dir, size))
<1>1. Grows(l, UpdateSize(l, n, dir, size)) /\ IsTracked(UpdateSize(l, n, dir, size), n)
  <2>1. PICK g : g = UpdateSize(l, n, dir, size).files
    OBVIOUS
  <2>2. Noted(l.files, g, n, dir)
    BY <2>1, UpdateSizeMeans, ZenonT(60)
  <2> QED BY <2>1, <2>2 DEF Noted, Grows, IsTracked, SameBut, Tracked
<1>2. Grows(l, Observe(l, n, dir, size))
  <2>1. PICK g : g = Observe(l, n, dir, size).files
    OBVIOUS
  <2>2. Noted(l.files, g, n, dir)
    BY <2>1, ObserveMeans, ZenonT(60)
  <2> QED BY <2>1, <2>2 DEF Noted, Grows, IsTracked, SameBut, Tracked
<1> QED BY <1>1, <1>2

(* Dropping or renaming one name of a single directory.                    *)
LEMMA FlatDrop ==
  ASSUME OneDirectory, NEW l, Sound(l), Stamped(l.files), NEW p \in Path,
         NEW k, k = UntrackTree(l, Rel(p)) \/ k = Untrack(l, Rel(p))
  PROVE  Stamped(k.files) /\ \A q \in Path \ {p} : IsTracked(l, Rel(q)) => IsTracked(k, Rel(q))
<1>1. PICK g : g = k.files
  OBVIOUS
<1>2. CASE k = UntrackTree(l, Rel(p))
  BY <1>1, <1>2, UntrackTreeMeans DEF OneDirectory, AtOrUnder, IsTracked
<1>3. CASE k = Untrack(l, Rel(p))
  <2>1. SameBut(l.files, g, Rel(p)) /\ Stamped(g)
    BY <1>1, <1>3, UntrackMeans, NamesOfPaths
  <2> QED BY <1>1, <2>1, NamesOfPaths DEF SameBut, IsTracked
<1> QED BY <1>2, <1>3

LEMMA FlatRename ==
  ASSUME OneDirectory, NEW l, Sound(l), Stamped(l.files), NEW src \in Path, NEW dst \in Path,
         Movable(src, dst),
         NEW k, k = RetargetTree(l, Rel(src), Rel(dst)) \/ k = RetargetFile(l, Rel(src), Rel(dst))
  PROVE  /\ Stamped(k.files)
         /\ \A q \in Path \ {src} : IsTracked(l, Rel(q)) => IsTracked(k, Rel(q))
         /\ IsTracked(l, Rel(src)) => IsTracked(k, Rel(dst))
<1>1. PICK g : g = k.files
  OBVIOUS
<1>2. src # dst /\ ~AtOrUnder(src, dst) /\ ~AtOrUnder(dst, src)
  BY DEF Movable, OneDirectory, AtOrUnder
<1>3. CASE k = RetargetTree(l, Rel(src), Rel(dst))
  <2>1. ASSUME NEW q \in Path \ {src}
        PROVE  /\ IsTracked(l, Rel(q)) => IsTracked(k, Rel(q))
               /\ q = dst /\ IsTracked(l, Rel(src)) => IsTracked(k, Rel(q))
    <3>1. PICK o : o = Origin(l, src, dst, Rel(q))
      OBVIOUS
    <3>2. ~AtOrUnder(q, src)
      BY DEF OneDirectory, AtOrUnder
    <3>3. g[Rel(q)].kind = IF o = Rel(src) THEN "dir" ELSE l.files[o].kind
      BY <1>1, <1>2, <1>3, <3>1, <3>2, RetargetTreeMeans
    <3>4. o = Rel(src) \/ l.files[o].kind # "none" \/ o = Rel(q)
      BY <3>1, PathsArePlaces DEF Origin, IsTracked
    <3>5. q = dst /\ IsTracked(l, Rel(src)) => o = Rel(src)
      <4>1. Rebase(dst, dst, src) = src
        BY PathsArePlaces, RebaseBack
      <4> QED BY <3>1, <4>1 DEF Origin, Rel, AtOrUnder
    <3> QED BY <1>1, <3>3, <3>4, <3>5 DEF IsTracked
  <2>2. Stamped(g)
    BY <1>1, <1>2, <1>3, RetargetTreeMeans
  <2> QED BY <1>1, <1>2, <2>1, <2>2
<1>4. CASE k = RetargetFile(l, Rel(src), Rel(dst))
  <2>1. Stamped(g) /\ g = RetargetFile(l, Rel(src), Rel(dst)).files
    BY <1>1, <1>2, <1>4, RetargetFileMeans
  <2>2. CASE IsTracked(l, Rel(src))
    <3>1. g[Rel(dst)].kind = "file"
      BY <1>2, <2>1, <2>2, RetargetFileMeans
    <3>2. SameEntries(l.files, g, Name \ {Rel(src), Rel(dst)})
      BY <1>2, <2>1, <2>2, RetargetFileMeans
    <3> QED BY <1>1, <2>1, <2>2, <3>1, <3>2, NamesOfPaths DEF IsTracked, SameEntries
  <2>3. CASE ~IsTracked(l, Rel(src))
    <3>1. SameEntries(l.files, g, Name)
      BY <1>2, <2>1, <2>3, RetargetFileMeans
    <3> QED BY <1>1, <2>1, <2>3, <3>1, NamesOfPaths DEF IsTracked, SameEntries
  <2> QED BY <2>2, <2>3
<1> QED BY <1>3, <1>4

-----------------------------------------------------------------------------
(* What each step does to the ledger, to the backend, and to the two.      *)
LEMMA StepGrows ==
  ASSUME IInv, Stamped(ledger.files), NEW t \in Thread, Step(t),
         th[t].pc \notin {"forget", "retarget", "untrack"}
  PROVE  Grows(ledger, ledger')
<1>1. /\ Sound(ledger) /\ th[t] \in Local /\ (th[t].pc # "idle" => th[t].name \in Name /\ Subject(t) \in Name)
      /\ th[t].dir \in BOOLEAN /\ th[t].size \in Nat
  BY IInvParts, NamesOfRequest DEF Local
<1>2. CASE UNCHANGED ledger
  BY <1>1, <1>2 DEF Grows
<1>3. CASE ScanEntry(t)
  <2>1. PICK e \in Head(th[t].scan).left :
           ledger' = IF e.dir THEN TrackDir(ledger, Abs(e.at)) ELSE TrackScanned(ledger, Abs(e.at), e.size)
    BY <1>3 DEF ScanEntry
  <2>2. th[t].pc = "scan"
    BY <1>3 DEF ScanEntry
  <2>3. Abs(e.at) \in Name /\ e.size \in Nat
    BY <2>2, ScanParts, NamesOfPaths DEF Frame
  <2>4. CASE e.dir
    BY <1>1, <2>1, <2>3, <2>4, NamingGrows
  <2>5. CASE ~e.dir
    BY <1>1, <2>1, <2>3, <2>5, ScannedGrows
  <2> QED BY <2>4, <2>5
<1>4. CASE ledger' = Touch(ledger, th[t].name) /\ th[t].pc # "idle"
  BY <1>1, <1>4, NamingGrows
<1>5. CASE Close(t)
  BY <1>1, <1>5, SeenGrows DEF Close
<1>6. CASE ObserveStat(t)
  BY <1>1, <1>6, SeenGrows DEF ObserveStat
<1>7. CASE TrackMkdir(t)
  BY <1>1, <1>7, NamingGrows DEF TrackMkdir
<1>8. CASE ScanStep(t)
  BY <1>2, <1>3, <1>8 DEF ScanStep, StartScan, ScanList, ScanFails, ScanSpace
<1>9. CASE EvictionStep(t)
  BY <1>2, <1>9 DEF EvictionStep, SkipVictim, ChooseVictim, UnlinkVictim, UnlinkFails, UntrackVictim,
                    EndEviction, SpaceFound, NoSpace
<1>10. CASE PutStep(t)
  <2>1. CASE Write(t)
    BY <1>2, <1>4, <2>1 DEF Write
  <2> QED BY <1>2, <1>4, <1>10, <2>1
        DEF PutStep, OpenForWriting, Truncate, Create, CreateFails, MakeRoom, EndOfBody
<1>11. CASE ReadStep(t)
  BY <1>2, <1>4, <1>5, <1>6, <1>11
     DEF ReadStep, OpenForReading, Serve, OpenFails, StatBackend, StatFails, DestinationFree, Ready
<1>12. CASE TreeStep(t)
  BY <1>2, <1>7, <1>12
     DEF TreeStep, RemoveBackend, RemoveFails, RemovePanics, ForgetRemoved, RenameBackend, RenameFails,
         Retarget, MkdirBackend, MkdirFails
<1> QED BY <1>8, <1>9, <1>10, <1>11, <1>12 DEF Step

(* Where a goroutine stands says what it can do next.                      *)
LEMMA StepAt ==
  ASSUME NEW t \in Thread, Step(t)
  PROVE  /\ th[t].pc # "idle"
         /\ th[t].pc = "forget" => ForgetRemoved(t)
         /\ th[t].pc = "retarget" => Retarget(t)
         /\ th[t].pc = "open" => Serve(t) \/ OpenFails(t)
         /\ th[t].pc = "closing" => Close(t)
         /\ th[t].pc = "observe" => ObserveStat(t)
         /\ th[t].pc = "track" => TrackMkdir(t)
         /\ th[t].pc = "put" => MakeRoom(t) \/ EndOfBody(t)
         /\ th[t].pc = "write" => Write(t)
         /\ th[t].pc \in Evicting => EvictionStep(t)
<1>1. ScanStep(t) => th[t].pc \in {"enter", "scan"}
  BY DEF ScanStep, StartScan, ScanList, ScanFails, ScanEntry, ScanSpace
<1>2. EvictionStep(t) => th[t].pc \in Evicting
  BY DEF EvictionStep, Evicting, SkipVictim, ChooseVictim, UnlinkVictim, UnlinkFails, UntrackVictim,
         EndEviction, SpaceFound, NoSpace
<1>3. PutStep(t) => /\ th[t].pc \in {"enter", "begin", "create"} \/ MakeRoom(t) \/ EndOfBody(t) \/ Write(t)
                    /\ th[t].pc \in {"enter", "begin", "create", "put", "write"}
  BY DEF PutStep, Ready, OpenForWriting, Truncate, Create, CreateFails, MakeRoom, Write, EndOfBody
<1>4. ReadStep(t) => \/ th[t].pc \in {"enter", "begin"}
                     \/ th[t].pc = "open" /\ (Serve(t) \/ OpenFails(t))
                     \/ th[t].pc = "closing" /\ Close(t)
                     \/ th[t].pc = "observe" /\ ObserveStat(t)
  BY DEF ReadStep, Ready, OpenForReading, Serve, OpenFails, Close, StatBackend, StatFails, DestinationFree, ObserveStat
<1>5. TreeStep(t) => \/ th[t].pc \in {"enter", "begin", "remove", "rename"}
                     \/ th[t].pc = "forget" /\ ForgetRemoved(t)
                     \/ th[t].pc = "retarget" /\ Retarget(t)
                     \/ th[t].pc = "track" /\ TrackMkdir(t)
  BY DEF TreeStep, Ready, RemoveBackend, RemoveFails, RemovePanics, ForgetRemoved, RenameBackend,
         RenameFails, Retarget, MkdirBackend, MkdirFails, TrackMkdir
<1>6. (MakeRoom(t) \/ EndOfBody(t) => th[t].pc = "put") /\ (Write(t) => th[t].pc = "write")
  BY DEF MakeRoom, EndOfBody, Write
<1> QED BY <1>1, <1>2, <1>3, <1>4, <1>5, <1>6 DEF Step, Evicting

LEMMA StepBackend ==
  ASSUME NEW t \in Thread, Step(t)
  PROVE  node' = node \/ UnlinkVictim(t) \/ Create(t) \/ RemoveBackend(t) \/ RenameBackend(t) \/ MkdirBackend(t)
  BY DEF Step, ScanStep, EvictionStep, PutStep, ReadStep, TreeStep,
         StartScan, ScanList, ScanFails, ScanEntry, ScanSpace,
         SkipVictim, ChooseVictim, UnlinkFails, UntrackVictim, EndEviction, SpaceFound, NoSpace,
         OpenForWriting, Truncate, CreateFails, MakeRoom, Write, EndOfBody,
         OpenForReading, Serve, OpenFails, Close, StatBackend, StatFails, DestinationFree, ObserveStat,
         RemoveFails, RemovePanics, ForgetRemoved, RenameFails, Retarget, MkdirFails, TrackMkdir

LEMMA ClaimsMeans ==
  ASSUME IInv, NEW t \in Thread, Serves(th[t])
  PROVE  /\ Claims(th[t]) \subseteq Path
         /\ th[t].method \in Writers =>
               /\ th[t].name = Rel(th[t].name.at) /\ th[t].name.at \in Path
               /\ th[t].name.at \in Claims(th[t])
               /\ About(th[t]) = Rel(About(th[t]).at) /\ About(th[t]).at \in Claims(th[t])
         /\ th[t].method \in Writers \ {"MOVE"} => Claims(th[t]) = {th[t].name.at}
         /\ th[t].method = "MOVE" =>
               /\ th[t].to = Rel(th[t].to.at) /\ th[t].to.at \in Path
               /\ Claims(th[t]) = {th[t].name.at, th[t].to.at} /\ Movable(th[t].name.at, th[t].to.at)
         /\ th[t].method \notin Writers => Claims(th[t]) = {}
<1>1. th[t] \in Local /\ ControlOK(th[t]) /\ Root \notin Path
  BY IInvParts, PathsArePlaces
<1>2. CASE th[t].method = "MOVE"
  <2>1. th[t].pc # "idle" /\ th[t].name \in Name /\ th[t].to \in Name
    BY <1>1, <1>2 DEF Serves, ControlOK
  <2>2. th[t].name = Rel(th[t].name.at) /\ th[t].name.at \in Path
    BY <1>2, <2>1, NamesOfPaths DEF Serves, Writers
  <2>3. th[t].to = Rel(th[t].to.at) /\ th[t].to.at \in Path /\ Movable(th[t].name.at, th[t].to.at)
    BY <1>2, <2>1, NamesOfPaths DEF Serves, Writers
  <2>4. Claims(th[t]) = {th[t].name.at, th[t].to.at}
    BY <1>1, <1>2, <2>2, <2>3 DEF Claims, Writers
  <2> QED BY <1>2, <2>2, <2>3, <2>4 DEF About, Writers
<1>3. CASE th[t].method \in Writers \ {"MOVE"}
  <2>1. th[t].pc # "idle" /\ th[t].name \in Name /\ th[t].to = NoName
    BY <1>1, <1>3 DEF Serves, ControlOK, Writers
  <2>2. th[t].name = Rel(th[t].name.at) /\ th[t].name.at \in Path
    BY <1>3, <2>1, NamesOfPaths DEF Serves
  <2>3. Claims(th[t]) = {th[t].name.at}
    BY <1>1, <1>3, <2>1, <2>2 DEF Claims, NoName
  <2> QED BY <1>3, <2>2, <2>3 DEF About
<1>4. CASE th[t].method \notin Writers
  BY <1>4 DEF Claims, Writers
<1> QED BY <1>2, <1>3, <1>4

(* In one directory nothing is dropped but what a request is about.        *)
LEMMA FlatLedger ==
  ASSUME OneDirectory, IInv, Stamped(ledger.files), NEW t \in Thread, Serves(th[t]), Step(t),
         th[t].pc # "untrack"
  PROVE  /\ Stamped(ledger'.files)
         /\ \A p \in Path : IsTracked(ledger, Rel(p)) =>
               \/ IsTracked(ledger', Rel(p))
               \/ th[t].pc = "forget" /\ p = About(th[t]).at
               \/ th[t].pc = "retarget" /\ p = th[t].name.at
         /\ th[t].pc = "retarget" /\ IsTracked(ledger, th[t].name) => IsTracked(ledger', th[t].to)
<1>1. Sound(ledger)
  BY IInvParts
<1>2. CASE th[t].pc = "forget"
  <2>1. ForgetRemoved(t) /\ Subject(t) = About(th[t]) /\ th[t].method \in Writers
    BY <1>2, StepAt DEF Subject, About, Serves, Writers
  <2>2. About(th[t]) = Rel(About(th[t]).at) /\ About(th[t]).at \in Path
    BY <2>1, ClaimsMeans
  <2>3. ledger' = UntrackTree(ledger, Rel(About(th[t]).at)) \/ ledger' = Untrack(ledger, Rel(About(th[t]).at))
    BY <2>1, <2>2 DEF ForgetRemoved
  <2> QED BY <1>1, <1>2, <2>2, <2>3, FlatDrop
<1>3. CASE th[t].pc = "retarget"
  <2>1. Retarget(t) /\ th[t].method = "MOVE"
    BY <1>3, StepAt DEF Serves
  <2>2. /\ th[t].name = Rel(th[t].name.at) /\ th[t].name.at \in Path
        /\ th[t].to = Rel(th[t].to.at) /\ th[t].to.at \in Path /\ Movable(th[t].name.at, th[t].to.at)
    BY <2>1, ClaimsMeans DEF Writers
  <2> DEFINE src == th[t].name.at  dst == th[t].to.at
  <2>3. ledger' = RetargetTree(ledger, Rel(src), Rel(dst)) \/ ledger' = RetargetFile(ledger, Rel(src), Rel(dst))
    BY <2>1, <2>2 DEF Retarget
  <2>4. src \in Path /\ dst \in Path /\ Movable(src, dst) /\ th[t].name = Rel(src) /\ th[t].to = Rel(dst)
    BY <2>2
  <2> HIDE DEF src, dst
  <2>5. /\ Stamped(ledger'.files)
        /\ \A q \in Path \ {src} : IsTracked(ledger, Rel(q)) => IsTracked(ledger', Rel(q))
        /\ IsTracked(ledger, Rel(src)) => IsTracked(ledger', Rel(dst))
    BY <1>1, <2>3, <2>4, FlatRename
  <2> QED BY <1>3, <2>4, <2>5 DEF src
<1>4. CASE th[t].pc \notin {"forget", "retarget"}
  <2>1. Grows(ledger, ledger')
    BY <1>4, StepGrows
  <2> QED BY <1>4, <2>1, NamesOfPaths DEF Grows
<1> QED BY <1>2, <1>3, <1>4

(* Where ensureSpace leaves a goroutine.                                   *)
LEMMA EnsureSpaceMeans ==
  ASSUME IInv, NEW t \in Thread, NEW r \in Local, EnsureSpace(t, r)
  PROVE  /\ th'[t].method = r.method /\ th'[t].name = r.name /\ th'[t].to = r.to
         /\ th'[t].fd = r.fd /\ th'[t].size = r.size /\ th'[t].dir = r.dir
         /\ th'[t].need = r.need /\ th'[t].ret = r.ret /\ th'[t].scan = r.scan
         /\ th'[t].pc = IF Fits(r.need) THEN r.ret ELSE "evict"
         /\ ~Fits(r.need) => th'[t].victims = { [name |-> n, at |-> ledger.files[n].at] : n \in Candidates }
<1>1. th \in [Thread -> Local]
  BY DEF IInv, TypeOK
<1>2. CASE Fits(r.need)
  <2>1. th'[t] = [r EXCEPT !.pc = r.ret]
    BY <1>1, <1>2 DEF EnsureSpace, Become
  <2> QED BY <1>2, <2>1 DEF Local
<1>3. CASE ~Fits(r.need)
  <2>0. PICK V : V = { [name |-> n, at |-> ledger.files[n].at] : n \in Candidates }
    OBVIOUS
  <2> DEFINE e == [r EXCEPT !.pc = "evict", !.failed = FALSE, !.victims = V]
  <2>1. th'[t] = e
    BY <1>1, <1>3, <2>0 DEF EnsureSpace, Become
  <2>2. /\ e.method = r.method /\ e.name = r.name /\ e.to = r.to
        /\ e.fd = r.fd /\ e.size = r.size /\ e.dir = r.dir
        /\ e.need = r.need /\ e.ret = r.ret /\ e.scan = r.scan
        /\ e.pc = "evict" /\ e.victims = V
    BY DEF Local
  <2> HIDE DEF e
  <2> QED BY <1>3, <2>0, <2>1, <2>2
<1> QED BY <1>2, <1>3

(* What a goroutine carries through its request.                           *)
Same(r, s) ==
    /\ s.method = r.method /\ s.name = r.name /\ s.to = r.to
    /\ s.fd = r.fd /\ s.ret = r.ret /\ s.need = r.need

(* Where the steps that set a flag leave a goroutine.                      *)
LEMMA FlagStepMeans ==
  ASSUME IInv, NEW t \in Thread
  PROVE  /\ Write(t) => Same(th[t], th'[t]) /\ th'[t].pc = "put"
         /\ SpaceFound(t) => Same(th[t], th'[t]) /\ th'[t].pc = th[t].ret
         /\ NoSpace(t) => IF th[t].ret = "write" THEN Same(th[t], th'[t]) /\ th'[t].pc = "put"
                          ELSE th'[t] = Idle
         /\ UnlinkFails(t) => /\ Same(th[t], th'[t]) /\ th'[t].pc = "evict" /\ th'[t].failed
                              /\ th'[t].victims = th[t].victims \ {th[t].prey}
         /\ EndOfBody(t) => /\ Same(th[t], th'[t]) /\ th'[t].pc = "closing"
                            /\ th'[t].size = len[th[t].fd] /\ ~th'[t].dir
         /\ Serve(t) => /\ Same(th[t], th'[t]) /\ th'[t].pc = "closing"
                        /\ th'[t].size = StatSize(th[t].name.at)
                        /\ th'[t].dir = IsDir(node, th[t].name.at)
         /\ StatBackend(t) => /\ Same(th[t], th'[t]) /\ th'[t].pc = "observe"
                              /\ th'[t].size = StatSize(Subject(t).at)
                              /\ th'[t].dir = IsDir(node, Subject(t).at)
         /\ RemoveBackend(t) => /\ Same(th[t], th'[t]) /\ th'[t].pc = "forget"
                                /\ th'[t].dir = IsDir(node, Subject(t).at)
         /\ RenameBackend(t) => /\ Same(th[t], th'[t]) /\ th'[t].pc = "retarget"
                                /\ th'[t].dir = IsDir(node, th[t].name.at)
<1>1. th \in [Thread -> Local] /\ th[t] \in Local
  BY IInvParts DEF IInv, TypeOK
<1> USE DEF Become, Same
<1>2. ASSUME Write(t) PROVE Same(th[t], th'[t]) /\ th'[t].pc = "put"
  <2>1. PICK n \in 0 .. th[t].need : th' = [th EXCEPT ![t] = [th[t] EXCEPT !.pc = "put", !.ok = (n = th[t].need)]]
    BY <1>2 DEF Write
  <2> DEFINE b == n = th[t].need   r == [th[t] EXCEPT !.pc = "put", !.ok = b]
  <2>2. th'[t] = r
    BY <1>1, <2>1
  <2> HIDE DEF b
  <2> QED BY <1>1, <2>2 DEF Local
<1>3. ASSUME SpaceFound(t) PROVE Same(th[t], th'[t]) /\ th'[t].pc = th[t].ret
  <2> DEFINE r == [th[t] EXCEPT !.pc = th[t].ret, !.failed = FALSE]
  <2>1. th'[t] = r
    BY <1>1, <1>3 DEF SpaceFound
  <2>2. Same(th[t], r) /\ r.pc = th[t].ret
    BY <1>1 DEF Local
  <2> QED BY <2>1, <2>2
<1>4. ASSUME NoSpace(t) PROVE IF th[t].ret = "write" THEN Same(th[t], th'[t]) /\ th'[t].pc = "put"
                              ELSE th'[t] = Idle
  <2> DEFINE r == [th[t] EXCEPT !.pc = "put", !.ok = FALSE, !.failed = FALSE]
  <2>1. CASE th[t].ret = "write"
    <3>1. th'[t] = r
      BY <1>1, <1>4, <2>1 DEF NoSpace
    <3>2. Same(th[t], r) /\ r.pc = "put"
      BY <1>1 DEF Local
    <3> QED BY <2>1, <3>1, <3>2
  <2>2. CASE th[t].ret # "write"
    BY <1>1, <1>4, <2>2 DEF NoSpace, Finish
  <2> QED BY <2>1, <2>2
<1>5. ASSUME UnlinkFails(t)
      PROVE  /\ Same(th[t], th'[t]) /\ th'[t].pc = "evict" /\ th'[t].failed
             /\ th'[t].victims = th[t].victims \ {th[t].prey}
  <2> DEFINE d == Drop(t, th[t].prey)   r == [d EXCEPT !.failed = TRUE]
  <2>1. th'[t] = r
    BY <1>1, <1>5 DEF UnlinkFails
  <2>2. /\ Same(th[t], d) /\ d.pc = "evict" /\ d.victims = th[t].victims \ {th[t].prey}
        /\ d = [d EXCEPT !.pc = "evict"] /\ DOMAIN d = DOMAIN th[t] /\ DOMAIN th[t] = DOMAIN Idle
    BY <1>1 DEF Local, Drop, Idle
  <2> HIDE DEF d
  <2>3. Same(th[t], r) /\ r.pc = "evict" /\ r.failed /\ r.victims = th[t].victims \ {th[t].prey}
    BY <1>1, <2>2 DEF Local, Idle
  <2> QED BY <2>1, <2>3
<1>6. ASSUME EndOfBody(t)
      PROVE  /\ Same(th[t], th'[t]) /\ th'[t].pc = "closing"
             /\ th'[t].size = len[th[t].fd] /\ ~th'[t].dir
  <2> DEFINE r == [th[t] EXCEPT !.pc = "closing", !.size = len[th[t].fd], !.dir = FALSE]
  <2>1. th'[t] = r
    BY <1>1, <1>6 DEF EndOfBody
  <2>2. Same(th[t], r) /\ r.pc = "closing" /\ r.size = len[th[t].fd] /\ r.dir = FALSE
    BY <1>1 DEF Local
  <2> QED BY <2>1, <2>2
<1>8. ASSUME NEW q, NEW b, th'[t] = [th[t] EXCEPT !.pc = q, !.dir = b]
      PROVE  Same(th[t], th'[t]) /\ th'[t].pc = q /\ th'[t].dir = b
  BY <1>1, <1>8 DEF Local
<1>9. ASSUME Serve(t)
      PROVE  /\ Same(th[t], th'[t]) /\ th'[t].pc = "closing"
             /\ th'[t].size = StatSize(th[t].name.at)
             /\ th'[t].dir = IsDir(node, th[t].name.at)
  <2>0. PICK b, z : b = IsDir(node, th[t].name.at) /\ z = StatSize(th[t].name.at)
    OBVIOUS
  <2>1. th'[t] = [th[t] EXCEPT !.pc = "closing", !.size = z, !.dir = b]
    BY <1>1, <1>9, <2>0 DEF Serve
  <2>2. Same(th[t], th'[t]) /\ th'[t].pc = "closing" /\ th'[t].size = z /\ th'[t].dir = b
    BY <1>1, <2>1 DEF Local
  <2> QED BY <2>0, <2>2
<1>10. ASSUME StatBackend(t)
       PROVE  /\ Same(th[t], th'[t]) /\ th'[t].pc = "observe"
              /\ th'[t].size = StatSize(Subject(t).at)
              /\ th'[t].dir = IsDir(node, Subject(t).at)
  <2>0. PICK b, z : b = IsDir(node, Subject(t).at) /\ z = StatSize(Subject(t).at)
    OBVIOUS
  <2>1. th'[t] = [th[t] EXCEPT !.pc = "observe", !.size = z, !.dir = b]
    BY <1>1, <1>10, <2>0 DEF StatBackend
  <2>2. Same(th[t], th'[t]) /\ th'[t].pc = "observe" /\ th'[t].size = z /\ th'[t].dir = b
    BY <1>1, <2>1 DEF Local
  <2> QED BY <2>0, <2>2
<1>11. ASSUME RemoveBackend(t)
       PROVE  /\ Same(th[t], th'[t]) /\ th'[t].pc = "forget"
              /\ th'[t].dir = IsDir(node, Subject(t).at)
  <2>1. th'[t] = [th[t] EXCEPT !.pc = "forget", !.dir = IsDir(node, Subject(t).at)]
    BY <1>1, <1>11 DEF RemoveBackend
  <2> QED BY <1>8, <2>1
<1>12. ASSUME RenameBackend(t)
       PROVE  /\ Same(th[t], th'[t]) /\ th'[t].pc = "retarget"
              /\ th'[t].dir = IsDir(node, th[t].name.at)
  <2>1. th'[t] = [th[t] EXCEPT !.pc = "retarget", !.dir = IsDir(node, th[t].name.at)]
    BY <1>1, <1>12 DEF RenameBackend
  <2> QED BY <1>8, <2>1
<1> QED BY <1>2, <1>3, <1>4, <1>5, <1>6, <1>9, <1>10, <1>11, <1>12

(* A goroutine that writes goes on writing, or closes.                     *)
LEMMA WritingStep ==
  ASSUME IInv, NEW t \in Thread, Serves(th[t]), Step(t), Writing(th[t])
  PROVE  /\ th[t].method = "PUT" /\ Continues(th[t], th'[t])
         /\ Writing(th'[t]) \/ (th'[t].pc = "closing" /\ th'[t].method = "PUT")
         /\ th'[t] # Idle
<1>1. th \in [Thread -> Local] /\ th[t] \in Local
  BY IInvParts DEF IInv, TypeOK
<1>2. th[t].method = "PUT"
  BY DEF Serves, Writing
<1>3. CASE th[t].pc = "put" /\ MakeRoom(t)
  <2>1. PICK c \in ChunkSizes : EnsureSpace(t, [th[t] EXCEPT !.need = c, !.ret = "write", !.left = @ - 1])
    BY <1>3 DEF MakeRoom
  <2> DEFINE r == [th[t] EXCEPT !.need = c, !.ret = "write", !.left = @ - 1]
  <2>2. r \in Local
    <3>1. c \in Nat /\ th[t].left - 1 \in Nat
      BY <1>1, <1>3, <2>1, ConstantsAssumption DEF Local, MakeRoom
    <3> QED BY <1>1, <3>1 DEF Local, Label
  <2>3. r.method = th[t].method /\ r.name = th[t].name /\ r.to = th[t].to /\ r.ret = "write"
    BY <1>1 DEF Local
  <2>4. EnsureSpace(t, r)
    BY <2>1
  <2> HIDE DEF r
  <2> QED BY <1>2, <2>2, <2>3, <2>4, EnsureSpaceMeans DEF Idle, Writing, Evicting, Continues
<1> USE DEF Become, Goto, Writing, Evicting, Continues
<1>4. CASE th[t].pc = "put" /\ EndOfBody(t)
  BY <1>1, <1>2, <1>4 DEF EndOfBody, Local, Idle
<1>5. CASE th[t].pc = "write"
  <2>1. Write(t)
    BY <1>5, StepAt
  <2> QED BY <1>2, <2>1, FlagStepMeans DEF Same, Idle
<1>6. CASE th[t].pc \in Evicting
  <2>1. th[t].ret = "write" /\ EvictionStep(t)
    BY <1>6, StepAt
  <2>2. CASE SkipVictim(t)
    BY <1>1, <1>2, <2>1, <2>2 DEF SkipVictim, Drop, Local, Idle
  <2>3. CASE ChooseVictim(t)
    BY <1>1, <1>2, <2>1, <2>3 DEF ChooseVictim, Local, Idle
  <2>4. CASE UnlinkVictim(t)
    BY <1>1, <1>2, <2>1, <2>4 DEF UnlinkVictim, Local, Idle
  <2>5. CASE UnlinkFails(t)
    BY <1>1, <1>2, <2>1, <2>5 DEF UnlinkFails, Drop, Local, Idle
  <2>6. CASE UntrackVictim(t)
    BY <1>1, <1>2, <2>1, <2>6 DEF UntrackVictim, Drop, Local, Idle
  <2>7. CASE EndEviction(t)
    BY <1>1, <1>2, <2>1, <2>7 DEF EndEviction, Local, Idle
  <2>8. CASE SpaceFound(t)
    BY <1>2, <2>1, <2>8, FlagStepMeans DEF Same, Idle
  <2>9. CASE NoSpace(t)
    BY <1>2, <2>1, <2>9, FlagStepMeans DEF Same, Idle
  <2> QED BY <2>1, <2>2, <2>3, <2>4, <2>5, <2>6, <2>7, <2>8, <2>9 DEF EvictionStep
<1>7. th[t].pc = "put" => MakeRoom(t) \/ EndOfBody(t)
  BY StepAt
<1> QED BY <1>3, <1>4, <1>5, <1>6, <1>7

LEMMA StepServes ==
  ASSUME IInv, NEW t \in Thread, Step(t), Serves(th[t])
  PROVE  Serves(th'[t]) /\ Continues(th[t], th'[t])
BY ScanStepServes, EvictionStepServes, PutStepServes, ReadStepServes, TreeStepServes DEF Step

LEMMA OwesStep ==
  ASSUME OneDirectory, IInv, Stamped(ledger.files), NEW t \in Thread, Serves(th[t]), Step(t),
         th[t].pc # "untrack" \/ Writing(th[t]), NEW p, Owes(ledger, th[t], p)
  PROVE  Owes(ledger', th'[t], p) \/ IsTracked(ledger', Rel(p))
<1>1. CASE Writing(th[t])
  <2>1. /\ th[t].method = "PUT" /\ Continues(th[t], th'[t]) /\ th'[t] # Idle
        /\ Writing(th'[t]) \/ (th'[t].pc = "closing" /\ th'[t].method = "PUT")
    BY <1>1, WritingStep
  <2>2. Claims(th'[t]) = Claims(th[t])
    BY <2>1 DEF Continues, Claims
  <2> QED BY <2>1, <2>2 DEF Owes
<1>2. CASE th[t].pc = "closing" /\ th[t].method = "PUT"
  <2>1. Close(t)
    BY <1>2, StepAt
  <2>2. p = th[t].name.at /\ th[t].name = Rel(p) /\ p \in Path
    BY <1>2, ClaimsMeans DEF Owes, Writers
  <2>3. Sound(ledger) /\ th[t].dir \in BOOLEAN /\ th[t].size \in Nat /\ th[t].name \in Name
    BY <2>2, IInvParts, NamesOfPaths DEF Local
  <2>4. IsTracked(UpdateSize(ledger, th[t].name, th[t].dir, th[t].size), th[t].name)
    BY <2>3, SeenGrows
  <2> QED BY <2>1, <2>2, <2>4 DEF Close
<1>3. CASE th[t].pc = "retarget" /\ p = th[t].to.at /\ IsTracked(ledger, th[t].name)
  <2>1. th[t].to = Rel(p)
    BY <1>3, ClaimsMeans DEF Serves
  <2> QED BY <1>3, <2>1, FlatLedger
<1> QED BY <1>1, <1>2, <1>3 DEF Owes

LEMMA FlatBackend ==
  ASSUME OneDirectory, IInv, NEW t \in Thread, Serves(th[t]), Step(t), th[t].pc # "unlink"
  PROVE  \A p \in Path \ Claims(th[t]) : node'[p] = node[p]
<1>1. node \in [Path -> Int] /\ Root \notin Path
  <2>1. Inode \cup {Absent, Directory} \subseteq Int
    BY ConstantsAssumption DEF Absent, Directory
  <2> QED BY <2>1, IInvParts, PathsArePlaces
<1>2. CASE node' = node
  BY <1>2
<1>3. CASE Create(t)
  <2>1. th[t].method \in Writers
    BY <1>3 DEF Create, Serves, Writers
  <2>2. \E i : node' = [node EXCEPT ![th[t].name.at] = i]
    BY <1>3 DEF Create
  <2> QED BY <1>1, <2>1, <2>2, ClaimsMeans
<1>4. CASE RemoveBackend(t)
  <2>1. th[t].method \in Writers /\ Subject(t) = About(th[t])
    BY <1>4 DEF RemoveBackend, Serves, Writers, Subject, About
  <2>2. node' = Without(node, About(th[t]).at)
    BY <1>4, <2>1 DEF RemoveBackend
  <2> QED BY <1>1, <2>1, <2>2, ClaimsMeans DEF Without, OneDirectory
<1>5. CASE RenameBackend(t)
  <2>1. th[t].method = "MOVE"
    BY <1>5 DEF RenameBackend, Serves
  <2>2. node' = Renamed(node, th[t].name.at, th[t].to.at)
    BY <1>5 DEF RenameBackend
  <2> QED BY <1>1, <2>1, <2>2, ClaimsMeans DEF Renamed, OneDirectory
<1>6. CASE MkdirBackend(t)
  <2>1. th[t].method \in Writers
    BY <1>6 DEF MkdirBackend, Ready, Writers
  <2>2. node' = [node EXCEPT ![th[t].name.at] = Directory]
    BY <1>6 DEF MkdirBackend
  <2> QED BY <1>1, <2>1, <2>2, ClaimsMeans
<1>7. ~UnlinkVictim(t)
  BY DEF UnlinkVictim
<1> QED BY <1>2, <1>3, <1>4, <1>5, <1>6, <1>7, StepBackend

(* Which step brings a goroutine where.                                    *)
LEMMA StepTo ==
  ASSUME IInv, NEW t \in Thread, Step(t)
  PROVE  /\ th'[t].pc = "forget" => RemoveBackend(t)
         /\ th'[t].pc = "retarget" => RenameBackend(t)
         /\ th'[t].pc = "untrack" => UnlinkVictim(t)
         /\ th'[t].pc = "unlink" => ChooseVictim(t)
         /\ th'[t].pc = "closing" => EndOfBody(t) \/ Serve(t)
         /\ th'[t].pc = "observe" => StatBackend(t)
         /\ th'[t].pc = "track" => MkdirBackend(t)
         /\ th'[t].pc = "open" => OpenForReading(t)
<1>1. th \in [Thread -> Local] /\ th[t] \in Local /\ ControlOK(th[t])
  BY IInvParts DEF IInv, TypeOK
<1> DEFINE New == {"forget", "retarget", "untrack", "unlink", "closing", "observe", "track", "open"}
<1> USE DEF Become, Goto
<1>2. ASSUME Finish(t) PROVE th'[t].pc \notin New
  BY <1>1, <1>2 DEF Finish, Idle
<1>3. ASSUME NEW r \in Local, EnsureSpace(t, r), r.ret \in {"scan", "begin", "create", "write"}
      PROVE  th'[t].pc \notin New
  <2>1. th'[t].pc = r.ret \/ th'[t].pc = "evict"
    BY <1>3, EnsureSpaceMeans
  <2> QED BY <1>3, <2>1
<1>4. CASE ScanStep(t)
  <2>1. CASE StartScan(t)
    BY <1>1, <2>1 DEF StartScan, Local
  <2>2. CASE ScanList(t)
    BY <1>1, <2>2 DEF ScanList, Local
  <2>3. CASE ScanFails(t)
    BY <1>2, <2>3 DEF ScanFails
  <2>4. CASE ScanEntry(t)
    <3>1. th[t].pc = "scan" /\ \E s : th'[t] = [th[t] EXCEPT !.scan = s]
      BY <1>1, <2>4 DEF ScanEntry
    <3>2. th'[t].pc = "scan"
      BY <1>1, <3>1 DEF Local
    <3> QED BY <3>2
  <2>5. CASE ScanSpace(t)
    <3>0. PICK q \in {"scan", "begin"} : q = IF Len(th[t].scan) = 1 THEN "begin" ELSE "scan"
      OBVIOUS
    <3>1. Tail(th[t].scan) \in Seq(Frame)
      BY <2>5, ScanParts DEF ScanSpace
    <3> DEFINE r == [th[t] EXCEPT !.scan = Tail(@), !.need = 0, !.ret = q]
    <3>2. r.ret \in {"scan", "begin"}
      BY <1>1 DEF Local
    <3>3. r \in Local
      BY <1>1, <3>1, ZenonT(60) DEF Local, Label
    <3>4. EnsureSpace(t, r)
      BY <2>5, <3>0 DEF ScanSpace
    <3> HIDE DEF r
    <3> QED BY <1>3, <3>2, <3>3, <3>4
  <2> QED BY <1>4, <2>1, <2>2, <2>3, <2>4, <2>5 DEF ScanStep
<1>5. CASE EvictionStep(t)
  <2>1. CASE SkipVictim(t)
    BY <1>1, <2>1 DEF SkipVictim, Drop, Local
  <2>2. CASE ChooseVictim(t)
    BY <1>1, <2>2 DEF ChooseVictim, Local
  <2>3. CASE UnlinkVictim(t)
    BY <1>1, <2>3 DEF UnlinkVictim, Local
  <2>4. CASE UnlinkFails(t)
    BY <2>4, FlagStepMeans
  <2>5. CASE UntrackVictim(t)
    BY <1>1, <2>5 DEF UntrackVictim, Drop, Local
  <2>6. CASE EndEviction(t)
    BY <1>1, <2>6 DEF EndEviction, Local
  <2>7. CASE SpaceFound(t)
    <3>1. th[t].ret \in {"create", "write", "scan", "begin"} /\ th'[t].pc = th[t].ret
      BY <1>1, <2>7, FlagStepMeans DEF SpaceFound, ControlOK, Evicting
    <3> QED BY <3>1
  <2>8. CASE NoSpace(t)
    BY <2>8, FlagStepMeans DEF Idle
  <2> QED BY <1>5, <2>1, <2>2, <2>3, <2>4, <2>5, <2>6, <2>7, <2>8 DEF EvictionStep
<1>6. CASE PutStep(t)
  <2>1. CASE OpenForWriting(t)
    <3> DEFINE r == [th[t] EXCEPT !.need = 0, !.ret = "create"]
    <3>1. r \in Local /\ r.ret = "create"
      BY <1>1 DEF Local, Label
    <3>2. EnsureSpace(t, r)
      BY <2>1 DEF OpenForWriting
    <3> HIDE DEF r
    <3> QED BY <1>3, <3>1, <3>2
  <2>2. CASE Truncate(t)
    BY <1>1, <2>2 DEF Truncate, Local
  <2>3. CASE Create(t)
    BY <1>1, <2>3 DEF Create, Local
  <2>4. CASE CreateFails(t)
    BY <1>2, <2>4 DEF CreateFails
  <2>5. CASE MakeRoom(t)
    <3>1. PICK c \in ChunkSizes : EnsureSpace(t, [th[t] EXCEPT !.need = c, !.ret = "write", !.left = @ - 1])
      BY <2>5 DEF MakeRoom
    <3> DEFINE r == [th[t] EXCEPT !.need = c, !.ret = "write", !.left = @ - 1]
    <3>2. c \in Nat /\ th[t].left - 1 \in Nat
      BY <1>1, <2>5, <3>1, ConstantsAssumption DEF Local, MakeRoom
    <3>3. r \in Local /\ r.ret = "write"
      BY <1>1, <3>2 DEF Local, Label
    <3>4. EnsureSpace(t, r)
      BY <3>1
    <3> HIDE DEF r
    <3> QED BY <1>3, <3>3, <3>4
  <2>6. CASE Write(t)
    BY <2>6, FlagStepMeans
  <2>7. CASE EndOfBody(t)
    BY <2>7, FlagStepMeans
  <2> QED BY <1>6, <2>1, <2>2, <2>3, <2>4, <2>5, <2>6, <2>7 DEF PutStep
<1>7. CASE ReadStep(t)
  <2>1. CASE OpenForReading(t)
    BY <1>1, <2>1 DEF OpenForReading, Local
  <2>2. CASE Serve(t)
    BY <2>2, FlagStepMeans
  <2>3. CASE OpenFails(t) \/ Close(t) \/ StatFails(t)
    BY <1>2, <2>3 DEF OpenFails, Close, StatFails
  <2>4. CASE StatBackend(t)
    BY <2>4, FlagStepMeans
  <2>5. CASE DestinationFree(t)
    BY <1>1, <2>5 DEF DestinationFree, Local
  <2>6. CASE ObserveStat(t)
    <3>1. Finish(t) \/ Goto(t, "remove")
      BY <2>6 DEF ObserveStat
    <3>2. CASE Goto(t, "remove")
      BY <1>1, <3>2 DEF Local
    <3> QED BY <1>2, <3>1, <3>2
  <2> QED BY <1>7, <2>1, <2>2, <2>3, <2>4, <2>5, <2>6 DEF ReadStep
<1>8. CASE TreeStep(t)
  <2>1. CASE RemoveBackend(t)
    BY <2>1, FlagStepMeans
  <2>2. CASE RenameBackend(t)
    BY <2>2, FlagStepMeans
  <2>3. CASE RemoveFails(t) \/ RemovePanics(t) \/ RenameFails(t) \/ Retarget(t) \/ MkdirFails(t) \/ TrackMkdir(t)
    BY <1>2, <2>3 DEF RemoveFails, RemovePanics, RenameFails, Retarget, MkdirFails, TrackMkdir
  <2>4. CASE ForgetRemoved(t)
    <3>1. Finish(t) \/ Goto(t, "rename")
      BY <2>4 DEF ForgetRemoved
    <3>2. CASE Goto(t, "rename")
      BY <1>1, <3>2 DEF Local
    <3> QED BY <1>2, <3>1, <3>2
  <2>5. CASE MkdirBackend(t)
    BY <1>1, <2>5 DEF MkdirBackend, Local
  <2> QED BY <1>8, <2>1, <2>2, <2>3, <2>4, <2>5 DEF TreeStep
<1> QED BY <1>4, <1>5, <1>6, <1>7, <1>8 DEF Step

(* What a step leaves on disk among its own names is recorded, or will be. *)
LEMMA OwnFile ==
  ASSUME OneDirectory, IInv, NInv, NEW t \in Thread, Step(t), th[t].pc # "unlink",
         NEW p \in Claims(th[t]), IsFile(node', p)
  PROVE  IsTracked(ledger', Rel(p)) \/ Owes(ledger', th'[t], p)
<1>1. /\ Stamped(ledger.files) /\ Serves(th[t]) /\ Gone(th[t]) /\ th[t].pc # "untrack"
      /\ node \in [Path -> Inode \cup {Absent, Directory}] /\ Root \notin Path
  BY IInvParts, PathsArePlaces DEF NInv
<1>2. p \in Path /\ p # Root
  BY <1>1, ClaimsMeans
<1>3. ASSUME NEW q \in Claims(th[t]), IsFile(node, q)
      PROVE  IsTracked(ledger, Rel(q)) \/ Owes(ledger, th[t], q)
  <2>1. q \in Path
    BY <1>1, ClaimsMeans
  <2>2. \A u \in Thread : Owes(ledger, th[u], q) => u = t
    BY DEF NInv, Owes
  <2> QED BY <1>3, <2>1, <2>2 DEF NInv, Accounted
<1>4. Continues(th[t], th'[t])
  BY <1>1, StepServes
<1>5. CASE node' = node
  <2>1. CASE Owes(ledger, th[t], p)
    BY <1>1, <2>1, OwesStep
  <2>2. CASE IsTracked(ledger, Rel(p))
    <3>1. node[p] # Absent
      BY <1>2, <1>5 DEF IsFile, At, Absent
    <3> QED BY <1>1, <1>2, <2>2, <3>1, FlatLedger DEF Gone
  <2> QED BY <1>3, <1>5, <2>1, <2>2
<1>6. CASE Create(t)
  <2>1. PICK i : th' = [th EXCEPT ![t] = [th[t] EXCEPT !.pc = "put", !.fd = i]]
    BY <1>6 DEF Create, Become
  <2>2. th'[t].pc = "put" /\ th'[t] # Idle
    BY <2>1, IInvParts DEF IInv, TypeOK, Local, Idle
  <2>3. Claims(th'[t]) = Claims(th[t])
    BY <1>4, <2>2 DEF Continues, Claims
  <2> QED BY <2>2, <2>3 DEF Owes, Writing
<1>7. CASE RemoveBackend(t)
  <2>1. /\ th[t].pc = "remove" /\ th[t].method \in {"DELETE", "MOVE"}
        /\ node' = Without(node, About(th[t]).at) /\ ledger' = ledger
    BY <1>1, <1>7 DEF RemoveBackend, Serves, Subject, About
  <2>2. p # About(th[t]).at /\ IsFile(node, p)
    BY <1>2, <2>1 DEF Without, OneDirectory, IsFile, At, Absent
  <2>3. ~Owes(ledger, th[t], p)
    BY <2>1 DEF Owes, Writing, Evicting
  <2> QED BY <1>3, <2>1, <2>2, <2>3
<1>8. CASE RenameBackend(t)
  <2>1. /\ th[t].pc = "rename" /\ th[t].method = "MOVE" /\ ledger' = ledger
        /\ node' = Renamed(node, th[t].name.at, th[t].to.at)
    BY <1>1, <1>8 DEF RenameBackend, Serves
  <2>2. /\ Claims(th[t]) = {th[t].name.at, th[t].to.at} /\ th[t].name.at # th[t].to.at
        /\ th[t].name = Rel(th[t].name.at) /\ th[t].to.at \in Path /\ th[t].name.at \in Path
    BY <1>1, <2>1, ClaimsMeans DEF Movable
  <2>3. p = th[t].to.at /\ node'[p] = node[th[t].name.at]
    BY <1>2, <2>1, <2>2 DEF Renamed, OneDirectory, IsFile, At, Absent
  <2>4. IsFile(node, th[t].name.at)
    BY <1>1, <1>2, <2>2, <2>3 DEF IsFile, At
  <2>5. ~Owes(ledger, th[t], th[t].name.at)
    BY <2>1 DEF Owes, Writing, Evicting
  <2>6. IsTracked(ledger, th[t].name)
    BY <1>3, <2>2, <2>4, <2>5
  <2>7. Same(th[t], th'[t]) /\ th'[t].pc = "retarget"
    BY <1>8, FlagStepMeans
  <2>8. Claims(th'[t]) = Claims(th[t])
    BY <2>7 DEF Claims, Same
  <2> QED BY <2>1, <2>3, <2>6, <2>7, <2>8 DEF Owes, Same
<1>9. CASE MkdirBackend(t)
  <2>1. th[t].method = "MKCOL" /\ node' = [node EXCEPT ![th[t].name.at] = Directory]
    BY <1>9 DEF MkdirBackend, Ready
  <2>2. p = th[t].name.at
    BY <1>1, <2>1, ClaimsMeans DEF Writers
  <2> QED BY <1>1, <1>2, <2>1, <2>2 DEF IsFile, At, Directory
<1>10. ~UnlinkVictim(t)
  BY DEF UnlinkVictim
<1> QED BY <1>5, <1>6, <1>7, <1>8, <1>9, <1>10, StepBackend

(* What a goroutine is about to drop is gone.                              *)
LEMMA GoneStep ==
  ASSUME OneDirectory, IInv, NEW t \in Thread, Serves(th[t]), Step(t)
  PROVE  Gone(th[t])'
<1>1. th \in [Thread -> Local] /\ th[t] \in Local /\ node \in [Path -> Inode \cup {Absent, Directory}]
  BY IInvParts DEF IInv, TypeOK
<1>2. CASE RemoveBackend(t)
  <2>1. th[t].method \in {"DELETE", "MOVE"} /\ node' = Without(node, About(th[t]).at)
    BY <1>2 DEF RemoveBackend, Serves, Subject, About
  <2>2. About(th[t]).at \in Path
    BY <2>1, ClaimsMeans DEF Writers
  <2>3. th'[t].pc = "forget" /\ About(th'[t]) = About(th[t])
    BY <1>2, FlagStepMeans DEF Same, About
  <2> QED BY <1>1, <2>1, <2>2, <2>3 DEF Gone, Without
<1>3. CASE RenameBackend(t)
  <2>1. th[t].method = "MOVE" /\ node' = Renamed(node, th[t].name.at, th[t].to.at)
        /\ CanRename(node, th[t].name.at, th[t].to.at)
    BY <1>3 DEF RenameBackend, Serves
  <2>2. /\ th[t].name.at \in Path /\ th[t].to.at \in Path /\ Movable(th[t].name.at, th[t].to.at)
    BY <2>1, ClaimsMeans DEF Writers
  <2>3. th'[t].pc = "retarget" /\ th'[t].name = th[t].name
    BY <1>3, FlagStepMeans DEF Same
  <2>4. node'[th[t].name.at] = Absent
    BY <1>1, <2>1, <2>2 DEF OneDirectory, Renamed, Movable
  <2> QED BY <2>3, <2>4 DEF Gone
<1>4. CASE ~RemoveBackend(t) /\ ~RenameBackend(t)
  <2>1. th'[t].pc \notin {"forget", "retarget"}
    BY <1>4, StepTo
  <2> QED BY <2>1 DEF Gone
<1> QED BY <1>2, <1>3, <1>4

(* The other goroutines stay where they are.                               *)
LEMMA OthersStay ==
  ASSUME IInv, NEW t \in Thread, Step(t) \/ Request(t)
  PROVE  \A u \in Thread \ {t} : th'[u] = th[u]
<1>1. th \in [Thread -> Local]
  BY DEF IInv, TypeOK
<1>2. \E r : th' = [th EXCEPT ![t] = r]
  <2>1. CASE Request(t)
    BY <2>1 DEF Request, IssueRead, IssueWrite, IssueMove, Issue, Become
  <2>2. CASE ScanStep(t)
    BY <2>2 DEF ScanStep, StartScan, ScanList, ScanFails, ScanEntry, ScanSpace, EnsureSpace, Become, Finish
  <2>3. CASE EvictionStep(t)
    BY <2>3 DEF EvictionStep, SkipVictim, ChooseVictim, UnlinkVictim, UnlinkFails, UntrackVictim,
                EndEviction, SpaceFound, NoSpace, Become, Finish, Goto
  <2>4. CASE PutStep(t)
    BY <2>4 DEF PutStep, OpenForWriting, Truncate, Create, CreateFails, MakeRoom, Write, EndOfBody,
                EnsureSpace, Become, Finish, Goto
  <2>5. CASE ReadStep(t)
    BY <2>5 DEF ReadStep, OpenForReading, Serve, OpenFails, Close, StatBackend, StatFails,
                DestinationFree, ObserveStat, Become, Finish, Goto
  <2>6. CASE TreeStep(t)
    BY <2>6 DEF TreeStep, RemoveBackend, RemoveFails, RemovePanics, ForgetRemoved, RenameBackend,
                RenameFails, Retarget, MkdirBackend, MkdirFails, TrackMkdir, Become, Finish, Goto
  <2> QED BY <2>1, <2>2, <2>3, <2>4, <2>5, <2>6 DEF Step
<1> QED BY <1>1, <1>2

LEMMA StepKeepsNInv ==
  ASSUME OneDirectory, IInv, NInv, NothingEvicted, NEW t \in Thread, Step(t)
  PROVE  NInv'
<1>1. /\ Stamped(ledger.files) /\ Serves(th[t]) /\ th[t].pc \notin {"untrack", "unlink"}
      /\ th'[t] \in Local /\ Root \notin Path
  BY NextKeeps, IInvParts, ConstantsAssumption, PathsArePlaces DEF NInv, NothingEvicted, IInv, TypeOK, Next
<1>2. \A u \in Thread \ {t} : th'[u] = th[u] /\ Serves(th[u])
  BY OthersStay DEF NInv
<1>3. Serves(th'[t]) /\ Continues(th[t], th'[t])
  BY <1>1, StepServes
<1>4. Claims(th'[t]) \subseteq Claims(th[t])
  BY <1>3 DEF Continues, Claims, Idle, Writers
<1>5. \A p \in Path \ Claims(th[t]) : node'[p] = node[p]
  BY <1>1, FlatBackend
<1>6. /\ Stamped(ledger'.files)
      /\ \A p \in Path : IsTracked(ledger, Rel(p)) =>
               \/ IsTracked(ledger', Rel(p))
               \/ th[t].pc = "forget" /\ p = About(th[t]).at
               \/ th[t].pc = "retarget" /\ p = th[t].name.at
  BY <1>1, FlatLedger
<1>7. \A p \in Path \ Claims(th[t]) : IsTracked(ledger, Rel(p)) => IsTracked(ledger', Rel(p))
  <2>1. th[t].pc = "forget" => About(th[t]).at \in Claims(th[t])
    BY <1>1, ClaimsMeans DEF Serves, Writers
  <2>2. th[t].pc = "retarget" => th[t].name.at \in Claims(th[t])
    BY <1>1, ClaimsMeans DEF Serves, Writers
  <2> QED BY <1>6, <2>1, <2>2
<1>8. ASSUME NEW u \in Thread
      PROVE  Serves(th'[u]) /\ Gone(th[u])' /\ th'[u].pc # "untrack"
  <2>1. CASE u = t
    <3>1. th'[t].pc # "untrack"
      BY <1>1, StepTo DEF UnlinkVictim
    <3> QED BY <1>1, <1>3, <2>1, <3>1, GoneStep
  <2>2. CASE u # t
    <3>1. th'[u] = th[u] /\ Serves(th[u]) /\ Gone(th[u]) /\ th[u].pc # "untrack"
          /\ Claims(th[t]) \cap Claims(th[u]) = {}
      BY <1>2, <2>2 DEF NInv
    <3>2. th[u].pc \in {"forget", "retarget"} =>
             /\ About(th[u]).at \in Path \ Claims(th[t])
             /\ th[u].name.at \in Path \ Claims(th[t])
      BY <3>1, ClaimsMeans DEF Serves, Writers
    <3> QED BY <1>5, <3>1, <3>2 DEF Gone
  <2> QED BY <2>1, <2>2
<1>9. ASSUME NEW u \in Thread, NEW v \in Thread, u # v
      PROVE  Claims(th'[u]) \cap Claims(th'[v]) = {}
  BY <1>2, <1>4, <1>9 DEF NInv
<1>10. ASSUME NEW p \in Path, IsFile(node', p)
       PROVE  IsTracked(ledger', Rel(p)) \/ \E u \in Thread : Owes(ledger', th'[u], p)
  <2>1. CASE p \in Claims(th[t])
    BY <1>1, <1>10, <2>1, OwnFile
  <2>2. CASE p \notin Claims(th[t])
    <3>1. IsFile(node, p)
      BY <1>1, <1>5, <1>10, <2>2 DEF IsFile, At
    <3>2. CASE IsTracked(ledger, Rel(p))
      BY <1>7, <2>2, <3>2
    <3>3. ASSUME NEW u \in Thread, Owes(ledger, th[u], p)
          PROVE  Owes(ledger', th'[u], p)
      <4>1. u # t
        BY <2>2, <3>3 DEF Owes
      <4>2. th'[u] = th[u] /\ Serves(th[u]) /\ Claims(th[t]) \cap Claims(th[u]) = {}
        BY <1>2, <4>1 DEF NInv
      <4>3. th[u].pc = "retarget" =>
               th[u].name = Rel(th[u].name.at) /\ th[u].name.at \in Path \ Claims(th[t])
        BY <4>2, ClaimsMeans DEF Serves, Writers
      <4> QED BY <1>7, <3>3, <4>2, <4>3 DEF Owes
    <3> QED BY <3>1, <3>2, <3>3 DEF NInv, Accounted
  <2> QED BY <2>1, <2>2
<1> QED BY <1>6, <1>8, <1>9, <1>10 DEF NInv, Accounted

LEMMA RequestKeepsNInv ==
  ASSUME OneDirectory, IInv, NInv, NEW t \in Thread, Request(t)
  PROVE  NInv'
<1>1. UNCHANGED <<node, ledger>> /\ th[t].pc = "idle" /\ Serves(th[t])
  BY DEF Request, IssueRead, IssueWrite, IssueMove, Issue, NInv
<1>2. \A u \in Thread \ {t} : th'[u] = th[u]
  BY OthersStay
<1>3. Serves(th'[t]) /\ th'[t].pc = "enter" /\ Claims(th'[t]) \cap Held = {}
  BY <1>1, RequestServes
<1>4. \A u \in Thread : Claims(th[u]) \subseteq Held
  BY HeldAreClaims
<1>5. \A u \in Thread : Serves(th'[u]) /\ Gone(th[u])' /\ th'[u].pc # "untrack"
  BY <1>1, <1>2, <1>3 DEF NInv, Gone
<1>6. \A u, v \in Thread : u # v => Claims(th'[u]) \cap Claims(th'[v]) = {}
  BY <1>2, <1>3, <1>4 DEF NInv
<1>7. ASSUME NEW p \in Path, IsFile(node', p)
      PROVE  IsTracked(ledger', Rel(p)) \/ \E u \in Thread : Owes(ledger', th'[u], p)
  <2>1. ~Owes(ledger, th[t], p)
    BY <1>1 DEF Owes, Writing, Evicting
  <2> QED BY <1>1, <1>2, <1>7, <2>1 DEF NInv, Accounted
<1> QED BY <1>1, <1>5, <1>6, <1>7 DEF NInv, Accounted

LEMMA NInvKept ==
  ASSUME OneDirectory, IInv, NInv, NothingEvicted, [Next]_vars
  PROVE  NInv'
<1>1. CASE UNCHANGED vars
  BY <1>1 DEF vars, NInv, Accounted, Gone
<1>2. ~Restart
  BY ConstantsAssumption DEF Restart, OneDirectory, IInv, TypeOK
<1>3. BudgetSpent => UNCHANGED vars
  BY DEF BudgetSpent
<1> QED BY <1>1, <1>2, <1>3, StepKeepsNInv, RequestKeepsNInv DEF Next

(* Nothing is recorded before the process starts, and there is nothing to  *)
(* record.                                                                 *)
LEMMA EmptyStamped == Stamped(EmptyLedger.files)
<1>1. Cardinality(Name) \in Nat
  BY NameFinite, FS_CardinalityType
<1> QED BY <1>1 DEF Stamped, EmptyLedger, NoEntry, Tracked

LEMMA InitNInv ==
  ASSUME OneDirectory, Init
  PROVE  NInv
<1>1. Stamped(ledger.files)
  BY EmptyStamped DEF Init
<1>2. \A t \in Thread : th[t] = Idle
  BY DEF Init
<1>3. \A t \in Thread : Serves(th[t]) /\ Gone(th[t]) /\ th[t].pc # "untrack" /\ Claims(th[t]) = {}
  <2>1. Gone(Idle) /\ Idle.pc # "untrack" /\ Claims(Idle) = {}
    BY DEF Gone, Idle, Claims, Writers
  <2> QED BY <1>2, <2>1, IdleServes
<1>4. \A p \in Path : ~IsFile(node, p)
  BY DEF Init, OneDirectory
<1> QED BY <1>1, <1>3, <1>4 DEF NInv

(* A file that clients have made is never missing from the ledger when no  *)
(* request is under way, however their requests on the files of one        *)
(* directory interleave and whatever the backend refuses, as long as       *)
(* nothing is evicted (filesystem.go:127, :181, :253, :507): another       *)
(* goroutine between a backend's call and the update that follows it can   *)
(* leave an entry too many, never one too few.                             *)
THEOREM FilesStayRecorded ==
  OneDirectory => (Spec /\ []NothingEvicted => []NoFileEscapes)
<1> SUFFICES ASSUME OneDirectory PROVE Spec /\ []NothingEvicted => []NoFileEscapes
  OBVIOUS
<1>1. Init => NInv
  BY InitNInv
<1>2. IInv /\ NInv /\ NothingEvicted /\ [Next]_vars => NInv'
  BY NInvKept
<1>3. NInv => NoFileEscapes
  <2> SUFFICES ASSUME NInv, Quiet, NEW p \in Path, IsFile(node, p)
               PROVE  IsTracked(ledger, Rel(p))
    BY DEF NoFileEscapes
  <2>1. \A t \in Thread : ~Owes(ledger, th[t], p)
    BY DEF Quiet, Owes, Writing, Evicting
  <2> QED BY <2>1 DEF NInv, Accounted
<1> QED BY <1>1, <1>2, <1>3, Invariant, PTL DEF Spec

-----------------------------------------------------------------------------
(* What it means that a ledger tells what is on disk                       *)
-----------------------------------------------------------------------------
(* The entry of p tells what tree and lens hold there.  An entry may be    *)
(* left where there is nothing, but not where there is no directory to put *)
(* anything in.                                                            *)
Tells(f, tree, lens, p) ==
    /\ f[Rel(p)].kind = "dir" <=> tree[p] = Directory
    /\ tree[p] > 0 => f[Rel(p)].kind = "file" /\ f[Rel(p)].size = lens[tree[p]]
    /\ f[Rel(p)].kind # "none" => IsDir(tree, Parent(p))

(* All entries do, except those of S, under the names clients use only.    *)
Records(f, tree, lens, S) ==
    /\ Stamped(f)
    /\ \A p \in Path : f[Abs(p)].kind = "none"
    /\ \A p \in Path \ S : Tells(f, tree, lens, p)

(* The stamps of f changed, the lengths of files it does not tell about.   *)
LEMMA RecordsSame ==
  ASSUME NEW f, NEW tree, NEW lens, NEW S, Records(f, tree, lens, S),
         NEW g, Stamped(g), SameEntries(f, g, Name), NEW T, S \subseteq T,
         NEW lens2, \A p \in Path \ T : tree[p] > 0 => lens2[tree[p]] = lens[tree[p]]
  PROVE  Records(g, tree, lens2, T)
<1>1. \A p \in Path : g[Abs(p)].kind = "none"
  BY NamesOfPaths DEF Records, SameEntries
<1>2. ASSUME NEW p \in Path \ T PROVE Tells(g, tree, lens2, p)
  <2>1. Tells(f, tree, lens, p) /\ g[Rel(p)].kind = f[Rel(p)].kind /\ g[Rel(p)].size = f[Rel(p)].size
    BY NamesOfPaths DEF Records, SameEntries
  <2> QED BY <2>1 DEF Tells
<1> QED BY <1>1, <1>2 DEF Records

(* The entry of p is put right.                                            *)
LEMMA RecordsSet ==
  ASSUME NEW f, NEW tree, NEW lens, NEW S, Records(f, tree, lens, S), NEW p \in Path,
         NEW g, Stamped(g), SameBut(f, g, Rel(p)), Tells(g, tree, lens, p)
  PROVE  Records(g, tree, lens, S \ {p})
<1>1. \A q \in Path : g[Abs(q)].kind = "none"
  BY NamesOfPaths DEF Records, SameBut
<1>2. ASSUME NEW q \in Path \ (S \ {p}) PROVE Tells(g, tree, lens, q)
  <2>1. CASE q = p
    BY <2>1
  <2>2. CASE q # p
    <3>1. Tells(f, tree, lens, q) /\ g[Rel(q)].kind = f[Rel(q)].kind /\ g[Rel(q)].size = f[Rel(q)].size
      BY <2>2, NamesOfPaths DEF Records, SameBut
    <3> QED BY <3>1 DEF Tells
  <2> QED BY <2>1, <2>2
<1> QED BY <1>1, <1>2 DEF Records

(* Something that is not a directory is unlinked.                          *)
LEMMA RecordsUnlinked ==
  ASSUME Closed, NEW f, NEW tree \in [Path -> Int], IsTree(tree), NEW lens, NEW S,
         Records(f, tree, lens, S), NEW p \in Path, tree[p] # Directory
  PROVE  Records(f, Without(tree, p), lens, S)
<1>1. PICK now : now = Without(tree, p)
  OBVIOUS
<1>2. \A q \in Path : IF q = p THEN now[q] = Absent ELSE now[q] = tree[q]
  BY <1>1, WithoutIsTree DEF AtOrUnder, IsTree, Directory, Absent
<1>3. ASSUME NEW q \in Path \ S PROVE Tells(f, now, lens, q)
  <2>1. Tells(f, tree, lens, q)
    BY DEF Records
  <2>2. IsDir(tree, Parent(q)) => IsDir(now, Parent(q))
    BY <1>2, ParentIsPath DEF IsDir, At
  <2>3. CASE q = p
    BY <1>2, <2>1, <2>2, <2>3 DEF Tells, Absent, Directory
  <2>4. CASE q # p
    BY <1>2, <2>1, <2>2, <2>4 DEF Tells
  <2> QED BY <2>3, <2>4
<1> QED BY <1>1, <1>3 DEF Records

(* Something is made where nothing was.                                    *)
LEMMA RecordsMade ==
  ASSUME Closed, NEW f, NEW tree \in [Path -> Int], IsTree(tree), NEW lens,
         Records(f, tree, lens, {}), NEW p \in Path, CanMake(tree, p), NEW i \in Int
  PROVE  Records(f, [tree EXCEPT ![p] = i], lens, {p})
<1>1. PICK now : now = [tree EXCEPT ![p] = i]
  OBVIOUS
<1>2. \A q \in Path \ {p} : now[q] = tree[q]
  BY <1>1
<1>3. ASSUME NEW q \in Path \ {p} PROVE Tells(f, now, lens, q)
  <2>1. Tells(f, tree, lens, q)
    BY DEF Records
  <2>2. IsDir(tree, Parent(q)) => IsDir(now, Parent(q))
    BY <1>2, ParentIsPath DEF IsDir, At, CanMake, Absent, Directory
  <2> QED BY <1>2, <2>1, <2>2 DEF Tells
<1> QED BY <1>1, <1>3 DEF Records

(* Nothing is recorded below what is not a directory.                      *)
LEMMA NothingBelow ==
  ASSUME Closed, NEW f, NEW tree, IsTree(tree), NEW lens, Records(f, tree, lens, {}),
         NEW p \in Path, tree[p] # Directory, NEW q \in Path, IsUnder(q, p)
  PROVE  f[Rel(q)].kind = "none" /\ tree[q] = Absent
<1>1. tree[q] = Absent
  BY DEF IsTree
<1>2. Tells(f, tree, lens, q) /\ p \in Place
  BY PathsArePlaces DEF Records
<1>3. Parent(q) # Root /\ Parent(q) \in Path /\ (Parent(q) = p \/ IsUnder(Parent(q), p))
  <2>1. p = Parent(q) \/ IsUnder(Parent(q), p)
    BY <1>2, UnderParent
  <2>2. Parent(q) # Root
    BY <2>1, PathsArePlaces DEF IsUnder
  <2> QED BY <2>1, <2>2, ParentIsPath
<1>4. ~IsDir(tree, Parent(q))
  BY <1>3 DEF IsDir, At, IsTree, Directory, Absent
<1> QED BY <1>1, <1>2, <1>4 DEF Tells

(* A directory and what is below it are removed, on both sides.            *)
LEMMA RecordsRemoved ==
  ASSUME Closed, NEW l, Sound(l), NEW tree \in [Path -> Int], IsTree(tree), NEW lens,
         Records(l.files, tree, lens, {}), NEW p \in Path
  PROVE  Records(UntrackTree(l, Rel(p)).files, Without(tree, p), lens, {})
<1>1. PICK f, now, g : f = l.files /\ now = Without(tree, p) /\ g = UntrackTree(l, Rel(p)).files
  OBVIOUS
<1>2. \A q \in Path : IF AtOrUnder(q, p) THEN now[q] = Absent ELSE now[q] = tree[q]
  BY <1>1, WithoutIsTree
<1>3. /\ \A q \in Path :
            /\ g[Abs(q)].kind = f[Abs(q)].kind
            /\ IF AtOrUnder(q, p) THEN g[Rel(q)].kind = "none"
               ELSE g[Rel(q)].kind = f[Rel(q)].kind /\ g[Rel(q)].size = f[Rel(q)].size
      /\ Stamped(g)
  BY <1>1, UntrackTreeMeans DEF Records
<1>4. ASSUME NEW q \in Path PROVE Tells(g, now, lens, q)
  <2>1. CASE AtOrUnder(q, p)
    BY <1>2, <1>3, <2>1 DEF Tells, Absent, Directory
  <2>2. CASE ~AtOrUnder(q, p)
    <3>1. Tells(f, tree, lens, q)
      BY <1>1 DEF Records
    <3>2. IsDir(tree, Parent(q)) => IsDir(now, Parent(q))
      <4>1. CASE Parent(q) = Root
        BY <4>1 DEF IsDir, At
      <4>2. CASE Parent(q) # Root
        <5>1. Parent(q) \in Path /\ Parent(q) \in Place /\ p \in Place /\ q \in Place
          BY <4>2, ParentIsPath, PathsArePlaces
        <5>2. ~AtOrUnder(Parent(q), p)
          BY <2>2, <4>2, <5>1, UnderParent DEF AtOrUnder
        <5> QED BY <1>2, <4>2, <5>1, <5>2 DEF IsDir, At
      <4> QED BY <4>1, <4>2
    <3> QED BY <1>2, <1>3, <2>2, <3>1, <3>2 DEF Tells
  <2> QED BY <2>1, <2>2
<1> QED BY <1>1, <1>3, <1>4 DEF Records

(* A rename keeps the parents of what it moves.                            *)
LEMMA RebaseParent ==
  ASSUME Closed, NEW src \in Path, NEW dst \in Path, NEW q \in Path, IsUnder(q, src)
  PROVE  /\ Parent(q) \in Path /\ AtOrUnder(Parent(q), src)
         /\ Rebase(q, src, dst) \in Path => Rebase(Parent(q), src, dst) = Parent(Rebase(q, src, dst))
<1>1. src \in Place /\ dst \in Place /\ q \in Place /\ Len(src) \in Nat /\ Len(dst) \in Nat /\ Len(q) \in Nat
  BY PathsArePlaces
<1>2. src = Parent(q) \/ IsUnder(Parent(q), src)
  BY <1>1, UnderParent
<1>3. Parent(q) \in Path /\ AtOrUnder(Parent(q), src)
  <2>1. Parent(q) # Root
    BY <1>2, PathsArePlaces DEF IsUnder
  <2> QED BY <1>2, <2>1, ParentIsPath DEF AtOrUnder
<1>4. ASSUME Rebase(q, src, dst) \in Path
      PROVE  Rebase(Parent(q), src, dst) = Parent(Rebase(q, src, dst))
  <2>1. PICK a \in Path, u \in Path : a = Rebase(q, src, dst) /\ u = Parent(q)
    BY <1>3, <1>4
  <2>0. u \in Place /\ (u = src \/ IsUnder(u, src)) /\ (q = src \/ IsUnder(q, src))
    BY <1>2, <2>1, PathsArePlaces
  <2>r. /\ Rebase(u, src, dst) \in Place
        /\ Len(Rebase(u, src, dst)) = Len(dst) + Len(u) - Len(src)
        /\ \A i \in 1 .. Len(dst) : Rebase(u, src, dst)[i] = dst[i]
        /\ \A i \in Len(dst) + 1 .. Len(dst) + Len(u) - Len(src) :
              Rebase(u, src, dst)[i] = u[i - Len(dst) + Len(src)]
    BY <1>1, <2>0, RebaseMeans
  <2>s. /\ Rebase(q, src, dst) \in Place
        /\ Len(Rebase(q, src, dst)) = Len(dst) + Len(q) - Len(src)
        /\ \A i \in 1 .. Len(dst) : Rebase(q, src, dst)[i] = dst[i]
        /\ \A i \in Len(dst) + 1 .. Len(dst) + Len(q) - Len(src) :
              Rebase(q, src, dst)[i] = q[i - Len(dst) + Len(src)]
    BY <1>1, <2>0, RebaseMeans
  <2>2. PICK b \in Place : b = Rebase(u, src, dst)
    BY <2>r
  <2>3. /\ Len(u) = Len(q) - 1 /\ \A i \in 1 .. Len(q) - 1 : u[i] = q[i]
        /\ Parent(a) \in Place /\ Len(Parent(a)) = Len(a) - 1
        /\ \A i \in 1 .. Len(a) - 1 : Parent(a)[i] = a[i]
    BY <2>1, ParentMeans
  <2>4. /\ Len(a) = Len(dst) + Len(q) - Len(src)
        /\ \A i \in 1 .. Len(dst) : a[i] = dst[i]
        /\ \A i \in Len(dst) + 1 .. Len(dst) + Len(q) - Len(src) : a[i] = q[i - Len(dst) + Len(src)]
    BY <2>1, <2>s
  <2>5. /\ Len(b) = Len(dst) + Len(u) - Len(src)
        /\ \A i \in 1 .. Len(dst) : b[i] = dst[i]
        /\ \A i \in Len(dst) + 1 .. Len(dst) + Len(u) - Len(src) : b[i] = u[i - Len(dst) + Len(src)]
    BY <2>2, <2>r
  <2>6. Len(q) > Len(src) /\ Len(b) = Len(Parent(a))
    BY <1>1, <2>3, <2>4, <2>5 DEF IsUnder
  <2>7. ASSUME NEW i \in 1 .. Len(b) PROVE b[i] = Parent(a)[i]
    <3>1. Parent(a)[i] = a[i] /\ i \in Nat
      BY <1>1, <2>3, <2>4, <2>5, <2>6
    <3>2. CASE i <= Len(dst)
      BY <1>1, <2>4, <2>5, <2>6, <3>1, <3>2
    <3>3. CASE i > Len(dst)
      <4>1. i - Len(dst) + Len(src) \in 1 .. Len(q) - 1
        BY <1>1, <2>3, <2>5, <2>6, <3>1, <3>3
      <4>2. /\ i \in Len(dst) + 1 .. Len(dst) + Len(u) - Len(src)
            /\ i \in Len(dst) + 1 .. Len(dst) + Len(q) - Len(src)
        <5>1. PICK d \in Nat, m \in Nat, n \in Nat : d = Len(dst) /\ m = Len(src) /\ n = Len(q)
          BY <1>1
        <5>2. Len(u) = n - 1 /\ Len(b) = d + (n - 1) - m /\ i \in 1 .. d + (n - 1) - m /\ i > d
          BY <2>3, <2>5, <3>3, <5>1
        <5>3. i \in d + 1 .. d + (n - 1) - m /\ i \in d + 1 .. d + n - m
          BY <5>1, <5>2
        <5> QED BY <5>1, <5>2, <5>3
      <4>3. b[i] = u[i - Len(dst) + Len(src)]
        BY <2>5, <4>2
      <4>4. a[i] = q[i - Len(dst) + Len(src)]
        BY <2>4, <4>2
      <4> QED BY <2>3, <3>1, <4>1, <4>3, <4>4
    <3> QED BY <1>1, <3>1, <3>2, <3>3
  <2> QED BY <2>1, <2>2, <2>3, <2>6, <2>7, Equal
<1> QED BY <1>3, <1>4

(* What a rename does to the directories things are in.                    *)
LEMMA RenamedParent ==
  ASSUME Closed, NEW tree \in [Path -> Int], IsTree(tree), NEW src \in Path, NEW dst \in Path,
         src # dst, CanRename(tree, src, dst), NEW now, now = Renamed(tree, src, dst)
  PROVE  /\ IsDir(now, Parent(dst))
         /\ \A q \in Path : ~AtOrUnder(q, src) /\ ~AtOrUnder(q, dst) /\ IsDir(tree, Parent(q))
               => IsDir(now, Parent(q))
         /\ \A q \in Path : IsUnder(q, dst) /\ Rebase(q, dst, src) \in Path
               /\ IsDir(tree, Parent(Rebase(q, dst, src))) => IsDir(now, Parent(q))
<1>1. /\ now[dst] = tree[src]
      /\ \A q \in Path : IsUnder(q, dst) =>
            now[q] = IF Rebase(q, dst, src) \in Path THEN tree[Rebase(q, dst, src)] ELSE Absent
      /\ \A q \in Path : ~AtOrUnder(q, src) /\ ~AtOrUnder(q, dst) => now[q] = tree[q]
  BY RenamedMeans
<1>2. ~AtOrUnder(dst, src) /\ ~AtOrUnder(src, dst)
  BY RenameRoom
<1>3. src \in Place /\ dst \in Place /\ \A q \in Path : q \in Place
  BY PathsArePlaces
<1>4. ASSUME NEW q \in Path, ~IsUnder(q, src), ~IsUnder(q, dst), IsDir(tree, Parent(q))
      PROVE  IsDir(now, Parent(q))
  <2>1. CASE Parent(q) = Root
    BY <2>1 DEF IsDir, At
  <2>2. CASE Parent(q) # Root
    <3>1. Parent(q) \in Path /\ Parent(q) \in Place
      BY <1>3, <2>2, ParentIsPath
    <3>2. IsUnder(q, Parent(q))
      BY <2>2, UnderParent
    <3>3. ~AtOrUnder(Parent(q), src) /\ ~AtOrUnder(Parent(q), dst)
      BY <1>3, <1>4, <3>1, <3>2, UnderOrder DEF AtOrUnder
    <3> QED BY <1>1, <1>4, <2>2, <3>1, <3>3 DEF IsDir, At
  <2> QED BY <2>1, <2>2
<1>5. IsDir(tree, Parent(dst))
  <2>1. CASE CanMake(tree, dst)
    BY <2>1 DEF CanMake
  <2>2. CASE tree[dst] # Absent
    <3>1. CASE Parent(dst) = Root
      BY <3>1 DEF IsDir, At
    <3>2. CASE Parent(dst) # Root
      BY <2>2, <3>2, ParentIsPath, UnderParent DEF IsDir, At, IsTree
    <3> QED BY <3>1, <3>2
  <2> QED BY <2>1, <2>2, PathsArePlaces DEF CanRename, IsFile, At, Absent
<1>6. IsDir(now, Parent(dst))
  BY <1>2, <1>3, <1>4, <1>5, UnderOrder DEF AtOrUnder
<1>7. ASSUME NEW q \in Path, IsUnder(q, dst), Rebase(q, dst, src) \in Path,
             IsDir(tree, Parent(Rebase(q, dst, src)))
      PROVE  IsDir(now, Parent(q))
  <2>1. /\ Parent(q) \in Path /\ AtOrUnder(Parent(q), dst)
        /\ Rebase(Parent(q), dst, src) = Parent(Rebase(q, dst, src))
    BY <1>7, RebaseParent
  <2>2. Parent(q) # Root
    BY <2>1, PathsArePlaces
  <2>3. /\ AtOrUnder(Rebase(Parent(q), dst, src), src)
        /\ Rebase(Parent(q), dst, src) = src <=> Parent(q) = dst
    BY <1>3, <2>1, RebaseBack DEF AtOrUnder
  <2>4. Rebase(Parent(q), dst, src) # Root
    BY <2>3, PathsArePlaces DEF AtOrUnder, IsUnder
  <2>5. Rebase(Parent(q), dst, src) \in Path
    BY <1>7, <2>1, <2>4, ParentIsPath
  <2>6. tree[Rebase(Parent(q), dst, src)] = Directory
    BY <1>7, <2>1, <2>4 DEF IsDir, At
  <2>7. now[Parent(q)] = Directory
    BY <1>1, <2>1, <2>3, <2>5, <2>6 DEF AtOrUnder
  <2> QED BY <2>2, <2>7 DEF IsDir, At
<1> QED BY <1>4, <1>6, <1>7 DEF AtOrUnder

(* A directory is renamed, on both sides.                                  *)
LEMMA RecordsMovedTree ==
  ASSUME Closed, NEW l, Sound(l), NEW tree \in [Path -> Int], IsTree(tree), NEW lens,
         Records(l.files, tree, lens, {}), NEW src \in Path, NEW dst \in Path,
         Movable(src, dst), CanRename(tree, src, dst), tree[src] = Directory
  PROVE  Records(RetargetTree(l, Rel(src), Rel(dst)).files, Renamed(tree, src, dst), lens, {})
<1>1. PICK f, now, g : f = l.files /\ now = Renamed(tree, src, dst) /\ g = RetargetTree(l, Rel(src), Rel(dst)).files
  OBVIOUS
<1>2. /\ src # dst /\ tree[dst] # Directory /\ ~AtOrUnder(dst, src) /\ ~AtOrUnder(src, dst)
      /\ \A q \in Path : ~(AtOrUnder(q, src) /\ AtOrUnder(q, dst))
  BY RenameRoom DEF Movable
<1>3. /\ now[dst] = tree[src]
      /\ \A q \in Path : IsUnder(q, dst) =>
            now[q] = IF Rebase(q, dst, src) \in Path THEN tree[Rebase(q, dst, src)] ELSE Absent
      /\ \A q \in Path : AtOrUnder(q, src) => now[q] = Absent
      /\ \A q \in Path : ~AtOrUnder(q, src) /\ ~AtOrUnder(q, dst) => now[q] = tree[q]
  BY <1>1, <1>2, RenamedMeans
<1>4. /\ IsDir(now, Parent(dst))
      /\ \A q \in Path : ~AtOrUnder(q, src) /\ ~AtOrUnder(q, dst) /\ IsDir(tree, Parent(q))
            => IsDir(now, Parent(q))
      /\ \A q \in Path : IsUnder(q, dst) /\ Rebase(q, dst, src) \in Path
            /\ IsDir(tree, Parent(Rebase(q, dst, src))) => IsDir(now, Parent(q))
  BY <1>1, <1>2, RenamedParent
<1>5. /\ \A q \in Path :
            LET o == Origin(l, src, dst, Rel(q))
            IN  /\ g[Abs(q)].kind = f[Abs(q)].kind
                /\ IF AtOrUnder(q, src) THEN g[Rel(q)].kind = "none"
                   ELSE /\ g[Rel(q)].kind = IF o = Rel(src) THEN "dir" ELSE f[o].kind
                        /\ g[Rel(q)].size = f[o].size
      /\ Stamped(g)
  BY <1>1, <1>2, RetargetTreeMeans DEF Records
<1>6. \A q \in Path : Tells(f, tree, lens, q)
  BY <1>1 DEF Records
<1>7. ASSUME NEW q \in Path PROVE Tells(g, now, lens, q)
  <2>1. CASE AtOrUnder(q, src)
    BY <1>3, <1>5, <2>1 DEF Tells, Absent, Directory
  <2>2. CASE q = dst
    <3>1. Rebase(dst, dst, src) = src
      BY PathsArePlaces, RebaseBack
    <3>2. f[Rel(src)].kind = "dir"
      BY <1>6 DEF Tells
    <3>3. Origin(l, src, dst, Rel(q)) = Rel(src)
      BY <1>1, <2>2, <3>1, <3>2 DEF Origin, IsTracked, AtOrUnder, Rel
    <3>4. g[Rel(q)].kind = "dir"
      BY <1>2, <1>5, <2>2, <3>3
    <3> QED BY <1>3, <1>4, <2>2, <3>4 DEF Tells, Directory
  <2>3. CASE IsUnder(q, dst)
    <3>1. f[Rel(q)].kind = "none" /\ ~AtOrUnder(q, src)
      BY <1>1, <1>2, <2>3, NothingBelow DEF AtOrUnder
    <3>2. PICK o : o = Origin(l, src, dst, Rel(q))
      OBVIOUS
    <3>3. g[Rel(q)].kind = (IF o = Rel(src) THEN "dir" ELSE f[o].kind) /\ g[Rel(q)].size = f[o].size
      BY <1>5, <3>1, <3>2
    <3>4. CASE Rebase(q, dst, src) \in Path /\ f[Rel(Rebase(q, dst, src))].kind # "none"
      <4>1. PICK s \in Path : s = Rebase(q, dst, src)
        BY <3>4
      <4>2. o = Rel(s)
        BY <1>1, <2>3, <3>2, <3>4, <4>1 DEF Origin, IsTracked, AtOrUnder, Rel
      <4>3. s # src
        <5>1. s = src <=> q = dst
          BY <2>3, <4>1, PathsArePlaces, RebaseBack
        <5> QED BY <2>3, <5>1, PathsArePlaces, UnderOrder
      <4>4. g[Rel(q)].kind = f[Rel(s)].kind /\ g[Rel(q)].size = f[Rel(s)].size
        BY <3>3, <4>2, <4>3, NamesOfPaths
      <4>5. now[q] = tree[s] /\ (IsDir(tree, Parent(s)) => IsDir(now, Parent(q)))
        BY <1>3, <1>4, <2>3, <4>1
      <4> QED BY <1>6, <4>4, <4>5 DEF Tells
    <3>5. CASE ~(Rebase(q, dst, src) \in Path /\ f[Rel(Rebase(q, dst, src))].kind # "none")
      <4>1. o = Rel(q) /\ q # src
        BY <1>1, <3>1, <3>2, <3>5 DEF Origin, IsTracked, Rel, AtOrUnder
      <4>2. g[Rel(q)].kind = "none"
        BY <3>1, <3>3, <4>1, NamesOfPaths
      <4>3. now[q] # Directory /\ ~(now[q] > 0)
        BY <1>3, <1>6, <2>3, <3>5 DEF Tells, Absent, Directory
      <4> QED BY <4>2, <4>3 DEF Tells
    <3> QED BY <3>4, <3>5
  <2>4. CASE ~AtOrUnder(q, src) /\ ~AtOrUnder(q, dst)
    <3>1. Origin(l, src, dst, Rel(q)) = Rel(q) /\ q # src
      BY <2>4 DEF Origin, Rel, AtOrUnder
    <3>2. g[Rel(q)].kind = f[Rel(q)].kind /\ g[Rel(q)].size = f[Rel(q)].size
      BY <1>5, <2>4, <3>1, NamesOfPaths
    <3> QED BY <1>3, <1>4, <1>6, <2>4, <3>2 DEF Tells
  <2> QED BY <2>1, <2>2, <2>3, <2>4 DEF AtOrUnder
<1>8. \A q \in Path : g[Abs(q)].kind = "none"
  BY <1>1, <1>5 DEF Records
<1> QED BY <1>1, <1>5, <1>7, <1>8 DEF Records

(* A file is renamed, on both sides.                                       *)
LEMMA RecordsMovedFile ==
  ASSUME Closed, NEW l, Sound(l), NEW tree \in [Path -> Int], IsTree(tree), NEW lens,
         Records(l.files, tree, lens, {}), NEW src \in Path, NEW dst \in Path,
         src # dst, CanRename(tree, src, dst), tree[src] > 0
  PROVE  Records(RetargetFile(l, Rel(src), Rel(dst)).files, Renamed(tree, src, dst), lens, {})
<1>1. PICK f, now, g : f = l.files /\ now = Renamed(tree, src, dst) /\ g = RetargetFile(l, Rel(src), Rel(dst)).files
  OBVIOUS
<1>2. /\ tree[dst] # Directory /\ ~AtOrUnder(dst, src) /\ ~AtOrUnder(src, dst)
      /\ tree[src] # Directory
  BY RenameRoom DEF Directory
<1>3. /\ now[dst] = tree[src]
      /\ \A q \in Path : IsUnder(q, dst) =>
            now[q] = IF Rebase(q, dst, src) \in Path THEN tree[Rebase(q, dst, src)] ELSE Absent
      /\ \A q \in Path : AtOrUnder(q, src) => now[q] = Absent
      /\ \A q \in Path : ~AtOrUnder(q, src) /\ ~AtOrUnder(q, dst) => now[q] = tree[q]
  BY <1>1, RenamedMeans
<1>4. /\ IsDir(now, Parent(dst))
      /\ \A q \in Path : ~AtOrUnder(q, src) /\ ~AtOrUnder(q, dst) /\ IsDir(tree, Parent(q))
            => IsDir(now, Parent(q))
  BY <1>1, RenamedParent
<1>5. \A q \in Path : Tells(f, tree, lens, q)
  BY <1>1 DEF Records
<1>6. f[Rel(src)].kind = "file" /\ f[Rel(src)].size = lens[tree[src]]
  BY <1>5 DEF Tells
<1>7. /\ g[Rel(src)].kind = "none"
      /\ g[Rel(dst)].kind = "file" /\ g[Rel(dst)].size = f[Rel(src)].size
      /\ SameEntries(f, g, Name \ {Rel(src), Rel(dst)})
      /\ Stamped(g)
  <2>1. IsTracked(l, Rel(src)) /\ Stamped(l.files)
    BY <1>1, <1>6 DEF Records, IsTracked
  <2>2. /\ IF IsTracked(l, Rel(src))
           THEN /\ g[Rel(src)].kind = "none"
                /\ g[Rel(dst)].kind = "file" /\ g[Rel(dst)].size = l.files[Rel(src)].size
                /\ SameEntries(l.files, g, Name \ {Rel(src), Rel(dst)})
           ELSE SameEntries(l.files, g, Name)
        /\ Stamped(g)
    BY <1>1, <2>1, RetargetFileMeans
  <2> QED BY <1>1, <2>1, <2>2
<1>8. \A q \in Path \ {src, dst} : g[Rel(q)].kind = f[Rel(q)].kind /\ g[Rel(q)].size = f[Rel(q)].size
  BY <1>7, NamesOfPaths DEF SameEntries
<1>9. ASSUME NEW q \in Path PROVE Tells(g, now, lens, q)
  <2>1. CASE q = src
    BY <1>3, <1>7, <2>1 DEF Tells, AtOrUnder, Absent, Directory
  <2>2. CASE q = dst
    BY <1>2, <1>3, <1>4, <1>6, <1>7, <2>2 DEF Tells
  <2>3. CASE IsUnder(q, src)
    <3>1. f[Rel(q)].kind = "none" /\ q # src
      BY <1>1, <1>2, <2>3, NothingBelow, PathsArePlaces, UnderOrder
    <3>2. q # dst
      BY <1>2, <2>3 DEF AtOrUnder
    <3> QED BY <1>3, <1>8, <2>3, <3>1, <3>2 DEF Tells, AtOrUnder, Absent, Directory
  <2>4. CASE IsUnder(q, dst)
    <3>1. f[Rel(q)].kind = "none" /\ q # dst
      BY <1>1, <1>2, <2>4, NothingBelow, PathsArePlaces, UnderOrder
    <3>2. q # src
      BY <1>2, <2>4 DEF AtOrUnder
    <3>3. now[q] = Absent
      <4>1. CASE Rebase(q, dst, src) \in Path
        <5>1. PICK s \in Path : s = Rebase(q, dst, src)
          BY <4>1
        <5>2. IsUnder(s, src)
          <6>1. Rebase(q, dst, src) = src \/ IsUnder(Rebase(q, dst, src), src)
            BY <2>4, PathsArePlaces, RebaseBack
          <6>2. Rebase(q, dst, src) = src <=> q = dst
            BY <2>4, PathsArePlaces, RebaseBack
          <6> QED BY <3>1, <5>1, <6>1, <6>2
        <5>3. tree[s] = Absent
          BY <1>1, <1>2, <5>2, NothingBelow
        <5> QED BY <1>3, <2>4, <5>1, <5>3
      <4>2. CASE Rebase(q, dst, src) \notin Path
        BY <1>3, <2>4, <4>2
      <4> QED BY <4>1, <4>2
    <3> QED BY <1>8, <3>1, <3>2, <3>3 DEF Tells, Absent, Directory
  <2>5. CASE ~AtOrUnder(q, src) /\ ~AtOrUnder(q, dst)
    BY <1>3, <1>4, <1>5, <1>8, <2>5 DEF Tells, AtOrUnder
  <2> QED BY <2>1, <2>2, <2>3, <2>4, <2>5 DEF AtOrUnder
<1>10. \A q \in Path : g[Abs(q)].kind = "none"
  BY <1>1, <1>7, NamesOfPaths DEF Records, SameEntries
<1> QED BY <1>1, <1>7, <1>9, <1>10 DEF Records

-----------------------------------------------------------------------------
(* Where the steps of ensureSpace and its callers leave a goroutine        *)
-----------------------------------------------------------------------------
(* The pass of ensureSpace only ever drops victims.                        *)
LEMMA EvictionMeans ==
  ASSUME IInv, NEW t \in Thread, EvictionStep(t)
  PROVE  \/ th'[t] = Idle
         \/ /\ Same(th[t], th'[t]) /\ th'[t].scan = th[t].scan
            /\ th'[t].victims \subseteq th[t].victims
            /\ \/ th'[t].pc \in {"evict", "verdict"}
               \/ th'[t].pc = "unlink" /\ ChooseVictim(t) /\ th'[t].prey \in th[t].victims
                  /\ th'[t].prey = Oldest(th[t].victims)
               \/ th'[t].pc = "untrack" /\ UnlinkVictim(t) /\ th'[t].prey = th[t].prey
               \/ th'[t].pc = th[t].ret /\ SpaceFound(t)
               \/ th'[t].pc = "put" /\ th[t].ret = "write" /\ NoSpace(t)
<1>1. th \in [Thread -> Local] /\ th[t] \in Local /\ ControlOK(th[t])
  BY IInvParts DEF IInv, TypeOK
<1> USE DEF Become, Goto, Same
<1>2. CASE SkipVictim(t)
  BY <1>1, <1>2 DEF SkipVictim, Drop, Local
<1>3. CASE ChooseVictim(t)
  <2>1. Oldest(th[t].victims) \in th[t].victims
    <3>1. th[t].victims \in SUBSET Victim /\ th[t].victims # {}
      BY <1>1, <1>3 DEF ChooseVictim, Local
    <3> QED BY <3>1, OldestType
  <2> QED BY <1>1, <1>3, <2>1 DEF ChooseVictim, Local
<1>4. CASE UnlinkVictim(t)
  BY <1>1, <1>4 DEF UnlinkVictim, Local
<1>5. CASE UnlinkFails(t)
  <2>1. Same(th[t], th'[t]) /\ th'[t].pc = "evict" /\ th'[t].victims = th[t].victims \ {th[t].prey}
    BY <1>5, FlagStepMeans
  <2>2. th'[t].scan = th[t].scan
    <3> DEFINE d == Drop(t, th[t].prey)   r == [d EXCEPT !.failed = TRUE]
    <3>1. th'[t] = r
      BY <1>1, <1>5 DEF UnlinkFails
    <3>2. d.scan = th[t].scan /\ DOMAIN d = DOMAIN th[t] /\ DOMAIN th[t] = DOMAIN Idle
      BY <1>1 DEF Local, Drop, Idle
    <3> HIDE DEF d
    <3> QED BY <3>1, <3>2 DEF Idle
  <2> QED BY <2>1, <2>2
<1>6. CASE UntrackVictim(t)
  BY <1>1, <1>6 DEF UntrackVictim, Drop, Local
<1>7. CASE EndEviction(t)
  BY <1>1, <1>7 DEF EndEviction, Local
<1>8. CASE SpaceFound(t)
  <2> DEFINE r == [th[t] EXCEPT !.pc = th[t].ret, !.failed = FALSE]
  <2>1. th'[t] = r
    BY <1>1, <1>8 DEF SpaceFound
  <2>2. Same(th[t], r) /\ r.pc = th[t].ret /\ r.scan = th[t].scan /\ r.victims = th[t].victims
    BY <1>1 DEF Local
  <2> QED BY <1>8, <2>1, <2>2
<1>9. CASE NoSpace(t)
  <2> DEFINE r == [th[t] EXCEPT !.pc = "put", !.ok = FALSE, !.failed = FALSE]
  <2>1. CASE th[t].ret = "write"
    <3>1. th'[t] = r
      BY <1>1, <1>9, <2>1 DEF NoSpace
    <3>2. Same(th[t], r) /\ r.pc = "put" /\ r.scan = th[t].scan /\ r.victims = th[t].victims
      BY <1>1 DEF Local
    <3> QED BY <1>9, <2>1, <3>1, <3>2
  <2>2. CASE th[t].ret # "write"
    BY <1>9, <2>2, FlagStepMeans
  <2> QED BY <2>1, <2>2
<1> QED BY <1>2, <1>3, <1>4, <1>5, <1>6, <1>7, <1>8, <1>9 DEF EvictionStep

(* Who asks ensureSpace, and what for.                                     *)
Snapshot(r) == r.victims = { [name |-> n, at |-> ledger.files[n].at] : n \in Candidates }

LEMMA SpaceMeans ==
  ASSUME IInv, NEW t \in Thread
  PROVE  /\ ScanSpace(t) \/ OpenForWriting(t) \/ MakeRoom(t) =>
               /\ th'[t].method = th[t].method /\ th'[t].name = th[t].name
               /\ th'[t].to = th[t].to /\ th'[t].fd = th[t].fd
               /\ th'[t].pc = th'[t].ret \/ (th'[t].pc = "evict" /\ Snapshot(th'[t]))
         /\ ScanSpace(t) => th'[t].ret = IF Len(th[t].scan) = 1 THEN "begin" ELSE "scan"
         /\ OpenForWriting(t) => th'[t].ret = "create"
         /\ MakeRoom(t) => th'[t].ret = "write"
<1>1. th \in [Thread -> Local] /\ th[t] \in Local /\ ControlOK(th[t])
  BY IInvParts DEF IInv, TypeOK
<1> DEFINE Asks(l) == /\ th'[t].method = th[t].method /\ th'[t].name = th[t].name
                      /\ th'[t].to = th[t].to /\ th'[t].fd = th[t].fd
                      /\ th'[t].pc = th'[t].ret \/ (th'[t].pc = "evict" /\ Snapshot(th'[t]))
                      /\ th'[t].ret = l
<1>2. ASSUME NEW r \in Local, EnsureSpace(t, r), r.method = th[t].method, r.name = th[t].name,
             r.to = th[t].to, r.fd = th[t].fd
      PROVE  Asks(r.ret)
  <2>1. /\ th'[t].method = r.method /\ th'[t].name = r.name /\ th'[t].to = r.to
        /\ th'[t].fd = r.fd /\ th'[t].ret = r.ret
        /\ th'[t].pc = IF Fits(r.need) THEN r.ret ELSE "evict"
        /\ ~Fits(r.need) => th'[t].victims = { [name |-> n, at |-> ledger.files[n].at] : n \in Candidates }
    BY <1>2, EnsureSpaceMeans
  <2> QED BY <1>2, <2>1 DEF Snapshot
<1> HIDE DEF Asks
<1>3. ASSUME ScanSpace(t) PROVE Asks(IF Len(th[t].scan) = 1 THEN "begin" ELSE "scan")
  <2>0. PICK q \in {"scan", "begin"} : q = IF Len(th[t].scan) = 1 THEN "begin" ELSE "scan"
    OBVIOUS
  <2>1. Tail(th[t].scan) \in Seq(Frame)
    BY <1>3, ScanParts DEF ScanSpace
  <2> DEFINE r == [th[t] EXCEPT !.scan = Tail(@), !.need = 0, !.ret = q]
  <2>2. /\ r.ret = q /\ r.method = th[t].method /\ r.name = th[t].name
        /\ r.to = th[t].to /\ r.fd = th[t].fd
    BY <1>1 DEF Local
  <2>3. r \in Local
    BY <1>1, <2>1, ZenonT(60) DEF Local, Label
  <2>4. EnsureSpace(t, r)
    BY <1>3, <2>0 DEF ScanSpace
  <2> HIDE DEF r
  <2>5. Asks(r.ret)
    BY <1>2, <2>2, <2>3, <2>4
  <2> QED BY <2>0, <2>2, <2>5
<1>4. ASSUME OpenForWriting(t) PROVE Asks("create")
  <2> DEFINE r == [th[t] EXCEPT !.need = 0, !.ret = "create"]
  <2>1. /\ r \in Local /\ r.ret = "create" /\ r.method = th[t].method /\ r.name = th[t].name
        /\ r.to = th[t].to /\ r.fd = th[t].fd
    BY <1>1 DEF Local, Label
  <2>2. EnsureSpace(t, r)
    BY <1>4 DEF OpenForWriting
  <2> HIDE DEF r
  <2>3. Asks(r.ret)
    BY <1>2, <2>1, <2>2
  <2> QED BY <2>1, <2>3
<1>5. ASSUME MakeRoom(t) PROVE Asks("write")
  <2>1. PICK c \in ChunkSizes : EnsureSpace(t, [th[t] EXCEPT !.need = c, !.ret = "write", !.left = @ - 1])
    BY <1>5 DEF MakeRoom
  <2> DEFINE r == [th[t] EXCEPT !.need = c, !.ret = "write", !.left = @ - 1]
  <2>2. c \in Nat /\ th[t].left - 1 \in Nat
    BY <1>1, <1>5, <2>1, ConstantsAssumption DEF Local, MakeRoom
  <2>3. /\ r \in Local /\ r.ret = "write" /\ r.method = th[t].method /\ r.name = th[t].name
        /\ r.to = th[t].to /\ r.fd = th[t].fd
    BY <1>1, <2>2 DEF Local, Label
  <2>4. EnsureSpace(t, r)
    BY <2>1
  <2> HIDE DEF r
  <2>5. Asks(r.ret)
    BY <1>2, <2>3, <2>4
  <2> QED BY <2>3, <2>5
<1> QED BY <1>3, <1>4, <1>5 DEF Asks

(* Which step brings a goroutine to ensureSpace, to a handle open for      *)
(* writing, and on with the scan.                                          *)
LEMMA StepArrives ==
  ASSUME IInv, NEW t \in Thread, Step(t)
  PROVE  /\ th'[t].pc \in Evicting =>
               EvictionStep(t) \/ ScanSpace(t) \/ OpenForWriting(t) \/ MakeRoom(t)
         /\ th'[t].pc \in {"put", "write"} =>
               EvictionStep(t) \/ Truncate(t) \/ Create(t) \/ Write(t) \/ MakeRoom(t)
         /\ th'[t].pc = "scan" =>
               StartScan(t) \/ ScanList(t) \/ ScanEntry(t) \/ ScanSpace(t) \/ EvictionStep(t)
<1>1. th \in [Thread -> Local] /\ th[t] \in Local /\ ControlOK(th[t])
  BY IInvParts DEF IInv, TypeOK
<1> DEFINE New == Evicting \cup {"put", "write", "scan"}
<1> USE DEF Become, Goto
<1>2. ASSUME Finish(t) PROVE th'[t].pc \notin New
  BY <1>1, <1>2 DEF Finish, Idle, Evicting
<1>3. ASSUME NEW l \in {"open", "rename", "remove", "track"}, Goto(t, l) PROVE th'[t].pc \notin New
  BY <1>1, <1>3 DEF Local, Evicting
<1>4. CASE ScanFails(t)
  BY <1>2, <1>4 DEF ScanFails
<1>5. CASE PutStep(t)
  <2>1. CASE OpenForWriting(t)
    <3>1. th'[t].pc \in {"create", "evict"}
      BY <2>1, SpaceMeans
    <3> QED BY <2>1, <3>1 DEF Evicting
  <2>2. CASE CreateFails(t)
    BY <1>2, <2>2 DEF CreateFails
  <2>3. CASE EndOfBody(t)
    BY <2>3, FlagStepMeans DEF Evicting
  <2>4. CASE MakeRoom(t)
    <3>1. th'[t].pc \in {"write", "evict"}
      BY <2>4, SpaceMeans
    <3> QED BY <2>4, <3>1 DEF Evicting
  <2>5. CASE Truncate(t)
    <3>1. th'[t].pc = "put"
      BY <1>1, <2>5 DEF Truncate, Local
    <3> QED BY <2>5, <3>1 DEF Evicting
  <2>6. CASE Create(t)
    <3>1. th'[t].pc = "put"
      BY <1>1, <2>6 DEF Create, Local
    <3> QED BY <2>6, <3>1 DEF Evicting
  <2>7. CASE Write(t)
    <3>1. th'[t].pc = "put"
      BY <2>7, FlagStepMeans
    <3> QED BY <2>7, <3>1 DEF Evicting
  <2> QED BY <1>5, <2>1, <2>2, <2>3, <2>4, <2>5, <2>6, <2>7 DEF PutStep
<1>6. CASE ReadStep(t)
  <2>1. CASE OpenForReading(t)
    BY <1>3, <2>1 DEF OpenForReading
  <2>2. CASE Serve(t) \/ StatBackend(t)
    BY <2>2, FlagStepMeans DEF Evicting
  <2>3. CASE OpenFails(t) \/ Close(t) \/ StatFails(t)
    BY <1>2, <2>3 DEF OpenFails, Close, StatFails
  <2>4. CASE DestinationFree(t)
    BY <1>3, <2>4 DEF DestinationFree
  <2>5. CASE ObserveStat(t)
    <3>1. Finish(t) \/ Goto(t, "remove")
      BY <2>5 DEF ObserveStat
    <3> QED BY <1>2, <1>3, <3>1
  <2> QED BY <1>6, <2>1, <2>2, <2>3, <2>4, <2>5 DEF ReadStep
<1>7. CASE TreeStep(t)
  <2>1. CASE RemoveBackend(t) \/ RenameBackend(t)
    BY <2>1, FlagStepMeans DEF Evicting
  <2>2. CASE RemoveFails(t) \/ RemovePanics(t) \/ RenameFails(t) \/ Retarget(t) \/ MkdirFails(t) \/ TrackMkdir(t)
    BY <1>2, <2>2 DEF RemoveFails, RemovePanics, RenameFails, Retarget, MkdirFails, TrackMkdir
  <2>3. CASE ForgetRemoved(t)
    <3>1. Finish(t) \/ Goto(t, "rename")
      BY <2>3 DEF ForgetRemoved
    <3> QED BY <1>2, <1>3, <3>1
  <2>4. CASE MkdirBackend(t)
    BY <1>3, <2>4 DEF MkdirBackend
  <2> QED BY <1>7, <2>1, <2>2, <2>3, <2>4 DEF TreeStep
<1>8. CASE StartScan(t)
  <2>1. th'[t].pc = "scan"
    BY <1>1, <1>8 DEF StartScan, Local
  <2> QED BY <1>8, <2>1 DEF Evicting
<1>9. CASE ScanList(t)
  <2>1. th'[t].pc = "scan"
    BY <1>1, <1>9 DEF ScanList, Local
  <2> QED BY <1>9, <2>1 DEF Evicting
<1>10. CASE ScanEntry(t)
  <2>1. th[t].pc = "scan" /\ \E s : th'[t] = [th[t] EXCEPT !.scan = s]
    BY <1>1, <1>10 DEF ScanEntry
  <2>2. th'[t].pc = "scan"
    BY <1>1, <2>1 DEF Local
  <2> QED BY <1>10, <2>2 DEF Evicting
<1>11. CASE ScanSpace(t)
  <2>1. th'[t].pc \in {"begin", "scan", "evict"}
    BY <1>11, SpaceMeans
  <2> QED BY <1>11, <2>1 DEF Evicting
<1>12. CASE EvictionStep(t)
  BY <1>12
<1> QED BY <1>4, <1>5, <1>6, <1>7, <1>8, <1>9, <1>10, <1>11, <1>12 DEF Step, ScanStep

(* Most steps change neither names nor bytes on disk, nor what the ledger  *)
(* says of them.                                                           *)
LEMMA QuietStep ==
  ASSUME IInv, NEW t \in Thread, Step(t)
  PROVE  \/ /\ UNCHANGED <<node, len>>
            /\ ledger' = ledger \/ ledger' = Touch(ledger, th[t].name)
         \/ ScanEntry(t) \/ UnlinkVictim(t) \/ UntrackVictim(t)
         \/ Truncate(t) \/ Create(t) \/ Write(t) \/ Close(t) \/ ObserveStat(t)
         \/ RemoveBackend(t) \/ ForgetRemoved(t) \/ RenameBackend(t) \/ Retarget(t)
         \/ MkdirBackend(t) \/ TrackMkdir(t)
<1> DEFINE Quiet1 == UNCHANGED <<node, len>> /\ (ledger' = ledger \/ ledger' = Touch(ledger, th[t].name))
<1>1. StartScan(t) \/ ScanList(t) \/ ScanFails(t) \/ ScanSpace(t) => Quiet1
  BY DEF StartScan, ScanList, ScanFails, ScanSpace
<1>2. SkipVictim(t) \/ ChooseVictim(t) \/ UnlinkFails(t) \/ EndEviction(t) \/ SpaceFound(t) \/ NoSpace(t) => Quiet1
  BY DEF SkipVictim, ChooseVictim, UnlinkFails, EndEviction, SpaceFound, NoSpace
<1>3. OpenForWriting(t) \/ CreateFails(t) \/ MakeRoom(t) \/ EndOfBody(t) => Quiet1
  BY DEF OpenForWriting, CreateFails, MakeRoom, EndOfBody
<1>4. OpenForReading(t) \/ Serve(t) \/ OpenFails(t) \/ StatBackend(t) \/ StatFails(t) \/ DestinationFree(t) => Quiet1
  BY DEF OpenForReading, Serve, OpenFails, StatBackend, StatFails, DestinationFree
<1>5. RemoveFails(t) \/ RemovePanics(t) \/ RenameFails(t) \/ MkdirFails(t) => Quiet1
  BY DEF RemoveFails, RemovePanics, RenameFails, MkdirFails
<1> HIDE DEF Quiet1
<1>6. Quiet1 \/ ScanEntry(t) \/ UnlinkVictim(t) \/ UntrackVictim(t)
         \/ Truncate(t) \/ Create(t) \/ Write(t) \/ Close(t) \/ ObserveStat(t)
         \/ RemoveBackend(t) \/ ForgetRemoved(t) \/ RenameBackend(t) \/ Retarget(t)
         \/ MkdirBackend(t) \/ TrackMkdir(t)
  BY <1>1, <1>2, <1>3, <1>4, <1>5 DEF Step, ScanStep, EvictionStep, PutStep, ReadStep, TreeStep
<1> QED BY <1>6 DEF Quiet1

-----------------------------------------------------------------------------
(* A sole client finds on disk what the ledger says                        *)
-----------------------------------------------------------------------------
(* The backend holds nothing when the process starts, once, and one client *)
(* uses one form of name.                                                  *)
SoleClient ==
    /\ \E t \in Thread : Thread = {t}
    /\ MaxRestarts = 0
    /\ ReadForms \subseteq {"rel"}
    /\ \A p \in Path : InitialNode[p] = Absent
    /\ Closed

(* The ledger once the goroutine has recorded what it has done on disk.    *)
Due(l, r) ==
    CASE r.pc = "forget" -> IF r.dir THEN UntrackTree(l, About(r)) ELSE Untrack(l, About(r))
      [] r.pc = "retarget" -> IF r.dir THEN RetargetTree(l, r.name, r.to) ELSE RetargetFile(l, r.name, r.to)
      [] r.pc = "track" -> TrackDir(l, r.name)
      [] OTHER -> l

(* A file open for writing is recorded when it is closed.                  *)
Storing(r) == Writing(r) \/ (r.pc = "closing" /\ r.method = "PUT")
Unsettled(r) == IF Storing(r) THEN {r.name.at} ELSE {}

(* The file that is written is where it was created, or has been evicted.  *)
Stores(r) == Storing(r) =>
    /\ r.fd \in Inode /\ node[r.name.at] \in {r.fd, Absent}
    /\ \A q \in Path : node[q] = r.fd => q = r.name.at
    /\ ledger.files[r.name].kind # "dir" /\ IsDir(node, Parent(r.name.at))
    /\ r.pc = "closing" => r.size = len[r.fd] /\ ~r.dir

(* What a Stat has seen is still so when it is recorded.                   *)
Looks(r) == r.pc = "observe" \/ (r.pc = "closing" /\ r.method = "GET") =>
    /\ Exists(node, About(r).at)
    /\ r.size = StatSize(About(r).at) /\ r.dir = IsDir(node, About(r).at)

(* A pass evicts files, under the names clients use.                       *)
Evicts(r) ==
    /\ r.pc \in Evicting => r.ret # "scan"
    /\ r.pc \in Evicting => \A v \in r.victims : v.name.form = "rel" /\ ledger.files[v.name].kind # "dir"
    /\ r.pc \in {"unlink", "untrack"} =>
          r.prey.name.form = "rel" /\ ledger.files[r.prey.name].kind # "dir"
    /\ r.pc = "untrack" => node[r.prey.name.at] = Absent

(* The scan finds nothing.                                                 *)
Bare == \A p \in Path : node[p] = Absent
Starts(r) ==
    /\ ~initialized => r.pc \in {"idle", "enter"} /\ Bare
    /\ r.pc = "scan" => Bare /\ Len(r.scan) = 1 /\ Head(r.scan).left = {} /\ Head(r.scan).dir = Root

Settled(r) ==
    /\ Serves(r) /\ (r.pc # "idle" => r.name.form = "rel")
    /\ Records(Due(ledger, r).files, node, len, Unsettled(r))
    /\ Stores(r) /\ Looks(r) /\ Evicts(r) /\ Starts(r)

DInv == IsTree(node) /\ \A t \in Thread : Settled(th[t])

-----------------------------------------------------------------------------
(* Lengths of files that are on disk survive.                              *)
LEMMA ScrubKeeps ==
  ASSUME NEW nodes, NEW threads, NEW lens, lens = Scrub(nodes, threads),
         nodes \in [Path -> Inode \cup {Absent, Directory}]
  PROVE  \A p \in Path : nodes[p] > 0 => lens[nodes[p]] = len[nodes[p]]
<1>1. \A p \in Path : nodes[p] > 0 => nodes[p] \in Inode
  BY DEF Absent, Directory
<1>2. \A p \in Path : nodes[p] \in Live(nodes, threads)
  BY DEF Live
<1> QED BY <1>1, <1>2 DEF Scrub

(* Whom and what a step is about.                                          *)
LEMMA Client ==
  ASSUME SoleClient, IInv, NEW t \in Thread, th[t].pc # "idle", Settled(th[t])
  PROVE  /\ th[t] \in Local /\ ControlOK(th[t]) /\ Serves(th[t])
         /\ th[t].name = Rel(th[t].name.at) /\ th[t].name.at \in Path
         /\ About(th[t]) = Rel(About(th[t]).at) /\ About(th[t]).at \in Path
         /\ Subject(t) = About(th[t])
         /\ th[t].dir \in BOOLEAN /\ th[t].size \in Nat
         /\ node \in [Path -> Inode \cup {Absent, Directory}] /\ node \in [Path -> Int]
         /\ Inode \subseteq Nat \ {0} /\ Sound(ledger)
         /\ Closed
<1>1. /\ th[t] \in Local /\ ControlOK(th[t]) /\ Serves(th[t]) /\ th[t].name.form = "rel"
      /\ node \in [Path -> Inode \cup {Absent, Directory}]  /\ Sound(ledger)
  BY IInvParts DEF Settled
<1>2. th[t].name \in Name /\ (th[t].method = "MOVE" => th[t].to \in Name /\ th[t].to.form = "rel")
  BY <1>1 DEF ControlOK, Serves
<1>3. /\ th[t].name = Rel(th[t].name.at) /\ th[t].name.at \in Path
      /\ About(th[t]) = Rel(About(th[t]).at) /\ About(th[t]).at \in Path
  BY <1>1, <1>2, NamesOfPaths DEF About
<1>4. th[t].dir \in BOOLEAN /\ th[t].size \in Nat
  BY <1>1 DEF Local
<1>5. Inode \subseteq Nat \ {0}
  BY ConstantsAssumption
<1>6. node \in [Path -> Int]
  <2>1. Inode \cup {Absent, Directory} \subseteq Int
    BY <1>5 DEF Absent, Directory
  <2> QED BY <1>1, <2>1
<1> QED BY <1>1, <1>3, <1>4, <1>5, <1>6 DEF Subject, About, SoleClient

(* The file a goroutine stores stays the one, until it is closed.          *)
LEMMA StoringGoesOn ==
  ASSUME IInv, NEW t \in Thread, Serves(th[t]), Step(t), th[t].pc # "closing"
  PROVE  Unsettled(th[t]) \subseteq Unsettled(th'[t])
<1>1. CASE Writing(th[t])
  <2>1. /\ th[t].method = "PUT" /\ Continues(th[t], th'[t]) /\ th'[t] # Idle
        /\ Writing(th'[t]) \/ (th'[t].pc = "closing" /\ th'[t].method = "PUT")
    BY <1>1, WritingStep
  <2> QED BY <2>1 DEF Unsettled, Storing, Continues
<1>2. CASE ~Writing(th[t])
  BY <1>2 DEF Unsettled, Storing
<1> QED BY <1>1, <1>2

(* The backend has changed and the ledger is yet to follow.                *)
LEMMA RecordsRemoving ==
  ASSUME SoleClient, IInv, IInv', IsTree(node), NEW t \in Thread, Settled(th[t]), RemoveBackend(t)
  PROVE  Records(Due(ledger', th'[t]).files, node', len', Unsettled(th'[t]))
<1>1. PICK p : p = About(th[t]).at
  OBVIOUS
<1>2. /\ th[t].pc = "remove" /\ Exists(node, Subject(t).at) /\ node' = Without(node, Subject(t).at)
      /\ ledger' = ledger /\ len' = Scrub(node', th')
  BY DEF RemoveBackend
<1>3. /\ About(th[t]) = Rel(p) /\ p \in Path /\ Subject(t).at = p
      /\ node \in [Path -> Int] /\ Sound(ledger) /\ Closed
  BY <1>1, <1>2, Client
<1>4. /\ Same(th[t], th'[t]) /\ th'[t].pc = "forget" /\ th'[t].dir = IsDir(node, p)
  BY <1>3, FlagStepMeans
<1>5. Unsettled(th[t]) = {} /\ Unsettled(th'[t]) = {} /\ Due(ledger, th[t]) = ledger
  BY <1>2, <1>4 DEF Unsettled, Storing, Writing, Evicting, Due
<1>6. Records(ledger.files, node, len, {})
  BY <1>5 DEF Settled
<1>7. About(th'[t]) = Rel(p)
  BY <1>3, <1>4 DEF About, Same
<1>8. PICK g : g = Due(ledger', th'[t]).files
  OBVIOUS
<1>9. g = IF IsDir(node, p) THEN UntrackTree(ledger, Rel(p)).files ELSE Untrack(ledger, Rel(p)).files
  BY <1>2, <1>4, <1>7, <1>8 DEF Due
<1>10. Records(g, node', len, {})
  <2>1. CASE IsDir(node, p)
    BY <1>2, <1>3, <1>6, <1>9, <2>1, RecordsRemoved
  <2>2. CASE ~IsDir(node, p)
    <3>1. node[p] # Directory
      BY <1>3, <2>2, PathsArePlaces DEF IsDir, At
    <3>2. Records(ledger.files, node', len, {})
      BY <1>2, <1>3, <1>6, <3>1, RecordsUnlinked
    <3>3. Stamped(ledger.files) /\ Rel(p) \in Name
      BY <1>3, <1>6, NamesOfPaths DEF Records
    <3>4. g[Rel(p)].kind = "none" /\ SameBut(ledger.files, g, Rel(p)) /\ Stamped(g)
      BY <1>3, <1>9, <2>2, <3>3, UntrackMeans
    <3>5. node'[p] = Absent
      BY <1>2, <1>3, WithoutIsTree DEF AtOrUnder
    <3>6. Tells(g, node', len, p)
      BY <3>4, <3>5 DEF Tells, Absent, Directory
    <3>7. Records(g, node', len, {} \ {p})
      BY <1>3, <3>2, <3>4, <3>6, RecordsSet
    <3> QED BY <3>7
  <2> QED BY <2>1, <2>2
<1>11. \A q \in Path \ {} : node'[q] > 0 => len'[node'[q]] = len[node'[q]]
  <2>1. node' \in [Path -> Inode \cup {Absent, Directory}]
    BY DEF IInv, TypeOK
  <2> QED BY <1>2, <2>1, ScrubKeeps
<1>12. Stamped(g) /\ SameEntries(g, g, Name)
  BY <1>10 DEF Records, SameEntries
<1>13. Records(g, node', len', {})
  BY <1>10, <1>11, <1>12, RecordsSame
<1> QED BY <1>5, <1>8, <1>13

LEMMA RecordsRenaming ==
  ASSUME SoleClient, IInv, IsTree(node), NEW t \in Thread, Settled(th[t]), RenameBackend(t)
  PROVE  Records(Due(ledger', th'[t]).files, node', len', Unsettled(th'[t]))
<1>1. PICK src, dst : src = th[t].name.at /\ dst = th[t].to.at
  OBVIOUS
<1>2. /\ th[t].pc = "rename" /\ CanRename(node, src, dst) /\ node' = Renamed(node, src, dst)
      /\ ledger' = ledger /\ len' = len
  BY <1>1 DEF RenameBackend
<1>3. /\ th[t].name = Rel(src) /\ src \in Path /\ About(th[t]) = Rel(About(th[t]).at)
      /\ About(th[t]).at \in Path /\ Serves(th[t])
      /\ node \in [Path -> Int] /\ Sound(ledger) /\ Closed
  BY <1>1, <1>2, Client
<1>4. th[t].method = "MOVE" /\ th[t].to = Rel(dst) /\ dst \in Path /\ Movable(src, dst)
  BY <1>1, <1>2, <1>3 DEF Serves, About
<1>5. Same(th[t], th'[t]) /\ th'[t].pc = "retarget" /\ th'[t].dir = IsDir(node, src)
  BY <1>1, FlagStepMeans
<1>6. Unsettled(th[t]) = {} /\ Unsettled(th'[t]) = {} /\ Due(ledger, th[t]) = ledger
  BY <1>2, <1>5 DEF Unsettled, Storing, Writing, Evicting, Due
<1>7. Records(ledger.files, node, len, {})
  BY <1>6 DEF Settled
<1>8. PICK g : g = Due(ledger', th'[t]).files
  OBVIOUS
<1>9. g = IF IsDir(node, src) THEN RetargetTree(ledger, Rel(src), Rel(dst)).files
          ELSE RetargetFile(ledger, Rel(src), Rel(dst)).files
  BY <1>2, <1>3, <1>4, <1>5, <1>8 DEF Due, Same
<1>10. Records(g, node', len, {})
  <2>1. CASE IsDir(node, src)
    <3>1. node[src] = Directory
      BY <1>3, <2>1, PathsArePlaces DEF IsDir, At
    <3> QED BY <1>2, <1>3, <1>4, <1>7, <1>9, <2>1, <3>1, RecordsMovedTree
  <2>2. CASE ~IsDir(node, src)
    <3>1. src # dst /\ node[src] > 0
      <4>1. node \in [Path -> Inode \cup {Absent, Directory}] /\ Inode \subseteq Nat \ {0}
        BY <1>2, Client
      <4> QED BY <1>2, <1>3, <1>4, <2>2, <4>1, PathsArePlaces DEF IsDir, At, CanRename, Exists, Movable
    <3> QED BY <1>2, <1>3, <1>4, <1>7, <1>9, <2>2, <3>1, RecordsMovedFile
  <2> QED BY <2>1, <2>2
<1> QED BY <1>2, <1>6, <1>8, <1>10

LEMMA RecordsMaking ==
  ASSUME SoleClient, IInv, IsTree(node), NEW t \in Thread, Settled(th[t]), MkdirBackend(t)
  PROVE  Records(Due(ledger', th'[t]).files, node', len', Unsettled(th'[t]))
<1>1. PICK p : p = th[t].name.at
  OBVIOUS
<1>2. /\ th[t].pc \in {"begin", "enter"} /\ CanMake(node, p) /\ node' = [node EXCEPT ![p] = Directory]
      /\ ledger' = ledger /\ len' = len /\ Goto(t, "track")
  BY <1>1 DEF MkdirBackend, Ready
<1>3. /\ th[t].name = Rel(p) /\ p \in Path /\ th[t] \in Local
      /\ node \in [Path -> Int] /\ Sound(ledger) /\ Closed
  BY <1>1, <1>2, Client
<1>4. th'[t].pc = "track" /\ th'[t].name = Rel(p)
  <2>1. th \in [Thread -> Local]
    BY DEF IInv, TypeOK
  <2> QED BY <1>2, <1>3, <2>1 DEF Goto, Become, Local
<1>5. Unsettled(th[t]) = {} /\ Unsettled(th'[t]) = {} /\ Due(ledger, th[t]) = ledger
  BY <1>2, <1>4 DEF Unsettled, Storing, Writing, Evicting, Due
<1>6. Records(ledger.files, node, len, {})
  BY <1>5 DEF Settled
<1>7. Records(ledger.files, node', len, {p})
  <2>1. Directory \in Int
    BY DEF Directory
  <2> QED BY <1>2, <1>3, <1>6, <2>1, RecordsMade
<1>8. PICK g : g = Due(ledger', th'[t]).files
  OBVIOUS
<1>9. g = TrackDir(ledger, Rel(p)).files
  BY <1>2, <1>4, <1>8 DEF Due
<1>10. Stamped(ledger.files) /\ Rel(p) \in Name
  BY <1>3, <1>6, NamesOfPaths DEF Records
<1>11. g[Rel(p)].kind = "dir" /\ SameBut(ledger.files, g, Rel(p)) /\ Stamped(g)
  BY <1>3, <1>9, <1>10, TrackDirMeans
<1>12. node'[p] = Directory /\ IsDir(node', Parent(p))
  <2>1. Parent(p) \in Path \cup {Root}
    BY <1>3, ParentIsPath
  <2> QED BY <1>2, <1>3, <2>1 DEF IsDir, At, CanMake
<1>13. Tells(g, node', len, p)
  BY <1>11, <1>12 DEF Tells, Directory
<1>14. Records(g, node', len, {p} \ {p})
  BY <1>3, <1>7, <1>11, <1>13, RecordsSet
<1> QED BY <1>2, <1>5, <1>8, <1>14

(* What the lock holder records is what it had done.                       *)
LEMMA RecordsDue ==
  ASSUME SoleClient, IInv, NEW t \in Thread, Settled(th[t]), Step(t),
         th[t].pc \in {"forget", "retarget", "track"}
  PROVE  Records(Due(ledger', th'[t]).files, node', len', Unsettled(th'[t]))
<1>1. th \in [Thread -> Local] /\ th[t] \in Local /\ Subject(t) = About(th[t])
  BY IInvParts DEF IInv, TypeOK, Subject, About
<1>2. ledger' = Due(ledger, th[t]) /\ UNCHANGED <<node, len>> /\ th'[t].pc \in {"idle", "rename"}
  <2>1. CASE th[t].pc = "forget"
    <3>1. ForgetRemoved(t)
      BY <2>1, StepAt
    <3> QED BY <1>1, <2>1, <3>1 DEF ForgetRemoved, Due, Goto, Finish, Become, Idle, Local
  <2>2. CASE th[t].pc = "retarget"
    <3>1. Retarget(t)
      BY <2>2, StepAt
    <3> QED BY <1>1, <2>2, <3>1 DEF Retarget, Due, Finish, Become, Idle
  <2>3. CASE th[t].pc = "track"
    <3>1. TrackMkdir(t)
      BY <2>3, StepAt
    <3> QED BY <1>1, <2>3, <3>1 DEF TrackMkdir, Due, Finish, Become, Idle
  <2> QED BY <2>1, <2>2, <2>3
<1>3. Unsettled(th[t]) = {} /\ Unsettled(th'[t]) = {} /\ Due(ledger', th'[t]) = ledger'
  BY <1>2 DEF Unsettled, Storing, Writing, Evicting, Due
<1> QED BY <1>2, <1>3 DEF Settled

(* Recording what a Stat has seen puts the entry right.                    *)
LEMMA NotedTells ==
  ASSUME NEW f, NEW tree, NEW lens, NEW p \in Path, Tells(f, tree, lens, p),
         At(tree, p) = tree[p], tree[p] # Absent, tree[p] = Directory \/ tree[p] > 0,
         NEW g, NEW dir, dir <=> tree[p] = Directory,
         Noted(f, g, Rel(p), dir), NEW size, tree[p] > 0 => size = lens[tree[p]],
         g[Rel(p)].kind = "file" => g[Rel(p)].size = size
  PROVE  Tells(g, tree, lens, p)
<1>1. f[Rel(p)].kind # "none"
  BY DEF Tells, Directory
<1>2. Rel(p) \in Tracked(f)
  BY <1>1, NamesOfPaths DEF Tracked
<1>3. g[Rel(p)].kind = f[Rel(p)].kind
  BY <1>2 DEF Noted
<1> QED BY <1>1, <1>3 DEF Tells

(* Close.                                                                  *)
LEMMA RecordsClosing ==
  ASSUME SoleClient, IInv, IInv', NEW t \in Thread, Settled(th[t]), Close(t)
  PROVE  Records(Due(ledger', th'[t]).files, node', len', Unsettled(th'[t]))
<1>1. PICK p, f, g : p = th[t].name.at /\ f = ledger.files /\ g = ledger'.files
  OBVIOUS
<1>2. /\ th[t].pc = "closing" /\ ledger' = UpdateSize(ledger, th[t].name, th[t].dir, th[t].size)
      /\ th'[t] = Idle /\ node' = node /\ len' = Scrub(node', th')
  BY DEF Close, Finish, Become, IInv, TypeOK
<1>3. /\ th[t].name = Rel(p) /\ p \in Path /\ th[t].dir \in BOOLEAN /\ th[t].size \in Nat /\ Serves(th[t])
      /\ node \in [Path -> Inode \cup {Absent, Directory}] /\ Inode \subseteq Nat \ {0} /\ Sound(ledger)
  BY <1>1, <1>2, Client
<1>4. Due(ledger, th[t]) = ledger /\ Due(ledger', th'[t]) = ledger' /\ Unsettled(th'[t]) = {}
  BY <1>2 DEF Due, Idle, Unsettled, Storing, Writing, Evicting
<1>5. Records(f, node, len, Unsettled(th[t])) /\ Stamped(f) /\ Rel(p) \in Name
  BY <1>1, <1>3, <1>4, NamesOfPaths DEF Settled, Records
<1>6. Noted(f, g, Rel(p), th[t].dir) /\ (g[Rel(p)].kind = "file" => g[Rel(p)].size = th[t].size)
  <2>1. PICK dir, size : dir = th[t].dir /\ size = th[t].size
    OBVIOUS
  <2>2. g = UpdateSize(ledger, Rel(p), dir, size).files /\ dir \in BOOLEAN /\ size \in Nat
    BY <1>1, <1>2, <1>3, <2>1
  <2>3. Noted(ledger.files, g, Rel(p), dir) /\ (g[Rel(p)].kind = "file" => g[Rel(p)].size = size)
    BY <1>1, <1>3, <1>5, <2>2, UpdateSizeMeans
  <2> QED BY <1>1, <2>1, <2>3
<1>7. Unsettled(th[t]) \subseteq {p}
  BY <1>1 DEF Unsettled
<1>8. Tells(g, node, len, p)
  <2>1. CASE th[t].method = "PUT"
    <3>1. /\ th[t].fd \in Inode /\ node[p] \in {th[t].fd, Absent}
          /\ f[Rel(p)].kind # "dir" /\ IsDir(node, Parent(p))
          /\ th[t].size = len[th[t].fd] /\ ~th[t].dir
      BY <1>1, <1>2, <1>3, <2>1 DEF Settled, Stores, Storing
    <3>2. f[Rel(p)].kind \in {"none", "file", "dir"}
      BY <1>1, <1>3, <1>5 DEF Sound, Ledger, Entry
    <3>3. g[Rel(p)].kind = "file"
      BY <1>5, <1>6, <3>1, <3>2 DEF Noted, Tracked
    <3>4. node[p] # Directory /\ (node[p] > 0 => node[p] = th[t].fd)
      BY <1>3, <3>1 DEF Directory, Absent
    <3> QED BY <1>6, <3>1, <3>3, <3>4 DEF Tells
  <2>2. CASE th[t].method = "GET"
    <3>1. About(th[t]) = th[t].name
      BY <2>2 DEF About
    <3>2. Exists(node, p) /\ th[t].size = StatSize(p) /\ th[t].dir = IsDir(node, p)
      BY <1>1, <1>2, <2>2, <3>1 DEF Settled, Looks
    <3>3. At(node, p) = node[p]
      BY <1>3, PathsArePlaces DEF At
    <3>4. Unsettled(th[t]) = {}
      BY <1>2, <2>2 DEF Unsettled, Storing, Writing, Evicting
    <3>5. Tells(f, node, len, p)
      BY <1>3, <1>5, <3>4 DEF Records
    <3>6. node[p] # Absent /\ (node[p] = Directory \/ node[p] > 0)
      <4>1. node[p] # Absent
        BY <3>2, <3>3 DEF Exists
      <4>2. node[p] \in Inode \/ node[p] = Directory
        BY <1>3, <4>1
      <4>3. Inode \subseteq Nat \ {0}
        BY <1>3
      <4>4. \A i \in Inode : i > 0
        BY <4>3
      <4> QED BY <4>1, <4>2, <4>4
    <3>7. th[t].dir <=> node[p] = Directory
      BY <3>2, <3>3 DEF IsDir
    <3>8. node[p] > 0 => th[t].size = len[node[p]]
      BY <3>2, <3>3 DEF StatSize, IsFile
    <3> QED BY <1>3, <1>6, <3>3, <3>5, <3>6, <3>7, <3>8, NotedTells
  <2> QED BY <1>2, <1>3, <2>1, <2>2 DEF Serves
<1>9. Records(g, node, len, Unsettled(th[t]) \ {p})
  <2>1. SameBut(f, g, Rel(p)) /\ Stamped(g)
    BY <1>6 DEF Noted
  <2> QED BY <1>3, <1>5, <1>8, <2>1, RecordsSet
<1>10. Records(g, node, len, {})
  <2>1. Unsettled(th[t]) \ {p} = {}
    BY <1>7
  <2> QED BY <1>9, <2>1
<1>11. \A q \in Path \ {} : node[q] > 0 => len'[node[q]] = len[node[q]]
  <2>1. len' = Scrub(node, th')
    BY <1>2
  <2> QED BY <1>3, <2>1, ScrubKeeps
<1>12. Stamped(g) /\ SameEntries(g, g, Name)
  BY <1>10 DEF Records, SameEntries
<1>13. Records(g, node, len', {})
  BY <1>10, <1>11, <1>12, RecordsSame
<1> QED BY <1>1, <1>2, <1>4, <1>13

(* The locked half of Stat.                                                *)
LEMMA RecordsObserving ==
  ASSUME SoleClient, IInv, NEW t \in Thread, Settled(th[t]), ObserveStat(t)
  PROVE  Records(Due(ledger', th'[t]).files, node', len', Unsettled(th'[t]))
<1>1. PICK p, f, g : p = About(th[t]).at /\ f = ledger.files /\ g = ledger'.files
  OBVIOUS
<1>2. /\ th[t].pc = "observe" /\ ledger' = Observe(ledger, Subject(t), th[t].dir, th[t].size)
      /\ node' = node /\ len' = len
  BY DEF ObserveStat
<1>3. /\ Subject(t) = Rel(p) /\ p \in Path /\ th[t].dir \in BOOLEAN /\ th[t].size \in Nat /\ th[t] \in Local
      /\ node \in [Path -> Inode \cup {Absent, Directory}] /\ Inode \subseteq Nat \ {0} /\ Sound(ledger)
  BY <1>1, <1>2, Client
<1>4. th'[t].pc \in {"idle", "remove"}
  <2>1. th \in [Thread -> Local]
    BY DEF IInv, TypeOK
  <2> QED BY <1>3, <2>1 DEF ObserveStat, Finish, Goto, Become, Idle, Local
<1>5. Due(ledger, th[t]) = ledger /\ Due(ledger', th'[t]) = ledger'
      /\ Unsettled(th[t]) = {} /\ Unsettled(th'[t]) = {}
  BY <1>2, <1>4 DEF Due, Unsettled, Storing, Writing, Evicting
<1>6. Records(f, node, len, {}) /\ Stamped(f) /\ Rel(p) \in Name
  BY <1>1, <1>3, <1>5, NamesOfPaths DEF Settled, Records
<1>7. Noted(f, g, Rel(p), th[t].dir) /\ (~th[t].dir => g[Rel(p)].size = th[t].size)
  <2>1. PICK dir, size : dir = th[t].dir /\ size = th[t].size
    OBVIOUS
  <2>2. g = Observe(ledger, Rel(p), dir, size).files /\ dir \in BOOLEAN /\ size \in Nat
    BY <1>1, <1>2, <1>3, <2>1
  <2>3. Noted(ledger.files, g, Rel(p), dir) /\ (~dir => g[Rel(p)].size = size)
    BY <1>1, <1>3, <1>6, <2>2, ObserveMeans
  <2> QED BY <1>1, <2>1, <2>3
<1>8. Tells(g, node, len, p)
  <2>1. Exists(node, p) /\ th[t].size = StatSize(p) /\ th[t].dir = IsDir(node, p)
    BY <1>1, <1>2 DEF Settled, Looks
  <2>2. At(node, p) = node[p]
    BY <1>3, PathsArePlaces DEF At
  <2>3. Tells(f, node, len, p)
    BY <1>3, <1>6 DEF Records
  <2>4. node[p] # Absent /\ (node[p] = Directory \/ node[p] > 0)
    <3>1. node[p] # Absent
      BY <2>1, <2>2 DEF Exists
    <3>2. node[p] \in Inode \/ node[p] = Directory
      BY <1>3, <3>1
    <3>3. Inode \subseteq Nat \ {0}
      BY <1>3
    <3>4. \A i \in Inode : i > 0
      BY <3>3
    <3> QED BY <3>1, <3>2, <3>4
  <2>5. th[t].dir <=> node[p] = Directory
    BY <2>1, <2>2 DEF IsDir
  <2>6. node[p] > 0 => th[t].size = len[node[p]]
    BY <2>1, <2>2 DEF StatSize, IsFile
  <2>7. g[Rel(p)].kind = "file" => g[Rel(p)].size = th[t].size
    <3>1. th[t].dir => f[Rel(p)].kind = "dir"
      BY <2>3, <2>5 DEF Tells
    <3>2. th[t].dir => g[Rel(p)].kind = "dir"
      BY <1>6, <1>7, <3>1 DEF Noted, Tracked
    <3> QED BY <1>7, <3>2
  <2> QED BY <1>3, <1>7, <2>2, <2>3, <2>4, <2>5, <2>6, <2>7, NotedTells
<1>9. Records(g, node, len, {} \ {p})
  <2>1. SameBut(f, g, Rel(p)) /\ Stamped(g)
    BY <1>7 DEF Noted
  <2> QED BY <1>3, <1>6, <1>8, <2>1, RecordsSet
<1> QED BY <1>1, <1>2, <1>5, <1>9

(* An eviction: first the file, then its entry.                            *)
LEMMA PreyIsNoDirectory ==
  ASSUME SoleClient, IInv, NEW t \in Thread, Settled(th[t]), th[t].pc \in {"unlink", "untrack"}
  PROVE  /\ th[t].prey.name = Rel(th[t].prey.name.at) /\ th[t].prey.name.at \in Path
         /\ node[th[t].prey.name.at] # Directory
<1>1. th[t].prey \in Victim /\ th[t].prey.name.form = "rel" /\ ledger.files[th[t].prey.name].kind # "dir"
  BY Client DEF ControlOK, Settled, Evicts
<1>2. PICK p : p = th[t].prey.name.at
  OBVIOUS
<1>3. th[t].prey.name = Rel(p) /\ p \in Path
  BY <1>1, <1>2, NamesOfPaths DEF Victim
<1>4. CASE p \in Unsettled(th[t])
  <2>1. th[t].fd \in Inode /\ node[p] \in {th[t].fd, Absent}
    BY <1>4 DEF Settled, Stores, Unsettled
  <2>2. Inode \subseteq Nat \ {0}
    BY Client
  <2> QED BY <1>2, <1>3, <2>1, <2>2 DEF Directory, Absent
<1>5. CASE p \notin Unsettled(th[t])
  <2>1. Due(ledger, th[t]) = ledger
    BY DEF Due
  <2>2. Tells(ledger.files, node, len, p)
    BY <1>3, <1>5, <2>1 DEF Settled, Records
  <2> QED BY <1>1, <1>2, <1>3, <2>2 DEF Tells
<1> QED BY <1>4, <1>5

LEMMA RecordsEvicting ==
  ASSUME SoleClient, IInv, IInv', IsTree(node), NEW t \in Thread, Settled(th[t]), Step(t),
         UnlinkVictim(t) \/ UntrackVictim(t)
  PROVE  Records(Due(ledger', th'[t]).files, node', len', Unsettled(th'[t]))
<1>1. PICK p : p = th[t].prey.name.at
  OBVIOUS
<1>2. th[t].pc \in {"unlink", "untrack"} /\ (UntrackVictim(t) => th[t].pc = "untrack")
  BY DEF UnlinkVictim, UntrackVictim
<1>3. th[t].prey.name = Rel(p) /\ p \in Path /\ node[p] # Directory
  BY <1>1, <1>2, PreyIsNoDirectory
<1>4. /\ th \in [Thread -> Local] /\ th[t] \in Local /\ Serves(th[t]) /\ node \in [Path -> Int]
      /\ Sound(ledger) /\ Closed
  BY <1>2, Client DEF IInv, TypeOK
<1>5. th'[t].pc \in {"untrack", "evict"}
  <2>1. UnlinkVictim(t) => th'[t].pc = "untrack"
    BY <1>4 DEF UnlinkVictim, Goto, Become, Local
  <2>2. UntrackVictim(t) => th'[t].pc = "evict"
    BY <1>4 DEF UntrackVictim, Become, Drop, Local
  <2> QED BY <2>1, <2>2
<1>6. Due(ledger, th[t]) = ledger /\ Due(ledger', th'[t]) = ledger'
  BY <1>2, <1>5 DEF Due
<1>7. Unsettled(th[t]) \subseteq Unsettled(th'[t])
  BY <1>2, <1>4, StoringGoesOn
<1>8. Records(ledger.files, node, len, Unsettled(th[t]))
  BY <1>6 DEF Settled
<1>9. CASE UnlinkVictim(t)
  <2>1. node' = Without(node, p) /\ len' = Scrub(node', th') /\ ledger' = ledger
    BY <1>1, <1>9 DEF UnlinkVictim
  <2>2. Records(ledger.files, node', len, Unsettled(th[t]))
    BY <1>3, <1>4, <1>8, <2>1, RecordsUnlinked
  <2>3. \A q \in Path \ Unsettled(th'[t]) : node'[q] > 0 => len'[node'[q]] = len[node'[q]]
    <3>1. node' \in [Path -> Inode \cup {Absent, Directory}]
      BY DEF IInv, TypeOK
    <3> QED BY <2>1, <3>1, ScrubKeeps
  <2>4. Stamped(ledger.files) /\ SameEntries(ledger.files, ledger.files, Name)
    BY <1>8 DEF Records, SameEntries
  <2>5. Records(ledger.files, node', len', Unsettled(th'[t]))
    BY <1>7, <2>2, <2>3, <2>4, RecordsSame
  <2> QED BY <1>6, <2>1, <2>5
<1>10. CASE UntrackVictim(t)
  <2>1. ledger' = Untrack(ledger, Rel(p)) /\ node' = node /\ len' = len
    BY <1>3, <1>10 DEF UntrackVictim
  <2>2. PICK g : g = Untrack(ledger, Rel(p)).files
    OBVIOUS
  <2>3. Stamped(ledger.files) /\ Rel(p) \in Name
    BY <1>3, <1>8, NamesOfPaths DEF Records
  <2>4. g[Rel(p)].kind = "none" /\ SameBut(ledger.files, g, Rel(p)) /\ Stamped(g)
    BY <1>4, <2>2, <2>3, UntrackMeans
  <2>5. node[p] = Absent
    BY <1>1, <1>2, <1>10 DEF Settled, Evicts
  <2>6. Tells(g, node, len, p)
    BY <2>4, <2>5 DEF Tells, Absent, Directory
  <2>7. Records(g, node, len, Unsettled(th[t]) \ {p})
    BY <1>3, <1>8, <2>4, <2>6, RecordsSet
  <2>8. Stamped(g) /\ SameEntries(g, g, Name)
    BY <2>4 DEF SameEntries
  <2>9. Records(g, node, len, Unsettled(th'[t]))
    BY <1>7, <2>7, <2>8, RecordsSame
  <2> QED BY <1>6, <2>1, <2>2, <2>9
<1> QED BY <1>9, <1>10

(* The handle of a PUT is opened, and written to.                          *)
LEMMA RecordsOpening ==
  ASSUME SoleClient, IInv, IInv', IsTree(node), NEW t \in Thread, Settled(th[t]), Truncate(t) \/ Create(t)
  PROVE  /\ Records(Due(ledger', th'[t]).files, node', len', Unsettled(th'[t]))
         /\ th[t].pc = "create" /\ th'[t].pc = "put" /\ th'[t].name = th[t].name /\ ledger' = ledger
         /\ th'[t].fd \in Inode /\ node'[th[t].name.at] = th'[t].fd
         /\ \A q \in Path : node'[q] = th'[t].fd => q = th[t].name.at
         /\ IsDir(node', Parent(th[t].name.at)) /\ ledger.files[th[t].name].kind # "dir"
<1>1. PICK p : p = th[t].name.at
  OBVIOUS
<1>2. th[t].pc = "create" /\ ledger' = ledger
  BY DEF Truncate, Create
<1>3. /\ th[t].name = Rel(p) /\ p \in Path /\ th[t] \in Local /\ Closed
      /\ node \in [Path -> Inode \cup {Absent, Directory}] /\ node \in [Path -> Int]
      /\ Inode \subseteq Nat \ {0}
  BY <1>1, <1>2, Client
<1>4. th \in [Thread -> Local] /\ len \in [Inode -> Nat]
  BY DEF IInv, TypeOK
<1>5. Unsettled(th[t]) = {} /\ Due(ledger, th[t]) = ledger
  BY <1>2 DEF Unsettled, Storing, Writing, Evicting, Due
<1>6. Records(ledger.files, node, len, {})
  BY <1>5 DEF Settled
<1>7. Tells(ledger.files, node, len, p)
  BY <1>3, <1>6 DEF Records
<1>8. Stamped(ledger.files) /\ SameEntries(ledger.files, ledger.files, Name)
  BY <1>6 DEF Records, SameEntries
<1>9. Parent(p) \in Path \cup {Root}
  BY <1>3, ParentIsPath
<1>10. /\ Records(ledger.files, node', len', {p}) /\ th'[t].pc = "put" /\ th'[t].name = th[t].name
       /\ th'[t].fd \in Inode /\ node'[p] = th'[t].fd
       /\ \A q \in Path : node'[q] = th'[t].fd => q = p
       /\ IsDir(node', Parent(p)) /\ ledger.files[Rel(p)].kind # "dir"
  <2>1. CASE Truncate(t)
    <3>1. /\ IsFile(node, p) /\ node' = node /\ len' = [len EXCEPT ![node[p]] = 0]
          /\ th' = [th EXCEPT ![t] = [th[t] EXCEPT !.pc = "put", !.fd = node[p]]]
      BY <1>1, <2>1 DEF Truncate, Become
    <3>2. node[p] > 0
      BY <1>3, <3>1, PathsArePlaces DEF IsFile, At
    <3>3. node[p] \in Inode
      BY <1>3, <3>2 DEF Absent, Directory
    <3>4. th'[t].pc = "put" /\ th'[t].name = th[t].name /\ th'[t].fd = node[p]
      BY <1>3, <1>4, <3>1 DEF Local
    <3>5. \A q \in Path : node[q] = node[p] => q = p
      BY <1>3, <3>2 DEF IsTree
    <3>6. \A q \in Path \ {p} : node[q] > 0 => len'[node[q]] = len[node[q]]
      <4>1. \A q \in Path : node[q] > 0 => node[q] \in Inode
        BY <1>3 DEF Absent, Directory
      <4> QED BY <1>4, <3>1, <3>5, <4>1
    <3>7. Records(ledger.files, node, len', {p})
      BY <1>6, <1>8, <3>6, RecordsSame
    <3>8. ledger.files[Rel(p)].kind = "file" /\ IsDir(node, Parent(p))
      BY <1>7, <3>2 DEF Tells
    <3> QED BY <3>1, <3>3, <3>4, <3>5, <3>7, <3>8
  <2>2. CASE Create(t)
    <3>1. CanMake(node, p)
      BY <1>1, <2>2 DEF Create
    <3>2. PICK i \in Unused : /\ node' = [node EXCEPT ![p] = i] /\ len' = [len EXCEPT ![i] = 0]
                              /\ th' = [th EXCEPT ![t] = [th[t] EXCEPT !.pc = "put", !.fd = i]]
      BY <1>1, <2>2 DEF Create, Become
    <3>3. i \in Inode /\ i \in Int /\ i > 0 /\ \A q \in Path : node[q] # i
      BY <1>3, <3>2 DEF Unused, Live
    <3>4. th'[t].pc = "put" /\ th'[t].name = th[t].name /\ th'[t].fd = i
      BY <1>3, <1>4, <3>2 DEF Local
    <3>5. Records(ledger.files, node', len, {p})
      BY <1>3, <1>6, <3>1, <3>2, <3>3, RecordsMade
    <3>6. \A q \in Path \ {p} : node'[q] > 0 => len'[node'[q]] = len[node'[q]]
      <4>1. \A q \in Path \ {p} : node'[q] = node[q] /\ (node[q] > 0 => node[q] \in Inode)
        BY <1>3, <3>2 DEF Absent, Directory
      <4> QED BY <1>4, <3>2, <3>3, <4>1
    <3>7. Records(ledger.files, node', len', {p})
      BY <1>8, <3>5, <3>6, RecordsSame
    <3>8. IsDir(node', Parent(p))
      BY <1>3, <1>9, <3>1, <3>2 DEF IsDir, At, CanMake, Absent, Directory
    <3>9. ledger.files[Rel(p)].kind # "dir"
      BY <1>7, <3>1 DEF Tells, CanMake, Absent, Directory
    <3> QED BY <1>3, <3>2, <3>3, <3>4, <3>7, <3>8, <3>9
  <2> QED BY <2>1, <2>2
<1>11. Unsettled(th'[t]) = {p} /\ Due(ledger', th'[t]) = ledger'
  BY <1>1, <1>10 DEF Unsettled, Storing, Writing, Due
<1> QED BY <1>1, <1>2, <1>3, <1>10, <1>11

LEMMA RecordsWriting ==
  ASSUME SoleClient, IInv, NEW t \in Thread, Settled(th[t]), Write(t)
  PROVE  Records(Due(ledger', th'[t]).files, node', len', Unsettled(th'[t]))
<1>1. PICK p, fd, g : p = th[t].name.at /\ fd = th[t].fd /\ g = ledger'.files
  OBVIOUS
<1>2. /\ th[t].pc = "write" /\ node' = node
      /\ ledger' = ledger \/ ledger' = Touch(ledger, th[t].name)
      /\ \E n : len' = [len EXCEPT ![fd] = len[fd] + n]
  BY <1>1 DEF Write
<1>3. /\ th[t].name = Rel(p) /\ p \in Path /\ Sound(ledger)
      /\ node \in [Path -> Inode \cup {Absent, Directory}]
      /\ Inode \subseteq Nat \ {0}
  BY <1>1, <1>2, Client
<1>4. Same(th[t], th'[t]) /\ th'[t].pc = "put"
  BY FlagStepMeans
<1>5. Unsettled(th[t]) = {p} /\ Due(ledger, th[t]) = ledger /\ Storing(th[t])
      /\ Unsettled(th'[t]) = {p} /\ Due(ledger', th'[t]) = ledger'
  BY <1>1, <1>2, <1>4 DEF Unsettled, Storing, Writing, Due, Same
<1>6. Records(ledger.files, node, len, {p}) /\ Stamped(ledger.files) /\ Rel(p) \in Name
  BY <1>3, <1>5, NamesOfPaths DEF Settled, Records
<1>7. Stamped(g) /\ SameEntries(ledger.files, g, Name)
  <2>1. CASE ledger' = ledger
    BY <1>1, <1>6, <2>1 DEF SameEntries
  <2>2. CASE ledger' = Touch(ledger, th[t].name)
    <3>1. g = Touch(ledger, Rel(p)).files
      BY <1>1, <1>3, <2>2
    <3> QED BY <1>3, <1>6, <3>1, TouchMeans
  <2> QED BY <1>2, <2>1, <2>2
<1>8. \A q \in Path \ {p} : node[q] > 0 => len'[node[q]] = len[node[q]]
  <2>1. \A q \in Path : node[q] = fd => q = p
    BY <1>1, <1>5 DEF Settled, Stores
  <2>2. \A q \in Path : node[q] > 0 => node[q] \in Inode
    BY <1>3 DEF Absent, Directory
  <2>3. DOMAIN len = Inode
    BY DEF IInv, TypeOK
  <2> QED BY <1>2, <2>1, <2>2, <2>3
<1>9. Records(g, node, len', {p})
  BY <1>6, <1>7, <1>8, RecordsSame
<1> QED BY <1>1, <1>2, <1>5, <1>9

(* The other steps.                                                        *)
LEMMA RecordsQuiet ==
  ASSUME SoleClient, IInv, NEW t \in Thread, Settled(th[t]), Step(t),
         th[t].pc \notin {"forget", "retarget", "track", "closing"},
         th'[t].pc \notin {"forget", "retarget", "track"}, UNCHANGED <<node, len>>,
         ledger' = ledger \/ ledger' = Touch(ledger, th[t].name)
  PROVE  Records(Due(ledger', th'[t]).files, node', len', Unsettled(th'[t]))
<1>1. PICK g : g = ledger'.files
  OBVIOUS
<1>2. th[t].pc # "idle"
  BY StepAt
<1>3. th[t].name \in Name /\ Sound(ledger) /\ Serves(th[t])
  BY <1>2, Client DEF ControlOK
<1>4. Due(ledger, th[t]) = ledger /\ Due(ledger', th'[t]) = ledger'
  BY DEF Due
<1>5. Records(ledger.files, node, len, Unsettled(th[t])) /\ Stamped(ledger.files)
  BY <1>4 DEF Settled, Records
<1>6. Stamped(g) /\ SameEntries(ledger.files, g, Name)
  <2>1. CASE ledger' = ledger
    BY <1>1, <1>5, <2>1 DEF SameEntries
  <2>2. CASE ledger' = Touch(ledger, th[t].name)
    BY <1>1, <1>3, <1>5, <2>2, TouchMeans
  <2> QED BY <2>1, <2>2
<1>7. Unsettled(th[t]) \subseteq Unsettled(th'[t])
  BY <1>3, StoringGoesOn
<1>8. Records(g, node, len, Unsettled(th'[t]))
  BY <1>5, <1>6, <1>7, RecordsSame
<1> QED BY <1>1, <1>4, <1>8

LEMMA StepRecords ==
  ASSUME SoleClient, IInv, IInv', IsTree(node), NEW t \in Thread, Settled(th[t]), Step(t)
  PROVE  Records(Due(ledger', th'[t]).files, node', len', Unsettled(th'[t]))
<1>1. CASE th[t].pc \in {"forget", "retarget", "track"}
  BY <1>1, RecordsDue
<1>2. CASE th[t].pc = "closing"
  <2>1. Close(t)
    BY <1>2, StepAt
  <2> QED BY <2>1, RecordsClosing
<1>3. CASE th'[t].pc \in {"forget", "retarget", "track"}
  <2>1. RemoveBackend(t) \/ RenameBackend(t) \/ MkdirBackend(t)
    BY <1>3, StepTo
  <2> QED BY <2>1, RecordsRemoving, RecordsRenaming, RecordsMaking
<1>4. CASE /\ th[t].pc \notin {"forget", "retarget", "track", "closing"}
           /\ th'[t].pc \notin {"forget", "retarget", "track"}
  <2>1. ~ScanEntry(t)
    <3>1. th[t].pc = "scan" => Head(th[t].scan).left = {}
      BY DEF Settled, Starts
    <3> QED BY <3>1 DEF ScanEntry
  <2>2. ~RemoveBackend(t) /\ ~RenameBackend(t) /\ ~MkdirBackend(t)
    <3>1. ~MkdirBackend(t)
      <4>1. th \in [Thread -> Local] /\ th[t] \in Local
        BY IInvParts DEF IInv, TypeOK
      <4> QED BY <1>4, <4>1 DEF MkdirBackend, Goto, Become, Local
    <3> QED BY <1>4, <3>1, FlagStepMeans
  <2>3. ~ForgetRemoved(t) /\ ~Retarget(t) /\ ~TrackMkdir(t) /\ ~Close(t)
    BY <1>4 DEF ForgetRemoved, Retarget, TrackMkdir, Close
  <2>4. CASE UnlinkVictim(t) \/ UntrackVictim(t)
    BY <2>4, RecordsEvicting
  <2>5. CASE Truncate(t) \/ Create(t)
    BY <2>5, RecordsOpening
  <2>6. CASE Write(t)
    BY <2>6, RecordsWriting
  <2>7. CASE ObserveStat(t)
    BY <2>7, RecordsObserving
  <2>8. CASE UNCHANGED <<node, len>> /\ (ledger' = ledger \/ ledger' = Touch(ledger, th[t].name))
    BY <1>4, <2>8, RecordsQuiet
  <2> QED BY <2>1, <2>2, <2>3, <2>4, <2>5, <2>6, <2>7, <2>8, QuietStep
<1> QED BY <1>1, <1>2, <1>3, <1>4

(* The backend stays a tree.                                               *)
LEMMA StepTree ==
  ASSUME SoleClient, IInv, IsTree(node), NEW t \in Thread, Settled(th[t]), Step(t)
  PROVE  IsTree(node')
<1>1. th[t].pc # "idle"
  BY StepAt
<1>2. /\ th[t].name = Rel(th[t].name.at) /\ th[t].name.at \in Path
      /\ About(th[t]).at \in Path /\ About(th[t]) = Rel(About(th[t]).at) /\ Subject(t) = About(th[t])
      /\ node \in [Path -> Int] /\ Inode \subseteq Nat \ {0} /\ Serves(th[t]) /\ Closed
  BY <1>1, Client
<1>3. CASE UnlinkVictim(t)
  <2>1. th[t].prey.name.at \in Path
    BY <1>3, PreyIsNoDirectory DEF UnlinkVictim
  <2> QED BY <1>2, <1>3, <2>1, WithoutIsTree DEF UnlinkVictim
<1>4. CASE RemoveBackend(t)
  BY <1>2, <1>4, WithoutIsTree DEF RemoveBackend
<1>5. CASE Create(t)
  <2>1. PICK i \in Unused : node' = [node EXCEPT ![th[t].name.at] = i]
    BY <1>5 DEF Create
  <2>2. i \in Int /\ \A q \in Path : node[q] # i
    BY <1>2, <2>1 DEF Unused, Live
  <2> QED BY <1>2, <1>5, <2>1, <2>2, MadeIsTree DEF Create
<1>6. CASE MkdirBackend(t)
  <2>1. node' = [node EXCEPT ![th[t].name.at] = Directory] /\ CanMake(node, th[t].name.at)
    BY <1>6 DEF MkdirBackend
  <2>2. Directory \in Int /\ ~(Directory > 0)
    BY DEF Directory
  <2> QED BY <1>2, <2>1, <2>2, MadeIsTree
<1>7. CASE RenameBackend(t)
  <2>1. PICK src, dst : src = th[t].name.at /\ dst = th[t].to.at
    OBVIOUS
  <2>2. th[t].method = "MOVE" /\ CanRename(node, src, dst) /\ node' = Renamed(node, src, dst)
    BY <1>2, <1>7, <2>1 DEF RenameBackend, Serves
  <2>3. src \in Path /\ dst \in Path /\ src # dst
    BY <1>2, <2>1, <2>2 DEF About, Serves, Movable
  <2> QED BY <1>2, <2>2, <2>3, RenamedIsTree
<1> QED BY <1>3, <1>4, <1>5, <1>6, <1>7, StepBackend

(* What a step leaves of the entries of a pass, or of the file stored.     *)
LEMMA StaysNoDirectory ==
  ASSUME SoleClient, IInv, NEW t \in Thread, Settled(th[t]),
         th[t].pc \in Evicting \cup {"put", "write"}, Step(t),
         NEW n \in Name, ledger.files[n].kind # "dir"
  PROVE  ledger'.files[n].kind # "dir"
<1>1. PICK g : g = ledger'.files
  OBVIOUS
<1>2. /\ th[t].pc # "idle" /\ Due(ledger, th[t]) = ledger
  BY DEF Evicting, Due
<1>3. th[t].name \in Name /\ Sound(ledger)
  BY <1>2, Client DEF ControlOK
<1>4. Stamped(ledger.files)
  BY <1>2 DEF Settled, Records
<1>5. CASE UntrackVictim(t)
  <2>1. th[t].prey.name = Rel(th[t].prey.name.at) /\ th[t].prey.name.at \in Path
    BY <1>5, PreyIsNoDirectory DEF UntrackVictim
  <2>2. PICK m \in Name : m = th[t].prey.name
    BY <2>1, NamesOfPaths
  <2>3. g = Untrack(ledger, m).files
    BY <1>1, <1>5, <2>2 DEF UntrackVictim
  <2>4. g[m].kind = "none" /\ SameBut(ledger.files, g, m)
    BY <1>3, <1>4, <2>3, UntrackMeans
  <2> QED BY <1>1, <2>4 DEF SameBut
<1>6. CASE ledger' = ledger
  BY <1>6
<1>7. CASE ledger' = Touch(ledger, th[t].name)
  <2>1. SameEntries(ledger.files, g, Name)
    BY <1>1, <1>3, <1>4, <1>7, TouchMeans
  <2> QED BY <1>1, <2>1 DEF SameEntries
<1>8. ~UntrackVictim(t) => ledger' = ledger \/ ledger' = Touch(ledger, th[t].name)
  <2>1. CASE th[t].pc \in Evicting
    <3>1. EvictionStep(t)
      BY <2>1, StepAt
    <3> QED BY <3>1 DEF EvictionStep, SkipVictim, ChooseVictim, UnlinkVictim, UnlinkFails, EndEviction, SpaceFound, NoSpace
  <2>2. CASE th[t].pc \in {"put", "write"}
    <3>1. MakeRoom(t) \/ EndOfBody(t) \/ Write(t)
      BY <2>2, StepAt
    <3> QED BY <3>1 DEF MakeRoom, EndOfBody, Write
  <2> QED BY <2>1, <2>2
<1> QED BY <1>5, <1>6, <1>7, <1>8

(* A file that is being written keeps its place, if it is not evicted.     *)
LEMMA StoringStays ==
  ASSUME SoleClient, IInv, IsTree(node), NEW t \in Thread, Settled(th[t]), Step(t), Writing(th[t]),
         NEW p, p = th[t].name.at
  PROVE  /\ th[t].fd \in Inode /\ node'[p] \in {th[t].fd, Absent}
         /\ \A q \in Path : node'[q] = th[t].fd => q = p
         /\ ledger'.files[th[t].name].kind # "dir" /\ IsDir(node', Parent(p))
<1>1. th[t].pc \in Evicting \cup {"put", "write"} /\ th[t].pc # "idle"
  BY DEF Writing, Evicting
<1>2. /\ th[t].fd \in Inode /\ node[p] \in {th[t].fd, Absent}
      /\ \A q \in Path : node[q] = th[t].fd => q = p
      /\ ledger.files[th[t].name].kind # "dir" /\ IsDir(node, Parent(p))
  BY DEF Settled, Stores, Storing
<1>3. /\ th[t].name = Rel(p) /\ p \in Path /\ Rel(p) \in Name /\ Closed /\ Inode \subseteq Nat \ {0}
      /\ node \in [Path -> Int]
  BY <1>1, Client, NamesOfPaths
<1>4. ledger'.files[th[t].name].kind # "dir"
  BY <1>1, <1>2, <1>3, StaysNoDirectory
<1>5. CASE node' = node
  BY <1>2, <1>4, <1>5
<1>6. CASE UnlinkVictim(t)
  <2>1. PICK v \in Path : v = th[t].prey.name.at /\ node[v] # Directory
    BY <1>6, PreyIsNoDirectory DEF UnlinkVictim
  <2>2. \A q \in Path : IF AtOrUnder(q, v) THEN node'[q] = Absent ELSE node'[q] = node[q]
    BY <1>3, <1>6, <2>1, WithoutIsTree DEF UnlinkVictim
  <2>3. th[t].fd # Absent
    BY <1>2, <1>3 DEF Absent
  <2>4. \A q \in Path : AtOrUnder(q, v) => node[q] # Directory
    BY <2>1 DEF AtOrUnder, IsTree, Absent, Directory
  <2>5. IsDir(node', Parent(p))
    <3>1. Parent(p) \in Path \cup {Root}
      BY <1>3, ParentIsPath
    <3> QED BY <1>2, <2>2, <2>4, <3>1 DEF IsDir, At
  <2> QED BY <1>2, <1>3, <1>4, <2>2, <2>3, <2>5
<1>7. node' = node \/ UnlinkVictim(t)
  BY <1>1, StepBackend DEF Create, RemoveBackend, RenameBackend, MkdirBackend, Ready, Evicting
<1> QED BY <1>5, <1>6, <1>7

LEMMA StepStores ==
  ASSUME SoleClient, IInv, IInv', IsTree(node), NEW t \in Thread, Settled(th[t]), Step(t)
  PROVE  Stores(th[t])'
<1> SUFFICES ASSUME Storing(th'[t])
             PROVE  /\ th'[t].fd \in Inode /\ node'[th'[t].name.at] \in {th'[t].fd, Absent}
                    /\ \A q \in Path : node'[q] = th'[t].fd => q = th'[t].name.at
                    /\ ledger'.files[th'[t].name].kind # "dir" /\ IsDir(node', Parent(th'[t].name.at))
                    /\ th'[t].pc = "closing" => th'[t].size = len'[th'[t].fd] /\ ~th'[t].dir
  BY DEF Stores
<1>1. th[t].pc # "idle" /\ Serves(th[t]) /\ ControlOK(th[t])
  BY StepAt, Client
<1>2. CASE th'[t].pc = "closing" /\ th'[t].method = "PUT"
  <2>1. EndOfBody(t) \/ Serve(t)
    BY <1>2, StepTo
  <2>2. ~Serve(t)
    <3>1. Serve(t) => th[t].pc = "open" /\ Same(th[t], th'[t])
      BY FlagStepMeans DEF Serve
    <3> QED BY <1>1, <1>2, <3>1 DEF Serves, Same
  <2>3. /\ th[t].pc = "put" /\ Same(th[t], th'[t]) /\ th'[t].size = len[th[t].fd] /\ ~th'[t].dir
        /\ len' = len
    BY <2>1, <2>2, FlagStepMeans DEF EndOfBody
  <2>4. Writing(th[t])
    BY <2>3 DEF Writing
  <2> QED BY <2>3, <2>4, StoringStays DEF Same
<1>3. CASE Writing(th'[t])
  <2>1. th'[t].pc # "closing"
    BY <1>3 DEF Writing, Evicting
  <2>2. CASE Truncate(t) \/ Create(t)
    BY <2>1, <2>2, RecordsOpening
  <2>3. CASE Writing(th[t]) /\ th'[t].fd = th[t].fd /\ th'[t].name = th[t].name
    BY <2>1, <2>3, StoringStays
  <2>4. CASE EvictionStep(t)
    <3>1. th[t].pc \in Evicting
      BY <2>4 DEF EvictionStep, Evicting, SkipVictim, ChooseVictim, UnlinkVictim, UnlinkFails, UntrackVictim,
                  EndEviction, SpaceFound, NoSpace
    <3>2. th'[t] # Idle
      BY <1>3 DEF Writing, Evicting, Idle
    <3>3. /\ Same(th[t], th'[t])
          /\ th'[t].pc \in Evicting \/ th'[t].pc = th[t].ret \/ th[t].ret = "write"
      BY <2>4, <3>2, EvictionMeans DEF Evicting
    <3>4. th[t].ret = "write"
      BY <1>1, <1>3, <3>1, <3>3 DEF Writing, Same, ControlOK, Evicting
    <3>5. Writing(th[t])
      BY <3>1, <3>4 DEF Writing
    <3> QED BY <2>3, <3>3, <3>5 DEF Same
  <2>5. CASE Write(t)
    <3>1. Same(th[t], th'[t]) /\ th[t].pc = "write"
      BY <2>5, FlagStepMeans DEF Write
    <3> QED BY <2>3, <3>1 DEF Same, Writing
  <2>6. CASE MakeRoom(t)
    <3>1. th'[t].fd = th[t].fd /\ th'[t].name = th[t].name /\ th[t].pc = "put"
      BY <2>6, SpaceMeans DEF MakeRoom
    <3> QED BY <2>3, <3>1 DEF Writing
  <2>7. CASE th'[t].pc \in Evicting /\ (ScanSpace(t) \/ OpenForWriting(t))
    <3>1. th'[t].ret \in {"begin", "scan", "create"}
      BY <2>7, SpaceMeans
    <3> QED BY <1>3, <2>7, <3>1 DEF Writing, Evicting
  <2> QED BY <1>3, <2>2, <2>4, <2>5, <2>6, <2>7, StepArrives DEF Writing
<1> QED BY <1>2, <1>3 DEF Storing

LEMMA StepLooks ==
  ASSUME SoleClient, IInv, NEW t \in Thread, Settled(th[t]), Step(t)
  PROVE  Looks(th[t])'
<1> SUFFICES ASSUME th'[t].pc = "observe" \/ (th'[t].pc = "closing" /\ th'[t].method = "GET")
             PROVE  /\ Exists(node', About(th'[t]).at)
                    /\ th'[t].size = StatSize(About(th[t]).at)'
                    /\ th'[t].dir = IsDir(node', About(th'[t]).at)
  BY DEF Looks
<1>1. th[t].pc # "idle" /\ Serves(th[t]) /\ Subject(t) = About(th[t])
  BY StepAt, Client
<1>2. CASE th'[t].pc = "observe"
  <2>1. StatBackend(t)
    BY <1>2, StepTo
  <2>2. /\ Same(th[t], th'[t]) /\ th'[t].size = StatSize(Subject(t).at)
        /\ th'[t].dir = IsDir(node, Subject(t).at)
    BY <2>1, FlagStepMeans
  <2>3. Exists(node, Subject(t).at) /\ node' = node /\ len' = len
    BY <2>1 DEF StatBackend
  <2>4. About(th'[t]) = Subject(t)
    BY <1>1, <2>2 DEF Same, About
  <2> QED BY <2>2, <2>3, <2>4 DEF StatSize
<1>3. CASE th'[t].pc = "closing" /\ th'[t].method = "GET"
  <2>1. EndOfBody(t) \/ Serve(t)
    BY <1>3, StepTo
  <2>2. ~EndOfBody(t)
    <3>1. EndOfBody(t) => th[t].pc = "put" /\ Same(th[t], th'[t])
      BY FlagStepMeans DEF EndOfBody
    <3> QED BY <1>1, <1>3, <3>1 DEF Serves, Same
  <2>3. /\ Same(th[t], th'[t]) /\ th'[t].size = StatSize(th[t].name.at)
        /\ th'[t].dir = IsDir(node, th[t].name.at)
    BY <2>1, <2>2, FlagStepMeans
  <2>4. Exists(node, th[t].name.at) /\ node' = node /\ len' = len
    BY <2>1, <2>2 DEF Serve
  <2>5. About(th'[t]) = th[t].name
    BY <1>3, <2>3 DEF Same, About
  <2> QED BY <2>3, <2>4, <2>5 DEF StatSize
<1> QED BY <1>2, <1>3

LEMMA StepEvicts ==
  ASSUME SoleClient, IInv, IInv', IsTree(node), NEW t \in Thread, Settled(th[t]), Step(t)
  PROVE  Evicts(th[t])'
<1>1. /\ th[t].pc # "idle" /\ ControlOK(th[t]) /\ ControlOK(th'[t]) /\ th'[t] \in Local /\ th[t] \in Local
      /\ node \in [Path -> Int]
  BY StepAt, Client DEF IInv, TypeOK
<1>2. Evicts(th[t])
  BY DEF Settled
<1>3. CASE th[t].pc \in Evicting
  <2>1. EvictionStep(t)
    BY <1>3, StepAt
  <2>2. CASE th'[t] = Idle
    BY <2>2 DEF Evicts, Evicting, Idle
  <2>3. CASE th'[t] # Idle
    <3>1. /\ Same(th[t], th'[t]) /\ th'[t].victims \subseteq th[t].victims
          /\ \/ th'[t].pc \in {"evict", "verdict"}
             \/ th'[t].pc = "unlink" /\ ChooseVictim(t) /\ th'[t].prey \in th[t].victims
             \/ th'[t].pc = "untrack" /\ UnlinkVictim(t) /\ th'[t].prey = th[t].prey
             \/ th'[t].pc \in {"create", "write", "begin", "put"}
      <4>1. th[t].ret \in {"create", "write", "scan", "begin"} /\ th[t].ret # "scan"
        BY <1>1, <1>2, <1>3 DEF ControlOK, Evicts
      <4> QED BY <2>1, <2>3, <4>1, EvictionMeans
    <3>2. th[t].ret # "scan" /\ th'[t].ret # "scan"
      BY <1>2, <1>3, <3>1 DEF Evicts, Same
    <3>3. \A v \in th[t].victims : v.name.form = "rel" /\ ledger.files[v.name].kind # "dir" /\ v.name \in Name
      BY <1>1, <1>2, <1>3 DEF Evicts, Local, Victim
    <3>4. \A v \in th'[t].victims : v.name.form = "rel" /\ ledger'.files[v.name].kind # "dir"
      BY <1>3, <3>1, <3>3, StaysNoDirectory
    <3>5. CASE th'[t].pc = "unlink"
      <4>1. th'[t].prey \in th[t].victims
        BY <3>1, <3>5
      <4>2. th'[t].prey.name.form = "rel" /\ ledger'.files[th'[t].prey.name].kind # "dir"
        BY <1>3, <3>3, <4>1, StaysNoDirectory
      <4> QED BY <3>2, <3>4, <3>5, <4>2 DEF Evicts
    <3>6. CASE th'[t].pc = "untrack"
      <4>1. UnlinkVictim(t) /\ th'[t].prey = th[t].prey
        BY <3>1, <3>6
      <4>2. th[t].pc = "unlink" /\ node' = Without(node, th[t].prey.name.at) /\ ledger' = ledger
        BY <4>1 DEF UnlinkVictim
      <4>3. th[t].prey.name.form = "rel" /\ ledger.files[th[t].prey.name].kind # "dir"
        BY <1>2, <4>2 DEF Evicts
      <4>4. th[t].prey.name.at \in Path
        BY <4>2, PreyIsNoDirectory
      <4>5. node'[th[t].prey.name.at] = Absent
        BY <1>1, <4>2, <4>4 DEF Without
      <4> QED BY <3>2, <3>4, <3>6, <4>1, <4>2, <4>3, <4>5 DEF Evicts
    <3>7. CASE th'[t].pc \notin {"unlink", "untrack"}
      BY <3>2, <3>4, <3>7 DEF Evicts
    <3> QED BY <3>5, <3>6, <3>7
  <2> QED BY <2>2, <2>3
<1>4. CASE th[t].pc \notin Evicting /\ th'[t].pc \in Evicting
  <2>1. ~EvictionStep(t)
    BY <1>4 DEF EvictionStep, Evicting, SkipVictim, ChooseVictim, UnlinkVictim, UnlinkFails, UntrackVictim,
                EndEviction, SpaceFound, NoSpace
  <2>2. ScanSpace(t) \/ OpenForWriting(t) \/ MakeRoom(t)
    BY <1>4, <2>1, StepArrives
  <2>3. ScanSpace(t) => th'[t].ret = "begin"
    <3>1. ScanSpace(t) => Len(th[t].scan) = 1
      BY DEF Settled, Starts, ScanSpace
    <3> QED BY <3>1, SpaceMeans
  <2>4. th'[t].ret \in {"begin", "create", "write"}
    BY <2>2, <2>3, SpaceMeans
  <2>5. th'[t].pc = "evict" /\ Snapshot(th'[t])
    BY <1>4, <2>2, <2>4, SpaceMeans DEF Evicting
  <2>6. ledger' = ledger
    BY <2>2 DEF ScanSpace, OpenForWriting, MakeRoom
  <2>7. Due(ledger, th[t]) = ledger
    <3>1. th[t].pc \notin {"forget", "retarget", "track"}
      BY <2>2 DEF ScanSpace, OpenForWriting, MakeRoom, Ready
    <3> QED BY <3>1 DEF Due
  <2>8. \A p \in Path : ledger.files[Abs(p)].kind = "none"
    BY <2>7 DEF Settled, Records
  <2>9. \A v \in th'[t].victims : v.name.form = "rel" /\ ledger.files[v.name].kind = "file"
    <3>1. ASSUME NEW v \in th'[t].victims PROVE v.name.form = "rel" /\ ledger.files[v.name].kind = "file"
      <4>1. PICK n \in Candidates : v = [name |-> n, at |-> ledger.files[n].at]
        BY <2>5 DEF Snapshot
      <4>2. n \in Name /\ ledger.files[n].kind = "file" /\ v.name = n
        BY <4>1 DEF Candidates
      <4>3. n.form \in {"rel", "abs"}
        BY <4>2 DEF Name
      <4>4. n.form # "abs"
        BY <2>8, <4>2, NamesOfPaths
      <4> QED BY <4>2, <4>3, <4>4
    <3> QED BY <3>1
  <2> QED BY <2>4, <2>5, <2>6, <2>9 DEF Evicts
<1>5. CASE th'[t].pc \notin Evicting
  BY <1>5 DEF Evicts, Evicting
<1> QED BY <1>3, <1>4, <1>5

(* Only the first call scans.                                              *)
LEMMA FirstCall ==
  ASSUME NEW t \in Thread, Step(t)
  PROVE  /\ StartScan(t) \/ initialized' = initialized
         /\ th[t].pc = "enter" => StartScan(t) \/ initialized
<1>1. ScanStep(t) => StartScan(t) \/ (initialized' = initialized /\ th[t].pc # "enter")
  BY DEF ScanStep, ScanList, ScanFails, ScanEntry, ScanSpace
<1>2. EvictionStep(t) => initialized' = initialized /\ th[t].pc # "enter"
  BY DEF EvictionStep, SkipVictim, ChooseVictim, UnlinkVictim, UnlinkFails, UntrackVictim,
         EndEviction, SpaceFound, NoSpace
<1>3. PutStep(t) => initialized' = initialized /\ (th[t].pc = "enter" => initialized)
  BY DEF PutStep, Ready, OpenForWriting, Truncate, Create, CreateFails, MakeRoom, Write, EndOfBody
<1>4. ReadStep(t) => initialized' = initialized /\ (th[t].pc = "enter" => initialized)
  BY DEF ReadStep, Ready, OpenForReading, Serve, OpenFails, Close, StatBackend, StatFails, DestinationFree, ObserveStat
<1>5. TreeStep(t) => initialized' = initialized /\ (th[t].pc = "enter" => initialized)
  BY DEF TreeStep, Ready, RemoveBackend, RemoveFails, RemovePanics, ForgetRemoved, RenameBackend,
         RenameFails, Retarget, MkdirBackend, MkdirFails, TrackMkdir
<1> QED BY <1>1, <1>2, <1>3, <1>4, <1>5 DEF Step

LEMMA StepStarts ==
  ASSUME SoleClient, IInv, NEW t \in Thread, Settled(th[t]), Step(t)
  PROVE  Starts(th[t])'
<1>1. /\ th[t].pc # "idle" /\ th \in [Thread -> Local] /\ th[t] \in Local /\ Starts(th[t])
      /\ ControlOK(th[t])
  BY StepAt, Client DEF IInv, TypeOK, Settled
<1>2. initialized' = TRUE
  <2>1. initialized \in BOOLEAN
    BY DEF IInv, TypeOK
  <2>2. ~initialized => StartScan(t)
    BY <1>1, FirstCall DEF Starts
  <2> QED BY <2>1, <2>2, FirstCall DEF StartScan
<1>3. ASSUME th'[t].pc = "scan"
      PROVE  Bare' /\ Len(th'[t].scan) = 1 /\ Head(th'[t].scan).left = {} /\ Head(th'[t].scan).dir = Root
  <2>1. CASE StartScan(t)
    <3>1. Bare /\ node' = node
      BY <1>1, <2>1 DEF StartScan, Starts
    <3>2. PICK f : f = [dir |-> Root, listed |-> FALSE, left |-> {}]
      OBVIOUS
    <3>3. th'[t].scan = <<f>>
      BY <1>1, <2>1, <3>2 DEF StartScan, Become, Local
    <3>4. Len(<<f>>) = 1 /\ Head(<<f>>) = f /\ f.left = {} /\ f.dir = Root
      BY <3>2
    <3> QED BY <3>1, <3>3, <3>4 DEF Bare
  <2>2. CASE ScanList(t)
    <3>1. /\ th[t].pc = "scan" /\ node' = node /\ Bare /\ Len(th[t].scan) = 1 /\ Head(th[t].scan).dir = Root
          /\ th[t].scan \in Seq(Frame)
      BY <1>1, <2>2 DEF ScanList, Starts, Local
    <3>2. Listing(Root) = {}
      <4>1. Children(node, Root) = {}
        BY <3>1, PathsArePlaces DEF Children, Exists, At, Bare
      <4> QED BY <4>1 DEF Listing
    <3>3. PICK f : f = [dir |-> Root, listed |-> TRUE, left |-> {}]
      OBVIOUS
    <3>4. th'[t].scan = <<f>> \o Tail(th[t].scan)
      BY <1>1, <2>2, <3>1, <3>2, <3>3 DEF ScanList, Become, Local
    <3>5. PICK q \in Seq(Frame) : q = Tail(th[t].scan) /\ Len(q) = 0
      <4>1. PICK q \in Seq(Frame) : q = th[t].scan /\ Len(q) = 1
        BY <3>1
      <4>2. q # << >>
        BY <3>1, <4>1, ScanParts
      <4>3. Tail(q) \in Seq(Frame) /\ Len(Tail(q)) = 0
        BY <4>1, <4>2, HeadTailProperties
      <4> QED BY <4>1, <4>3
    <3>6. <<f>> \in Seq(Frame)
      <4>1. f \in Frame
        BY <3>3 DEF Frame
      <4> QED BY <4>1
    <3>7. PICK h \in Seq(Frame) : h = <<f>> /\ Len(h) = 1 /\ h[1] = f
      BY <3>6
    <3>8. PICK k \in Seq(Frame) : k = h \o q /\ Len(k) = 1 /\ k[1] = f
      BY <3>5, <3>7, ConcatProperties
    <3>9. Head(k) = f /\ f.left = {} /\ f.dir = Root
      <4>1. k # << >>
        BY <3>8, EmptySeq
      <4> QED BY <3>3, <3>8, <4>1
    <3> QED BY <3>1, <3>4, <3>5, <3>7, <3>8, <3>9 DEF Bare
  <2>3. ~ScanEntry(t)
    BY <1>1 DEF ScanEntry, Starts
  <2>4. ~ScanSpace(t)
    <3>1. ScanSpace(t) => Len(th[t].scan) = 1
      BY <1>1 DEF Starts, ScanSpace
    <3>2. ScanSpace(t) => th'[t].pc \in {"begin", "evict"}
      BY <3>1, SpaceMeans
    <3> QED BY <1>3, <3>2
  <2>5. ~EvictionStep(t)
    <3>1. ASSUME EvictionStep(t) PROVE FALSE
      <4>1. th[t].pc \in Evicting
        BY <3>1 DEF EvictionStep, Evicting, SkipVictim, ChooseVictim, UnlinkVictim, UnlinkFails, UntrackVictim,
                    EndEviction, SpaceFound, NoSpace
      <4>2. th[t].ret # "scan"
        BY <4>1 DEF Settled, Evicts
      <4>3. th'[t] # Idle
        BY <1>3 DEF Idle
      <4> QED BY <1>3, <3>1, <4>2, <4>3, EvictionMeans
    <3> QED BY <3>1
  <2> QED BY <1>3, <2>1, <2>2, <2>3, <2>4, <2>5, StepArrives
<1> QED BY <1>2, <1>3 DEF Starts

LEMMA StepKeepsSettled ==
  ASSUME SoleClient, IInv, IInv', IsTree(node), NEW t \in Thread, Settled(th[t]), Step(t)
  PROVE  Settled(th[t])'
<1>1. Serves(th'[t]) /\ Continues(th[t], th'[t])
  BY StepServes DEF Settled
<1>2. th'[t].pc # "idle" => th'[t].name.form = "rel"
  BY <1>1, StepAt DEF Settled, Continues, Idle
<1>3. Records(Due(ledger', th'[t]).files, node', len', Unsettled(th'[t]))
  BY StepRecords
<1>4. Stores(th[t])' /\ Looks(th[t])' /\ Evicts(th[t])' /\ Starts(th[t])'
  BY StepStores, StepLooks, StepEvicts, StepStarts
<1> QED BY <1>1, <1>2, <1>3, <1>4 DEF Settled

LEMMA RequestKeepsSettled ==
  ASSUME SoleClient, IInv, IInv', NEW t \in Thread, Settled(th[t]), Request(t)
  PROVE  Settled(th[t])' /\ node' = node
<1>1. /\ th[t].pc = "idle" /\ UNCHANGED <<node, len, ledger, initialized>>
  BY DEF Request, IssueRead, IssueWrite, IssueMove, Issue
<1>2. Serves(th'[t]) /\ th'[t].pc = "enter" /\ (th'[t].name.form = "abs" => "abs" \in ReadForms)
  BY RequestServes DEF Settled
<1>3. th'[t].name.form = "rel"
  <2>1. th'[t].name.form \in {"rel", "abs"}
    <3>1. th'[t] \in Local
      BY DEF IInv, TypeOK
    <3> QED BY <3>1 DEF Local, Name, NoName
  <2> QED BY <1>2, <2>1 DEF SoleClient
<1>4. Records(Due(ledger', th'[t]).files, node', len', Unsettled(th'[t]))
  <2>1. Due(ledger, th[t]) = ledger /\ Due(ledger', th'[t]) = ledger' /\ Unsettled(th[t]) = {} /\ Unsettled(th'[t]) = {}
    BY <1>1, <1>2 DEF Due, Unsettled, Storing, Writing, Evicting
  <2> QED BY <1>1, <2>1 DEF Settled
<1>5. Stores(th[t])' /\ Looks(th[t])' /\ Evicts(th[t])'
  BY <1>2 DEF Stores, Storing, Writing, Looks, Evicts, Evicting
<1>6. Starts(th[t])'
  BY <1>1, <1>2 DEF Settled, Starts, Bare
<1> QED BY <1>1, <1>2, <1>3, <1>4, <1>5, <1>6 DEF Settled

LEMMA DInvKept ==
  ASSUME SoleClient, IInv, IInv', DInv, [Next]_vars
  PROVE  DInv'
<1>1. CASE UNCHANGED vars
  <2>1. \A t \in Thread : Settled(th[t])'
    BY <1>1 DEF vars, DInv, Settled, Stores, Looks, StatSize, Evicts, Starts, Bare
  <2> QED BY <1>1, <2>1 DEF vars, DInv
<1>2. ASSUME NEW t \in Thread, Request(t) \/ Step(t)
      PROVE  DInv'
  <2>1. Settled(th[t])' /\ IsTree(node')
    BY <1>2, StepKeepsSettled, RequestKeepsSettled, StepTree DEF DInv
  <2>2. \A u \in Thread : u = t
    BY DEF SoleClient
  <2> QED BY <2>1, <2>2 DEF DInv
<1>3. ~Restart
  BY DEF SoleClient, Restart, IInv, TypeOK
<1> QED BY <1>1, <1>2, <1>3 DEF Next, BudgetSpent

LEMMA InitDInv ==
  ASSUME SoleClient, Init
  PROVE  DInv
<1>1. node = InitialNode /\ ledger = EmptyLedger /\ initialized = FALSE /\ \A t \in Thread : th[t] = Idle
  BY DEF Init
<1>2. Bare
  BY <1>1 DEF SoleClient, Bare
<1>3. IsTree(node)
  BY <1>2 DEF Bare, IsTree, Absent
<1>4. Records(ledger.files, node, len, {})
  <2>1. \A n \in Name : ledger.files[n].kind = "none"
    BY <1>1 DEF EmptyLedger, NoEntry
  <2> QED BY <1>1, <1>2, <2>1, EmptyStamped, NamesOfPaths DEF Records, Tells, Bare, Absent, Directory
<1>5. Settled(Idle)
  <2>1. Idle.pc = "idle" /\ Due(ledger, Idle) = ledger /\ Unsettled(Idle) = {} /\ ~Storing(Idle)
    BY DEF Idle, Due, Unsettled, Storing, Writing, Evicting
  <2> QED BY <1>2, <1>4, <2>1, IdleServes DEF Settled, Stores, Looks, Evicts, Evicting, Starts
<1> QED BY <1>1, <1>3, <1>5 DEF DInv

(* Between requests of a sole client, every file on disk is recorded under *)
(* the name the client uses, with the size it has, through any sequence of *)
(* uploads, evictions, removals and renames, of trees too, and failures of *)
(* the backend: for every tree of paths, cap, size of write and length of  *)
(* history.                                                                *)
THEOREM DiskIsRecorded == SoleClient => (Spec => []LedgerMatchesDisk)
<1> SUFFICES ASSUME SoleClient PROVE Spec => []LedgerMatchesDisk
  OBVIOUS
<1>1. Init => DInv
  BY InitDInv
<1>2. IInv /\ IInv' /\ DInv /\ [Next]_vars => DInv'
  BY DInvKept
<1>3. IInv /\ DInv => LedgerMatchesDisk
  <2> SUFFICES ASSUME IInv, DInv, Quiet, NEW p \in Path, IsFile(node, p)
               PROVE  ledger.files[Rel(p)].kind = "file" /\ ledger.files[Rel(p)].size = len[node[p]]
    BY DEF LedgerMatchesDisk
  <2>1. PICK t \in Thread : th[t].pc = "idle" /\ Settled(th[t])
    BY DEF SoleClient, DInv, Quiet
  <2>2. Due(ledger, th[t]) = ledger /\ Unsettled(th[t]) = {}
    BY <2>1 DEF Due, Unsettled, Storing, Writing, Evicting
  <2>3. Tells(ledger.files, node, len, p)
    BY <2>1, <2>2 DEF Settled, Records
  <2>4. node[p] > 0
    BY PathsArePlaces DEF IsFile, At
  <2> QED BY <2>3, <2>4 DEF Tells
<1> QED BY <1>1, <1>2, <1>3, Invariant, PTL DEF Spec

-----------------------------------------------------------------------------
(* The stamps of a sole client's files tell the order of its accesses      *)
-----------------------------------------------------------------------------
(* The file whose access is not over: it is recorded when it is.           *)
Exempt(r) == IF Storing(r) \/ r.pc \in {"open", "closing"} THEN {r.name.at} ELSE {}

(* The history once a rename is in the ledger.                             *)
Upcoming(r) == IF r.pc = "retarget" THEN HistoryRenamed(r.name.at, r.to.at) ELSE recency

(* Of two files that are recorded, and the second on disk, the stamps tell *)
(* what the history does.  A file that is recorded has been accessed.      *)
Orders(f, tree, R, S) ==
    /\ \A p, q \in Path \ S :
          p # q /\ f[Rel(p)].kind = "file" /\ f[Rel(q)].kind = "file" /\ tree[q] > 0
          /\ f[Rel(p)].at < f[Rel(q)].at => <<p, q>> \in R
    /\ \A p \in Path : f[Rel(p)].kind = "file" => <<p, p>> \in R

(* The pass goes by what the history says, from the oldest.                *)
Passes(r) ==
    /\ r.pc \in Evicting => \A v, w \in r.victims :
          v # w /\ v.at <= w.at /\ r.name.at \notin {v.name.at, w.name.at} /\ node[w.name.at] > 0
          => <<v.name.at, w.name.at>> \in recency
    /\ r.pc = "unlink" => r.prey \in r.victims /\ \A w \in r.victims : r.prey.at <= w.at

Ordered(r) ==
    /\ Orders(Due(ledger, r).files, node, Upcoming(r), Exempt(r))
    /\ r.pc \in {"open", "closing"} /\ IsTracked(ledger, r.name) => Last(ledger.files, r.name)
    /\ Passes(r)

-----------------------------------------------------------------------------
(* Fewer files, in the same order but for those whose access is not over.  *)
LEMMA OrdersKept ==
  ASSUME NEW f, NEW g, NEW tree, NEW tree2, NEW R, NEW S, NEW T, NEW N,
         Orders(f, tree, R, S), S \subseteq T, SameOrder(f, g, N),
         \A p \in Path : g[Rel(p)].kind = "file" =>
            f[Rel(p)].kind = "file" /\ (p \in T \/ Rel(p) \in N),
         \A p \in Path \ T : tree2[p] > 0 => tree[p] > 0
  PROVE  Orders(g, tree2, R, T)
<1>1. ASSUME NEW p \in Path \ T, NEW q \in Path \ T, p # q,
             g[Rel(p)].kind = "file", g[Rel(q)].kind = "file", tree2[q] > 0,
             g[Rel(p)].at < g[Rel(q)].at
      PROVE  <<p, q>> \in R
  <2>1. /\ f[Rel(p)].kind = "file" /\ f[Rel(q)].kind = "file" /\ tree[q] > 0
        /\ Rel(p) \in N /\ Rel(q) \in N
    BY <1>1
  <2>2. Rel(p) \in Tracked(g) /\ Rel(q) \in Tracked(g)
    BY <1>1, NamesOfPaths DEF Tracked
  <2>3. f[Rel(p)].at < f[Rel(q)].at
    BY <1>1, <2>1, <2>2 DEF SameOrder
  <2>4. p \in Path \ S /\ q \in Path \ S
    BY <1>1
  <2> QED BY <1>1, <2>1, <2>3, <2>4 DEF Orders
<1>2. \A p \in Path : g[Rel(p)].kind = "file" => <<p, p>> \in R
  BY DEF Orders
<1> QED BY <1>1, <1>2 DEF Orders

(* What was accessed last comes last in the history.                       *)
LEMMA OrdersAccessed ==
  ASSUME NEW f, NEW g \in [Name -> Entry], NEW tree, NEW S, NEW p \in Path, S \subseteq {p},
         Orders(f, tree, recency, S), SameBut(f, g, Rel(p)), SameOrder(f, g, Name \ {Rel(p)}),
         Rel(p) \in Tracked(g) => Last(g, Rel(p))
  PROVE  Orders(g, tree, Accessed(p), {})
<1>0. \A a \in Path \ {p} : /\ g[Rel(a)].kind = f[Rel(a)].kind /\ Rel(a) \in Name \ {Rel(p)}
                            /\ g[Rel(a)].at \in Nat
  BY NamesOfPaths DEF SameBut, Entry
<1>1. ASSUME NEW a \in Path, g[Rel(a)].kind = "file"
      PROVE  <<a, a>> \in Accessed(p) /\ <<a, p>> \in Accessed(p)
  <2>1. CASE a = p
    BY <2>1 DEF Accessed
  <2>2. CASE a # p
    <3>1. <<a, a>> \in recency
      BY <1>0, <1>1, <2>2 DEF Orders
    <3> QED BY <2>2, <3>1 DEF Accessed, Seen
  <2> QED BY <2>1, <2>2
<1>2. ASSUME NEW a \in Path, NEW b \in Path, a # b, g[Rel(a)].kind = "file", g[Rel(b)].kind = "file",
             tree[b] > 0, g[Rel(a)].at < g[Rel(b)].at
      PROVE  <<a, b>> \in Accessed(p)
  <2>1. Rel(a) \in Tracked(g) /\ Rel(b) \in Tracked(g) /\ Rel(a) # Rel(b)
    BY <1>2, NamesOfPaths DEF Tracked
  <2>2. CASE b = p
    BY <1>1, <1>2, <2>2
  <2>3. CASE a = p
    <3>1. Last(g, Rel(p))
      BY <2>1, <2>3
    <3>2. g[Rel(b)].at < g[Rel(a)].at
      BY <2>1, <2>3, <3>1 DEF Last
    <3>3. g[Rel(a)].at \in Nat /\ g[Rel(b)].at \in Nat
      BY NamesOfPaths DEF Entry
    <3> QED BY <1>2, <3>2, <3>3
  <2>4. CASE a # p /\ b # p
    <3>1. f[Rel(a)].at < f[Rel(b)].at
      BY <1>0, <1>2, <2>1, <2>4 DEF SameOrder
    <3>2. <<a, b>> \in recency
      BY <1>0, <1>2, <2>4, <3>1 DEF Orders
    <3>3. PICK e : e = <<a, b>>
      OBVIOUS
    <3>4. e[1] = a /\ e[2] = b
      BY <3>3
    <3> QED BY <2>4, <3>2, <3>3, <3>4 DEF Accessed
  <2> QED BY <2>2, <2>3, <2>4
<1> QED BY <1>1, <1>2 DEF Orders

(* What a rename does to the history.                                      *)
LEMMA RenamedHistory ==
  ASSUME NEW src, NEW dst, NEW a, NEW b, <<a, b>> \in recency,
         ~AtOrUnder(a, dst), ~AtOrUnder(b, dst), NEW p, NEW q,
         p = IF AtOrUnder(a, src) THEN Rebase(a, src, dst) ELSE a,
         q = IF AtOrUnder(b, src) THEN Rebase(b, src, dst) ELSE b
  PROVE  <<p, q>> \in HistoryRenamed(src, dst)
<1> DEFINE In(x, d) == x = d \/ IsUnder(x, d)
           Now(x) == IF In(x, src) THEN Rebase(x, src, dst) ELSE x
<1>1. PICK e : e = <<a, b>>
  OBVIOUS
<1>2. e[1] = a /\ e[2] = b
  BY <1>1
<1>3. Now(a) = p /\ Now(b) = q /\ ~In(a, dst) /\ ~In(b, dst)
  BY DEF AtOrUnder
<1>4. HistoryRenamed(src, dst) =
         { <<Now(x[1]), Now(x[2])>> : x \in { y \in recency : ~In(y[1], dst) /\ ~In(y[2], dst) } }
  BY DEF HistoryRenamed
<1> HIDE DEF In, Now
<1>5. e \in { y \in recency : ~In(y[1], dst) /\ ~In(y[2], dst) }
  BY <1>1, <1>3, <1>2
<1>6. <<p, q>> = <<Now(e[1]), Now(e[2])>>
  BY <1>1, <1>3, <1>2
<1> QED BY <1>4, <1>5, <1>6

(* Files that are renamed keep their place among the others.               *)
LEMMA OrdersCarried ==
  ASSUME NEW f, NEW g, NEW tree, NEW tree2, NEW src, NEW dst, NEW from \in [Path -> Path],
         Orders(f, tree, recency, {}),
         \A p \in Path : g[Rel(p)].kind = "file" =>
            /\ f[Rel(from[p])].kind = "file" /\ ~AtOrUnder(from[p], dst)
            /\ p = IF AtOrUnder(from[p], src) THEN Rebase(from[p], src, dst) ELSE from[p]
            /\ tree2[p] > 0 => tree[from[p]] > 0,
         \A p, q \in Path : g[Rel(p)].kind = "file" /\ g[Rel(q)].kind = "file" =>
            (g[Rel(p)].at < g[Rel(q)].at => f[Rel(from[p])].at < f[Rel(from[q])].at)
  PROVE  Orders(g, tree2, HistoryRenamed(src, dst), {})
<1>1. ASSUME NEW p \in Path, NEW q \in Path, g[Rel(p)].kind = "file", g[Rel(q)].kind = "file",
             p = q \/ (tree2[q] > 0 /\ g[Rel(p)].at < g[Rel(q)].at)
      PROVE  <<p, q>> \in HistoryRenamed(src, dst)
  <2>1. PICK a \in Path, b \in Path : a = from[p] /\ b = from[q]
    OBVIOUS
  <2>2. /\ f[Rel(a)].kind = "file" /\ ~AtOrUnder(a, dst)
        /\ p = IF AtOrUnder(a, src) THEN Rebase(a, src, dst) ELSE a
    BY <1>1, <2>1
  <2>3. /\ f[Rel(b)].kind = "file" /\ ~AtOrUnder(b, dst)
        /\ q = IF AtOrUnder(b, src) THEN Rebase(b, src, dst) ELSE b
    BY <1>1, <2>1
  <2>4. <<a, b>> \in recency
    <3>1. CASE p = q
      BY <2>1, <2>2, <3>1 DEF Orders
    <3>2. CASE p # q
      <4>1. a # b
        BY <2>2, <2>3, <3>2
      <4>2. tree[b] > 0 /\ f[Rel(a)].at < f[Rel(b)].at
        BY <1>1, <2>1, <3>2
      <4>3. a \in Path \ {} /\ b \in Path \ {}
        OBVIOUS
      <4> QED BY <2>2, <2>3, <4>1, <4>2, <4>3 DEF Orders
    <3> QED BY <3>1, <3>2
  <2> QED BY <2>2, <2>3, <2>4, RenamedHistory
<1> QED BY <1>1 DEF Orders

(* A directory is renamed, in the ledger as on disk.                       *)
LEMMA OrdersRenamedTree ==
  ASSUME Closed, NEW l, Sound(l), NEW tree \in [Path -> Int], IsTree(tree), NEW lens,
         Records(l.files, tree, lens, {}), NEW src \in Path, NEW dst \in Path,
         Movable(src, dst), CanRename(tree, src, dst), tree[src] = Directory,
         Orders(l.files, tree, recency, {})
  PROVE  Orders(RetargetTree(l, Rel(src), Rel(dst)).files, Renamed(tree, src, dst),
                HistoryRenamed(src, dst), {})
<1>1. PICK f, now, g : f = l.files /\ now = Renamed(tree, src, dst) /\ g = RetargetTree(l, Rel(src), Rel(dst)).files
  OBVIOUS
<1>2. /\ src # dst /\ tree[dst] # Directory /\ ~AtOrUnder(dst, src) /\ ~AtOrUnder(src, dst)
      /\ \A q \in Path : ~(AtOrUnder(q, src) /\ AtOrUnder(q, dst))
  BY RenameRoom DEF Movable
<1>3. /\ \A q \in Path : IsUnder(q, dst) =>
            now[q] = IF Rebase(q, dst, src) \in Path THEN tree[Rebase(q, dst, src)] ELSE Absent
      /\ \A q \in Path : ~AtOrUnder(q, src) /\ ~AtOrUnder(q, dst) => now[q] = tree[q]
  BY <1>1, <1>2, RenamedMeans
<1>4. /\ \A q \in Path :
            LET o == Origin(l, src, dst, Rel(q))
            IN  /\ g[Abs(q)].kind = f[Abs(q)].kind
                /\ IF AtOrUnder(q, src) THEN g[Rel(q)].kind = "none"
                   ELSE /\ g[Rel(q)].kind = IF o = Rel(src) THEN "dir" ELSE f[o].kind
                        /\ g[Rel(q)].size = f[o].size
      /\ \A m, n \in Tracked(g) :
            g[m].at < g[n].at <=> f[Origin(l, src, dst, m)].at < f[Origin(l, src, dst, n)].at
  BY <1>1, <1>2, RetargetTreeMeans DEF Records
<1>5. PICK from : from = [p \in Path |-> IF AtOrUnder(p, dst) /\ Rebase(p, dst, src) \in Path
                                         THEN Rebase(p, dst, src) ELSE p]
  OBVIOUS
<1>6. from \in [Path -> Path]
  BY <1>5
<1>7. ASSUME NEW p \in Path, g[Rel(p)].kind = "file"
      PROVE  /\ Origin(l, src, dst, Rel(p)) = Rel(from[p])
             /\ f[Rel(from[p])].kind = "file" /\ ~AtOrUnder(from[p], dst)
             /\ p = IF AtOrUnder(from[p], src) THEN Rebase(from[p], src, dst) ELSE from[p]
             /\ now[p] > 0 => tree[from[p]] > 0
  <2>1. PICK o : o = Origin(l, src, dst, Rel(p))
    OBVIOUS
  <2>2. ~AtOrUnder(p, src) /\ o # Rel(src) /\ f[o].kind = "file"
    BY <1>4, <1>7, <2>1
  <2>3. Rel(p).form = "rel" /\ Rel(p).at = p
    BY DEF Rel
  <2>4. CASE o = Rel(p)
    <3>1. ~AtOrUnder(p, dst)
      <4>1. p # dst
        <5>1. f[Rel(src)].kind = "dir"
          BY <1>1 DEF Records, Tells
        <5>2. Rebase(dst, dst, src) = src
          BY PathsArePlaces, RebaseBack
        <5>3. p = dst => Origin(l, src, dst, Rel(p)) = Rel(src)
          BY <1>1, <2>3, <5>1, <5>2 DEF Origin, AtOrUnder, IsTracked
        <5> QED BY <2>1, <2>2, <5>3
      <4>2. ~IsUnder(p, dst)
        <5>1. IsUnder(p, dst) => l.files[Rel(p)].kind = "none"
          BY <1>2, NothingBelow
        <5> QED BY <1>1, <2>2, <2>4, <5>1
      <4> QED BY <4>1, <4>2 DEF AtOrUnder
    <3>2. from[p] = p
      BY <1>5, <3>1
    <3> QED BY <1>3, <2>1, <2>2, <2>4, <3>1, <3>2
  <2>5. CASE o # Rel(p)
    <3>1. AtOrUnder(p, dst) /\ Rebase(p, dst, src) \in Path /\ o = Rel(Rebase(p, dst, src))
      BY <2>1, <2>3, <2>5 DEF Origin
    <3>2. from[p] = Rebase(p, dst, src)
      BY <1>5, <3>1
    <3>3. AtOrUnder(from[p], src) /\ Rebase(from[p], src, dst) = p
      BY <3>1, <3>2, PathsArePlaces, RebaseBack DEF AtOrUnder
    <3>4. ~AtOrUnder(from[p], dst)
      BY <1>2, <3>1, <3>2, <3>3
    <3>5. p # dst
      BY <2>2, <3>1, <3>2, PathsArePlaces, RebaseBack DEF AtOrUnder
    <3>6. now[p] = tree[from[p]]
      BY <1>3, <3>1, <3>2, <3>5 DEF AtOrUnder
    <3> QED BY <2>1, <2>2, <3>1, <3>2, <3>3, <3>4, <3>6
  <2> QED BY <2>4, <2>5
<1>8. ASSUME NEW p \in Path, NEW q \in Path, g[Rel(p)].kind = "file", g[Rel(q)].kind = "file",
             g[Rel(p)].at < g[Rel(q)].at
      PROVE  f[Rel(from[p])].at < f[Rel(from[q])].at
  <2>1. Rel(p) \in Tracked(g) /\ Rel(q) \in Tracked(g)
    BY <1>8, NamesOfPaths DEF Tracked
  <2>2. f[Origin(l, src, dst, Rel(p))].at < f[Origin(l, src, dst, Rel(q))].at
    BY <1>4, <1>8, <2>1
  <2> QED BY <1>7, <1>8, <2>2
<1>9. Orders(f, tree, recency, {})
  BY <1>1
<1>10. Orders(g, now, HistoryRenamed(src, dst), {})
  BY <1>6, <1>7, <1>8, <1>9, OrdersCarried
<1> QED BY <1>1, <1>10

(* A file is renamed.                                                      *)
LEMMA OrdersRenamedFile ==
  ASSUME Closed, NEW l, Sound(l), NEW tree \in [Path -> Int], IsTree(tree), NEW lens,
         Records(l.files, tree, lens, {}), NEW src \in Path, NEW dst \in Path,
         src # dst, CanRename(tree, src, dst), tree[src] > 0,
         Orders(l.files, tree, recency, {})
  PROVE  Orders(RetargetFile(l, Rel(src), Rel(dst)).files, Renamed(tree, src, dst),
                HistoryRenamed(src, dst), {})
<1>1. PICK f, now, g : f = l.files /\ now = Renamed(tree, src, dst) /\ g = RetargetFile(l, Rel(src), Rel(dst)).files
  OBVIOUS
<1>2. /\ tree[dst] # Directory /\ ~AtOrUnder(dst, src) /\ ~AtOrUnder(src, dst) /\ tree[src] # Directory
  BY RenameRoom DEF Directory
<1>3. /\ now[dst] = tree[src]
      /\ \A q \in Path : ~AtOrUnder(q, src) /\ ~AtOrUnder(q, dst) => now[q] = tree[q]
  BY <1>1, RenamedMeans
<1>4. f[Rel(src)].kind = "file" /\ IsTracked(l, Rel(src)) /\ Stamped(f)
  BY <1>1 DEF Records, Tells, IsTracked
<1>5. /\ g[Rel(src)].kind = "none"
      /\ SameEntries(f, g, Name \ {Rel(src), Rel(dst)})
      /\ SameOrder(f, g, Name \ {Rel(dst)})
      /\ InPlaceOf(f, g, Rel(src), Rel(dst))
  <2>1. Stamped(l.files) /\ g = RetargetFile(l, Rel(src), Rel(dst)).files
    BY <1>1, <1>4
  <2>2. g[Rel(src)].kind = "none" /\ SameEntries(l.files, g, Name \ {Rel(src), Rel(dst)})
    BY <1>4, <2>1, RetargetFileMeans
  <2>3. SameOrder(l.files, g, Name \ {Rel(dst)})
    BY <2>1, RetargetFileMeans
  <2>4. InPlaceOf(l.files, g, Rel(src), Rel(dst))
    BY <1>4, <2>1, RetargetFileMeans
  <2> QED BY <1>1, <2>2, <2>3, <2>4
<1>6. PICK from : from = [p \in Path |-> IF p = dst THEN src ELSE p]
  OBVIOUS
<1>7. from \in [Path -> Path]
  BY <1>6
<1>8. ASSUME NEW p \in Path, g[Rel(p)].kind = "file"
      PROVE  /\ f[Rel(from[p])].kind = "file" /\ ~AtOrUnder(from[p], dst)
             /\ p = IF AtOrUnder(from[p], src) THEN Rebase(from[p], src, dst) ELSE from[p]
             /\ now[p] > 0 => tree[from[p]] > 0
  <2>1. CASE p = dst
    <3>1. from[p] = src /\ AtOrUnder(src, src)
      BY <1>6, <2>1 DEF AtOrUnder
    <3>2. Rebase(src, src, dst) = dst
      BY PathsArePlaces, RebaseBack
    <3> QED BY <1>2, <1>3, <1>4, <2>1, <3>1, <3>2
  <2>2. CASE p # dst
    <3>1. p # src
      BY <1>5, <1>8
    <3>2. Rel(p) \in Name \ {Rel(src), Rel(dst)}
      BY <2>2, <3>1, NamesOfPaths
    <3>3. f[Rel(p)].kind = "file"
      BY <1>5, <1>8, <3>2 DEF SameEntries
    <3>4. ~IsUnder(p, dst)
      <4>1. IsUnder(p, dst) => l.files[Rel(p)].kind = "none"
        BY <1>2, NothingBelow
      <4> QED BY <1>1, <3>3, <4>1
    <3>5. ~IsUnder(p, src)
      <4>1. IsUnder(p, src) => l.files[Rel(p)].kind = "none"
        BY <1>2, NothingBelow
      <4> QED BY <1>1, <3>3, <4>1
    <3>6. from[p] = p /\ ~AtOrUnder(p, src) /\ ~AtOrUnder(p, dst)
      BY <1>6, <2>2, <3>1, <3>4, <3>5 DEF AtOrUnder
    <3> QED BY <1>3, <3>3, <3>6
  <2> QED BY <2>1, <2>2
<1>9. ASSUME NEW p \in Path, NEW q \in Path, g[Rel(p)].kind = "file", g[Rel(q)].kind = "file",
             g[Rel(p)].at < g[Rel(q)].at
      PROVE  f[Rel(from[p])].at < f[Rel(from[q])].at
  <2>1. /\ Rel(p) \in Tracked(g) /\ Rel(q) \in Tracked(g) /\ Rel(p) \in Name /\ Rel(q) \in Name
        /\ (Rel(p) = Rel(dst) <=> p = dst) /\ (Rel(q) = Rel(dst) <=> q = dst)
    BY <1>9, NamesOfPaths DEF Tracked
  <2>2. CASE p = dst /\ q = dst
    <3>1. g[Rel(dst)].at \in Nat
      <4>1. RetargetFile(l, Rel(src), Rel(dst)) \in Ledger
        BY NamesOfPaths, RetargetFileSound DEF Sound
      <4> QED BY <1>1, <4>1, NamesOfPaths DEF Ledger, Entry
    <3> QED BY <1>9, <2>2, <3>1
  <2>3. CASE p = dst /\ q # dst
    BY <1>5, <1>6, <1>9, <2>1, <2>3 DEF InPlaceOf
  <2>4. CASE p # dst /\ q = dst
    BY <1>5, <1>6, <1>9, <2>1, <2>4 DEF InPlaceOf
  <2>5. CASE p # dst /\ q # dst
    BY <1>5, <1>6, <1>9, <2>1, <2>5 DEF SameOrder
  <2> QED BY <2>2, <2>3, <2>4, <2>5
<1>10. Orders(f, tree, recency, {})
  BY <1>1
<1>11. Orders(g, now, HistoryRenamed(src, dst), {})
  BY <1>7, <1>8, <1>9, <1>10, OrdersCarried
<1> QED BY <1>1, <1>11

(* The backend has removed something, and the ledger is yet to follow.     *)
LEMMA OrdersRemoving ==
  ASSUME SoleClient, IInv, IsTree(node), NEW t \in Thread, Settled(th[t]), Ordered(th[t]),
         RemoveBackend(t), recency' = recency
  PROVE  Orders(Due(ledger', th'[t]).files, node', Upcoming(th[t])', Exempt(th'[t]))
<1>1. PICK p : p = About(th[t]).at
  OBVIOUS
<1>2. /\ th[t].pc = "remove" /\ node' = Without(node, Subject(t).at) /\ ledger' = ledger
  BY DEF RemoveBackend
<1>3. /\ About(th[t]) = Rel(p) /\ p \in Path /\ Subject(t).at = p
      /\ node \in [Path -> Int] /\ Sound(ledger) /\ Rel(p) \in Name
  BY <1>1, <1>2, Client, NamesOfPaths
<1>4. /\ Same(th[t], th'[t]) /\ th'[t].pc = "forget" /\ th'[t].dir = IsDir(node, p)
  BY <1>3, FlagStepMeans
<1>5. /\ Exempt(th[t]) = {} /\ Exempt(th'[t]) = {} /\ Unsettled(th[t]) = {} /\ Due(ledger, th[t]) = ledger
      /\ Upcoming(th[t]) = recency /\ Upcoming(th[t])' = recency
  BY <1>2, <1>4 DEF Exempt, Unsettled, Storing, Writing, Evicting, Due, Upcoming
<1>6. PICK f : f = ledger.files
  OBVIOUS
<1>7. Orders(f, node, recency, {}) /\ Stamped(ledger.files)
  BY <1>5, <1>6 DEF Ordered, Settled, Records
<1>8. About(th'[t]) = Rel(p)
  BY <1>3, <1>4 DEF About, Same
<1>9. PICK g : g = Due(ledger', th'[t]).files
  OBVIOUS
<1>10. g = IF IsDir(node, p) THEN UntrackTree(ledger, Rel(p)).files ELSE Untrack(ledger, Rel(p)).files
  BY <1>2, <1>4, <1>8, <1>9 DEF Due
<1>11. SameOrder(f, g, Name) /\ \A q \in Path : g[Rel(q)].kind = "file" => f[Rel(q)].kind = "file"
  <2>1. CASE IsDir(node, p)
    <3>1. /\ \A q \in Path :
               /\ g[Abs(q)].kind = ledger.files[Abs(q)].kind
               /\ IF AtOrUnder(q, p) THEN g[Rel(q)].kind = "none"
                  ELSE g[Rel(q)].kind = ledger.files[Rel(q)].kind /\ g[Rel(q)].size = ledger.files[Rel(q)].size
          /\ Stamped(g) /\ SameOrder(ledger.files, g, Name)
      BY <1>3, <1>7, <1>10, <2>1, UntrackTreeMeans
    <3> QED BY <1>6, <3>1
  <2>2. CASE ~IsDir(node, p)
    <3>1. /\ g[Rel(p)].kind = "none"
          /\ SameBut(ledger.files, g, Rel(p)) /\ Stamped(g) /\ SameOrder(ledger.files, g, Name)
      BY <1>3, <1>7, <1>10, <2>2, UntrackMeans
    <3> QED BY <1>6, <3>1, NamesOfPaths DEF SameBut
  <2> QED BY <2>1, <2>2
<1>12. \A q \in Path \ {} : node'[q] > 0 => node[q] > 0
  <2>1. \A q \in Path : IF AtOrUnder(q, p) THEN node'[q] = Absent ELSE node'[q] = node[q]
    BY <1>2, <1>3, WithoutIsTree
  <2> QED BY <2>1 DEF Absent
<1>13. \A q \in Path : Rel(q) \in Name
  BY NamesOfPaths
<1>14. Orders(g, node', recency, {})
  BY <1>7, <1>11, <1>12, <1>13, OrdersKept
<1> QED BY <1>5, <1>9, <1>14

LEMMA OrdersRenaming ==
  ASSUME SoleClient, IInv, IsTree(node), NEW t \in Thread, Settled(th[t]), Ordered(th[t]),
         RenameBackend(t), recency' = recency
  PROVE  Orders(Due(ledger', th'[t]).files, node', Upcoming(th[t])', Exempt(th'[t]))
<1>1. PICK src, dst : src = th[t].name.at /\ dst = th[t].to.at
  OBVIOUS
<1>2. /\ th[t].pc = "rename" /\ CanRename(node, src, dst) /\ node' = Renamed(node, src, dst)
      /\ ledger' = ledger
  BY <1>1 DEF RenameBackend
<1>3. /\ th[t].name = Rel(src) /\ src \in Path /\ About(th[t]) = Rel(About(th[t]).at)
      /\ About(th[t]).at \in Path /\ Serves(th[t])
      /\ node \in [Path -> Int] /\ Sound(ledger) /\ Closed
  BY <1>1, <1>2, Client
<1>4. th[t].method = "MOVE" /\ th[t].to = Rel(dst) /\ dst \in Path /\ Movable(src, dst)
  BY <1>1, <1>2, <1>3 DEF Serves, About
<1>5. Same(th[t], th'[t]) /\ th'[t].pc = "retarget" /\ th'[t].dir = IsDir(node, src)
  BY <1>1, FlagStepMeans
<1>6. /\ Exempt(th[t]) = {} /\ Exempt(th'[t]) = {} /\ Unsettled(th[t]) = {} /\ Due(ledger, th[t]) = ledger
      /\ Upcoming(th[t]) = recency
  BY <1>2, <1>5 DEF Exempt, Unsettled, Storing, Writing, Evicting, Due, Upcoming
<1>7. Upcoming(th[t])' = HistoryRenamed(src, dst)
  <2>1. th'[t].name.at = src /\ th'[t].to.at = dst
    BY <1>1, <1>5 DEF Same
  <2> QED BY <1>5, <2>1 DEF Upcoming, HistoryRenamed
<1>8. Records(ledger.files, node, len, {}) /\ Orders(ledger.files, node, recency, {})
  BY <1>6 DEF Settled, Ordered
<1>9. PICK g : g = Due(ledger', th'[t]).files
  OBVIOUS
<1>10. g = IF IsDir(node, src) THEN RetargetTree(ledger, Rel(src), Rel(dst)).files
           ELSE RetargetFile(ledger, Rel(src), Rel(dst)).files
  BY <1>2, <1>3, <1>4, <1>5, <1>9 DEF Due, Same
<1>11. Orders(g, node', HistoryRenamed(src, dst), {})
  <2>1. CASE IsDir(node, src)
    <3>1. node[src] = Directory
      BY <1>3, <2>1, PathsArePlaces DEF IsDir, At
    <3> QED BY <1>2, <1>3, <1>4, <1>8, <1>10, <2>1, <3>1, OrdersRenamedTree
  <2>2. CASE ~IsDir(node, src)
    <3>1. src # dst /\ node[src] > 0
      <4>1. node \in [Path -> Inode \cup {Absent, Directory}] /\ Inode \subseteq Nat \ {0}
        BY <1>2, Client
      <4> QED BY <1>2, <1>3, <1>4, <2>2, <4>1, PathsArePlaces DEF IsDir, At, CanRename, Exists, Movable
    <3> QED BY <1>2, <1>3, <1>4, <1>8, <1>10, <2>2, <3>1, OrdersRenamedFile
  <2> QED BY <2>1, <2>2
<1> QED BY <1>6, <1>7, <1>9, <1>11

LEMMA OrdersMaking ==
  ASSUME SoleClient, IInv, NEW t \in Thread, Settled(th[t]), Ordered(th[t]),
         MkdirBackend(t), recency' = recency
  PROVE  Orders(Due(ledger', th'[t]).files, node', Upcoming(th[t])', Exempt(th'[t]))
<1>1. PICK p : p = th[t].name.at
  OBVIOUS
<1>2. /\ th[t].pc \in {"begin", "enter"} /\ node' = [node EXCEPT ![p] = Directory]
      /\ ledger' = ledger /\ Goto(t, "track")
  BY <1>1 DEF MkdirBackend, Ready
<1>3. /\ th[t].name = Rel(p) /\ p \in Path /\ th[t] \in Local /\ Rel(p) \in Name
      /\ node \in [Path -> Int] /\ Sound(ledger)
  BY <1>1, <1>2, Client, NamesOfPaths
<1>4. th'[t].pc = "track" /\ th'[t].name = Rel(p)
  <2>1. th \in [Thread -> Local]
    BY DEF IInv, TypeOK
  <2> QED BY <1>2, <1>3, <2>1 DEF Goto, Become, Local
<1>5. /\ Exempt(th[t]) = {} /\ Exempt(th'[t]) = {} /\ Unsettled(th[t]) = {} /\ Due(ledger, th[t]) = ledger
      /\ Upcoming(th[t]) = recency /\ Upcoming(th[t])' = recency
  BY <1>2, <1>4 DEF Exempt, Unsettled, Storing, Writing, Evicting, Due, Upcoming
<1>6. PICK f : f = ledger.files
  OBVIOUS
<1>7. Orders(f, node, recency, {}) /\ Stamped(ledger.files)
  BY <1>5, <1>6 DEF Ordered, Settled, Records
<1>8. PICK g : g = Due(ledger', th'[t]).files
  OBVIOUS
<1>9. g = TrackDir(ledger, Rel(p)).files
  BY <1>2, <1>4, <1>8 DEF Due
<1>10. /\ g[Rel(p)].kind = "dir" /\ SameBut(ledger.files, g, Rel(p))
       /\ Stamped(g) /\ SameOrder(ledger.files, g, Name \ {Rel(p)}) /\ Last(g, Rel(p))
  BY <1>3, <1>7, <1>9, TrackDirMeans
<1>11. \A q \in Path : g[Rel(q)].kind = "file" => f[Rel(q)].kind = "file" /\ Rel(q) \in Name \ {Rel(p)}
  BY <1>6, <1>10, NamesOfPaths DEF SameBut
<1>12. \A q \in Path \ {} : node'[q] > 0 => node[q] > 0
  BY <1>2, <1>3 DEF Directory
<1>13. SameOrder(f, g, Name \ {Rel(p)})
  BY <1>6, <1>10
<1>14. Orders(g, node', recency, {})
  BY <1>7, <1>11, <1>12, <1>13, OrdersKept
<1> QED BY <1>5, <1>8, <1>14

(* What was due is recorded.                                               *)
LEMMA OrdersDue ==
  ASSUME SoleClient, IInv, NEW t \in Thread, Settled(th[t]), Ordered(th[t]), Step(t),
         th[t].pc \in {"forget", "retarget", "track"}, recency' = Recorded(t)
  PROVE  Orders(Due(ledger', th'[t]).files, node', Upcoming(th[t])', Exempt(th'[t]))
<1>1. th \in [Thread -> Local] /\ th[t] \in Local /\ Subject(t) = About(th[t])
  BY IInvParts DEF IInv, TypeOK, Subject, About
<1>2. ledger' = Due(ledger, th[t]) /\ node' = node /\ th'[t].pc \in {"idle", "rename"}
  <2>1. CASE th[t].pc = "forget"
    <3>1. ForgetRemoved(t)
      BY <2>1, StepAt
    <3> QED BY <1>1, <2>1, <3>1 DEF ForgetRemoved, Due, Goto, Finish, Become, Idle, Local
  <2>2. CASE th[t].pc = "retarget"
    <3>1. Retarget(t)
      BY <2>2, StepAt
    <3> QED BY <1>1, <2>2, <3>1 DEF Retarget, Due, Finish, Become, Idle
  <2>3. CASE th[t].pc = "track"
    <3>1. TrackMkdir(t)
      BY <2>3, StepAt
    <3> QED BY <1>1, <2>3, <3>1 DEF TrackMkdir, Due, Finish, Become, Idle
  <2> QED BY <2>1, <2>2, <2>3
<1>3. /\ Exempt(th[t]) = {} /\ Exempt(th'[t]) = {} /\ Due(ledger', th'[t]) = ledger'
      /\ Upcoming(th[t])' = recency'
  BY <1>2 DEF Exempt, Storing, Writing, Evicting, Due, Upcoming
<1>4. recency' = Upcoming(th[t])
  BY DEF Recorded, Upcoming
<1> QED BY <1>2, <1>3, <1>4 DEF Ordered

(* An access is over, and the history has it.                              *)
LEMMA OrdersClosing ==
  ASSUME SoleClient, IInv, IInv', NEW t \in Thread, Settled(th[t]), Ordered(th[t]), Close(t),
         recency' = Recorded(t)
  PROVE  Orders(Due(ledger', th'[t]).files, node', Upcoming(th[t])', Exempt(th'[t]))
<1>1. PICK p, f, g : p = th[t].name.at /\ f = ledger.files /\ g = ledger'.files
  OBVIOUS
<1>2. /\ th[t].pc = "closing" /\ ledger' = UpdateSize(ledger, th[t].name, th[t].dir, th[t].size)
      /\ th'[t] = Idle /\ node' = node
  BY DEF Close, Finish, Become, IInv, TypeOK
<1>3. /\ th[t].name = Rel(p) /\ p \in Path /\ th[t].dir \in BOOLEAN /\ th[t].size \in Nat
      /\ Sound(ledger)
  BY <1>1, <1>2, Client
<1>4. /\ Due(ledger, th[t]) = ledger /\ Due(ledger', th'[t]) = ledger' /\ Exempt(th'[t]) = {}
      /\ Upcoming(th[t]) = recency /\ Upcoming(th[t])' = recency'
  BY <1>2 DEF Due, Idle, Exempt, Storing, Writing, Evicting, Upcoming
<1>5. Stamped(f) /\ Orders(f, node, recency, Exempt(th[t])) /\ Exempt(th[t]) \subseteq {p}
  BY <1>1, <1>4 DEF Settled, Records, Ordered, Exempt
<1>6. recency' = Accessed(p)
  BY <1>1, <1>2 DEF Recorded
<1>7. Rel(p) \in Name /\ g \in [Name -> Entry]
  <2>1. Sound(ledger)'
    BY DEF IInv, TypeOK, CurSizeCoversTracked, Sound
  <2> QED BY <1>1, <1>3, <2>1, NamesOfPaths DEF Sound, Ledger
<1>8. /\ Noted(f, g, Rel(p), th[t].dir)
      /\ IF Rel(p) \in Tracked(f) THEN SameOrder(f, g, Name) ELSE Last(g, Rel(p))
  <2>1. PICK dir, size : dir = th[t].dir /\ size = th[t].size
    OBVIOUS
  <2>2. g = UpdateSize(ledger, Rel(p), dir, size).files /\ dir \in BOOLEAN /\ size \in Nat
    BY <1>1, <1>2, <1>3, <2>1
  <2>3. /\ Noted(ledger.files, g, Rel(p), dir)
        /\ IF Rel(p) \in Tracked(ledger.files) THEN SameOrder(ledger.files, g, Name) ELSE Last(g, Rel(p))
    BY <1>1, <1>3, <1>5, <1>7, <2>2, UpdateSizeMeans
  <2> QED BY <1>1, <2>1, <2>3
<1>9. Last(g, Rel(p))
  <2>1. CASE Rel(p) \in Tracked(f)
    <3>1. Last(f, Rel(p))
      BY <1>1, <1>2, <1>3, <2>1 DEF Ordered, IsTracked, Tracked
    <3>2. \A m \in Name \ {Rel(p)} : g[m].kind = f[m].kind
      BY <1>8 DEF Noted, SameBut
    <3>3. g[Rel(p)].kind = f[Rel(p)].kind
      BY <1>8, <2>1 DEF Noted
    <3>4. Tracked(g) = Tracked(f)
      BY <3>2, <3>3 DEF Tracked
    <3>5. \A m \in Tracked(g) : m \in Name
      BY DEF Tracked
    <3> QED BY <1>8, <2>1, <3>1, <3>4, <3>5 DEF Last, SameOrder
  <2>2. CASE Rel(p) \notin Tracked(f)
    BY <1>8, <2>2
  <2> QED BY <2>1, <2>2
<1>10. SameBut(f, g, Rel(p)) /\ SameOrder(f, g, Name \ {Rel(p)})
  BY <1>8 DEF Noted
<1>11. Orders(g, node, Accessed(p), {})
  <2>1. PICK S : S = Exempt(th[t])
    OBVIOUS
  <2>2. S \subseteq {p} /\ Orders(f, node, recency, S)
    BY <1>5, <2>1
  <2> QED BY <1>3, <1>7, <1>9, <1>10, <2>2, OrdersAccessed
<1> QED BY <1>1, <1>2, <1>4, <1>6, <1>11

LEMMA OrdersObserving ==
  ASSUME SoleClient, IInv, IInv', NEW t \in Thread, Settled(th[t]), Ordered(th[t]), ObserveStat(t),
         recency' = Recorded(t)
  PROVE  Orders(Due(ledger', th'[t]).files, node', Upcoming(th[t])', Exempt(th'[t]))
<1>1. PICK p, f, g : p = About(th[t]).at /\ f = ledger.files /\ g = ledger'.files
  OBVIOUS
<1>2. /\ th[t].pc = "observe" /\ ledger' = Observe(ledger, Subject(t), th[t].dir, th[t].size)
      /\ node' = node
  BY DEF ObserveStat
<1>3. /\ Subject(t) = Rel(p) /\ p \in Path /\ th[t].dir \in BOOLEAN /\ th[t].size \in Nat /\ th[t] \in Local
      /\ Subject(t) = About(th[t]) /\ Sound(ledger)
  BY <1>1, <1>2, Client
<1>4. th'[t].pc \in {"idle", "remove"}
  <2>1. th \in [Thread -> Local]
    BY DEF IInv, TypeOK
  <2> QED BY <1>3, <2>1 DEF ObserveStat, Finish, Goto, Become, Idle, Local
<1>5. /\ Due(ledger, th[t]) = ledger /\ Due(ledger', th'[t]) = ledger'
      /\ Exempt(th[t]) = {} /\ Exempt(th'[t]) = {}
      /\ Upcoming(th[t]) = recency /\ Upcoming(th[t])' = recency'
  BY <1>2, <1>4 DEF Due, Exempt, Storing, Writing, Evicting, Upcoming
<1>6. Stamped(f) /\ Orders(f, node, recency, {})
  BY <1>1, <1>5 DEF Settled, Records, Ordered
<1>7. recency' = Accessed(p)
  BY <1>1, <1>2, <1>3 DEF Recorded
<1>8. Rel(p) \in Name /\ g \in [Name -> Entry]
  <2>1. Sound(ledger)'
    BY DEF IInv, TypeOK, CurSizeCoversTracked, Sound
  <2> QED BY <1>1, <1>3, <2>1, NamesOfPaths DEF Sound, Ledger
<1>9. Noted(f, g, Rel(p), th[t].dir) /\ Last(g, Rel(p))
  <2>1. PICK dir, size : dir = th[t].dir /\ size = th[t].size
    OBVIOUS
  <2>2. g = Observe(ledger, Rel(p), dir, size).files /\ dir \in BOOLEAN /\ size \in Nat
    BY <1>1, <1>2, <1>3, <2>1
  <2>3. Noted(ledger.files, g, Rel(p), dir) /\ Last(g, Rel(p))
    BY <1>1, <1>3, <1>6, <1>8, <2>2, ObserveMeans
  <2> QED BY <1>1, <2>1, <2>3
<1>10. SameBut(f, g, Rel(p)) /\ SameOrder(f, g, Name \ {Rel(p)})
  BY <1>9 DEF Noted
<1>11. Orders(g, node, Accessed(p), {})
  <2>1. PICK S : S = {}
    OBVIOUS
  <2>2. S \subseteq {p} /\ Orders(f, node, recency, S)
    BY <1>6, <2>1
  <2> QED BY <1>3, <1>8, <1>9, <1>10, <2>2, OrdersAccessed
<1> QED BY <1>1, <1>2, <1>5, <1>7, <1>11

(* The steps that leave no mark in the history.                            *)
LEMMA TouchingStep ==
  ASSUME IInv, NEW t \in Thread, Step(t),
         th[t].pc \notin {"forget", "retarget", "track", "closing", "observe"},
         ~ScanEntry(t), ~UntrackVictim(t)
  PROVE  \/ ledger' = ledger
         \/ /\ ledger' = Touch(ledger, th[t].name)
            /\ Write(t) \/ EndOfBody(t) \/ OpenForReading(t) \/ Serve(t)
<1> DEFINE Kept == ledger' = ledger
           Touching == /\ ledger' = Touch(ledger, th[t].name)
                       /\ Write(t) \/ EndOfBody(t) \/ OpenForReading(t) \/ Serve(t)
<1>1. ScanStep(t) => Kept
  BY DEF ScanStep, StartScan, ScanList, ScanFails, ScanSpace
<1>2. EvictionStep(t) => Kept
  BY DEF EvictionStep, SkipVictim, ChooseVictim, UnlinkVictim, UnlinkFails, EndEviction, SpaceFound, NoSpace
<1>3. OpenForWriting(t) \/ Truncate(t) \/ Create(t) \/ CreateFails(t) \/ MakeRoom(t) => Kept
  BY DEF OpenForWriting, Truncate, Create, CreateFails, MakeRoom
<1>4. Write(t) \/ EndOfBody(t) \/ OpenForReading(t) \/ Serve(t) => Kept \/ Touching
  BY DEF Write, EndOfBody, OpenForReading, Serve
<1>5. OpenFails(t) \/ StatBackend(t) \/ StatFails(t) \/ DestinationFree(t) => Kept
  BY DEF OpenFails, StatBackend, StatFails, DestinationFree
<1>6. ~Close(t) /\ ~ObserveStat(t) /\ ~ForgetRemoved(t) /\ ~Retarget(t) /\ ~TrackMkdir(t)
  BY DEF Close, ObserveStat, ForgetRemoved, Retarget, TrackMkdir
<1>7. TreeStep(t) => Kept
  BY <1>6 DEF TreeStep, RemoveBackend, RemoveFails, RemovePanics, RenameBackend, RenameFails,
              MkdirBackend, MkdirFails
<1> HIDE DEF Kept, Touching
<1>8. Kept \/ Touching
  BY <1>1, <1>2, <1>3, <1>4, <1>5, <1>6, <1>7 DEF Step, PutStep, ReadStep
<1> QED BY <1>8 DEF Kept, Touching

(* An access that is not over goes on, unless there is nothing to read.    *)
LEMMA ExemptStep ==
  ASSUME SoleClient, IInv, NEW t \in Thread, Settled(th[t]), Step(t), th[t].pc # "closing"
  PROVE  /\ ~OpenFails(t) => Exempt(th[t]) \subseteq Exempt(th'[t])
         /\ Write(t) \/ EndOfBody(t) \/ OpenForReading(t) \/ Serve(t) \/ Create(t) =>
               th[t].name.at \in Exempt(th'[t])
<1>1. th \in [Thread -> Local] /\ th[t] \in Local /\ th[t].pc # "idle" /\ Serves(th[t])
  BY StepAt, Client DEF IInv, TypeOK
<1>2. Write(t) \/ EndOfBody(t) \/ OpenForReading(t) \/ Serve(t) \/ Create(t) =>
         th'[t].name = th[t].name /\ th'[t].pc \in {"put", "closing", "open"}
  <2>1. Write(t) \/ EndOfBody(t) \/ Serve(t) =>
           th'[t].name = th[t].name /\ th'[t].pc \in {"put", "closing", "open"}
    BY FlagStepMeans DEF Same
  <2>2. OpenForReading(t) => th'[t].name = th[t].name /\ th'[t].pc = "open"
    BY <1>1 DEF OpenForReading, Goto, Become, Local
  <2>3. Create(t) => th'[t].name = th[t].name /\ th'[t].pc = "put"
    BY <1>1 DEF Create, Become, Local
  <2> QED BY <2>1, <2>2, <2>3
<1>3. th'[t].pc \in {"put", "closing", "open"} => Exempt(th'[t]) = {th'[t].name.at}
  BY DEF Exempt, Storing, Writing
<1>4. ASSUME ~OpenFails(t)
      PROVE  Exempt(th[t]) \subseteq Exempt(th'[t])
  <2>1. CASE Storing(th[t])
    <3>1. Unsettled(th[t]) \subseteq Unsettled(th'[t])
      BY <1>1, StoringGoesOn
    <3>2. Unsettled(th'[t]) \subseteq Exempt(th'[t]) /\ Exempt(th[t]) = Unsettled(th[t])
      BY <2>1 DEF Unsettled, Exempt
    <3> QED BY <3>1, <3>2
  <2>2. CASE th[t].pc = "open"
    <3>1. Serve(t)
      BY <1>4, <2>2, StepAt
    <3> QED BY <1>2, <1>3, <2>2, <3>1 DEF Exempt
  <2>3. CASE ~Storing(th[t]) /\ th[t].pc # "open"
    BY <2>3 DEF Exempt
  <2> QED BY <2>1, <2>2, <2>3
<1> QED BY <1>2, <1>3, <1>4

(* Nothing was there to read.                                              *)
LEMMA OrdersUnread ==
  ASSUME SoleClient, IInv, NEW t \in Thread, Settled(th[t]), Ordered(th[t]), OpenFails(t), recency' = recency
  PROVE  Orders(Due(ledger', th'[t]).files, node', Upcoming(th[t])', Exempt(th'[t]))
<1>1. PICK own, f : own = th[t].name.at /\ f = ledger.files
  OBVIOUS
<1>2. th[t].pc = "open" /\ ~Exists(node, own) /\ th'[t] = Idle /\ ledger' = ledger /\ node' = node
  BY <1>1 DEF OpenFails, Finish, Become, IInv, TypeOK
<1>3. /\ th[t].name = Rel(own) /\ own \in Path /\ Sound(ledger) /\ node \in [Path -> Int]
  BY <1>1, <1>2, Client
<1>4. /\ Due(ledger, th[t]) = ledger /\ Due(ledger', th'[t]) = ledger /\ Exempt(th'[t]) = {}
      /\ Exempt(th[t]) = {own} /\ Upcoming(th[t]) = recency /\ Upcoming(th[t])' = recency
  BY <1>1, <1>2 DEF Due, Idle, Exempt, Storing, Writing, Evicting, Upcoming
<1>5. Orders(f, node, recency, {own})
  BY <1>1, <1>4 DEF Ordered
<1>6. node[own] = Absent
  BY <1>2, <1>3, PathsArePlaces DEF Exists, At
<1>7. ASSUME NEW p \in Path, NEW q \in Path, p # q, f[Rel(p)].kind = "file", f[Rel(q)].kind = "file",
             node[q] > 0, f[Rel(p)].at < f[Rel(q)].at
      PROVE  <<p, q>> \in recency
  <2>1. q # own
    BY <1>6, <1>7 DEF Absent
  <2>2. p # own
    <3>1. ASSUME p = own PROVE FALSE
      <4>1. Rel(q) \in Tracked(f) /\ Rel(p) \in Tracked(f) /\ Rel(p) # Rel(q)
        BY <1>7, NamesOfPaths DEF Tracked
      <4>2. Last(f, Rel(p))
        BY <1>1, <1>2, <1>3, <3>1, <4>1 DEF Ordered, IsTracked, Tracked
      <4>3. f[Rel(q)].at < f[Rel(p)].at
        BY <4>1, <4>2 DEF Last
      <4>4. f[Rel(q)].at \in Nat /\ f[Rel(p)].at \in Nat
        BY <1>1, <1>3, NamesOfPaths DEF Sound, Ledger, Entry
      <4> QED BY <1>7, <4>3, <4>4
    <3> QED BY <3>1
  <2> QED BY <1>5, <1>7, <2>1, <2>2 DEF Orders
<1>8. Orders(f, node, recency, {})
  BY <1>5, <1>7 DEF Orders
<1> QED BY <1>1, <1>2, <1>4, <1>8

LEMMA OrdersQuiet ==
  ASSUME SoleClient, IInv, NEW t \in Thread, Settled(th[t]), Ordered(th[t]), Step(t),
         th[t].pc \notin {"forget", "retarget", "track", "closing", "observe"},
         th'[t].pc \notin {"forget", "retarget", "track"}, ~OpenFails(t), recency' = recency
  PROVE  Orders(Due(ledger', th'[t]).files, node', Upcoming(th[t])', Exempt(th'[t]))
<1>1. PICK own, f, g, S, T : own = th[t].name.at /\ f = ledger.files /\ g = ledger'.files
                             /\ S = Exempt(th[t]) /\ T = Exempt(th'[t])
  OBVIOUS
<1>2. /\ th[t].name = Rel(own) /\ own \in Path /\ Rel(own) \in Name /\ Sound(ledger) /\ node \in [Path -> Int]
      /\ th \in [Thread -> Local] /\ th[t] \in Local
  BY <1>1, StepAt, Client, NamesOfPaths DEF IInv, TypeOK
<1>3. /\ Due(ledger, th[t]) = ledger /\ Due(ledger', th'[t]) = ledger'
      /\ Upcoming(th[t]) = recency /\ Upcoming(th[t])' = recency
  BY DEF Due, Upcoming
<1>4. Orders(f, node, recency, S) /\ Stamped(ledger.files)
  BY <1>1, <1>3 DEF Ordered, Settled, Records
<1>5. S \subseteq T
  BY <1>1, ExemptStep
<1>6. PICK N : /\ SameOrder(f, g, N)
               /\ \A p \in Path : g[Rel(p)].kind = "file" =>
                     f[Rel(p)].kind = "file" /\ (p \in T \/ Rel(p) \in N)
  <2>1. ~ScanEntry(t)
    <3>1. th[t].pc = "scan" => Head(th[t].scan).left = {}
      BY DEF Settled, Starts
    <3> QED BY <3>1 DEF ScanEntry
  <2>2. CASE ledger' = ledger
    <3>1. SameOrder(f, g, Name)
      BY <1>1, <2>2 DEF SameOrder
    <3> QED BY <1>1, <2>2, <3>1, NamesOfPaths
  <2>3. CASE UntrackVictim(t)
    <3>1. th[t].pc = "untrack"
      BY <2>3 DEF UntrackVictim
    <3>2. PICK p \in Path : th[t].prey.name = Rel(p)
      BY <3>1, PreyIsNoDirectory
    <3>3. g = Untrack(ledger, Rel(p)).files
      BY <1>1, <2>3, <3>2 DEF UntrackVictim
    <3>4. /\ g[Rel(p)].kind = "none"
          /\ SameBut(ledger.files, g, Rel(p)) /\ Stamped(g) /\ SameOrder(ledger.files, g, Name)
      BY <1>2, <1>4, <3>3, UntrackMeans, NamesOfPaths
    <3>5. SameOrder(f, g, Name)
      BY <1>1, <3>4
    <3>6. \A q \in Path : g[Rel(q)].kind = "file" => f[Rel(q)].kind = "file"
      BY <1>1, <3>4, NamesOfPaths DEF SameBut
    <3> QED BY <3>5, <3>6, NamesOfPaths
  <2>4. CASE /\ ledger' = Touch(ledger, th[t].name)
             /\ Write(t) \/ EndOfBody(t) \/ OpenForReading(t) \/ Serve(t)
    <3>1. g = Touch(ledger, Rel(own)).files
      BY <1>1, <1>2, <2>4
    <3>2. SameEntries(ledger.files, g, Name) /\ SameOrder(ledger.files, g, Name \ {Rel(own)})
      BY <1>2, <1>4, <3>1, TouchMeans
    <3>3. own \in T
      BY <1>1, <2>4, ExemptStep
    <3>4. \A p \in Path : g[Rel(p)].kind = "file" =>
             f[Rel(p)].kind = "file" /\ (p \in T \/ Rel(p) \in Name \ {Rel(own)})
      <4>1. \A p \in Path : g[Rel(p)].kind = f[Rel(p)].kind
        BY <1>1, <3>2, NamesOfPaths DEF SameEntries
      <4>2. \A p \in Path : p = own \/ Rel(p) \in Name \ {Rel(own)}
        BY <1>2, NamesOfPaths
      <4> QED BY <3>3, <4>1, <4>2
    <3>5. SameOrder(f, g, Name \ {Rel(own)})
      BY <1>1, <3>2
    <3> QED BY <3>4, <3>5
  <2> QED BY <2>1, <2>2, <2>3, <2>4, TouchingStep
<1>7. \A p \in Path \ T : node'[p] > 0 => node[p] > 0
  <2>1. ~RemoveBackend(t) /\ ~RenameBackend(t) /\ ~MkdirBackend(t)
    <3>1. ~MkdirBackend(t)
      BY <1>2 DEF MkdirBackend, Goto, Become, Local
    <3> QED BY <3>1, FlagStepMeans
  <2>2. CASE UnlinkVictim(t)
    <3>1. node' = Without(node, th[t].prey.name.at)
      BY <2>2 DEF UnlinkVictim
    <3>2. \A p \in Path : node'[p] \in {Absent, node[p]}
      BY <3>1 DEF Without
    <3> QED BY <3>2 DEF Absent
  <2>3. CASE Create(t)
    <3>1. \E i : node' = [node EXCEPT ![own] = i]
      BY <1>1, <2>3 DEF Create
    <3>2. own \in T
      BY <1>1, <2>3, ExemptStep
    <3> QED BY <1>2, <3>1, <3>2
  <2> QED BY <2>1, <2>2, <2>3, StepBackend
<1>8. Orders(g, node', recency, T)
  BY <1>4, <1>5, <1>6, <1>7, OrdersKept
<1> QED BY <1>1, <1>3, <1>8

LEMMA StepOrders ==
  ASSUME SoleClient, IInv, IInv', IsTree(node), NEW t \in Thread, Settled(th[t]), Ordered(th[t]),
         Step(t), recency' = Recorded(t)
  PROVE  Orders(Due(ledger', th'[t]).files, node', Upcoming(th[t])', Exempt(th'[t]))
<1>1. CASE th[t].pc \in {"forget", "retarget", "track"}
  BY <1>1, OrdersDue
<1>2. CASE th[t].pc = "closing"
  <2>1. Close(t)
    BY <1>2, StepAt
  <2> QED BY <2>1, OrdersClosing
<1>3. CASE th[t].pc = "observe"
  <2>1. ObserveStat(t)
    BY <1>3, StepAt
  <2> QED BY <2>1, OrdersObserving
<1>4. CASE th[t].pc \notin {"forget", "retarget", "track", "closing", "observe"}
  <2>1. recency' = recency
    BY <1>4 DEF Recorded
  <2>2. CASE th'[t].pc \in {"forget", "retarget", "track"}
    <3>1. RemoveBackend(t) \/ RenameBackend(t) \/ MkdirBackend(t)
      BY <2>2, StepTo
    <3> QED BY <2>1, <3>1, OrdersRemoving, OrdersRenaming, OrdersMaking
  <2>3. CASE OpenFails(t)
    BY <2>1, <2>3, OrdersUnread
  <2>4. CASE th'[t].pc \notin {"forget", "retarget", "track"} /\ ~OpenFails(t)
    BY <1>4, <2>1, <2>4, OrdersQuiet
  <2> QED BY <2>2, <2>3, <2>4
<1> QED BY <1>1, <1>2, <1>3, <1>4

(* A handle that is open, or about to be closed, was accessed last.        *)
LEMMA StepLast ==
  ASSUME SoleClient, IInv, NEW t \in Thread, Settled(th[t]), Step(t),
         th'[t].pc \in {"open", "closing"}, IsTracked(ledger', th'[t].name)
  PROVE  Last(ledger'.files, th'[t].name)
<1>1. EndOfBody(t) \/ Serve(t) \/ OpenForReading(t)
  BY StepTo
<1>2. /\ th[t].pc # "idle" /\ th \in [Thread -> Local] /\ th[t] \in Local
      /\ ledger' = Touch(ledger, th[t].name)
  BY <1>1, StepAt, IInvParts DEF IInv, TypeOK, EndOfBody, Serve, OpenForReading
<1>3. th[t].name \in Name /\ Sound(ledger)
  BY <1>2, Client DEF ControlOK
<1>4. th'[t].name = th[t].name
  <2>1. EndOfBody(t) \/ Serve(t) => th'[t].name = th[t].name
    BY FlagStepMeans DEF Same
  <2>2. OpenForReading(t) => th'[t].name = th[t].name
    BY <1>2 DEF OpenForReading, Goto, Become, Local
  <2> QED BY <1>1, <2>1, <2>2
<1>5. Stamped(ledger.files)
  <2>1. th[t].pc \notin {"forget", "retarget", "track"}
    BY <1>1 DEF EndOfBody, Serve, OpenForReading, Ready
  <2>2. Due(ledger, th[t]) = ledger
    BY <2>1 DEF Due
  <2> QED BY <2>2 DEF Settled, Records
<1>6a. PICK n \in Name : n = th[t].name
  BY <1>3
<1>6b. PICK g : g = Touch(ledger, n).files
  OBVIOUS
<1>6. n = th[t].name /\ g = Touch(ledger, n).files
  BY <1>6a, <1>6b
<1>7. SameEntries(ledger.files, g, Name) /\ (n \in Tracked(ledger.files) => Last(g, n))
  BY <1>3, <1>5, <1>6, TouchMeans
<1>8. n \in Tracked(ledger.files)
  BY <1>2, <1>4, <1>6, <1>7 DEF IsTracked, Tracked, SameEntries
<1> QED BY <1>2, <1>4, <1>6, <1>7, <1>8

(* The snapshot of a pass is in the order of the history.                  *)
LEMMA SnapshotPasses ==
  ASSUME SoleClient, IInv, NEW t \in Thread, Settled(th[t]), Ordered(th[t]),
         th[t].pc \in {"scan", "enter", "begin", "put"}, NEW V,
         V = { [name |-> n, at |-> ledger.files[n].at] : n \in Candidates },
         NEW v \in V, NEW w \in V, v # w, v.at <= w.at,
         th[t].name.at \notin {v.name.at, w.name.at}, node[w.name.at] > 0
  PROVE  <<v.name.at, w.name.at>> \in recency
<1>1. PICK f, S : f = ledger.files /\ S = Exempt(th[t])
  OBVIOUS
<1>2. Due(ledger, th[t]) = ledger /\ Upcoming(th[t]) = recency /\ S \subseteq {th[t].name.at}
  BY <1>1 DEF Due, Upcoming, Exempt
<1>3. Orders(f, node, recency, S) /\ Stamped(f) /\ \A p \in Path : f[Abs(p)].kind = "none"
  BY <1>1, <1>2 DEF Ordered, Settled, Records
<1>4. PICK m \in Candidates, n \in Candidates :
         /\ v = [name |-> m, at |-> f[m].at] /\ w = [name |-> n, at |-> f[n].at]
  BY <1>1
<1>5. /\ m \in Name /\ n \in Name /\ f[m].kind = "file" /\ f[n].kind = "file" /\ m # n
      /\ v.name = m /\ w.name = n /\ v.at = f[m].at /\ w.at = f[n].at
  BY <1>1, <1>4 DEF Candidates
<1>6. PICK p \in Path, q \in Path : m = Rel(p) /\ n = Rel(q) /\ p = m.at /\ q = n.at
  <2>1. \A k \in Name : f[k].kind = "file" => k.at \in Path /\ k = Rel(k.at)
    <3>1. \A k \in Name : k = Rel(k.at) \/ k = Abs(k.at)
      BY DEF Name, Rel, Abs
    <3> QED BY <1>3, <3>1, NamesOfPaths
  <2> QED BY <1>5, <2>1
<1>7. f[m].at # f[n].at /\ f[m].at \in Nat /\ f[n].at \in Nat
  <2>1. f \in [Name -> Entry]
    BY <1>1, IInvParts DEF Sound, Ledger
  <2>2. m \in Tracked(f) /\ n \in Tracked(f)
    BY <1>5 DEF Tracked
  <2> QED BY <1>3, <1>5, <2>1, <2>2 DEF Stamped, Entry
<1>8. f[Rel(p)].at < f[Rel(q)].at
  BY <1>5, <1>6, <1>7
<1>9. p \in Path \ S /\ q \in Path \ S /\ p # q /\ node[q] > 0
  BY <1>2, <1>5, <1>6
<1>10. <<p, q>> \in recency
  BY <1>3, <1>5, <1>6, <1>8, <1>9 DEF Orders
<1> QED BY <1>5, <1>6, <1>10

LEMMA StepPasses ==
  ASSUME SoleClient, IInv, NEW t \in Thread, Settled(th[t]), Ordered(th[t]), Step(t),
         recency' = Recorded(t)
  PROVE  Passes(th[t])'
<1>1. /\ th \in [Thread -> Local] /\ th[t] \in Local /\ Passes(th[t])
  BY IInvParts DEF IInv, TypeOK, Ordered
<1>2. ASSUME th'[t].pc \in Evicting, NEW v \in th'[t].victims, NEW w \in th'[t].victims,
             v # w, v.at <= w.at, th'[t].name.at \notin {v.name.at, w.name.at}, node'[w.name.at] > 0
      PROVE  <<v.name.at, w.name.at>> \in recency'
  <2>1. CASE EvictionStep(t)
    <3>1. th[t].pc \in Evicting
      BY <2>1 DEF EvictionStep, Evicting, SkipVictim, ChooseVictim, UnlinkVictim, UnlinkFails, UntrackVictim,
                  EndEviction, SpaceFound, NoSpace
    <3>2. recency' = recency
      BY <3>1 DEF Recorded, Evicting
    <3>3. th'[t] # Idle
      BY <1>2 DEF Idle, Evicting
    <3>4. th'[t].victims \subseteq th[t].victims /\ th'[t].name = th[t].name
      BY <2>1, <3>3, EvictionMeans DEF Same
    <3>5. node[w.name.at] > 0
      <4>1. node' = node \/ UnlinkVictim(t)
        BY <2>1 DEF EvictionStep, SkipVictim, ChooseVictim, UnlinkFails, UntrackVictim,
                    EndEviction, SpaceFound, NoSpace
      <4>2. CASE UnlinkVictim(t)
        <5>1. node' = Without(node, th[t].prey.name.at)
          BY <4>2 DEF UnlinkVictim
        <5>2. w.name.at \in Path
          BY <1>1, <3>4 DEF Local, Victim, Name
        <5>3. node'[w.name.at] \in {Absent, node[w.name.at]}
          BY <5>1, <5>2 DEF Without
        <5> QED BY <1>2, <5>3 DEF Absent
      <4> QED BY <1>2, <4>1, <4>2
    <3> QED BY <1>1, <1>2, <3>1, <3>2, <3>4, <3>5 DEF Passes
  <2>2. CASE ScanSpace(t) \/ OpenForWriting(t) \/ MakeRoom(t)
    <3>1. ledger' = ledger /\ node' = node /\ th[t].pc \in {"scan", "enter", "begin", "put"}
      BY <2>2 DEF ScanSpace, OpenForWriting, MakeRoom, Ready
    <3>2. recency' = recency
      BY <3>1 DEF Recorded
    <3>3. th'[t].ret \in {"begin", "scan", "create", "write"} /\ th'[t].name = th[t].name
      BY <2>2, SpaceMeans
    <3>4. Snapshot(th'[t])
      BY <1>2, <2>2, <3>3, SpaceMeans DEF Evicting
    <3>5. PICK V : V = { [name |-> n, at |-> ledger.files[n].at] : n \in Candidates }
      OBVIOUS
    <3>6. v \in V /\ w \in V
      BY <1>2, <3>4, <3>5 DEF Snapshot
    <3>7. th[t].name.at \notin {v.name.at, w.name.at} /\ node[w.name.at] > 0
      BY <1>2, <3>1, <3>3
    <3>8. <<v.name.at, w.name.at>> \in recency
      BY <1>2, <3>1, <3>5, <3>6, <3>7, SnapshotPasses
    <3> QED BY <3>2, <3>8
  <2> QED BY <1>2, <2>1, <2>2, StepArrives
<1>3. ASSUME th'[t].pc = "unlink"
      PROVE  th'[t].prey \in th'[t].victims /\ \A w \in th'[t].victims : th'[t].prey.at <= w.at
  <2>1. ChooseVictim(t)
    BY <1>3, StepTo
  <2>2. /\ th'[t].victims = th[t].victims /\ th'[t].prey = Oldest(th[t].victims)
        /\ th[t].victims \in SUBSET Victim /\ th[t].victims # {}
    BY <1>1, <2>1 DEF ChooseVictim, Become, Local
  <2>3. PICK X \in SUBSET Victim : X = th[t].victims /\ X # {}
    BY <2>2
  <2>4. Oldest(X) \in X /\ \A w \in X : Oldest(X).at <= w.at
    BY <2>3, OldestType
  <2> QED BY <2>2, <2>3, <2>4
<1> QED BY <1>2, <1>3 DEF Passes

LEMMA RequestKeepsOrdered ==
  ASSUME SoleClient, IInv, NEW t \in Thread, Settled(th[t]), Ordered(th[t]), Request(t),
         recency' = Recorded(t)
  PROVE  Ordered(th[t])'
<1>1. th[t].pc = "idle" /\ UNCHANGED <<node, ledger>>
  BY DEF Request, IssueRead, IssueWrite, IssueMove, Issue
<1>2. th'[t].pc = "enter"
  BY RequestServes DEF Settled
<1>3. recency' = recency
  BY <1>1 DEF Recorded
<1>4. /\ Due(ledger, th[t]) = ledger /\ Due(ledger', th'[t]) = ledger' /\ Exempt(th[t]) = {} /\ Exempt(th'[t]) = {}
      /\ Upcoming(th[t]) = recency /\ Upcoming(th[t])' = recency'
  BY <1>1, <1>2 DEF Due, Exempt, Storing, Writing, Evicting, Upcoming
<1>5. Orders(Due(ledger', th'[t]).files, node', Upcoming(th[t])', Exempt(th'[t]))
  BY <1>1, <1>3, <1>4 DEF Ordered
<1>6. Passes(th[t])'
  BY <1>2 DEF Passes, Evicting
<1> QED BY <1>2, <1>5, <1>6 DEF Ordered

LEMMA OrderedKept ==
  ASSUME SoleClient, IInv, IInv', DInv, [HistoryNext]_historyVars, \A t \in Thread : Ordered(th[t])
  PROVE  (\A t \in Thread : Ordered(th[t]))'
<1>1. CASE UNCHANGED historyVars
  <2>1. node' = node /\ ledger' = ledger /\ th' = th /\ recency' = recency
    BY <1>1 DEF historyVars, vars
  <2>2. ASSUME NEW t \in Thread
        PROVE  Ordered(th[t])'
    <3>1. Ordered(th[t])
      OBVIOUS
    <3>2. Passes(th[t])'
      BY <2>1, <3>1 DEF Ordered, Passes
    <3>3. Orders(Due(ledger', th'[t]).files, node', Upcoming(th[t])', Exempt(th'[t]))
      <4>1. Upcoming(th[t])' = Upcoming(th[t])
        BY <2>1 DEF Upcoming, HistoryRenamed
      <4> QED BY <2>1, <3>1, <4>1 DEF Ordered
    <3> QED BY <2>1, <3>1, <3>2, <3>3 DEF Ordered
  <2> QED BY <2>2
<1>2. ASSUME NEW t \in Thread, Request(t) \/ Step(t), recency' = Recorded(t)
      PROVE  (\A u \in Thread : Ordered(th[u]))'
  <2>1. Settled(th[t]) /\ Ordered(th[t]) /\ IsTree(node)
    BY DEF DInv
  <2>2. CASE Request(t)
    BY <1>2, <2>1, <2>2, RequestKeepsOrdered DEF SoleClient
  <2>3. CASE Step(t)
    <3>1. Orders(Due(ledger', th'[t]).files, node', Upcoming(th[t])', Exempt(th'[t]))
      BY <1>2, <2>1, <2>3, StepOrders
    <3>2. th'[t].pc \in {"open", "closing"} /\ IsTracked(ledger', th'[t].name)
             => Last(ledger'.files, th'[t].name)
      BY <2>1, <2>3, StepLast
    <3>3. Passes(th[t])'
      BY <1>2, <2>1, <2>3, StepPasses
    <3>4. Ordered(th[t])'
      BY <3>1, <3>2, <3>3 DEF Ordered
    <3> QED BY <3>4 DEF SoleClient
  <2> QED BY <1>2, <2>2, <2>3
<1>3. ~Restart
  BY DEF SoleClient, Restart, IInv, TypeOK
<1>4. BudgetSpent /\ UNCHANGED <<recency, refused>> => UNCHANGED historyVars
  BY DEF BudgetSpent, historyVars
<1> QED BY <1>1, <1>2, <1>3, <1>4 DEF HistoryNext

LEMMA InitOrdered ==
  ASSUME SoleClient, HistoryInit
  PROVE  \A t \in Thread : Ordered(th[t])
<1>1. ledger = EmptyLedger /\ \A t \in Thread : th[t] = Idle
  BY DEF HistoryInit, Init
<1>2. \A n \in Name : ledger.files[n].kind = "none"
  BY <1>1 DEF EmptyLedger, NoEntry
<1>3. Idle.pc = "idle" /\ Due(ledger, Idle) = ledger
  BY DEF Idle, Due
<1>4. Orders(ledger.files, node, Upcoming(Idle), Exempt(Idle))
  BY <1>2, NamesOfPaths DEF Orders
<1> QED BY <1>1, <1>3, <1>4 DEF Ordered, Passes, Evicting

(* What a pass takes next, when no removal has failed.                     *)
LEMMA VictimIsOldest ==
  ASSUME SoleClient, IInv, NEW t \in Thread, Settled(th[t]), Ordered(th[t]), PassOK(th[t]),
         th[t].pc = "unlink", ~th[t].failed, th[t].prey.name.at # th[t].name.at,
         NEW p \in Path \ {th[t].name.at, th[t].prey.name.at}, IsFile(node, p), StatSize(p) > 0
  PROVE  AccessedBefore(th[t].prey.name.at, p)
<1>1. PICK f, v : f = ledger.files /\ v = th[t].prey
  OBVIOUS
<1>2. node[p] > 0 /\ StatSize(p) = len[node[p]]
  BY PathsArePlaces DEF IsFile, At, StatSize
<1>3. Due(ledger, th[t]) = ledger /\ Unsettled(th[t]) \subseteq {th[t].name.at}
  BY DEF Due, Unsettled
<1>4. Tells(f, node, len, p)
  BY <1>1, <1>3 DEF Settled, Records
<1>5. Rel(p) \in Candidates
  BY <1>1, <1>2, <1>4, NamesOfPaths DEF Tells, Candidates
<1>6. PICK w \in th[t].victims : w.name = Rel(p)
  BY <1>5 DEF PassOK
<1>7. w.name.at = p
  BY <1>6 DEF Rel
<1>8. v \in th[t].victims /\ v.at <= w.at
  BY <1>1, <1>6 DEF Ordered, Passes
<1>9. v # w
  BY <1>1, <1>7
<1>10. <<v.name.at, p>> \in recency
  BY <1>1, <1>2, <1>6, <1>7, <1>8, <1>9 DEF Ordered, Passes, Evicting
<1> QED BY <1>1, <1>10 DEF AccessedBefore

(* A sole client loses first what it has left alone longest: while no      *)
(* removal has failed, what ensureSpace removes was accessed before every  *)
(* other non-empty file on disk, as the client knows its own accesses,     *)
(* through uploads, reads, removals and renames, of trees too: for every   *)
(* tree of paths, cap, size of write and length of history                 *)
(* (filesystem.go:17-19, :441 and the places that stamp).                  *)
THEOREM EvictionIsByAccess == SoleClient => (HistorySpec => EvictsLeastRecentlyAccessed)
<1> DEFINE History == \A t \in Thread : Ordered(th[t])
           Pass == \A t \in Thread : PassOK(th[t])
           Takes(t) ==
             LET own == th[t].name.at
                 victim == th[t].prey.name.at
             IN  th[t].pc = "unlink" /\ th'[t].pc = "untrack" /\ victim # own /\ ~th[t].failed
                 => \A p \in Path \ {own, victim} :
                       IsFile(node, p) /\ StatSize(p) > 0 => AccessedBefore(victim, p)
<1> SUFFICES ASSUME SoleClient PROVE HistorySpec => EvictsLeastRecentlyAccessed
  OBVIOUS
<1>1. HistoryInit => Init /\ DInv /\ History /\ Pass
  <2>1. HistoryInit => Init
    BY DEF HistoryInit
  <2>2. Init => Pass
    BY DEF Init, Idle, PassOK
  <2> QED BY <2>1, <2>2, InitDInv, InitOrdered
<1>2. [HistoryNext]_historyVars => [Next]_vars
  BY DEF HistoryNext, Next, historyVars
<1>3. IInv /\ IInv' /\ DInv /\ [Next]_vars => DInv'
  BY DInvKept
<1>4. IInv /\ Pass /\ [Next]_vars => Pass'
  BY PassKept DEF OneThread, SoleClient
<1>5. IInv /\ IInv' /\ DInv /\ History /\ [HistoryNext]_historyVars => History'
  BY OrderedKept
<1>6. IInv /\ DInv /\ History /\ Pass => [\A t \in Thread : Takes(t)]_historyVars
  BY VictimIsOldest DEF DInv
<1> HIDE DEF History, Pass, Takes
<1>7. HistorySpec => HistoryInit /\ [][HistoryNext]_historyVars
  BY PTL DEF HistorySpec
<1>8. EvictsLeastRecentlyAccessed <=> [][\A t \in Thread : Takes(t)]_historyVars
  BY DEF EvictsLeastRecentlyAccessed, Takes
<1>9. Init /\ [][Next]_vars => []IInv
  BY Invariant DEF Spec
<1> QED BY <1>1, <1>2, <1>3, <1>4, <1>5, <1>6, <1>7, <1>8, <1>9, PTL

-----------------------------------------------------------------------------
(* A pass with removals that fail.  Every file that a pass could remove is *)
(* still in hand or has been refused; when it is over there is room, or    *)
(* what is left was refused.                                               *)
-----------------------------------------------------------------------------
Tries(r) ==
    /\ r.pc \in {"evict", "unlink", "untrack"} =>
          \A n \in Candidates : n \in refused \/ \E v \in r.victims : v.name = n
    /\ r.pc = "verdict" => Fits(r.need) \/ Candidates \subseteq refused

(* A victim is dropped that is no candidate any more, or was refused.      *)
LEMMA DropTries ==
  ASSUME NEW t \in Thread, Tries(th[t]), th[t].pc \in {"evict", "unlink", "untrack"},
         th'[t].pc = "evict", NEW v, th'[t].victims = th[t].victims \ {v},
         Candidates' \subseteq Candidates, refused \subseteq refused',
         v.name \notin Candidates' \/ v.name \in refused'
  PROVE  Tries(th[t])'
BY DEF Tries

LEMMA EvictionStepTries ==
  ASSUME IInv, NEW t \in Thread, EvictionStep(t), refused' = Refusals(t), Tries(th[t])
  PROVE  Tries(th[t])'
<1>1. th \in [Thread -> Local] /\ th[t] \in Local /\ ControlOK(th[t])
  BY IInvParts DEF IInv, TypeOK
<1>2. CASE SkipVictim(t)
  <2> DEFINE v == Oldest(th[t].victims)
  <2>1. th'[t] = Drop(t, v) /\ ledger' = ledger /\ ledger.files[v.name].size = 0
    BY <1>1, <1>2 DEF SkipVictim, Become
  <2>2. th'[t].pc = "evict" /\ th'[t].victims = th[t].victims \ {v} /\ th[t].pc = "evict"
    BY <1>1, <1>2, <2>1 DEF Drop, Local, SkipVictim
  <2>3. Candidates' = Candidates /\ v.name \notin Candidates'
    BY <2>1 DEF Candidates
  <2>4. refused' = refused
    BY <2>2 DEF Refusals
  <2> HIDE DEF v
  <2> QED BY <2>2, <2>3, <2>4, DropTries
<1>3. CASE ChooseVictim(t) \/ UnlinkVictim(t)
  <2>1. /\ \/ th[t].pc = "evict" /\ th'[t].pc = "unlink"
           \/ th[t].pc = "unlink" /\ th'[t].pc = "untrack"
        /\ th'[t].victims = th[t].victims /\ ledger' = ledger
    <3>1. CASE ChooseVictim(t)
      BY <1>1, <3>1 DEF ChooseVictim, Become, Local
    <3>2. CASE UnlinkVictim(t)
      BY <1>1, <3>2 DEF UnlinkVictim, Goto, Become, Local
    <3> QED BY <1>3, <3>1, <3>2
  <2>2. Candidates' = Candidates
    BY <2>1 DEF Candidates
  <2>3. refused' = refused
    BY <2>1 DEF Refusals
  <2> QED BY <2>1, <2>2, <2>3 DEF Tries
<1>4. CASE UnlinkFails(t)
  <2> DEFINE v == th[t].prey
             q == Drop(t, v)
  <2>1. th'[t] = [q EXCEPT !.failed = TRUE] /\ ledger' = ledger /\ th[t].pc = "unlink"
    BY <1>1, <1>4 DEF UnlinkFails, Become
  <2>2. q.pc = "evict" /\ q.victims = th[t].victims \ {v} /\ q \in Local
    BY <1>1, <1>4, DropType DEF Drop, Local, UnlinkFails, Goroutine
  <2> HIDE DEF q, v
  <2>3. th'[t].pc = "evict" /\ th'[t].victims = th[t].victims \ {v}
    BY <2>1, <2>2 DEF Local
  <2>4. Candidates' = Candidates
    BY <2>1 DEF Candidates
  <2>5. refused' = refused \cup {v.name}
    BY <2>1, <2>3 DEF Refusals, v
  <2> QED BY <2>1, <2>3, <2>4, <2>5, DropTries
<1>5. CASE UntrackVictim(t)
  <2> DEFINE v == th[t].prey
  <2>1. th'[t] = Drop(t, v) /\ ledger' = Untrack(ledger, v.name) /\ th[t].pc = "untrack"
    BY <1>1, <1>5 DEF UntrackVictim, Become
  <2>2. th'[t].pc = "evict" /\ th'[t].victims = th[t].victims \ {v}
    BY <1>1, <2>1 DEF Drop, Local
  <2>3. Candidates' \subseteq Candidates \ {v.name}
    <3> DEFINE f == [m \in Name |-> IF m \in {v.name} THEN NoEntry ELSE ledger.files[m]]
    <3>1. f \in [Name -> Entry] /\ ledger'.files = Renumber(f)
      BY <2>1, LedgerParts, IInvParts DEF Untrack, Forget, NoEntry, Entry
    <3>2. \A n \in Name : ledger'.files[n].kind = f[n].kind /\ ledger'.files[n].size = f[n].size
      BY <3>1, RenumberKeeps
    <3> QED BY <3>2 DEF Candidates, NoEntry
  <2>4. refused' = refused
    BY <2>1, <2>2 DEF Refusals
  <2> HIDE DEF v
  <2> QED BY <2>1, <2>2, <2>3, <2>4, DropTries
<1>6. CASE EndEviction(t)
  <2>1. /\ th'[t].pc = "verdict" /\ th'[t].need = th[t].need /\ ledger' = ledger
        /\ th[t].pc = "evict" /\ (th[t].victims = {} \/ Fits(th[t].need))
    BY <1>1, <1>6 DEF EndEviction, Become, Local
  <2>2. Candidates' = Candidates /\ refused' = refused
    BY <2>1 DEF Candidates, Refusals
  <2> QED BY <2>1, <2>2 DEF Tries, Fits
<1>7. CASE SpaceFound(t) \/ NoSpace(t)
  <2>1. th'[t].pc \in {th[t].ret, "put", "idle"}
    <3>1. CASE SpaceFound(t)
      BY <1>1, <3>1 DEF SpaceFound, Become, Local
    <3>2. CASE NoSpace(t) /\ th[t].ret = "write"
      BY <1>1, <3>2 DEF NoSpace, Become, Local
    <3>3. CASE NoSpace(t) /\ th[t].ret # "write"
      BY <1>1, <3>3 DEF NoSpace, Finish, Become, Idle
    <3> QED BY <1>7, <3>1, <3>2, <3>3
  <2>2. th[t].ret \notin Evicting
    BY <1>1, <1>7 DEF SpaceFound, NoSpace, ControlOK, Evicting
  <2> QED BY <2>1, <2>2 DEF Tries, Evicting
<1> QED BY <1>2, <1>3, <1>4, <1>5, <1>6, <1>7 DEF EvictionStep

LEMMA TriesKept ==
  ASSUME OneThread, IInv, [HistoryNext]_historyVars, \A t \in Thread : Tries(th[t])
  PROVE  \A t \in Thread : Tries(th[t])'
<1> TAKE t \in Thread
<1>1. th \in [Thread -> Local]
  BY DEF IInv, TypeOK
<1>2. CASE UNCHANGED <<vars, refused>>
  BY <1>2 DEF vars, Tries, Candidates, Fits
<1>3. CASE \E u \in Thread : Request(u)
  <2>1. Request(t)
    BY <1>3 DEF OneThread
  <2>2. th'[t].pc = "enter"
    <3> USE <1>1 DEF Issue, Become, Idle
    <3>1. CASE IssueRead(t)
      BY <3>1 DEF IssueRead
    <3>2. CASE IssueWrite(t)
      BY <3>2 DEF IssueWrite
    <3>3. CASE IssueMove(t)
      BY <3>3 DEF IssueMove
    <3> QED BY <2>1, <3>1, <3>2, <3>3 DEF Request
  <2> QED BY <2>2 DEF Tries
<1>4. CASE \E u \in Thread : Step(u) /\ refused' = Refusals(u)
  <2>1. Step(t) /\ refused' = Refusals(t)
    BY <1>4 DEF OneThread
  <2>2. CASE EvictionStep(t)
    BY <2>1, <2>2, EvictionStepTries
  <2>3. CASE ~EvictionStep(t)
    <3>1. th'[t].pc \notin Evicting \/ Whole(th[t])'
      BY <2>1, <2>3, OtherStepStarts DEF Step
    <3> QED BY <3>1 DEF Tries, Whole, Evicting
  <2> QED BY <2>2, <2>3
<1>5. CASE Restart
  BY <1>5 DEF Restart, Idle, Tries
<1> QED BY <1>2, <1>3, <1>4, <1>5 DEF HistoryNext, historyVars, BudgetSpent

(* With one client, a pass that could not make room has tried every file:  *)
(* whichever removals the backend refuses, the pass goes on with the       *)
(* others, and what could still be evicted when it gives up was refused in *)
(* this very pass (filesystem.go:448-497), for any cap, tree and history.  *)
THEOREM EveryFileIsTried == OneThread => (HistorySpec => []EveryVictimIsTried)
<1> DEFINE AllTry == \A t \in Thread : Tries(th[t])
<1> SUFFICES ASSUME OneThread PROVE HistorySpec => []EveryVictimIsTried
  OBVIOUS
<1>1. HistoryInit => Init /\ AllTry
  BY DEF HistoryInit, Init, Idle, Tries
<1>2. IInv /\ AllTry /\ [HistoryNext]_historyVars => AllTry'
  BY TriesKept
<1>3. AllTry => EveryVictimIsTried
  BY DEF Tries, EveryVictimIsTried
<1>4. [HistoryNext]_historyVars => [Next]_vars
  BY DEF HistoryNext, Next, historyVars
<1> HIDE DEF AllTry
<1>5. HistorySpec => HistoryInit /\ [][HistoryNext]_historyVars
  BY PTL DEF HistorySpec
<1>6. Init /\ [][Next]_vars => []IInv
  BY Invariant DEF Spec
<1> QED BY <1>1, <1>2, <1>3, <1>4, <1>5, <1>6, PTL
=============================================================================
