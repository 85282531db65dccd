-------------------------- MODULE CopyOnReadProofs --------------------------
(***************************************************************************)
(* For any paths, initial tree, goroutines, copiers, errors, restarts and  *)
(* bounds: CopyOnRead is type correct, and up to the first disturbance the *)
(* cache holds what the backend holds and a GET sends it.                  *)
(*                                                                         *)
(* The inductive invariant says of every goroutine what its record holds   *)
(* where it stands (Fits), that both trees are trees, and, as long as      *)
(* nothing is disturbed, Settled.  One lemma per action shows how the step *)
(* comes out (Outcome); Settles, once, what that leaves settled.           *)
(***************************************************************************)
EXTENDS CopyOnReadRaces, TreesProofs

-----------------------------------------------------------------------------
(* The inductive invariant of CopyOnRead: besides the types, what a        *)
(* goroutine holds and is about at each of its steps, and that both trees  *)
(* are trees.                                                              *)
-----------------------------------------------------------------------------
CopyLabel == {"parents", "mkparents", "copyopen", "copyread", "copywrite"}

Fits(x, r) ==
    /\ r \in Local
    /\ r.method \in Writers \cup {"copy"} => r.name.at \in Path
    /\ r.method = "MOVE" => r.to.at \in Path /\ Movable(r.name.at, r.to.at)
    /\ x \in Copier => r.pc \in {"idle", "fetch"} \cup CopyLabel
    /\ (x \in Copier /\ r.pc # "idle") <=> r.method = "copy"
    /\ r.pc \in {"stat", "statbackend", "open", "fetch", "reopen"} => ~r.dir
    /\ r.pc \in {"open", "fetch", "reopen", "serve", "store"} \cup CopyLabel =>
          r.method \in {"GET", "PROPFIND", "copy"}
    /\ r.pc \in CopyLabel => r.name.at \in Path /\ (r.dir => x \in Copier)
                             /\ (~r.dir => r.from \in Inode)
    /\ r.pc \in {"copyread", "copywrite"} => r.fd \in Inode
    /\ r.pc = "copywrite" => ~r.dir
    /\ r.pc = "mkparents" => \A d \in r.todo : IsUnder(r.name.at, d)
    /\ r.pc = "serve" /\ ~r.dir => /\ r.name.at \in Path
                                   /\ r.side = "cache" => r.fd \in Inode
                                   /\ r.side = "backend" => r.from \in Inode
    /\ r.pc \in {"create", "createcache", "write", "writecache"} => r.method = "PUT"
    /\ r.pc \in {"createcache", "write", "writecache"} => r.from \in Inode
    /\ r.pc \in {"write", "writecache"} => r.fd \in Inode
    /\ r.pc \in {"mkdir", "mkdircache"} => r.method = "MKCOL"
    /\ r.pc \in {"remove", "removecache", "dropremoved"} => r.method \in {"DELETE", "MOVE"}
    /\ r.pc \in {"rename", "renamecache", "droprenamed"} => r.method = "MOVE"
    /\ r.pc = "closing" => r.method \in {"PUT", "MKCOL"}

Named(n) == /\ n \in [Side -> [Path -> Inode \cup {Absent, Directory}]]
            /\ \A side \in Side : IsTree(n[side])
Stored(d) == d \in [Side -> [Inode -> Content]]

IInv ==
    /\ Named(node) /\ Stored(data)
    /\ listings \in [Key -> Listing]
    /\ proc \in [Proc -> Local] /\ \A x \in Proc : Fits(x, proc[x])
    /\ issued \in 0 .. MaxRequests
    /\ restarts \in 0 .. MaxRestarts

-----------------------------------------------------------------------------
LEMMA Constants ==
  /\ Closed
  /\ Inode \subseteq Nat \ {0} /\ Inode \subseteq Int /\ Absent = 0 /\ Directory = -1
  /\ Absent \notin Inode /\ Directory \notin Inode /\ \A i \in Inode : i > 0
  /\ MaxRequests \in Nat /\ MaxRestarts \in Nat
  /\ Empty \in Content /\ 0 .. MaxRequests \subseteq Content
  /\ \A i \in Inode : MaxRequests + i \in Content
  /\ \A c \in Content : Part(c) \in Content
  /\ Thread \cap Copier = {} /\ Thread \subseteq Proc /\ Copier \subseteq Proc
  /\ Root \notin Path /\ Spellings \subseteq {"plain", "slash"}
<1>1. /\ Inode \subseteq Nat \ {0} /\ MaxRequests \in Nat
  BY CopyOnReadAssumption
<1>2. Body \subseteq Nat
  BY <1>1 DEF Body
<1>3. \A c \in Content : Part(c) \in Content
  BY <1>2 DEF Content, Part
<1>4. Body \subseteq Content
  BY DEF Content
<1>5. 0 .. MaxRequests \subseteq Body /\ Empty \in Body /\ \A i \in Inode : MaxRequests + i \in Body
  BY <1>1 DEF Body, Empty
<1> QED BY <1>1, <1>3, <1>4, <1>5, CopyOnReadAssumption, PathsArePlaces
        DEF Closed, Absent, Directory, Proc

LEMMA IdleFits ==
  /\ Idle \in Local /\ Idle.pc = "idle" /\ Idle.method = "none" /\ Idle.name = Plain(Root)
  /\ \A x \in Proc : Fits(x, Idle)
<1>1. Plain(Root) \in Key
  BY DEF Plain, Key
<1>2. Idle \in Local /\ Idle.pc = "idle" /\ Idle.method = "none" /\ Idle.name = Plain(Root)
  BY <1>1, Constants DEF Idle, Local, Label, Side, NoInode
<1> QED BY <1>2 DEF Fits, Writers, CopyLabel

LEMMA Keeps ==
  ASSUME IInv, NEW x \in Proc, NEW r, Fits(x, r), proc' = [proc EXCEPT ![x] = r],
         Named(node'), Stored(data'), listings' \in [Key -> Listing],
         issued' = issued, restarts' = restarts
  PROVE  IInv'
<1>1. r \in Local
  BY DEF Fits
<1>2. proc' \in [Proc -> Local] /\ proc'[x] = r /\ \A y \in Proc \ {x} : proc'[y] = proc[y]
  BY <1>1 DEF IInv
<1>3. \A y \in Proc : Fits(y, proc'[y])
  BY <1>2 DEF IInv
<1> QED BY <1>2, <1>3 DEF IInv, Named, Stored

-----------------------------------------------------------------------------
(* What calls on a file system leave.                                      *)
-----------------------------------------------------------------------------
LEMMA NodeFacts ==
  ASSUME IInv, NEW side \in Side
  PROVE  /\ node[side] \in [Path -> Inode \cup {Absent, Directory}]
         /\ node[side] \in [Path -> Int] /\ IsTree(node[side])
         /\ \A p \in Path : /\ node[side][p] > 0 <=> node[side][p] \in Inode
                            /\ IsFile(node[side], p) <=> node[side][p] \in Inode
                            /\ Exists(node[side], p) <=> node[side][p] # Absent
                            /\ IsDir(node[side], p) <=> node[side][p] = Directory
         /\ IsDir(node[side], Root) /\ ~IsFile(node[side], Root)
<1>1. node[side] \in [Path -> Inode \cup {Absent, Directory}] /\ IsTree(node[side])
  BY DEF IInv, Named
<1>a. Inode \subseteq Nat \ {0} /\ Absent = 0 /\ Directory = -1 /\ Root \notin Path
  BY Constants
<1>b. PICK t \in [Path -> Inode \cup {Absent, Directory}] : t = node[side]
  BY <1>1
<1>c. \A p \in Path : t[p] \in Int /\ (t[p] > 0 <=> t[p] \in Inode)
  <2>1. ASSUME NEW p \in Path PROVE t[p] \in Int /\ (t[p] > 0 <=> t[p] \in Inode)
    <3>1. t[p] \in Inode \/ t[p] = 0 \/ t[p] = -1
      BY <1>a
    <3>2. \A i \in Inode : i \in Int /\ i > 0
      BY <1>a
    <3>3. 0 \notin Inode /\ -1 \notin Inode
      BY <1>a
    <3> QED BY <3>1, <3>2, <3>3
  <2> QED BY <2>1
<1>2. node[side] \in [Path -> Int]
  BY <1>b, <1>c
<1>3. ASSUME NEW p \in Path
      PROVE  /\ node[side][p] > 0 <=> node[side][p] \in Inode
             /\ At(node[side], p) = node[side][p]
  <2>1. At(node[side], p) = node[side][p]
    BY <1>a DEF At
  <2> QED BY <1>b, <1>c, <2>1
<1>4. IsDir(node[side], Root) /\ ~IsFile(node[side], Root)
  BY DEF IsDir, IsFile, At, Directory
<1> QED BY <1>1, <1>2, <1>3, <1>4 DEF IsFile, IsDir, Exists

LEMMA Changed ==
  ASSUME NEW A, NEW B, NEW f \in [Side -> [A -> B]], NEW side \in Side, NEW a \in A, NEW b \in B
  PROVE  /\ [f EXCEPT ![side][a] = b] \in [Side -> [A -> B]]
         /\ [f EXCEPT ![side][a] = b][side] = [f[side] EXCEPT ![a] = b]
         /\ [f EXCEPT ![side][a] = b][side][a] = b
         /\ \A c \in A \ {a} : [f EXCEPT ![side][a] = b][side][c] = f[side][c]
         /\ \A other \in Side \ {side} : [f EXCEPT ![side][a] = b][other] = f[other]
<1>1. PICK g : g = [f[side] EXCEPT ![a] = b]
  OBVIOUS
<1>2. g \in [A -> B] /\ g[a] = b /\ \A c \in A \ {a} : g[c] = f[side][c]
  BY <1>1
<1>3. PICK h : h = [f EXCEPT ![side] = g]
  OBVIOUS
<1>4. [f EXCEPT ![side][a] = b] = h
  BY <1>1, <1>3
<1>5. h \in [Side -> [A -> B]] /\ h[side] = g /\ \A other \in Side \ {side} : h[other] = f[other]
  BY <1>2, <1>3
<1> QED BY <1>1, <1>2, <1>4, <1>5

LEMMA Opens ==
  ASSUME IInv, NEW side \in Side, NEW p \in Path, CanOpen(side, p), OpenTruncated(side, p)
  PROVE  /\ Named(node') /\ Stored(data') /\ Opened(side, p) \in Inode
         /\ node'[side][p] = Opened(side, p)
         /\ node[side][p] \in Inode => node'[side][p] = node[side][p]
         /\ node[side][p] \in Inode \/ CanMake(node[side], p)
         /\ \A q \in Path \ {p} : node'[side][q] = node[side][q]
         /\ \A q \in Path : node[side][q] = Opened(side, p) => q = p
         /\ data'[side][Opened(side, p)] = Empty
         /\ \A i \in Inode : i # Opened(side, p) => data'[side][i] = data[side][i]
         /\ \A other \in Side \ {side} : node'[other] = node[other] /\ data'[other] = data[other]
<1>1. PICK i : i = Opened(side, p)
  OBVIOUS
<1>2. /\ i \in Inode
      /\ node[side][p] \in Inode => i = node[side][p]
      /\ node[side][p] \in Inode \/ CanMake(node[side], p)
      /\ \A q \in Path : node[side][q] = i => q = p
  <2>1. CASE IsFile(node[side], p)
    <3>1. i = node[side][p] /\ i \in Inode
      BY <1>1, <2>1, NodeFacts DEF Opened
    <3> QED BY <3>1, NodeFacts DEF IsTree
  <2>2. CASE ~IsFile(node[side], p)
    <3>1. i = NewInode(side) /\ CanMake(node[side], p) /\ Unused(side) # {}
      BY <1>1, <2>2 DEF Opened, CanOpen
    <3>2. i \in Unused(side)
      BY <3>1 DEF NewInode
    <3>3. i \in Inode /\ \A q \in Path : node[side][q] # i
      BY <3>2 DEF Unused, Live
    <3> QED BY <2>2, <3>1, <3>3, NodeFacts
  <2> QED BY <2>1, <2>2
<1>3. /\ node' = [node EXCEPT ![side][p] = i] /\ data' = [data EXCEPT ![side][i] = Empty]
  BY <1>1 DEF OpenTruncated
<1>4. /\ node \in [Side -> [Path -> Inode \cup {Absent, Directory}]]
      /\ data \in [Side -> [Inode -> Content]]
  BY DEF IInv, Named, Stored
<1>5. /\ node' \in [Side -> [Path -> Inode \cup {Absent, Directory}]]
      /\ node'[side] = [node[side] EXCEPT ![p] = i]
      /\ node'[side][p] = i /\ \A q \in Path \ {p} : node'[side][q] = node[side][q]
      /\ \A other \in Side \ {side} : node'[other] = node[other]
  <2>1. i \in Inode \cup {Absent, Directory}
    BY <1>2
  <2> QED BY <1>3, <1>4, <2>1, Changed
<1>6. /\ data' \in [Side -> [Inode -> Content]]
      /\ data'[side][i] = Empty /\ \A j \in Inode \ {i} : data'[side][j] = data[side][j]
      /\ \A other \in Side \ {side} : data'[other] = data[other]
  <2>1. i \in Inode /\ Empty \in Content
    BY <1>2, Constants
  <2> QED BY <1>3, <1>4, <2>1, Changed
<1>8. IsTree(node'[side])
  <2>1. CASE node[side][p] \in Inode
    <3>1. node'[side] = node[side]
      <4>1. node[side] \in [Path -> Inode \cup {Absent, Directory}] /\ node[side][p] = i
        BY <1>2, <2>1, NodeFacts
      <4> QED BY <1>5, <4>1
    <3> QED BY <3>1, NodeFacts
  <2>2. CASE node[side][p] \notin Inode
    <3>1. CanMake(node[side], p) /\ i \in Int
      BY <1>2, <2>2, Constants
    <3>2. \A q \in Path : node[side][q] # i
      BY <1>2, <2>2
    <3>3. node[side] \in [Path -> Int] /\ IsTree(node[side]) /\ Closed
      BY NodeFacts, Constants
    <3>4. IsTree([node[side] EXCEPT ![p] = i])
      BY <3>1, <3>2, <3>3, MadeIsTree
    <3> QED BY <1>5, <3>4
  <2> QED BY <2>1, <2>2
<1>9. Named(node') /\ Stored(data')
  BY <1>5, <1>6, <1>8 DEF IInv, Named, Stored
<1> QED BY <1>1, <1>2, <1>5, <1>6, <1>9

(* Bytes that a name refers to stay.                                       *)
LEMMA Scrubs ==
  ASSUME NEW d, Stored(d), NEW n, NEW ps
  PROVE  /\ Stored(Scrubbed(d, n, ps))
         /\ \A side \in Side, p \in Path :
               n[side][p] \in Inode => Scrubbed(d, n, ps)[side][n[side][p]] = d[side][n[side][p]]
<1>1. PICK s : s = Scrubbed(d, n, ps)
  OBVIOUS
<1>2. s = [side \in Side |-> [i \in Inode |->
              IF i \in Live(side, n, ps) THEN d[side][i] ELSE Empty]]
  BY <1>1 DEF Scrubbed
<1>3. Stored(s)
  BY <1>2, Constants DEF Stored
<1>4. ASSUME NEW side \in Side, NEW p \in Path, n[side][p] \in Inode
      PROVE  s[side][n[side][p]] = d[side][n[side][p]]
  <2>1. n[side][p] \in Live(side, n, ps)
    BY DEF Live
  <2> QED BY <1>2, <1>4, <2>1
<1> QED BY <1>1, <1>3, <1>4

LEMMA MakesDirectory ==
  ASSUME IInv, NEW side \in Side, NEW p \in Path, CanMake(node[side], p),
         node' = [node EXCEPT ![side][p] = Directory]
  PROVE  /\ Named(node') /\ node'[side][p] = Directory /\ node[side][p] = Absent
         /\ \A q \in Path \ {p} : node'[side][q] = node[side][q]
         /\ \A other \in Side \ {side} : node'[other] = node[other]
<1>1. node \in [Side -> [Path -> Inode \cup {Absent, Directory}]]
  BY DEF IInv, Named
<1>2. /\ node' \in [Side -> [Path -> Inode \cup {Absent, Directory}]]
      /\ node'[side] = [node[side] EXCEPT ![p] = Directory]
      /\ node'[side][p] = Directory /\ \A q \in Path \ {p} : node'[side][q] = node[side][q]
      /\ \A other \in Side \ {side} : node'[other] = node[other]
  BY <1>1, Changed
<1>3. IsTree(node'[side])
  <2>1. node[side] \in [Path -> Int] /\ IsTree(node[side]) /\ Closed
    BY NodeFacts, Constants
  <2>2. -1 \in Int /\ ~(-1 > 0) /\ Directory = -1
    BY DEF Directory
  <2>3. IsTree([node[side] EXCEPT ![p] = Directory])
    BY <2>1, <2>2, MadeIsTree
  <2> QED BY <1>2, <2>3
<1> QED BY <1>2, <1>3 DEF IInv, Named, CanMake

LEMMA Removes ==
  ASSUME IInv, NEW side \in Side, NEW p \in Path,
         node' = [node EXCEPT ![side] = Without(@, p)]
  PROVE  /\ Named(node')
         /\ \A q \in Path : IF AtOrUnder(q, p) THEN node'[side][q] = Absent
                            ELSE node'[side][q] = node[side][q]
         /\ \A other \in Side \ {side} : node'[other] = node[other]
<1>1. node \in [Side -> [Path -> Inode \cup {Absent, Directory}]]
  BY DEF IInv, Named
<1>2. PICK t : t = Without(node[side], p)
  OBVIOUS
<1>3. /\ IsTree(t) /\ t \in [Path -> Int]
      /\ \A q \in Path : IF AtOrUnder(q, p) THEN t[q] = Absent ELSE t[q] = node[side][q]
  BY <1>2, NodeFacts, WithoutIsTree
<1>4. t \in [Path -> Inode \cup {Absent, Directory}]
  BY <1>1, <1>3
<1>5. /\ node' \in [Side -> [Path -> Inode \cup {Absent, Directory}]] /\ node'[side] = t
      /\ \A other \in Side \ {side} : node'[other] = node[other]
  BY <1>1, <1>2, <1>4
<1> QED BY <1>3, <1>5 DEF IInv, Named

LEMMA RemovesInPart ==
  ASSUME IInv, NEW side \in Side, NEW p \in Path, node' \in RemovedInPart(side, p)
  PROVE  /\ Named(node') /\ node'[side][p] = node[side][p]
         /\ \A q \in Path : ~AtOrUnder(q, p) => node'[side][q] = node[side][q]
         /\ \A other \in Side \ {side} : node'[other] = node[other]
<1>1. PICK gone \in SUBSET { q \in Path : IsUnder(q, p) } :
        /\ \A d \in gone, q \in Path : IsUnder(q, d) => q \in gone
        /\ node' = [node EXCEPT ![side] = [q \in Path |-> IF q \in gone THEN Absent ELSE @[q]]]
  BY DEF RemovedInPart
<1>2. node \in [Side -> [Path -> Inode \cup {Absent, Directory}]]
  BY DEF IInv, Named
<1>3. PICK t : t = [q \in Path |-> IF q \in gone THEN Absent ELSE node[side][q]]
  OBVIOUS
<1>4. t \in [Path -> Inode \cup {Absent, Directory}]
  BY <1>2, <1>3
<1>5. /\ node' \in [Side -> [Path -> Inode \cup {Absent, Directory}]] /\ node'[side] = t
      /\ \A other \in Side \ {side} : node'[other] = node[other]
  BY <1>1, <1>2, <1>3, <1>4
<1>6. IsTree(t)
  <2>1. IsTree(node[side])
    BY NodeFacts
  <2>2. \A q \in Path : t[q] # Absent => q \notin gone /\ t[q] = node[side][q]
    BY <1>3
  <2>3. ASSUME NEW q \in Path, NEW d \in Path, t[q] # Absent, IsUnder(q, d)
        PROVE  t[d] = Directory
    <3>1. q \notin gone /\ node[side][q] # Absent
      BY <2>2, <2>3
    <3>2. d \notin gone
      BY <1>1, <2>3, <3>1
    <3>3. t[d] = node[side][d]
      BY <1>3, <3>2
    <3> QED BY <2>1, <2>3, <3>1, <3>3 DEF IsTree
  <2>4. ASSUME NEW q \in Path, NEW e \in Path, t[q] > 0, t[e] = t[q]
        PROVE  q = e
    <3>1. t[q] # Absent /\ t[e] # Absent
      BY <2>4 DEF Absent
    <3> QED BY <2>1, <2>2, <2>4, <3>1 DEF IsTree
  <2> QED BY <2>3, <2>4 DEF IsTree
<1>7. p \notin gone /\ \A q \in Path : ~AtOrUnder(q, p) => q \notin gone
  <2>1. p \in Place /\ Len(p) \in Nat
    BY PathsArePlaces
  <2>2. ~IsUnder(p, p)
    BY <2>1 DEF IsUnder
  <2> QED BY <1>1, <2>2 DEF AtOrUnder
<1> QED BY <1>3, <1>5, <1>6, <1>7, <1>2 DEF IInv, Named

(* Bytes that a call stores, or the beginning of them.                     *)
LEMMA WritesInPart ==
  ASSUME IInv, NEW side \in Side, NEW i \in Inode, NEW c \in Content,
         NEW d \in WrittenInPart(side, i, c)
  PROVE  /\ Stored(d) /\ \A j \in Inode \ {i} : d[side][j] = data[side][j]
         /\ \A other \in Side \ {side} : d[other] = data[other]
<1>1. data \in [Side -> [Inode -> Content]] /\ Part(c) \in Content
  BY Constants DEF IInv, Stored
<1>2. PICK b \in Content : b = Part(c)
  BY <1>1
<1>3. d = data \/ d = [data EXCEPT ![side][i] = b]
  BY <1>2 DEF WrittenInPart
<1>4. CASE d = data
  BY <1>1, <1>4 DEF Stored
<1>5. CASE d = [data EXCEPT ![side][i] = b]
  BY <1>1, <1>5, Changed DEF Stored
<1> QED BY <1>3, <1>4, <1>5

LEMMA Renames ==
  ASSUME IInv, NEW side \in Side, NEW src \in Path, NEW dst \in Path, src # dst,
         CanRename(node[side], src, dst), node' = [node EXCEPT ![side] = Renamed(@, src, dst)]
  PROVE  /\ Named(node') /\ node'[side] = Renamed(node[side], src, dst)
         /\ \A other \in Side \ {side} : node'[other] = node[other]
<1>1. node \in [Side -> [Path -> Inode \cup {Absent, Directory}]]
  BY DEF IInv, Named
<1>2. PICK t : t = Renamed(node[side], src, dst)
  OBVIOUS
<1>3. /\ IsTree(t) /\ t \in [Path -> Int]
  BY <1>2, NodeFacts, RenamedIsTree, RenamedMeans, Constants
<1>4. t \in [Path -> Inode \cup {Absent, Directory}]
  <2>1. ASSUME NEW q \in Path
        PROVE  t[q] \in Inode \cup {Absent, Directory}
    <3>1. t[q] # Absent => \E o \in Path : t[q] = node[side][o]
      BY <1>2, NodeFacts, RenamedFrom
    <3> QED BY <1>1, <3>1
  <2> QED BY <1>3, <2>1
<1>5. /\ node' \in [Side -> [Path -> Inode \cup {Absent, Directory}]] /\ node'[side] = t
      /\ \A other \in Side \ {side} : node'[other] = node[other]
  BY <1>1, <1>2, <1>4
<1> QED BY <1>2, <1>3, <1>5 DEF IInv, Named

-----------------------------------------------------------------------------
(* What an undisturbed behaviour maintains: nobody works where somebody    *)
(* writes, every goroutine knows what its last calls have told it, and     *)
(* what the cache has is what the backend has, or somebody owes it.        *)
-----------------------------------------------------------------------------
Knowing == CopyLabel \cup {"serve", "createcache", "write", "writecache", "mkdircache",
                           "renamecache"}

SubjectOf(r) == IF r.method = "MOVE" THEN r.to ELSE r.name
PlacesOf(r) == {r.name.at} \cup (IF r.method = "MOVE" THEN {r.to.at} ELSE {})

(* At p the cache has nothing, or what the backend has at q.               *)
Like(p, q) ==
    \/ node["cache"][p] = Absent
    \/ node["cache"][p] = Directory /\ node["backend"][q] = Directory
    \/ /\ node["cache"][p] \in Inode /\ node["backend"][q] \in Inode
       /\ data["cache"][node["cache"][p]] = data["backend"][node["backend"][q]]
Current(p) == Like(p, p)

Owes(r, p) ==
    \/ r.pc \in {"copyread", "copywrite", "createcache", "writecache"} /\ p = r.name.at
    \/ r.pc = "removecache" /\ AtOrUnder(p, SubjectOf(r).at)
    \/ r.pc = "renamecache" /\ (AtOrUnder(p, r.name.at) \/ AtOrUnder(p, r.to.at))

KnowsCopy(r) ==
    /\ r.pc \in CopyLabel => /\ r.dir => node["backend"][r.name.at] = Directory
                             /\ ~r.dir => node["backend"][r.name.at] = r.from
    /\ r.pc \in {"copyread", "copywrite"} => node["cache"][r.name.at] = r.fd
    /\ r.pc = "copywrite" => r.buf = data["backend"][r.from]

KnowsServed(r) ==
    r.pc = "serve" /\ ~r.dir =>
        /\ r.side = "cache" => node["cache"][r.name.at] = r.fd
        /\ r.side = "backend" => node["backend"][r.name.at] = r.from

KnowsWritten(r) ==
    /\ r.pc \in {"createcache", "write", "writecache"} => node["backend"][r.name.at] = r.from
    /\ r.pc \in {"write", "writecache"} => node["cache"][r.name.at] = r.fd
    /\ r.pc = "createcache" => /\ data["backend"][r.from] = Empty
                               /\ node["cache"][r.name.at] # Directory
    /\ r.pc = "writecache" => data["backend"][r.from] = r.buf
    /\ r.pc = "mkdircache" => node["backend"][r.name.at] = Directory

(* The backend has been renamed, the cache has not.                        *)
KnowsRenamed(r) ==
    r.pc = "renamecache" =>
        /\ \A e \in Path : AtOrUnder(e, r.name.at) =>
              node["backend"][e] = Absent /\ Like(e, Rebase(e, r.name.at, r.to.at))
        /\ \A e \in Path : AtOrUnder(e, r.to.at) /\ node["cache"][e] # Absent =>
              /\ e = r.to.at /\ node["cache"][e] # Directory
              /\ node["backend"][e] \in Inode

Knows(r) == KnowsCopy(r) /\ KnowsServed(r) /\ KnowsWritten(r) /\ KnowsRenamed(r)

Excluded(r, s) ==
    r.pc \in Writing /\ s.pc \in Working =>
        \A p \in PlacesOf(r), q \in PlacesOf(s) : ~RelatedPaths(p, q)

Settled ==
    /\ \A x, y \in Proc : x # y => Excluded(proc[x], proc[y])
    /\ \A x \in Proc : Knows(proc[x])
    /\ \A p \in Path : Current(p) \/ \E x \in Proc : Owes(proc[x], p)

-----------------------------------------------------------------------------
(* A step of x that leaves its record as r: what it may touch of the       *)
(* trees, and what it leaves settled.                                      *)
-----------------------------------------------------------------------------
BackendKept(q) ==
    /\ node'["backend"][q] = node["backend"][q]
    /\ node["backend"][q] \in Inode =>
          data'["backend"][node["backend"][q]] = data["backend"][node["backend"][q]]
CacheKept(q) ==
    /\ node'["cache"][q] = node["cache"][q]
    /\ node["cache"][q] \in Inode =>
          data'["cache"][node["cache"][q]] = data["cache"][node["cache"][q]]
Kept(q) == BackendKept(q) /\ CacheKept(q)

Advances(x, r) ==
    /\ proc' = [proc EXCEPT ![x] = r] /\ Fits(x, r)
    /\ Named(node') /\ Stored(data') /\ listings' \in [Key -> Listing]
    /\ issued' = issued /\ restarts' = restarts

Goes(r, s) ==
    /\ r.pc \in Working =>
          r.name = s.name /\ r.to = s.to /\ r.method = s.method
    /\ r.pc \in Writing => s.pc \in Writing \cup {"create", "mkdir", "remove", "rename"}
    /\ r.pc \in Reading => s.pc \in Reading \cup {"stat", "statbackend", "open", "fetch"}

Ours(s, q) == \E p \in PlacesOf(s) : AtOrUnder(q, p)
WritesAs(s) == s.pc \in Writing \cup {"create", "mkdir", "remove", "rename"}

Frame(s) ==
    \A q \in Path :
        /\ BackendKept(q) \/ (WritesAs(s) /\ Ours(s, q))
        /\ \/ CacheKept(q)
           \/ s.pc \in Writing /\ Ours(s, q)
           \/ /\ s.pc \in {"copyopen", "copywrite"} /\ q = s.name.at
              /\ node["cache"][q] \in Inode => node'["cache"][q] = node["cache"][q]
           \/ /\ s.pc = "mkparents" /\ IsUnder(s.name.at, q)
              /\ node["cache"][q] = Absent

Meets(s, r) ==
    \A q \in Path : Current(q)' \/ Owes(r, q) \/ (Kept(q) /\ ~Owes(s, q))

Undisturbed(x) == Settled /\ ~Race(x) /\ ~HalfDone(x) /\ ~Refused(x) /\ ~CutShort(x)

Outcome(x, r) ==
    /\ Advances(x, r) /\ Goes(r, proc[x])
    /\ Undisturbed(x) => Frame(proc[x]) /\ Knows(r)' /\ Meets(proc[x], r)

-----------------------------------------------------------------------------
LEMMA ProcFacts ==
  ASSUME IInv, NEW x \in Proc
  PROVE  proc[x] \in Local /\ Fits(x, proc[x])
BY DEF IInv

LEMMA OwesOnlyHalfWay ==
  ASSUME NEW r, r.pc \notin HalfWay, NEW q
  PROVE  ~Owes(r, q)
BY DEF Owes, HalfWay

LEMMA KnowsOnlyKnowing ==
  ASSUME NEW r, r.pc \notin Knowing
  PROVE  Knows(r) /\ Knows(r)'
<1>1. r.pc \notin CopyLabel /\ r.pc \notin {"copyread", "copywrite"}
  BY DEF Knowing, CopyLabel
<1>2. /\ r.pc # "serve" /\ r.pc # "mkdircache" /\ r.pc # "renamecache"
      /\ r.pc \notin {"createcache", "write", "writecache"}
  BY DEF Knowing
<1>3. KnowsCopy(r) /\ KnowsCopy(r)'
  BY <1>1 DEF KnowsCopy
<1>4. KnowsWritten(r) /\ KnowsWritten(r)' /\ KnowsServed(r) /\ KnowsServed(r)'
  BY <1>2 DEF KnowsWritten, KnowsServed
<1>5. KnowsRenamed(r) /\ KnowsRenamed(r)'
  BY <1>2 DEF KnowsRenamed
<1> QED BY <1>3, <1>4, <1>5 DEF Knows

(* Names and the bytes they refer to stay.                                 *)
LEMMA Unmoved ==
  ASSUME IInv, node' = node, data' = data \/ data' = Scrubbed(data, node, proc')
  PROVE  Named(node') /\ Stored(data') /\ \A q \in Path : Kept(q)
<1>1. Stored(data) /\ Named(node)
  BY DEF IInv
<1>2. Stored(data') /\ \A side \in Side, p \in Path :
         node[side][p] \in Inode => data'[side][node[side][p]] = data[side][node[side][p]]
  <2>1. CASE data' = data
    BY <1>1, <2>1
  <2>2. CASE data' = Scrubbed(data, node, proc')
    <3>1. PICK ps : ps = proc'
      OBVIOUS
    <3>2. data' = Scrubbed(data, node, ps)
      BY <2>2, <3>1
    <3> QED BY <1>1, <3>2, Scrubs
  <2> QED BY <2>1, <2>2
<1>3. "cache" \in Side /\ "backend" \in Side
  BY DEF Side
<1> QED BY <1>1, <1>2, <1>3 DEF Kept, BackendKept, CacheKept, Named

LEMMA CalmOutcome ==
  ASSUME IInv, NEW x \in Proc, NEW r, Fits(x, r), proc' = [proc EXCEPT ![x] = r],
         node' = node, data' = data \/ data' = Scrubbed(data, node, proc'),
         listings' \in [Key -> Listing], issued' = issued, restarts' = restarts,
         Goes(r, proc[x]), proc[x].pc \notin HalfWay, Undisturbed(x) => Knows(r)'
  PROVE  Outcome(x, r)
<1>1. Named(node') /\ Stored(data') /\ \A q \in Path : Kept(q)
  BY Unmoved
<1>2. Advances(x, r)
  BY <1>1 DEF Advances
<1>3. Frame(proc[x])
  BY <1>1 DEF Frame, Kept
<1>4. Meets(proc[x], r)
  BY <1>1, OwesOnlyHalfWay DEF Meets
<1> QED BY <1>2, <1>3, <1>4 DEF Outcome

LEMMA CalmEnd ==
  ASSUME IInv, NEW x \in Proc, Finish(x),
         node' = node, data' = data \/ data' = Scrubbed(data, node, proc'),
         listings' \in [Key -> Listing], issued' = issued, restarts' = restarts,
         proc[x].pc \notin HalfWay
  PROVE  Outcome(x, Idle)
<1>1. Idle.pc \notin Knowing /\ Goes(Idle, proc[x])
  BY IdleFits DEF Knowing, CopyLabel, Goes, Working, Reading, Writing
<1>2. proc' = [proc EXCEPT ![x] = Idle] /\ Fits(x, Idle)
  BY IdleFits DEF Finish, Become
<1> QED BY <1>1, <1>2, CalmOutcome, KnowsOnlyKnowing

(* A record at another label.                                              *)
LEMMA Relabelled ==
  ASSUME NEW s \in Local, NEW label \in Label
  PROVE  /\ [s EXCEPT !.pc = label] \in Local /\ [s EXCEPT !.pc = label].pc = label
         /\ [s EXCEPT !.pc = label].method = s.method /\ [s EXCEPT !.pc = label].name = s.name
         /\ [s EXCEPT !.pc = label].to = s.to /\ [s EXCEPT !.pc = label].side = s.side
         /\ [s EXCEPT !.pc = label].from = s.from /\ [s EXCEPT !.pc = label].fd = s.fd
         /\ [s EXCEPT !.pc = label].dir = s.dir /\ [s EXCEPT !.pc = label].todo = s.todo
         /\ [s EXCEPT !.pc = label].buf = s.buf /\ [s EXCEPT !.pc = label].names = s.names
BY DEF Local

LEMMA CalmGoto ==
  ASSUME IInv, NEW x \in Proc, NEW label \in Label, Goto(x, label),
         node' = node, data' = data \/ data' = Scrubbed(data, node, proc'),
         listings' \in [Key -> Listing], issued' = issued, restarts' = restarts,
         proc[x].pc \notin HalfWay, label \notin Knowing,
         \A r \in Local : /\ r.pc = label /\ r.method = proc[x].method /\ r.name = proc[x].name
                          /\ r.to = proc[x].to /\ r.dir = proc[x].dir
                          => Fits(x, r),
         label \notin Writing, label \notin Reading
  PROVE  \E r : Outcome(x, r)
<1>1. PICK s \in Local : s = proc[x]
  BY ProcFacts
<1>2. PICK r \in Local : /\ r = [s EXCEPT !.pc = label] /\ r.pc = label /\ r.method = s.method
                         /\ r.name = s.name /\ r.to = s.to /\ r.dir = s.dir
  BY Relabelled
<1>3. proc' = [proc EXCEPT ![x] = r] /\ Fits(x, r)
  BY <1>1, <1>2 DEF Goto, Become
<1>4. Goes(r, proc[x]) /\ r.pc \notin Knowing
  BY <1>2 DEF Goes, Working
<1> QED BY <1>3, <1>4, CalmOutcome, KnowsOnlyKnowing

-----------------------------------------------------------------------------
(* Stat                                                                    *)
-----------------------------------------------------------------------------
LEMMA Stats ==
  ASSUME IInv, NEW x \in Proc, proc[x].pc \in {"stat", "statbackend"}, NEW found \in BOOLEAN
  PROVE  /\ Fits(x, AfterStat(x, found)) /\ Goes(AfterStat(x, found), proc[x])
         /\ AfterStat(x, found).pc \notin Knowing
<1>1. PICK s \in Local : s = proc[x] /\ Fits(x, s)
  BY ProcFacts
<1>2. PICK r : r = AfterStat(x, found)
  OBVIOUS
<1>3. \/ s.method = "PROPFIND" /\ r = [s EXCEPT !.pc = "open"]
      \/ s.method = "DELETE" /\ r = [s EXCEPT !.pc = "remove"]
      \/ s.method = "MOVE" /\ r = [s EXCEPT !.pc = "remove"]
      \/ s.method = "MOVE" /\ r = [s EXCEPT !.pc = "rename"]
      \/ r = Idle
  BY <1>1, <1>2 DEF AfterStat
<1>4. "open" \in Label /\ "remove" \in Label /\ "rename" \in Label
  BY DEF Label
<1>5. s.pc \in {"stat", "statbackend"} /\ x \notin Copier /\ ~s.dir
  BY <1>1 DEF Fits, CopyLabel
<1>6. CASE s.method = "PROPFIND" /\ r = [s EXCEPT !.pc = "open"]
  <2>1. /\ r \in Local /\ r.pc = "open" /\ r.method = s.method /\ r.name = s.name /\ r.to = s.to
        /\ r.dir = s.dir
    BY <1>4, <1>6, Relabelled
  <2>2. Fits(x, r)
    BY <1>1, <1>5, <1>6, <2>1 DEF Fits, Writers, CopyLabel
  <2> QED BY <1>1, <1>2, <1>5, <2>1, <2>2 DEF Goes, Knowing, CopyLabel, Working, Reading, Writing
<1>7. ASSUME NEW label \in {"remove", "rename"}, r = [s EXCEPT !.pc = label],
             s.method \in {"DELETE", "MOVE"}, label = "rename" => s.method = "MOVE"
      PROVE  Fits(x, r) /\ Goes(r, s) /\ r.pc \notin Knowing
  <2>1. /\ r \in Local /\ r.pc = label /\ r.method = s.method /\ r.name = s.name /\ r.to = s.to
        /\ r.dir = s.dir
    BY <1>4, <1>7, Relabelled
  <2>2. Fits(x, r)
    BY <1>1, <1>5, <1>7, <2>1 DEF Fits, Writers, CopyLabel
  <2> QED BY <1>5, <2>1, <2>2 DEF Goes, Knowing, CopyLabel, Working, Reading, Writing
<1>8. CASE r = Idle
  BY <1>2, <1>8, IdleFits DEF Goes, Knowing, CopyLabel, Working, Reading, Writing
<1> QED BY <1>1, <1>2, <1>3, <1>6, <1>7, <1>8

LEMMA StatCacheOutcome ==
  ASSUME IInv, NEW x \in Proc, StatCache(x)
  PROVE  \E r : Outcome(x, r)
<1>1. proc[x].pc = "stat" /\ UNCHANGED <<node, data, listings, issued, restarts>>
  BY DEF StatCache
<1>2. proc[x].pc \notin HalfWay /\ listings' \in [Key -> Listing]
  BY <1>1 DEF IInv, HalfWay
<1>3. CASE Become(x, AfterStat(x, TRUE))
  <2>1. PICK r : r = AfterStat(x, TRUE)
    OBVIOUS
  <2>2. Fits(x, r) /\ Goes(r, proc[x]) /\ r.pc \notin Knowing
    BY <1>1, <2>1, Stats
  <2>3. proc' = [proc EXCEPT ![x] = r]
    BY <1>3, <2>1 DEF Become
  <2> QED BY <1>1, <1>2, <2>2, <2>3, CalmOutcome, KnowsOnlyKnowing
<1>4. CASE Goto(x, "statbackend")
  <2>1. Fits(x, proc[x])
    BY ProcFacts
  <2>2. \A r \in Local : /\ r.pc = "statbackend" /\ r.method = proc[x].method
                         /\ r.name = proc[x].name /\ r.to = proc[x].to /\ r.dir = proc[x].dir
                         => Fits(x, r)
    BY <1>1, <2>1 DEF Fits, CopyLabel
  <2>3. /\ "statbackend" \in Label /\ "statbackend" \notin Knowing
        /\ "statbackend" \notin Writing /\ "statbackend" \notin Reading
    BY DEF Label, Knowing, CopyLabel, Writing, Reading
  <2> QED BY <1>1, <1>2, <1>4, <2>2, <2>3, CalmGoto
<1> QED BY <1>3, <1>4 DEF StatCache

LEMMA StatFailsOutcome ==
  ASSUME IInv, NEW x \in Proc, StatFails(x)
  PROVE  \E r : Outcome(x, r)
<1>1. /\ proc[x].pc \notin HalfWay /\ listings' \in [Key -> Listing] /\ Finish(x)
      /\ UNCHANGED <<node, data, listings, issued, restarts>>
  BY DEF StatFails, IInv, HalfWay
<1> QED BY <1>1, CalmEnd

-----------------------------------------------------------------------------
(* Opening for reading                                                     *)
-----------------------------------------------------------------------------
LEMMA Serves ==
  ASSUME IInv, NEW x \in Proc, proc[x].pc \in {"open", "fetch", "reopen"},
         proc[x].method # "copy", NEW side \in Side, Exists(node[side], PathOf(x)), node' = node
  PROVE  \E r : /\ r = Serving(x, side, PathOf(x))
                /\ Fits(x, r) /\ Goes(r, proc[x]) /\ Knows(r)'
<1>1. PICK s \in Local : s = proc[x] /\ Fits(x, s)
  BY ProcFacts
<1>2. PICK p : p = s.name.at /\ p \in Path \cup {Root}
  BY <1>1 DEF Local, Key
<1>3. s.method \in {"GET", "PROPFIND"} /\ ~s.dir /\ x \notin Copier
  BY <1>1 DEF Fits
<1>4. PICK r : r = Serving(x, side, PathOf(x))
  OBVIOUS
<1>5. /\ r = IF IsDir(node[side], p)
              THEN [s EXCEPT !.pc = "serve", !.side = side, !.dir = TRUE,
                             !.from = NoInode, !.fd = NoInode]
              ELSE IF side = "cache"
              THEN [s EXCEPT !.pc = "serve", !.side = side, !.fd = node[side][p], !.from = NoInode]
              ELSE [s EXCEPT !.pc = "serve", !.side = side, !.from = node[side][p], !.fd = NoInode]
  BY <1>1, <1>2, <1>4 DEF Serving, PathOf
<1>6. ~IsDir(node[side], p) => p \in Path /\ node[side][p] \in Inode
  <2>1. Exists(node[side], p) /\ IsDir(node[side], Root)
    BY <1>1, <1>2, NodeFacts DEF PathOf
  <2>2. node[side] \in [Path -> Inode \cup {Absent, Directory}]
    BY NodeFacts
  <2> QED BY <1>2, <2>1, <2>2, NodeFacts
<1>7. /\ r \in Local /\ r.pc = "serve" /\ r.side = side /\ r.method = s.method
      /\ r.name = s.name /\ r.to = s.to
  BY <1>5, <1>6 DEF Local, Label, NoInode
<1>8. /\ IsDir(node[side], p) => r.dir
      /\ ~IsDir(node[side], p) => /\ ~r.dir
                                  /\ side = "cache" => r.fd = node[side][p]
                                  /\ side = "backend" => r.from = node[side][p]
  BY <1>3, <1>5 DEF Local
<1>9. Fits(x, r)
  BY <1>1, <1>2, <1>3, <1>6, <1>7, <1>8 DEF Fits, CopyLabel, Writers
<1>10. Goes(r, s)
  BY <1>1, <1>7 DEF Goes, Reading, Writing
<1>11. KnowsServed(r)'
  BY <1>2, <1>7, <1>8 DEF KnowsServed
<1>12. KnowsCopy(r)' /\ KnowsWritten(r)' /\ KnowsRenamed(r)'
  BY <1>7 DEF KnowsCopy, KnowsWritten, KnowsRenamed, CopyLabel
<1> QED BY <1>1, <1>4, <1>9, <1>10, <1>11, <1>12 DEF Knows

LEMMA OpenCachedOutcome ==
  ASSUME IInv, NEW x \in Proc, OpenCached(x)
  PROVE  \E r : Outcome(x, r)
<1>1. proc[x].pc = "open" /\ UNCHANGED <<node, data, listings, issued, restarts>>
  BY DEF OpenCached
<1>2. proc[x].pc \notin HalfWay /\ listings' \in [Key -> Listing] /\ Fits(x, proc[x])
  BY <1>1, ProcFacts DEF IInv, HalfWay
<1>3. x \notin Copier /\ proc[x].method # "copy"
  BY <1>1, <1>2 DEF Fits, CopyLabel
<1>4. CASE Exists(node["cache"], PathOf(x)) /\ Become(x, Serving(x, "cache", PathOf(x)))
  <2>1. "cache" \in Side /\ node' = node
    BY <1>1 DEF Side
  <2>2. PICK r : /\ r = Serving(x, "cache", PathOf(x))
                 /\ Fits(x, r) /\ Goes(r, proc[x]) /\ Knows(r)'
    BY <1>1, <1>3, <1>4, <2>1, Serves
  <2>3. proc' = [proc EXCEPT ![x] = r]
    BY <1>4, <2>2 DEF Become
  <2> QED BY <1>1, <1>2, <2>2, <2>3, CalmOutcome
<1>5. CASE Goto(x, "fetch")
  <2>1. \A r \in Local : /\ r.pc = "fetch" /\ r.method = proc[x].method
                         /\ r.name = proc[x].name /\ r.to = proc[x].to /\ r.dir = proc[x].dir
                         => Fits(x, r)
    BY <1>1, <1>2, <1>3 DEF Fits, CopyLabel
  <2>2. /\ "fetch" \in Label /\ "fetch" \notin Knowing
        /\ "fetch" \notin Writing /\ "fetch" \notin Reading
    BY DEF Label, Knowing, CopyLabel, Writing, Reading
  <2> QED BY <1>1, <1>2, <1>5, <2>1, <2>2, CalmGoto
<1> QED BY <1>4, <1>5 DEF OpenCached

-----------------------------------------------------------------------------
(* Copying to the cache                                                    *)
-----------------------------------------------------------------------------
LEMMA FetchOutcome ==
  ASSUME IInv, NEW x \in Proc, Fetch(x)
  PROVE  \E r : Outcome(x, r)
<1>1. /\ proc[x].pc = "fetch" /\ proc[x].pc \notin HalfWay /\ listings' \in [Key -> Listing]
      /\ UNCHANGED <<node, data, listings, issued, restarts>>
  BY DEF Fetch, IInv, HalfWay
<1>2. PICK s \in Local : s = proc[x] /\ Fits(x, s)
  BY ProcFacts
<1>3. PICK p : p = s.name.at /\ p \in Path \cup {Root} /\ PathOf(x) = p
  BY <1>2 DEF Local, Key, PathOf
<1>4. /\ ~s.dir /\ s.method \in {"GET", "PROPFIND", "copy"} /\ (x \in Copier <=> s.method = "copy")
      /\ s.method = "copy" => p \in Path
  BY <1>1, <1>2, <1>3 DEF Fits
<1>5. "backend" \in Side /\ "parents" \in Label
  BY DEF Side, Label
<1>6. CASE IsFile(node["backend"], p)
  <2>1. p \in Path /\ node["backend"][p] \in Inode
    BY <1>3, <1>5, <1>6, NodeFacts
  <2>2. PICK r : r = [s EXCEPT !.pc = "parents", !.from = node["backend"][p]]
    OBVIOUS
  <2>3. /\ r \in Local /\ r.pc = "parents" /\ r.from = node["backend"][p]
        /\ r.method = s.method /\ r.name = s.name /\ r.to = s.to /\ r.dir = s.dir
    BY <1>5, <2>1, <2>2 DEF Local
  <2>4. Fits(x, r) /\ Goes(r, s)
    BY <1>1, <1>2, <1>3, <1>4, <2>1, <2>3 DEF Fits, CopyLabel, Writers, Goes, Reading, Writing
  <2>5. Knows(r)'
    BY <1>1, <1>3, <1>4, <2>3
       DEF Knows, KnowsCopy, KnowsServed, KnowsWritten, KnowsRenamed, CopyLabel
  <2>6. ASSUME Become(x, [proc[x] EXCEPT !.pc = "parents", !.from = node["backend"][p]])
        PROVE  \E e : Outcome(x, e)
    <3>1. proc' = [proc EXCEPT ![x] = r]
      BY <1>2, <2>2, <2>6 DEF Become
    <3> QED BY <1>1, <1>2, <2>4, <2>5, <3>1, CalmOutcome
  <2>7. ~IsDir(node["backend"], p) /\ Exists(node["backend"], p)
    BY <1>5, <2>1, NodeFacts, Constants
  <2>8. CASE Finish(x)
    BY <1>1, <2>8, CalmEnd
  <2> QED BY <1>2, <1>3, <2>6, <2>7, <2>8 DEF Fetch
<1>7. CASE ~IsFile(node["backend"], p)
  <2>1. CASE IsDir(node["backend"], p) /\ x \in Copier
             /\ Become(x, [proc[x] EXCEPT !.pc = "parents", !.dir = TRUE])
    <3>1. p \in Path /\ node["backend"][p] = Directory
      BY <1>4, <1>5, <2>1, NodeFacts
    <3>2. PICK r : r = [s EXCEPT !.pc = "parents", !.dir = TRUE]
      OBVIOUS
    <3>3. /\ r \in Local /\ r.pc = "parents" /\ r.dir = TRUE
          /\ r.method = s.method /\ r.name = s.name /\ r.to = s.to
      BY <1>5, <3>2 DEF Local
    <3>4. Fits(x, r) /\ Goes(r, s)
      BY <1>1, <1>2, <1>3, <1>4, <2>1, <3>1, <3>3
         DEF Fits, CopyLabel, Writers, Goes, Reading, Writing
    <3>5. Knows(r)'
      BY <1>1, <1>3, <3>1, <3>3
         DEF Knows, KnowsCopy, KnowsServed, KnowsWritten, KnowsRenamed, CopyLabel
    <3>6. proc' = [proc EXCEPT ![x] = r]
      BY <1>2, <2>1, <3>2 DEF Become
    <3> QED BY <1>1, <1>2, <3>4, <3>5, <3>6, CalmOutcome
  <2>2. CASE IsDir(node["backend"], p) /\ x \notin Copier /\ Become(x, Serving(x, "backend", p))
    <3>1. Exists(node["backend"], PathOf(x)) /\ proc[x].method # "copy" /\ node' = node
      BY <1>1, <1>2, <1>3, <1>4, <2>2 DEF Exists, IsDir, Absent, Directory
    <3>2. PICK r : /\ r = Serving(x, "backend", PathOf(x))
                   /\ Fits(x, r) /\ Goes(r, proc[x]) /\ Knows(r)'
      BY <1>1, <1>5, <3>1, Serves
    <3>3. proc' = [proc EXCEPT ![x] = r]
      BY <1>3, <2>2, <3>2 DEF Become
    <3> QED BY <1>1, <3>2, <3>3, CalmOutcome
  <2>3. CASE Finish(x)
    BY <1>1, <2>3, CalmEnd
  <2> QED BY <1>3, <1>7, <2>1, <2>2, <2>3 DEF Fetch
<1> QED BY <1>6, <1>7

LEMMA EnsureDirectoryOutcome ==
  ASSUME IInv, NEW x \in Proc, EnsureDirectory(x)
  PROVE  \E r : Outcome(x, r)
<1>1. /\ proc[x].pc = "parents" /\ proc[x].pc \notin HalfWay /\ listings' \in [Key -> Listing]
      /\ UNCHANGED <<node, data, listings, issued, restarts>>
  BY DEF EnsureDirectory, IInv, HalfWay
<1>2. PICK s \in Local : s = proc[x] /\ Fits(x, s)
  BY ProcFacts
<1>3. PICK todo : todo = MissingAbove(PathOf(x))
  OBVIOUS
<1>4. todo \subseteq Path /\ \A d \in todo : IsUnder(s.name.at, d)
  BY <1>2, <1>3 DEF MissingAbove, PathOf
<1>5. PICK label \in {"copyopen", "mkparents"} :
         label = IF todo = {} THEN "copyopen" ELSE "mkparents"
  OBVIOUS
<1>6. PICK r : r = [s EXCEPT !.pc = label, !.todo = todo]
  OBVIOUS
<1>7. /\ r \in Local /\ r.pc = label /\ r.todo = todo /\ r.from = s.from
      /\ r.method = s.method /\ r.name = s.name /\ r.to = s.to /\ r.dir = s.dir
  BY <1>4, <1>6 DEF Local, Label
<1>8. Fits(x, r)
  BY <1>1, <1>2, <1>4, <1>7 DEF Fits, CopyLabel, Writers
<1>9. Goes(r, s)
  BY <1>1, <1>2, <1>7 DEF Goes, Reading, Writing
<1>10. Knows(s) => Knows(r)'
  BY <1>1, <1>2, <1>7
     DEF Knows, KnowsCopy, KnowsServed, KnowsWritten, KnowsRenamed, CopyLabel
<1>11. proc' = [proc EXCEPT ![x] = r]
  BY <1>2, <1>3, <1>5, <1>6 DEF EnsureDirectory, Become
<1>12. Undisturbed(x) => Knows(r)'
  BY <1>2, <1>10 DEF Undisturbed, Settled
<1> QED BY <1>1, <1>2, <1>8, <1>9, <1>11, <1>12, CalmOutcome

LEMMA CopyFails ==
  ASSUME IInv, NEW x \in Proc, proc[x].pc \in CopyLabel, CopyFailed(x),
         node' = node
  PROVE  \E r : /\ proc' = [proc EXCEPT ![x] = r] /\ Fits(x, r) /\ Goes(r, proc[x])
                /\ Knows(proc[x]) => Knows(r)'
                /\ r.pc \in {"idle", "serve"}
<1>1. PICK s \in Local : s = proc[x] /\ Fits(x, s)
  BY ProcFacts
<1>2. CASE x \in Copier
  <2>1. proc' = [proc EXCEPT ![x] = Idle]
    BY <1>2 DEF CopyFailed, Finish, Become
  <2>2. Idle.pc \notin Knowing /\ Goes(Idle, s)
    BY IdleFits DEF Knowing, CopyLabel, Goes, Working, Reading, Writing
  <2> QED BY <1>1, <2>1, <2>2, IdleFits, KnowsOnlyKnowing
<1>3. CASE x \notin Copier
  <2>1. /\ ~s.dir /\ s.name.at \in Path /\ s.from \in Inode
        /\ s.method \in {"GET", "PROPFIND"}
    BY <1>1, <1>3 DEF Fits
  <2>2. PICK r : r = [s EXCEPT !.pc = "serve", !.side = "backend", !.fd = NoInode,
                               !.buf = Empty, !.todo = {}]
    OBVIOUS
  <2>3. /\ r \in Local /\ r.pc = "serve" /\ r.side = "backend" /\ r.from = s.from
        /\ r.method = s.method /\ r.name = s.name /\ r.to = s.to /\ r.dir = s.dir
    BY <2>2, Constants DEF Local, Label, Side, NoInode
  <2>4. Fits(x, r)
    BY <1>1, <1>3, <2>1, <2>3 DEF Fits, CopyLabel, Writers
  <2>5. Goes(r, s)
    BY <1>1, <2>3 DEF Goes, Reading, Writing, CopyLabel
  <2>6. Knows(s) => Knows(r)'
    BY <1>1, <2>1, <2>3
       DEF Knows, KnowsCopy, KnowsServed, KnowsWritten, KnowsRenamed, CopyLabel
  <2>7. proc' = [proc EXCEPT ![x] = r]
    BY <1>1, <1>3, <2>2 DEF CopyFailed, Become
  <2> QED BY <1>1, <2>3, <2>4, <2>5, <2>6, <2>7
<1> QED BY <1>2, <1>3

LEMMA CreateCopyFailsOutcome ==
  ASSUME IInv, NEW x \in Proc, CreateCopyFails(x)
  PROVE  \E r : Outcome(x, r)
<1>1. /\ proc[x].pc = "copyopen" /\ CopyFailed(x)
      /\ UNCHANGED <<node, data, listings, issued, restarts>>
  BY DEF CreateCopyFails
<1>2. /\ proc[x].pc \in CopyLabel /\ proc[x].pc \notin HalfWay /\ listings' \in [Key -> Listing]
  BY <1>1 DEF IInv, CopyLabel, HalfWay
<1>3. PICK r : /\ proc' = [proc EXCEPT ![x] = r] /\ Fits(x, r) /\ Goes(r, proc[x])
               /\ Knows(proc[x]) => Knows(r)'
  BY <1>1, <1>2, CopyFails
<1>4. Undisturbed(x) => Knows(r)'
  BY <1>3 DEF Undisturbed, Settled
<1> QED BY <1>1, <1>2, <1>3, <1>4, CalmOutcome

LEMMA MakeParentOutcome ==
  ASSUME IInv, NEW x \in Proc, MakeParent(x)
  PROVE  \E r : Outcome(x, r)
<1>1. /\ proc[x].pc = "mkparents" /\ proc[x].pc \in CopyLabel /\ proc[x].pc \notin HalfWay
      /\ listings' \in [Key -> Listing] /\ UNCHANGED <<data, listings, issued, restarts>>
  BY DEF MakeParent, IInv, HalfWay, CopyLabel
<1>2. PICK s \in Local : s = proc[x] /\ Fits(x, s)
  BY ProcFacts
<1>3. PICK d, rest :
         /\ d \in s.todo /\ rest = s.todo \ {d}
         /\ \/ /\ CanMake(node["cache"], d)
               /\ node' = [node EXCEPT !["cache"][d] = Directory]
               /\ Become(x, [s EXCEPT !.pc = IF rest = {} THEN "copyopen" ELSE "mkparents",
                                      !.todo = rest])
            \/ /\ UNCHANGED node
               /\ Become(x, [s EXCEPT !.pc = IF rest = {} THEN "copyopen" ELSE "mkparents",
                                      !.todo = rest])
            \/ CopyFailed(x) /\ UNCHANGED node
  BY <1>2 DEF MakeParent
<1>4. d \in Path /\ IsUnder(s.name.at, d) /\ rest \subseteq Path /\ s.name.at \in Path
  BY <1>1, <1>2, <1>3 DEF Fits, Local
<1>5. PICK label \in {"copyopen", "mkparents"} :
         label = IF rest = {} THEN "copyopen" ELSE "mkparents"
  OBVIOUS
<1>6. PICK r : r = [s EXCEPT !.pc = label, !.todo = rest]
  OBVIOUS
<1>7. /\ r \in Local /\ r.pc = label /\ r.todo = rest /\ r.from = s.from
      /\ r.method = s.method /\ r.name = s.name /\ r.to = s.to /\ r.dir = s.dir
  BY <1>4, <1>6 DEF Local, Label
<1>8. Fits(x, r)
  BY <1>1, <1>2, <1>3, <1>4, <1>7 DEF Fits, CopyLabel, Writers
<1>9. Goes(r, s)
  BY <1>1, <1>2, <1>7 DEF Goes, Reading, Writing
<1>10. Knows(s) /\ node'["backend"] = node["backend"] => Knows(r)'
  BY <1>1, <1>2, <1>7
     DEF Knows, KnowsCopy, KnowsServed, KnowsWritten, KnowsRenamed, CopyLabel
<1>11. CASE /\ CanMake(node["cache"], d)
            /\ node' = [node EXCEPT !["cache"][d] = Directory]
            /\ Become(x, [s EXCEPT !.pc = label, !.todo = rest])
  <2>1. "cache" \in Side /\ "backend" \in Side /\ "cache" # "backend"
    BY DEF Side
  <2>2. /\ Named(node') /\ node'["cache"][d] = Directory /\ node["cache"][d] = Absent
        /\ \A q \in Path \ {d} : node'["cache"][q] = node["cache"][q]
        /\ node'["backend"] = node["backend"]
    BY <1>4, <1>11, <2>1, MakesDirectory
  <2>3. \A q \in Path : BackendKept(q) /\ (q # d => CacheKept(q))
    BY <1>1, <2>2 DEF BackendKept, CacheKept
  <2>4. Advances(x, r) /\ Goes(r, proc[x])
    BY <1>1, <1>2, <1>6, <1>8, <1>9, <1>11, <2>2 DEF Advances, Become, IInv
  <2>5. Frame(proc[x])
    BY <1>1, <1>2, <1>4, <2>2, <2>3 DEF Frame
  <2>6. ASSUME Settled
        PROVE  Knows(r)' /\ Meets(proc[x], r)
    <3>1. Knows(s)
      BY <1>2, <2>6 DEF Settled
    <3>2. node["backend"][s.name.at] # Absent
      BY <1>1, <1>2, <3>1, Constants DEF Knows, KnowsCopy, Fits
    <3>3. node["backend"][d] = Directory
      BY <1>4, <2>1, <3>2, NodeFacts DEF IsTree
    <3>4. Current(d)'
      BY <2>2, <3>3 DEF Current, Like
    <3>5. Meets(proc[x], r)
      BY <1>1, <2>3, <3>4, OwesOnlyHalfWay DEF Meets, Kept
    <3> QED BY <1>10, <2>2, <3>1, <3>5
  <2> QED BY <2>4, <2>5, <2>6 DEF Outcome, Undisturbed
<1>12. CASE UNCHANGED node /\ Become(x, [s EXCEPT !.pc = label, !.todo = rest])
  <2>1. proc' = [proc EXCEPT ![x] = r]
    BY <1>6, <1>12 DEF Become
  <2>2. Undisturbed(x) => Knows(r)'
    BY <1>2, <1>10, <1>12 DEF Undisturbed, Settled
  <2> QED BY <1>1, <1>2, <1>8, <1>9, <1>12, <2>1, <2>2, CalmOutcome
<1>13. CASE CopyFailed(x) /\ UNCHANGED node
  <2>1. PICK e : /\ proc' = [proc EXCEPT ![x] = e] /\ Fits(x, e) /\ Goes(e, proc[x])
                 /\ Knows(proc[x]) => Knows(e)'
    BY <1>1, <1>13, CopyFails
  <2>2. Undisturbed(x) => Knows(e)'
    BY <2>1 DEF Undisturbed, Settled
  <2> QED BY <1>1, <1>13, <2>1, <2>2, CalmOutcome
<1> QED BY <1>3, <1>5, <1>11, <1>12, <1>13

LEMMA CreateCopyOutcome ==
  ASSUME IInv, NEW x \in Proc, CreateCopy(x)
  PROVE  \E r : Outcome(x, r)
<1>1. /\ proc[x].pc = "copyopen" /\ proc[x].pc \notin HalfWay /\ listings' \in [Key -> Listing]
      /\ UNCHANGED <<listings, issued, restarts>>
  BY DEF CreateCopy, IInv, HalfWay
<1>2. PICK s \in Local : s = proc[x] /\ Fits(x, s)
  BY ProcFacts
<1>3. PICK p \in Path : p = s.name.at /\ p = PathOf(x)
  BY <1>1, <1>2 DEF Fits, CopyLabel, PathOf
<1>4. "cache" \in Side /\ "backend" \in Side /\ "cache" # "backend"
  BY DEF Side
<1>5. PICK i \in Inode :
        /\ Named(node') /\ Stored(data') /\ i = Opened("cache", p)
        /\ node'["cache"][p] = i
        /\ node["cache"][p] \in Inode => node'["cache"][p] = node["cache"][p]
        /\ \A q \in Path \ {p} : node'["cache"][q] = node["cache"][q]
        /\ \A q \in Path : node["cache"][q] = i => q = p
        /\ \A j \in Inode : j # i => data'["cache"][j] = data["cache"][j]
        /\ node'["backend"] = node["backend"] /\ data'["backend"] = data["backend"]
  BY <1>3, <1>4, Opens DEF CreateCopy
<1>6. PICK r : r = [s EXCEPT !.pc = "copyread", !.fd = i]
  OBVIOUS
<1>7. /\ r \in Local /\ r.pc = "copyread" /\ r.fd = i /\ r.from = s.from
      /\ r.method = s.method /\ r.name = s.name /\ r.to = s.to /\ r.dir = s.dir
  BY <1>6 DEF Local, Label
<1>8. Fits(x, r)
  BY <1>1, <1>2, <1>7 DEF Fits, CopyLabel, Writers
<1>9. Goes(r, s)
  BY <1>1, <1>2, <1>7 DEF Goes, Reading, Writing
<1>10. proc' = [proc EXCEPT ![x] = r]
  BY <1>2, <1>3, <1>5, <1>6 DEF CreateCopy, Become
<1>11. \A q \in Path : BackendKept(q) /\ (q # p => CacheKept(q))
  BY <1>5 DEF BackendKept, CacheKept
<1>12. Frame(s)
  BY <1>1, <1>2, <1>3, <1>5, <1>11 DEF Frame
<1>13. Meets(s, r)
  BY <1>1, <1>2, <1>3, <1>7, <1>11, OwesOnlyHalfWay DEF Meets, Kept, Owes
<1>14. ASSUME Settled PROVE Knows(r)'
  <2>1. KnowsCopy(s)
    BY <1>2, <1>14 DEF Settled, Knows
  <2>2. /\ r.dir => node["backend"][p] = Directory
        /\ ~r.dir => node["backend"][p] = r.from
    BY <1>1, <1>2, <1>3, <1>7, <2>1 DEF KnowsCopy, CopyLabel
  <2>3. KnowsCopy(r)'
    BY <1>3, <1>5, <1>7, <2>2 DEF KnowsCopy
  <2>4. KnowsServed(r)' /\ KnowsWritten(r)' /\ KnowsRenamed(r)'
    BY <1>7 DEF KnowsServed, KnowsWritten, KnowsRenamed
  <2> QED BY <2>3, <2>4 DEF Knows
<1> QED BY <1>1, <1>2, <1>5, <1>8, <1>9, <1>10, <1>12, <1>13, <1>14
        DEF Outcome, Advances, Undisturbed

LEMMA ReadForCopyOutcome ==
  ASSUME IInv, NEW x \in Proc, ReadForCopy(x)
  PROVE  \E r : Outcome(x, r)
<1>1. /\ proc[x].pc = "copyread" /\ ~proc[x].dir /\ listings' \in [Key -> Listing]
      /\ UNCHANGED <<node, data, listings, issued, restarts>>
  BY DEF ReadForCopy, IInv
<1>2. PICK s \in Local : s = proc[x] /\ Fits(x, s)
  BY ProcFacts
<1>3. s.from \in Inode /\ data["backend"][s.from] \in Content
  BY <1>1, <1>2 DEF Fits, CopyLabel, IInv, Stored, Side
<1>4. PICK r : r = [s EXCEPT !.pc = "copywrite", !.buf = data["backend"][s.from]]
  OBVIOUS
<1>5. /\ r \in Local /\ r.pc = "copywrite" /\ r.fd = s.fd /\ r.from = s.from
      /\ r.buf = data["backend"][s.from]
      /\ r.method = s.method /\ r.name = s.name /\ r.to = s.to /\ r.dir = s.dir
  BY <1>3, <1>4 DEF Local, Label
<1>6. Fits(x, r)
  BY <1>1, <1>2, <1>5 DEF Fits, CopyLabel, Writers
<1>7. Goes(r, s)
  BY <1>1, <1>2, <1>5 DEF Goes, Reading, Writing
<1>8. proc' = [proc EXCEPT ![x] = r]
  BY <1>2, <1>4 DEF ReadForCopy, Become
<1>9. Named(node') /\ Stored(data') /\ \A q \in Path : Kept(q)
  BY <1>1, Unmoved
<1>10. Frame(s)
  BY <1>9 DEF Frame, Kept
<1>11. Meets(s, r)
  BY <1>1, <1>2, <1>5, <1>9 DEF Meets, Owes
<1>12. ASSUME Settled PROVE Knows(r)'
  <2>1. Knows(s)
    BY <1>2, <1>12 DEF Settled
  <2> QED BY <1>1, <1>2, <1>5, <2>1
          DEF Knows, KnowsCopy, KnowsServed, KnowsWritten, KnowsRenamed, CopyLabel
<1> QED BY <1>1, <1>2, <1>6, <1>7, <1>8, <1>9, <1>10, <1>11, <1>12
        DEF Outcome, Advances, Undisturbed

(* A call that has failed to write to the file it copies to.               *)
LEMMA CopiesInPart ==
  ASSUME IInv, NEW x \in Proc, proc[x].pc \in {"copyread", "copywrite"}, NEW c \in Content,
         \E d \in WrittenInPart("cache", proc[x].fd, c) : data' = Scrubbed(d, node, proc')
  PROVE  /\ Stored(data')
         /\ \A q \in Path :
               /\ node["backend"][q] \in Inode =>
                     data'["backend"][node["backend"][q]] = data["backend"][node["backend"][q]]
               /\ node["cache"][q] \in Inode /\ node["cache"][q] # proc[x].fd =>
                     data'["cache"][node["cache"][q]] = data["cache"][node["cache"][q]]
<1>1. proc[x].fd \in Inode
  BY ProcFacts DEF Fits
<1>2. "cache" \in Side /\ "backend" \in Side /\ "cache" # "backend"
  BY DEF Side
<1>p. PICK ps : ps = proc'
  OBVIOUS
<1>3. PICK d \in WrittenInPart("cache", proc[x].fd, c) : data' = Scrubbed(d, node, ps)
  BY <1>p
<1>4. /\ Stored(d) /\ d["backend"] = data["backend"]
      /\ \A j \in Inode \ {proc[x].fd} : d["cache"][j] = data["cache"][j]
  BY <1>1, <1>2, WritesInPart
<1>5. /\ Stored(data')
      /\ \A side \in Side, q \in Path :
            node[side][q] \in Inode => data'[side][node[side][q]] = d[side][node[side][q]]
  BY <1>3, <1>4, Scrubs
<1> QED BY <1>2, <1>4, <1>5

LEMMA ReadForCopyFailsOutcome ==
  ASSUME IInv, NEW x \in Proc, ReadForCopyFails(x)
  PROVE  \E r : Outcome(x, r)
<1>1. /\ proc[x].pc = "copyread" /\ proc[x].pc \in CopyLabel /\ CopyFailed(x)
      /\ listings' \in [Key -> Listing] /\ UNCHANGED <<node, listings, issued, restarts>>
  BY DEF ReadForCopyFails, IInv, CopyLabel
<1>2. PICK r : /\ proc' = [proc EXCEPT ![x] = r] /\ Fits(x, r) /\ Goes(r, proc[x])
               /\ r.pc \in {"idle", "serve"}
  BY <1>1, CopyFails
<1>3. Named(node') /\ Stored(data')
  <2>1. CASE proc[x].dir
    <3>1. data' = Scrubbed(data, node, proc')
      BY <2>1 DEF ReadForCopyFails
    <3> QED BY <1>1, <3>1, Unmoved
  <2>2. CASE ~proc[x].dir
    <3>1. PICK c : c = data["backend"][proc[x].from]
      OBVIOUS
    <3>2. proc[x].from \in Inode
      BY <1>1, <2>2, ProcFacts DEF Fits
    <3>3. c \in Content
      BY <3>1, <3>2 DEF IInv, Stored, Side
    <3>4. \E d \in WrittenInPart("cache", proc[x].fd, c) : data' = Scrubbed(d, node, proc')
      BY <2>2, <3>1 DEF ReadForCopyFails
    <3>5. Stored(data')
      BY <1>1, <3>3, <3>4, CopiesInPart
    <3> QED BY <1>1, <3>5 DEF IInv, Named
  <2> QED BY <2>1, <2>2
<1>4. proc'[x] = r
  BY <1>2 DEF IInv
<1>5. CutShort(x)
  BY <1>1, <1>2, <1>4 DEF CutShort
<1> QED BY <1>1, <1>2, <1>3, <1>5 DEF Outcome, Advances, Undisturbed

(* A copy that has left the backend's bytes in the cache.                  *)
LEMMA Copied ==
  ASSUME IInv, Settled, NEW x \in Proc, proc[x].pc = "copywrite", ~CutShort(x), node' = node,
         NEW p \in Path, p = proc[x].name.at, BackendKept(p)
  PROVE  Current(p)'
<1>1. PICK s \in Local : s = proc[x] /\ Fits(x, s) /\ Knows(s)
  BY ProcFacts DEF Settled
<1>2. /\ s.fd \in Inode /\ ~s.dir /\ s.from \in Inode
      /\ node["backend"][p] = s.from /\ node["cache"][p] = s.fd
      /\ s.buf = data["backend"][s.from]
  BY <1>1 DEF Fits, CopyLabel, Knows, KnowsCopy
<1>3. data'["cache"][s.fd] = s.buf
  BY <1>1 DEF CutShort
<1>4. data'["backend"][s.from] = data["backend"][s.from]
  BY <1>2 DEF BackendKept
<1> QED BY <1>2, <1>3, <1>4 DEF Current, Like

LEMMA WriteCopyOutcome ==
  ASSUME IInv, NEW x \in Proc, WriteCopy(x)
  PROVE  \E r : Outcome(x, r)
<1>1. /\ proc[x].pc = "copywrite" /\ listings' \in [Key -> Listing]
      /\ UNCHANGED <<node, listings, issued, restarts>>
  BY DEF WriteCopy, IInv
<1>2. PICK s \in Local : s = proc[x] /\ Fits(x, s)
  BY ProcFacts
<1>3. PICK p \in Path : p = s.name.at
  BY <1>1, <1>2 DEF Fits, CopyLabel
<1>4. s.fd \in Inode /\ ~s.dir /\ s.buf \in Content
  BY <1>1, <1>2 DEF Fits, Local
<1>5. PICK r : /\ proc' = [proc EXCEPT ![x] = r] /\ Fits(x, r) /\ Goes(r, s)
               /\ r.pc \notin Knowing
  <2>1. CASE x \in Copier
    <3>1. proc' = [proc EXCEPT ![x] = Idle]
      BY <2>1 DEF WriteCopy, Finish, Become
    <3>2. Idle.pc \notin Knowing /\ Goes(Idle, s) /\ Fits(x, Idle)
      BY IdleFits DEF Knowing, CopyLabel, Goes, Working, Reading, Writing
    <3> QED BY <3>1, <3>2
  <2>2. CASE x \notin Copier
    <3>1. PICK e : e = [s EXCEPT !.pc = "reopen", !.buf = Empty, !.from = NoInode, !.fd = NoInode]
      OBVIOUS
    <3>2. /\ e \in Local /\ e.pc = "reopen" /\ e.method = s.method
          /\ e.name = s.name /\ e.to = s.to /\ e.dir = s.dir
      BY <3>1, Constants DEF Local, Label, NoInode
    <3>3. Fits(x, e)
      BY <1>1, <1>2, <1>4, <2>2, <3>2 DEF Fits, CopyLabel, Writers
    <3>4. Goes(e, s) /\ e.pc \notin Knowing
      BY <1>1, <1>2, <3>2 DEF Goes, Reading, Writing, Knowing, CopyLabel
    <3>5. proc' = [proc EXCEPT ![x] = e]
      BY <1>2, <2>2, <3>1 DEF WriteCopy, Become
    <3> QED BY <3>3, <3>4, <3>5
  <2> QED BY <2>1, <2>2
<1>6. PICK d, ps : /\ d = IF s.buf = Empty THEN data ELSE [data EXCEPT !["cache"][s.fd] = s.buf]
                   /\ data' = Scrubbed(d, node, ps)
  <2>1. PICK ps : ps = proc'
    OBVIOUS
  <2>2. data' = Scrubbed(IF s.buf = Empty THEN data ELSE [data EXCEPT !["cache"][s.fd] = s.buf],
                         node, ps)
    BY <1>2, <2>1 DEF WriteCopy
  <2> QED BY <2>2
<1>7. "cache" \in Side /\ "backend" \in Side /\ "cache" # "backend"
  BY DEF Side
<1>8. /\ Stored(d) /\ d["backend"] = data["backend"]
      /\ \A j \in Inode : j # s.fd => d["cache"][j] = data["cache"][j]
  <2>1. data \in [Side -> [Inode -> Content]]
    BY DEF IInv, Stored
  <2>2. CASE s.buf = Empty
    BY <1>6, <2>1, <2>2 DEF Stored
  <2>3. CASE s.buf # Empty
    <3>1. d = [data EXCEPT !["cache"][s.fd] = s.buf]
      BY <1>6, <2>3
    <3>2. /\ d \in [Side -> [Inode -> Content]]
          /\ \A j \in Inode \ {s.fd} : d["cache"][j] = data["cache"][j]
          /\ \A other \in Side \ {"cache"} : d[other] = data[other]
      BY <1>4, <1>7, <2>1, <3>1, Changed
    <3> QED BY <1>7, <3>2 DEF Stored
  <2> QED BY <2>2, <2>3
<1>9. /\ Stored(data')
      /\ \A side \in Side, q \in Path :
            node[side][q] \in Inode => data'[side][node[side][q]] = d[side][node[side][q]]
  <2>1. data' = Scrubbed(d, node, ps) /\ Stored(d)
    BY <1>6, <1>8
  <2> QED BY <2>1, Scrubs
<1>10. Advances(x, r) /\ Goes(r, s)
  BY <1>1, <1>5, <1>9 DEF Advances, IInv
<1>11. ASSUME Undisturbed(x)
       PROVE  Frame(s) /\ Knows(r)' /\ Meets(s, r)
  <2>1. node["cache"][p] = s.fd
    BY <1>1, <1>2, <1>3, <1>11 DEF Undisturbed, Settled, Knows, KnowsCopy
  <2>2. \A q \in Path : q # p => node["cache"][q] # s.fd
    <3>1. s.fd > 0
      BY <1>4, Constants
    <3> QED BY <1>7, <2>1, <3>1, NodeFacts DEF IsTree
  <2>3. \A q \in Path : BackendKept(q)
    BY <1>1, <1>7, <1>8, <1>9 DEF BackendKept
  <2>4. \A q \in Path : q # p => CacheKept(q)
    BY <1>1, <1>7, <1>8, <1>9, <2>2 DEF CacheKept
  <2>5. Current(p)'
    BY <1>1, <1>2, <1>3, <1>11, <2>3, Copied DEF Undisturbed
  <2>6. Frame(s)
    BY <1>1, <1>2, <1>3, <2>3, <2>4 DEF Frame
  <2>7. Meets(s, r)
    BY <1>1, <1>2, <1>3, <2>3, <2>4, <2>5 DEF Meets, Kept, Owes
  <2> QED BY <1>5, <2>6, <2>7, KnowsOnlyKnowing
<1> QED BY <1>2, <1>10, <1>11 DEF Outcome

LEMMA WriteCopyFailsOutcome ==
  ASSUME IInv, NEW x \in Proc, WriteCopyFails(x)
  PROVE  \E r : Outcome(x, r)
<1>1. /\ proc[x].pc = "copywrite" /\ proc[x].pc \in CopyLabel /\ CopyFailed(x)
      /\ listings' \in [Key -> Listing] /\ UNCHANGED <<node, listings, issued, restarts>>
  BY DEF WriteCopyFails, IInv, CopyLabel
<1>2. PICK s \in Local : s = proc[x] /\ Fits(x, s)
  BY ProcFacts
<1>3. PICK p \in Path : p = s.name.at
  BY <1>1, <1>2 DEF Fits, CopyLabel
<1>4. s.fd \in Inode /\ s.buf \in Content /\ "cache" \in Side
  BY <1>1, <1>2 DEF Fits, Local, Side
<1>5. PICK r : /\ proc' = [proc EXCEPT ![x] = r] /\ Fits(x, r) /\ Goes(r, s)
               /\ Knows(s) => Knows(r)'
  BY <1>1, <1>2, CopyFails
<1>6. /\ Stored(data')
      /\ \A q \in Path :
            /\ node["backend"][q] \in Inode =>
                  data'["backend"][node["backend"][q]] = data["backend"][node["backend"][q]]
            /\ node["cache"][q] \in Inode /\ node["cache"][q] # s.fd =>
                  data'["cache"][node["cache"][q]] = data["cache"][node["cache"][q]]
  <2>1. \E d \in WrittenInPart("cache", proc[x].fd, s.buf) : data' = Scrubbed(d, node, proc')
    BY <1>2 DEF WriteCopyFails
  <2> QED BY <1>1, <1>2, <1>4, <2>1, CopiesInPart
<1>7. Advances(x, r)
  BY <1>1, <1>5, <1>6 DEF Advances, IInv, Named
<1>8. ASSUME Undisturbed(x)
      PROVE  Frame(s) /\ Knows(r)' /\ Meets(s, r)
  <2>1. Knows(s)
    BY <1>2, <1>8 DEF Undisturbed, Settled
  <2>2. node["cache"][p] = s.fd
    BY <1>1, <1>2, <1>3, <2>1 DEF Knows, KnowsCopy
  <2>3. \A q \in Path : q # p => node["cache"][q] # s.fd
    <3>1. s.fd > 0
      BY <1>4, Constants
    <3> QED BY <1>4, <2>2, <3>1, NodeFacts DEF IsTree
  <2>4. \A q \in Path : BackendKept(q) /\ (q # p => CacheKept(q))
    BY <1>1, <1>6, <2>3 DEF BackendKept, CacheKept
  <2>5. Current(p)'
    BY <1>1, <1>2, <1>3, <1>8, <2>4, Copied DEF Undisturbed
  <2>6. Frame(s)
    BY <1>1, <1>2, <1>3, <2>4 DEF Frame
  <2>7. Meets(s, r)
    BY <1>1, <1>2, <1>3, <2>4, <2>5 DEF Meets, Kept, Owes
  <2> QED BY <1>5, <2>1, <2>6, <2>7
<1> QED BY <1>2, <1>5, <1>7, <1>8 DEF Outcome

LEMMA ReopenOutcome ==
  ASSUME IInv, NEW x \in Proc, Reopen(x)
  PROVE  \E r : Outcome(x, r)
<1>1. /\ proc[x].pc = "reopen" /\ proc[x].pc \notin HalfWay /\ listings' \in [Key -> Listing]
      /\ UNCHANGED <<node, data, listings, issued, restarts>>
  BY DEF Reopen, IInv, HalfWay
<1>2. proc[x].method # "copy"
  BY <1>1, ProcFacts DEF Fits, CopyLabel
<1>3. ASSUME NEW side \in Side, Exists(node[side], PathOf(x)),
             Become(x, Serving(x, side, PathOf(x)))
      PROVE  \E r : Outcome(x, r)
  <2>1. PICK r : /\ r = Serving(x, side, PathOf(x))
                 /\ Fits(x, r) /\ Goes(r, proc[x]) /\ Knows(r)'
    BY <1>1, <1>2, <1>3, Serves
  <2>2. proc' = [proc EXCEPT ![x] = r]
    BY <1>3, <2>1 DEF Become
  <2> QED BY <1>1, <2>1, <2>2, CalmOutcome
<1>4. CASE Finish(x)
  BY <1>1, <1>4, CalmEnd
<1>5. "cache" \in Side /\ "backend" \in Side
  BY DEF Side
<1> QED BY <1>3, <1>4, <1>5 DEF Reopen

-----------------------------------------------------------------------------
(* Serving                                                                 *)
-----------------------------------------------------------------------------
LEMMA ServeOutcome ==
  ASSUME IInv, NEW x \in Proc, ServeFile(x) \/ ServeKnownListing(x) \/ StoreListing(x)
  PROVE  \E r : Outcome(x, r)
<1>1. CASE ServeFile(x) \/ ServeKnownListing(x)
  <2>1. /\ proc[x].pc \notin HalfWay /\ listings' \in [Key -> Listing] /\ Finish(x)
        /\ UNCHANGED <<node, listings, issued, restarts>>
        /\ data' = data \/ data' = Scrubbed(data, node, proc')
    BY <1>1 DEF ServeFile, ServeKnownListing, IInv, HalfWay
  <2> QED BY <2>1, CalmEnd
<1>2. CASE StoreListing(x)
  <2>1. PICK s \in Local : s = proc[x]
    BY ProcFacts
  <2>2. [known |-> TRUE, names |-> s.names] \in Listing
    BY DEF Local, Listing
  <2>3. listings' = [listings EXCEPT ![s.name] = [known |-> TRUE, names |-> s.names]]
    BY <1>2, <2>1 DEF StoreListing
  <2>4. listings' \in [Key -> Listing]
    BY <2>2, <2>3 DEF IInv
  <2>5. proc[x].pc \notin HalfWay /\ Finish(x) /\ UNCHANGED <<node, data, issued, restarts>>
    BY <1>2 DEF StoreListing, HalfWay
  <2> QED BY <2>4, <2>5, CalmEnd
<1> QED BY <1>1, <1>2

LEMMA ReadListingOutcome ==
  ASSUME IInv, NEW x \in Proc, ReadListing(x)
  PROVE  \E r : Outcome(x, r)
<1>1. /\ proc[x].pc = "serve" /\ proc[x].pc \notin HalfWay /\ listings' \in [Key -> Listing]
      /\ UNCHANGED <<node, data, listings, issued, restarts>>
  BY DEF ReadListing, IInv, HalfWay
<1>2. PICK s \in Local : s = proc[x] /\ Fits(x, s)
  BY ProcFacts
<1>3. PICK names : names = Names(node[s.side], PathOf(x))
  OBVIOUS
<1>4. names \subseteq Component
  <2>1. \A p \in Path : p[Len(p)] \in Component
    <3>1. \A p \in Path : p \in Place /\ Len(p) \in 1 .. Len(p)
      BY PathsArePlaces
    <3> QED BY <3>1, ElementOfSeq DEF Place
  <2> QED BY <1>3, <2>1 DEF Names, Children
<1>5. PICK r : r = [s EXCEPT !.pc = "store", !.names = names]
  OBVIOUS
<1>6. /\ r \in Local /\ r.pc = "store" /\ r.method = s.method
      /\ r.name = s.name /\ r.to = s.to /\ r.dir = s.dir
  BY <1>4, <1>5 DEF Local, Label
<1>7. Fits(x, r)
  BY <1>1, <1>2, <1>6 DEF Fits, CopyLabel, Writers
<1>8. Goes(r, s) /\ r.pc \notin Knowing
  BY <1>6 DEF Goes, Working, Reading, Writing, Knowing, CopyLabel
<1>9. proc' = [proc EXCEPT ![x] = r]
  BY <1>2, <1>3, <1>5 DEF ReadListing, Become
<1> QED BY <1>1, <1>2, <1>7, <1>8, <1>9, CalmOutcome, KnowsOnlyKnowing

-----------------------------------------------------------------------------
(* Who works where                                                         *)
-----------------------------------------------------------------------------
LEMMA Places ==
  ASSUME IInv, NEW x \in Proc
  PROVE  /\ PathsOf(x) = PlacesOf(proc[x]) /\ PlacesOf(proc[x]) \subseteq Path \cup {Root}
         /\ PlacesOf(proc[x]) \subseteq Place
         /\ proc[x].name.at \in PlacesOf(proc[x]) /\ SubjectOf(proc[x]).at \in PlacesOf(proc[x])
         /\ proc[x].method = "MOVE" => proc[x].to.at \in PlacesOf(proc[x])
         /\ Subject(x) = SubjectOf(proc[x])
<1>1. proc[x].name.at \in Path \cup {Root} /\ proc[x].to.at \in Path \cup {Root}
  BY ProcFacts DEF Local, Key
<1> QED BY <1>1, PathsArePlaces DEF PathsOf, PlacesOf, SubjectOf, Subject

LEMMA SharedIsRelated ==
  ASSUME IInv, NEW x \in Proc, NEW y \in Proc, NEW q \in Path,
         Ours(proc[x], q), Ours(proc[y], q)
  PROVE  \E a \in PlacesOf(proc[x]), b \in PlacesOf(proc[y]) : RelatedPaths(a, b)
<1>1. PICK a \in PlacesOf(proc[x]) : AtOrUnder(q, a)
  BY DEF Ours
<1>2. PICK b \in PlacesOf(proc[y]) : AtOrUnder(q, b)
  BY DEF Ours
<1>3. a \in Place /\ b \in Place /\ q \in Place
  BY Places, PathsArePlaces
<1>4. RelatedPaths(a, b)
  BY <1>1, <1>2, <1>3, UnderOrder DEF AtOrUnder, RelatedPaths
<1> QED BY <1>4

LEMMA NoRace ==
  ASSUME IInv, NEW x \in Proc, ~Race(x), NEW y \in Proc \ {x},
         \/ WritesAs(proc[x]) /\ proc[y].pc \in Working
         \/ proc[x].pc \in Reading \cup {"stat", "statbackend", "open", "fetch"}
            /\ proc[y].pc \in Writing
  PROVE  \A a \in PlacesOf(proc[x]), b \in PlacesOf(proc[y]) : ~RelatedPaths(a, b)
<1>1. ~Related(x, y)
  BY DEF Race, WritesAs, Writes, Reads
<1> QED BY <1>1, Places DEF Related

LEMMA OwesWorks ==
  ASSUME IInv, NEW x \in Proc, NEW p \in Path, Owes(proc[x], p)
  PROVE  proc[x].pc \in Working /\ Ours(proc[x], p)
<1>1. proc[x].pc \in Working
  BY DEF Owes, Working, Reading, Writing
<1>2. proc[x].pc = "renamecache" => proc[x].method = "MOVE"
  BY ProcFacts DEF Fits
<1> QED BY <1>1, <1>2, Places DEF Owes, Ours, AtOrUnder

(* Whoever starts to write finds the cache current there.                  *)
LEMMA NobodyOwes ==
  ASSUME IInv, NEW x \in Proc, Undisturbed(x), WritesAs(proc[x]), proc[x].pc \notin HalfWay,
         NEW p \in Path, Ours(proc[x], p)
  PROVE  Current(p)
<1> SUFFICES ASSUME NEW y \in Proc, Owes(proc[y], p) PROVE FALSE
  BY DEF Undisturbed, Settled
<1>1. y # x
  BY OwesOnlyHalfWay
<1>2. proc[y].pc \in Working /\ Ours(proc[y], p)
  BY OwesWorks
<1>3. \A a \in PlacesOf(proc[x]), b \in PlacesOf(proc[y]) : ~RelatedPaths(a, b)
  BY <1>1, <1>2, NoRace DEF Undisturbed
<1> QED BY <1>2, <1>3, SharedIsRelated

-----------------------------------------------------------------------------
(* PUT                                                                     *)
-----------------------------------------------------------------------------
LEMMA Puts ==
  ASSUME IInv, NEW x \in Proc, proc[x].pc \in {"create", "createcache", "write", "writecache"}
  PROVE  /\ proc[x].method = "PUT" /\ proc[x].name.at \in Path /\ x \notin Copier
         /\ WritesAs(proc[x]) /\ PathOf(x) = proc[x].name.at /\ proc[x].buf \in Content
         /\ Ours(proc[x], proc[x].name.at)
<1>1. PICK s \in Local : s = proc[x] /\ Fits(x, s)
  BY ProcFacts
<1>2. s.method = "PUT" /\ s.name.at \in Path /\ x \notin Copier
  BY <1>1 DEF Fits, Writers, CopyLabel
<1> QED BY <1>1, <1>2 DEF WritesAs, Writing, PathOf, Ours, PlacesOf, AtOrUnder, Local

LEMMA CreateOnBackendOutcome ==
  ASSUME IInv, NEW x \in Proc, CreateOnBackend(x)
  PROVE  \E r : Outcome(x, r)
<1>1. /\ proc[x].pc = "create" /\ proc[x].pc \notin HalfWay /\ listings' \in [Key -> Listing]
      /\ UNCHANGED <<listings, issued, restarts>>
  BY DEF CreateOnBackend, IInv, HalfWay
<1>2. PICK s \in Local : s = proc[x] /\ Fits(x, s)
  BY ProcFacts
<1>3. PICK p \in Path : /\ p = s.name.at /\ p = PathOf(x) /\ s.method = "PUT" /\ x \notin Copier
                        /\ WritesAs(s) /\ Ours(s, p)
  BY <1>1, <1>2, Puts
<1>4. "cache" \in Side /\ "backend" \in Side /\ "cache" # "backend"
  BY DEF Side
<1>5. PICK i \in Inode :
        /\ Named(node') /\ Stored(data') /\ i = Opened("backend", p)
        /\ node'["backend"][p] = i
        /\ node["backend"][p] \in Inode \/ CanMake(node["backend"], p)
        /\ \A q \in Path \ {p} : node'["backend"][q] = node["backend"][q]
        /\ \A q \in Path : node["backend"][q] = i => q = p
        /\ data'["backend"][i] = Empty
        /\ \A j \in Inode : j # i => data'["backend"][j] = data["backend"][j]
        /\ node'["cache"] = node["cache"] /\ data'["cache"] = data["cache"]
  BY <1>3, <1>4, Opens DEF CreateOnBackend
<1>6. PICK r : r = [s EXCEPT !.pc = "createcache", !.from = i]
  OBVIOUS
<1>7. /\ r \in Local /\ r.pc = "createcache" /\ r.from = i
      /\ r.method = s.method /\ r.name = s.name /\ r.to = s.to /\ r.dir = s.dir
  BY <1>6 DEF Local, Label
<1>8. Fits(x, r)
  BY <1>1, <1>2, <1>3, <1>7 DEF Fits, CopyLabel, Writers
<1>9. Goes(r, s)
  BY <1>1, <1>2, <1>7 DEF Goes, Reading, Writing
<1>10. proc' = [proc EXCEPT ![x] = r]
  BY <1>2, <1>3, <1>5, <1>6 DEF CreateOnBackend, Become
<1>11. \A q \in Path : CacheKept(q) /\ (q # p => BackendKept(q))
  BY <1>5 DEF BackendKept, CacheKept
<1>12. Frame(s)
  BY <1>3, <1>11 DEF Frame
<1>13. Meets(s, r)
  BY <1>1, <1>2, <1>3, <1>7, <1>11, OwesOnlyHalfWay DEF Meets, Kept, Owes
<1>14. ASSUME Undisturbed(x) PROVE Knows(r)'
  <2>1. Current(p)
    BY <1>1, <1>2, <1>3, <1>14, NobodyOwes
  <2>2. node["cache"][p] # Directory
    BY <1>5, <2>1, Constants DEF Current, Like, CanMake
  <2> QED BY <1>3, <1>5, <1>7, <2>2
          DEF Knows, KnowsCopy, KnowsServed, KnowsWritten, KnowsRenamed, CopyLabel
<1> QED BY <1>1, <1>2, <1>5, <1>8, <1>9, <1>10, <1>12, <1>13, <1>14 DEF Outcome, Advances

LEMMA CreateInCacheOutcome ==
  ASSUME IInv, NEW x \in Proc, CreateInCache(x)
  PROVE  \E r : Outcome(x, r)
<1>1. /\ proc[x].pc = "createcache" /\ listings' \in [Key -> Listing]
      /\ UNCHANGED <<listings, issued, restarts>>
  BY DEF CreateInCache, IInv
<1>2. PICK s \in Local : s = proc[x] /\ Fits(x, s)
  BY ProcFacts
<1>3. PICK p \in Path : /\ p = s.name.at /\ p = PathOf(x) /\ s.method = "PUT" /\ x \notin Copier
                        /\ WritesAs(s) /\ Ours(s, p)
  BY <1>1, <1>2, Puts
<1>4. "cache" \in Side /\ "backend" \in Side /\ "cache" # "backend"
  BY DEF Side
<1>5. PICK i \in Inode :
        /\ Named(node') /\ Stored(data') /\ i = Opened("cache", p)
        /\ node'["cache"][p] = i
        /\ \A q \in Path \ {p} : node'["cache"][q] = node["cache"][q]
        /\ \A q \in Path : node["cache"][q] = i => q = p
        /\ data'["cache"][i] = Empty
        /\ \A j \in Inode : j # i => data'["cache"][j] = data["cache"][j]
        /\ node'["backend"] = node["backend"] /\ data'["backend"] = data["backend"]
  BY <1>3, <1>4, Opens DEF CreateInCache
<1>6. PICK r : r = [s EXCEPT !.pc = "write", !.fd = i]
  OBVIOUS
<1>7. /\ r \in Local /\ r.pc = "write" /\ r.from = s.from /\ r.fd = i
      /\ r.method = s.method /\ r.name = s.name /\ r.to = s.to /\ r.dir = s.dir
  BY <1>6 DEF Local, Label
<1>8. Fits(x, r) /\ s.from \in Inode
  BY <1>1, <1>2, <1>3, <1>7 DEF Fits, CopyLabel, Writers
<1>9. Goes(r, s)
  BY <1>1, <1>2, <1>7 DEF Goes, Reading, Writing
<1>10. proc' = [proc EXCEPT ![x] = r]
  BY <1>2, <1>3, <1>5, <1>6 DEF CreateInCache, Become
<1>11. \A q \in Path : BackendKept(q) /\ (q # p => CacheKept(q))
  BY <1>5 DEF BackendKept, CacheKept
<1>12. Frame(s)
  BY <1>1, <1>2, <1>3, <1>11 DEF Frame, Writing
<1>13. ASSUME Settled
       PROVE  Knows(r)' /\ Meets(s, r)
  <2>1. node["backend"][p] = s.from /\ data["backend"][s.from] = Empty
    BY <1>1, <1>2, <1>3, <1>13 DEF Settled, Knows, KnowsWritten
  <2>2. Current(p)'
    BY <1>5, <1>8, <2>1 DEF Current, Like
  <2>3. Meets(s, r)
    BY <1>1, <1>2, <1>3, <1>11, <2>2 DEF Meets, Kept, Owes
  <2>4. Knows(r)'
    BY <1>3, <1>5, <1>7, <2>1
       DEF Knows, KnowsCopy, KnowsServed, KnowsWritten, KnowsRenamed, CopyLabel
  <2> QED BY <2>3, <2>4
<1> QED BY <1>1, <1>2, <1>5, <1>8, <1>9, <1>10, <1>12, <1>13 DEF Outcome, Advances, Undisturbed

LEMMA CreateInCacheFailsOutcome ==
  ASSUME IInv, NEW x \in Proc, CreateInCacheFails(x)
  PROVE  \E r : Outcome(x, r)
<1>1. /\ proc[x].pc = "createcache" /\ Finish(x)
      /\ data' = Scrubbed(data, node, proc') /\ listings' \in [Key -> Listing]
      /\ UNCHANGED <<node, listings, issued, restarts>>
  BY DEF CreateInCacheFails, IInv
<1>2. PICK p \in Path : p = proc[x].name.at /\ p = PathOf(x)
  BY <1>1, Puts
<1>3. Named(node') /\ Stored(data') /\ \A q \in Path : Kept(q)
  BY <1>1, Unmoved
<1>4. /\ proc' = [proc EXCEPT ![x] = Idle] /\ Fits(x, Idle) /\ proc'[x] = Idle
  BY <1>1, IdleFits DEF Finish, Become, IInv
<1>5. Idle.pc = "idle" /\ Idle.pc \notin Knowing /\ Goes(Idle, proc[x])
  BY IdleFits DEF Knowing, CopyLabel, Goes, Working, Reading, Writing
<1>6. ASSUME ~Refused(x) PROVE Meets(proc[x], Idle)
  <2>1. ~Exists(node["cache"], p)
    BY <1>1, <1>2, <1>4, <1>5, <1>6 DEF Refused
  <2>2. node["cache"][p] = Absent /\ "cache" \in Side
    BY <2>1, NodeFacts DEF Side
  <2>3. Current(p)'
    BY <1>1, <2>2 DEF Current, Like
  <2> QED BY <1>1, <1>2, <1>3, <2>3 DEF Meets, Owes
<1> QED BY <1>1, <1>3, <1>4, <1>5, <1>6, KnowsOnlyKnowing
        DEF Outcome, Advances, Undisturbed, Frame, Kept

LEMMA WriteBackendOutcome ==
  ASSUME IInv, NEW x \in Proc, WriteBackend(x)
  PROVE  \E r : Outcome(x, r)
<1>1. /\ proc[x].pc = "write" /\ proc[x].pc \notin HalfWay /\ listings' \in [Key -> Listing]
      /\ UNCHANGED <<node, listings, issued, restarts>>
  BY DEF WriteBackend, IInv, HalfWay
<1>2. PICK s \in Local : s = proc[x] /\ Fits(x, s)
  BY ProcFacts
<1>3. PICK p \in Path : /\ p = s.name.at /\ s.method = "PUT" /\ x \notin Copier
                        /\ WritesAs(s) /\ Ours(s, p) /\ s.buf \in Content
  BY <1>1, <1>2, Puts
<1>4. s.from \in Inode /\ s.fd \in Inode
  BY <1>1, <1>2 DEF Fits
<1>5. "cache" \in Side /\ "backend" \in Side /\ "cache" # "backend" /\ "writecache" \in Label
  BY DEF Side, Label
<1>6. PICK r \in Local : /\ r = [s EXCEPT !.pc = "writecache"] /\ r.pc = "writecache"
                         /\ r.from = s.from /\ r.fd = s.fd /\ r.buf = s.buf
                         /\ r.method = s.method /\ r.name = s.name /\ r.to = s.to /\ r.dir = s.dir
  BY <1>5, Relabelled
<1>7. Fits(x, r)
  BY <1>1, <1>2, <1>3, <1>6 DEF Fits, CopyLabel, Writers
<1>8. Goes(r, s)
  BY <1>1, <1>2, <1>6 DEF Goes, Reading, Writing
<1>9. proc' = [proc EXCEPT ![x] = r]
  BY <1>2, <1>6 DEF WriteBackend, Goto, Become
<1>10. /\ Stored(data') /\ data'["backend"][s.from] = s.buf /\ data'["cache"] = data["cache"]
       /\ \A j \in Inode : j # s.from => data'["backend"][j] = data["backend"][j]
  <2>1. data \in [Side -> [Inode -> Content]]
    BY DEF IInv, Stored
  <2>2. data' = [data EXCEPT !["backend"][s.from] = s.buf]
    BY <1>2 DEF WriteBackend
  <2>3. /\ data' \in [Side -> [Inode -> Content]]
        /\ data'["backend"][s.from] = s.buf
        /\ \A j \in Inode \ {s.from} : data'["backend"][j] = data["backend"][j]
        /\ \A other \in Side \ {"backend"} : data'[other] = data[other]
    BY <1>3, <1>4, <1>5, <2>1, <2>2, Changed
  <2>4. data'["cache"] = data["cache"]
    BY <1>5, <2>3
  <2> QED BY <1>5, <2>3, <2>4 DEF Stored
<1>11. Advances(x, r) /\ Goes(r, s)
  BY <1>1, <1>7, <1>8, <1>9, <1>10 DEF Advances, IInv, Named
<1>12. ASSUME Settled
       PROVE  Frame(s) /\ Knows(r)' /\ Meets(s, r)
  <2>1. node["backend"][p] = s.from /\ node["cache"][p] = s.fd
    BY <1>1, <1>2, <1>3, <1>12 DEF Settled, Knows, KnowsWritten
  <2>2. \A q \in Path : q # p => node["backend"][q] # s.from
    <3>1. s.from > 0
      BY <1>4, Constants
    <3> QED BY <1>5, <2>1, <3>1, NodeFacts DEF IsTree
  <2>3. \A q \in Path : CacheKept(q) /\ (q # p => BackendKept(q))
    BY <1>1, <1>10, <2>2 DEF BackendKept, CacheKept
  <2>4. Frame(s)
    BY <1>3, <2>3 DEF Frame
  <2>5. Meets(s, r)
    BY <1>1, <1>2, <1>3, <1>6, <2>3, OwesOnlyHalfWay DEF Meets, Kept, Owes
  <2>6. Knows(r)'
    BY <1>1, <1>3, <1>6, <1>10, <2>1
       DEF Knows, KnowsCopy, KnowsServed, KnowsWritten, KnowsRenamed, CopyLabel
  <2> QED BY <2>4, <2>5, <2>6
<1> QED BY <1>2, <1>11, <1>12 DEF Outcome, Undisturbed

LEMMA ListingsKept ==
  ASSUME IInv
  PROVE  /\ listings \in [Key -> Listing]
         /\ \A k : [listings EXCEPT ![k] = Unlisted] \in [Key -> Listing]
         /\ \A ks : [k \in Key |-> IF k \in ks THEN Unlisted ELSE listings[k]] \in [Key -> Listing]
<1>1. listings \in [Key -> Listing] /\ Unlisted \in Listing
  BY DEF IInv, Unlisted, Listing
<1> QED BY <1>1

LEMMA CreateFailsOutcome ==
  ASSUME IInv, NEW x \in Proc, CreateFails(x)
  PROVE  \E r : Outcome(x, r)
<1>1. /\ proc[x].pc \notin HalfWay /\ listings' \in [Key -> Listing] /\ Finish(x)
      /\ UNCHANGED <<node, data, listings, issued, restarts>>
  BY DEF CreateFails, IInv, HalfWay
<1> QED BY <1>1, CalmEnd

LEMMA WriteFailsOutcome ==
  ASSUME IInv, NEW x \in Proc, WriteFails(x)
  PROVE  \E r : Outcome(x, r)
<1>1. /\ proc[x].pc = "write" /\ proc[x].pc \notin HalfWay /\ listings' \in [Key -> Listing]
      /\ Goto(x, "closing") /\ UNCHANGED <<node, listings, issued, restarts>>
  BY DEF WriteFails, IInv, HalfWay
<1>2. PICK s \in Local : s = proc[x] /\ Fits(x, s)
  BY ProcFacts
<1>3. s.method = "PUT" /\ x \notin Copier /\ s.buf \in Content /\ s.from \in Inode
  BY <1>1, <1>2, Puts DEF Fits
<1>4. "cache" \in Side /\ "backend" \in Side /\ "cache" # "backend" /\ "closing" \in Label
  BY DEF Side, Label
<1>5. PICK r \in Local : /\ r = [s EXCEPT !.pc = "closing"] /\ r.pc = "closing"
                         /\ r.method = s.method /\ r.name = s.name /\ r.to = s.to /\ r.dir = s.dir
  BY <1>4, Relabelled
<1>6. Fits(x, r)
  BY <1>1, <1>2, <1>3, <1>5 DEF Fits, CopyLabel, Writers
<1>7. Goes(r, s) /\ r.pc \notin Knowing
  BY <1>5 DEF Goes, Working, Reading, Writing, Knowing, CopyLabel
<1>8. proc' = [proc EXCEPT ![x] = r]
  BY <1>1, <1>2, <1>5 DEF Goto, Become
<1>9. Stored(data') /\ data'["cache"] = data["cache"]
  <2>1. data' \in WrittenInPart("backend", s.from, s.buf)
    BY <1>2 DEF WriteFails
  <2> QED BY <1>3, <1>4, <2>1, WritesInPart
<1>10. Advances(x, r)
  BY <1>1, <1>6, <1>8, <1>9 DEF Advances, IInv, Named
<1>11. ASSUME ~HalfDone(x) PROVE \A q \in Path : Kept(q)
  <2>1. proc'[x].pc = "closing"
    BY <1>5, <1>8 DEF IInv
  <2>2. data'["backend"] = data["backend"]
    BY <1>1, <1>11, <2>1 DEF HalfDone
  <2> QED BY <1>1, <1>9, <2>2 DEF Kept, BackendKept, CacheKept
<1>12. ASSUME ~HalfDone(x) PROVE Frame(s) /\ Meets(s, r)
  BY <1>1, <1>2, <1>11, <1>12, OwesOnlyHalfWay DEF Frame, Meets, Kept
<1> QED BY <1>2, <1>7, <1>10, <1>12, KnowsOnlyKnowing DEF Outcome, Undisturbed

LEMMA WriteCacheOutcome ==
  ASSUME IInv, NEW x \in Proc, WriteCache(x)
  PROVE  \E r : Outcome(x, r)
<1>1. /\ proc[x].pc = "writecache" /\ listings' \in [Key -> Listing]
      /\ Goto(x, "closing") /\ UNCHANGED <<node, listings, issued, restarts>>
  BY DEF WriteCache, IInv
<1>2. PICK s \in Local : s = proc[x] /\ Fits(x, s)
  BY ProcFacts
<1>3. PICK p \in Path : /\ p = s.name.at /\ s.method = "PUT" /\ x \notin Copier
                        /\ WritesAs(s) /\ Ours(s, p) /\ s.buf \in Content
  BY <1>1, <1>2, Puts
<1>4. s.from \in Inode /\ s.fd \in Inode
  BY <1>1, <1>2 DEF Fits
<1>5. "cache" \in Side /\ "backend" \in Side /\ "cache" # "backend" /\ "closing" \in Label
  BY DEF Side, Label
<1>6. PICK r \in Local : /\ r = [s EXCEPT !.pc = "closing"] /\ r.pc = "closing"
                         /\ r.method = s.method /\ r.name = s.name /\ r.to = s.to /\ r.dir = s.dir
  BY <1>5, Relabelled
<1>7. Fits(x, r)
  BY <1>1, <1>2, <1>3, <1>6 DEF Fits, CopyLabel, Writers
<1>8. Goes(r, s) /\ r.pc \notin Knowing
  BY <1>6 DEF Goes, Working, Reading, Writing, Knowing, CopyLabel
<1>9. proc' = [proc EXCEPT ![x] = r]
  BY <1>1, <1>2, <1>6 DEF Goto, Become
<1>10. /\ Stored(data') /\ data'["backend"] = data["backend"]
       /\ \A j \in Inode : j # s.fd => data'["cache"][j] = data["cache"][j]
  <2>1. data \in [Side -> [Inode -> Content]]
    BY DEF IInv, Stored
  <2>2. data' = [data EXCEPT !["cache"][s.fd] = s.buf] \/ data' \in WrittenInPart("cache", s.fd, s.buf)
    BY <1>2 DEF WriteCache
  <2>3. PICK g : g = [data EXCEPT !["cache"][s.fd] = s.buf]
    OBVIOUS
  <2>4. /\ g \in [Side -> [Inode -> Content]]
        /\ \A j \in Inode \ {s.fd} : g["cache"][j] = data["cache"][j]
        /\ \A other \in Side \ {"cache"} : g[other] = data[other]
    BY <1>3, <1>4, <1>5, <2>1, <2>3, Changed
  <2>5. CASE data' = g
    BY <1>5, <2>1, <2>4, <2>5 DEF Stored
  <2>6. CASE data' \in WrittenInPart("cache", s.fd, s.buf)
    BY <1>3, <1>4, <1>5, <2>6, WritesInPart
  <2> QED BY <2>2, <2>3, <2>5, <2>6
<1>11. Advances(x, r)
  BY <1>1, <1>7, <1>9, <1>10 DEF Advances, IInv, Named
<1>12. ASSUME Settled, ~Refused(x)
       PROVE  Frame(s) /\ Meets(s, r)
  <2>1. /\ node["backend"][p] = s.from /\ node["cache"][p] = s.fd
        /\ data["backend"][s.from] = s.buf
    BY <1>1, <1>2, <1>3, <1>12 DEF Settled, Knows, KnowsWritten
  <2>2. \A q \in Path : q # p => node["cache"][q] # s.fd
    <3>1. s.fd > 0
      BY <1>4, Constants
    <3> QED BY <1>5, <2>1, <3>1, NodeFacts DEF IsTree
  <2>3. \A q \in Path : BackendKept(q) /\ (q # p => CacheKept(q))
    BY <1>1, <1>10, <2>2 DEF BackendKept, CacheKept
  <2>4. Frame(s)
    BY <1>1, <1>2, <1>3, <2>3 DEF Frame, Writing
  <2>5. data'["cache"][s.fd] = s.buf
    BY <1>1, <1>2, <1>12 DEF Refused
  <2>6. Current(p)'
    BY <1>1, <1>4, <1>10, <2>1, <2>5 DEF Current, Like
  <2>7. Meets(s, r)
    BY <1>1, <1>2, <1>3, <2>3, <2>6 DEF Meets, Kept, Owes
  <2> QED BY <2>4, <2>7
<1> QED BY <1>2, <1>8, <1>11, <1>12, KnowsOnlyKnowing DEF Outcome, Undisturbed

LEMMA CloseOutcome ==
  ASSUME IInv, NEW x \in Proc, Close(x)
  PROVE  \E r : Outcome(x, r)
<1>1. /\ proc[x].pc \notin HalfWay /\ listings' \in [Key -> Listing] /\ Finish(x)
      /\ data' = Scrubbed(data, node, proc') /\ UNCHANGED <<node, issued, restarts>>
  BY ListingsKept DEF Close, HalfWay
<1> QED BY <1>1, CalmEnd

-----------------------------------------------------------------------------
(* MKCOL, DELETE and MOVE                                                  *)
-----------------------------------------------------------------------------
LEMMA MkdirFailsOutcome ==
  ASSUME IInv, NEW x \in Proc, MkdirFails(x)
  PROVE  \E r : Outcome(x, r)
<1>1. /\ proc[x].pc \notin HalfWay /\ listings' \in [Key -> Listing] /\ Finish(x)
      /\ UNCHANGED <<node, data, listings, issued, restarts>>
  BY DEF MkdirFails, IInv, HalfWay
<1> QED BY <1>1, CalmEnd

LEMMA RenameFailsOutcome ==
  ASSUME IInv, NEW x \in Proc, RenameFails(x)
  PROVE  \E r : Outcome(x, r)
<1>1. /\ proc[x].pc \notin HalfWay /\ listings' \in [Key -> Listing] /\ Finish(x)
      /\ UNCHANGED <<node, data, listings, issued, restarts>>
  BY DEF RenameFails, IInv, HalfWay
<1> QED BY <1>1, CalmEnd

LEMMA DropRemovedOutcome ==
  ASSUME IInv, NEW x \in Proc, DropRemoved(x)
  PROVE  \E r : Outcome(x, r)
<1>1. /\ proc[x].pc = "dropremoved" /\ proc[x].pc \notin HalfWay /\ listings' \in [Key -> Listing]
      /\ UNCHANGED <<node, data, issued, restarts>>
  BY ListingsKept DEF DropRemoved, HalfWay
<1>2. CASE proc[x].method # "MOVE"
  BY <1>1, <1>2, CalmEnd DEF DropRemoved
<1>3. CASE proc[x].method = "MOVE"
  <2>1. Fits(x, proc[x])
    BY ProcFacts
  <2>2. \A r \in Local : /\ r.pc = "rename" /\ r.method = proc[x].method
                         /\ r.name = proc[x].name /\ r.to = proc[x].to /\ r.dir = proc[x].dir
                         => Fits(x, r)
    BY <1>1, <1>3, <2>1 DEF Fits, CopyLabel, Writers
  <2>3. /\ "rename" \in Label /\ "rename" \notin Knowing
        /\ "rename" \notin Writing /\ "rename" \notin Reading
    BY DEF Label, Knowing, CopyLabel, Writing, Reading
  <2>4. Goto(x, "rename")
    BY <1>3 DEF DropRemoved
  <2> QED BY <1>1, <2>2, <2>3, <2>4, CalmGoto
<1> QED BY <1>2, <1>3

LEMMA DropRenamedOutcome ==
  ASSUME IInv, NEW x \in Proc, DropRenamed(x)
  PROVE  \E r : Outcome(x, r)
<1>1. /\ proc[x].pc \notin HalfWay /\ Finish(x) /\ UNCHANGED <<node, data, issued, restarts>>
  BY DEF DropRenamed, HalfWay
<1>2. listings' \in [Key -> Listing]
  BY ListingsKept DEF DropRenamed
<1> QED BY <1>1, <1>2, CalmEnd

LEMMA MkdirBackendOutcome ==
  ASSUME IInv, NEW x \in Proc, MkdirBackend(x)
  PROVE  \E r : Outcome(x, r)
<1>1. /\ proc[x].pc = "mkdir" /\ proc[x].pc \notin HalfWay /\ listings' \in [Key -> Listing]
      /\ UNCHANGED <<data, listings, issued, restarts>>
  BY DEF MkdirBackend, IInv, HalfWay
<1>2. PICK s \in Local : s = proc[x] /\ Fits(x, s)
  BY ProcFacts
<1>3. s.method = "MKCOL" /\ s.name.at \in Path /\ x \notin Copier
  BY <1>1, <1>2 DEF Fits, Writers, CopyLabel
<1>4. PICK p \in Path : p = s.name.at /\ p = PathOf(x) /\ WritesAs(s) /\ Ours(s, p)
  BY <1>1, <1>2, <1>3 DEF WritesAs, PathOf, Ours, PlacesOf, AtOrUnder
<1>5. "cache" \in Side /\ "backend" \in Side /\ "cache" # "backend" /\ "mkdircache" \in Label
  BY DEF Side, Label
<1>6. PICK r \in Local : /\ r = [s EXCEPT !.pc = "mkdircache"] /\ r.pc = "mkdircache"
                         /\ r.method = s.method /\ r.name = s.name /\ r.to = s.to /\ r.dir = s.dir
  BY <1>5, Relabelled
<1>7. Fits(x, r)
  BY <1>1, <1>2, <1>3, <1>6 DEF Fits, CopyLabel, Writers
<1>8. Goes(r, s)
  BY <1>1, <1>2, <1>6 DEF Goes, Reading, Writing
<1>9. proc' = [proc EXCEPT ![x] = r]
  BY <1>2, <1>6 DEF MkdirBackend, Goto, Become
<1>10. /\ Named(node') /\ node'["backend"][p] = Directory /\ node["backend"][p] = Absent
       /\ \A q \in Path \ {p} : node'["backend"][q] = node["backend"][q]
       /\ node'["cache"] = node["cache"]
  BY <1>4, <1>5, MakesDirectory, ZenonT(60) DEF MkdirBackend
<1>11. Advances(x, r)
  BY <1>1, <1>7, <1>9, <1>10 DEF Advances, IInv, Stored
<1>12. \A q \in Path : CacheKept(q) /\ (q # p => BackendKept(q))
  BY <1>1, <1>10 DEF BackendKept, CacheKept
<1>13. Frame(s)
  BY <1>4, <1>12 DEF Frame
<1>14. Knows(r)'
  BY <1>3, <1>4, <1>6, <1>10
     DEF Knows, KnowsCopy, KnowsServed, KnowsWritten, KnowsRenamed, CopyLabel
<1>15. ASSUME Undisturbed(x) PROVE Meets(s, r)
  <2>1. Current(p)
    BY <1>1, <1>2, <1>4, <1>15, NobodyOwes
  <2>2. node["cache"][p] = Absent
    BY <1>10, <2>1, Constants DEF Current, Like
  <2>3. Current(p)'
    BY <1>10, <2>2 DEF Current, Like
  <2> QED BY <1>1, <1>2, <1>12, <2>3, OwesOnlyHalfWay DEF Meets, Kept
<1> QED BY <1>2, <1>8, <1>11, <1>13, <1>14, <1>15 DEF Outcome

LEMMA MkdirCacheOutcome ==
  ASSUME IInv, NEW x \in Proc, MkdirCache(x)
  PROVE  \E r : Outcome(x, r)
<1>1. /\ proc[x].pc = "mkdircache" /\ proc[x].pc \notin HalfWay /\ listings' \in [Key -> Listing]
      /\ Goto(x, "closing") /\ UNCHANGED <<data, listings, issued, restarts>>
  BY DEF MkdirCache, IInv, HalfWay
<1>2. PICK s \in Local : s = proc[x] /\ Fits(x, s)
  BY ProcFacts
<1>3. s.method = "MKCOL" /\ s.name.at \in Path /\ x \notin Copier
  BY <1>1, <1>2 DEF Fits, Writers, CopyLabel
<1>4. "cache" \in Side /\ "backend" \in Side /\ "cache" # "backend" /\ "closing" \in Label
  BY DEF Side, Label
<1>5. \A r \in Local : /\ r.pc = "closing" /\ r.method = s.method /\ r.name = s.name
                       /\ r.to = s.to /\ r.dir = s.dir
                       => Fits(x, r)
  BY <1>1, <1>2, <1>3 DEF Fits, CopyLabel, Writers
<1>6. "closing" \notin Knowing /\ "closing" \notin Writing /\ "closing" \notin Reading
  BY DEF Knowing, CopyLabel, Writing, Reading
<1>7. CASE UNCHANGED node
  BY <1>1, <1>2, <1>4, <1>5, <1>6, <1>7, CalmGoto
<1>8. CASE CanMake(node["cache"], PathOf(x))
           /\ node' = [node EXCEPT !["cache"][PathOf(x)] = Directory]
  <2>1. PICK p \in Path : p = s.name.at /\ p = PathOf(x) /\ Ours(s, p)
    BY <1>2, <1>3 DEF PathOf, Ours, PlacesOf, AtOrUnder
  <2>2. PICK r \in Local : /\ r = [s EXCEPT !.pc = "closing"] /\ r.pc = "closing"
                           /\ r.method = s.method /\ r.name = s.name /\ r.to = s.to /\ r.dir = s.dir
    BY <1>4, Relabelled
  <2>3. Fits(x, r) /\ proc' = [proc EXCEPT ![x] = r]
    BY <1>1, <1>2, <1>5, <2>2 DEF Goto, Become
  <2>4. Goes(r, s) /\ r.pc \notin Knowing
    BY <1>6, <2>2 DEF Goes, Working
  <2>5. /\ Named(node') /\ node'["cache"][p] = Directory
        /\ \A q \in Path \ {p} : node'["cache"][q] = node["cache"][q]
        /\ node'["backend"] = node["backend"]
    BY <1>4, <1>8, <2>1, MakesDirectory
  <2>6. Advances(x, r)
    BY <1>1, <2>3, <2>5 DEF Advances, IInv, Stored
  <2>7. \A q \in Path : BackendKept(q) /\ (q # p => CacheKept(q))
    BY <1>1, <2>5 DEF BackendKept, CacheKept
  <2>8. Frame(s)
    BY <1>1, <1>2, <2>1, <2>7 DEF Frame, Writing
  <2>9. ASSUME Settled PROVE Meets(s, r)
    <3>1. node["backend"][p] = Directory
      BY <1>1, <1>2, <2>1, <2>9 DEF Settled, Knows, KnowsWritten
    <3>2. Current(p)'
      BY <2>5, <3>1 DEF Current, Like
    <3> QED BY <1>1, <1>2, <2>7, <3>2, OwesOnlyHalfWay DEF Meets, Kept
  <2> QED BY <1>2, <2>4, <2>6, <2>8, <2>9, KnowsOnlyKnowing DEF Outcome, Undisturbed
<1> QED BY <1>7, <1>8 DEF MkdirCache

LEMMA Referred ==
  ASSUME IInv, data' = Scrubbed(data, node', proc') \/ data' = data
  PROVE  /\ Stored(data')
         /\ \A side \in Side, q \in Path : node'[side][q] \in Inode =>
               data'[side][node'[side][q]] = data[side][node'[side][q]]
<1>1. PICK n, ps : n = node' /\ ps = proc'
  OBVIOUS
<1>2. Stored(data)
  BY DEF IInv
<1>3. CASE data' = data
  BY <1>2, <1>3
<1>4. CASE data' = Scrubbed(data, node', proc')
  <2>1. data' = Scrubbed(data, n, ps)
    BY <1>1, <1>4
  <2> QED BY <1>1, <1>2, <2>1, Scrubs
<1> QED BY <1>3, <1>4

LEMMA Deletes ==
  ASSUME IInv, NEW x \in Proc, proc[x].pc \in {"remove", "removecache"}
  PROVE  /\ Subject(x).at = SubjectOf(proc[x]).at /\ Subject(x).at \in Path
         /\ x \notin Copier /\ proc[x].method \in {"DELETE", "MOVE"}
         /\ \A q : AtOrUnder(q, Subject(x).at) => Ours(proc[x], q)
<1>1. PICK s \in Local : s = proc[x] /\ Fits(x, s)
  BY ProcFacts
<1>2. s.method \in {"DELETE", "MOVE"} /\ s.name.at \in Path /\ x \notin Copier
      /\ (s.method = "MOVE" => s.to.at \in Path)
  BY <1>1 DEF Fits, Writers, CopyLabel
<1> QED BY <1>1, <1>2 DEF Subject, SubjectOf, Ours, PlacesOf

LEMMA RemoveBackendOutcome ==
  ASSUME IInv, NEW x \in Proc, RemoveBackend(x)
  PROVE  \E r : Outcome(x, r)
<1>1. /\ proc[x].pc = "remove" /\ proc[x].pc \notin HalfWay /\ listings' \in [Key -> Listing]
      /\ data' = Scrubbed(data, node', proc') /\ UNCHANGED <<listings, issued, restarts>>
  BY DEF RemoveBackend, IInv, HalfWay
<1>2. PICK s \in Local : s = proc[x] /\ Fits(x, s)
  BY ProcFacts
<1>3. PICK p \in Path : /\ p = Subject(x).at /\ p = SubjectOf(s).at /\ x \notin Copier
                        /\ s.method \in {"DELETE", "MOVE"}
                        /\ \A q \in Path : AtOrUnder(q, p) => Ours(s, q)
  BY <1>1, <1>2, Deletes
<1>4. "cache" \in Side /\ "backend" \in Side /\ "cache" # "backend" /\ "removecache" \in Label
  BY DEF Side, Label
<1>5. PICK r \in Local : /\ r = [s EXCEPT !.pc = "removecache"] /\ r.pc = "removecache"
                         /\ r.method = s.method /\ r.name = s.name /\ r.to = s.to /\ r.dir = s.dir
  BY <1>4, Relabelled
<1>6. Fits(x, r)
  BY <1>1, <1>2, <1>3, <1>5 DEF Fits, CopyLabel, Writers
<1>7. Goes(r, s) /\ r.pc \notin Knowing /\ SubjectOf(r) = SubjectOf(s)
  BY <1>1, <1>2, <1>5 DEF Goes, Reading, Writing, Knowing, CopyLabel, SubjectOf
<1>8. proc' = [proc EXCEPT ![x] = r]
  BY <1>2, <1>5 DEF RemoveBackend, Goto, Become
<1>9. /\ Named(node') /\ node'["cache"] = node["cache"]
      /\ \A q \in Path : ~AtOrUnder(q, p) => node'["backend"][q] = node["backend"][q]
  <2>1. node' = [node EXCEPT !["backend"] = Without(@, p)]
    BY <1>3 DEF RemoveBackend
  <2> QED BY <1>4, <2>1, Removes
<1>10. /\ Stored(data')
       /\ \A side \in Side, q \in Path : node'[side][q] \in Inode =>
             data'[side][node'[side][q]] = data[side][node'[side][q]]
  BY <1>1, Referred
<1>11. Advances(x, r)
  BY <1>1, <1>6, <1>8, <1>9, <1>10 DEF Advances, IInv
<1>12. \A q \in Path : CacheKept(q) /\ (~AtOrUnder(q, p) => BackendKept(q))
  BY <1>4, <1>9, <1>10 DEF BackendKept, CacheKept
<1>13. Frame(s)
  BY <1>1, <1>2, <1>3, <1>12 DEF Frame, WritesAs
<1>14. Meets(s, r)
  BY <1>1, <1>2, <1>3, <1>5, <1>7, <1>12, OwesOnlyHalfWay DEF Meets, Kept, Owes
<1> QED BY <1>2, <1>7, <1>11, <1>13, <1>14, KnowsOnlyKnowing DEF Outcome

LEMMA RemoveFailsOutcome ==
  ASSUME IInv, NEW x \in Proc, RemoveFails(x)
  PROVE  \E r : Outcome(x, r)
<1>1. /\ proc[x].pc = "remove" /\ proc[x].pc \notin HalfWay /\ listings' \in [Key -> Listing]
      /\ Finish(x) /\ data' = Scrubbed(data, node', proc')
      /\ UNCHANGED <<listings, issued, restarts>>
  BY DEF RemoveFails, IInv, HalfWay
<1>2. Idle.pc \notin Knowing /\ Goes(Idle, proc[x]) /\ Fits(x, Idle) /\ Idle.pc = "idle"
  BY IdleFits DEF Knowing, CopyLabel, Goes, Working, Reading, Writing
<1>3. proc' = [proc EXCEPT ![x] = Idle]
  BY <1>1 DEF Finish, Become
<1>4. PICK p \in Path : p = Subject(x).at
  BY <1>1, Deletes
<1>5. "cache" \in Side /\ "backend" \in Side /\ "cache" # "backend"
  BY DEF Side
<1>6. Named(node') /\ node'["cache"] = node["cache"]
  <2>1. node' \in RemovedInPart("backend", p)
    BY <1>4 DEF RemoveFails
  <2> QED BY <1>5, <2>1, RemovesInPart
<1>7. /\ Stored(data')
      /\ \A side \in Side, q \in Path : node'[side][q] \in Inode =>
            data'[side][node'[side][q]] = data[side][node'[side][q]]
  BY <1>1, Referred
<1>8. Advances(x, Idle)
  BY <1>1, <1>2, <1>3, <1>6, <1>7 DEF Advances, IInv
<1>9. ASSUME ~HalfDone(x) PROVE Frame(proc[x]) /\ Meets(proc[x], Idle)
  <2>1. proc'[x].pc = "idle"
    BY <1>2, <1>3 DEF IInv
  <2>2. node'["backend"] = node["backend"]
    BY <1>1, <1>9, <2>1 DEF HalfDone
  <2>3. \A q \in Path : Kept(q)
    BY <1>5, <1>6, <1>7, <2>2 DEF Kept, BackendKept, CacheKept
  <2> QED BY <1>1, <2>3, OwesOnlyHalfWay DEF Frame, Meets, Kept
<1> QED BY <1>2, <1>8, <1>9, KnowsOnlyKnowing DEF Outcome, Undisturbed

LEMMA RemoveCacheOutcome ==
  ASSUME IInv, NEW x \in Proc, RemoveCache(x)
  PROVE  \E r : Outcome(x, r)
<1>1. /\ proc[x].pc = "removecache" /\ listings' \in [Key -> Listing]
      /\ data' = Scrubbed(data, node', proc') /\ UNCHANGED <<listings, issued, restarts>>
  BY DEF RemoveCache, IInv
<1>2. PICK s \in Local : s = proc[x] /\ Fits(x, s)
  BY ProcFacts
<1>3. PICK p \in Path : /\ p = Subject(x).at /\ p = SubjectOf(s).at /\ x \notin Copier
                        /\ s.method \in {"DELETE", "MOVE"}
                        /\ \A q \in Path : AtOrUnder(q, p) => Ours(s, q)
  BY <1>1, <1>2, Deletes
<1>4. "cache" \in Side /\ "backend" \in Side /\ "cache" # "backend" /\ "dropremoved" \in Label
  BY DEF Side, Label
<1>5. PICK r \in Local : /\ r = [s EXCEPT !.pc = "dropremoved"] /\ r.pc = "dropremoved"
                         /\ r.method = s.method /\ r.name = s.name /\ r.to = s.to /\ r.dir = s.dir
  BY <1>4, Relabelled
<1>6. Fits(x, r)
  BY <1>1, <1>2, <1>3, <1>5 DEF Fits, CopyLabel, Writers
<1>7. Goes(r, s) /\ r.pc \notin Knowing
  BY <1>5 DEF Goes, Working, Reading, Writing, Knowing, CopyLabel
<1>8. proc' = [proc EXCEPT ![x] = r]
  BY <1>2, <1>5 DEF RemoveCache, Goto, Become
<1>9. /\ Named(node') /\ node'["backend"] = node["backend"]
      /\ \A q \in Path : ~AtOrUnder(q, p) => node'["cache"][q] = node["cache"][q]
      /\ ~Exists(node'["cache"], p) => \A q \in Path : AtOrUnder(q, p) => node'["cache"][q] = Absent
  <2>1. CASE node' = [node EXCEPT !["cache"] = Without(@, p)]
    BY <1>4, <2>1, Removes
  <2>2. CASE node' \in RemovedInPart("cache", p)
    <3>1. /\ Named(node') /\ node'["cache"][p] = node["cache"][p]
          /\ \A q \in Path : ~AtOrUnder(q, p) => node'["cache"][q] = node["cache"][q]
          /\ node'["backend"] = node["backend"]
      BY <1>4, <2>2, RemovesInPart
    <3>2. Exists(node'["cache"], p) <=> node'["cache"][p] # Absent
      BY Constants DEF Exists, At
    <3>3. IsTree(node'["cache"]) /\ Absent # Directory
      BY <1>4, <3>1, Constants DEF Named
    <3> QED BY <3>1, <3>2, <3>3 DEF IsTree, AtOrUnder
  <2> QED BY <1>3, <2>1, <2>2 DEF RemoveCache
<1>10. /\ Stored(data')
       /\ \A side \in Side, q \in Path : node'[side][q] \in Inode =>
             data'[side][node'[side][q]] = data[side][node'[side][q]]
  BY <1>1, Referred
<1>11. Advances(x, r)
  BY <1>1, <1>6, <1>8, <1>9, <1>10 DEF Advances, IInv
<1>12. \A q \in Path : BackendKept(q) /\ (~AtOrUnder(q, p) => CacheKept(q))
  BY <1>4, <1>9, <1>10 DEF BackendKept, CacheKept
<1>13. Frame(s)
  BY <1>1, <1>2, <1>3, <1>12 DEF Frame, Writing
<1>14. ASSUME ~Refused(x) PROVE Meets(s, r)
  <2>1. ~Exists(node'["cache"], p)
    BY <1>1, <1>3, <1>14 DEF Refused
  <2>2. \A q \in Path : AtOrUnder(q, p) => Current(q)'
    BY <1>9, <2>1 DEF Current, Like
  <2>3. \A q \in Path : Owes(s, q) => AtOrUnder(q, p)
    BY <1>1, <1>2, <1>3 DEF Owes
  <2> QED BY <1>12, <2>2, <2>3 DEF Meets, Kept
<1> QED BY <1>2, <1>7, <1>11, <1>13, <1>14, KnowsOnlyKnowing DEF Outcome, Undisturbed

LEMMA Moves ==
  ASSUME IInv, NEW x \in Proc, proc[x].pc \in {"rename", "renamecache"}
  PROVE  /\ x \notin Copier /\ proc[x].method = "MOVE"
         /\ proc[x].name.at \in Path /\ proc[x].to.at \in Path
         /\ proc[x].name.at # proc[x].to.at
         /\ Movable(proc[x].name.at, proc[x].to.at)
         /\ \A q : AtOrUnder(q, proc[x].name.at) \/ AtOrUnder(q, proc[x].to.at)
                   => Ours(proc[x], q)
<1>1. PICK s \in Local : s = proc[x] /\ Fits(x, s)
  BY ProcFacts
<1>2. /\ s.method = "MOVE" /\ s.name.at \in Path /\ x \notin Copier
      /\ s.to.at \in Path /\ Movable(s.name.at, s.to.at)
  BY <1>1 DEF Fits, Writers, CopyLabel
<1> QED BY <1>1, <1>2 DEF Ours, PlacesOf, Movable

LEMMA RenameBackendOutcome ==
  ASSUME IInv, NEW x \in Proc, RenameBackend(x)
  PROVE  \E r : Outcome(x, r)
<1>1. /\ proc[x].pc = "rename" /\ proc[x].pc \notin HalfWay /\ listings' \in [Key -> Listing]
      /\ data' = data /\ UNCHANGED <<listings, issued, restarts>>
  BY DEF RenameBackend, IInv, HalfWay
<1>2. PICK s \in Local : s = proc[x] /\ Fits(x, s)
  BY ProcFacts
<1>3. PICK src \in Path, dst \in Path :
        /\ src = s.name.at /\ dst = s.to.at /\ src # dst /\ x \notin Copier /\ s.method = "MOVE"
        /\ Movable(src, dst)
        /\ \A q : AtOrUnder(q, src) \/ AtOrUnder(q, dst) => Ours(s, q)
  BY <1>1, <1>2, Moves
<1>4. "cache" \in Side /\ "backend" \in Side /\ "cache" # "backend" /\ "renamecache" \in Label
  BY DEF Side, Label
<1>5. PICK r \in Local : /\ r = [s EXCEPT !.pc = "renamecache"] /\ r.pc = "renamecache"
                         /\ r.method = s.method /\ r.name = s.name /\ r.to = s.to /\ r.dir = s.dir
  BY <1>4, Relabelled
<1>6. Fits(x, r)
  BY <1>1, <1>2, <1>3, <1>5 DEF Fits, CopyLabel, Writers
<1>7. Goes(r, s)
  BY <1>1, <1>2, <1>5 DEF Goes, Reading, Writing
<1>8. proc' = [proc EXCEPT ![x] = r]
  BY <1>2, <1>5 DEF RenameBackend, Goto, Become
<1>9. PICK tree \in [Path -> Int] :
        tree = node["backend"] /\ IsTree(tree) /\ CanRename(tree, src, dst)
  BY <1>2, <1>3, <1>4, NodeFacts DEF RenameBackend, PathOf
<1>10. Named(node') /\ node'["cache"] = node["cache"] /\ node'["backend"] = Renamed(tree, src, dst)
  <2>1. node' = [node EXCEPT !["backend"] = Renamed(@, src, dst)]
    BY <1>2, <1>3 DEF RenameBackend, PathOf
  <2>2. CanRename(node["backend"], src, dst)
    BY <1>9
  <2>3. /\ Named(node') /\ node'["backend"] = Renamed(node["backend"], src, dst)
        /\ node'["cache"] = node["cache"]
    BY <1>3, <1>4, <2>1, <2>2, Renames
  <2> QED BY <1>9, <2>3
<1>11. Advances(x, r)
  BY <1>1, <1>6, <1>8, <1>10 DEF Advances, IInv, Stored
<1>12. PICK t : t = Renamed(tree, src, dst) /\ t = node'["backend"]
  BY <1>10
<1>13. /\ t[dst] = tree[src]
       /\ \A q \in Path : IsUnder(q, dst) =>
             t[q] = IF Rebase(q, dst, src) \in Path THEN tree[Rebase(q, dst, src)] ELSE Absent
       /\ \A q \in Path : AtOrUnder(q, src) => t[q] = Absent
       /\ \A q \in Path : ~AtOrUnder(q, src) /\ ~AtOrUnder(q, dst) => t[q] = tree[q]
  <2>1. PICK u : u = Renamed(tree, src, dst)
    OBVIOUS
  <2>2. /\ u[dst] = tree[src]
        /\ \A q \in Path : IsUnder(q, dst) =>
              u[q] = IF Rebase(q, dst, src) \in Path THEN tree[Rebase(q, dst, src)] ELSE Absent
        /\ \A q \in Path : AtOrUnder(q, src) => u[q] = Absent
        /\ \A q \in Path : ~AtOrUnder(q, src) /\ ~AtOrUnder(q, dst) => u[q] = tree[q]
    BY <1>3, <1>9, <2>1, RenamedMeans
  <2> QED BY <1>12, <2>1, <2>2
<1>14. \A q \in Path : CacheKept(q) /\ (~AtOrUnder(q, src) /\ ~AtOrUnder(q, dst) => BackendKept(q))
  BY <1>1, <1>9, <1>10, <1>12, <1>13 DEF BackendKept, CacheKept
<1>15. Frame(s)
  BY <1>1, <1>2, <1>3, <1>14 DEF Frame, WritesAs
<1>16. Meets(s, r)
  BY <1>1, <1>2, <1>3, <1>5, <1>14, OwesOnlyHalfWay DEF Meets, Kept, Owes
<1>17. ASSUME Undisturbed(x) PROVE KnowsRenamed(r)'
  <2>1. \A q \in Path : AtOrUnder(q, src) \/ AtOrUnder(q, dst) => Current(q)
    BY <1>1, <1>2, <1>3, <1>17, NobodyOwes DEF WritesAs
  <2>2. /\ tree[dst] # Directory /\ \A q \in Path : IsUnder(q, dst) => tree[q] = Absent
    BY <1>3, <1>9, RenameRoom
  <2>3. ASSUME NEW e \in Path, AtOrUnder(e, src)
        PROVE  node'["backend"][e] = Absent /\ Like(e, Rebase(e, src, dst))'
    <3>1. PICK f \in Path : f = Rebase(e, src, dst) /\ t[f] = tree[e]
      <4>1. src \in Place /\ dst \in Place /\ e \in Place
        BY PathsArePlaces
      <4>2. /\ Rebase(e, src, dst) = dst <=> e = src
            /\ Rebase(e, src, dst) = dst \/ IsUnder(Rebase(e, src, dst), dst)
            /\ Rebase(Rebase(e, src, dst), dst, src) = e
        BY <2>3, <4>1, RebaseBack DEF AtOrUnder
      <4>3. Rebase(e, src, dst) \in Path
        BY <1>3, <2>3, <4>2 DEF Movable, AtOrUnder
      <4> QED BY <1>13, <4>2, <4>3
    <3>2. Current(e)
      BY <2>1, <2>3
    <3>3. Like(e, f)'
      BY <1>1, <1>9, <1>10, <1>12, <3>1, <3>2 DEF Current, Like
    <3> QED BY <1>12, <1>13, <2>3, <3>1, <3>3
  <2>4. ASSUME NEW e \in Path, AtOrUnder(e, dst), node'["cache"][e] # Absent
        PROVE  /\ e = dst /\ node'["cache"][e] # Directory
               /\ node'["backend"][e] \in Inode
    <3>1. Current(e) /\ node["cache"][e] # Absent
      BY <1>10, <2>1, <2>4
    <3>2. tree[e] # Absent
      BY <1>9, <3>1, Constants DEF Current, Like
    <3>3. e = dst /\ tree[dst] \in Inode
      BY <1>9, <2>2, <2>4, <3>1, <3>2 DEF AtOrUnder, Current, Like
    <3>4. node["cache"][e] # Directory
      BY <1>9, <2>2, <3>1, <3>3, Constants DEF Current, Like
    <3>5. IsFile(tree, src)
      BY <1>9, <3>2, <3>3 DEF CanRename, CanMake
    <3>6. tree[src] \in Inode
      BY <1>3, <1>4, <1>9, <3>5, NodeFacts
    <3> QED BY <1>10, <1>12, <1>13, <3>3, <3>4, <3>6
  <2> QED BY <1>3, <1>5, <2>3, <2>4 DEF KnowsRenamed
<1>18. KnowsCopy(r)' /\ KnowsServed(r)' /\ KnowsWritten(r)'
  BY <1>5 DEF KnowsCopy, KnowsServed, KnowsWritten, CopyLabel
<1> QED BY <1>2, <1>7, <1>11, <1>15, <1>16, <1>17, <1>18 DEF Outcome, Knows

LEMMA RenameCacheOutcome ==
  ASSUME IInv, NEW x \in Proc, RenameCache(x)
  PROVE  \E r : Outcome(x, r)
<1>1. /\ proc[x].pc = "renamecache" /\ listings' \in [Key -> Listing]
      /\ data' = Scrubbed(data, node', proc') /\ UNCHANGED <<listings, issued, restarts>>
  BY DEF RenameCache, IInv
<1>2. PICK s \in Local : s = proc[x] /\ Fits(x, s)
  BY ProcFacts
<1>3. PICK src \in Path, dst \in Path :
        /\ src = s.name.at /\ dst = s.to.at /\ src # dst /\ x \notin Copier /\ s.method = "MOVE"
        /\ \A q : AtOrUnder(q, src) \/ AtOrUnder(q, dst) => Ours(s, q)
  BY <1>1, <1>2, Moves
<1>4. "cache" \in Side /\ "backend" \in Side /\ "cache" # "backend" /\ "droprenamed" \in Label
  BY DEF Side, Label
<1>5. PICK r \in Local : /\ r = [s EXCEPT !.pc = "droprenamed"] /\ r.pc = "droprenamed"
                         /\ r.method = s.method /\ r.name = s.name /\ r.to = s.to /\ r.dir = s.dir
  BY <1>4, Relabelled
<1>6. Fits(x, r)
  BY <1>1, <1>2, <1>3, <1>5 DEF Fits, CopyLabel, Writers
<1>7. Goes(r, s) /\ r.pc \notin Knowing
  BY <1>5 DEF Goes, Working, Reading, Writing, Knowing, CopyLabel
<1>8. proc' = [proc EXCEPT ![x] = r]
  BY <1>2, <1>5 DEF RenameCache, Goto, Become
<1>9. PICK tree \in [Path -> Int] : tree = node["cache"] /\ IsTree(tree)
  BY <1>4, NodeFacts
<1>10. \/ node' = node
       \/ CanRename(tree, src, dst) /\ node' = [node EXCEPT !["cache"] = Renamed(@, src, dst)]
  BY <1>2, <1>3, <1>9 DEF RenameCache, PathOf
<1>11. /\ Named(node') /\ node'["backend"] = node["backend"]
       /\ \/ node'["cache"] = tree
          \/ CanRename(tree, src, dst) /\ node'["cache"] = Renamed(tree, src, dst)
  <2>1. CASE node' = node
    BY <1>9, <2>1 DEF IInv, Named
  <2>2. CASE CanRename(tree, src, dst) /\ node' = [node EXCEPT !["cache"] = Renamed(@, src, dst)]
    <3>1. CanRename(node["cache"], src, dst)
      BY <1>9, <2>2
    <3>2. /\ Named(node') /\ node'["cache"] = Renamed(node["cache"], src, dst)
          /\ node'["backend"] = node["backend"]
      BY <1>3, <1>4, <2>2, <3>1, Renames
    <3> QED BY <1>9, <2>2, <3>2
  <2> QED BY <1>10, <2>1, <2>2
<1>12. /\ Stored(data')
       /\ \A side \in Side, q \in Path : node'[side][q] \in Inode =>
             data'[side][node'[side][q]] = data[side][node'[side][q]]
  BY <1>1, Referred
<1>13. Advances(x, r)
  BY <1>1, <1>6, <1>8, <1>11, <1>12 DEF Advances, IInv
<1>14. \A q \in Path : BackendKept(q) /\ (~AtOrUnder(q, src) /\ ~AtOrUnder(q, dst) => CacheKept(q))
  <2>1. \A q \in Path : ~AtOrUnder(q, src) /\ ~AtOrUnder(q, dst) => node'["cache"][q] = tree[q]
    BY <1>3, <1>9, <1>11, RenamedMeans
  <2> QED BY <1>4, <1>9, <1>11, <1>12, <2>1 DEF BackendKept, CacheKept
<1>15. Frame(s)
  BY <1>1, <1>2, <1>3, <1>14 DEF Frame, Writing
<1>16. ASSUME Settled, ~Refused(x) PROVE Meets(s, r)
  <2>1. /\ \A e \in Path : AtOrUnder(e, src) =>
              node["backend"][e] = Absent /\ Like(e, Rebase(e, src, dst))
    BY <1>1, <1>2, <1>3, <1>16 DEF Settled, Knows, KnowsRenamed
  <2>2. /\ ~Exists(node'["cache"], src)
        /\ Exists(tree, src) \/ ~Exists(tree, dst)
    BY <1>1, <1>2, <1>3, <1>9, <1>16 DEF Refused, PathOf
  <2>3. ASSUME NEW q \in Path, AtOrUnder(q, src) \/ AtOrUnder(q, dst) PROVE Current(q)'
    <3>1. CASE node'["cache"] = tree
      <4>1. tree[src] = Absent /\ tree[dst] = Absent
        BY <1>3, <1>9, <1>4, <2>2, <3>1, NodeFacts
      <4> QED BY <1>9, <3>1, <2>3, <4>1, Constants DEF IsTree, AtOrUnder, Current, Like
    <3>2. CASE CanRename(tree, src, dst) /\ node'["cache"] = Renamed(tree, src, dst)
               /\ node'["cache"][q] # Absent
      <4>1. PICK o \in Path : /\ AtOrUnder(o, src) /\ q = Rebase(o, src, dst)
                              /\ node'["cache"][q] = tree[o]
        BY <1>3, <1>9, <2>3, <3>2, RenamedFrom
      <4>2. Like(o, q)
        BY <2>1, <4>1
      <4> QED BY <1>4, <1>9, <1>11, <1>12, <4>1, <4>2 DEF Current, Like
    <3>3. CASE node'["cache"][q] = Absent
      BY <3>3 DEF Current, Like
    <3> QED BY <1>11, <3>1, <3>2, <3>3
  <2>4. \A q \in Path : Owes(s, q) => AtOrUnder(q, src) \/ AtOrUnder(q, dst)
    BY <1>1, <1>2, <1>3 DEF Owes
  <2> QED BY <1>14, <2>3, <2>4 DEF Meets, Kept
<1> QED BY <1>2, <1>7, <1>13, <1>15, <1>16, KnowsOnlyKnowing DEF Outcome, Undisturbed

-----------------------------------------------------------------------------
(* What a step leaves to the others                                        *)
-----------------------------------------------------------------------------
LEMMA OthersKept ==
  ASSUME IInv, NEW x \in Proc, NEW y \in Proc \ {x}, ~Race(x), Frame(proc[x]),
         proc[y].pc \in Working, NEW q \in Path, Ours(proc[y], q)
  PROVE  /\ BackendKept(q)
         /\ node["cache"][q] \in Inode => node'["cache"][q] = node["cache"][q]
         /\ proc[y].pc \in Writing => Kept(q)
<1>1. /\ proc[x] \in Local /\ Fits(x, proc[x])
      /\ proc[x].name.at \in PlacesOf(proc[x])
      /\ PlacesOf(proc[x]) \subseteq Place /\ PlacesOf(proc[y]) \subseteq Place
  BY ProcFacts, Places
<1>2. ASSUME WritesAs(proc[x]) PROVE ~Ours(proc[x], q)
  <2>1. \A a \in PlacesOf(proc[x]), b \in PlacesOf(proc[y]) : ~RelatedPaths(a, b)
    BY <1>2, NoRace
  <2> QED BY <2>1, SharedIsRelated
<1>3. BackendKept(q)
  BY <1>2 DEF Frame
<1>4. proc[x].pc \in Writing => WritesAs(proc[x])
  BY DEF WritesAs
<1>5. \/ CacheKept(q)
      \/ /\ proc[x].pc \in {"copyopen", "copywrite"} /\ q = proc[x].name.at
         /\ node["cache"][q] \in Inode => node'["cache"][q] = node["cache"][q]
      \/ /\ proc[x].pc = "mkparents" /\ IsUnder(proc[x].name.at, q)
         /\ node["cache"][q] = Absent
  BY <1>2, <1>4 DEF Frame
<1>6. node["cache"][q] \in Inode => node'["cache"][q] = node["cache"][q]
  BY <1>5, Constants DEF CacheKept
<1>7. ASSUME proc[y].pc \in Writing, proc[x].pc \in {"copyopen", "copywrite", "mkparents"}
      PROVE  q # proc[x].name.at /\ ~IsUnder(proc[x].name.at, q)
  <2>1. PICK b \in PlacesOf(proc[y]) : AtOrUnder(q, b)
    BY DEF Ours
  <2>2. ~RelatedPaths(proc[x].name.at, b)
    BY <1>1, <1>7, <2>1, NoRace DEF Reading
  <2>3. PICK a \in Place : a = proc[x].name.at
    BY <1>1
  <2>4. q \in Place /\ b \in Place
    BY <1>1, PathsArePlaces
  <2> QED BY <2>1, <2>2, <2>3, <2>4, UnderOrder DEF AtOrUnder, RelatedPaths
<1> QED BY <1>3, <1>5, <1>6, <1>7 DEF Kept

LEMMA KnowsKept ==
  ASSUME IInv, NEW x \in Proc, NEW y \in Proc \ {x}, ~Race(x), Frame(proc[x]),
         NEW r, r = proc[y], Knows(r)
  PROVE  Knows(r)'
<1>1. r \in Local /\ Fits(y, r)
  BY ProcFacts
<1>2. \A q \in Path : r.pc \in Working /\ Ours(r, q) =>
        /\ BackendKept(q)
        /\ node["cache"][q] \in Inode => node'["cache"][q] = node["cache"][q]
        /\ r.pc \in Writing => Kept(q)
  BY OthersKept
<1>3. Ours(r, r.name.at) /\ CopyLabel \cup {"serve"} \subseteq Working /\ Writing \subseteq Working
  BY DEF Ours, PlacesOf, AtOrUnder, CopyLabel, Working, Reading
<1>4. KnowsCopy(r)'
  <2> SUFFICES ASSUME r.pc \in CopyLabel PROVE KnowsCopy(r)'
    BY DEF KnowsCopy, CopyLabel
  <2>1. PICK p \in Path : p = r.name.at /\ (~r.dir => r.from \in Inode)
                          /\ (r.pc \in {"copyread", "copywrite"} => r.fd \in Inode)
                          /\ (r.pc = "copywrite" => ~r.dir)
    BY <1>1 DEF Fits
  <2>2. BackendKept(p) /\ (node["cache"][p] \in Inode => node'["cache"][p] = node["cache"][p])
    BY <1>2, <1>3, <2>1
  <2> QED BY <2>1, <2>2 DEF Knows, KnowsCopy, BackendKept
<1>5. KnowsServed(r)'
  <2> SUFFICES ASSUME r.pc = "serve", ~r.dir PROVE KnowsServed(r)'
    BY DEF KnowsServed
  <2>1. PICK p \in Path : /\ p = r.name.at /\ (r.side = "cache" => r.fd \in Inode)
                          /\ (r.side = "backend" => r.from \in Inode)
    BY <1>1 DEF Fits
  <2>2. BackendKept(p) /\ (node["cache"][p] \in Inode => node'["cache"][p] = node["cache"][p])
    BY <1>2, <1>3, <2>1
  <2> QED BY <2>1, <2>2 DEF Knows, KnowsServed, BackendKept
<1>6. KnowsWritten(r)'
  <2> SUFFICES ASSUME r.pc \in {"createcache", "write", "writecache", "mkdircache"}
               PROVE  KnowsWritten(r)'
    BY DEF KnowsWritten
  <2>1. PICK p \in Path : p = r.name.at /\ (r.pc # "mkdircache" => r.from \in Inode)
                          /\ (r.pc \in {"write", "writecache"} => r.fd \in Inode)
    BY <1>1 DEF Fits, Writers
  <2>2. Kept(p)
    BY <1>2, <1>3, <2>1 DEF Writing
  <2> QED BY <2>1, <2>2 DEF Knows, KnowsWritten, Kept, BackendKept, CacheKept
<1>7. KnowsRenamed(r)'
  <2> SUFFICES ASSUME r.pc = "renamecache" PROVE KnowsRenamed(r)'
    BY DEF KnowsRenamed
  <2>1. PICK src \in Path, dst \in Path :
          src = r.name.at /\ dst = r.to.at /\ r.method = "MOVE" /\ Movable(src, dst)
    BY <1>1 DEF Fits, Writers
  <2>2. \A q \in Path : AtOrUnder(q, src) \/ AtOrUnder(q, dst) => Kept(q)
    BY <1>2, <1>3, <2>1 DEF Writing, Ours, PlacesOf
  <2>3. ASSUME NEW e \in Path, AtOrUnder(e, src)
        PROVE  node'["backend"][e] = Absent /\ Like(e, Rebase(e, src, dst))'
    <3>1. PICK f \in Path : f = Rebase(e, src, dst) /\ AtOrUnder(f, dst)
      <4>1. src \in Place /\ dst \in Place /\ e \in Place
        BY PathsArePlaces
      <4>2. /\ Rebase(e, src, dst) = dst <=> e = src
            /\ Rebase(e, src, dst) = dst \/ IsUnder(Rebase(e, src, dst), dst)
        BY <2>3, <4>1, RebaseBack DEF AtOrUnder
      <4>3. Rebase(e, src, dst) \in Path
        BY <2>1, <2>3, <4>2 DEF Movable, AtOrUnder
      <4> QED BY <4>2, <4>3 DEF AtOrUnder
    <3>2. Kept(e) /\ Kept(f)
      BY <2>2, <2>3, <3>1
    <3>3. node["backend"][e] = Absent /\ Like(e, f)
      BY <2>1, <2>3, <3>1 DEF Knows, KnowsRenamed
    <3>4. Like(e, f)'
      BY <3>2, <3>3, Constants DEF Like, Kept, BackendKept, CacheKept
    <3> QED BY <3>1, <3>2, <3>3, <3>4 DEF Kept, BackendKept
  <2>4. ASSUME NEW e \in Path, AtOrUnder(e, dst), node'["cache"][e] # Absent
        PROVE  /\ e = dst /\ node'["cache"][e] # Directory
               /\ node'["backend"][e] \in Inode
    <3>1. Kept(e)
      BY <2>2, <2>4
    <3>2. node["cache"][e] # Absent
      BY <2>4, <3>1 DEF Kept, CacheKept
    <3>3. e = dst /\ node["cache"][e] # Directory /\ node["backend"][e] \in Inode
      BY <2>1, <2>4, <3>2 DEF Knows, KnowsRenamed
    <3> QED BY <3>1, <3>3 DEF Kept, BackendKept, CacheKept
  <2> QED BY <2>1, <2>3, <2>4 DEF KnowsRenamed
<1> QED BY <1>4, <1>5, <1>6, <1>7 DEF Knows

LEMMA RelatedEitherWay ==
  ASSUME NEW p, NEW q
  PROVE  RelatedPaths(p, q) <=> RelatedPaths(q, p)
BY DEF RelatedPaths

(* The others stay, but for a copier that the step starts.                 *)
LEMMA Settles ==
  ASSUME IInv, NEW x \in Proc, NEW r, Goes(r, proc[x]), Undisturbed(x),
         Frame(proc[x]), Knows(r)', Meets(proc[x], r), proc'[x] = r,
         \A y \in Proc \ {x} : \/ proc'[y] = proc[y]
                               \/ proc[y].pc = "idle" /\ proc'[y].pc = "fetch"
  PROVE  Settled'
<1>1. PICK s \in Local : s = proc[x] /\ Fits(x, s)
  BY ProcFacts
<1>2. Settled /\ ~Race(x)
  BY DEF Undisturbed
<1>3. "idle" \notin HalfWay \cup Knowing /\ "fetch" \notin HalfWay \cup Knowing \cup Working
  BY DEF HalfWay, Knowing, CopyLabel, Working, Reading, Writing
<1>4. r.pc \in Working => PlacesOf(r) = PlacesOf(s)
  BY <1>1 DEF Goes, PlacesOf
<1>5. ASSUME NEW v \in Proc \ {x}, r.pc \in Writing, proc'[v].pc \in Working
      PROVE  \A p \in PlacesOf(r), q \in PlacesOf(proc'[v]) : ~RelatedPaths(p, q)
  <2>1. proc'[v] = proc[v]
    BY <1>3, <1>5
  <2>2. WritesAs(s)
    BY <1>1, <1>5 DEF Goes, WritesAs
  <2>3. r.pc \in Working
    BY <1>5 DEF Working
  <2> QED BY <1>1, <1>2, <1>4, <1>5, <2>1, <2>2, <2>3, NoRace
<1>6. ASSUME NEW u \in Proc \ {x}, proc'[u].pc \in Writing, r.pc \in Working
      PROVE  \A p \in PlacesOf(proc'[u]), q \in PlacesOf(r) : ~RelatedPaths(p, q)
  <2>1. proc'[u] = proc[u]
    BY <1>3, <1>6 DEF Working
  <2>2. \/ WritesAs(s)
        \/ s.pc \in Reading \cup {"stat", "statbackend", "open", "fetch"}
    BY <1>1, <1>6 DEF Goes, Working, WritesAs
  <2>3. proc[u].pc \in Working
    BY <1>6, <2>1 DEF Working
  <2>4. \A a \in PlacesOf(s), b \in PlacesOf(proc[u]) : ~RelatedPaths(a, b)
    BY <1>1, <1>2, <1>6, <2>1, <2>2, <2>3, NoRace
  <2> QED BY <1>4, <1>6, <2>1, <2>4, RelatedEitherWay
<1>7. ASSUME NEW u \in Proc, NEW v \in Proc, u # v,
             proc'[u].pc \in Writing, proc'[v].pc \in Working
      PROVE  \A p \in PlacesOf(proc'[u]), q \in PlacesOf(proc'[v]) : ~RelatedPaths(p, q)
  <2>1. CASE u = x
    BY <1>5, <1>7, <2>1
  <2>2. CASE v = x
    BY <1>6, <1>7, <2>2
  <2>3. CASE u # x /\ v # x
    <3>1. proc'[u] = proc[u] /\ proc'[v] = proc[v]
      BY <1>3, <1>7, <2>3 DEF Working
    <3> QED BY <1>2, <1>7, <3>1 DEF Settled, Excluded
  <2> QED BY <2>1, <2>2, <2>3
<1>8. ASSUME NEW y \in Proc, NEW k, k = proc'[y]
      PROVE  Knows(k)'
  <2>1. CASE y = x
    BY <1>8, <2>1
  <2>2. CASE y # x /\ proc'[y] = proc[y]
    <3>1. k = proc[y] /\ Knows(k)
      BY <1>2, <1>8, <2>2 DEF Settled
    <3> QED BY <1>2, <2>2, <3>1, KnowsKept
  <2>3. CASE y # x /\ proc'[y].pc = "fetch"
    BY <1>3, <1>8, <2>3, KnowsOnlyKnowing
  <2> QED BY <2>1, <2>2, <2>3
<1>9. ASSUME NEW p \in Path
      PROVE  Current(p)' \/ \E y \in Proc : Owes(proc'[y], p)
  <2>1. CASE Current(p)' \/ Owes(r, p)
    BY <2>1
  <2>2. CASE Kept(p) /\ Current(p)
    BY <2>2, Constants DEF Current, Like, Kept, BackendKept, CacheKept
  <2>3. CASE ~Owes(s, p) /\ ~Current(p)
    <3>1. PICK y \in Proc : Owes(proc[y], p)
      BY <1>2, <2>3 DEF Settled
    <3>2. y # x /\ proc'[y] = proc[y]
      BY <1>1, <1>3, <2>3, <3>1, OwesOnlyHalfWay
    <3> QED BY <3>1, <3>2
  <2> QED BY <1>1, <2>1, <2>2, <2>3 DEF Meets
<1> QED
  BY <1>7, <1>8, <1>9
     DEF Settled, Excluded, Owes, Knows, KnowsCopy, KnowsServed, KnowsWritten, KnowsRenamed, Like

-----------------------------------------------------------------------------
(* Every step                                                              *)
-----------------------------------------------------------------------------
LEMMA OutcomeHolds ==
  ASSUME IInv, NEW x \in Proc, NEW r, Outcome(x, r)
  PROVE  IInv' /\ (Undisturbed(x) => Settled')
<1>1. Advances(x, r) /\ Goes(r, proc[x])
  BY DEF Outcome
<1>2. IInv'
  BY <1>1, Keeps DEF Advances
<1>3. proc'[x] = r /\ \A y \in Proc \ {x} : proc'[y] = proc[y]
  BY <1>1 DEF Advances, IInv
<1>4. ASSUME Undisturbed(x) PROVE Settled'
  BY <1>1, <1>3, <1>4, Settles DEF Outcome
<1> QED BY <1>2, <1>4

LEMMA StatBackendHolds ==
  ASSUME IInv, NEW x \in Proc, StatBackend(x)
  PROVE  IInv' /\ (Undisturbed(x) => Settled')
<1>1. /\ proc[x].pc = "statbackend" /\ proc[x].pc \notin HalfWay /\ listings' \in [Key -> Listing]
      /\ UNCHANGED <<node, data, listings, issued, restarts>>
  BY DEF StatBackend, IInv, HalfWay
<1>2. PICK n : n = Subject(x) /\ n \in Key
  BY ProcFacts DEF Subject, Local
<1>3. CASE ~IsFile(node["backend"], n.at)
  <2>1. PICK found \in BOOLEAN : found = Exists(node["backend"], n.at)
    BY DEF Exists
  <2>2. PICK r : r = AfterStat(x, found)
    OBVIOUS
  <2>3. Fits(x, r) /\ Goes(r, proc[x]) /\ r.pc \notin Knowing
    BY <1>1, <2>2, Stats
  <2>4. proc' = [proc EXCEPT ![x] = r]
    BY <1>2, <1>3, <2>1, <2>2 DEF StatBackend, Become
  <2>5. Outcome(x, r)
    BY <1>1, <2>3, <2>4, CalmOutcome, KnowsOnlyKnowing
  <2> QED BY <2>5, OutcomeHolds
<1>4. CASE IsFile(node["backend"], n.at)
  <2>1. PICK r : r = AfterStat(x, TRUE)
    OBVIOUS
  <2>2. Fits(x, r) /\ Goes(r, proc[x]) /\ r.pc \notin Knowing
    BY <1>1, <2>1, Stats
  <2>3. PICK k : k = [Idle EXCEPT !.pc = "fetch", !.method = "copy", !.name = n]
    OBVIOUS
  <2>4. PICK c \in Copier : proc[c].pc = "idle" /\ proc' = [proc EXCEPT ![x] = r, ![c] = k]
    BY <1>2, <1>4, <2>1, <2>3 DEF StatBackend
  <2>5. n.at \in Path
    <3>1. "backend" \in Side
      BY DEF Side
    <3> QED BY <1>2, <1>4, <3>1, NodeFacts DEF Key
  <2>6. /\ k \in Local /\ k.pc = "fetch" /\ k.method = "copy" /\ k.name = n /\ ~k.dir
    <3>1. Idle \in Local /\ Idle.dir = FALSE
      BY IdleFits DEF Idle
    <3> QED BY <1>2, <2>3, <3>1 DEF Local, Label
  <2>7. Fits(c, k)
    BY <2>5, <2>6 DEF Fits, CopyLabel
  <2>8. /\ c \in Proc /\ c # x /\ proc' \in [Proc -> Local] /\ proc'[x] = r /\ proc'[c] = k
        /\ \A y \in Proc : y # x /\ y # c => proc'[y] = proc[y]
    <3>1. c \in Proc /\ c # x
      BY <1>1, <2>4 DEF Proc
    <3>2. r \in Local
      BY <2>2 DEF Fits
    <3> QED BY <2>4, <2>6, <3>1, <3>2 DEF IInv
  <2>9. \A y \in Proc : Fits(y, proc'[y])
    BY <2>2, <2>7, <2>8 DEF IInv
  <2>10. IInv'
    BY <1>1, <2>8, <2>9 DEF IInv, Named, Stored
  <2>11. Frame(proc[x]) /\ Meets(proc[x], r)
    <3>1. \A q \in Path : Kept(q)
      BY <1>1, Unmoved
    <3> QED BY <1>1, <3>1, OwesOnlyHalfWay DEF Frame, Meets, Kept
  <2>12. ASSUME Undisturbed(x) PROVE Settled'
    BY <2>2, <2>4, <2>6, <2>8, <2>11, <2>12, KnowsOnlyKnowing, Settles
  <2> QED BY <2>10, <2>12
<1> QED BY <1>3, <1>4

LEMMA StepHolds ==
  ASSUME IInv, NEW x \in Proc, Step(x)
  PROVE  IInv' /\ (Undisturbed(x) => Settled')
<1>1. CASE StatBackend(x)
  BY <1>1, StatBackendHolds
<1>2. CASE StatCache(x) \/ StatFails(x)
  BY <1>2, StatCacheOutcome, StatFailsOutcome, OutcomeHolds
<1>3. CASE CopyStep(x)
  <2>1. CASE Fetch(x) \/ EnsureDirectory(x) \/ MakeParent(x)
    BY <2>1, FetchOutcome, EnsureDirectoryOutcome, MakeParentOutcome, OutcomeHolds
  <2>2. CASE CreateCopy(x) \/ CreateCopyFails(x) \/ ReadForCopy(x) \/ ReadForCopyFails(x)
    BY <2>2, CreateCopyOutcome, CreateCopyFailsOutcome, ReadForCopyOutcome,
       ReadForCopyFailsOutcome, OutcomeHolds
  <2>3. CASE WriteCopy(x) \/ WriteCopyFails(x)
    BY <2>3, WriteCopyOutcome, WriteCopyFailsOutcome, OutcomeHolds
  <2> QED BY <1>3, <2>1, <2>2, <2>3 DEF CopyStep
<1>4. CASE ReadStep(x)
  <2>1. CASE OpenCached(x) \/ Reopen(x) \/ ReadListing(x)
    BY <2>1, OpenCachedOutcome, ReopenOutcome, ReadListingOutcome, OutcomeHolds
  <2>2. CASE ServeFile(x) \/ ServeKnownListing(x) \/ StoreListing(x)
    BY <2>2, ServeOutcome, OutcomeHolds
  <2> QED BY <1>4, <2>1, <2>2 DEF ReadStep
<1>5. CASE PutStep(x)
  <2>1. CASE CreateOnBackend(x) \/ CreateFails(x) \/ CreateInCache(x) \/ CreateInCacheFails(x)
    BY <2>1, CreateOnBackendOutcome, CreateFailsOutcome, CreateInCacheOutcome,
       CreateInCacheFailsOutcome, OutcomeHolds
  <2>2. CASE WriteBackend(x) \/ WriteFails(x) \/ WriteCache(x) \/ Close(x)
    BY <2>2, WriteBackendOutcome, WriteFailsOutcome, WriteCacheOutcome, CloseOutcome, OutcomeHolds
  <2> QED BY <1>5, <2>1, <2>2 DEF PutStep
<1>6. CASE TreeStep(x)
  <2>1. CASE MkdirBackend(x) \/ MkdirFails(x) \/ MkdirCache(x)
    BY <2>1, MkdirBackendOutcome, MkdirFailsOutcome, MkdirCacheOutcome, OutcomeHolds
  <2>2. CASE RemoveBackend(x) \/ RemoveFails(x) \/ RemoveCache(x) \/ DropRemoved(x)
    BY <2>2, RemoveBackendOutcome, RemoveFailsOutcome, RemoveCacheOutcome, DropRemovedOutcome,
       OutcomeHolds
  <2>3. CASE RenameBackend(x) \/ RenameFails(x) \/ RenameCache(x) \/ DropRenamed(x)
    BY <2>3, RenameBackendOutcome, RenameFailsOutcome, RenameCacheOutcome, DropRenamedOutcome,
       OutcomeHolds
  <2> QED BY <1>6, <2>1, <2>2, <2>3 DEF TreeStep
<1> QED BY <1>1, <1>2, <1>3, <1>4, <1>5, <1>6 DEF Step, StatStep

-----------------------------------------------------------------------------
(* Requests, restarts and the start                                        *)
-----------------------------------------------------------------------------
LEMMA Begins ==
  ASSUME IInv, NEW x \in Thread, NEW r, Fits(x, r), proc[x].pc = "idle",
         r.pc \in {"create", "open", "stat", "mkdir"}, issued < MaxRequests, Issue(x, r)
  PROVE  IInv' /\ (Settled => Settled')
<1>1. /\ x \in Proc /\ r \in Local /\ proc' = [proc EXCEPT ![x] = r] /\ issued' = issued + 1
      /\ UNCHANGED <<node, data, listings, restarts>>
  BY Constants DEF Issue, Become, Fits
<1>2. /\ proc' \in [Proc -> Local] /\ proc'[x] = r
      /\ \A y \in Proc \ {x} : proc'[y] = proc[y]
  BY <1>1 DEF IInv
<1>3. \A y \in Proc : Fits(y, proc'[y])
  BY <1>2 DEF IInv
<1>4. issued' \in 0 .. MaxRequests
  BY <1>1, Constants DEF IInv
<1>5. IInv'
  BY <1>1, <1>2, <1>3, <1>4 DEF IInv, Named, Stored
<1>6. ~Race(x) /\ ~HalfDone(x) /\ ~Refused(x) /\ ~CutShort(x)
  BY DEF Race, Writes, Reads, Writing, Reading, HalfDone, Refused, CutShort
<1>7. Goes(r, proc[x]) /\ r.pc \notin Knowing
  BY DEF Goes, Working, Reading, Writing, Knowing, CopyLabel
<1>8. Frame(proc[x]) /\ Meets(proc[x], r)
  <2>1. \A q \in Path : Kept(q)
    BY <1>1, Unmoved
  <2>2. proc[x].pc \notin HalfWay
    BY DEF HalfWay
  <2> QED BY <2>1, <2>2, OwesOnlyHalfWay DEF Frame, Meets, Kept
<1>9. ASSUME Settled PROVE Settled'
  BY <1>1, <1>2, <1>6, <1>7, <1>8, <1>9, KnowsOnlyKnowing, Settles DEF Undisturbed
<1> QED BY <1>5, <1>9

LEMMA RequestHolds ==
  ASSUME IInv, NEW x \in Thread, Request(x)
  PROVE  IInv' /\ (Settled => Settled')
<1>1. proc[x].pc = "idle" /\ issued < MaxRequests
  BY DEF Request
<1>2. /\ Idle \in Local /\ Idle.dir = FALSE /\ x \notin Copier
      /\ {"GET", "PROPFIND"} \cup Writers \subseteq Method
  BY IdleFits, Constants DEF Idle, Writers, Method
<1>3. CASE IssueRead(x)
  <2>1. PICK m \in {"GET", "PROPFIND"}, p \in Path \cup {Root}, w \in Spellings :
           Issue(x, [Idle EXCEPT !.pc = FirstCall[m], !.method = m,
                                 !.name = [at |-> p, spelled |-> w]])
    BY <1>3 DEF IssueRead
  <2>2. PICK n : n = [at |-> p, spelled |-> w]
    OBVIOUS
  <2>3. n \in Key
    BY <2>2, Constants DEF Key
  <2>4. PICK r : r = [Idle EXCEPT !.pc = FirstCall[m], !.method = m, !.name = n]
    OBVIOUS
  <2>5. FirstCall[m] \in {"open", "stat"}
    BY DEF FirstCall
  <2>6. /\ r \in Local /\ r.pc \in {"open", "stat"} /\ r.method = m /\ ~r.dir
    BY <1>2, <2>3, <2>4, <2>5 DEF Local, Label
  <2>7. Fits(x, r)
    BY <1>2, <2>6 DEF Fits, Writers, CopyLabel
  <2>8. Issue(x, r)
    BY <2>1, <2>2, <2>4
  <2> QED BY <1>1, <2>6, <2>7, <2>8, Begins
<1>4. CASE IssueWrite(x)
  <2>1. PICK m \in Writers \ {"MOVE"}, p \in Path, w \in Spellings :
           Issue(x, [Idle EXCEPT !.pc = FirstCall[m], !.method = m,
                                 !.name = [at |-> p, spelled |-> w],
                                 !.buf = IF m = "PUT" THEN issued + 1 ELSE Empty])
    BY <1>4 DEF IssueWrite
  <2>2. PICK n : n = [at |-> p, spelled |-> w]
    OBVIOUS
  <2>3. n \in Key /\ n.at \in Path
    BY <2>2, Constants DEF Key
  <2>4. PICK b \in Content : b = IF m = "PUT" THEN issued + 1 ELSE Empty
    <3>1. issued + 1 \in 0 .. MaxRequests
      BY <1>1, Constants DEF IInv
    <3> QED BY <3>1, Constants
  <2>5. PICK r : r = [Idle EXCEPT !.pc = FirstCall[m], !.method = m, !.name = n, !.buf = b]
    OBVIOUS
  <2>6. FirstCall[m] \in {"create", "stat", "mkdir"}
    BY DEF FirstCall, Writers
  <2>7. FirstCall[m] = "create" => m = "PUT"
    BY DEF FirstCall, Writers
  <2>8. FirstCall[m] = "mkdir" => m = "MKCOL"
    BY DEF FirstCall, Writers
  <2>9. /\ r \in Local /\ r.pc = FirstCall[m] /\ r.method = m /\ ~r.dir /\ r.name = n
    <3>1. Idle \in Local
      BY <1>2
    <3>2. FirstCall[m] \in Label /\ m \in Method \cup {"none", "copy"}
      BY <2>6 DEF Label, Method, Writers
    <3>3. r = [Idle EXCEPT !.pc = FirstCall[m], !.method = m, !.name = n, !.buf = b]
      BY <2>5
    <3>4. r \in Local
      BY <2>3, <2>4, <3>1, <3>2, <3>3 DEF Local
    <3>5. r.pc = FirstCall[m] /\ r.method = m /\ r.name = n /\ r.dir = Idle.dir
      BY <3>1, <3>3 DEF Local
    <3> QED BY <3>4, <3>5 DEF Idle
  <2>10. Fits(x, r)
    BY <1>2, <2>3, <2>6, <2>7, <2>8, <2>9 DEF Fits, Writers, CopyLabel
  <2>11. Issue(x, r)
    BY <2>1, <2>2, <2>4, <2>5
  <2> QED BY <1>1, <2>6, <2>9, <2>10, <2>11, Begins
<1>5. CASE IssueMove(x)
  <2>1. PICK src \in Path, dst \in Path, w \in Spellings :
           /\ Movable(src, dst)
           /\ Issue(x, [Idle EXCEPT !.pc = FirstCall["MOVE"], !.method = "MOVE",
                                    !.name = [at |-> src, spelled |-> w],
                                    !.to = [at |-> dst, spelled |-> w]])
    BY <1>5 DEF IssueMove
  <2>2. PICK n, o : n = [at |-> src, spelled |-> w] /\ o = [at |-> dst, spelled |-> w]
    OBVIOUS
  <2>3. n \in Key /\ o \in Key /\ n.at = src /\ o.at = dst
    BY <2>2, Constants DEF Key
  <2>4. PICK r : r = [Idle EXCEPT !.pc = FirstCall["MOVE"], !.method = "MOVE", !.name = n, !.to = o]
    OBVIOUS
  <2>5. FirstCall["MOVE"] = "stat" /\ "MOVE" \in Writers
    BY DEF FirstCall, Writers
  <2>6. /\ r \in Local /\ r.pc = "stat" /\ r.method = "MOVE" /\ ~r.dir /\ r.name = n /\ r.to = o
    BY <1>2, <2>3, <2>4, <2>5 DEF Local, Label
  <2>7. Fits(x, r)
    BY <1>2, <2>1, <2>3, <2>6 DEF Fits, Writers, CopyLabel
  <2>8. Issue(x, r)
    BY <2>1, <2>2, <2>4
  <2> QED BY <1>1, <2>6, <2>7, <2>8, Begins
<1> QED BY <1>3, <1>4, <1>5 DEF Request

LEMMA RestartHolds ==
  ASSUME IInv, Restart
  PROVE  IInv' /\ (Settled /\ (\A x \in Proc : proc[x].pc \notin HalfWay) => Settled')
<1>1. /\ proc' = [x \in Proc |-> Idle] /\ node' = node /\ data' = Scrubbed(data, node, proc')
      /\ listings' = [k \in Key |-> Unlisted] /\ issued' = issued
      /\ restarts' = restarts + 1 /\ restarts < MaxRestarts
  BY DEF Restart
<1>2. Named(node') /\ Stored(data') /\ \A q \in Path : Kept(q)
  BY <1>1, Unmoved
<1>3. \A x \in Proc : proc'[x] = Idle
  BY <1>1
<1>4. proc' \in [Proc -> Local] /\ \A x \in Proc : Fits(x, proc'[x])
  BY <1>1, <1>3, IdleFits
<1>5. listings' \in [Key -> Listing]
  BY <1>1 DEF Unlisted, Listing
<1>6. restarts' \in 0 .. MaxRestarts /\ issued' \in 0 .. MaxRequests
  BY <1>1, Constants DEF IInv
<1>7. IInv'
  BY <1>2, <1>4, <1>5, <1>6 DEF IInv, Named, Stored
<1>8. ASSUME Settled, \A x \in Proc : proc[x].pc \notin HalfWay
      PROVE  Settled'
  <2>1. \A p \in Path : Current(p)'
    <3>1. \A p \in Path : Current(p)
      BY <1>8, OwesOnlyHalfWay DEF Settled
    <3> QED BY <1>2, <3>1, Constants DEF Current, Like, Kept, BackendKept, CacheKept
  <2>2. Idle.pc \notin Writing /\ Idle.pc \notin Knowing
    BY IdleFits DEF Writing, Knowing, CopyLabel
  <2>3. \A y \in Proc : \A k : k = proc'[y] => Knows(k)'
    BY <1>3, <2>2, KnowsOnlyKnowing
  <2> QED
    BY <1>3, <2>1, <2>2, <2>3
       DEF Settled, Excluded, Knows, KnowsCopy, KnowsServed, KnowsWritten, KnowsRenamed, Like
<1> QED BY <1>7, <1>8

LEMMA StaysSettled ==
  ASSUME UNCHANGED vars
  PROVE  (IInv => IInv') /\ (Settled => Settled')
<1>1. IInv => IInv'
  BY DEF vars, IInv, Named, Stored
<1>2. Settled => Settled'
  BY ZenonT(60) DEF vars, Settled, Knows, KnowsCopy, KnowsServed, KnowsWritten, KnowsRenamed, Current, Like
<1> QED BY <1>1, <1>2

LEMMA InitHolds ==
  ASSUME Init
  PROVE  IInv /\ Settled
<1>1. PICK kept \in SUBSET { p \in Path : InitialNode[p] # Absent } :
        /\ \A p \in kept, d \in Path : IsUnder(p, d) => d \in kept
        /\ node = [side \in Side |->
                      IF side = "backend" THEN InitialNode
                      ELSE [p \in Path |-> IF p \in kept THEN InitialNode[p] ELSE Absent]]
  BY DEF Init
<1>2. /\ "cache" \in Side /\ "backend" \in Side /\ Side = {"cache", "backend"}
      /\ node["backend"] = InitialNode
      /\ node["cache"] = [p \in Path |-> IF p \in kept THEN InitialNode[p] ELSE Absent]
  BY <1>1 DEF Side
<1>3. /\ InitialNode \in [Path -> Inode \cup {Absent, Directory}]
      /\ \A p, d \in Path : InitialNode[p] # Absent /\ IsUnder(p, d) => InitialNode[d] = Directory
      /\ \A p, q \in Path : InitialNode[p] \in Inode /\ InitialNode[q] = InitialNode[p] => p = q
  <2>1. \A p \in Path : InitialNode[p] \in Inode => IsFile(InitialNode, p)
    BY Constants DEF IsFile, At
  <2> QED BY <2>1, CopyOnReadAssumption
<1>4. \A p \in Path : InitialNode[p] > 0 => InitialNode[p] \in Inode
  BY <1>3, Constants
<1>5. IsTree(node["backend"])
  BY <1>2, <1>3, <1>4 DEF IsTree
<1>6. IsTree(node["cache"])
  BY <1>1, <1>2, <1>3, <1>4, Constants DEF IsTree
<1>7. Named(node)
  BY <1>1, <1>2, <1>3, <1>5, <1>6 DEF Named
<1>8. /\ Stored(data)
      /\ \A side \in Side, p \in Path :
            node[side][p] \in Inode => data[side][node[side][p]] = MaxRequests + node[side][p]
  <2>1. data = [side \in Side |-> [i \in Inode |->
                   IF \E p \in Path : node[side][p] = i THEN MaxRequests + i ELSE Empty]]
    BY DEF Init
  <2>2. \A i \in Inode : MaxRequests + i \in Content /\ Empty \in Content
    BY Constants
  <2> QED BY <2>1, <2>2 DEF Stored
<1>9. /\ proc = [x \in Proc |-> Idle] /\ listings = [k \in Key |-> Unlisted]
      /\ issued = 0 /\ restarts = 0
  BY DEF Init
<1>10. IInv
  <2>1. listings \in [Key -> Listing]
    BY <1>9 DEF Unlisted, Listing
  <2>2. proc \in [Proc -> Local] /\ \A x \in Proc : Fits(x, proc[x])
    BY <1>9, IdleFits
  <2> QED BY <1>7, <1>8, <1>9, <2>1, <2>2, Constants DEF IInv
<1>11. ASSUME NEW p \in Path PROVE Current(p)
  <2>1. CASE node["cache"][p] = Absent
    BY <2>1 DEF Current, Like
  <2>2. CASE node["cache"][p] # Absent
    <3>1. node["cache"][p] = node["backend"][p]
      BY <1>2, <2>2
    <3>2. node["cache"][p] \in Inode \/ node["cache"][p] = Directory
      BY <1>2, <1>7, <2>2 DEF Named
    <3> QED BY <1>2, <1>8, <3>1, <3>2 DEF Current, Like
  <2> QED BY <2>1, <2>2
<1>12. \A x \in Proc : Knows(proc[x]) /\ proc[x].pc \notin Writing
  <2>1. Idle.pc \notin Knowing /\ Idle.pc \notin Writing
    BY IdleFits DEF Knowing, CopyLabel, Writing
  <2> QED BY <1>9, <2>1, KnowsOnlyKnowing
<1> QED BY <1>10, <1>11, <1>12 DEF Settled, Excluded

-----------------------------------------------------------------------------
(* The theorems                                                            *)
-----------------------------------------------------------------------------
(* Whatever the methods, the errors and the restarts, and however requests *)
(* and copiers interleave, every variable stays in its range: handles name *)
(* inodes, names lie in the tree, listings hold components                 *)
(* (filesystem.go:26-258).                                                 *)
THEOREM CopyOnReadTypes == Spec => []TypeOK
<1>1. Init => IInv
  BY InitHolds
<1>2. IInv /\ [Next]_vars => IInv'
  <2> SUFFICES ASSUME IInv, [Next]_vars PROVE IInv'
    OBVIOUS
  <2>1. CASE \E x \in Proc : Step(x)
    BY <2>1, StepHolds
  <2>2. CASE \E x \in Thread : Request(x)
    BY <2>2, RequestHolds
  <2>3. CASE Restart
    BY <2>3, RestartHolds
  <2>4. CASE UNCHANGED vars
    BY <2>4, StaysSettled
  <2> QED BY <2>1, <2>2, <2>3, <2>4 DEF Next, BudgetSpent
<1>3. IInv => TypeOK
  BY DEF IInv, Named, Stored, TypeOK
<1> QED BY <1>1, <1>2, <1>3, PTL DEF Spec

(* What an undisturbed behaviour has settled, and a disturbed one need not.*)
RInv == IInv /\ disturbed \in BOOLEAN /\ (~disturbed => Settled)

LEMMA RInvInductive ==
  /\ RacesInit => RInv
  /\ RInv /\ [RacesNext]_racesVars => RInv'
<1>1. RacesInit => RInv
  BY InitHolds DEF RacesInit, RInv
<1>2. ASSUME RInv, [RacesNext]_racesVars PROVE RInv'
  <2>1. CASE /\ ~disturbed
             /\ \E x \in Proc : Step(x) /\ disturbed' = (Race(x) \/ HalfDone(x) \/ Refused(x) \/ CutShort(x))
    <3>1. PICK x \in Proc : Step(x) /\ disturbed' = (Race(x) \/ HalfDone(x) \/ Refused(x) \/ CutShort(x))
      BY <2>1
    <3>2. IInv /\ Settled
      BY <1>2, <2>1 DEF RInv
    <3>3. IInv' /\ (Undisturbed(x) => Settled')
      BY <3>1, <3>2, StepHolds
    <3>4. ~disturbed' => Undisturbed(x)
      BY <3>1, <3>2 DEF Undisturbed
    <3>5. disturbed' \in BOOLEAN
      BY <3>1
    <3> QED BY <3>3, <3>4, <3>5 DEF RInv
  <2>2. CASE ~disturbed /\ (\E x \in Thread : Request(x)) /\ UNCHANGED disturbed
    BY <1>2, <2>2, RequestHolds DEF RInv
  <2>3. CASE ~disturbed /\ Restart /\ disturbed' = \E x \in Proc : proc[x].pc \in HalfWay
    BY <1>2, <2>3, RestartHolds DEF RInv
  <2>4. CASE UNCHANGED vars /\ UNCHANGED disturbed
    BY <1>2, <2>4, StaysSettled DEF RInv
  <2> QED BY <1>2, <2>1, <2>2, <2>3, <2>4 DEF RacesNext, racesVars, BudgetSpent
<1> QED BY <1>1, <1>2

LEMMA SettledIsCurrent ==
  ASSUME IInv, Settled, NEW p \in Path, Exists(node["cache"], p)
  PROVE  \/ \E x \in Proc : /\ proc[x].pc \in Working
                            /\ \E q \in PathsOf(x) : RelatedPaths(p, q)
         \/ IsDir(node["cache"], p) /\ IsDir(node["backend"], p)
         \/ /\ IsFile(node["cache"], p) /\ IsFile(node["backend"], p)
            /\ data["cache"][node["cache"][p]] = data["backend"][node["backend"][p]]
<1>1. CASE Current(p)
  <2>1. "cache" \in Side /\ "backend" \in Side
    BY DEF Side
  <2> QED BY <1>1, <2>1, NodeFacts DEF Current, Like
<1>2. CASE \E x \in Proc : Owes(proc[x], p)
  <2>1. PICK x \in Proc : proc[x].pc \in Working /\ Ours(proc[x], p)
    BY <1>2, OwesWorks
  <2>2. PICK q \in PathsOf(x) : AtOrUnder(p, q)
    BY <2>1, Places DEF Ours
  <2> QED BY <2>1, <2>2 DEF AtOrUnder, RelatedPaths
<1> QED BY <1>1, <1>2 DEF Settled

(* As long as nothing has disturbed it, the cache holds nothing but what   *)
(* the backend holds wherever no request is at work, for any number of     *)
(* requests, copiers, paths and restarts (filesystem.go:26-40, :145-180,   *)
(* :228-258, :367-382).                                                    *)
THEOREM UndisturbedCacheIsCurrent == RacesSpec => []CachedIsCurrent
<1>1. RInv => CachedIsCurrent
  BY SettledIsCurrent DEF RInv, CachedIsCurrent
<1> QED BY <1>1, RInvInductive, PTL DEF RacesSpec

LEMMA SettledReads ==
  ASSUME IInv, Settled, NEW x \in Thread, proc[x].pc = "serve", ~proc[x].dir,
         \A y \in Proc \ {x} :
            ~(proc[y].pc \in {"copyread", "copywrite"} /\ PathOf(y) = PathOf(x))
  PROVE  /\ IsFile(node["backend"], PathOf(x))
         /\ Served(x) = data["backend"][node["backend"][PathOf(x)]]
<1>1. PICK s \in Local : s = proc[x] /\ Fits(x, s) /\ x \in Proc
  BY ProcFacts, Constants
<1>2. PICK p \in Path : p = s.name.at /\ p = PathOf(x)
  BY <1>1 DEF Fits, PathOf
<1>3. s.side \in {"backend", "cache"} /\ "backend" \in Side /\ "cache" \in Side
  BY <1>1 DEF Local, Side
<1>4. Knows(s)
  BY <1>1 DEF Settled
<1>5. CASE s.side = "backend"
  <2>1. node["backend"][p] = s.from /\ s.from \in Inode
    BY <1>1, <1>2, <1>4, <1>5 DEF Knows, KnowsServed, Fits
  <2> QED BY <1>1, <1>2, <1>3, <1>5, <2>1, NodeFacts DEF Served
<1>6. CASE s.side = "cache"
  <2>1. node["cache"][p] = s.fd /\ s.fd \in Inode
    BY <1>1, <1>2, <1>4, <1>6 DEF Knows, KnowsServed, Fits
  <2>2. ASSUME NEW y \in Proc, Owes(proc[y], p) PROVE FALSE
    <3>1. y # x
      BY <1>1, <2>2 DEF Owes
    <3>2. ~(proc[y].pc \in {"copyread", "copywrite"} /\ p = proc[y].name.at)
      BY <1>2, <3>1 DEF PathOf
    <3>3. proc[y].pc \in Writing
      BY <2>2, <3>2 DEF Owes, Writing
    <3>4. PICK a \in PlacesOf(proc[y]) : AtOrUnder(p, a)
      BY <2>2, OwesWorks DEF Ours
    <3>5. p \in PlacesOf(proc[x]) /\ proc[x].pc \in Working
      BY <1>1, <1>2 DEF PlacesOf, Working, Reading
    <3>6. ~RelatedPaths(a, p)
      BY <1>1, <3>1, <3>3, <3>5 DEF Settled, Excluded
    <3> QED BY <3>4, <3>6 DEF AtOrUnder, RelatedPaths
  <2>3. Current(p)
    BY <2>2 DEF Settled
  <2>4. node["backend"][p] \in Inode /\ data["cache"][s.fd] = data["backend"][node["backend"][p]]
    BY <2>1, <2>3, Constants DEF Current, Like
  <2> QED BY <1>1, <1>2, <1>3, <1>6, <2>4, NodeFacts DEF Served
<1> QED BY <1>3, <1>5, <1>6

(* As long as nothing has disturbed the cache, a GET sends what the file   *)
(* holds, whichever of the two handles it was given, unless somebody else  *)
(* is copying the same file at that moment (filesystem.go:72-143, :228-258)*)
THEOREM UndisturbedReads == RacesSpec => []UndisturbedReadsAreTrue
<1>1. RInv => UndisturbedReadsAreTrue
  BY SettledReads DEF RInv, UndisturbedReadsAreTrue
<1> QED BY <1>1, RInvInductive, PTL DEF RacesSpec
=============================================================================
