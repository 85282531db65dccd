---------------------------- MODULE CappedProofs ----------------------------
(***************************************************************************)
(* Capped is type correct, curSize never falls below the sizes recorded,   *)
(* for any set of paths, any number of goroutines, any cap, any backend    *)
(* failures and any number of restarts, and with one goroutine the disk is *)
(* full only when nothing can be evicted.                                  *)
(*                                                                         *)
(* First what each critical section of SizeLedger makes of a ledger: the   *)
(* sums, the entries and their order.  The inductive invariant then adds   *)
(* to the properties what each goroutine relies on where it stands: that   *)
(* it has a name to record under, that a victim has been chosen, that the  *)
(* handle it writes to is open, that the scan it will go on with is not    *)
(* over.                                                                   *)
(***************************************************************************)
EXTENDS Capped, FiniteSetTheorems, SequenceTheorems, TLAPS

Sound(l) == l \in Ledger /\ SizeOf(l.files, Name) <= l.curSize

-----------------------------------------------------------------------------
(* Sums of sizes                                                           *)
-----------------------------------------------------------------------------
(* There are finitely many names, two per path.                            *)
LEMMA NameFinite == IsFiniteSet(Name)
<1> DEFINE F == {"rel", "abs"}
           g == [x \in F \X Path |-> [form |-> x[1], at |-> x[2]]]
<1>1. IsFiniteSet(F)
  <2>1. IsFiniteSet({"rel"})
    BY FS_Singleton
  <2>2. IsFiniteSet({"rel"} \cup {"abs"})
    BY <2>1, FS_AddElement
  <2> QED BY <2>2
<1>2. IsFiniteSet(F \X Path)
  BY <1>1, PathsAreSequences, FS_Product
<1>3. ASSUME NEW n \in Name
      PROVE  \E x \in F \X Path : g[x] = n
  <2>1. <<n.form, n.at>> \in F \X Path
    BY DEF Name
  <2>2. g[<<n.form, n.at>>] = n
    BY <2>1 DEF Name
  <2> QED BY <2>1, <2>2
<1>4. g \in Surjection(F \X Path, Name)
  <2>1. g \in [F \X Path -> Name]
    BY DEF Name
  <2> QED BY <1>3, <2>1 DEF Surjection
<1> QED BY <1>2, <1>4, FS_Surjection

(* A sum is over a finite set of bytes.                                    *)
LEMMA BytesFinite ==
  ASSUME NEW files \in [Name -> Entry], NEW S \in SUBSET Name
  PROVE  /\ IsFiniteSet(BytesOf(files, S))
         /\ SizeOf(files, S) \in Nat
<1> DEFINE Rows == { {n} \X (1 .. files[n].size) : n \in S }
           row == [n \in S |-> {n} \X (1 .. files[n].size)]
<1>1. IsFiniteSet(S)
  BY NameFinite, FS_Subset
<1>2. row \in Surjection(S, Rows)
  BY DEF Surjection
<1>3. IsFiniteSet(Rows)
  BY <1>1, <1>2, FS_Surjection
<1>4. ASSUME NEW r \in Rows
      PROVE  IsFiniteSet(r)
  <2>1. PICK n \in S : r = {n} \X (1 .. files[n].size)
    OBVIOUS
  <2>2. files[n].size \in Nat
    BY DEF Entry
  <2>3. IsFiniteSet(1 .. files[n].size)
    BY <2>2, FS_Interval
  <2>4. IsFiniteSet({n})
    BY FS_Singleton
  <2> QED BY <2>1, <2>3, <2>4, FS_Product
<1>5. IsFiniteSet(BytesOf(files, S))
  BY <1>3, <1>4, FS_UNION DEF BytesOf
<1> QED BY <1>5, FS_CardinalityType DEF SizeOf

(* The sum over one name is its size.                                      *)
LEMMA SizeOfOne ==
  ASSUME NEW files \in [Name -> Entry], NEW n \in Name
  PROVE  SizeOf(files, {n}) = files[n].size
<1>1. files[n].size \in Nat
  BY DEF Entry
<1>2. IsFiniteSet(1 .. files[n].size) /\ Cardinality(1 .. files[n].size) = files[n].size
  <2>1. PICK a \in Int, b \in Int : a = 1 /\ b = files[n].size
    BY <1>1
  <2>2. /\ IsFiniteSet(a .. b)
        /\ Cardinality(a .. b) = IF a > b THEN 0 ELSE b - a + 1
    BY FS_Interval
  <2>3. (IF a > b THEN 0 ELSE b - a + 1) = b
    BY <1>1, <2>1
  <2> QED BY <2>1, <2>2, <2>3
<1>3. IsFiniteSet({n}) /\ Cardinality({n}) = 1
  BY FS_Singleton
<1>4. Cardinality({n} \X (1 .. files[n].size)) = files[n].size
  <2> DEFINE row == 1 .. files[n].size
  <2>1. Cardinality({n} \X row) = Cardinality({n}) * Cardinality(row)
    <3> HIDE DEF row
    <3> QED BY <1>2, <1>3, FS_Product DEF row
  <2>2. Cardinality({n} \X row) = 1 * files[n].size
    BY <1>2, <1>3, <2>1
  <2> QED BY <1>1, <2>2
<1>5. BytesOf(files, {n}) = {n} \X (1 .. files[n].size)
  BY DEF BytesOf
<1> QED BY <1>1, <1>4, <1>5 DEF SizeOf

(* Sums over disjoint sets add up.                                         *)
LEMMA SizeOfSplit ==
  ASSUME NEW files \in [Name -> Entry], NEW S \in SUBSET Name, NEW T \in SUBSET S
  PROVE  SizeOf(files, S) = SizeOf(files, T) + SizeOf(files, S \ T)
<1>1. BytesOf(files, S) = BytesOf(files, T) \cup BytesOf(files, S \ T)
  BY DEF BytesOf
<1>2. BytesOf(files, T) \cap BytesOf(files, S \ T) = {}
  BY DEF BytesOf
<1>3. IsFiniteSet(BytesOf(files, T)) /\ IsFiniteSet(BytesOf(files, S \ T))
  BY BytesFinite
<1>4. Cardinality({}) = 0
  BY FS_EmptySet
<1>5. SizeOf(files, T) \in Nat /\ SizeOf(files, S \ T) \in Nat
  BY BytesFinite
<1> DEFINE A == BytesOf(files, T)   B == BytesOf(files, S \ T)
<1>6. Cardinality(A \cup B) = Cardinality(A) + Cardinality(B) - Cardinality(A \cap B)
  <2> HIDE DEF A, B
  <2> QED BY <1>3, FS_Union DEF A, B
<1>7. Cardinality(A \cup B) = Cardinality(A) + Cardinality(B) - 0
  BY <1>2, <1>4, <1>6
<1> QED BY <1>1, <1>5, <1>7 DEF SizeOf

(* A sum depends on nothing but the sizes.                                 *)
LEMMA SizeOfSame ==
  ASSUME NEW f, NEW g, NEW S, \A n \in S : f[n].size = g[n].size
  PROVE  SizeOf(f, S) = SizeOf(g, S)
<1>1. BytesOf(f, S) = BytesOf(g, S)
  BY DEF BytesOf
<1> QED BY <1>1 DEF SizeOf

(* Changing one entry changes the total by the difference of its sizes.    *)
LEMMA SizeOfChange ==
  ASSUME NEW f \in [Name -> Entry], NEW g \in [Name -> Entry], NEW n \in Name,
         \A m \in Name \ {n} : g[m].size = f[m].size
  PROVE  SizeOf(g, Name) = SizeOf(f, Name) - f[n].size + g[n].size
<1>1. SizeOf(f, Name) = f[n].size + SizeOf(f, Name \ {n})
  <2>1. SizeOf(f, Name) = SizeOf(f, {n}) + SizeOf(f, Name \ {n})
    BY SizeOfSplit
  <2> QED BY <2>1, SizeOfOne
<1>2. SizeOf(g, Name) = g[n].size + SizeOf(g, Name \ {n})
  <2>1. SizeOf(g, Name) = SizeOf(g, {n}) + SizeOf(g, Name \ {n})
    BY SizeOfSplit
  <2> QED BY <2>1, SizeOfOne
<1>3. SizeOf(f, Name \ {n}) = SizeOf(g, Name \ {n})
  BY SizeOfSame
<1>4. SizeOf(f, Name \ {n}) \in Nat
  BY BytesFinite
<1>5. f[n].size \in Nat /\ g[n].size \in Nat
  BY DEF Entry
<1> QED BY <1>1, <1>2, <1>3, <1>4, <1>5

(* If every non-empty entry of g is an entry of f under another name, and  *)
(* no two of them the same one, g has no more bytes than f.                *)
LEMMA SizeOfInto ==
  ASSUME NEW f \in [Name -> Entry], NEW g \in [Name -> Entry],
         NEW S \in SUBSET Name, NEW src \in [S -> Name],
         \A n \in Name \ S : g[n].size = 0,
         \A n \in S : g[n].size = f[src[n]].size,
         \A m, n \in S : src[m] = src[n] => m = n
  PROVE  SizeOf(g, Name) <= SizeOf(f, Name)
<1> DEFINE B == BytesOf(g, Name)   C == BytesOf(f, Name)
           h == [b \in B |-> <<src[b[1]], b[2]>>]
<1>1. ASSUME NEW b \in B
      PROVE  b[1] \in S /\ b = <<b[1], b[2]>> /\ b[2] \in 1 .. f[src[b[1]]].size
  <2>1. PICK n \in Name : b \in {n} \X (1 .. g[n].size)
    BY DEF BytesOf
  <2>2. n \in S
    <3>1. 1 .. 0 = {}
      OBVIOUS
    <3> QED BY <2>1, <3>1
  <2> QED BY <2>1, <2>2
<1>2. ASSUME NEW b \in B
      PROVE  h[b] \in C
  <2>1. src[b[1]] \in Name /\ b[2] \in 1 .. f[src[b[1]]].size
    BY <1>1
  <2>2. h[b] = <<src[b[1]], b[2]>>
    OBVIOUS
  <2> QED BY <2>1, <2>2 DEF BytesOf
<1>3. ASSUME NEW b \in B, NEW c \in B, h[b] = h[c]
      PROVE  b = c
  <2>1. src[b[1]] = src[c[1]] /\ b[2] = c[2]
    BY <1>3
  <2>2. b[1] = c[1]
    BY <1>1, <2>1
  <2> QED BY <1>1, <2>1, <2>2
<1>4. h \in Injection(B, C)
  BY <1>2, <1>3 DEF Injection, IsInjective
<1>5. IsFiniteSet(C)
  BY BytesFinite
<1> QED BY <1>4, <1>5, FS_Injection DEF SizeOf

-----------------------------------------------------------------------------
(* The clock                                                               *)
-----------------------------------------------------------------------------
(* Renumbering the access times changes neither kinds nor sizes.           *)
LEMMA RenumberKeeps ==
  ASSUME NEW files \in [Name -> Entry]
  PROVE  /\ Renumber(files) \in [Name -> Entry]
         /\ \A n \in Name : /\ Renumber(files)[n].size = files[n].size
                            /\ Renumber(files)[n].kind = files[n].kind
<1> DEFINE rank(n) == Cardinality({ m \in Tracked(files) : files[m].at <= files[n].at })
<1>1. ASSUME NEW n \in Name
      PROVE  rank(n) \in Nat
  <2>1. { m \in Tracked(files) : files[m].at <= files[n].at } \in SUBSET Name
    BY DEF Tracked
  <2>2. IsFiniteSet({ m \in Tracked(files) : files[m].at <= files[n].at })
    BY <2>1, NameFinite, FS_Subset
  <2> QED BY <2>2, FS_CardinalityType
<1>2. ASSUME NEW n \in Name
      PROVE  /\ Renumber(files)[n] \in Entry
             /\ Renumber(files)[n].size = files[n].size
             /\ Renumber(files)[n].kind = files[n].kind
  <2> DEFINE time == IF files[n].kind = "none" THEN 0 ELSE rank(n)
  <2>1. time \in Nat
    BY <1>1
  <2>2. Renumber(files)[n] = [files[n] EXCEPT !.at = time]
    BY DEF Renumber
  <2>3. files[n] \in Entry
    OBVIOUS
  <2> HIDE DEF time
  <2> QED BY <2>1, <2>2, <2>3 DEF Entry
<1>3. Renumber(files) = [n \in Name |-> Renumber(files)[n]]
  BY DEF Renumber
<1> QED BY <1>2, <1>3

(* The stamp given to an access is a time.                                 *)
LEMMA NewestType == Newest \in Nat
BY NameFinite, FS_CardinalityType DEF Newest

(* Renumbering does not change the total.                                  *)
LEMMA RenumberTotal ==
  ASSUME NEW files \in [Name -> Entry]
  PROVE  SizeOf(Renumber(files), Name) = SizeOf(files, Name)
BY RenumberKeeps, SizeOfSame

(* Replacing an entry changes the total by the difference of the sizes.    *)
LEMMA SetTotal ==
  ASSUME NEW files \in [Name -> Entry], NEW n \in Name, NEW e \in Entry
  PROVE  /\ Set(files, n, e) \in [Name -> Entry]
         /\ SizeOf(Set(files, n, e), Name)
              = SizeOf(files, Name) - files[n].size + e.size
<1> DEFINE g == [files EXCEPT ![n] = e]
<1>1. g \in [Name -> Entry] /\ g[n] = e /\ \A m \in Name \ {n} : g[m] = files[m]
  OBVIOUS
<1>2. SizeOf(g, Name) = SizeOf(files, Name) - files[n].size + g[n].size
  <2> HIDE DEF g
  <2> QED BY <1>1, SizeOfChange
<1> QED BY <1>1, <1>2, RenumberKeeps, RenumberTotal DEF Set

-----------------------------------------------------------------------------
(* Critical sections that touch one entry                                  *)
-----------------------------------------------------------------------------
(* The empty ledger of a new FileSystem.                                   *)
LEMMA EmptySound == Sound(EmptyLedger)
<1>1. EmptyLedger \in Ledger
  BY DEF EmptyLedger, Ledger, NoEntry, Entry
<1>2. BytesOf(EmptyLedger.files, Name) = {}
  <2>1. 1 .. 0 = {}
    OBVIOUS
  <2>2. \A n \in Name : EmptyLedger.files[n].size = 0
    BY DEF EmptyLedger, NoEntry
  <2> QED BY <2>1, <2>2 DEF BytesOf
<1>3. SizeOf(EmptyLedger.files, Name) = 0
  BY <1>2, FS_EmptySet DEF SizeOf
<1> QED BY <1>1, <1>3 DEF Sound, EmptyLedger

(* What a ledger is made of.                                               *)
LEMMA LedgerParts ==
  ASSUME NEW l, Sound(l)
  PROVE  /\ l.files \in [Name -> Entry]
         /\ l.curSize \in Int
         /\ SizeOf(l.files, Name) \in Nat
         /\ SizeOf(l.files, Name) <= l.curSize
         /\ \A n \in Name : l.files[n].size \in Nat
<1>1. l.files \in [Name -> Entry] /\ l.curSize \in Int
  BY DEF Sound, Ledger
<1> QED BY <1>1, BytesFinite DEF Sound, Entry

(* A fresh entry is an entry.                                              *)
LEMMA FreshType ==
  ASSUME NEW dir \in BOOLEAN, NEW size \in Nat
  PROVE  /\ Fresh(dir, size) \in Entry
         /\ Fresh(dir, size).size = IF dir THEN 0 ELSE size
<1>1. CASE dir
  BY <1>1, NewestType DEF Fresh, Entry
<1>2. CASE ~dir
  BY <1>2, NewestType DEF Fresh, Entry
<1> QED BY <1>1, <1>2

(* Mkdir and the directories of the scan.                                  *)
LEMMA TrackDirSound ==
  ASSUME NEW l, Sound(l), NEW n \in Name
  PROVE  Sound(TrackDir(l, n))
<1> DEFINE g == Set(l.files, n, Fresh(TRUE, 0))
<1>1. Fresh(TRUE, 0) \in Entry /\ Fresh(TRUE, 0).size = 0
  BY FreshType
<1>2. g \in [Name -> Entry] /\ SizeOf(g, Name) = SizeOf(l.files, Name) - l.files[n].size + 0
  BY <1>1, LedgerParts, SetTotal
<1>3. TrackDir(l, n) = [files |-> g, curSize |-> l.curSize]
  <2>1. l = [files |-> l.files, curSize |-> l.curSize]
    BY DEF Sound, Ledger
  <2>2. [l EXCEPT !.files = g] = [files |-> g, curSize |-> l.curSize]
    <3> HIDE DEF g
    <3> QED BY <2>1
  <2> QED BY <2>2 DEF TrackDir
<1> HIDE DEF g
<1> QED BY <1>2, <1>3, LedgerParts DEF Sound, Ledger

(* The regular files of the scan.                                          *)
LEMMA TrackScannedSound ==
  ASSUME NEW l, Sound(l), NEW n \in Name, NEW size \in Nat
  PROVE  Sound(TrackScanned(l, n, size))
<1> DEFINE g == Set(l.files, n, Fresh(FALSE, size))
<1>1. Fresh(FALSE, size) \in Entry /\ Fresh(FALSE, size).size = size
  BY FreshType
<1>2. g \in [Name -> Entry] /\ SizeOf(g, Name) = SizeOf(l.files, Name) - l.files[n].size + size
  BY <1>1, LedgerParts, SetTotal
<1>3. TrackScanned(l, n, size) = [files |-> g, curSize |-> l.curSize + size]
  BY DEF TrackScanned
<1> HIDE DEF g
<1> QED BY <1>2, <1>3, LedgerParts DEF Sound, Ledger

(* Names seen for the first time.                                          *)
LEMMA TrackNewSound ==
  ASSUME NEW l, Sound(l), NEW n \in Name, NEW dir \in BOOLEAN, NEW size \in Nat
  PROVE  Sound(TrackNew(l, n, dir, size))
<1> DEFINE g == Set(l.files, n, Fresh(dir, size))
           s == IF dir THEN 0 ELSE size
<1>1. Fresh(dir, size) \in Entry /\ Fresh(dir, size).size = s /\ s \in Nat
  BY FreshType
<1>2. g \in [Name -> Entry] /\ SizeOf(g, Name) = SizeOf(l.files, Name) - l.files[n].size + s
  BY <1>1, LedgerParts, SetTotal
<1>3. TrackNew(l, n, dir, size) = [files |-> g, curSize |-> l.curSize + s]
  BY DEF TrackNew
<1> HIDE DEF g, s
<1> QED BY <1>1, <1>2, <1>3, LedgerParts DEF Sound, Ledger

(* A change of size.                                                       *)
LEMMA ResizedSound ==
  ASSUME NEW l, Sound(l), NEW n \in Name, NEW size \in Nat
  PROVE  Sound(Resized(l, n, size))
<1> DEFINE g == [l.files EXCEPT ![n].size = size]
<1>1. g \in [Name -> Entry] /\ g[n].size = size /\ \A m \in Name \ {n} : g[m] = l.files[m]
  BY LedgerParts DEF Entry
<1>2. Resized(l, n, size) = [files |-> g, curSize |-> l.curSize - l.files[n].size + size]
  BY DEF Resized
<1> HIDE DEF g
<1>3. SizeOf(g, Name) = SizeOf(l.files, Name) - l.files[n].size + size
  BY <1>1, LedgerParts, SizeOfChange
<1> QED BY <1>1, <1>2, <1>3, LedgerParts DEF Sound, Ledger

(* An access.                                                              *)
LEMMA TouchSound ==
  ASSUME NEW l, Sound(l), NEW n \in Name
  PROVE  Sound(Touch(l, n))
<1> DEFINE g == [l.files EXCEPT ![n].at = Newest]
<1>1. CASE IsTracked(l, n)
  <2>1. g \in [Name -> Entry] /\ \A m \in Name : g[m].size = l.files[m].size
    BY LedgerParts, NewestType DEF Entry
  <2>2. Touch(l, n) = [files |-> Renumber(g), curSize |-> l.curSize]
    BY <1>1 DEF Touch, Sound, Ledger
  <2> HIDE DEF g
  <2>3. SizeOf(g, Name) = SizeOf(l.files, Name)
    BY <2>1, SizeOfSame
  <2>4. Renumber(g) \in [Name -> Entry] /\ SizeOf(Renumber(g), Name) = SizeOf(g, Name)
    BY <2>1, RenumberKeeps, RenumberTotal
  <2> QED BY <2>2, <2>3, <2>4, LedgerParts DEF Sound, Ledger
<1>2. CASE ~IsTracked(l, n)
  BY <1>2 DEF Touch
<1> QED BY <1>1, <1>2

(* The locked half of Stat.                                                *)
LEMMA ObserveSound ==
  ASSUME NEW l, Sound(l), NEW n \in Name, NEW dir \in BOOLEAN, NEW size \in Nat
  PROVE  Sound(Observe(l, n, dir, size))
BY TrackNewSound, TouchSound, ResizedSound DEF Observe

(* updateFileSize, at the end of Close.                                    *)
LEMMA UpdateSizeSound ==
  ASSUME NEW l, Sound(l), NEW n \in Name, NEW dir \in BOOLEAN, NEW size \in Nat
  PROVE  Sound(UpdateSize(l, n, dir, size))
BY TrackNewSound, ResizedSound DEF UpdateSize

-----------------------------------------------------------------------------
(* Critical sections that touch many entries                               *)
-----------------------------------------------------------------------------
(* Deleting entries: the total falls by everything they held, curSize only *)
(* by what the regular files among them held.                              *)
LEMMA ForgetSound ==
  ASSUME NEW l, Sound(l), NEW S \in SUBSET Name
  PROVE  Sound(Forget(l, S))
<1> DEFINE g == [n \in Name |-> IF n \in S THEN NoEntry ELSE l.files[n]]
           F == { n \in S : l.files[n].kind = "file" }
<1>1. g \in [Name -> Entry]
  BY LedgerParts DEF NoEntry, Entry
<1>2. SizeOf(g, S) = 0
  <2>1. \A n \in S : g[n].size = 0
    BY DEF NoEntry
  <2>2. 1 .. 0 = {}
    OBVIOUS
  <2>3. BytesOf(g, S) = {}
    BY <2>1, <2>2 DEF BytesOf
  <2> QED BY <2>3, FS_EmptySet DEF SizeOf
<1>3. SizeOf(g, Name \ S) = SizeOf(l.files, Name \ S)
  <2>1. \A n \in Name \ S : g[n].size = l.files[n].size
    OBVIOUS
  <2> HIDE DEF g
  <2> QED BY <2>1, SizeOfSame
<1>4. SizeOf(l.files, Name) = SizeOf(l.files, S) + SizeOf(l.files, Name \ S)
  BY LedgerParts, SizeOfSplit
<1>5. SizeOf(l.files, S) = SizeOf(l.files, F) + SizeOf(l.files, S \ F)
  BY LedgerParts, SizeOfSplit
<1>6. /\ SizeOf(l.files, F) \in Nat
      /\ SizeOf(l.files, S \ F) \in Nat
      /\ SizeOf(l.files, Name \ S) \in Nat
  BY LedgerParts, BytesFinite
<1>7. Forget(l, S) = [files |-> Renumber(g), curSize |-> l.curSize - SizeOf(l.files, F)]
  BY DEF Forget
<1> HIDE DEF g, F
<1>8. SizeOf(g, Name) = SizeOf(g, S) + SizeOf(g, Name \ S)
  BY <1>1, SizeOfSplit
<1>9. Renumber(g) \in [Name -> Entry] /\ SizeOf(Renumber(g), Name) = SizeOf(g, Name)
  BY <1>1, RenumberKeeps, RenumberTotal
<1> QED BY <1>2, <1>3, <1>4, <1>5, <1>6, <1>7, <1>8, <1>9, LedgerParts DEF Sound, Ledger

(* RemoveAll of a file, and the eviction of one.                           *)
LEMMA UntrackSound ==
  ASSUME NEW l, Sound(l), NEW n \in Name
  PROVE  Sound(Untrack(l, n))
BY ForgetSound DEF Untrack

(* RemoveAll of a directory.                                               *)
LEMMA UntrackTreeSound ==
  ASSUME NEW l, Sound(l), NEW d \in Name
  PROVE  Sound(UntrackTree(l, d))
BY ForgetSound DEF UntrackTree

(* Renaming: every entry of the result is one that was there, and none is  *)
(* there twice; what it overwrites only lowers the total.                  *)
LEMMA CarrySound ==
  ASSUME NEW l, Sound(l), NEW old \in Name, NEW new \in Name,
         NEW carried \in SUBSET Tracked(l.files),
         NEW kind \in [carried -> {"file", "dir", "none"}]
  PROVE  Sound(Carry(l, carried, old, new, kind))
<1> DEFINE arrives(n) == \E m \in carried : Moved(m, old, new) = n
           from(n) == CHOOSE m \in carried : Moved(m, old, new) = n
           g == [n \in Name |->
                   IF n \in carried THEN NoEntry
                   ELSE IF arrives(n) THEN [l.files[from(n)] EXCEPT !.kind = kind[from(n)]]
                   ELSE l.files[n]]
           S == Name \ carried
           src == [n \in S |-> IF arrives(n) THEN from(n) ELSE n]
<1>1. carried \subseteq Name
  BY DEF Tracked
<1>2. ASSUME NEW n \in Name, arrives(n)
      PROVE  from(n) \in carried /\ Moved(from(n), old, new) = n
  BY <1>2
<1>3. g \in [Name -> Entry]
  <2>1. ASSUME NEW n \in Name
        PROVE  g[n] \in Entry
    <3>1. CASE n \in carried
      BY <3>1 DEF NoEntry, Entry
    <3>2. CASE n \notin carried /\ arrives(n)
      <4>1. g[n] = [l.files[from(n)] EXCEPT !.kind = kind[from(n)]]
        BY <3>2
      <4>2. from(n) \in carried
        BY <1>2, <3>2
      <4>3. l.files[from(n)] \in Entry /\ kind[from(n)] \in {"file", "dir", "none"}
        BY <1>1, <4>2, LedgerParts
      <4> HIDE DEF from, g
      <4> QED BY <4>1, <4>3 DEF Entry
    <3>3. CASE n \notin carried /\ ~arrives(n)
      BY <3>3, LedgerParts
    <3> QED BY <3>1, <3>2, <3>3
  <2> QED BY <2>1
<1>4. src \in [S -> Name]
  BY <1>1, <1>2
<1>5. \A n \in Name \ S : g[n].size = 0
  BY DEF NoEntry
<1>6. ASSUME NEW n \in S
      PROVE  g[n].size = l.files[src[n]].size
  <2>1. CASE arrives(n)
    <3>1. from(n) \in Name
      BY <1>1, <1>2, <2>1
    <3>2. l.files[from(n)] \in Entry
      BY <3>1, LedgerParts
    <3>3. g[n] = [l.files[from(n)] EXCEPT !.kind = kind[from(n)]] /\ src[n] = from(n)
      BY <2>1
    <3> HIDE DEF from, g, src
    <3> QED BY <3>2, <3>3 DEF Entry
  <2>2. CASE ~arrives(n)
    BY <2>2
  <2> QED BY <2>1, <2>2
<1>7. ASSUME NEW m \in S, NEW n \in S, src[m] = src[n]
      PROVE  m = n
  <2>1. CASE arrives(m) /\ arrives(n)
    BY <1>2, <1>7, <2>1
  <2>2. CASE arrives(m) /\ ~arrives(n)
    <3>1. src[m] \in carried /\ src[n] = n
      BY <1>2, <2>2
    <3> QED BY <1>7, <3>1
  <2>3. CASE ~arrives(m) /\ arrives(n)
    <3>1. src[n] \in carried /\ src[m] = m
      BY <1>2, <2>3
    <3> QED BY <1>7, <3>1
  <2>4. CASE ~arrives(m) /\ ~arrives(n)
    BY <1>7, <2>4
  <2> QED BY <2>1, <2>2, <2>3, <2>4
<1>8. Carry(l, carried, old, new, kind) = [files |-> Renumber(g), curSize |-> l.curSize]
  <2>1. l = [files |-> l.files, curSize |-> l.curSize]
    BY DEF Sound, Ledger
  <2>2. [l EXCEPT !.files = Renumber(g)] = [files |-> Renumber(g), curSize |-> l.curSize]
    BY <2>1
  <2> QED BY <2>2 DEF Carry
<1> HIDE DEF g, src, S
<1>9. SizeOf(g, Name) <= SizeOf(l.files, Name)
  <2>1. S \in SUBSET Name
    BY DEF S
  <2> QED BY <1>3, <1>4, <1>5, <1>6, <1>7, <2>1, LedgerParts, SizeOfInto
<1>10. Renumber(g) \in [Name -> Entry] /\ SizeOf(Renumber(g), Name) = SizeOf(g, Name)
  BY <1>3, RenumberKeeps, RenumberTotal
<1>11. SizeOf(g, Name) \in Nat
  BY <1>3, BytesFinite
<1> QED BY <1>8, <1>9, <1>10, <1>11, LedgerParts DEF Sound, Ledger

(* Rename of a regular file.                                               *)
LEMMA RetargetFileSound ==
  ASSUME NEW l, Sound(l), NEW old \in Name, NEW new \in Name
  PROVE  Sound(RetargetFile(l, old, new))
<1> DEFINE carried == {old} \cap Tracked(l.files)
           kind == [m \in carried |-> "file"]
<1>1. kind \in [carried -> {"file", "dir", "none"}] /\ carried \in SUBSET Tracked(l.files)
  OBVIOUS
<1>2. RetargetFile(l, old, new) = Carry(l, carried, old, new, kind)
  BY DEF RetargetFile
<1> HIDE DEF carried, kind
<1> QED BY <1>1, <1>2, CarrySound

(* Rename of a directory.                                                  *)
LEMMA RetargetTreeSound ==
  ASSUME NEW l, Sound(l), NEW old \in Name, NEW new \in Name
  PROVE  Sound(RetargetTree(l, old, new))
<1> DEFINE carried == { n \in Tracked(l.files) : InTree(n, old) }
           kind == [m \in carried |-> IF m = old THEN "dir" ELSE l.files[m].kind]
<1>1. carried \in SUBSET Tracked(l.files)
  OBVIOUS
<1>2. kind \in [carried -> {"file", "dir", "none"}]
  BY LedgerParts DEF Tracked, Entry
<1>3. RetargetTree(l, old, new) = Carry(l, carried, old, new, kind)
  BY DEF RetargetTree
<1> HIDE DEF carried, kind
<1> QED BY <1>1, <1>2, <1>3, CarrySound

-----------------------------------------------------------------------------
(* What the critical sections make of each entry, and of their order       *)
-----------------------------------------------------------------------------
(* Stamps are ranks: no two tracked names have the same, and none is later *)
(* than now.                                                               *)
Stamped(files) ==
    \A m, n \in Name :
        /\ files[n].at <= Cardinality(Name)
        /\ m # n /\ m \in Tracked(files) /\ n \in Tracked(files) => files[m].at # files[n].at

(* The entries of g are those of f, but for their stamps, except at n.     *)
SameBut(f, g, n) ==
    \A m \in Name \ {n} : g[m].kind = f[m].kind /\ g[m].size = f[m].size

SameEntries(f, g, S) == \A m \in S : g[m].kind = f[m].kind /\ g[m].size = f[m].size

(* The names of S are in the same order in g as in f.                      *)
SameOrder(f, g, S) ==
    \A m, n \in S \cap Tracked(g) : g[m].at < g[n].at <=> f[m].at < f[n].at

(* n is what was accessed last.                                            *)
Last(g, n) == \A m \in Tracked(g) \ {n} : g[m].at < g[n].at

LEMMA RenumberOrder ==
  ASSUME NEW f \in [Name -> Entry]
  PROVE  /\ \A n \in Name : Renumber(f)[n].at <= Cardinality(Name)
         /\ Tracked(Renumber(f)) = Tracked(f)
         /\ \A m, n \in Tracked(f) : Renumber(f)[m].at < Renumber(f)[n].at <=> f[m].at < f[n].at
<1> DEFINE Before(n) == { m \in Tracked(f) : f[m].at <= f[n].at }
<1>1. ASSUME NEW n \in Name
      PROVE  /\ IsFiniteSet(Before(n)) /\ Cardinality(Before(n)) \in Nat
             /\ Cardinality(Before(n)) <= Cardinality(Name) /\ Cardinality(Name) \in Nat
  <2>1. Before(n) \in SUBSET Name
    BY DEF Tracked
  <2> QED BY <2>1, NameFinite, FS_Subset, FS_CardinalityType
<1>2. ASSUME NEW n \in Name
      PROVE  Renumber(f)[n].at = IF f[n].kind = "none" THEN 0 ELSE Cardinality(Before(n))
  <2>1. Renumber(f)[n] = [f[n] EXCEPT !.at = IF f[n].kind = "none" THEN 0 ELSE Cardinality(Before(n))]
    BY DEF Renumber
  <2> HIDE DEF Before
  <2> QED BY <2>1 DEF Entry
<1>3. Tracked(Renumber(f)) = Tracked(f)
  BY RenumberKeeps DEF Tracked
<1>4. ASSUME NEW m \in Tracked(f), NEW n \in Tracked(f), f[m].at < f[n].at
      PROVE  Cardinality(Before(m)) < Cardinality(Before(n))
  <2>1. m \in Name /\ n \in Name /\ \A k \in Name : f[k].at \in Nat
    BY DEF Tracked, Entry
  <2>2. Before(m) \subseteq Before(n) /\ n \in Before(n) /\ n \notin Before(m)
    BY <1>4, <2>1 DEF Tracked
  <2> HIDE DEF Before
  <2>3. Cardinality(Before(m)) <= Cardinality(Before(n)) /\ Before(m) # Before(n)
    BY <1>1, <2>1, <2>2, FS_Subset
  <2> QED BY <1>1, <2>1, <2>2, <2>3, FS_Subset
<1>5. ASSUME NEW m \in Tracked(f), NEW n \in Tracked(f), ~(f[m].at < f[n].at)
      PROVE  ~(Cardinality(Before(m)) < Cardinality(Before(n)))
  <2>1. m \in Name /\ n \in Name /\ \A k \in Name : f[k].at \in Nat
    BY DEF Tracked, Entry
  <2>2. Before(n) \subseteq Before(m)
    BY <1>5, <2>1 DEF Tracked
  <2> HIDE DEF Before
  <2> QED BY <1>1, <2>1, <2>2, FS_Subset
<1> HIDE DEF Before
<1>6. \A n \in Name : Renumber(f)[n].at <= Cardinality(Name)
  BY <1>1, <1>2
<1>7. ASSUME NEW m \in Tracked(f), NEW n \in Tracked(f)
      PROVE  Renumber(f)[m].at < Renumber(f)[n].at <=> f[m].at < f[n].at
  <2>1. /\ Renumber(f)[m].at = Cardinality(Before(m))
        /\ Renumber(f)[n].at = Cardinality(Before(n))
    BY <1>2 DEF Tracked
  <2> QED BY <1>4, <1>5, <2>1
<1> QED BY <1>3, <1>6, <1>7

(* Renumbering what has distinct stamps gives ranks.                       *)
LEMMA RenumberStamps ==
  ASSUME NEW f \in [Name -> Entry],
         \A m, n \in Tracked(f) : m # n => f[m].at # f[n].at
  PROVE  Stamped(Renumber(f))
<1>1. \A k \in Name : f[k].at \in Nat /\ Renumber(f)[k].at \in Nat
  BY RenumberKeeps DEF Entry
<1>2. ASSUME NEW m \in Tracked(f), NEW n \in Tracked(f), m # n
      PROVE  Renumber(f)[m].at # Renumber(f)[n].at
  <2>1. f[m].at < f[n].at \/ f[n].at < f[m].at
    BY <1>1, <1>2 DEF Tracked
  <2>2. Renumber(f)[m].at < Renumber(f)[n].at \/ Renumber(f)[n].at < Renumber(f)[m].at
    BY <2>1, RenumberOrder
  <2> QED BY <1>1, <2>2 DEF Tracked
<1> QED BY <1>2, RenumberOrder DEF Stamped

(* An entry that has just been made or accessed.                           *)
LEMMA SetMeans ==
  ASSUME NEW f \in [Name -> Entry], Stamped(f), NEW n \in Name,
         NEW e \in Entry, e.kind # "none", e.at = Newest,
         NEW g, g = Set(f, n, e)
  PROVE  /\ g[n].kind = e.kind /\ g[n].size = e.size
         /\ SameBut(f, g, n)
         /\ Stamped(g) /\ SameOrder(f, g, Name \ {n}) /\ Last(g, n)
<1> DEFINE h == [f EXCEPT ![n] = e]
<1>1. h \in [Name -> Entry] /\ h[n] = e /\ \A m \in Name \ {n} : h[m] = f[m]
  OBVIOUS
<1>2. g = Renumber(h)
  BY DEF Set
<1>3. Cardinality(Name) \in Nat /\ \A m \in Name : f[m].at \in Nat /\ h[m].at \in Nat
  BY <1>1, NameFinite, FS_CardinalityType DEF Entry
<1> HIDE DEF h
<1>4. /\ \A m \in Name : g[m].kind = h[m].kind /\ g[m].size = h[m].size
      /\ Tracked(g) = Tracked(h)
      /\ \A m, k \in Tracked(h) : g[m].at < g[k].at <=> h[m].at < h[k].at
  BY <1>1, <1>2, RenumberKeeps, RenumberOrder
<1>5. \A m \in Name \ {n} : f[m].at < h[n].at
  BY <1>1, <1>3 DEF Stamped, Newest
<1>6. ASSUME NEW m \in Tracked(h), NEW k \in Tracked(h), m # k
      PROVE  h[m].at # h[k].at
  <2>1. m \in Name /\ k \in Name
    BY DEF Tracked
  <2>2. m # n /\ k # n => f[m].at # f[k].at
    BY <1>1, <1>6, <2>1 DEF Stamped, Tracked
  <2> QED BY <1>1, <1>3, <1>5, <1>6, <2>1, <2>2
<1>7. Stamped(g)
  BY <1>1, <1>2, <1>6, RenumberStamps
<1>8. n \in Tracked(h)
  BY <1>1 DEF Tracked
<1>9. Last(g, n)
  <2> SUFFICES ASSUME NEW m \in Tracked(g) \ {n}
               PROVE  g[m].at < g[n].at
    BY DEF Last
  <2>1. m \in Tracked(h) /\ m \in Name
    BY <1>4 DEF Tracked
  <2>2. h[m].at < h[n].at
    BY <1>1, <1>5, <2>1
  <2> QED BY <1>4, <1>8, <2>1, <2>2
<1>10. SameOrder(f, g, Name \ {n})
  BY <1>1, <1>4 DEF SameOrder
<1>11. SameBut(f, g, n)
  BY <1>1, <1>4 DEF SameBut
<1> QED BY <1>1, <1>2, <1>4, <1>7, <1>9, <1>10, <1>11

(* Deleting entries.                                                       *)
LEMMA ForgetMeans ==
  ASSUME NEW l, Sound(l), Stamped(l.files), NEW S, NEW g, g = Forget(l, S).files
  PROVE  /\ \A n \in Name \cap S : g[n].kind = "none" /\ g[n].size = 0
         /\ \A n \in Name \ S : g[n].kind = l.files[n].kind /\ g[n].size = l.files[n].size
         /\ Stamped(g) /\ SameOrder(l.files, g, Name)
<1> DEFINE h == [n \in Name |-> IF n \in S THEN NoEntry ELSE l.files[n]]
<1>1. /\ h \in [Name -> Entry]
      /\ \A n \in Name : IF n \in S THEN h[n] = NoEntry ELSE h[n] = l.files[n]
  BY LedgerParts DEF NoEntry, Entry
<1>2. g = Renumber(h)
  BY DEF Forget
<1> HIDE DEF h
<1>3. /\ \A m \in Name : g[m].kind = h[m].kind /\ g[m].size = h[m].size
      /\ Tracked(g) = Tracked(h)
      /\ \A m, k \in Tracked(h) : g[m].at < g[k].at <=> h[m].at < h[k].at
  BY <1>1, <1>2, RenumberKeeps, RenumberOrder
<1>4. \A m \in Tracked(h) : m \in Tracked(l.files) /\ h[m] = l.files[m] /\ m \in Name
  BY <1>1 DEF Tracked, NoEntry
<1>5. Stamped(g)
  BY <1>1, <1>2, <1>4, RenumberStamps DEF Stamped
<1>6. SameOrder(l.files, g, Name)
  BY <1>3, <1>4 DEF SameOrder
<1> QED BY <1>1, <1>2, <1>3, <1>5, <1>6 DEF NoEntry

(* Renaming: what each name has afterwards comes from one name.            *)
CarriedFrom(f, g, carried, kind, from) ==
    /\ \A n \in carried : g[n].kind = "none" /\ g[n].size = 0
    /\ \A n \in Name \ carried :
          /\ g[n].kind = IF from[n] \in carried THEN kind[from[n]] ELSE f[n].kind
          /\ g[n].size = f[from[n]].size
    /\ Stamped(g)
    /\ \A m, n \in Tracked(g) : g[m].at < g[n].at <=> f[from[m]].at < f[from[n]].at

LEMMA CarryMeans ==
  ASSUME NEW l, Sound(l), Stamped(l.files), NEW old \in Name, NEW new \in Name,
         NEW carried \in SUBSET Tracked(l.files),
         NEW kind \in [carried -> {"file", "dir"}],
         NEW from \in [Name -> Name],
         \A n \in Name \ carried :
            IF \E m \in carried : Moved(m, old, new) = n
            THEN from[n] \in carried /\ \A m \in carried : Moved(m, old, new) = n <=> m = from[n]
            ELSE from[n] = n,
         NEW g, g = Carry(l, carried, old, new, kind).files
  PROVE  CarriedFrom(l.files, g, carried, kind, from)
<1> DEFINE arrives(n) == \E m \in carried : Moved(m, old, new) = n
           origin(n) == CHOOSE m \in carried : Moved(m, old, new) = n
           h == [n \in Name |->
                   IF n \in carried THEN NoEntry
                   ELSE IF arrives(n) THEN [l.files[origin(n)] EXCEPT !.kind = kind[origin(n)]]
                   ELSE l.files[n]]
<1>1. carried \subseteq Name /\ l.files \in [Name -> Entry]
  BY LedgerParts DEF Tracked
<1>2. ASSUME NEW n \in Name \ carried
      PROVE  /\ from[n] \in carried <=> arrives(n)
             /\ from[n] \in carried => origin(n) = from[n]
             /\ from[n] \notin carried => from[n] = n
  <2>1. CASE arrives(n)
    <3>1. from[n] \in carried /\ \A m \in carried : Moved(m, old, new) = n <=> m = from[n]
      BY <2>1
    <3> QED BY <2>1, <3>1
  <2>2. CASE ~arrives(n)
    <3>1. from[n] = n
      BY <2>2
    <3> QED BY <2>2, <3>1
  <2> QED BY <2>1, <2>2
<1>3. \A n \in carried : h[n] = NoEntry
  BY <1>1
<1>4. ASSUME NEW n \in Name \ carried
      PROVE  /\ h[n] \in Entry
             /\ h[n].kind = IF from[n] \in carried THEN kind[from[n]] ELSE l.files[n].kind
             /\ h[n].size = l.files[from[n]].size
             /\ h[n].at = l.files[from[n]].at
  <2>1. CASE from[n] \in carried
    <3>1. h[n] = [l.files[from[n]] EXCEPT !.kind = kind[from[n]]]
      BY <1>2, <2>1
    <3>2. l.files[from[n]] \in Entry /\ kind[from[n]] \in {"file", "dir"}
      BY <1>1, <2>1
    <3> HIDE DEF h
    <3> QED BY <2>1, <3>1, <3>2 DEF Entry
  <2>2. CASE from[n] \notin carried
    <3>1. h[n] = l.files[n] /\ from[n] = n
      BY <1>2, <2>2
    <3> HIDE DEF h
    <3> QED BY <1>1, <2>2, <3>1
  <2> QED BY <2>1, <2>2
<1>5. h \in [Name -> Entry]
  <2>1. NoEntry \in Entry
    BY DEF NoEntry, Entry
  <2>2. \A n \in Name : h[n] \in Entry
    BY <1>3, <1>4, <2>1
  <2>3. h = [n \in Name |-> h[n]]
    OBVIOUS
  <2> HIDE DEF h
  <2> QED BY <2>2, <2>3
<1>6. g = Renumber(h)
  <2>1. l = [files |-> l.files, curSize |-> l.curSize]
    BY DEF Sound, Ledger
  <2>2. [l EXCEPT !.files = Renumber(h)].files = Renumber(h)
    BY <2>1
  <2> QED BY <2>2 DEF Carry
<1> HIDE DEF h, arrives, origin
<1>7. /\ \A m \in Name : g[m].kind = h[m].kind /\ g[m].size = h[m].size
      /\ Tracked(g) = Tracked(h)
      /\ \A m, k \in Tracked(h) : g[m].at < g[k].at <=> h[m].at < h[k].at
  BY <1>5, <1>6, RenumberKeeps, RenumberOrder
<1>8. ASSUME NEW n \in Tracked(h)
      PROVE  n \in Name \ carried /\ from[n] \in Tracked(l.files) /\ h[n].at = l.files[from[n]].at
  <2>1. n \in Name \ carried
    BY <1>3 DEF Tracked, NoEntry
  <2>2. from[n] \in carried \/ l.files[n].kind # "none"
    BY <1>4, <2>1 DEF Tracked
  <2> QED BY <1>2, <1>4, <2>1, <2>2 DEF Tracked
<1>9. ASSUME NEW m \in Tracked(h), NEW n \in Tracked(h), m # n
      PROVE  h[m].at # h[n].at
  <2>1. from[m] # from[n]
    <3>1. CASE from[m] \in carried /\ from[n] \in carried
      BY <1>8, <1>9, <3>1
    <3>2. CASE ~(from[m] \in carried /\ from[n] \in carried)
      BY <1>2, <1>8, <1>9, <3>2
    <3> QED BY <3>1, <3>2
  <2> QED BY <1>8, <2>1 DEF Stamped, Tracked
<1>10. Stamped(g)
  BY <1>5, <1>6, <1>9, RenumberStamps
<1>11. \A m, n \in Tracked(g) : g[m].at < g[n].at <=> l.files[from[m]].at < l.files[from[n]].at
  BY <1>7, <1>8
<1>12. ASSUME NEW n \in carried
       PROVE  g[n].kind = "none" /\ g[n].size = 0
  BY <1>1, <1>3, <1>7 DEF NoEntry
<1>13. ASSUME NEW n \in Name \ carried
       PROVE  /\ g[n].kind = IF from[n] \in carried THEN kind[from[n]] ELSE l.files[n].kind
              /\ g[n].size = l.files[from[n]].size
  BY <1>4, <1>7
<1> QED BY <1>10, <1>11, <1>12, <1>13 DEF CarriedFrom
(* What making an entry leaves of the others.                              *)
LEMMA FreshMeans ==
  ASSUME NEW f \in [Name -> Entry], Stamped(f), NEW n \in Name,
         NEW dir \in BOOLEAN, NEW size \in Nat, NEW g, g = Set(f, n, Fresh(dir, size))
  PROVE  /\ g[n].kind = IF dir THEN "dir" ELSE "file"
         /\ ~dir => g[n].size = size
         /\ SameBut(f, g, n)
         /\ Stamped(g) /\ SameOrder(f, g, Name \ {n}) /\ Last(g, n)
<1> DEFINE e == Fresh(dir, size)
<1>1. e \in Entry /\ e.size = IF dir THEN 0 ELSE size
  BY FreshType
<1>2. e.kind = (IF dir THEN "dir" ELSE "file") /\ e.at = Newest
  BY DEF Fresh
<1> HIDE DEF e
<1>3. e.kind # "none" /\ g = Set(f, n, e)
  BY <1>2 DEF e
<1> QED BY <1>1, <1>2, <1>3, SetMeans

(* Mkdir and the scan replace an entry.                                    *)
LEMMA TrackDirMeans ==
  ASSUME NEW l, Sound(l), Stamped(l.files), NEW n \in Name, NEW g, g = TrackDir(l, n).files
  PROVE  /\ g[n].kind = "dir" /\ SameBut(l.files, g, n)
         /\ Stamped(g) /\ SameOrder(l.files, g, Name \ {n}) /\ Last(g, n)
<1>1. g = Set(l.files, n, Fresh(TRUE, 0))
  BY DEF TrackDir, Sound, Ledger
<1> DEFINE e == Fresh(TRUE, 0)
<1>2. e \in Entry
  BY FreshType
<1>3. e.kind = "dir" /\ e.at = Newest
  BY DEF Fresh
<1> HIDE DEF e
<1>4. g = Set(l.files, n, e) /\ l.files \in [Name -> Entry]
  BY <1>1, LedgerParts DEF e
<1> QED BY <1>2, <1>3, <1>4, SetMeans

LEMMA TrackScannedMeans ==
  ASSUME NEW l, Sound(l), Stamped(l.files), NEW n \in Name, NEW size \in Nat,
         NEW g, g = TrackScanned(l, n, size).files
  PROVE  /\ g[n].kind = "file" /\ SameBut(l.files, g, n)
         /\ Stamped(g) /\ SameOrder(l.files, g, Name \ {n}) /\ Last(g, n)
<1>1. g = Set(l.files, n, Fresh(FALSE, size))
  BY DEF TrackScanned
<1> DEFINE e == Fresh(FALSE, size)
<1>2. e \in Entry
  BY FreshType
<1>3. e.kind = "file" /\ e.at = Newest
  BY DEF Fresh
<1> HIDE DEF e
<1>4. g = Set(l.files, n, e) /\ l.files \in [Name -> Entry]
  BY <1>1, LedgerParts DEF e
<1> QED BY <1>2, <1>3, <1>4, SetMeans

(* An access changes only the order, if the name is tracked.               *)
LEMMA TouchMeans ==
  ASSUME NEW l, Sound(l), Stamped(l.files), NEW n \in Name, NEW g, g = Touch(l, n).files
  PROVE  /\ SameEntries(l.files, g, Name)
         /\ Stamped(g) /\ SameOrder(l.files, g, Name \ {n})
         /\ n \in Tracked(l.files) => Last(g, n)
<1> DEFINE f == l.files   e == [f[n] EXCEPT !.at = Newest]
<1>1. f \in [Name -> Entry] /\ f[n] \in Entry
  BY LedgerParts
<1>2. CASE IsTracked(l, n)
  <2>1. e \in Entry /\ e.kind = f[n].kind /\ e.size = f[n].size /\ e.at = Newest
    BY <1>1, NewestType DEF Entry
  <2>2. g = Set(f, n, e)
    <3>1. Touch(l, n) = [l EXCEPT !.files = Renumber([@ EXCEPT ![n].at = Newest])]
      BY <1>2 DEF Touch
    <3>2. [l EXCEPT !.files = Renumber([@ EXCEPT ![n].at = Newest])].files
            = Renumber([f EXCEPT ![n].at = Newest])
      BY DEF Sound, Ledger
    <3>3. [f EXCEPT ![n].at = Newest] = [f EXCEPT ![n] = e]
      BY <1>1
    <3> HIDE DEF f, e
    <3> QED BY <3>1, <3>2, <3>3 DEF Set
  <2>3. f[n].kind # "none"
    BY <1>2 DEF IsTracked
  <2> HIDE DEF f, e
  <2>4. /\ g[n].kind = e.kind /\ g[n].size = e.size /\ SameBut(f, g, n)
        /\ Stamped(g) /\ SameOrder(f, g, Name \ {n}) /\ Last(g, n)
    BY <1>1, <2>1, <2>2, <2>3, SetMeans DEF f
  <2>5. SameEntries(f, g, Name)
    BY <2>1, <2>4 DEF SameBut, SameEntries
  <2> QED BY <2>4, <2>5 DEF f
<1>3. CASE ~IsTracked(l, n)
  <2>1. g = f
    BY <1>3 DEF Touch
  <2> QED BY <1>3, <2>1 DEF IsTracked, Tracked, SameOrder, SameEntries
<1> QED BY <1>2, <1>3

(* The size alone changes.                                                 *)
LEMMA ResizedMeans ==
  ASSUME NEW l, Sound(l), Stamped(l.files), NEW n \in Name, NEW size \in Nat,
         NEW g, g = Resized(l, n, size).files
  PROVE  /\ g[n].size = size /\ g[n].kind = l.files[n].kind
         /\ SameBut(l.files, g, n) /\ Stamped(g) /\ SameOrder(l.files, g, Name)
<1> DEFINE f == l.files
<1>1. f \in [Name -> Entry] /\ f[n] \in Entry
  BY LedgerParts
<1>2. g = [f EXCEPT ![n].size = size]
  BY DEF Resized
<1>3. /\ \A m \in Name \ {n} : g[m] = f[m]
      /\ g[n].size = size /\ g[n].kind = f[n].kind /\ g[n].at = f[n].at
  BY <1>1, <1>2 DEF Entry
<1> HIDE DEF f
<1>4. \A m \in Name : g[m].kind = f[m].kind /\ g[m].at = f[m].at
  BY <1>3
<1>5. Tracked(g) = Tracked(f)
  BY <1>4 DEF Tracked
<1>6. Stamped(g) /\ SameOrder(f, g, Name) /\ SameBut(f, g, n)
  <2>1. \A m \in Tracked(f) : m \in Name
    BY DEF Tracked
  <2> QED BY <1>3, <1>4, <1>5, <2>1 DEF Stamped, SameOrder, SameBut, f
<1> QED BY <1>3, <1>6 DEF f

(* A name is recorded with the kind it first had, and nothing else is.     *)
Noted(f, g, n, dir) ==
    /\ g[n].kind = IF n \in Tracked(f) THEN f[n].kind ELSE IF dir THEN "dir" ELSE "file"
    /\ SameBut(f, g, n) /\ Stamped(g) /\ SameOrder(f, g, Name \ {n})

(* Close records a size; it counts as an access only of a new name.        *)
LEMMA UpdateSizeMeans ==
  ASSUME NEW l, Sound(l), Stamped(l.files), NEW n \in Name, NEW dir \in BOOLEAN,
         NEW size \in Nat, NEW g, g = UpdateSize(l, n, dir, size).files
  PROVE  /\ Noted(l.files, g, n, dir)
         /\ g[n].kind = "file" => g[n].size = size
         /\ IF n \in Tracked(l.files) THEN SameOrder(l.files, g, Name) ELSE Last(g, n)
<1> DEFINE f == l.files
<1>1. f \in [Name -> Entry] /\ (IsTracked(l, n) <=> n \in Tracked(f))
  BY LedgerParts DEF IsTracked, Tracked
<1>2. CASE ~IsTracked(l, n)
  <2>1. g = Set(f, n, Fresh(dir, size))
    BY <1>2 DEF UpdateSize, TrackNew
  <2>2. /\ g[n].kind = IF dir THEN "dir" ELSE "file"
        /\ ~dir => g[n].size = size
        /\ SameBut(f, g, n)
        /\ Stamped(g) /\ SameOrder(f, g, Name \ {n}) /\ Last(g, n)
    BY <1>1, <2>1, FreshMeans
  <2> QED BY <1>1, <1>2, <2>2 DEF Noted
<1>3. CASE IsTracked(l, n) /\ f[n].kind = "dir"
  <2>1. g = f
    BY <1>3 DEF UpdateSize
  <2> QED BY <1>1, <1>3, <2>1 DEF SameBut, SameOrder, Noted
<1>4. CASE IsTracked(l, n) /\ f[n].kind # "dir"
  <2>1. g = Resized(l, n, size).files
    BY <1>4 DEF UpdateSize
  <2>2. /\ g[n].size = size /\ g[n].kind = f[n].kind
        /\ SameBut(f, g, n) /\ Stamped(g) /\ SameOrder(f, g, Name)
    BY <2>1, ResizedMeans
  <2>3. SameOrder(f, g, Name \ {n})
    BY <2>2 DEF SameOrder
  <2> QED BY <1>1, <1>4, <2>2, <2>3 DEF Noted
<1> QED BY <1>2, <1>3, <1>4

(* Stat records what it sees and counts as an access.                      *)
LEMMA ObserveMeans ==
  ASSUME NEW l, Sound(l), Stamped(l.files), NEW n \in Name, NEW dir \in BOOLEAN,
         NEW size \in Nat, NEW g, g = Observe(l, n, dir, size).files
  PROVE  /\ Noted(l.files, g, n, dir)
         /\ ~dir => g[n].size = size
         /\ Last(g, n)
<1> DEFINE f == l.files
<1>1. f \in [Name -> Entry] /\ (IsTracked(l, n) <=> n \in Tracked(f))
  BY LedgerParts DEF IsTracked, Tracked
<1>2. CASE ~IsTracked(l, n)
  <2>1. g = Set(f, n, Fresh(dir, size))
    BY <1>2 DEF Observe, TrackNew
  <2>2. /\ g[n].kind = IF dir THEN "dir" ELSE "file"
        /\ ~dir => g[n].size = size
        /\ SameBut(f, g, n)
        /\ Stamped(g) /\ SameOrder(f, g, Name \ {n}) /\ Last(g, n)
    BY <1>1, <2>1, FreshMeans
  <2> QED BY <1>1, <1>2, <2>2 DEF Noted
<1>3. CASE IsTracked(l, n) /\ dir
  <2>1. g = Touch(l, n).files
    BY <1>3 DEF Observe
  <2>2. /\ SameEntries(f, g, Name)
        /\ Stamped(g) /\ SameOrder(f, g, Name \ {n}) /\ Last(g, n)
    BY <1>1, <1>3, <2>1, TouchMeans
  <2> QED BY <1>1, <1>3, <2>2 DEF SameBut, SameEntries, Noted
<1>4. CASE IsTracked(l, n) /\ ~dir
  <2> DEFINE k == Resized(l, n, size)
  <2>1. g = Touch(k, n).files /\ Sound(k)
    BY <1>4, ResizedSound DEF Observe
  <2>2. /\ k.files[n].size = size /\ k.files[n].kind = f[n].kind
        /\ SameBut(f, k.files, n) /\ Stamped(k.files) /\ SameOrder(f, k.files, Name)
    BY ResizedMeans
  <2> HIDE DEF k
  <2>3. n \in Tracked(k.files)
    BY <1>1, <1>4, <2>2 DEF Tracked
  <2>4. /\ SameEntries(k.files, g, Name)
        /\ Stamped(g) /\ SameOrder(k.files, g, Name \ {n}) /\ Last(g, n)
    BY <2>1, <2>2, <2>3, TouchMeans
  <2>5. SameBut(f, g, n)
    BY <2>2, <2>4 DEF SameBut, SameEntries
  <2>6. Tracked(g) = Tracked(k.files)
    BY <2>4 DEF Tracked, SameEntries
  <2>7. SameOrder(f, g, Name \ {n})
    BY <2>2, <2>4, <2>6 DEF SameOrder
  <2> QED BY <1>1, <1>4, <2>2, <2>4, <2>5, <2>7 DEF Noted, SameEntries
<1> QED BY <1>2, <1>3, <1>4

-----------------------------------------------------------------------------
(* The inductive invariant                                                 *)
-----------------------------------------------------------------------------
Evicting == {"evict", "unlink", "untrack", "verdict"}

(* A goroutine that will write, or scan, once ensureSpace lets it.         *)
Writing(r) == r.pc \in {"put", "write"} \/ (r.pc \in Evicting /\ r.ret = "write")
Scanning(r) == r.pc = "scan" \/ (r.pc \in Evicting /\ r.ret = "scan")

ControlOK(r) ==
    /\ r.pc # "idle" => r.name \in Name
    /\ r.method = "MOVE" => r.to \in Name
    /\ r.pc \in {"rename", "retarget"} => r.to \in Name
    /\ r.pc \in {"unlink", "untrack"} => r.prey \in Victim
    /\ r.pc \in Evicting => r.ret \in {"create", "write", "scan", "begin"}
    /\ Writing(r) => r.fd \in Inode
    /\ Scanning(r) => r.scan # << >>

Goroutine == { r \in Local : ControlOK(r) }

IInv ==
    /\ TypeOK
    /\ CurSizeCoversTracked
    /\ \A t \in Thread : ControlOK(th[t])

-----------------------------------------------------------------------------
(* The state as the steps see it.                                          *)
LEMMA IInvParts ==
  ASSUME IInv, NEW t \in Thread
  PROVE  /\ Sound(ledger)
         /\ th[t] \in Local
         /\ ControlOK(th[t])
         /\ node \in [Path -> Inode \cup {Absent, Directory}]
         /\ len \in [Inode -> Nat]
BY DEF IInv, TypeOK, CurSizeCoversTracked, Sound

(* A step that leaves a goroutine where it may be, a sound ledger and a    *)
(* well-formed backend keeps the invariant.                                *)
LEMMA StepKeepsIInv ==
  ASSUME IInv, NEW t \in Thread, NEW r \in Goroutine, Become(t, r),
         Sound(ledger'),
         node' \in [Path -> Inode \cup {Absent, Directory}],
         len' \in [Inode -> Nat],
         initialized' \in BOOLEAN,
         issued' \in 0 .. MaxRequests,
         restarts' \in 0 .. MaxRestarts
  PROVE  IInv'
<1>1. th' = [th EXCEPT ![t] = r] /\ r \in Local /\ ControlOK(r)
  BY DEF Become, Goroutine
<1>2. th' \in [Thread -> Local]
  BY <1>1 DEF IInv, TypeOK
<1>3. TypeOK'
  BY <1>2 DEF TypeOK, Sound
<1>4. CurSizeCoversTracked'
  BY DEF CurSizeCoversTracked, Sound
<1>5. ASSUME NEW u \in Thread
      PROVE  ControlOK(th'[u])
  <2>1. CASE u = t
    <3>1. th'[u] = r
      BY <1>1, <2>1 DEF IInv, TypeOK
    <3> QED BY <1>1, <3>1
  <2>2. CASE u # t
    <3>1. th'[u] = th[u]
      BY <1>1, <2>2 DEF IInv, TypeOK
    <3> QED BY <3>1 DEF IInv
  <2> QED BY <2>1, <2>2
<1>6. (\A u \in Thread : ControlOK(th[u]))'
  BY <1>5
<1> QED BY <1>3, <1>4, <1>6 DEF IInv

(* A goroutine that is done.                                               *)
LEMMA IdleType == Idle \in Goroutine
<1>1. Idle \in Local
  <2>1. << >> \in Seq(Frame)
    OBVIOUS
  <2> QED BY <2>1 DEF Idle, Local, Label, Method, NoVictim
<1> QED BY <1>1 DEF Idle, Goroutine, ControlOK, Writing, Scanning, Evicting

(* What ensureSpace's check leads to, wherever it is called from.          *)
LEMMA EnsureSpaceType ==
  ASSUME IInv, NEW t \in Thread, NEW r \in Local, EnsureSpace(t, r),
         r.name \in Name, r.method = "MOVE" => r.to \in Name,
         r.ret \in {"create", "write", "scan", "begin"},
         r.ret = "write" => r.fd \in Inode,
         r.ret = "scan" => r.scan # << >>
  PROVE  \E s \in Goroutine : Become(t, s)
<1> DEFINE V == { [name |-> n, at |-> ledger.files[n].at] : n \in Candidates }
           s == IF Fits(r.need) THEN [r EXCEPT !.pc = r.ret]
                ELSE [r EXCEPT !.pc = "evict", !.failed = FALSE, !.victims = V]
<1>1. V \in SUBSET Victim
  <2>1. ASSUME NEW n \in Candidates
        PROVE  n \in Name /\ ledger.files[n].at \in Nat
    BY LedgerParts, IInvParts DEF Candidates, Entry
  <2> QED BY <2>1 DEF Victim
<1>2. CASE Fits(r.need)
  <2>1. [r EXCEPT !.pc = r.ret] \in Goroutine
    BY ZenonT(60) DEF Goroutine, Local, Label, ControlOK, Writing, Scanning, Evicting
  <2>2. Become(t, [r EXCEPT !.pc = r.ret])
    BY <1>2 DEF EnsureSpace
  <2> QED BY <2>1, <2>2
<1>3. CASE ~Fits(r.need)
  <2> HIDE DEF V
  <2>1. [r EXCEPT !.pc = "evict", !.failed = FALSE, !.victims = V] \in Goroutine
    <3> DEFINE e == [r EXCEPT !.pc = "evict", !.failed = FALSE, !.victims = V]
    <3>1. e \in Local
      BY <1>1, ZenonT(60) DEF Local, Label
    <3>2. /\ e.pc = "evict" /\ e.name = r.name /\ e.method = r.method /\ e.to = r.to
          /\ e.ret = r.ret /\ e.fd = r.fd /\ e.scan = r.scan
      BY DEF Local
    <3> HIDE DEF e
    <3>3. ControlOK(e)
      BY <3>2 DEF ControlOK, Writing, Scanning, Evicting
    <3> QED BY <3>1, <3>3 DEF Goroutine, e
  <2>2. Become(t, [r EXCEPT !.pc = "evict", !.failed = FALSE, !.victims = V])
    BY <1>3 DEF EnsureSpace, V
  <2> QED BY <2>1, <2>2
<1> QED BY <1>2, <1>3

(* The oldest of some victims is one of them, and none is older.           *)
LEMMA OldestType ==
  ASSUME NEW victims \in SUBSET Victim, victims # {}
  PROVE  Oldest(victims) \in victims /\ \A w \in victims : Oldest(victims).at <= w.at
<1> DEFINE T == { v.at : v \in victims }
<1>1. T \subseteq Nat /\ T # {}
  BY DEF Victim
<1>2. PICK x \in T : \A y \in T : ~(<<y, x>> \in OpToRel(<, Nat))
  BY <1>1, NatLessThanWellFounded, WFMin
<1>3. \A y \in T : x <= y
  <2>1. ASSUME NEW y \in T, y < x
        PROVE  FALSE
    <3>1. y \in Nat /\ x \in Nat
      BY <1>1
    <3>2. <<y, x>> \in OpToRel(<, Nat)
      BY <2>1, <3>1 DEF OpToRel
    <3> QED BY <1>2, <3>2
  <2>2. \A y \in T : y \in Nat /\ x \in Nat
    BY <1>1
  <2> QED BY <2>1, <2>2
<1>4. PICK v \in victims : v.at = x
  OBVIOUS
<1>5. \A w \in victims : v.at <= w.at
  BY <1>3, <1>4
<1> QED BY <1>5 DEF Oldest

(* A step that only moves the goroutine.                                   *)
LEMMA LocalStep ==
  ASSUME IInv, NEW t \in Thread, NEW r \in Goroutine, Become(t, r),
         UNCHANGED <<node, len, ledger, initialized, issued, restarts>>
  PROVE  IInv'
BY StepKeepsIInv, IInvParts DEF IInv, TypeOK

(* A step that updates the ledger under the mutex.                         *)
LEMMA LedgerStep ==
  ASSUME IInv, NEW t \in Thread, NEW r \in Goroutine, Become(t, r), Sound(ledger'),
         UNCHANGED <<node, len, initialized, issued, restarts>>
  PROVE  IInv'
BY StepKeepsIInv DEF IInv, TypeOK

(* A step of the backend.                                                  *)
LEMMA BackendStep ==
  ASSUME IInv, NEW t \in Thread, NEW r \in Goroutine, Become(t, r),
         node' \in [Path -> Inode \cup {Absent, Directory}],
         len' \in [Inode -> Nat],
         UNCHANGED <<ledger, initialized, issued, restarts>>
  PROVE  IInv'
BY StepKeepsIInv, IInvParts DEF IInv, TypeOK

(* Going somewhere where nothing more is required of a goroutine.          *)
LEMMA PlainLabel ==
  ASSUME NEW r \in Goroutine, r.name \in Name,
         NEW l \in {"open", "remove", "rename", "track"},
         l = "rename" => r.to \in Name
  PROVE  [r EXCEPT !.pc = l] \in Goroutine
BY DEF Goroutine, Local, Label, ControlOK, Writing, Scanning, Evicting

(* Dropping a victim.                                                      *)
LEMMA DropType ==
  ASSUME IInv, NEW t \in Thread, th[t].pc \in {"evict", "unlink", "untrack"}, NEW v
  PROVE  /\ Drop(t, v) \in Goroutine
         /\ [Drop(t, v) EXCEPT !.failed = TRUE] \in Goroutine
<1>1. th[t] \in Local /\ ControlOK(th[t])
  BY IInvParts
<1> DEFINE r == [th[t] EXCEPT !.victims = @ \ {v}, !.prey = NoVictim, !.pc = "evict"]
           q == [r EXCEPT !.failed = TRUE]
<1>2. r \in Local /\ q \in Local
  <2>1. th[t].victims \ {v} \in SUBSET Victim
    BY <1>1 DEF Local
  <2>2. NoVictim \in Victim \cup {NoVictim}
    OBVIOUS
  <2> QED BY <1>1, <2>1, <2>2, ZenonT(60) DEF Local, Label
<1>3. \A x \in {r, q} :
        /\ x.pc = "evict" /\ x.name = th[t].name /\ x.method = th[t].method
        /\ x.to = th[t].to /\ x.ret = th[t].ret /\ x.fd = th[t].fd /\ x.scan = th[t].scan
  BY <1>1, ZenonT(60) DEF Local
<1>4. r = Drop(t, v)
  BY DEF Drop
<1> HIDE DEF r, q
<1>5. ControlOK(r) /\ ControlOK(q)
  BY <1>1, <1>3 DEF ControlOK, Writing, Scanning, Evicting
<1> QED BY <1>2, <1>4, <1>5 DEF q, Goroutine

-----------------------------------------------------------------------------
(* Requests                                                                *)
-----------------------------------------------------------------------------
(* Issuing a request gives the goroutine its names and nothing else.       *)
LEMMA RequestKeeps ==
  ASSUME IInv, ConstantsAssumption, NEW t \in Thread, Request(t)
  PROVE  IInv'
<1>1. ASSUME NEW r \in Goroutine, Issue(t, r)
      PROVE  IInv'
  <2>1. issued' \in 0 .. MaxRequests
    BY <1>1 DEF Issue, IInv, TypeOK, ConstantsAssumption
  <2> QED BY <1>1, <2>1, StepKeepsIInv, IInvParts DEF Issue, IInv, TypeOK
<1>2. Idle \in Local
  BY IdleType DEF Goroutine
<1>3. CASE IssueRead(t)
  <2>1. PICK method \in {"GET", "PROPFIND"}, form \in ReadForms, p \in Path :
             Issue(t, [Idle EXCEPT !.pc = "enter", !.method = method,
                                   !.name = [form |-> form, at |-> p]])
    BY <1>3 DEF IssueRead
  <2>2. [form |-> form, at |-> p] \in Name
    BY DEF ConstantsAssumption, Name
  <2>3. [Idle EXCEPT !.pc = "enter", !.method = method,
                     !.name = [form |-> form, at |-> p]] \in Goroutine
    BY <1>2, <2>2, ZenonT(60) DEF Goroutine, Local, Label, Method, Idle, ControlOK, Writing, Scanning, Evicting
  <2> QED BY <1>1, <2>1, <2>3
<1>4. CASE IssueWrite(t)
  <2>1. PICK method \in Writers \ {"MOVE"}, p \in Path :
             Issue(t, [Idle EXCEPT !.pc = "enter", !.method = method, !.name = Rel(p),
                                   !.left = IF method = "PUT" THEN MaxChunks ELSE 0])
    BY <1>4 DEF IssueWrite
  <2> DEFINE chunks == IF method = "PUT" THEN MaxChunks ELSE 0
  <2>2. Rel(p) \in Name /\ chunks \in Nat
    BY DEF Rel, Name, ConstantsAssumption
  <2> HIDE DEF chunks
  <2>3. [Idle EXCEPT !.pc = "enter", !.method = method, !.name = Rel(p),
                     !.left = chunks] \in Goroutine
    BY <1>2, <2>2, ZenonT(60)
    DEF Goroutine, Local, Label, Method, Writers, Idle, ControlOK, Writing, Scanning, Evicting
  <2> QED BY <1>1, <2>1, <2>3 DEF chunks
<1>5. CASE IssueMove(t)
  <2>1. PICK src \in Path, dst \in Path :
             Issue(t, [Idle EXCEPT !.pc = "enter", !.method = "MOVE",
                                   !.name = Rel(src), !.to = Rel(dst)])
    BY <1>5 DEF IssueMove
  <2>2. Rel(src) \in Name /\ Rel(dst) \in Name
    BY DEF Rel, Name
  <2>3. [Idle EXCEPT !.pc = "enter", !.method = "MOVE",
                     !.name = Rel(src), !.to = Rel(dst)] \in Goroutine
    BY <1>2, <2>2, ZenonT(60) DEF Goroutine, Local, Label, Method, Idle, ControlOK, Writing, Scanning, Evicting
  <2> QED BY <1>1, <2>1, <2>3
<1> QED BY <1>3, <1>4, <1>5 DEF Request

-----------------------------------------------------------------------------
(* ensureSpace                                                             *)
-----------------------------------------------------------------------------
(* Every step of an eviction pass.                                         *)
LEMMA EvictionStepKeeps ==
  ASSUME IInv, NEW t \in Thread, EvictionStep(t)
  PROVE  IInv'
<1> USE DEF Goroutine
<1>1. th[t] \in Local /\ ControlOK(th[t]) /\ Sound(ledger)
  BY IInvParts
<1>2. CASE SkipVictim(t)
  BY <1>2, DropType, LocalStep DEF SkipVictim
<1>3. CASE ChooseVictim(t)
  <2> DEFINE r == [th[t] EXCEPT !.pc = "unlink", !.prey = Oldest(th[t].victims)]
  <2>1. Oldest(th[t].victims) \in Victim
    BY <1>1, <1>3, OldestType DEF ChooseVictim, Local
  <2>2. r \in Goroutine
    BY <1>1, <1>3, <2>1, ZenonT(60)
    DEF ChooseVictim, Local, Label, ControlOK, Writing, Scanning, Evicting
  <2> QED BY <1>3, <2>2, LocalStep DEF ChooseVictim
<1>4. CASE UnlinkVictim(t)
  <2>1. [th[t] EXCEPT !.pc = "untrack"] \in Goroutine
    BY <1>1, <1>4 DEF UnlinkVictim, Local, Label, ControlOK, Writing, Scanning, Evicting
  <2>2. node' \in [Path -> Inode \cup {Absent, Directory}] /\ len' \in [Inode -> Nat]
    BY <1>4, IInvParts DEF UnlinkVictim, Without, Scrub
  <2> QED BY <1>4, <2>1, <2>2, BackendStep DEF UnlinkVictim, Goto
<1>5. CASE UnlinkFails(t)
  BY <1>5, DropType, LocalStep DEF UnlinkFails
<1>6. CASE UntrackVictim(t)
  <2>1. th[t].prey.name \in Name
    BY <1>1, <1>6 DEF UntrackVictim, ControlOK, Victim
  <2>2. Sound(ledger')
    BY <1>1, <1>6, <2>1, UntrackSound DEF UntrackVictim
  <2> QED BY <1>6, <2>2, DropType, LedgerStep DEF UntrackVictim
<1>7. CASE EndEviction(t)
  <2>1. [th[t] EXCEPT !.pc = "verdict", !.victims = {}] \in Goroutine
    BY <1>1, <1>7, ZenonT(60) DEF EndEviction, Local, Label, ControlOK, Writing, Scanning, Evicting
  <2> QED BY <1>7, <2>1, LocalStep DEF EndEviction
<1>8. CASE SpaceFound(t)
  <2>1. [th[t] EXCEPT !.pc = th[t].ret, !.failed = FALSE] \in Goroutine
    <3> DEFINE r == [th[t] EXCEPT !.pc = th[t].ret, !.failed = FALSE]
    <3>1. r \in Local
      BY <1>1 DEF Local
    <3>2. /\ r.pc = th[t].ret /\ r.name = th[t].name /\ r.method = th[t].method
          /\ r.to = th[t].to /\ r.ret = th[t].ret /\ r.fd = th[t].fd /\ r.scan = th[t].scan
      BY <1>1 DEF Local
    <3>3. th[t].pc = "verdict"
      BY <1>8 DEF SpaceFound
    <3> HIDE DEF r
    <3>4. ControlOK(r)
      BY <1>1, <3>2, <3>3 DEF ControlOK, Writing, Scanning, Evicting
    <3> QED BY <3>1, <3>4 DEF r
  <2> QED BY <1>8, <2>1, LocalStep DEF SpaceFound
<1>9. CASE NoSpace(t)
  <2>1. CASE th[t].ret = "write"
    <3>1. [th[t] EXCEPT !.pc = "put", !.ok = FALSE, !.failed = FALSE] \in Goroutine
      BY <1>1, <1>9, <2>1 DEF NoSpace, Local, Label, ControlOK, Writing, Scanning, Evicting
    <3> QED BY <1>9, <2>1, <3>1, LocalStep DEF NoSpace
  <2>2. CASE th[t].ret # "write"
    BY <1>9, <2>2, IdleType, LocalStep DEF NoSpace, Finish
  <2> QED BY <2>1, <2>2
<1> QED BY <1>2, <1>3, <1>4, <1>5, <1>6, <1>7, <1>8, <1>9 DEF EvictionStep

-----------------------------------------------------------------------------
(* The initial scan                                                        *)
-----------------------------------------------------------------------------
(* Replacing the stack of directories of a scan that is not over.          *)
LEMMA ScanType ==
  ASSUME IInv, NEW t \in Thread, th[t].pc = "scan" \/ th[t].pc = "enter",
         NEW s \in Seq(Frame), s # << >>
  PROVE  [th[t] EXCEPT !.pc = "scan", !.scan = s] \in Goroutine
<1>1. th[t] \in Local /\ ControlOK(th[t])
  BY IInvParts
<1> DEFINE r == [th[t] EXCEPT !.pc = "scan", !.scan = s]
<1>2. r \in Local
  BY <1>1 DEF Local, Label
<1>3. /\ r.pc = "scan" /\ r.name = th[t].name /\ r.method = th[t].method
      /\ r.to = th[t].to /\ r.scan = s
  BY <1>1 DEF Local
<1> HIDE DEF r
<1>4. ControlOK(r)
  BY <1>1, <1>3 DEF ControlOK, Writing, Scanning, Evicting
<1> QED BY <1>2, <1>4 DEF Goroutine, r

(* The head and the rest of the stack.                                     *)
LEMMA ScanParts ==
  ASSUME IInv, NEW t \in Thread, th[t].pc = "scan"
  PROVE  /\ th[t].scan \in Seq(Frame) /\ th[t].scan # << >>
         /\ Head(th[t].scan) \in Frame
         /\ Tail(th[t].scan) \in Seq(Frame)
<1>1. th[t].scan \in Seq(Frame) /\ th[t].scan # << >>
  BY IInvParts DEF Local, ControlOK, Scanning
<1> QED BY <1>1

(* Every step of the scan.                                                 *)
LEMMA ScanStepKeeps ==
  ASSUME IInv, NEW t \in Thread, ScanStep(t)
  PROVE  IInv'
<1>1. th[t] \in Local /\ ControlOK(th[t]) /\ Sound(ledger)
  BY IInvParts
<1>2. CASE StartScan(t)
  <2> DEFINE s == << [dir |-> Root, listed |-> FALSE, left |-> {}] >>
  <2>1. s \in Seq(Frame) /\ s # << >>
    BY DEF Frame
  <2> HIDE DEF s
  <2>2. [th[t] EXCEPT !.pc = "scan", !.scan = s] \in Goroutine
    BY <1>2, <2>1, ScanType DEF StartScan
  <2>3. initialized' \in BOOLEAN /\ Become(t, [th[t] EXCEPT !.pc = "scan", !.scan = s])
    BY <1>2 DEF StartScan, s
  <2>4. UNCHANGED <<node, len, ledger, issued, restarts>>
    BY <1>2 DEF StartScan
  <2> QED BY <1>1, <2>2, <2>3, <2>4, StepKeepsIInv, IInvParts DEF IInv, TypeOK
<1>3. CASE ScanList(t)
  <2> DEFINE d == Head(th[t].scan).dir
             f == [dir |-> d, listed |-> TRUE, left |-> Listing(d)]
             s == << f >> \o Tail(th[t].scan)
  <2>1. th[t].pc = "scan" /\ d \in Path \cup {Root}
    BY <1>3, ScanParts DEF ScanList, Frame
  <2>2. Listing(d) \in SUBSET [at : Path, dir : BOOLEAN, size : Nat]
    <3>1. ASSUME NEW p \in Children(node, d)
          PROVE  p \in Path /\ IsDir(node, p) \in BOOLEAN /\ StatSize(p) \in Nat
      <4>1. p \in Path
        BY DEF Children
      <4>2. p # Root
        BY <4>1, PathsAreSequences DEF Root
      <4>3. StatSize(p) \in Nat
        BY <4>1, <4>2, IInvParts DEF StatSize, IsFile, At, Absent, Directory
      <4> QED BY <4>1, <4>3 DEF IsDir
    <3> QED BY <3>1 DEF Listing
  <2>3. f \in Frame
    BY <2>1, <2>2 DEF Frame
  <2>4. s \in Seq(Frame) /\ s # << >>
    <3> HIDE DEF f
    <3> QED BY <2>1, <2>3, ScanParts
  <2>5. Become(t, [th[t] EXCEPT !.scan = s])
    BY <1>3 DEF ScanList
  <2> HIDE DEF s
  <2>6. [th[t] EXCEPT !.pc = "scan", !.scan = s] \in Goroutine
    BY <2>1, <2>4, ScanType
  <2>7. [th[t] EXCEPT !.scan = s] = [th[t] EXCEPT !.pc = "scan", !.scan = s]
    BY <1>1, <2>1 DEF Local
  <2> QED BY <1>3, <2>5, <2>6, <2>7, LocalStep DEF ScanList
<1>4. CASE ScanFails(t)
  BY <1>4, IdleType, LocalStep DEF ScanFails, Finish
<1>5. CASE ScanEntry(t)
  <2>1. th[t].pc = "scan"
    BY <1>5 DEF ScanEntry
  <2>2. PICK e \in Head(th[t].scan).left :
          LET rest == << [Head(th[t].scan) EXCEPT !.left = @ \ {e}] >> \o Tail(th[t].scan)
              down == << [dir |-> e.at, listed |-> FALSE, left |-> {}] >>
          IN  IF e.dir
              THEN /\ ledger' = TrackDir(ledger, Abs(e.at))
                   /\ Become(t, [th[t] EXCEPT !.scan = down \o rest])
              ELSE /\ ledger' = TrackScanned(ledger, Abs(e.at), e.size)
                   /\ Become(t, [th[t] EXCEPT !.scan = rest])
    BY <1>5 DEF ScanEntry
  <2> DEFINE f == [Head(th[t].scan) EXCEPT !.left = @ \ {e}]
             rest == << f >> \o Tail(th[t].scan)
             g == [dir |-> e.at, listed |-> FALSE, left |-> {}]
             down == << g >>
  <2>3. e.at \in Path /\ e.size \in Nat /\ Abs(e.at) \in Name
    BY <2>1, ScanParts DEF Frame, Abs, Name
  <2>4. f \in Frame /\ g \in Frame
    BY <2>1, <2>3, ScanParts DEF Frame
  <2>5. /\ rest \in Seq(Frame) /\ rest # << >>
        /\ down \o rest \in Seq(Frame) /\ down \o rest # << >>
    <3> HIDE DEF f, g
    <3>1. rest \in Seq(Frame) /\ rest # << >>
      BY <2>1, <2>4, ScanParts
    <3> HIDE DEF rest
    <3> QED BY <2>4, <3>1
  <2>6. CASE e.dir
    <3>1. ledger' = TrackDir(ledger, Abs(e.at)) /\ Become(t, [th[t] EXCEPT !.scan = down \o rest])
      BY <2>2, <2>6
    <3> DEFINE s == down \o rest
    <3> HIDE DEF s
    <3>2. [th[t] EXCEPT !.pc = "scan", !.scan = s] \in Goroutine
      BY <2>1, <2>5, ScanType DEF s
    <3>3. [th[t] EXCEPT !.scan = s] = [th[t] EXCEPT !.pc = "scan", !.scan = s]
      BY <1>1, <2>1 DEF Local
    <3>4. Sound(ledger')
      BY <1>1, <2>3, <3>1, TrackDirSound
    <3> QED BY <1>5, <3>1, <3>2, <3>3, <3>4, LedgerStep DEF ScanEntry, s
  <2>7. CASE ~e.dir
    <3>1. ledger' = TrackScanned(ledger, Abs(e.at), e.size) /\ Become(t, [th[t] EXCEPT !.scan = rest])
      BY <2>2, <2>7
    <3> HIDE DEF rest
    <3>2. [th[t] EXCEPT !.pc = "scan", !.scan = rest] \in Goroutine
      BY <2>1, <2>5, ScanType
    <3>3. [th[t] EXCEPT !.scan = rest] = [th[t] EXCEPT !.pc = "scan", !.scan = rest]
      BY <1>1, <2>1 DEF Local
    <3>4. Sound(ledger')
      BY <1>1, <2>3, <3>1, TrackScannedSound
    <3> QED BY <1>5, <3>1, <3>2, <3>3, <3>4, LedgerStep DEF ScanEntry
  <2> QED BY <2>6, <2>7
<1>6. CASE ScanSpace(t)
  <2> DEFINE caller == IF Len(th[t].scan) = 1 THEN "begin" ELSE "scan"
             r == [th[t] EXCEPT !.scan = Tail(@), !.need = 0, !.ret = caller]
  <2>1. th[t].pc = "scan" /\ EnsureSpace(t, r)
    BY <1>6 DEF ScanSpace
  <2>2. caller \in Label
    BY DEF Label
  <2>3. caller = "scan" => Tail(th[t].scan) # << >>
    <3>1. th[t].scan \in Seq(Frame) /\ th[t].scan # << >>
      BY <2>1, ScanParts
    <3>2. Len(Tail(th[t].scan)) = Len(th[t].scan) - 1 /\ Len(th[t].scan) \in Nat
      BY <3>1, HeadTailProperties, LenProperties
    <3> DEFINE rest == Tail(th[t].scan)
    <3> HIDE DEF rest
    <3>3. rest = << >> => Len(rest) = 0
      OBVIOUS
    <3>4. rest = << >> => Len(th[t].scan) = 1
      BY <3>2, <3>3 DEF rest
    <3> QED BY <3>4 DEF rest, caller
  <2>4. caller \in {"begin", "scan"}
    OBVIOUS
  <2> HIDE DEF caller
  <2>5. r \in Local
    BY <1>1, <2>1, <2>2, ScanParts DEF Local
  <2>6. /\ r.name = th[t].name /\ r.method = th[t].method /\ r.to = th[t].to
        /\ r.ret = caller /\ r.scan = Tail(th[t].scan)
    BY <1>1 DEF Local
  <2> HIDE DEF r
  <2>7. \E s \in Goroutine : Become(t, s)
    BY <1>1, <2>1, <2>3, <2>4, <2>5, <2>6, EnsureSpaceType DEF ControlOK
  <2> QED BY <1>6, <2>7, LocalStep DEF ScanSpace
<1> QED BY <1>2, <1>3, <1>4, <1>5, <1>6 DEF ScanStep

-----------------------------------------------------------------------------
(* Writing and reading files                                               *)
-----------------------------------------------------------------------------
(* A goroutine serving a request has a name, and MOVE has two.             *)
LEMMA NamesOfRequest ==
  ASSUME IInv, NEW t \in Thread, th[t].pc # "idle"
  PROVE  th[t].name \in Name /\ Subject(t) \in Name
BY IInvParts DEF ControlOK, Subject

(* A goroutine that goes on with its request, with the handle it needs.    *)
LEMMA GoesOnType ==
  ASSUME NEW r \in Goroutine, r.pc # "idle", NEW q \in Local,
         q.name = r.name, q.method = r.method, q.to = r.to,
         q.pc \in {"put", "closing", "observe", "forget", "retarget"},
         q.pc = "put" => q.fd \in Inode,
         q.pc = "retarget" => q.to \in Name
  PROVE  q \in Goroutine
BY DEF Goroutine, ControlOK, Writing, Scanning, Evicting

(* Every step of a PUT up to Close.                                        *)
LEMMA PutStepKeeps ==
  ASSUME IInv, ConstantsAssumption, NEW t \in Thread, PutStep(t)
  PROVE  IInv'
<1>1. /\ th[t] \in Local /\ ControlOK(th[t]) /\ Sound(ledger)
      /\ node \in [Path -> Inode \cup {Absent, Directory}] /\ len \in [Inode -> Nat]
  BY IInvParts
<1>10. ASSUME NEW i \in Inode, th[t].pc # "idle"
      PROVE  [th[t] EXCEPT !.pc = "put", !.fd = i] \in Goroutine
  <2> DEFINE q == [th[t] EXCEPT !.pc = "put", !.fd = i]
  <2>1. q \in Local
    BY <1>1 DEF Local, Label
  <2>2. /\ q.name = th[t].name /\ q.method = th[t].method /\ q.to = th[t].to
        /\ q.pc = "put" /\ q.fd = i
    BY <1>1 DEF Local
  <2> HIDE DEF q
  <2>3. q \in Goroutine
    BY <1>1, <1>10, <2>1, <2>2, GoesOnType DEF Goroutine
  <2> QED BY <2>3 DEF q
<1>2. CASE OpenForWriting(t)
  <2> DEFINE r == [th[t] EXCEPT !.need = 0, !.ret = "create"]
  <2>1. r \in Local
    BY <1>1 DEF Local, Label
  <2>2. r.name = th[t].name /\ r.method = th[t].method /\ r.to = th[t].to /\ r.ret = "create"
    BY <1>1 DEF Local
  <2>3. EnsureSpace(t, r) /\ th[t].pc # "idle"
    BY <1>2 DEF OpenForWriting, Ready
  <2> HIDE DEF r
  <2>4. \E s \in Goroutine : Become(t, s)
    BY <1>1, <2>1, <2>2, <2>3, EnsureSpaceType DEF ControlOK
  <2> QED BY <1>2, <2>4, LocalStep DEF OpenForWriting
<1>3. CASE Truncate(t)
  <2>1. th[t].pc = "create" /\ th[t].name \in Name
    BY <1>1, <1>3 DEF Truncate, ControlOK
  <2>2. th[t].name.at \in Path /\ th[t].name.at # Root
    BY <2>1, PathsAreSequences DEF Name, Root
  <2>3. node[th[t].name.at] \in Inode
    BY <1>1, <1>3, <2>2 DEF Truncate, IsFile, At, Absent, Directory
  <2> DEFINE i == node[th[t].name.at]
  <2>4. Become(t, [th[t] EXCEPT !.pc = "put", !.fd = i]) /\ len' = [len EXCEPT ![i] = 0]
    BY <1>3 DEF Truncate
  <2> HIDE DEF i
  <2>5. [th[t] EXCEPT !.pc = "put", !.fd = i] \in Goroutine
    BY <1>1, <1>10, <2>1, <2>3 DEF i
  <2>6. len' \in [Inode -> Nat]
    BY <1>1, <2>4
  <2> QED BY <1>1, <1>3, <2>4, <2>5, <2>6, BackendStep DEF Truncate
<1>4. CASE Create(t)
  <2>1. th[t].pc = "create" /\ th[t].name \in Name
    BY <1>1, <1>4 DEF Create, ControlOK
  <2>2. PICK i \in Unused :
             /\ node' = [node EXCEPT ![th[t].name.at] = i]
             /\ len' = [len EXCEPT ![i] = 0]
             /\ Become(t, [th[t] EXCEPT !.pc = "put", !.fd = i])
    BY <1>4 DEF Create
  <2>3. i \in Inode
    BY DEF Unused
  <2>4. [th[t] EXCEPT !.pc = "put", !.fd = i] \in Goroutine
    BY <1>1, <1>10, <2>1, <2>3
  <2>5. node' \in [Path -> Inode \cup {Absent, Directory}] /\ len' \in [Inode -> Nat]
    BY <1>1, <2>2, <2>3
  <2> QED BY <1>4, <2>2, <2>4, <2>5, BackendStep DEF Create
<1>5. CASE CreateFails(t)
  BY <1>5, IdleType, LocalStep DEF CreateFails, Finish
<1>6. CASE MakeRoom(t)
  <2>1. PICK c \in ChunkSizes :
             EnsureSpace(t, [th[t] EXCEPT !.need = c, !.ret = "write", !.left = @ - 1])
    BY <1>6 DEF MakeRoom
  <2> DEFINE r == [th[t] EXCEPT !.need = c, !.ret = "write", !.left = @ - 1]
  <2>2. th[t].pc = "put" /\ th[t].left > 0 /\ c \in Nat
    BY <1>6 DEF MakeRoom, ConstantsAssumption
  <2>3. th[t].left - 1 \in Nat
    BY <1>1, <2>2 DEF Local
  <2>4. r \in Local
    BY <1>1, <2>2, <2>3 DEF Local, Label
  <2>5. /\ r.name = th[t].name /\ r.method = th[t].method /\ r.to = th[t].to
        /\ r.ret = "write" /\ r.fd = th[t].fd
    BY <1>1 DEF Local
  <2> HIDE DEF r
  <2>6. \E s \in Goroutine : Become(t, s)
    BY <1>1, <2>1, <2>2, <2>4, <2>5, EnsureSpaceType DEF r, ControlOK, Writing
  <2> QED BY <1>6, <2>6, LocalStep DEF MakeRoom
<1>7. CASE Write(t)
  <2>1. th[t].pc = "write" /\ th[t].name \in Name /\ th[t].fd \in Inode /\ th[t].need \in Nat
    BY <1>1, <1>7 DEF Write, ControlOK, Writing, Local
  <2>2. PICK n \in 0 .. th[t].need :
             /\ len' = [len EXCEPT ![th[t].fd] = @ + n]
             /\ ledger' = IF n > 0 THEN Touch(ledger, th[t].name) ELSE ledger
             /\ Become(t, [th[t] EXCEPT !.pc = "put", !.ok = (n = th[t].need)])
    BY <1>7 DEF Write
  <2>3. len' \in [Inode -> Nat]
    BY <1>1, <2>1, <2>2
  <2>4. Sound(ledger')
    BY <1>1, <2>1, <2>2, TouchSound
  <2> DEFINE ok == n = th[t].need
             r == [th[t] EXCEPT !.pc = "put", !.ok = ok]
  <2>5. r \in Goroutine
    <3>1. ok \in BOOLEAN
      OBVIOUS
    <3> HIDE DEF ok
    <3>2. r \in Local
      BY <1>1, <3>1 DEF Local, Label
    <3>3. /\ r.name = th[t].name /\ r.method = th[t].method /\ r.to = th[t].to
          /\ r.pc = "put" /\ r.fd = th[t].fd
      BY <1>1 DEF Local
    <3> HIDE DEF r
    <3> QED BY <1>1, <2>1, <3>2, <3>3, GoesOnType DEF Goroutine
  <2>6. Become(t, r)
    BY <2>2
  <2> HIDE DEF r
  <2> QED BY <1>1, <1>7, <2>3, <2>4, <2>5, <2>6, StepKeepsIInv DEF Write, IInv, TypeOK
<1>8. CASE EndOfBody(t)
  <2> DEFINE s == len[th[t].fd]
             r == [th[t] EXCEPT !.pc = "closing", !.size = s, !.dir = FALSE]
  <2>1. th[t].pc = "put" /\ th[t].name \in Name /\ s \in Nat
    BY <1>1, <1>8 DEF EndOfBody, ControlOK, Writing
  <2>2. Sound(ledger')
    BY <1>1, <1>8, <2>1, TouchSound DEF EndOfBody
  <2>3. Become(t, r)
    BY <1>8 DEF EndOfBody
  <2> HIDE DEF s
  <2>4. r \in Goroutine
    <3>1. r \in Local
      BY <1>1, <2>1 DEF Local, Label
    <3>2. r.name = th[t].name /\ r.method = th[t].method /\ r.to = th[t].to /\ r.pc = "closing"
      BY <1>1 DEF Local
    <3> HIDE DEF r
    <3> QED BY <1>1, <2>1, <3>1, <3>2, GoesOnType DEF Goroutine
  <2> HIDE DEF r
  <2> QED BY <1>8, <2>2, <2>3, <2>4, LedgerStep DEF EndOfBody
<1> QED BY <1>2, <1>3, <1>4, <1>5, <1>6, <1>7, <1>8 DEF PutStep

(* Every step of GET and of Stat, and Close.                               *)
LEMMA ReadStepKeeps ==
  ASSUME IInv, NEW t \in Thread, ReadStep(t)
  PROVE  IInv'
<1>1. /\ th[t] \in Local /\ ControlOK(th[t]) /\ th[t] \in Goroutine /\ Sound(ledger)
      /\ th[t].dir \in BOOLEAN /\ th[t].size \in Nat
  BY IInvParts DEF Goroutine, Local
<1>2. ASSUME NEW p, p \in Path
      PROVE  StatSize(p) \in Nat
  <2>1. p # Root
    BY <1>2, PathsAreSequences DEF Root
  <2> QED BY <1>2, <2>1, IInvParts DEF StatSize, IsFile, At, Absent, Directory
<1>3. ASSUME NEW p \in Path, NEW l \in {"closing", "observe"}, th[t].pc # "idle"
      PROVE  [th[t] EXCEPT !.pc = l, !.size = StatSize(p), !.dir = IsDir(node, p)] \in Goroutine
  <2> DEFINE s == StatSize(p)   d == IsDir(node, p)
  <2>1. s \in Nat /\ d \in BOOLEAN
    BY <1>2 DEF IsDir
  <2> HIDE DEF s, d
  <2> DEFINE r == [th[t] EXCEPT !.pc = l, !.size = s, !.dir = d]
  <2>2. r \in Local
    BY <1>1, <2>1 DEF Local, Label
  <2>3. r.pc = l /\ r.name = th[t].name /\ r.method = th[t].method /\ r.to = th[t].to
    BY <1>1 DEF Local
  <2> HIDE DEF r
  <2>4. ControlOK(r)
    BY <1>1, <1>3, <2>3 DEF ControlOK, Writing, Scanning, Evicting
  <2>5. r \in Goroutine
    BY <2>2, <2>4 DEF Goroutine
  <2> QED BY <2>5 DEF r, s, d
<1>4. CASE OpenForReading(t)
  <2>1. th[t].pc # "idle"
    BY <1>4 DEF OpenForReading, Ready
  <2>2. Sound(ledger')
    BY <1>1, <1>4, <2>1, NamesOfRequest, TouchSound DEF OpenForReading
  <2>3. [th[t] EXCEPT !.pc = "open"] \in Goroutine
    BY <1>1, <2>1, NamesOfRequest, PlainLabel
  <2> QED BY <1>4, <2>2, <2>3, LedgerStep DEF OpenForReading, Goto
<1>5. CASE Serve(t)
  <2>1. th[t].pc = "open" /\ th[t].name \in Name /\ th[t].name.at \in Path
    BY <1>5, NamesOfRequest DEF Serve, Name
  <2>2. Sound(ledger')
    BY <1>1, <1>5, <2>1, TouchSound DEF Serve
  <2> DEFINE p == th[t].name.at
             r == [th[t] EXCEPT !.pc = "closing", !.size = StatSize(p), !.dir = IsDir(node, p)]
  <2>3. r \in Goroutine
    BY <1>3, <2>1
  <2>4. Become(t, r)
    BY <1>5 DEF Serve
  <2> HIDE DEF r
  <2> QED BY <1>5, <2>2, <2>3, <2>4, LedgerStep DEF Serve
<1>6. CASE OpenFails(t)
  BY <1>6, IdleType, LocalStep DEF OpenFails, Finish
<1>7. CASE Close(t)
  <2>1. th[t].pc = "closing"
    BY <1>7 DEF Close
  <2>2. Sound(ledger')
    BY <1>1, <1>7, <2>1, NamesOfRequest, UpdateSizeSound DEF Close
  <2>3. len' \in [Inode -> Nat]
    BY <1>7, IInvParts DEF Close, Scrub
  <2> QED BY <1>7, <2>2, <2>3, IdleType, StepKeepsIInv, IInvParts DEF Close, Finish, IInv, TypeOK
<1>8. CASE StatBackend(t)
  <2>1. th[t].pc # "idle"
    BY <1>8 DEF StatBackend, Ready
  <2>2. Subject(t).at \in Path
    BY <2>1, NamesOfRequest DEF Name
  <2> DEFINE p == Subject(t).at
             r == [th[t] EXCEPT !.pc = "observe", !.size = StatSize(p), !.dir = IsDir(node, p)]
  <2>3. r \in Goroutine
    BY <1>3, <2>1, <2>2
  <2>4. Become(t, r)
    BY <1>8 DEF StatBackend
  <2> HIDE DEF r
  <2> QED BY <1>8, <2>3, <2>4, LocalStep DEF StatBackend
<1>9. CASE StatFails(t)
  BY <1>9, IdleType, LocalStep DEF StatFails, Finish
<1>10. CASE DestinationFree(t)
  <2>1. th[t].pc # "idle" /\ th[t].to \in Name
    BY <1>1, <1>10 DEF DestinationFree, Ready, ControlOK
  <2>2. [th[t] EXCEPT !.pc = "rename"] \in Goroutine
    BY <1>1, <2>1, NamesOfRequest, PlainLabel
  <2> QED BY <1>10, <2>2, LocalStep DEF DestinationFree, Goto
<1>11. CASE ObserveStat(t)
  <2>1. th[t].pc = "observe"
    BY <1>11 DEF ObserveStat
  <2>2. Sound(ledger')
    BY <1>1, <1>11, <2>1, NamesOfRequest, ObserveSound DEF ObserveStat
  <2>3. [th[t] EXCEPT !.pc = "remove"] \in Goroutine
    BY <1>1, <2>1, NamesOfRequest, PlainLabel
  <2> QED BY <1>11, <2>2, <2>3, IdleType, LedgerStep DEF ObserveStat, Goto, Finish
<1> QED BY <1>4, <1>5, <1>6, <1>7, <1>8, <1>9, <1>10, <1>11 DEF ReadStep

-----------------------------------------------------------------------------
(* Removing, renaming and creating directories                             *)
-----------------------------------------------------------------------------
(* A goroutine that has just asked the backend what the path is.           *)
LEMMA WithKind ==
  ASSUME IInv, NEW t \in Thread, th[t].pc # "idle",
         NEW l \in {"forget", "retarget"}, NEW d \in BOOLEAN,
         l = "retarget" => th[t].to \in Name
  PROVE  [th[t] EXCEPT !.pc = l, !.dir = d] \in Goroutine
<1> DEFINE q == [th[t] EXCEPT !.pc = l, !.dir = d]
<1>1. th[t] \in Local /\ ControlOK(th[t])
  BY IInvParts
<1>2. q \in Local
  BY <1>1 DEF Local, Label
<1>3. q.name = th[t].name /\ q.method = th[t].method /\ q.to = th[t].to /\ q.pc = l
  BY <1>1 DEF Local
<1> HIDE DEF q
<1>4. q \in Goroutine
  BY <1>1, <1>2, <1>3, GoesOnType DEF Goroutine
<1> QED BY <1>4 DEF q

(* Every step of RemoveAll, Rename and Mkdir.                              *)
LEMMA TreeStepKeeps ==
  ASSUME IInv, NEW t \in Thread, TreeStep(t)
  PROVE  IInv'
<1>1. /\ th[t] \in Goroutine /\ ControlOK(th[t]) /\ Sound(ledger)
      /\ node \in [Path -> Inode \cup {Absent, Directory}] /\ len \in [Inode -> Nat]
  BY IInvParts DEF Goroutine
<1>2. CASE RemoveBackend(t)
  <2> DEFINE d == IsDir(node, Subject(t).at)
  <2>1. th[t].pc # "idle" /\ d \in BOOLEAN
    BY <1>2 DEF RemoveBackend, IsDir
  <2>2. Become(t, [th[t] EXCEPT !.pc = "forget", !.dir = d])
    BY <1>2 DEF RemoveBackend
  <2>3. node' \in [Path -> Inode \cup {Absent, Directory}] /\ len' \in [Inode -> Nat]
    BY <1>1, <1>2 DEF RemoveBackend, Without, Scrub
  <2> HIDE DEF d
  <2>4. [th[t] EXCEPT !.pc = "forget", !.dir = d] \in Goroutine
    BY <2>1, WithKind
  <2> QED BY <1>2, <2>2, <2>3, <2>4, BackendStep DEF RemoveBackend
<1>3. CASE RemoveFails(t)
  BY <1>3, IdleType, LocalStep DEF RemoveFails, Finish
<1>4. CASE RemovePanics(t)
  BY <1>4, IdleType, LocalStep DEF RemovePanics, Finish
<1>5. CASE ForgetRemoved(t)
  <2>1. th[t].pc = "forget"
    BY <1>5 DEF ForgetRemoved
  <2>2. Sound(ledger')
    BY <1>1, <1>5, <2>1, NamesOfRequest, UntrackSound, UntrackTreeSound DEF ForgetRemoved
  <2>3. th[t].method = "MOVE" => [th[t] EXCEPT !.pc = "rename"] \in Goroutine
    <3>1. th[t].method = "MOVE" => th[t].to \in Name
      BY <1>1 DEF ControlOK
    <3> QED BY <1>1, <2>1, <3>1, NamesOfRequest, PlainLabel
  <2> QED BY <1>5, <2>2, <2>3, IdleType, LedgerStep DEF ForgetRemoved, Goto, Finish
<1>6. CASE RenameBackend(t)
  <2> DEFINE src == th[t].name.at
             dst == th[t].to.at
             d == IsDir(node, src)
  <2>1. /\ th[t].pc = "rename" /\ th[t].name \in Name /\ th[t].to \in Name
        /\ src \in Path /\ d \in BOOLEAN
    BY <1>1, <1>6, NamesOfRequest DEF RenameBackend, IsDir, Name, ControlOK
  <2>2. node' = Renamed(node, src, dst)
    BY <1>6 DEF RenameBackend
  <2>3. Become(t, [th[t] EXCEPT !.pc = "retarget", !.dir = d])
    BY <1>6 DEF RenameBackend
  <2>4. node' \in [Path -> Inode \cup {Absent, Directory}]
    BY <1>1, <2>1, <2>2 DEF Renamed
  <2> HIDE DEF d
  <2>5. [th[t] EXCEPT !.pc = "retarget", !.dir = d] \in Goroutine
    BY <2>1, WithKind
  <2> QED BY <1>1, <1>6, <2>3, <2>4, <2>5, BackendStep DEF RenameBackend
<1>7. CASE RenameFails(t)
  BY <1>7, IdleType, LocalStep DEF RenameFails, Finish
<1>8. CASE Retarget(t)
  <2>1. th[t].pc = "retarget" /\ th[t].name \in Name
    BY <1>8, NamesOfRequest DEF Retarget
  <2>2. th[t].to \in Name
    BY <1>1, <2>1 DEF ControlOK
  <2>3. Sound(ledger')
    BY <1>1, <1>8, <2>1, <2>2, RetargetFileSound, RetargetTreeSound DEF Retarget
  <2> QED BY <1>8, <2>3, IdleType, LedgerStep DEF Retarget, Finish
<1>9. CASE MkdirBackend(t)
  <2>1. th[t].pc # "idle"
    BY <1>9 DEF MkdirBackend, Ready
  <2>2. node' \in [Path -> Inode \cup {Absent, Directory}]
    BY <1>1, <1>9 DEF MkdirBackend
  <2>3. [th[t] EXCEPT !.pc = "track"] \in Goroutine
    BY <1>1, <2>1, NamesOfRequest, PlainLabel
  <2> QED BY <1>1, <1>9, <2>2, <2>3, BackendStep DEF MkdirBackend, Goto
<1>10. CASE MkdirFails(t)
  BY <1>10, IdleType, LocalStep DEF MkdirFails, Finish
<1>11. CASE TrackMkdir(t)
  <2>1. th[t].pc = "track"
    BY <1>11 DEF TrackMkdir
  <2>2. Sound(ledger')
    BY <1>1, <1>11, <2>1, NamesOfRequest, TrackDirSound DEF TrackMkdir
  <2> QED BY <1>11, <2>2, IdleType, LedgerStep DEF TrackMkdir, Finish
<1> QED BY <1>2, <1>3, <1>4, <1>5, <1>6, <1>7, <1>8, <1>9, <1>10, <1>11 DEF TreeStep

-----------------------------------------------------------------------------
(* The invariant                                                           *)
-----------------------------------------------------------------------------
(* A process that has just started.                                        *)
LEMMA InitEstablishes ==
  ASSUME Init, PathsAreSequences, ConstantsAssumption
  PROVE  IInv
<1>1. Sound(ledger)
  BY EmptySound DEF Init
<1>2. th \in [Thread -> Local] /\ \A t \in Thread : ControlOK(th[t])
  BY IdleType DEF Init, Goroutine
<1>3. node \in [Path -> Inode \cup {Absent, Directory}] /\ len \in [Inode -> Nat]
  BY DEF Init, ConstantsAssumption, Absent, Directory
<1>4. issued \in 0 .. MaxRequests /\ restarts \in 0 .. MaxRestarts
  BY DEF Init, ConstantsAssumption
<1>5. initialized \in BOOLEAN
  BY DEF Init
<1> QED BY <1>1, <1>2, <1>3, <1>4, <1>5 DEF IInv, TypeOK, CurSizeCoversTracked, Sound

(* A process that starts again over the same backend.                      *)
LEMMA RestartKeeps ==
  ASSUME IInv, ConstantsAssumption, Restart
  PROVE  IInv'
<1>1. Sound(ledger')
  BY EmptySound DEF Restart
<1>2. th' \in [Thread -> Local] /\ \A t \in Thread : ControlOK(th'[t])
  BY IdleType DEF Restart, Goroutine
<1>3. node' \in [Path -> Inode \cup {Absent, Directory}] /\ len' \in [Inode -> Nat]
  BY DEF Restart, Scrub, IInv, TypeOK
<1>4. issued' \in 0 .. MaxRequests /\ restarts' \in 0 .. MaxRestarts
  BY DEF Restart, IInv, TypeOK, ConstantsAssumption
<1>8. initialized' \in BOOLEAN
  BY DEF Restart
<1>5. TypeOK'
  BY <1>1, <1>2, <1>3, <1>4, <1>8 DEF TypeOK, Sound
<1>6. CurSizeCoversTracked'
  BY <1>1 DEF CurSizeCoversTracked, Sound
<1>7. (\A t \in Thread : ControlOK(th[t]))'
  BY <1>2
<1> QED BY <1>5, <1>6, <1>7 DEF IInv

(* No step of any goroutine, of a client or of the operator breaks it.     *)
LEMMA NextKeeps ==
  ASSUME IInv, ConstantsAssumption, [Next]_vars
  PROVE  IInv'
<1>1. CASE UNCHANGED vars
  BY <1>1 DEF vars, IInv, TypeOK, CurSizeCoversTracked
<1>2. ASSUME NEW t \in Thread, Request(t)
      PROVE  IInv'
  BY <1>2, RequestKeeps
<1>3. ASSUME NEW t \in Thread, Step(t)
      PROVE  IInv'
  BY <1>3, ScanStepKeeps, EvictionStepKeeps, PutStepKeeps, ReadStepKeeps, TreeStepKeeps
  DEF Step
<1>4. CASE Restart
  BY <1>4, RestartKeeps
<1>5. CASE BudgetSpent
  BY <1>1, <1>5 DEF BudgetSpent
<1> QED BY <1>1, <1>2, <1>3, <1>4, <1>5 DEF Next

LEMMA Invariant == Spec => []IInv
<1>1. Init => IInv
  BY InitEstablishes, PathsAreSequences, ConstantsAssumption
<1>2. IInv /\ [Next]_vars => IInv'
  BY NextKeeps, ConstantsAssumption
<1> QED BY <1>1, <1>2, PTL DEF Spec

(* Every variable of Capped keeps its type: a goroutine only ever acts on  *)
(* names, handles and victims it has, the ledger stays total and curSize   *)
(* an integer, for any parameters of the code and of its environment.      *)
THEOREM TypeCorrect == Spec => []TypeOK
<1>1. IInv => TypeOK
  BY DEF IInv
<1> QED BY <1>1, Invariant, PTL

(* curSize never falls below what files records (filesystem.go:141, :151,  *)
(* :267, :371, :475), whatever the interleaving of requests, scans and     *)
(* evictions, the failures of the backend and the restarts of the process. *)
THEOREM CurSizeNeverBelowTracked == Spec => []CurSizeCoversTracked
<1>1. IInv => CurSizeCoversTracked
  BY DEF IInv
<1> QED BY <1>1, Invariant, PTL

-----------------------------------------------------------------------------
(* An eviction pass of a single goroutine                                  *)
-----------------------------------------------------------------------------
(* One goroutine: requests come one after the other.                       *)
OneThread == \A t, u \in Thread : t = u

(* While no removal has failed, a pass still has in hand every file that   *)
(* it could remove; when it is over there is room or there is none.        *)
PassOK(r) ==
    ~r.failed =>
        /\ r.pc \in {"evict", "unlink", "untrack"} =>
              \A n \in Candidates : \E v \in r.victims : v.name = n
        /\ r.pc = "verdict" => Fits(r.need) \/ Candidates = {}

LEMMA PassOver ==
  ASSUME NEW t \in Thread, NEW r \in Local, Become(t, r), th \in [Thread -> Local],
         r.pc \notin Evicting
  PROVE  PassOK(th[t])'
<1>1. th'[t] = r
  BY DEF Become
<1> QED BY <1>1 DEF PassOK, Evicting

(* A pass starts with every file it could remove in hand.                  *)
Whole(r) == r.pc = "evict" /\ \A n \in Candidates : \E v \in r.victims : v.name = n

LEMMA PassStarts ==
  ASSUME NEW t \in Thread, NEW r \in Local, EnsureSpace(t, r), th \in [Thread -> Local],
         r.ret \notin Evicting, UNCHANGED ledger
  PROVE  th'[t].pc \notin Evicting \/ Whole(th[t])'
<1> DEFINE V == { [name |-> n, at |-> ledger.files[n].at] : n \in Candidates }
<1>1. CASE Fits(r.need)
  <2>1. th'[t] = [r EXCEPT !.pc = r.ret]
    BY <1>1 DEF EnsureSpace, Become
  <2>2. th'[t].pc = r.ret
    BY <2>1 DEF Local
  <2> QED BY <2>2
<1>2. CASE ~Fits(r.need)
  <2>1. th'[t] = [r EXCEPT !.pc = "evict", !.failed = FALSE, !.victims = V]
    BY <1>2 DEF EnsureSpace, Become
  <2> HIDE DEF V
  <2>2. th'[t].pc = "evict" /\ th'[t].victims = V
    BY <2>1 DEF Local
  <2>3. ASSUME NEW n \in Candidates
        PROVE  \E v \in V : v.name = n
    <3>1. [name |-> n, at |-> ledger.files[n].at] \in V
      BY DEF V
    <3> QED BY <3>1
  <2>4. Candidates' = Candidates
    BY DEF Candidates
  <2> QED BY <2>2, <2>3, <2>4 DEF Whole
<1> QED BY <1>1, <1>2

LEMMA OtherStepStarts ==
  ASSUME IInv, NEW t \in Thread, ScanStep(t) \/ PutStep(t) \/ ReadStep(t) \/ TreeStep(t)
  PROVE  th'[t].pc \notin Evicting \/ Whole(th[t])'
<1>1. th \in [Thread -> Local] /\ th[t] \in Local
  BY IInvParts DEF IInv, TypeOK
<1>2. CASE ScanSpace(t) \/ OpenForWriting(t) \/ MakeRoom(t)
  <2>1. \E r \in Local : EnsureSpace(t, r) /\ r.ret \in {"begin", "scan", "create", "write"}
    <3>1. CASE ScanSpace(t)
      <4> DEFINE ret == IF Len(th[t].scan) = 1 THEN "begin" ELSE "scan"
                 r == [th[t] EXCEPT !.scan = Tail(@), !.need = 0, !.ret = ret]
      <4>1. Tail(th[t].scan) \in Seq(Frame) /\ ret \in Label /\ ret \in {"begin", "scan"}
        BY <1>1, <3>1, IInvParts, HeadTailProperties
        DEF ScanSpace, ControlOK, Scanning, Local, Label
      <4>2. EnsureSpace(t, r)
        BY <3>1 DEF ScanSpace
      <4> HIDE DEF ret
      <4>3. r \in Local /\ r.ret = ret
        BY <1>1, <4>1 DEF Local
      <4> QED BY <4>1, <4>2, <4>3
    <3>2. CASE OpenForWriting(t)
      <4> DEFINE r == [th[t] EXCEPT !.need = 0, !.ret = "create"]
      <4>1. r \in Local /\ r.ret = "create"
        BY <1>1, ZenonT(60) DEF Local, Label
      <4> QED BY <3>2, <4>1 DEF OpenForWriting
    <3>3. CASE MakeRoom(t)
      <4>1. PICK c \in ChunkSizes :
              EnsureSpace(t, [th[t] EXCEPT !.need = c, !.ret = "write", !.left = @ - 1])
        BY <3>3 DEF MakeRoom
      <4> DEFINE r == [th[t] EXCEPT !.need = c, !.ret = "write", !.left = @ - 1]
      <4>2. c \in Nat /\ th[t].left - 1 \in Nat
        BY <1>1, <3>3, ConstantsAssumption DEF MakeRoom, Local
      <4>3. r \in Local /\ r.ret = "write"
        BY <1>1, <4>2, ZenonT(60) DEF Local, Label
      <4> QED BY <4>1, <4>3
    <3> QED BY <1>2, <3>1, <3>2, <3>3
  <2>2. UNCHANGED ledger
    BY <1>2 DEF ScanSpace, OpenForWriting, MakeRoom
  <2> QED BY <1>1, <2>1, <2>2, PassStarts DEF Evicting
<1>3. CASE ~(ScanSpace(t) \/ OpenForWriting(t) \/ MakeRoom(t))
  <2>1. th'[t].pc \notin Evicting
    <3> USE DEF Local, Become, Goto, Finish, Idle, Evicting
    <3>1. CASE ScanStep(t)
      <4>1. CASE StartScan(t)
        BY <1>1, <4>1 DEF StartScan
      <4>2. CASE ScanList(t)
        BY <1>1, <4>2 DEF ScanList
      <4>3. CASE ScanFails(t)
        BY <1>1, <4>3 DEF ScanFails
      <4>4. CASE ScanEntry(t)
        <5>1. \E s : th'[t] = [th[t] EXCEPT !.scan = s]
          BY <1>1, <4>4, ZenonT(60) DEF ScanEntry
        <5>2. th[t].pc = "scan"
          BY <4>4 DEF ScanEntry
        <5> QED BY <1>1, <5>1, <5>2
      <4> QED BY <1>3, <3>1, <4>1, <4>2, <4>3, <4>4 DEF ScanStep
    <3>2. CASE PutStep(t)
      <4>1. CASE Truncate(t)
        BY <1>1, <4>1 DEF Truncate
      <4>2. CASE Create(t)
        BY <1>1, <4>2 DEF Create
      <4>3. CASE CreateFails(t)
        BY <1>1, <4>3 DEF CreateFails
      <4>4. CASE Write(t)
        BY <1>1, <4>4 DEF Write
      <4>5. CASE EndOfBody(t)
        BY <1>1, <4>5 DEF EndOfBody
      <4> QED BY <1>3, <3>2, <4>1, <4>2, <4>3, <4>4, <4>5 DEF PutStep
    <3>3. CASE ReadStep(t)
      <4>1. CASE OpenForReading(t)
        BY <1>1, <4>1 DEF OpenForReading
      <4>2. CASE Serve(t)
        BY <1>1, <4>2 DEF Serve
      <4>3. CASE OpenFails(t)
        BY <1>1, <4>3 DEF OpenFails
      <4>4. CASE Close(t)
        BY <1>1, <4>4 DEF Close
      <4>5. CASE StatBackend(t)
        BY <1>1, <4>5 DEF StatBackend
      <4>6. CASE StatFails(t)
        BY <1>1, <4>6 DEF StatFails
      <4>7. CASE DestinationFree(t)
        BY <1>1, <4>7 DEF DestinationFree
      <4>8. CASE ObserveStat(t)
        BY <1>1, <4>8 DEF ObserveStat
      <4> QED BY <1>3, <3>3, <4>1, <4>2, <4>3, <4>4, <4>5, <4>6, <4>7, <4>8 DEF ReadStep
    <3>4. CASE TreeStep(t)
      <4>1. CASE RemoveBackend(t)
        BY <1>1, <4>1 DEF RemoveBackend
      <4>2. CASE RemoveFails(t)
        BY <1>1, <4>2 DEF RemoveFails
      <4>3. CASE RemovePanics(t)
        BY <1>1, <4>3 DEF RemovePanics
      <4>4. CASE ForgetRemoved(t)
        BY <1>1, <4>4 DEF ForgetRemoved
      <4>5. CASE RenameBackend(t)
        BY <1>1, <4>5 DEF RenameBackend
      <4>6. CASE RenameFails(t)
        BY <1>1, <4>6 DEF RenameFails
      <4>7. CASE Retarget(t)
        BY <1>1, <4>7 DEF Retarget
      <4>8. CASE MkdirBackend(t)
        BY <1>1, <4>8 DEF MkdirBackend
      <4>9. CASE MkdirFails(t)
        BY <1>1, <4>9 DEF MkdirFails
      <4>10. CASE TrackMkdir(t)
        BY <1>1, <4>10 DEF TrackMkdir
      <4> QED BY <1>3, <3>4, <4>1, <4>2, <4>3, <4>4, <4>5, <4>6, <4>7, <4>8, <4>9, <4>10 DEF TreeStep
    <3> QED BY <1>2, <3>1, <3>2, <3>3, <3>4
  <2> QED BY <2>1
<1> QED BY <1>2, <1>3

LEMMA OtherStepPass ==
  ASSUME IInv, NEW t \in Thread, ScanStep(t) \/ PutStep(t) \/ ReadStep(t) \/ TreeStep(t)
  PROVE  PassOK(th[t])'
BY OtherStepStarts DEF PassOK, Whole, Evicting

LEMMA EvictionStepPass ==
  ASSUME IInv, NEW t \in Thread, EvictionStep(t), PassOK(th[t])
  PROVE  PassOK(th[t])'
<1>1. th \in [Thread -> Local] /\ th[t] \in Local /\ ControlOK(th[t])
  BY IInvParts DEF IInv, TypeOK
<1>2. CASE SkipVictim(t)
  <2> DEFINE v == Oldest(th[t].victims)
  <2>1. th'[t] = Drop(t, v) /\ ledger' = ledger /\ ledger.files[v.name].size = 0
    BY <1>1, <1>2 DEF SkipVictim, Become
  <2>2. th'[t].pc = "evict" /\ th'[t].victims = th[t].victims \ {v} /\ th'[t].failed = th[t].failed
    BY <1>1, <2>1 DEF Drop, Local
  <2>3. Candidates' = Candidates /\ v.name \notin Candidates
    BY <2>1 DEF Candidates
  <2> HIDE DEF v
  <2> QED BY <1>2, <2>2, <2>3 DEF PassOK, SkipVictim
<1>3. CASE ChooseVictim(t)
  <2>1. /\ th'[t].pc = "unlink" /\ th'[t].victims = th[t].victims
        /\ th'[t].failed = th[t].failed /\ ledger' = ledger
    BY <1>1, <1>3 DEF ChooseVictim, Become, Local
  <2>2. Candidates' = Candidates
    BY <2>1 DEF Candidates
  <2> QED BY <1>3, <2>1, <2>2 DEF PassOK, ChooseVictim
<1>4. CASE UnlinkVictim(t)
  <2>1. /\ th'[t].pc = "untrack" /\ th'[t].victims = th[t].victims
        /\ th'[t].failed = th[t].failed /\ ledger' = ledger
    BY <1>1, <1>4 DEF UnlinkVictim, Goto, Become, Local
  <2>2. Candidates' = Candidates
    BY <2>1 DEF Candidates
  <2> QED BY <1>4, <2>1, <2>2 DEF PassOK, UnlinkVictim
<1>5. CASE UnlinkFails(t)
  <2>1. th'[t].failed
    <3> DEFINE q == Drop(t, th[t].prey)
    <3>1. th'[t] = [q EXCEPT !.failed = TRUE]
      BY <1>1, <1>5 DEF UnlinkFails, Become
    <3>2. q \in Local
      BY <1>5, DropType DEF UnlinkFails, Goroutine
    <3> HIDE DEF q
    <3> QED BY <3>1, <3>2 DEF Local
  <2> QED BY <2>1 DEF PassOK
<1>6. CASE UntrackVictim(t)
  <2> DEFINE v == th[t].prey
  <2>1. th'[t] = Drop(t, v) /\ ledger' = Untrack(ledger, v.name)
    BY <1>1, <1>6 DEF UntrackVictim, Become
  <2>2. th'[t].pc = "evict" /\ th'[t].victims = th[t].victims \ {v} /\ th'[t].failed = th[t].failed
    BY <1>1, <2>1 DEF Drop, Local
  <2>3. Candidates' \subseteq Candidates \ {v.name}
    <3> DEFINE f == [m \in Name |-> IF m \in {v.name} THEN NoEntry ELSE ledger.files[m]]
    <3>1. f \in [Name -> Entry] /\ ledger'.files = Renumber(f)
      BY <2>1, LedgerParts, IInvParts DEF Untrack, Forget, NoEntry, Entry
    <3>2. \A n \in Name : ledger'.files[n].kind = f[n].kind /\ ledger'.files[n].size = f[n].size
      BY <3>1, RenumberKeeps
    <3> QED BY <3>2 DEF Candidates, NoEntry
  <2> HIDE DEF v
  <2> QED BY <1>6, <2>2, <2>3 DEF PassOK, UntrackVictim
<1>7. CASE EndEviction(t)
  <2>1. /\ th'[t].pc = "verdict" /\ th'[t].need = th[t].need
        /\ th'[t].failed = th[t].failed /\ ledger' = ledger
    BY <1>1, <1>7 DEF EndEviction, Become, Local
  <2>2. Candidates' = Candidates
    BY <2>1 DEF Candidates
  <2>3. th[t].victims = {} \/ Fits(th[t].need)
    BY <1>7 DEF EndEviction
  <2>4. ~th[t].failed => Fits(th[t].need) \/ Candidates = {}
    BY <1>7, <2>3 DEF PassOK, EndEviction
  <2> QED BY <2>1, <2>2, <2>4 DEF PassOK, Fits
<1>8. CASE SpaceFound(t)
  <2> DEFINE r == [th[t] EXCEPT !.pc = th[t].ret, !.failed = FALSE]
  <2>1. r \in Local /\ r.pc = th[t].ret
    BY <1>1 DEF Local
  <2>2. th[t].ret \notin Evicting
    BY <1>1, <1>8 DEF SpaceFound, ControlOK, Evicting
  <2> QED BY <1>1, <1>8, <2>1, <2>2, PassOver DEF SpaceFound
<1>9. CASE NoSpace(t)
  <2>1. CASE th[t].ret = "write"
    <3> DEFINE r == [th[t] EXCEPT !.pc = "put", !.ok = FALSE, !.failed = FALSE]
    <3>1. r \in Local /\ r.pc = "put"
      BY <1>1, ZenonT(60) DEF Local, Label
    <3>2. r.pc \notin Evicting
      BY <3>1 DEF Evicting
    <3> QED BY <1>1, <1>9, <2>1, <3>1, <3>2, PassOver DEF NoSpace
  <2>2. CASE th[t].ret # "write"
    BY <1>1, <1>9, <2>2, PassOver, IdleType DEF NoSpace, Finish, Idle, Goroutine, Evicting
  <2> QED BY <2>1, <2>2
<1> QED BY <1>2, <1>3, <1>4, <1>5, <1>6, <1>7, <1>8, <1>9 DEF EvictionStep
LEMMA PassKept ==
  ASSUME OneThread, IInv, [Next]_vars, \A t \in Thread : PassOK(th[t])
  PROVE  \A t \in Thread : PassOK(th[t])'
<1> TAKE t \in Thread
<1>1. th \in [Thread -> Local]
  BY DEF IInv, TypeOK
<1>2. CASE UNCHANGED vars
  BY <1>2 DEF vars, PassOK, Candidates, Fits
<1>3. CASE \E u \in Thread : Request(u)
  <2>1. Request(t)
    BY <1>3 DEF OneThread
  <2>2. th'[t].pc = "enter"
    <3> USE <1>1 DEF Issue, Become, Idle
    <3>1. CASE IssueRead(t)
      BY <3>1 DEF IssueRead
    <3>2. CASE IssueWrite(t)
      BY <3>2 DEF IssueWrite
    <3>3. CASE IssueMove(t)
      BY <3>3 DEF IssueMove
    <3> QED BY <2>1, <3>1, <3>2, <3>3 DEF Request
  <2> QED BY <2>2 DEF PassOK
<1>4. CASE \E u \in Thread : Step(u)
  <2>1. Step(t)
    BY <1>4 DEF OneThread
  <2> QED BY <2>1, EvictionStepPass, OtherStepPass DEF Step
<1>5. CASE Restart
  BY <1>5 DEF Restart, Idle, PassOK
<1> QED BY <1>2, <1>3, <1>4, <1>5 DEF Next, BudgetSpent

(* With one client, ensureSpace reports a full disk only when everything   *)
(* that it could evict is gone (filesystem.go:448-497), whatever is         *)
(* recorded, for any cap and any failures of the backend, which are        *)
(* reported instead.                                                       *)
THEOREM FullIsTheLastResort == OneThread => (Spec => []FullMeansNothingToEvict)
<1> DEFINE Passes == \A t \in Thread : PassOK(th[t])
<1> SUFFICES ASSUME OneThread PROVE Spec => []FullMeansNothingToEvict
  OBVIOUS
<1>1. Init => Passes
  BY DEF Init, Idle, PassOK
<1>2. IInv /\ Passes /\ [Next]_vars => Passes'
  BY PassKept
<1>3. Passes => FullMeansNothingToEvict
  BY DEF PassOK, FullMeansNothingToEvict
<1> QED BY <1>1, <1>2, <1>3, Invariant, PTL DEF Spec
=============================================================================
