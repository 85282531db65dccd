---------------------------- MODULE TreesProofs ----------------------------
(***************************************************************************)
(* For any set of paths: what a path's parent, the paths under it and its  *)
(* place below another path are.  The proofs about the components rest on  *)
(* these lemmas.                                                           *)
(***************************************************************************)
EXTENDS Trees, TLAPS, FiniteSetTheorems, SequenceTheorems, Functions

Place == Seq(Component)

LEMMA PathsArePlaces ==
  /\ Path \subseteq Place /\ Root \in Place /\ Root \notin Path
  /\ \A p \in Place : Len(p) \in Nat
  /\ Len(Root) = 0
  /\ \A p \in Place : Len(p) = 0 => p = Root
  /\ \A p \in Path : Len(p) > 0
<1>1. Root \in Place /\ Len(Root) = 0 /\ \A p \in Place : p # Root => Len(p) \in Nat \ {0}
  BY EmptySeq DEF Place, Root
<1>2. Path \subseteq Place /\ Root \notin Path
  BY PathsAreSequences DEF Place, Root
<1>3. \A p \in Place : Len(p) \in Nat
  BY LenProperties DEF Place
<1> QED BY <1>1, <1>2, <1>3

LEMMA Equal ==
  ASSUME NEW p \in Place, NEW q \in Place, Len(p) = Len(q),
         \A i \in 1 .. Len(p) : p[i] = q[i]
  PROVE  p = q
BY SeqEqual DEF Place

(* The first n components of p.                                            *)
LEMMA PrefixMeans ==
  ASSUME NEW p \in Place, NEW n \in 0 .. Len(p)
  PROVE  /\ SubSeq(p, 1, n) \in Place /\ Len(SubSeq(p, 1, n)) = n
         /\ \A i \in 1 .. n : SubSeq(p, 1, n)[i] = p[i]
<1>1. Len(p) \in Nat /\ n \in Int
  BY PathsArePlaces
<1>2. \A i \in 1 .. n : p[i] \in Component
  BY <1>1, ElementOfSeq DEF Place
<1> QED BY <1>1, <1>2, SubSeqProperties DEF Place

LEMMA UnderMeans ==
  ASSUME NEW p \in Place, NEW d \in Place
  PROVE  IsUnder(p, d) <=> Len(p) > Len(d) /\ \A i \in 1 .. Len(d) : p[i] = d[i]
<1>1. Len(p) \in Nat /\ Len(d) \in Nat
  BY PathsArePlaces
<1>2. CASE Len(p) > Len(d)
  <2>1. PICK u \in Place : /\ u = SubSeq(p, 1, Len(d)) /\ Len(u) = Len(d)
                           /\ \A i \in 1 .. Len(d) : u[i] = p[i]
    <3>1. Len(d) \in 0 .. Len(p)
      BY <1>1, <1>2
    <3> QED BY <3>1, PrefixMeans
  <2>2. u = d <=> \A i \in 1 .. Len(d) : p[i] = d[i]
    BY <2>1, Equal
  <2> QED BY <1>2, <2>1, <2>2 DEF IsUnder
<1> QED BY <1>1, <1>2 DEF IsUnder

LEMMA ParentMeans ==
  ASSUME NEW p \in Path
  PROVE  /\ Parent(p) \in Place /\ Len(Parent(p)) = Len(p) - 1
         /\ \A i \in 1 .. Len(p) - 1 : Parent(p)[i] = p[i]
<1>1. p \in Place /\ Len(p) - 1 \in 0 .. Len(p)
  BY PathsArePlaces
<1>2. PICK n \in 0 .. Len(p) : n = Len(p) - 1
  BY <1>1
<1> QED BY <1>1, <1>2, PrefixMeans DEF Parent

LEMMA UnderParent ==
  ASSUME NEW p \in Path
  PROVE  /\ IsUnder(p, Parent(p)) \/ Parent(p) = Root
         /\ \A d \in Place : IsUnder(p, d) => d = Parent(p) \/ IsUnder(Parent(p), d)
         /\ \A d \in Place : IsUnder(Parent(p), d) => IsUnder(p, d)
<1>1. p \in Place /\ Parent(p) \in Place /\ Len(p) \in Nat /\ Len(p) > 0
  BY PathsArePlaces, ParentMeans
<1>2. IsUnder(p, Parent(p))
  BY <1>1, UnderMeans, ParentMeans
<1>3. ASSUME NEW d \in Place, IsUnder(p, d)
      PROVE  d = Parent(p) \/ IsUnder(Parent(p), d)
  <2>1. d \in Place /\ Len(d) \in Nat /\ Len(p) > Len(d) /\ \A i \in 1 .. Len(d) : p[i] = d[i]
    BY <1>1, <1>3, UnderMeans, PathsArePlaces
  <2>2. CASE Len(d) = Len(p) - 1
    BY <1>1, <2>1, <2>2, Equal, ParentMeans
  <2>3. CASE Len(d) < Len(p) - 1
    BY <1>1, <2>1, <2>3, UnderMeans, ParentMeans
  <2> QED BY <1>1, <2>1, <2>2, <2>3
<1>4. ASSUME NEW d \in Place, IsUnder(Parent(p), d)
      PROVE  IsUnder(p, d)
  BY <1>1, <1>4, UnderMeans, ParentMeans, PathsArePlaces
<1> QED BY <1>2, <1>3, <1>4

(* What is above one name is a chain.                                      *)
LEMMA UnderOrder ==
  ASSUME NEW a \in Place, NEW b \in Place, NEW c \in Place
  PROVE  /\ ~IsUnder(a, a)
         /\ IsUnder(a, b) /\ IsUnder(b, c) => IsUnder(a, c)
         /\ IsUnder(a, b) /\ IsUnder(a, c) => b = c \/ IsUnder(b, c) \/ IsUnder(c, b)
<1>1. /\ a \in Place /\ b \in Place /\ c \in Place
      /\ Len(a) \in Nat /\ Len(b) \in Nat /\ Len(c) \in Nat
  BY PathsArePlaces
<1>2. ~IsUnder(a, a)
  BY <1>1, UnderMeans
<1>3. IsUnder(a, b) /\ IsUnder(b, c) => IsUnder(a, c)
  BY <1>1, UnderMeans
<1>4. ASSUME IsUnder(a, b), IsUnder(a, c)
      PROVE  b = c \/ IsUnder(b, c) \/ IsUnder(c, b)
  <2>1. /\ \A i \in 1 .. Len(b) : a[i] = b[i]
        /\ \A i \in 1 .. Len(c) : a[i] = c[i]
    BY <1>1, <1>4, UnderMeans
  <2>2. CASE Len(b) = Len(c)
    BY <1>1, <2>1, <2>2, Equal
  <2>3. CASE Len(b) > Len(c)
    BY <1>1, <2>1, <2>3, UnderMeans
  <2>4. CASE Len(b) < Len(c)
    BY <1>1, <2>1, <2>4, UnderMeans
  <2> QED BY <1>1, <2>2, <2>3, <2>4
<1> QED BY <1>2, <1>3, <1>4

LEMMA RebaseMeans ==
  ASSUME NEW src \in Place, NEW dst \in Place, NEW q \in Place, q = src \/ IsUnder(q, src)
  PROVE  /\ Rebase(q, src, dst) \in Place
         /\ Len(Rebase(q, src, dst)) = Len(dst) + Len(q) - Len(src)
         /\ \A i \in 1 .. Len(dst) : Rebase(q, src, dst)[i] = dst[i]
         /\ \A i \in Len(dst) + 1 .. Len(dst) + Len(q) - Len(src) :
               Rebase(q, src, dst)[i] = q[i - Len(dst) + Len(src)]
<1> DEFINE m == Len(src) + 1
           n == Len(q)
           u == SubSeq(q, m, n)
<1>1. Len(src) \in Nat /\ Len(dst) \in Nat /\ Len(q) \in Nat /\ Len(q) >= Len(src)
  BY PathsArePlaces DEF IsUnder
<1>2. m \in Int /\ n \in Int /\ \A i \in m .. n : q[i] \in Component
  BY <1>1, ElementOfSeq DEF Place
<1>3. /\ u \in Place /\ Len(u) = Len(q) - Len(src)
      /\ \A i \in 1 .. Len(q) - Len(src) : u[i] = q[Len(src) + i]
  <2> HIDE DEF m, n
  <2>1. /\ u \in Place /\ Len(u) = IF m <= n THEN n - m + 1 ELSE 0
        /\ \A i \in 1 .. n - m + 1 : u[i] = q[m + i - 1]
    BY <1>2, SubSeqProperties DEF Place
  <2> QED BY <1>1, <2>1 DEF m, n
<1> HIDE DEF u
<1>4. /\ dst \o u \in Place /\ Len(dst \o u) = Len(dst) + Len(u)
      /\ \A i \in 1 .. Len(dst) + Len(u) :
            (dst \o u)[i] = IF i <= Len(dst) THEN dst[i] ELSE u[i - Len(dst)]
  BY <1>3, ConcatProperties DEF Place
<1>5. PICK r : r = dst \o u
  OBVIOUS
<1>6. Rebase(q, src, dst) = r
  BY <1>5 DEF Rebase, u, m, n
<1>7. /\ r \in Place /\ Len(r) = Len(dst) + Len(q) - Len(src)
      /\ \A i \in 1 .. Len(dst) : r[i] = dst[i]
      /\ \A i \in Len(dst) + 1 .. Len(dst) + Len(q) - Len(src) :
            r[i] = q[i - Len(dst) + Len(src)]
  <2>1. Len(r) = Len(dst) + Len(q) - Len(src)
    BY <1>1, <1>3, <1>4, <1>5
  <2>2. ASSUME NEW i \in Len(dst) + 1 .. Len(dst) + Len(q) - Len(src)
        PROVE  r[i] = q[i - Len(dst) + Len(src)]
    <3>1. PICK j \in 1 .. Len(q) - Len(src) : i = Len(dst) + j
      <4>1. i - Len(dst) \in 1 .. Len(q) - Len(src) /\ i = Len(dst) + (i - Len(dst))
        BY <1>1
      <4> QED BY <4>1
    <3>2. r[i] = u[j]
      BY <1>1, <1>3, <1>4, <1>5, <3>1
    <3>3. u[j] = q[Len(src) + j] /\ Len(src) + j = i - Len(dst) + Len(src)
      BY <1>1, <1>3, <3>1
    <3> QED BY <3>2, <3>3
  <2> QED BY <1>1, <1>3, <1>4, <1>5, <2>1, <2>2
<1> QED BY <1>6, <1>7

LEMMA RebaseBack ==
  ASSUME NEW src \in Place, NEW dst \in Place, NEW q \in Place, q = src \/ IsUnder(q, src)
  PROVE  /\ Rebase(q, src, dst) = dst \/ IsUnder(Rebase(q, src, dst), dst)
         /\ Rebase(q, src, dst) = dst <=> q = src
         /\ Rebase(Rebase(q, src, dst), dst, src) = q
<1>1. /\ src \in Place /\ dst \in Place /\ q \in Place
      /\ Len(src) \in Nat /\ Len(dst) \in Nat /\ Len(q) \in Nat
  BY PathsArePlaces
<1>2. Len(q) >= Len(src) /\ \A i \in 1 .. Len(src) : q[i] = src[i]
  BY <1>1, UnderMeans
<1>3. PICK r \in Place :
         /\ r = Rebase(q, src, dst)
         /\ Len(r) = Len(dst) + Len(q) - Len(src)
         /\ \A i \in 1 .. Len(dst) : r[i] = dst[i]
         /\ \A i \in Len(dst) + 1 .. Len(dst) + Len(q) - Len(src) :
               r[i] = q[i - Len(dst) + Len(src)]
  <2>1. /\ Rebase(q, src, dst) \in Place
        /\ Len(Rebase(q, src, dst)) = Len(dst) + Len(q) - Len(src)
        /\ \A i \in 1 .. Len(dst) : Rebase(q, src, dst)[i] = dst[i]
        /\ \A i \in Len(dst) + 1 .. Len(dst) + Len(q) - Len(src) :
               Rebase(q, src, dst)[i] = q[i - Len(dst) + Len(src)]
    BY <1>1, RebaseMeans
  <2> QED BY <2>1
<1>4. (r = dst \/ IsUnder(r, dst)) /\ (r = dst <=> q = src)
  <2>1. CASE Len(q) = Len(src)
    <3>1. q = src
      BY <1>1, <1>2, <2>1, Equal
    <3>2. Len(r) = Len(dst)
      BY <1>1, <1>3, <2>1
    <3>3. r = dst
      BY <1>1, <1>3, <3>2, Equal
    <3> QED BY <3>1, <3>3
  <2>2. CASE Len(q) > Len(src)
    <3>1. Len(r) > Len(dst) /\ q # src
      BY <1>1, <1>3, <2>2
    <3>2. IsUnder(r, dst) /\ r # dst
      BY <1>1, <1>3, <3>1, UnderMeans
    <3> QED BY <3>1, <3>2
  <2> QED BY <1>1, <1>2, <2>1, <2>2
<1>5. PICK b \in Place :
         /\ b = Rebase(r, dst, src)
         /\ Len(b) = Len(src) + Len(r) - Len(dst)
         /\ \A i \in 1 .. Len(src) : b[i] = src[i]
         /\ \A i \in Len(src) + 1 .. Len(src) + Len(r) - Len(dst) :
               b[i] = r[i - Len(src) + Len(dst)]
  <2>1. /\ Rebase(r, dst, src) \in Place
        /\ Len(Rebase(r, dst, src)) = Len(src) + Len(r) - Len(dst)
        /\ \A i \in 1 .. Len(src) : Rebase(r, dst, src)[i] = src[i]
        /\ \A i \in Len(src) + 1 .. Len(src) + Len(r) - Len(dst) :
               Rebase(r, dst, src)[i] = r[i - Len(src) + Len(dst)]
    BY <1>1, <1>4, RebaseMeans
  <2> QED BY <2>1
<1>6. Len(b) = Len(q)
  BY <1>1, <1>3, <1>5
<1>7. ASSUME NEW i \in 1 .. Len(q)
      PROVE  b[i] = q[i]
  <2>1. CASE i <= Len(src)
    BY <1>1, <1>2, <1>5, <2>1
  <2>2. CASE i > Len(src)
    <3>1. PICK k \in Nat : k = i - Len(src) + Len(dst)
      BY <1>1, <2>2
    <3>2. k \in Len(dst) + 1 .. Len(dst) + Len(q) - Len(src) /\ k - Len(dst) + Len(src) = i
      BY <1>1, <2>2, <3>1
    <3>3. b[i] = r[k]
      BY <1>1, <1>3, <1>5, <2>2, <3>1
    <3> QED BY <1>3, <3>2, <3>3
  <2> QED BY <1>1, <2>1, <2>2
<1>8. b = q
  <2>1. \A i \in 1 .. Len(b) : b[i] = q[i]
    BY <1>6, <1>7
  <2> QED BY <1>1, <1>5, <1>6, <2>1, Equal
<1> QED BY <1>3, <1>4, <1>5, <1>8

(* A name above what was renamed, and below its new name, is the new name  *)
(* of one above what it was.                                               *)
LEMMA RebaseBetween ==
  ASSUME NEW src \in Place, NEW dst \in Place, NEW q \in Place, NEW e \in Place, IsUnder(q, src),
         IsUnder(Rebase(q, src, dst), e), IsUnder(e, dst)
  PROVE  \E n \in 1 .. Len(q) - 1 :
            /\ IsUnder(q, SubSeq(q, 1, n)) /\ IsUnder(SubSeq(q, 1, n), src)
            /\ Rebase(SubSeq(q, 1, n), src, dst) = e
<1>1. /\ src \in Place /\ dst \in Place /\ q \in Place /\ e \in Place
      /\ Len(src) \in Nat /\ Len(dst) \in Nat /\ Len(q) \in Nat /\ Len(e) \in Nat
  BY PathsArePlaces
<1>2. Len(q) > Len(src) /\ \A i \in 1 .. Len(src) : q[i] = src[i]
  BY <1>1, UnderMeans
<1>3. Len(e) > Len(dst) /\ \A i \in 1 .. Len(dst) : e[i] = dst[i]
  BY <1>1, UnderMeans
<1>4. PICK r \in Place :
         /\ r = Rebase(q, src, dst)
         /\ Len(r) = Len(dst) + Len(q) - Len(src)
         /\ \A i \in Len(dst) + 1 .. Len(dst) + Len(q) - Len(src) :
               r[i] = q[i - Len(dst) + Len(src)]
  <2>1. /\ Rebase(q, src, dst) \in Place
        /\ Len(Rebase(q, src, dst)) = Len(dst) + Len(q) - Len(src)
        /\ \A i \in 1 .. Len(dst) : Rebase(q, src, dst)[i] = dst[i]
        /\ \A i \in Len(dst) + 1 .. Len(dst) + Len(q) - Len(src) :
               Rebase(q, src, dst)[i] = q[i - Len(dst) + Len(src)]
    BY <1>1, RebaseMeans
  <2> QED BY <2>1
<1>5. Len(r) > Len(e) /\ \A i \in 1 .. Len(e) : r[i] = e[i]
  BY <1>1, <1>4, UnderMeans
<1>6. PICK n \in Nat : n = Len(src) + (Len(e) - Len(dst))
  BY <1>1, <1>3
<1>7. n \in 1 .. Len(q) - 1 /\ n > Len(src) /\ n \in 0 .. Len(q)
  BY <1>1, <1>3, <1>4, <1>5, <1>6
<1>8. PICK d \in Place : /\ d = SubSeq(q, 1, n) /\ Len(d) = n
                         /\ \A i \in 1 .. n : d[i] = q[i]
  BY <1>1, <1>7, PrefixMeans
<1>9. IsUnder(q, d) /\ IsUnder(d, src)
  <2>1. Len(d) \in Nat /\ Len(q) > Len(d) /\ Len(d) > Len(src)
    BY <1>1, <1>7, <1>8
  <2>2. \A i \in 1 .. Len(d) : q[i] = d[i]
    BY <1>8
  <2>3. \A i \in 1 .. Len(src) : d[i] = src[i]
    BY <1>1, <1>2, <1>8, <2>1
  <2> QED BY <1>1, <1>8, <2>1, <2>2, <2>3, UnderMeans
<1>10. PICK f \in Place :
         /\ f = Rebase(d, src, dst)
         /\ Len(f) = Len(dst) + Len(d) - Len(src)
         /\ \A i \in 1 .. Len(dst) : f[i] = dst[i]
         /\ \A i \in Len(dst) + 1 .. Len(dst) + Len(d) - Len(src) :
               f[i] = d[i - Len(dst) + Len(src)]
  <2>1. d = src \/ IsUnder(d, src)
    BY <1>9
  <2>2. /\ Rebase(d, src, dst) \in Place
        /\ Len(Rebase(d, src, dst)) = Len(dst) + Len(d) - Len(src)
        /\ \A i \in 1 .. Len(dst) : Rebase(d, src, dst)[i] = dst[i]
        /\ \A i \in Len(dst) + 1 .. Len(dst) + Len(d) - Len(src) :
               Rebase(d, src, dst)[i] = d[i - Len(dst) + Len(src)]
    BY <1>1, <2>1, RebaseMeans
  <2> QED BY <2>2
<1>11. Len(f) = Len(e)
  BY <1>1, <1>6, <1>8, <1>10
<1>12. ASSUME NEW i \in 1 .. Len(e)
       PROVE  f[i] = e[i]
  <2>1. CASE i <= Len(dst)
    BY <1>1, <1>3, <1>10, <2>1
  <2>2. CASE i > Len(dst)
    <3>1. PICK k \in Nat : k = i - Len(dst) + Len(src)
      <4>1. i - Len(dst) + Len(src) \in Nat
        BY <1>1, <2>2
      <4> QED BY <4>1
    <3>2. k \in 1 .. n /\ i \in Len(dst) + 1 .. Len(dst) + Len(q) - Len(src)
      BY <1>1, <1>4, <1>5, <1>6, <2>2, <3>1
    <3>3. r[i] = q[k] /\ r[i] = e[i]
      BY <1>4, <1>5, <3>1, <3>2
    <3>4. i \in Len(dst) + 1 .. Len(dst) + Len(d) - Len(src)
      BY <1>1, <1>6, <1>8, <2>2
    <3>5. f[i] = d[k] /\ d[k] = q[k]
      BY <1>8, <1>10, <3>1, <3>2, <3>4
    <3> QED BY <3>3, <3>5
  <2> QED BY <1>1, <2>1, <2>2
<1>13. f = e
  <2>1. \A i \in 1 .. Len(f) : f[i] = e[i]
    BY <1>11, <1>12
  <2> QED BY <1>1, <1>10, <1>11, <2>1, Equal
<1> QED BY <1>7, <1>8, <1>9, <1>10, <1>13

(* A directory is not moved below itself: the paths below it would be as   *)
(* many as a part of them.                                                 *)
LEMMA NotIntoItself ==
  ASSUME NEW src \in Path, NEW dst \in Path, Movable(src, dst)
  PROVE  ~IsUnder(dst, src)
<1> SUFFICES ASSUME IsUnder(dst, src) PROVE FALSE
  OBVIOUS
<1> DEFINE S == { q \in Path : IsUnder(q, src) }
           f == [q \in S |-> Rebase(q, src, dst)]
<1>1. \A q \in S : /\ Rebase(q, src, dst) \in Path /\ IsUnder(Rebase(q, src, dst), dst)
                   /\ Rebase(Rebase(q, src, dst), dst, src) = q
  <2>1. SUFFICES ASSUME NEW q \in S
                 PROVE  /\ Rebase(q, src, dst) \in Path /\ IsUnder(Rebase(q, src, dst), dst)
                        /\ Rebase(Rebase(q, src, dst), dst, src) = q
    OBVIOUS
  <2>2. src \in Place /\ dst \in Place /\ q \in Place /\ IsUnder(q, src) /\ q # src
    BY PathsArePlaces, UnderOrder
  <2> QED BY <2>2, RebaseBack DEF Movable
<1>2. \A q \in S : f[q] \in S /\ f[q] # dst
  <2>1. SUFFICES ASSUME NEW q \in S PROVE f[q] \in S /\ f[q] # dst
    OBVIOUS
  <2>2. /\ Rebase(q, src, dst) \in Path /\ IsUnder(Rebase(q, src, dst), dst)
        /\ src \in Place /\ dst \in Place /\ Rebase(q, src, dst) \in Place
    BY <1>1, PathsArePlaces
  <2>3. IsUnder(Rebase(q, src, dst), src) /\ Rebase(q, src, dst) # dst
    BY <2>2, UnderOrder
  <2> QED BY <2>2, <2>3
<1>3. \A a, b \in S : f[a] = f[b] => a = b
  BY <1>1
<1>4. f \in [S -> S] /\ dst \in S
  BY <1>2
<1>5. IsFiniteSet(S)
  BY PathsAreSequences, FS_Subset
<1> HIDE DEF S, f
<1>6. f \in Injection(S, S)
  BY <1>3, <1>4 DEF Injection, IsInjective
<1>7. f \in Surjection(S, S)
  BY <1>5, <1>6, FS_Injection
<1> QED BY <1>2, <1>4, <1>7 DEF Surjection

-----------------------------------------------------------------------------
(* Trees whose paths have their parents among them: whatever is there has  *)
(* directories above it, and no inode has two names.                       *)
-----------------------------------------------------------------------------
AtOrUnder(q, p) == q = p \/ IsUnder(q, p)
Closed == \A p \in Path : \A n \in 1 .. Len(p) - 1 : SubSeq(p, 1, n) \in Path

IsTree(tree) ==
    /\ \A p, d \in Path : tree[p] # Absent /\ IsUnder(p, d) => tree[d] = Directory
    /\ \A p, q \in Path : tree[p] > 0 /\ tree[q] = tree[p] => p = q

LEMMA ParentIsPath ==
  ASSUME Closed, NEW p \in Path
  PROVE  Parent(p) \in Path \cup {Root}
<1>1. Len(p) \in Nat /\ Len(p) > 0 /\ Parent(p) \in Place /\ Len(Parent(p)) = Len(p) - 1
  BY PathsArePlaces, ParentMeans
<1>2. CASE Len(p) = 1
  BY <1>1, <1>2, PathsArePlaces
<1>3. CASE Len(p) > 1
  <2>1. Len(p) - 1 \in 1 .. Len(p) - 1
    BY <1>1, <1>3
  <2> QED BY <2>1 DEF Closed, Parent
<1> QED BY <1>1, <1>2, <1>3

(* What is made has directories above it.                                  *)
LEMMA AboveMade ==
  ASSUME Closed, NEW tree, IsTree(tree), NEW p \in Path, CanMake(tree, p),
         NEW d \in Path, IsUnder(p, d)
  PROVE  tree[d] = Directory /\ d # p
<1>1. p \in Place /\ d \in Place /\ d # Root /\ Len(d) \in Nat
  BY PathsArePlaces
<1>2. d = Parent(p) \/ IsUnder(Parent(p), d)
  BY <1>1, UnderParent
<1>3. d # p
  BY <1>1, UnderOrder
<1>4. CASE Parent(p) = Root
  <2>1. ~IsUnder(Root, d)
    BY <1>1, PathsArePlaces DEF IsUnder
  <2> QED BY <1>1, <1>2, <1>4, <2>1
<1>5. CASE Parent(p) # Root
  <2>1. Parent(p) \in Path
    BY <1>5, ParentIsPath
  <2>2. tree[Parent(p)] = Directory
    BY <1>5 DEF CanMake, IsDir, At
  <2>3. tree[Parent(p)] # Absent
    BY <2>2 DEF Directory, Absent
  <2> QED BY <1>2, <1>3, <2>1, <2>2, <2>3 DEF IsTree
<1> QED BY <1>4, <1>5

LEMMA MadeIsTree ==
  ASSUME Closed, NEW tree \in [Path -> Int], IsTree(tree), NEW p \in Path, CanMake(tree, p),
         NEW i \in Int, i > 0 => \A q \in Path : tree[q] # i
  PROVE  IsTree([tree EXCEPT ![p] = i])
<1>1. PICK t \in [Path -> Int] : t = [tree EXCEPT ![p] = i]
  OBVIOUS
<1>2. t[p] = i /\ \A q \in Path : q # p => t[q] = tree[q]
  BY <1>1
<1>3. ASSUME NEW q \in Path, NEW d \in Path, t[q] # Absent, IsUnder(q, d)
      PROVE  t[d] = Directory
  <2>1. CASE q = p
    <3>1. tree[d] = Directory /\ d # p
      BY <1>3, <2>1, AboveMade
    <3> QED BY <1>2, <3>1
  <2>2. CASE q # p
    <3>1. tree[d] = Directory
      BY <1>2, <1>3, <2>2 DEF IsTree
    <3>2. d # p
      BY <3>1 DEF CanMake, Absent, Directory
    <3> QED BY <1>2, <3>1, <3>2
  <2> QED BY <2>1, <2>2
<1>4. ASSUME NEW q \in Path, NEW e \in Path, t[q] > 0, t[e] = t[q]
      PROVE  q = e
  BY <1>2, <1>4 DEF IsTree
<1> QED BY <1>1, <1>3, <1>4 DEF IsTree

LEMMA WithoutIsTree ==
  ASSUME NEW tree \in [Path -> Int], IsTree(tree), NEW p \in Path
  PROVE  /\ Without(tree, p) \in [Path -> Int]
         /\ \A q \in Path : IF AtOrUnder(q, p) THEN Without(tree, p)[q] = Absent
                            ELSE Without(tree, p)[q] = tree[q]
         /\ IsTree(Without(tree, p))
<1>1. PICK t : t = Without(tree, p)
  OBVIOUS
<1>2. t \in [Path -> Int]
  BY <1>1 DEF Without, Absent
<1>3. \A q \in Path : IF AtOrUnder(q, p) THEN t[q] = Absent ELSE t[q] = tree[q]
  BY <1>1 DEF Without, AtOrUnder
<1>4. ASSUME NEW q \in Path, NEW d \in Path, t[q] # Absent, IsUnder(q, d)
      PROVE  t[d] = Directory
  <2>1. ~AtOrUnder(q, p) /\ tree[q] # Absent
    BY <1>3, <1>4
  <2>2. ~AtOrUnder(d, p)
    <3>1. q \in Place /\ d \in Place /\ p \in Place
      BY PathsArePlaces
    <3> QED BY <1>4, <2>1, <3>1, UnderOrder DEF AtOrUnder
  <2> QED BY <1>3, <1>4, <2>1, <2>2 DEF IsTree
<1>5. ASSUME NEW q \in Path, NEW e \in Path, t[q] > 0, t[e] = t[q]
      PROVE  q = e
  BY <1>3, <1>5 DEF IsTree, Absent
<1> QED BY <1>1, <1>2, <1>3, <1>4, <1>5 DEF IsTree

(* Where a rename may be made: nothing is below the new name, and neither  *)
(* name is below the other.                                                *)
LEMMA RenameRoom ==
  ASSUME NEW tree \in [Path -> Int], IsTree(tree), NEW src \in Path, NEW dst \in Path,
         src # dst, CanRename(tree, src, dst)
  PROVE  /\ tree[src] # Absent /\ tree[dst] # Directory
         /\ ~AtOrUnder(dst, src) /\ ~AtOrUnder(src, dst)
         /\ \A q \in Path : IsUnder(q, dst) => tree[q] = Absent
         /\ \A q \in Path : ~(AtOrUnder(q, src) /\ AtOrUnder(q, dst))
<1>1. src # Root /\ dst # Root /\ src \in Place /\ dst \in Place
  BY PathsArePlaces
<1>2. tree[src] # Absent /\ ~IsUnder(dst, src) /\ tree[dst] # Directory
  BY <1>1 DEF CanRename, CanMake, IsFile, Exists, At, Absent, Directory
<1>3. \A q \in Path : IsUnder(q, dst) => tree[q] = Absent
  BY <1>2 DEF IsTree
<1>4. ASSUME NEW q \in Path, AtOrUnder(q, src), AtOrUnder(q, dst)
      PROVE  FALSE
  <2>1. q \in Place
    BY PathsArePlaces
  <2> QED BY <1>1, <1>2, <1>3, <1>4, <2>1, UnderOrder DEF AtOrUnder
<1> QED BY <1>2, <1>3, <1>4 DEF AtOrUnder

LEMMA RenamedMeans ==
  ASSUME NEW tree \in [Path -> Int], IsTree(tree), NEW src \in Path, NEW dst \in Path,
         src # dst, CanRename(tree, src, dst)
  PROVE  /\ Renamed(tree, src, dst) \in [Path -> Int]
         /\ Renamed(tree, src, dst)[dst] = tree[src]
         /\ \A q \in Path : IsUnder(q, dst) =>
               Renamed(tree, src, dst)[q] =
                  IF Rebase(q, dst, src) \in Path THEN tree[Rebase(q, dst, src)] ELSE Absent
         /\ \A q \in Path : AtOrUnder(q, src) => Renamed(tree, src, dst)[q] = Absent
         /\ \A q \in Path : ~AtOrUnder(q, src) /\ ~AtOrUnder(q, dst) =>
               Renamed(tree, src, dst)[q] = tree[q]
<1>1. PICK t : t = Renamed(tree, src, dst)
  OBVIOUS
<1>2. t = [q \in Path |->
        IF q = dst THEN tree[src]
        ELSE IF IsUnder(q, dst) /\ Rebase(q, dst, src) \in Path THEN tree[Rebase(q, dst, src)]
        ELSE IF q = src \/ IsUnder(q, src) THEN Absent ELSE tree[q]]
  BY <1>1 DEF Renamed
<1>3. /\ ~AtOrUnder(dst, src) /\ ~AtOrUnder(src, dst)
      /\ \A q \in Path : IsUnder(q, dst) => tree[q] = Absent
      /\ \A q \in Path : ~(AtOrUnder(q, src) /\ AtOrUnder(q, dst))
  BY RenameRoom
<1>4. t \in [Path -> Int] /\ t[dst] = tree[src]
  BY <1>2 DEF Absent
<1>5. ASSUME NEW q \in Path, IsUnder(q, dst)
      PROVE  t[q] = IF Rebase(q, dst, src) \in Path THEN tree[Rebase(q, dst, src)] ELSE Absent
  <2>1. q # dst
    BY <1>5, PathsArePlaces, UnderOrder
  <2> QED BY <1>2, <1>3, <1>5, <2>1
<1>6. \A q \in Path : AtOrUnder(q, src) => t[q] = Absent
  BY <1>2, <1>3 DEF AtOrUnder
<1>7. \A q \in Path : ~AtOrUnder(q, src) /\ ~AtOrUnder(q, dst) => t[q] = tree[q]
  BY <1>2 DEF AtOrUnder
<1> QED BY <1>1, <1>4, <1>5, <1>6, <1>7

(* A renamed path that is there came from one that was, by its own way.    *)
LEMMA RenamedFrom ==
  ASSUME NEW tree \in [Path -> Int], IsTree(tree), NEW src \in Path, NEW dst \in Path,
         src # dst, CanRename(tree, src, dst), NEW q \in Path,
         Renamed(tree, src, dst)[q] # Absent
  PROVE  ~AtOrUnder(q, src) /\
         IF AtOrUnder(q, dst)
         THEN \E o \in Path : /\ AtOrUnder(o, src) /\ q = Rebase(o, src, dst)
                              /\ Renamed(tree, src, dst)[q] = tree[o]
                              /\ o = src <=> q = dst
         ELSE Renamed(tree, src, dst)[q] = tree[q]
<1>1. q \in Place /\ src \in Place /\ dst \in Place
  BY PathsArePlaces
<1>2. PICK t : t = Renamed(tree, src, dst)
  OBVIOUS
<1>3. ~AtOrUnder(q, src)
  BY RenamedMeans
<1>4. CASE q = dst
  <2>1. Rebase(src, src, dst) = dst
    BY <1>1, RebaseBack
  <2> QED BY <1>3, <1>4, <2>1, RenamedMeans DEF AtOrUnder
<1>5. CASE IsUnder(q, dst)
  <2>1. PICK o \in Path : o = Rebase(q, dst, src) /\ t[q] = tree[o]
    <3>1. Rebase(q, dst, src) \in Path /\ t[q] = tree[Rebase(q, dst, src)]
      BY <1>2, <1>5, RenamedMeans
    <3> QED BY <3>1
  <2>2. AtOrUnder(o, src) /\ (o = src <=> q = dst) /\ q = Rebase(o, src, dst)
    BY <1>1, <1>5, <2>1, RebaseBack DEF AtOrUnder
  <2> QED BY <1>2, <1>3, <1>5, <2>1, <2>2 DEF AtOrUnder
<1>6. CASE ~AtOrUnder(q, dst)
  BY <1>3, <1>6, RenamedMeans
<1> QED BY <1>4, <1>5, <1>6 DEF AtOrUnder

LEMMA RenamedIsTree ==
  ASSUME Closed, NEW tree \in [Path -> Int], IsTree(tree), NEW src \in Path, NEW dst \in Path,
         src # dst, CanRename(tree, src, dst)
  PROVE  IsTree(Renamed(tree, src, dst))
<1>1. PICK t \in [Path -> Int] : t = Renamed(tree, src, dst)
  BY RenamedMeans
<1>2. /\ t[dst] = tree[src]
      /\ \A q \in Path : IsUnder(q, dst) =>
            t[q] = IF Rebase(q, dst, src) \in Path THEN tree[Rebase(q, dst, src)] ELSE Absent
      /\ \A q \in Path : AtOrUnder(q, src) => t[q] = Absent
      /\ \A q \in Path : ~AtOrUnder(q, src) /\ ~AtOrUnder(q, dst) => t[q] = tree[q]
  BY <1>1, RenamedMeans
<1>3. /\ tree[src] # Absent /\ tree[dst] # Directory
      /\ ~AtOrUnder(dst, src) /\ ~AtOrUnder(src, dst)
      /\ \A q \in Path : IsUnder(q, dst) => tree[q] = Absent
  BY RenameRoom
<1>4. \A q \in Path : q \in Place
  BY PathsArePlaces
<1>5. ASSUME NEW q \in Path, t[q] # Absent
      PROVE  /\ ~AtOrUnder(q, src)
             /\ AtOrUnder(q, dst) =>
                   \E o \in Path : /\ AtOrUnder(o, src) /\ q = Rebase(o, src, dst)
                                   /\ t[q] = tree[o] /\ (o = src <=> q = dst)
             /\ ~AtOrUnder(q, dst) => t[q] = tree[q]
  BY <1>1, <1>5, RenamedFrom
<1>6. ASSUME NEW d \in Path, IsUnder(dst, d)
      PROVE  t[d] = Directory
  <2>1. tree[d] = Directory
    <3>1. CASE CanMake(tree, dst)
      BY <1>6, <3>1, AboveMade
    <3>2. CASE ~CanMake(tree, dst)
      <4>1. IsFile(tree, dst) /\ dst # Root
        BY <3>2, PathsArePlaces DEF CanRename
      <4>2. tree[dst] # Absent
        BY <4>1 DEF IsFile, At, Absent
      <4> QED BY <1>6, <4>2 DEF IsTree
    <3> QED BY <3>1, <3>2
  <2>2. ~AtOrUnder(d, src) /\ ~AtOrUnder(d, dst)
    <3>1. ~AtOrUnder(d, src)
      BY <1>3, <1>4, <1>6, UnderOrder DEF AtOrUnder
    <3>2. ~AtOrUnder(d, dst)
      BY <1>4, <1>6, UnderOrder DEF AtOrUnder
    <3> QED BY <3>1, <3>2
  <2> QED BY <1>2, <2>1, <2>2
<1>7. ASSUME NEW q \in Path, NEW d \in Path, t[q] # Absent, IsUnder(q, d)
      PROVE  t[d] = Directory
  <2>1. CASE q = dst
    BY <1>6, <1>7, <2>1
  <2>2. CASE IsUnder(q, dst)
    <3>1. PICK o \in Path : IsUnder(o, src) /\ q = Rebase(o, src, dst) /\ tree[o] # Absent
      <4>1. q # dst
        BY <1>4, <2>2, UnderOrder
      <4> QED BY <1>5, <1>7, <2>2, <4>1 DEF AtOrUnder
    <3>2. d = dst \/ IsUnder(d, dst) \/ IsUnder(dst, d)
      BY <1>4, <1>7, <2>2, UnderOrder
    <3>3. CASE d = dst
      <4>1. tree[src] = Directory
        BY <3>1 DEF IsTree
      <4> QED BY <1>2, <3>3, <4>1
    <3>4. CASE IsUnder(d, dst)
      <4>1. PICK n \in 1 .. Len(o) - 1 :
              /\ IsUnder(o, SubSeq(o, 1, n)) /\ IsUnder(SubSeq(o, 1, n), src)
              /\ Rebase(SubSeq(o, 1, n), src, dst) = d
        BY <1>4, <1>7, <3>1, <3>4, RebaseBetween
      <4>2. PICK e \in Path : e = SubSeq(o, 1, n)
        BY DEF Closed
      <4>3. IsUnder(o, e) /\ IsUnder(e, src) /\ Rebase(e, src, dst) = d
        BY <4>1, <4>2
      <4>4. tree[e] = Directory
        BY <3>1, <4>3 DEF IsTree
      <4>5. Rebase(d, dst, src) = e
        BY <1>4, <4>3, RebaseBack
      <4> QED BY <1>2, <3>4, <4>4, <4>5
    <3>5. CASE IsUnder(dst, d)
      BY <1>6, <3>5
    <3> QED BY <3>2, <3>3, <3>4, <3>5
  <2>3. CASE ~AtOrUnder(q, dst)
    <3>1. ~AtOrUnder(q, src) /\ tree[q] # Absent
      BY <1>5, <1>7, <2>3
    <3>2. tree[d] = Directory
      BY <1>7, <3>1 DEF IsTree
    <3>3. ~AtOrUnder(d, src)
      BY <1>4, <1>7, <3>1, UnderOrder DEF AtOrUnder
    <3>4. ~AtOrUnder(d, dst)
      BY <1>3, <3>2 DEF AtOrUnder, Absent, Directory
    <3> QED BY <1>2, <3>2, <3>3, <3>4
  <2> QED BY <2>1, <2>2, <2>3 DEF AtOrUnder
<1>8. ASSUME NEW q \in Path, NEW e \in Path, t[q] > 0, t[e] = t[q]
      PROVE  q = e
  <2>1. t[q] # Absent /\ t[e] # Absent
    BY <1>8 DEF Absent
  <2>2. CASE AtOrUnder(q, dst) /\ AtOrUnder(e, dst)
    <3>1. PICK o \in Path : q = Rebase(o, src, dst) /\ t[q] = tree[o]
      BY <1>5, <2>1, <2>2
    <3>2. PICK u \in Path : e = Rebase(u, src, dst) /\ t[e] = tree[u]
      BY <1>5, <2>1, <2>2
    <3>3. o = u
      BY <1>8, <3>1, <3>2 DEF IsTree
    <3> QED BY <3>1, <3>2, <3>3
  <2>3. CASE AtOrUnder(q, dst) /\ ~AtOrUnder(e, dst)
    <3>1. PICK o \in Path : AtOrUnder(o, src) /\ t[q] = tree[o]
      BY <1>5, <2>1, <2>3
    <3>2. ~AtOrUnder(e, src) /\ t[e] = tree[e]
      BY <1>5, <2>1, <2>3
    <3> QED BY <1>8, <3>1, <3>2 DEF IsTree
  <2>4. CASE ~AtOrUnder(q, dst) /\ AtOrUnder(e, dst)
    <3>1. PICK o \in Path : AtOrUnder(o, src) /\ t[e] = tree[o]
      BY <1>5, <2>1, <2>4
    <3>2. ~AtOrUnder(q, src) /\ t[q] = tree[q]
      BY <1>5, <2>1, <2>4
    <3> QED BY <1>8, <3>1, <3>2 DEF IsTree
  <2>5. CASE ~AtOrUnder(q, dst) /\ ~AtOrUnder(e, dst)
    BY <1>5, <1>8, <2>1, <2>5 DEF IsTree
  <2> QED BY <2>2, <2>3, <2>4, <2>5
<1> QED BY <1>1, <1>7, <1>8 DEF IsTree
=============================================================================
