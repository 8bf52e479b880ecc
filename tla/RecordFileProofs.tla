-------------------------- MODULE RecordFileProofs --------------------------
(***************************************************************************)
(* Proofs about the recorder's files, for every set of dumps: what is written *)
(* in binary is read back as it was recorded, and the JSON is an array.  What *)
(* is written and what is read are folds, so the proofs are inductions on the *)
(* number of parts written or read so far; their steps are those of FoldSteps. *)
(***************************************************************************)
EXTENDS RecordFile, FiniteSetTheorems, SequenceTheorems, TLAPS

(***************************************************************************)
(* Folds, step by step                                                     *)
(***************************************************************************)
Wrotes == INSTANCE FoldSteps WITH op <- Then
Joined(a, b) == a \o b
Cats == INSTANCE FoldSteps WITH op <- Joined
Ues_ == INSTANCE FoldSteps WITH op <- TakeUe
BSs == INSTANCE FoldSteps WITH op <- TakeBs
Chunks_ == INSTANCE FoldSteps WITH op <- TakeChunk

\* c has what was written after each part, beginning with c[0].
Chain(c, n, w) ==
  /\ c \in [0..n -> Seq(Nat)]
  /\ \A k \in 1..n : w[k] \in Seq(Nat) /\ c[k] = c[k - 1] \o w[k]

\* Folds with a name of their own, so that a proof can do without what FoldLeft is.
FoldThen(base, s) == FoldLeft(Then, base, s)
FoldCat(base, s) == FoldLeft(\o, base, s)
FoldUes(base, s) == FoldLeft(TakeUe, base, s)
FoldBSs(base, s) == FoldLeft(TakeBs, base, s)
FoldChunks(base, s) == FoldLeft(TakeChunk, base, s)

\* h[k] is what k steps make of base.
ThenSteps(n, base, s, h) ==
  h[0] = base /\ (\A k \in 1..n : h[k] = Then(h[k - 1], s[k])) /\ FoldThen(base, s) = h[n]
CatSteps(n, base, s, h) ==
  h[0] = base /\ (\A k \in 1..n : h[k] = Joined(h[k - 1], s[k])) /\ FoldCat(base, s) = h[n]
UeSteps(n, base, s, h) ==
  h[0] = base /\ (\A k \in 1..n : h[k] = TakeUe(h[k - 1], s[k])) /\ FoldUes(base, s) = h[n]
BsSteps(n, base, s, h) ==
  h[0] = base /\ (\A k \in 1..n : h[k] = TakeBs(h[k - 1], s[k])) /\ FoldBSs(base, s) = h[n]
ChunkSteps(n, base, s, h) ==
  h[0] = base /\ (\A k \in 1..n : h[k] = TakeChunk(h[k - 1], s[k])) /\ FoldChunks(base, s) = h[n]

LEMMA FoldThenSteps ==
  ASSUME NEW n \in Nat, NEW base, NEW s, DOMAIN s = 1..n
  PROVE  \E h : ThenSteps(n, base, s, h)
<1>1. FoldThen(base, s) = Wrotes!Fold(base, s)
  BY DEF FoldThen, FoldLeft, MapThenFoldSet, Max, Wrotes!Fold, Wrotes!Iterates
<1>2. QED
  BY <1>1, Wrotes!Steps DEF ThenSteps

LEMMA FoldCatSteps ==
  ASSUME NEW n \in Nat, NEW base, NEW s, DOMAIN s = 1..n
  PROVE  \E h : CatSteps(n, base, s, h)
<1>1. FoldCat(base, s) = Cats!Fold(base, s)
  BY DEF FoldCat, FoldLeft, MapThenFoldSet, Max, Cats!Fold, Cats!Iterates, Joined
<1>2. QED
  BY <1>1, Cats!Steps DEF CatSteps

LEMMA FoldUesSteps ==
  ASSUME NEW n \in Nat, NEW base, NEW s, DOMAIN s = 1..n
  PROVE  \E h : UeSteps(n, base, s, h)
<1>1. FoldUes(base, s) = Ues_!Fold(base, s)
  BY DEF FoldUes, FoldLeft, MapThenFoldSet, Max, Ues_!Fold, Ues_!Iterates
<1>2. QED
  BY <1>1, Ues_!Steps DEF UeSteps

LEMMA FoldBSsSteps ==
  ASSUME NEW n \in Nat, NEW base, NEW s, DOMAIN s = 1..n
  PROVE  \E h : BsSteps(n, base, s, h)
<1>1. FoldBSs(base, s) = BSs!Fold(base, s)
  BY DEF FoldBSs, FoldLeft, MapThenFoldSet, Max, BSs!Fold, BSs!Iterates
<1>2. QED
  BY <1>1, BSs!Steps DEF BsSteps

LEMMA FoldChunksSteps ==
  ASSUME NEW n \in Nat, NEW base, NEW s, DOMAIN s = 1..n
  PROVE  \E h : ChunkSteps(n, base, s, h)
<1>1. FoldChunks(base, s) = Chunks_!Fold(base, s)
  BY DEF FoldChunks, FoldLeft, MapThenFoldSet, Max, Chunks_!Fold, Chunks_!Iterates
<1>2. QED
  BY <1>1, Chunks_!Steps DEF ChunkSteps

(***************************************************************************)
(* What is written, part behind part                                       *)
(***************************************************************************)
\* The file has w from position p on.
At(p, w) == \A k \in 1..Len(w) : p + k - 1 <= Len(file) /\ file[p + k - 1] = w[k]

LEMMA ConcatFacts ==
  ASSUME NEW a \in Seq(Nat), NEW b \in Seq(Nat)
  PROVE  /\ a \o b \in Seq(Nat)
         /\ Len(a) \in Nat /\ Len(b) \in Nat
         /\ Len(a \o b) = Len(a) + Len(b)
         /\ \A k \in 1..Len(a) : (a \o b)[k] = a[k]
         /\ \A k \in 1..Len(b) : (a \o b)[Len(a) + k] = b[k]
OBVIOUS

LEMMA ConcatOf ==
  ASSUME NEW U, NEW a, NEW b, a \in Seq(U), b \in Seq(U)
  PROVE  /\ a \o b \in Seq(U)
         /\ Len(a \o b) = Len(a) + Len(b)
         /\ \A k \in 1..Len(a) : (a \o b)[k] = a[k]
         /\ \A k \in 1..Len(b) : (a \o b)[Len(a) + k] = b[k]
OBVIOUS

LEMMA TwoElements ==
  ASSUME NEW U, NEW a \in U, NEW b \in U
  PROVE  <<a>> \o <<b>> = <<a, b>>
<1> DEFINE x == <<a>>
<1> DEFINE y == <<b>>
<1> DEFINE xy == x \o y
<1> DEFINE z == <<a, b>>
<1>1. /\ x \in Seq(U) /\ Len(x) = 1 /\ x[1] = a
      /\ y \in Seq(U) /\ Len(y) = 1 /\ y[1] = b
      /\ z \in Seq(U) /\ Len(z) = 2 /\ z[1] = a /\ z[2] = b
  OBVIOUS
<1> HIDE DEF x, y, z
<1>2. /\ xy \in Seq(U) /\ Len(xy) = Len(x) + Len(y)
      /\ \A k \in 1..Len(x) : xy[k] = x[k]
      /\ \A k \in 1..Len(y) : xy[Len(x) + k] = y[k]
  <2>1. x \in Seq(U) /\ y \in Seq(U)
    BY <1>1
  <2>2. QED
    BY ONLY <2>1, ConcatOf
<1> HIDE DEF xy
<1>3. Len(xy) = 2 /\ xy[1] = a /\ xy[2] = b
  <2>1. 1 \in 1..Len(x) /\ 1 \in 1..Len(y) /\ Len(x) + 1 = 2
    BY <1>1
  <2>2. QED
    BY <1>1, <1>2, <2>1
<1>4. \A k \in 1..Len(xy) : xy[k] = z[k]
  <2>1. \A k \in 1..2 : k = 1 \/ k = 2
    OBVIOUS
  <2>2. QED
    BY <1>1, <1>3, <2>1
<1>5. xy = z
  BY <1>1, <1>2, <1>3, <1>4, SeqEqual
<1>6. QED
  BY <1>5 DEF x, y, z, xy

\* What follows in the file, part for part.
LEMMA AtConcat ==
  ASSUME NEW a \in Seq(Nat), NEW b \in Seq(Nat), NEW p \in Nat \ {0}
  PROVE  At(p, a \o b) <=> At(p, a) /\ At(p + Len(a), b)
<1> DEFINE ab == a \o b
<1>1. /\ Len(a) \in Nat /\ Len(b) \in Nat /\ Len(ab) = Len(a) + Len(b)
      /\ \A k \in 1..Len(a) : ab[k] = a[k]
      /\ \A k \in 1..Len(b) : ab[Len(a) + k] = b[k]
  BY ConcatFacts
<1> HIDE DEF ab
<1>2. ASSUME At(p, ab)
      PROVE  At(p, a) /\ At(p + Len(a), b)
  <2>1. \A k \in 1..Len(a) : p + k - 1 <= Len(file) /\ file[p + k - 1] = a[k]
    BY <1>1, <1>2 DEF At
  <2>2. ASSUME NEW k \in 1..Len(b)
        PROVE  p + Len(a) + k - 1 <= Len(file) /\ file[p + Len(a) + k - 1] = b[k]
    <3>1. Len(a) + k \in 1..Len(ab) /\ p + (Len(a) + k) - 1 = p + Len(a) + k - 1
      BY <1>1
    <3>2. p + (Len(a) + k) - 1 <= Len(file) /\ file[p + (Len(a) + k) - 1] = ab[Len(a) + k]
      BY <1>2, <3>1 DEF At
    <3>3. QED
      BY <1>1, <3>1, <3>2
  <2>3. QED
    BY <2>1, <2>2 DEF At
<1>3. ASSUME At(p, a), At(p + Len(a), b)
      PROVE  At(p, ab)
  <2>1. ASSUME NEW k \in 1..Len(ab)
        PROVE  p + k - 1 <= Len(file) /\ file[p + k - 1] = ab[k]
    <3>1. CASE k <= Len(a)
      BY <1>1, <1>3, <3>1 DEF At
    <3>2. CASE ~ (k <= Len(a))
      <4> DEFINE j == k - Len(a)
      <4>1. j \in 1..Len(b) /\ k = Len(a) + j /\ p + Len(a) + j - 1 = p + k - 1
        BY <1>1, <3>2
      <4> HIDE DEF j
      <4>2. p + Len(a) + j - 1 <= Len(file) /\ file[p + Len(a) + j - 1] = b[j]
        BY <1>3, <4>1 DEF At
      <4>3. ab[k] = b[j]
        BY <1>1, <4>1
      <4>4. QED
        BY <4>1, <4>2, <4>3
    <3>3. QED
      BY <3>1, <3>2
  <2>2. QED
    BY <2>1 DEF At
<1>4. QED
  BY <1>2, <1>3 DEF ab

\* Where each part of what is written in n parts begins.
Located(p, c, n, w) ==
  /\ \A k \in 0..n : At(p, c[k]) /\ Len(c[k]) \in Nat
  /\ \A k \in 1..n : /\ At(p + Len(c[k - 1]), w[k])
                     /\ Len(w[k]) \in Nat /\ Len(c[k]) = Len(c[k - 1]) + Len(w[k])

LEMMA ChainAt ==
  ASSUME NEW n \in Nat, NEW c, NEW w, Chain(c, n, w), NEW p \in Nat \ {0}, At(p, c[n])
  PROVE  Located(p, c, n, w)
<1>1. \A k \in 0..n : c[k] \in Seq(Nat) /\ Len(c[k]) \in Nat
  BY DEF Chain
<1>2. \A k \in 1..n : k - 1 \in 0..n /\ k \in 0..n
  OBVIOUS
<1>w. \A k \in 1..n : w[k] \in Seq(Nat) /\ c[k] = c[k - 1] \o w[k]
  BY Zenon DEF Chain
<1>3. ASSUME NEW k \in 1..n, At(p, c[k])
      PROVE  At(p, c[k - 1]) /\ At(p + Len(c[k - 1]), w[k])
  <2>1. c[k - 1] \in Seq(Nat) /\ w[k] \in Seq(Nat) /\ c[k] = c[k - 1] \o w[k]
    BY <1>1, <1>2, <1>w
  <2>2. At(p, c[k - 1] \o w[k])
    BY <1>3, <2>1
  <2>3. QED
    BY <2>1, <2>2, AtConcat
<1> DEFINE S == {k \in 0..n : At(p, c[n - k])}
<1>4. 0 \in S
  OBVIOUS
<1>5. ASSUME NEW k \in 1..n, k - 1 \in S
      PROVE  k \in S
  <2>1. n - (k - 1) \in 1..n /\ (n - (k - 1)) - 1 = n - k /\ k \in 0..n
    OBVIOUS
  <2>2. At(p, c[n - (k - 1)])
    BY <1>5
  <2>3. At(p, c[n - k])
    BY <1>3, <2>1, <2>2
  <2>4. QED
    BY <2>1, <2>3
<1>6. 0..n \subseteq S
  <2> HIDE DEF S
  <2>1. QED
    BY <1>4, <1>5, Cats!UpTo
<1>7. ASSUME NEW k \in 0..n
      PROVE  At(p, c[k])
  <2>1. n - k \in S /\ n - (n - k) = k
    BY <1>6
  <2>2. QED
    BY <2>1
<1>8. ASSUME NEW k \in 1..n
      PROVE  /\ At(p + Len(c[k - 1]), w[k])
             /\ Len(w[k]) \in Nat /\ Len(c[k]) = Len(c[k - 1]) + Len(w[k])
  <2>1. c[k - 1] \in Seq(Nat) /\ w[k] \in Seq(Nat) /\ c[k] = c[k - 1] \o w[k]
    BY <1>1, <1>2, <1>w
  <2>2. Len(w[k]) \in Nat /\ Len(c[k - 1] \o w[k]) = Len(c[k - 1]) + Len(w[k])
    BY <2>1, ConcatFacts
  <2>3. At(p + Len(c[k - 1]), w[k])
    BY <1>2, <1>3, <1>7
  <2>4. QED
    BY <2>1, <2>2, <2>3
<1>9. QED
  BY <1>1, <1>7, <1>8 DEF Located

LEMMA ThenWrites ==
  ASSUME NEW a, NEW b
  PROVE  Then(Wrote(a), Wrote(b)) = Wrote(a \o b)
BY DEF Then, Wrote

\* s has n parts that can all be written: the k-th one is w[k].
Parts(n, w, s) ==
  DOMAIN s = 1..n /\ \A k \in 1..n : s[k] = Wrote(w[k]) /\ w[k] \in Seq(Nat)

\* Parts that can all be written are written one behind the other.
LEMMA ThenChain ==
  ASSUME NEW n \in Nat, NEW w, NEW s, NEW w0, w0 \in Seq(Nat), Parts(n, w, s)
  PROVE  \E c : Chain(c, n, w) /\ c[0] = w0 /\ FoldThen(Wrote(w0), s) = Wrote(c[n])
<1>0. n \in Nat /\ DOMAIN s = 1..n
  BY DEF Parts
<1>p. \A k \in 1..n : s[k] = Wrote(w[k]) /\ w[k] \in Seq(Nat)
  BY DEF Parts
<1>h. PICK h : ThenSteps(n, Wrote(w0), s, h)
  BY <1>0, FoldThenSteps
<1>1. /\ h[0] = Wrote(w0)
      /\ \A k \in 1..n : h[k] = Then(h[k - 1], s[k])
      /\ FoldThen(Wrote(w0), s) = h[n]
  BY <1>h DEF ThenSteps
<1> DEFINE S == {k \in 0..n : h[k] = Wrote(h[k].v) /\ h[k].v \in Seq(Nat)}
<1> DEFINE c == [k \in 0..n |-> h[k].v]
<1>2. 0 \in S
  <2>1. h[0] = Wrote(w0) /\ 0 \in 0..n
    BY <1>1
  <2>2. h[0].v = w0
    BY <2>1 DEF Wrote
  <2>3. QED
    BY <2>1, <2>2
<1>3. ASSUME NEW k \in 1..n, k - 1 \in S
      PROVE  k \in S /\ h[k].v = h[k - 1].v \o w[k]
  <2>1. h[k - 1] = Wrote(h[k - 1].v) /\ h[k - 1].v \in Seq(Nat)
    BY <1>3
  <2> DEFINE x == h[k - 1].v \o w[k]
  <2>2. h[k] = Wrote(x)
    <3>1. h[k] = Then(h[k - 1], Wrote(w[k]))
      BY <1>1, <1>p
    <3>2. QED
      BY <2>1, <3>1, ThenWrites
  <2>3. x \in Seq(Nat)
    BY <1>p, <2>1, ConcatFacts
  <2> HIDE DEF x
  <2>4. h[k].v = x /\ k \in 0..n
    BY <2>2 DEF Wrote
  <2>5. h[k] = Wrote(h[k].v) /\ h[k].v \in Seq(Nat)
    BY <2>2, <2>3, <2>4
  <2>6. QED
    BY <2>4, <2>5 DEF x
<1>4. 0..n \subseteq S
  <2> HIDE DEF S
  <2>1. QED
    BY <1>2, <1>3, Cats!UpTo
<1>5. \A k \in 1..n : k - 1 \in 0..n /\ k \in 0..n
  OBVIOUS
<1>6. c \in [0..n -> Seq(Nat)]
  BY <1>4
<1>7. \A k \in 1..n : c[k] = c[k - 1] \o w[k]
  BY <1>3, <1>4, <1>5
<1>8. c[0] = w0 /\ FoldThen(Wrote(w0), s) = Wrote(c[n])
  <2>1. n \in S /\ 0 \in 0..n /\ n \in 0..n
    BY <1>4
  <2>2. QED
    BY <1>1, <2>1 DEF Wrote
<1> HIDE DEF c
<1>9. QED
  BY <1>p, <1>6, <1>7, <1>8 DEF Chain

\* w has n parts.
Numbers(n, w) == DOMAIN w = 1..n /\ \A k \in 1..n : w[k] \in Seq(Nat)

LEMMA CatChain ==
  ASSUME NEW n \in Nat, NEW w, NEW w0, w0 \in Seq(Nat), Numbers(n, w)
  PROVE  \E c : Chain(c, n, w) /\ c[0] = w0 /\ FoldCat(w0, w) = c[n]
<1>0. n \in Nat /\ DOMAIN w = 1..n
  BY DEF Numbers
<1>p. \A k \in 1..n : w[k] \in Seq(Nat)
  BY DEF Numbers
<1>h. PICK h : CatSteps(n, w0, w, h)
  BY <1>0, FoldCatSteps
<1>1. /\ h[0] = w0
      /\ \A k \in 1..n : h[k] = Joined(h[k - 1], w[k])
      /\ FoldCat(w0, w) = h[n]
  BY <1>h DEF CatSteps
<1> DEFINE S == {k \in 0..n : h[k] \in Seq(Nat)}
<1> DEFINE c == [k \in 0..n |-> h[k]]
<1>2. 0 \in S
  BY <1>1
<1>3. ASSUME NEW k \in 1..n, k - 1 \in S
      PROVE  k \in S
  <2>1. h[k - 1] \in Seq(Nat) /\ h[k] = h[k - 1] \o w[k]
    BY <1>1, <1>3 DEF Joined
  <2>2. h[k - 1] \o w[k] \in Seq(Nat)
    BY <1>p, <2>1, ConcatFacts
  <2> DEFINE x == h[k - 1] \o w[k]
  <2> HIDE DEF x
  <2>3. h[k] = x /\ x \in Seq(Nat) /\ k \in 0..n
    BY <2>1, <2>2 DEF x
  <2>4. QED
    BY <2>3
<1>4. 0..n \subseteq S
  <2> HIDE DEF S
  <2>1. QED
    BY <1>2, <1>3, Cats!UpTo
<1>5. \A k \in 1..n : k - 1 \in 0..n /\ k \in 0..n
  OBVIOUS
<1>6. c \in [0..n -> Seq(Nat)]
  BY <1>4
<1>7. \A k \in 1..n : c[k] = c[k - 1] \o w[k]
  BY <1>1, <1>5 DEF Joined
<1>8. c[0] = w0 /\ FoldCat(w0, w) = c[n]
  BY <1>1
<1> HIDE DEF c
<1>9. QED
  BY <1>p, <1>6, <1>7, <1>8 DEF Chain

(***************************************************************************)
(* The order of the BSs in a chunk                                         *)
(***************************************************************************)
\* The BSs of a chunk, each at its place among them.
Ordered(q, D) ==
  /\ q \in [1..Cardinality(D) -> D]
  /\ \A i, j \in 1..Cardinality(D) : i < j => q[i] < q[j]

\* There is an order: the least first, then the others.
LEMMA OrderExists ==
  ASSUME NEW E, IsFiniteSet(E), E \subseteq Nat
  PROVE  \E q : Ordered(q, E)
<1> DEFINE N == Cardinality(E)
<1> DEFINE S == {n \in 0..N : \A D \in SUBSET E : Cardinality(D) = n => \E q : Ordered(q, D)}
<1>1. N \in Nat /\ \A D \in SUBSET E : IsFiniteSet(D)
  BY FS_CardinalityType, FS_Subset
<1>2. 0 \in S
  <2>1. ASSUME NEW D \in SUBSET E, Cardinality(D) = 0
        PROVE  Ordered([i \in 1..0 |-> 0], D)
    <3>1. 1..Cardinality(D) = {} /\ 1..0 = {}
      BY <2>1
    <3>2. QED
      BY <3>1 DEF Ordered
  <2>2. QED
    BY <1>1, <2>1
<1>3. ASSUME NEW n \in 1..N, n - 1 \in S
      PROVE  n \in S
  <2>1. ASSUME NEW D \in SUBSET E, Cardinality(D) = n
        PROVE  \E q : Ordered(q, D)
    <3>1. IsFiniteSet(D) /\ D \subseteq Nat /\ n \in Nat \ {0}
      BY <1>1
    <3>2. D # {}
      BY <2>1, <3>1, FS_EmptySet
    <3>3. PICK x \in D : \A y \in D : x <= y
      BY <3>1, <3>2, Cats!LeastNumber
    <3>4. Cardinality(D \ {x}) = n - 1 /\ D \ {x} \in SUBSET E
      BY <2>1, <3>1, FS_RemoveElement
    <3>5. PICK r : Ordered(r, D \ {x})
      BY <1>3, <3>4
    <3> DEFINE q == [i \in 1..n |-> IF i = 1 THEN x ELSE r[i - 1]]
    <3>6. \A i \in 2..n : r[i - 1] \in D \ {x}
      BY <3>1, <3>4, <3>5 DEF Ordered
    <3>7. q \in [1..n -> D]
      BY <3>6
    <3>8. ASSUME NEW i \in 1..n, NEW j \in 1..n, i < j
          PROVE  q[i] < q[j]
      <4>1. q[j] = r[j - 1] /\ r[j - 1] \in D \ {x}
        BY <3>6, <3>8
      <4>2. CASE i = 1
        <5>1. q[i] = x /\ x <= r[j - 1] /\ x # r[j - 1]
          BY <3>3, <4>1, <4>2
        <5>2. x \in Nat /\ r[j - 1] \in Nat
          BY <3>1, <4>1
        <5> HIDE DEF q
        <5>3. QED
          BY <4>1, <5>1, <5>2
      <4>3. CASE i # 1
        <5>1. i - 1 \in 1..(n - 1) /\ j - 1 \in 1..(n - 1) /\ i - 1 < j - 1
          BY <3>8, <4>3
        <5>2. r[i - 1] < r[j - 1]
          BY <3>4, <3>5, <5>1 DEF Ordered
        <5>3. QED
          BY <4>1, <4>3, <5>2
      <4>4. QED
        BY <4>2, <4>3
    <3> HIDE DEF q
    <3>9. Ordered(q, D)
      BY <2>1, <3>7, <3>8 DEF Ordered
    <3>10. QED
      BY <3>9
  <2>2. n \in 0..N
    BY <1>1
  <2>3. QED
    BY <2>1, <2>2
<1>4. N \in S
  <2> HIDE DEF S
  <2>1. 0..N \subseteq S
    BY <1>1, <1>2, <1>3, Cats!UpTo
  <2>2. QED
    BY <1>1, <2>1
<1>5. QED
  BY <1>4

\* Every BS of a chunk has its place, and one only.
LEMMA InOrderIsOrder ==
  ASSUME NEW chunk, IsChunk(chunk)
  PROVE  /\ Ordered(InOrderOf(chunk), DOMAIN chunk)
         /\ Cardinality(DOMAIN chunk) \in Nat
         /\ DOMAIN InOrderOf(chunk) = 1..Cardinality(DOMAIN chunk)
         /\ Len(InOrderOf(chunk)) = Cardinality(DOMAIN chunk)
         /\ \A b \in DOMAIN chunk :
              \E k \in 1..Cardinality(DOMAIN chunk) : InOrderOf(chunk)[k] = b
         /\ \A i, j \in 1..Cardinality(DOMAIN chunk) :
              i # j => InOrderOf(chunk)[i] # InOrderOf(chunk)[j]
<1> DEFINE D == DOMAIN chunk
<1> DEFINE N == Cardinality(D)
<1> DEFINE q == InOrderOf(chunk)
<1>1. IsFiniteSet(D) /\ D \subseteq Nat /\ N \in Nat
  BY FS_CardinalityType DEF IsChunk
<1>2. \E ids \in [1..N -> D] : \A i, j \in DOMAIN ids : i < j => ids[i] < ids[j]
  BY <1>1, OrderExists DEF Ordered
<1>3. q \in [1..N -> D] /\ \A i, j \in DOMAIN q : i < j => q[i] < q[j]
  BY <1>2 DEF InOrderOf
<1> HIDE DEF q, D
<1>4. Ordered(q, D) /\ DOMAIN q = 1..N
  BY <1>3 DEF Ordered
<1> HIDE DEF N
<1>5. \A i, j \in 1..N : i # j => q[i] # q[j]
  <2> SUFFICES ASSUME NEW i \in 1..N, NEW j \in 1..N, i # j
               PROVE  q[i] # q[j]
    OBVIOUS
  <2>1. q[i] \in Nat /\ q[j] \in Nat
    BY <1>1, <1>3
  <2>2. i < j \/ j < i
    BY <1>1
  <2>3. QED
    BY <1>3, <1>4, <2>1, <2>2
<1>6. q \in Injection(1..N, D)
  BY <1>3, <1>4, <1>5 DEF Injection, IsInjective
<1>7. IsFiniteSet(1..N) /\ Cardinality(1..N) = N
  BY <1>1, FS_Interval
<1>8. q \in Surjection(1..N, D)
  BY <1>1, <1>6, <1>7, FS_Injection DEF N
<1>9. \A b \in D : \E k \in 1..N : q[k] = b
  BY <1>8 DEF Surjection
<1>10. Len(q) = N
  BY <1>1, <1>3
<1>11. QED
  BY <1>1, <1>4, <1>5, <1>9, <1>10 DEF D, N, q

(***************************************************************************)
(* What is written, if all of it can be                                    *)
(***************************************************************************)
\* A message that can be serialised, and what is recorded of a UE.
WritableBd(bd) ==
  /\ Broken \notin {bd.enb, bd.ue, bd.lc}
  /\ \A k \in DOMAIN bd.harqs : bd.harqs[k].report # Broken
  /\ Len(bd.harqs) < CountMod

WritableChunk(c) == (\A b \in DOMAIN c : WritableBd(c[b])) /\ Len(InOrderOf(c)) < CountMod

\* What the file has of a message, of the reports ues, of a BS and of a chunk.
MessageBytes(m) == <<Len(m)>> \o m

LEMMA MessageWritten ==
  ASSUME NEW m \in Seq(Nat), m # Broken
  PROVE  /\ write_flexran_message(m) = Wrote(MessageBytes(m))
         /\ MessageBytes(m) \in Seq(Nat)
         /\ Len(MessageBytes(m)) = Len(m) + 1
<1>1. Len(m) \in Nat /\ <<Len(m)>> \in Seq(Nat) /\ Len(<<Len(m)>>) = 1
  OBVIOUS
<1>2. MessageBytes(m) \in Seq(Nat) /\ Len(MessageBytes(m)) = Len(m) + 1
  BY <1>1, ConcatFacts DEF MessageBytes
<1>3. write_flexran_message(m) = Wrote(MessageBytes(m))
  BY DEF write_flexran_message, MessageBytes
<1>4. QED
  BY <1>2, <1>3

\* The UE at place k: its report and its byte.
UeBytes(ue) == MessageBytes(ue.report) \o <<ue.harq>>

LEMMA UeWritten ==
  ASSUME NEW ue, ue.report \in Seq(Nat), ue.harq \in Nat, ue.report # Broken
  PROVE  /\ Then(write_flexran_message(ue.report), Wrote(<<ue.harq>>)) = Wrote(UeBytes(ue))
         /\ UeBytes(ue) \in Seq(Nat)
<1>1. /\ write_flexran_message(ue.report) = Wrote(MessageBytes(ue.report))
      /\ MessageBytes(ue.report) \in Seq(Nat)
  BY MessageWritten
<1>2. <<ue.harq>> \in Seq(Nat)
  OBVIOUS
<1>3. UeBytes(ue) \in Seq(Nat)
  BY <1>1, <1>2, ConcatFacts DEF UeBytes
<1>4. QED
  BY <1>1, <1>3, ThenWrites DEF UeBytes

Report == [report : Seq(Nat), harq : Nat]

\* A count that fits its field is written as it is.
LEMMA ModSmall ==
  ASSUME NEW a \in Nat, NEW m \in Nat \ {0}, a < m
  PROVE  a % m = a
OBVIOUS

\* The reports of a BS: their number, then one behind the other.
LEMMA UesWritten ==
  ASSUME NEW ues \in Seq(Report), Len(ues) < CountMod,
         \A k \in DOMAIN ues : ues[k].report # Broken
  PROVE  \E c : /\ Chain(c, Len(ues), [k \in 1..Len(ues) |-> UeBytes(ues[k])])
                /\ c[0] = <<Len(ues)>>
                /\ write_binary_ue_configs(ues) = Wrote(c[Len(ues)])
<1> DEFINE n == Len(ues)
<1> DEFINE s == [k \in DOMAIN ues |->
                   Then(write_flexran_message(ues[k].report), Wrote(<<ues[k].harq>>))]
<1> DEFINE w == [k \in 1..n |-> UeBytes(ues[k])]
<1>1. n \in Nat /\ DOMAIN ues = 1..n /\ DOMAIN s = 1..n /\ DOMAIN w = 1..n
  OBVIOUS
<1>2. ASSUME NEW k \in 1..n
      PROVE  s[k] = Wrote(w[k]) /\ w[k] \in Seq(Nat)
  <2> DEFINE ue == ues[k]
  <2>a. ue \in Report /\ ue.report # Broken
    BY <1>1
  <2> HIDE DEF ue
  <2>1. ue.report \in Seq(Nat) /\ ue.harq \in Nat /\ ue.report # Broken
    BY <2>a DEF Report
  <2>2. s[k] = Then(write_flexran_message(ues[k].report), Wrote(<<ues[k].harq>>))
        /\ w[k] = UeBytes(ues[k])
    BY <1>1
  <2> HIDE DEF s, w
  <2>3. QED
    BY <2>1, <2>2, UeWritten DEF ue
<1>3. n % CountMod = n
  BY <1>1, CountModAssumption, ModSmall
<1> DEFINE w0 == <<n>>
<1>4. w0 \in Seq(Nat)
  BY <1>1
<1>5. write_binary_ue_configs(ues) = Wrote(FoldThen(Wrote(w0), s).v)
  BY <1>3 DEF write_binary_ue_configs, FoldThen
<1> HIDE DEF n, s, w, w0
<1>6. PICK c : Chain(c, n, w) /\ c[0] = w0 /\ FoldThen(Wrote(w0), s) = Wrote(c[n])
  <2>1. Parts(n, w, s)
    BY <1>1, <1>2 DEF Parts
  <2>2. QED
    BY <1>1, <1>4, <2>1, ThenChain
<1>7. write_binary_ue_configs(ues) = Wrote(c[n])
  <2>1. Wrote(c[n]).v = c[n]
    BY DEF Wrote
  <2>2. QED
    BY <1>5, <1>6, <2>1
<1>8. QED
  BY <1>6, <1>7 DEF n, w, w0

LEMMA UesBytes ==
  ASSUME NEW ues \in Seq(Report), Len(ues) < CountMod,
         \A k \in DOMAIN ues : ues[k].report # Broken
  PROVE  /\ write_binary_ue_configs(ues) = Wrote(write_binary_ue_configs(ues).v)
         /\ write_binary_ue_configs(ues).v \in Seq(Nat)
<1>1. PICK c : /\ Chain(c, Len(ues), [k \in 1..Len(ues) |-> UeBytes(ues[k])])
               /\ write_binary_ue_configs(ues) = Wrote(c[Len(ues)])
  BY UesWritten
<1>2. Len(ues) \in 0..Len(ues)
  OBVIOUS
<1>3. c[Len(ues)] \in Seq(Nat)
  BY <1>1, <1>2 DEF Chain
<1>4. QED
  BY <1>1, <1>3 DEF Wrote

\* What is written of a BS before its reports.
BsHead(bs, bd) ==
  ((<<bs, bd.time>> \o MessageBytes(bd.enb)) \o MessageBytes(bd.ue)) \o MessageBytes(bd.lc)

BsBytes(bs, bd) == BsHead(bs, bd) \o write_binary_ue_configs(bd.harqs).v

LEMMA BsWritten ==
  ASSUME NEW bs \in Nat, NEW bd \in Recorded, WritableBd(bd)
  PROVE  /\ WriteBs(bs, bd) = Wrote(BsBytes(bs, bd))
         /\ BsBytes(bs, bd) \in Seq(Nat)
<1>1. /\ bd.time \in Nat /\ bd.enb \in Seq(Nat) /\ bd.ue \in Seq(Nat) /\ bd.lc \in Seq(Nat)
      /\ bd.harqs \in Seq(Report)
  BY DEF Recorded, Report
<1>2. /\ bd.enb # Broken /\ bd.ue # Broken /\ bd.lc # Broken
      /\ \A k \in DOMAIN bd.harqs : bd.harqs[k].report # Broken
      /\ Len(bd.harqs) < CountMod
  BY DEF WritableBd
<1> DEFINE m1 == MessageBytes(bd.enb)
<1> DEFINE m2 == MessageBytes(bd.ue)
<1> DEFINE m3 == MessageBytes(bd.lc)
<1> DEFINE u == write_binary_ue_configs(bd.harqs).v
<1>3. /\ write_flexran_message(bd.enb) = Wrote(m1) /\ m1 \in Seq(Nat)
      /\ write_flexran_message(bd.ue) = Wrote(m2) /\ m2 \in Seq(Nat)
      /\ write_flexran_message(bd.lc) = Wrote(m3) /\ m3 \in Seq(Nat)
  BY <1>1, <1>2, MessageWritten
<1>4. write_binary_ue_configs(bd.harqs) = Wrote(u) /\ u \in Seq(Nat)
  BY <1>1, <1>2, UesBytes
<1>5. <<bs, bd.time>> \in Seq(Nat)
  BY <1>1
<1>6. WriteBs(bs, bd) =
        Then(Then(Then(Then(Wrote(<<bs, bd.time>>), write_flexran_message(bd.enb)),
                       write_flexran_message(bd.ue)), write_flexran_message(bd.lc)),
             write_binary_ue_configs(bd.harqs))
  BY DEF WriteBs
<1> HIDE DEF m1, m2, m3, u
<1>7. WriteBs(bs, bd) = Wrote((((<<bs, bd.time>> \o m1) \o m2) \o m3) \o u)
  BY <1>3, <1>4, <1>6, ThenWrites
<1> DEFINE x1 == <<bs, bd.time>> \o m1
<1> DEFINE x2 == x1 \o m2
<1> DEFINE x3 == x2 \o m3
<1>8. x1 \in Seq(Nat)
  BY <1>3, <1>5, ConcatFacts
<1>9. x2 \in Seq(Nat)
  <2> HIDE DEF x1
  <2>1. QED
    BY <1>3, <1>8, ConcatFacts
<1>10. x3 \in Seq(Nat)
  <2> HIDE DEF x2
  <2>1. QED
    BY <1>3, <1>9, ConcatFacts
<1>11. x3 \o u \in Seq(Nat)
  <2> HIDE DEF x3
  <2>1. QED
    BY <1>4, <1>10, ConcatFacts
<1>12. BsBytes(bs, bd) = x3 \o u
  BY DEF BsBytes, BsHead, m1, m2, m3, u
<1>13. QED
  BY <1>7, <1>11, <1>12

(***************************************************************************)
(* What is read back from where it was written                             *)
(***************************************************************************)
LEMMA TakenFields ==
  ASSUME NEW p, NEW v
  PROVE  /\ Taken(p, v).ok = TRUE /\ Taken(p, v).pos = p /\ Taken(p, v).v = v
         /\ From(Taken(p, v)) = Taken(p, <<>>)
BY DEF Taken, From

LEMMA NumberRead ==
  ASSUME NEW p \in Nat \ {0}, NEW x, At(p, <<x>>)
  PROVE  Number(Taken(p, <<>>)) = Taken(p + 1, <<x>>)
<1>1. p <= Len(file) /\ file[p] = x
  <2>1. 1 \in 1..Len(<<x>>) /\ <<x>>[1] = x /\ p + 1 - 1 = p
    OBVIOUS
  <2>2. p + 1 - 1 <= Len(file) /\ file[p + 1 - 1] = <<x>>[1]
    BY <2>1 DEF At
  <2>3. QED
    BY <2>1, <2>2
<1>2. Append(<<>>, x) = <<x>>
  OBVIOUS
<1>3. QED
  BY <1>1, <1>2 DEF Number, Taken

LEMMA LastOfOne ==
  ASSUME NEW p, NEW x
  PROVE  Last_(Taken(p, <<x>>)) = x
<1> DEFINE w == <<x>>
<1>1. Len(w) = 1 /\ w[1] = x
  OBVIOUS
<1> HIDE DEF w
<1>2. Taken(p, w).v = w
  BY TakenFields
<1>3. Last_(Taken(p, w)) = x
  BY <1>1, <1>2 DEF Last_
<1>4. QED
  BY <1>3 DEF w

LEMMA MessageRead ==
  ASSUME NEW p \in Nat \ {0}, NEW v, NEW m \in Seq(Nat), file \in Seq(Nat), At(p, MessageBytes(m))
  PROVE  read_flexran_message(Taken(p, v)) = Taken(p + Len(MessageBytes(m)), m)
<1>1. Len(m) \in Nat /\ <<Len(m)>> \in Seq(Nat) /\ Len(<<Len(m)>>) = 1 /\ Len(file) \in Nat
  OBVIOUS
<1>2. At(p, <<Len(m)>>) /\ At(p + 1, m)
  BY <1>1, AtConcat DEF MessageBytes
<1> DEFINE n == Number(From(Taken(p, v)))
<1> DEFINE end == n.pos + Last_(n)
<1>3. n = Taken(p + 1, <<Len(m)>>)
  <2>1. From(Taken(p, v)) = Taken(p, <<>>)
    BY TakenFields
  <2> DEFINE x == Len(m)
  <2>2. At(p, <<x>>)
    BY <1>2
  <2> HIDE DEF x
  <2>3. Number(Taken(p, <<>>)) = Taken(p + 1, <<x>>)
    BY <2>2, NumberRead
  <2>4. QED
    BY <2>1, <2>3 DEF x
<1>4. n.ok = TRUE /\ n.pos = p + 1 /\ end = p + 1 + Len(m)
  <2> DEFINE w == <<Len(m)>>
  <2>1. Last_(Taken(p + 1, w)) = Len(m)
    BY LastOfOne
  <2> HIDE DEF w
  <2>2. n = Taken(p + 1, w)
    BY <1>3 DEF w
  <2>3. Taken(p + 1, w).ok = TRUE /\ Taken(p + 1, w).pos = p + 1
    BY TakenFields
  <2> HIDE DEF n
  <2>4. n.ok = TRUE /\ n.pos = p + 1 /\ Last_(n) = Len(m)
    BY <2>1, <2>2, <2>3
  <2>5. QED
    BY <2>4
<1>5. end - 1 <= Len(file)
  <2>1. CASE Len(m) = 0
    <3>1. 1 \in 1..Len(<<Len(m)>>)
      BY <1>1
    <3>2. p + 1 - 1 <= Len(file)
      BY <1>2, <3>1 DEF At
    <3>3. QED
      BY <1>4, <2>1, <3>2
  <2>2. CASE Len(m) # 0
    <3>1. Len(m) \in 1..Len(m)
      BY <1>1, <2>2
    <3>2. p + 1 + Len(m) - 1 <= Len(file)
      BY <1>2, <3>1 DEF At
    <3>3. QED
      BY <1>4, <3>2
  <2>3. QED
    BY <2>1, <2>2
<1>6. SubSeq(file, p + 1, p + Len(m)) = m
  <2> DEFINE q == SubSeq(file, p + 1, p + Len(m))
  <2>1. ASSUME NEW k \in 1..Len(m)
        PROVE  p + 1 + k - 1 = p + k /\ p + k <= Len(file) /\ file[p + k] = m[k]
    <3>1. p + 1 + k - 1 = p + k
      BY <1>1
    <3>2. p + 1 + k - 1 <= Len(file) /\ file[p + 1 + k - 1] = m[k]
      BY <1>2 DEF At
    <3>3. QED
      BY <3>1, <3>2
  <2>2. \A i \in (p + 1)..(p + Len(m)) : file[i] \in Nat
    BY <1>1, <1>4, <1>5
  <2>3. q \in Seq(Nat) /\ Len(q) = Len(m) /\ \A k \in 1..Len(m) : q[k] = file[p + k]
    <3>1. p + 1 \in Int /\ p + Len(m) \in Int
      BY <1>1
    <3>2. /\ q \in Seq(Nat)
          /\ Len(q) = IF p + 1 <= p + Len(m) THEN p + Len(m) - (p + 1) + 1 ELSE 0
          /\ \A k \in 1..(p + Len(m) - (p + 1) + 1) : q[k] = file[p + 1 + k - 1]
      BY <2>2, <3>1, SubSeqProperties
    <3> HIDE DEF q
    <3>3. Len(q) = Len(m)
      BY <1>1, <3>2
    <3>4. \A k \in 1..Len(m) : /\ k \in 1..(p + Len(m) - (p + 1) + 1)
                               /\ p + 1 + k - 1 = p + k
      BY <1>1
    <3>5. QED
      BY <3>2, <3>3, <3>4
  <2> HIDE DEF q
  <2>4. \A k \in 1..Len(m) : q[k] = m[k]
    BY <2>1, <2>3
  <2>5. q = m
    BY <2>3, <2>4, SeqEqual
  <2>6. QED
    BY <2>5 DEF q
<1>7. n.pos = p + 1 /\ end - 1 = p + Len(m) /\ ~ (end - 1 > Len(file))
  BY <1>1, <1>4, <1>5
<1>8. read_flexran_message(Taken(p, v)) = Taken(end, SubSeq(file, n.pos, end - 1))
  BY <1>4, <1>7 DEF read_flexran_message
<1>9. SubSeq(file, n.pos, end - 1) = m /\ end = p + Len(m) + 1
  BY <1>1, <1>4, <1>6, <1>7
<1>10. Len(MessageBytes(m)) = Len(m) + 1
  BY <1>1, ConcatFacts DEF MessageBytes
<1>11. p + Len(MessageBytes(m)) = p + Len(m) + 1
  BY <1>1, <1>10
<1>12. QED
  BY <1>8, <1>9, <1>11

\* The first k elements of a sequence.
Initial(s, k) == [i \in 1..k |-> s[i]]

LEMMA InitialOneMore ==
  ASSUME NEW s, NEW k \in Nat \ {0}
  PROVE  Append(Initial(s, k - 1), s[k]) = Initial(s, k)
BY DEF Initial

LEMMA InitialAll ==
  ASSUME NEW S, NEW s \in Seq(S)
  PROVE  Initial(s, 0) = <<>> /\ Initial(s, Len(s)) = s
BY DEF Initial

\* A UE is read as it was recorded.
LEMMA UeRead ==
  ASSUME NEW p \in Nat \ {0}, NEW v, NEW i, NEW ue \in Report, file \in Seq(Nat), At(p, UeBytes(ue))
  PROVE  TakeUe(Taken(p, v), i) = Taken(p + Len(UeBytes(ue)), Append(v, ue))
<1> DEFINE b == MessageBytes(ue.report)
<1> DEFINE last == <<ue.harq>>
<1> DEFINE q == p + Len(b)
<1>1. ue.report \in Seq(Nat) /\ ue.harq \in Nat
      /\ ue = [report |-> ue.report, harq |-> ue.harq]
  BY DEF Report
<1>2. b \in Seq(Nat) /\ Len(b) \in Nat
  <2>1. <<Len(ue.report)>> \in Seq(Nat)
    BY <1>1
  <2>2. QED
    BY <1>1, <2>1, ConcatFacts DEF MessageBytes
<1>3. last \in Seq(Nat) /\ Len(last) = 1
  BY <1>1
<1>4. UeBytes(ue) = b \o last
  BY DEF UeBytes
<1> HIDE DEF b, last
<1>5. At(p, b) /\ At(q, last) /\ q \in Nat \ {0} /\ q + 1 = p + Len(UeBytes(ue))
  <2>1. At(p, b \o last)
    BY <1>4
  <2>2. At(p, b) /\ At(p + Len(b), last)
    BY <1>2, <1>3, <2>1, AtConcat
  <2>3. Len(b \o last) = Len(b) + Len(last)
    BY <1>2, <1>3, ConcatFacts
  <2>4. Len(UeBytes(ue)) = Len(b) + 1
    BY <1>3, <1>4, <2>3
  <2>5. q \in Nat \ {0} /\ q + 1 = p + Len(UeBytes(ue))
    BY <1>2, <2>4
  <2>6. QED
    BY <2>2, <2>5
<1> DEFINE m == read_flexran_message(From(Taken(p, v)))
<1>6. m = Taken(q, ue.report)
  <2>1. From(Taken(p, v)) = Taken(p, <<>>)
    BY TakenFields
  <2>2. read_flexran_message(Taken(p, <<>>)) = Taken(q, ue.report)
    BY <1>1, <1>5, MessageRead DEF b
  <2>3. QED
    BY <2>1, <2>2, Zenon
<1> HIDE DEF m, q
<1> DEFINE h == Number(From(m))
<1>7. h = Taken(q + 1, last)
  <2>1. From(m) = Taken(q, <<>>)
    BY <1>6, TakenFields, Zenon
  <2> DEFINE x == ue.harq
  <2>2. At(q, <<x>>)
    BY <1>5 DEF last
  <2> HIDE DEF x
  <2>3. Number(Taken(q, <<>>)) = Taken(q + 1, <<x>>)
    BY <1>5, <2>2, NumberRead
  <2>4. QED
    BY <2>1, <2>3 DEF last, x
<1> HIDE DEF h
<1>8. h.ok = TRUE /\ h.pos = q + 1 /\ Last_(h) = ue.harq
  <2>1. Last_(h) = ue.harq
    BY <1>7, LastOfOne, Zenon DEF last
  <2>2. QED
    BY <1>7, <2>1, TakenFields, Zenon
<1>9. m.v = ue.report /\ Taken(p, v).v = v
  BY <1>6 DEF Taken
<1>10. TakeUe(Taken(p, v), i) =
         IF h.ok THEN Taken(h.pos, Append(Taken(p, v).v, [report |-> m.v, harq |-> Last_(h)]))
         ELSE Short(Taken(p, v))
  BY Zenon DEF TakeUe, h, m
<1>11. TakeUe(Taken(p, v), i) = Taken(q + 1, Append(v, [report |-> ue.report, harq |-> ue.harq]))
  BY <1>8, <1>9, <1>10, Zenon
<1>12. QED
  BY <1>1, <1>5, <1>11, Zenon

\* The count that a field was written with is read first.
LEMMA CountRead ==
  ASSUME NEW p \in Nat \ {0}, NEW v, NEW n, At(p, <<n>>)
  PROVE  /\ Number(From(Taken(p, v))) = Taken(p + 1, <<n>>)
         /\ From(Number(From(Taken(p, v)))) = Taken(p + 1, <<>>)
         /\ Number(From(Taken(p, v))).ok = TRUE
         /\ Number(From(Taken(p, v))).pos = p + 1
         /\ Last_(Number(From(Taken(p, v)))) = n
<1>1. From(Taken(p, v)) = Taken(p, <<>>)
  BY TakenFields
<1>2. Number(Taken(p, <<>>)) = Taken(p + 1, <<n>>)
  BY NumberRead
<1>3. Last_(Taken(p + 1, <<n>>)) = n
  BY LastOfOne
<1> DEFINE w == <<n>>
<1>4. /\ From(Taken(p + 1, w)) = Taken(p + 1, <<>>) /\ Taken(p + 1, w).ok = TRUE
      /\ Taken(p + 1, w).pos = p + 1
  <2> HIDE DEF w
  <2>1. QED
    BY TakenFields
<1> DEFINE r == Number(From(Taken(p, v)))
<1>5. r = Taken(p + 1, w) /\ Last_(Taken(p + 1, w)) = n
  BY <1>1, <1>2, <1>3
<1> HIDE DEF w, r
<1>6. From(r) = Taken(p + 1, <<>>) /\ r.ok = TRUE /\ r.pos = p + 1 /\ Last_(r) = n
  BY <1>4, <1>5
<1>7. QED
  BY <1>5, <1>6 DEF w, r

\* Each part is read where the one before it ends: h[k] has read k parts, of them val[k].
Reads(n, w, val, h) ==
  \A k \in 1..n : \A q \in Nat \ {0} :
    At(q, w[k]) /\ h[k - 1] = Taken(q, val[k - 1]) => h[k] = Taken(q + Len(w[k]), val[k])

\* Behind a part of length b that is behind a numbers.
LEMMA Behind ==
  ASSUME NEW p \in Nat \ {0}, NEW a \in Nat, NEW b \in Nat, NEW c, c = a + b
  PROVE  p + a \in Nat \ {0} /\ p + a + b = p + c
OBVIOUS

LEMMA ReadInSteps ==
  ASSUME NEW n \in Nat, NEW c, NEW w, NEW p \in Nat \ {0}, Located(p, c, n, w),
         Len(c[0]) = 1, NEW val, NEW h, h[0] = Taken(p + 1, val[0]), Reads(n, w, val, h)
  PROVE  h[n] = Taken(p + Len(c[n]), val[n])
<1>1. /\ \A k \in 0..n : Len(c[k]) \in Nat
      /\ \A k \in 1..n : /\ At(p + Len(c[k - 1]), w[k])
                         /\ Len(w[k]) \in Nat /\ Len(c[k]) = Len(c[k - 1]) + Len(w[k])
  BY DEF Located
<1> DEFINE S == {k \in 0..n : h[k] = Taken(p + Len(c[k]), val[k])}
<1>3. 0 \in S
  <2>1. p + Len(c[0]) = p + 1 /\ 0 \in 0..n
    OBVIOUS
  <2>2. QED
    BY <2>1, Zenon
<1>4. ASSUME NEW k \in 1..n, k - 1 \in S
      PROVE  k \in S
  <2>1. k \in 0..n /\ k - 1 \in 0..n
    OBVIOUS
  <2> DEFINE q == p + Len(c[k - 1])
  <2>2. h[k - 1] = Taken(q, val[k - 1])
    BY <1>4
  <2>3. Len(c[k - 1]) \in Nat /\ Len(w[k]) \in Nat /\ Len(c[k]) = Len(c[k - 1]) + Len(w[k])
    BY <1>1, <2>1
  <2>4. q \in Nat \ {0} /\ q + Len(w[k]) = p + Len(c[k])
    <3> DEFINE x == Len(c[k - 1])
    <3> DEFINE y == Len(w[k])
    <3> DEFINE z == Len(c[k])
    <3>1. x \in Nat /\ y \in Nat /\ z = x + y
      BY <2>3
    <3> HIDE DEF x, y, z
    <3>2. p + x \in Nat \ {0} /\ p + x + y = p + z
      BY <3>1, Behind
    <3>3. QED
      BY <3>2 DEF x, y, z
  <2>5. At(q, w[k])
    BY <1>1
  <2> HIDE DEF q
  <2>6. h[k] = Taken(q + Len(w[k]), val[k])
    BY <2>2, <2>4, <2>5 DEF Reads
  <2>7. QED
    BY <2>1, <2>4, <2>6, Zenon
<1>5. n \in S
  <2> HIDE DEF S
  <2>1. 0..n \subseteq S
    BY <1>3, <1>4, Cats!UpTo
  <2>2. QED
    BY <2>1
<1>6. QED
  BY <1>5

\* The reports of a BS are read as they were recorded, and nothing else is.
LEMMA UesRead ==
  ASSUME NEW p \in Nat \ {0}, NEW v, NEW ues \in Seq(Report), file \in Seq(Nat),
         Len(ues) < CountMod, \A k \in DOMAIN ues : ues[k].report # Broken,
         At(p, write_binary_ue_configs(ues).v)
  PROVE  read_binary_ue_configs(Taken(p, v)) = Taken(p + Len(write_binary_ue_configs(ues).v), ues)
<1> DEFINE n == Len(ues)
<1> DEFINE w == [k \in 1..n |-> UeBytes(ues[k])]
<1>1. n \in Nat /\ \A k \in 1..n : ues[k] \in Report /\ w[k] = UeBytes(ues[k])
  OBVIOUS
<1>2. PICK c : Chain(c, n, w) /\ c[0] = <<n>> /\ write_binary_ue_configs(ues) = Wrote(c[n])
  BY UesWritten
<1>3. write_binary_ue_configs(ues).v = c[n] /\ At(p, c[n])
  BY <1>2 DEF Wrote
<1> DEFINE val == [k \in 0..n |-> Initial(ues, k)]
<1>4. val[0] = <<>> /\ val[n] = ues /\ \A k \in 1..n : val[k] = Append(val[k - 1], ues[k])
  <2>1. \A k \in 1..n : k - 1 \in 0..n /\ k \in 0..n /\ k \in Nat \ {0}
    BY <1>1
  <2>2. 0 \in 0..n /\ n \in 0..n
    BY <1>1
  <2>3. val[0] = <<>> /\ val[n] = ues
    BY <2>2, InitialAll
  <2>4. QED
    BY <2>1, <2>3, InitialOneMore
<1> HIDE DEF w, n, val
<1>l. Located(p, c, n, w)
  BY <1>1, <1>2, <1>3, ChainAt
<1>5. At(p, <<n>>)
  <2>1. 0 \in 0..n
    BY <1>1
  <2>2. QED
    BY <1>2, <1>l, <2>1 DEF Located
<1> DEFINE num == Number(From(Taken(p, v)))
<1>6. From(num) = Taken(p + 1, <<>>) /\ num.ok = TRUE /\ Last_(num) = n
  BY <1>5, CountRead
<1>7. read_binary_ue_configs(Taken(p, v)) =
        IF ~ num.ok THEN num ELSE FoldUes(From(num), [i \in 1..Last_(num) |-> i])
  BY DEF read_binary_ue_configs, FoldUes
<1> HIDE DEF num
<1> DEFINE start == Taken(p + 1, <<>>)
<1> DEFINE s == [i \in 1..n |-> i]
<1>8. read_binary_ue_configs(Taken(p, v)) = FoldUes(start, s)
  BY <1>6, <1>7
<1>9. DOMAIN s = 1..n
  OBVIOUS
<1> HIDE DEF s, start
<1>h. PICK h : UeSteps(n, start, s, h)
  BY <1>1, <1>9, FoldUesSteps
<1>10. /\ h[0] = start
       /\ \A k \in 1..n : h[k] = TakeUe(h[k - 1], s[k])
       /\ FoldUes(start, s) = h[n]
  BY <1>h DEF UeSteps
<1>11. ASSUME NEW k \in 1..n, NEW q \in Nat \ {0}, At(q, w[k]), h[k - 1] = Taken(q, val[k - 1])
       PROVE  h[k] = Taken(q + Len(w[k]), val[k])
  <2>1. w[k] = UeBytes(ues[k]) /\ ues[k] \in Report /\ val[k] = Append(val[k - 1], ues[k])
    BY <1>1, <1>4
  <2>2. h[k] = TakeUe(Taken(q, val[k - 1]), s[k])
    BY <1>10, <1>11
  <2> DEFINE ue == ues[k]
  <2>3. ue \in Report /\ At(q, UeBytes(ue))
    BY <1>11, <2>1
  <2> HIDE DEF ue
  <2>4. TakeUe(Taken(q, val[k - 1]), s[k]) = Taken(q + Len(UeBytes(ue)), Append(val[k - 1], ue))
    BY <2>3, UeRead
  <2>5. QED
    BY <2>1, <2>2, <2>4, Zenon DEF ue
<1>12. h[n] = Taken(p + Len(c[n]), val[n])
  <2>1. Len(c[0]) = 1 /\ h[0] = Taken(p + 1, val[0])
    BY <1>2, <1>4, <1>10 DEF start
  <2>2. Reads(n, w, val, h)
    BY <1>11 DEF Reads
  <2>3. QED
    BY <1>1, <1>l, <2>1, <2>2, ReadInSteps
<1>13. QED
  <2>1. read_binary_ue_configs(Taken(p, v)) = h[n]
    BY <1>8, <1>10
  <2>2. val[n] = ues /\ write_binary_ue_configs(ues).v = c[n]
    BY <1>3, <1>4
  <2>3. QED
    BY ONLY <1>12, <2>1, <2>2, Zenon

\* A part, and what is behind it.
LEMMA PartAt ==
  ASSUME NEW a, NEW b, a \in Seq(Nat), b \in Seq(Nat), NEW p \in Nat \ {0}, At(p, a \o b)
  PROVE  /\ At(p, a) /\ At(p + Len(a), b)
         /\ p + Len(a) \in Nat \ {0} /\ p + Len(a) + Len(b) = p + Len(a \o b)
<1>1. At(p, a) /\ At(p + Len(a), b)
  BY AtConcat
<1>2. Len(a) \in Nat /\ Len(b) \in Nat /\ Len(a \o b) = Len(a) + Len(b)
  BY ConcatFacts
<1> DEFINE x == Len(a)
<1> DEFINE y == Len(b)
<1> DEFINE z == Len(a \o b)
<1>3. x \in Nat /\ y \in Nat /\ z = x + y
  BY <1>2
<1> HIDE DEF x, y, z
<1>4. p + x \in Nat \ {0} /\ p + x + y = p + z
  BY <1>3, Behind
<1>5. QED
  BY <1>1, <1>4 DEF x, y, z

\* A BS is read as it was recorded.
LEMMA BsRead ==
  ASSUME NEW p \in Nat \ {0}, NEW v, NEW i, NEW bs \in Nat, NEW bd \in Recorded,
         WritableBd(bd), file \in Seq(Nat), At(p, BsBytes(bs, bd))
  PROVE  TakeBs(Taken(p, v), i) = Taken(p + Len(BsBytes(bs, bd)), Emplaced(v, bs, bd))
<1>1. /\ bd.time \in Nat /\ bd.enb \in Seq(Nat) /\ bd.ue \in Seq(Nat) /\ bd.lc \in Seq(Nat)
      /\ bd.harqs \in Seq(Report)
      /\ bd = [time |-> bd.time, enb |-> bd.enb, ue |-> bd.ue, lc |-> bd.lc, harqs |-> bd.harqs]
  BY DEF Recorded, Report
<1>2. /\ bd.enb # Broken /\ bd.ue # Broken /\ bd.lc # Broken
      /\ \A k \in DOMAIN bd.harqs : bd.harqs[k].report # Broken
      /\ Len(bd.harqs) < CountMod
  BY DEF WritableBd
<1> DEFINE x1 == <<bs>>
<1> DEFINE t == <<bd.time>>
<1> DEFINE m1 == MessageBytes(bd.enb)
<1> DEFINE m2 == MessageBytes(bd.ue)
<1> DEFINE m3 == MessageBytes(bd.lc)
<1> DEFINE u == write_binary_ue_configs(bd.harqs).v
<1> DEFINE x2 == x1 \o t
<1> DEFINE x3 == x2 \o m1
<1> DEFINE x4 == x3 \o m2
<1> DEFINE x5 == x4 \o m3
<1> DEFINE x6 == x5 \o u
<1>3. BsBytes(bs, bd) = x6
  <2>1. x2 = <<bs, bd.time>>
    BY <1>1, TwoElements
  <2>2. QED
    BY <2>1 DEF BsBytes, BsHead
<1>4. /\ x1 \in Seq(Nat) /\ t \in Seq(Nat) /\ Len(x1) = 1 /\ Len(t) = 1
  BY <1>1
<1>5. m1 \in Seq(Nat) /\ m2 \in Seq(Nat) /\ m3 \in Seq(Nat)
  BY <1>1, <1>2, MessageWritten
<1>6. u \in Seq(Nat)
  BY <1>1, <1>2, UesBytes
<1> HIDE DEF x1, t, m1, m2, m3, u
<1>7. x2 \in Seq(Nat)
  BY <1>4, ConcatFacts
<1> HIDE DEF x2
<1>8. x3 \in Seq(Nat)
  BY <1>5, <1>7, ConcatFacts
<1> HIDE DEF x3
<1>9. x4 \in Seq(Nat)
  BY <1>5, <1>8, ConcatFacts
<1> HIDE DEF x4
<1>10. x5 \in Seq(Nat)
  BY <1>5, <1>9, ConcatFacts
<1> HIDE DEF x5
<1>11. /\ At(p, x5) /\ At(p + Len(x5), u)
       /\ p + Len(x5) \in Nat \ {0} /\ p + Len(x5) + Len(u) = p + Len(x6)
  BY <1>3, <1>6, <1>10, PartAt
<1>12. /\ At(p, x4) /\ At(p + Len(x4), m3)
       /\ p + Len(x4) \in Nat \ {0} /\ p + Len(x4) + Len(m3) = p + Len(x5)
  BY <1>5, <1>9, <1>11, PartAt DEF x5
<1>13. /\ At(p, x3) /\ At(p + Len(x3), m2)
       /\ p + Len(x3) \in Nat \ {0} /\ p + Len(x3) + Len(m2) = p + Len(x4)
  BY <1>5, <1>8, <1>12, PartAt DEF x4
<1>14. /\ At(p, x2) /\ At(p + Len(x2), m1)
       /\ p + Len(x2) \in Nat \ {0} /\ p + Len(x2) + Len(m1) = p + Len(x3)
  BY <1>5, <1>7, <1>13, PartAt DEF x3
<1>15. /\ At(p, x1) /\ At(p + Len(x1), t)
       /\ p + Len(x1) \in Nat \ {0} /\ p + Len(x1) + Len(t) = p + Len(x2)
  BY <1>4, <1>14, PartAt DEF x2
<1> HIDE DEF x6
<1> DEFINE q1 == p + Len(x1)
<1> DEFINE q2 == p + Len(x2)
<1> DEFINE q3 == p + Len(x3)
<1> DEFINE q4 == p + Len(x4)
<1> DEFINE q5 == p + Len(x5)
<1> DEFINE q6 == p + Len(x6)
<1>16. p + 1 = q1 /\ q1 + 1 = q2
  BY <1>4, <1>15
<1> DEFINE id == Number(From(Taken(p, v)))
<1>17. id = Taken(q1, <<bs>>) /\ Last_(id) = bs
  <2>1. At(p, <<bs>>)
    BY <1>15 DEF x1
  <2>2. id = Taken(p + 1, <<bs>>) /\ Last_(id) = bs
    BY <2>1, CountRead
  <2>3. QED
    BY <1>16, <2>2
<1> HIDE DEF id, q1
<1> DEFINE time == Number(From(id))
<1>18. time = Taken(q2, <<bd.time>>) /\ Last_(time) = bd.time
  <2> DEFINE y == bd.time
  <2>1. At(q1, <<y>>) /\ q1 \in Nat \ {0}
    BY <1>15 DEF t, q1
  <2> DEFINE w == <<bs>>
  <2> HIDE DEF y, q2, w
  <2>2. Number(From(Taken(q1, w))) = Taken(q1 + 1, <<y>>) /\ Last_(Number(From(Taken(q1, w)))) = y
    BY <2>1, CountRead
  <2>3. id = Taken(q1, w)
    BY <1>17 DEF w
  <2>4. QED
    BY <1>16, <2>2, <2>3 DEF y
<1> HIDE DEF time, q2
<1> DEFINE enb == read_flexran_message(time)
<1>19. enb = Taken(q3, bd.enb)
  <2> DEFINE w == <<bd.time>>
  <2>1. At(q2, m1) /\ q2 \in Nat \ {0} /\ q2 + Len(m1) = q3
    BY <1>14 DEF q2
  <2> HIDE DEF q3, w
  <2>2. read_flexran_message(Taken(q2, w)) = Taken(q2 + Len(m1), bd.enb)
    BY <1>1, <2>1, MessageRead DEF m1
  <2>3. time = Taken(q2, w)
    BY <1>18 DEF w
  <2>4. QED
    BY <2>1, <2>2, <2>3
<1> HIDE DEF enb, q3
<1> DEFINE ue == read_flexran_message(enb)
<1>20. ue = Taken(q4, bd.ue)
  <2>1. At(q3, m2) /\ q3 \in Nat \ {0} /\ q3 + Len(m2) = q4
    BY <1>13 DEF q3
  <2> HIDE DEF q4
  <2>2. read_flexran_message(Taken(q3, bd.enb)) = Taken(q3 + Len(m2), bd.ue)
    BY <1>1, <2>1, MessageRead DEF m2
  <2>3. QED
    BY <1>19, <2>1, <2>2
<1> HIDE DEF ue, q4
<1> DEFINE lc == read_flexran_message(ue)
<1>21. lc = Taken(q5, bd.lc)
  <2>1. At(q4, m3) /\ q4 \in Nat \ {0} /\ q4 + Len(m3) = q5
    BY <1>12 DEF q4
  <2> HIDE DEF q5
  <2>2. read_flexran_message(Taken(q4, bd.ue)) = Taken(q4 + Len(m3), bd.lc)
    BY <1>1, <2>1, MessageRead DEF m3
  <2>3. QED
    BY <1>20, <2>1, <2>2
<1> HIDE DEF lc, q5
<1> DEFINE harqs == read_binary_ue_configs(lc)
<1>22. harqs = Taken(q6, bd.harqs)
  <2>1. At(q5, u) /\ q5 \in Nat \ {0} /\ q5 + Len(u) = q6
    BY <1>11 DEF q5
  <2> HIDE DEF q6
  <2> DEFINE ues == bd.harqs
  <2>2. /\ ues \in Seq(Report) /\ Len(ues) < CountMod /\ \A k \in DOMAIN ues : ues[k].report # Broken
        /\ u = write_binary_ue_configs(ues).v
    BY <1>1, <1>2 DEF u
  <2> HIDE DEF ues
  <2>3. read_binary_ue_configs(Taken(q5, bd.lc)) = Taken(q5 + Len(u), ues)
    BY <2>1, <2>2, UesRead
  <2>4. QED
    BY <1>21, <2>1, <2>3 DEF ues
<1> HIDE DEF harqs, q6
<1> DEFINE all == [time |-> Last_(time), enb |-> enb.v, ue |-> ue.v, lc |-> lc.v,
                   harqs |-> harqs.v]
<1>23. all = bd
  <2>1. enb.v = bd.enb /\ ue.v = bd.ue /\ lc.v = bd.lc /\ harqs.v = bd.harqs
    BY <1>19, <1>20, <1>21, <1>22 DEF Taken
  <2>2. QED
    BY <1>1, <1>18, <2>1, Zenon
<1>24. harqs.ok = TRUE /\ harqs.pos = q6 /\ Taken(p, v).v = v
  BY <1>22 DEF Taken
<1>25. TakeBs(Taken(p, v), i) =
         IF harqs.ok THEN Taken(harqs.pos, Emplaced(Taken(p, v).v, Last_(id), all))
         ELSE Short(Taken(p, v))
  BY Zenon DEF TakeBs, harqs, lc, ue, enb, time, id
<1> HIDE DEF all
<1>26. TakeBs(Taken(p, v), i) = Taken(q6, Emplaced(v, bs, bd))
  BY <1>17, <1>23, <1>24, <1>25, Zenon
<1>27. QED
  BY <1>3, <1>26, Zenon DEF q6

\* What is written of a chunk: the number of its BSs, then one behind the other.
BsPart(chunk, k) == BsBytes(InOrderOf(chunk)[k], chunk[InOrderOf(chunk)[k]])

LEMMA ChunkWritten ==
  ASSUME NEW chunk, IsChunk(chunk), WritableChunk(chunk), NEW n, n = Len(InOrderOf(chunk))
  PROVE  \E c : /\ Chain(c, n, [k \in 1..n |-> BsPart(chunk, k)])
                /\ c[0] = <<n>> /\ write_binary_chunk(chunk) = c[n]
<1> DEFINE ids == InOrderOf(chunk)
<1> DEFINE s == [k \in DOMAIN ids |-> WriteBs(ids[k], chunk[ids[k]])]
<1> DEFINE w == [k \in 1..n |-> BsPart(chunk, k)]
<1> DEFINE w0 == <<n>>
<1>1. n \in Nat /\ DOMAIN ids = 1..n /\ \A k \in 1..n : ids[k] \in DOMAIN chunk
  BY InOrderIsOrder DEF Ordered
<1>2. ASSUME NEW k \in 1..n
      PROVE  s[k] = Wrote(w[k]) /\ w[k] \in Seq(Nat)
  <2> DEFINE bs == ids[k]
  <2> DEFINE bd == chunk[bs]
  <2>1. bs \in Nat /\ bd \in Recorded /\ WritableBd(bd)
    BY <1>1 DEF IsChunk, WritableChunk
  <2>2. s[k] = WriteBs(bs, bd) /\ w[k] = BsBytes(bs, bd)
    BY <1>1 DEF BsPart
  <2> HIDE DEF bs, bd, s, w
  <2>3. QED
    BY <2>1, <2>2, BsWritten
<1>3. n < CountMod
  BY DEF WritableChunk
<1>4. Len(ids) % CountMod = n
  BY <1>1, <1>3, CountModAssumption, ModSmall
<1>5. write_binary_chunk(chunk) = FoldThen(Wrote(w0), s).v
  BY <1>4 DEF write_binary_chunk, FoldThen
<1>6. w0 \in Seq(Nat)
  BY <1>1
<1>7. DOMAIN s = 1..n
  BY <1>1
<1> HIDE DEF ids, s, w, w0
<1>8. PICK c : Chain(c, n, w) /\ c[0] = w0 /\ FoldThen(Wrote(w0), s) = Wrote(c[n])
  <2>1. Parts(n, w, s)
    BY <1>2, <1>7 DEF Parts
  <2>2. QED
    BY <1>1, <1>6, <2>1, ThenChain
<1>9. write_binary_chunk(chunk) = c[n]
  <2>1. Wrote(c[n]).v = c[n]
    BY DEF Wrote
  <2>2. QED
    BY <1>5, <1>8, <2>1
<1>10. QED
  BY <1>8, <1>9 DEF w, w0

LEMMA ChunkBytes ==
  ASSUME NEW chunk, IsChunk(chunk), WritableChunk(chunk)
  PROVE  write_binary_chunk(chunk) \in Seq(Nat)
<1> DEFINE n == Len(InOrderOf(chunk))
<1>1. n \in Nat
  BY InOrderIsOrder
<1> DEFINE w == [k \in 1..n |-> BsPart(chunk, k)]
<1>2. PICK c : Chain(c, n, w) /\ write_binary_chunk(chunk) = c[n]
  <2> HIDE DEF n
  <2>1. QED
    BY ChunkWritten DEF n
<1> HIDE DEF n, w
<1>3. QED
  BY <1>1, <1>2 DEF Chain

\* The first k BSs of a chunk.
FirstBSs(chunk, k) == [b \in {InOrderOf(chunk)[i] : i \in 1..k} |-> chunk[b]]

LEMMA NoBS ==
  ASSUME NEW chunk
  PROVE  FirstBSs(chunk, 0) = <<>>
<1>1. 1..0 = {}
  OBVIOUS
<1>2. {InOrderOf(chunk)[i] : i \in 1..0} = 1..0
  BY <1>1
<1>3. [b \in 1..0 |-> chunk[b]] = <<>>
  OBVIOUS
<1>4. QED
  BY <1>2, <1>3 DEF FirstBSs

LEMMA AllBSs ==
  ASSUME NEW chunk, IsChunk(chunk)
  PROVE  FirstBSs(chunk, Cardinality(DOMAIN chunk)) = chunk
<1> DEFINE n == Cardinality(DOMAIN chunk)
<1> DEFINE D == {InOrderOf(chunk)[i] : i \in 1..n}
<1>1. D \subseteq DOMAIN chunk
  BY InOrderIsOrder DEF Ordered
<1>2. DOMAIN chunk \subseteq D
  BY InOrderIsOrder
<1>3. chunk = [b \in DOMAIN chunk |-> chunk[b]]
  BY DEF IsChunk
<1>4. QED
  BY <1>1, <1>2, <1>3 DEF FirstBSs

LEMMA OneMoreBS ==
  ASSUME NEW chunk, IsChunk(chunk), NEW k \in 1..Cardinality(DOMAIN chunk)
  PROVE  Emplaced(FirstBSs(chunk, k - 1), InOrderOf(chunk)[k], chunk[InOrderOf(chunk)[k]])
           = FirstBSs(chunk, k)
<1> DEFINE ids == InOrderOf(chunk)
<1> DEFINE n == Cardinality(DOMAIN chunk)
<1> DEFINE D == {ids[i] : i \in 1..(k - 1)}
<1> DEFINE E == {ids[i] : i \in 1..k}
<1>1. n \in Nat /\ \A i, j \in 1..n : i # j => ids[i] # ids[j]
  BY InOrderIsOrder
<1>2. \A i \in 1..(k - 1) : i \in 1..n /\ i # k
  BY <1>1
<1>3. ids[k] \notin D
  BY <1>1, <1>2
<1>4. E = D \cup {ids[k]}
  <2>1. 1..k = 1..(k - 1) \cup {k}
    BY <1>1
  <2> HIDE DEF ids
  <2>2. QED
    BY <2>1
<1>5. FirstBSs(chunk, k - 1) = [b \in D |-> chunk[b]] /\ FirstBSs(chunk, k) = [b \in E |-> chunk[b]]
  BY DEF FirstBSs
<1> HIDE DEF ids, D, E
<1> DEFINE f == [b \in D |-> chunk[b]]
<1> DEFINE x == ids[k]
<1>6. DOMAIN f = D /\ \A b \in D : f[b] = chunk[b]
  OBVIOUS
<1> HIDE DEF x, f
<1>7. Emplaced(f, x, chunk[x]) = [b \in D \cup {x} |-> IF b = x THEN chunk[x] ELSE f[b]]
  BY <1>3, <1>6 DEF Emplaced, x
<1>8. \A b \in D \cup {x} : (IF b = x THEN chunk[x] ELSE f[b]) = chunk[b]
  BY <1>6
<1>9. Emplaced(f, x, chunk[x]) = [b \in D \cup {x} |-> chunk[b]]
  BY <1>7, <1>8
<1>10. QED
  BY <1>4, <1>5, <1>9 DEF f, x, ids

\* A chunk is read as it was recorded.
LEMMA ChunkRead ==
  ASSUME NEW p \in Nat \ {0}, NEW v, NEW chunk, IsChunk(chunk), WritableChunk(chunk),
         file \in Seq(Nat), At(p, write_binary_chunk(chunk))
  PROVE  read_binary_chunk(Taken(p, v)) = Taken(p + Len(write_binary_chunk(chunk)), chunk)
<1> DEFINE ids == InOrderOf(chunk)
<1> DEFINE n == Len(ids)
<1> DEFINE w == [k \in 1..n |-> BsPart(chunk, k)]
<1>1. /\ n \in Nat /\ n = Cardinality(DOMAIN chunk)
      /\ \A k \in 1..n : ids[k] \in DOMAIN chunk
  BY InOrderIsOrder DEF Ordered
<1>2. \A k \in 1..n : w[k] = BsPart(chunk, k)
  OBVIOUS
<1>3. PICK c : Chain(c, n, w) /\ c[0] = <<n>> /\ write_binary_chunk(chunk) = c[n]
  <2> HIDE DEF n
  <2>1. QED
    BY ChunkWritten DEF n
<1> DEFINE val == [k \in 0..n |-> FirstBSs(chunk, k)]
<1>4. /\ val[0] = <<>> /\ val[n] = chunk
      /\ \A k \in 1..n : val[k] = Emplaced(val[k - 1], ids[k], chunk[ids[k]])
  <2> HIDE DEF n, ids
  <2>1. \A k \in 1..n : k - 1 \in 0..n /\ k \in 0..n
    BY <1>1
  <2>2. 0 \in 0..n /\ n \in 0..n
    BY <1>1
  <2>3. val[0] = <<>> /\ val[n] = chunk
    BY <1>1, <2>2, NoBS, AllBSs
  <2>4. ASSUME NEW k \in 1..n
        PROVE  val[k] = Emplaced(val[k - 1], ids[k], chunk[ids[k]])
    <3>1. val[k] = FirstBSs(chunk, k) /\ val[k - 1] = FirstBSs(chunk, k - 1)
      BY <2>1
    <3>2. k \in 1..Cardinality(DOMAIN chunk)
      BY <1>1
    <3> HIDE DEF val
    <3>3. QED
      BY <3>1, <3>2, OneMoreBS DEF ids
  <2>5. QED
    BY <2>3, <2>4
<1> HIDE DEF ids, n, w, val
<1>5. Located(p, c, n, w)
  BY <1>1, <1>3, ChainAt
<1>6. At(p, <<n>>)
  <2>1. 0 \in 0..n
    BY <1>1
  <2>2. QED
    BY <1>3, <1>5, <2>1 DEF Located
<1> DEFINE num == Number(From(Taken(p, v)))
<1>7. From(num) = Taken(p + 1, <<>>) /\ num.ok = TRUE /\ Last_(num) = n
  BY <1>6, CountRead
<1>8. read_binary_chunk(Taken(p, v)) =
        IF ~ num.ok THEN num ELSE FoldBSs(From(num), [i \in 1..Last_(num) |-> i])
  BY DEF read_binary_chunk, FoldBSs
<1> HIDE DEF num
<1> DEFINE start == Taken(p + 1, <<>>)
<1> DEFINE s == [i \in 1..n |-> i]
<1>9. read_binary_chunk(Taken(p, v)) = FoldBSs(start, s)
  BY <1>7, <1>8
<1>10. DOMAIN s = 1..n
  OBVIOUS
<1> HIDE DEF s, start
<1>h. PICK h : BsSteps(n, start, s, h)
  BY <1>1, <1>10, FoldBSsSteps
<1>11. /\ h[0] = start
       /\ \A k \in 1..n : h[k] = TakeBs(h[k - 1], s[k])
       /\ FoldBSs(start, s) = h[n]
  BY <1>h DEF BsSteps
<1>12. ASSUME NEW k \in 1..n, NEW q \in Nat \ {0}, At(q, w[k]), h[k - 1] = Taken(q, val[k - 1])
       PROVE  h[k] = Taken(q + Len(w[k]), val[k])
  <2> DEFINE bs == ids[k]
  <2> DEFINE bd == chunk[bs]
  <2>1. h[k] = TakeBs(Taken(q, val[k - 1]), s[k])
    BY <1>11, <1>12
  <2>2. w[k] = BsBytes(bs, bd) /\ val[k] = Emplaced(val[k - 1], bs, bd)
    BY <1>2, <1>4 DEF BsPart, ids
  <2>3. bs \in Nat /\ bd \in Recorded /\ WritableBd(bd)
    BY <1>1 DEF IsChunk, WritableChunk
  <2> HIDE DEF bs, bd
  <2>4. At(q, BsBytes(bs, bd))
    BY <1>12, <2>2
  <2>5. TakeBs(Taken(q, val[k - 1]), s[k])
          = Taken(q + Len(BsBytes(bs, bd)), Emplaced(val[k - 1], bs, bd))
    BY <2>3, <2>4, BsRead
  <2>6. QED
    BY <2>1, <2>2, <2>5, Zenon
<1>13. h[n] = Taken(p + Len(c[n]), val[n])
  <2>1. Len(c[0]) = 1 /\ h[0] = Taken(p + 1, val[0])
    BY <1>3, <1>4, <1>11 DEF start
  <2>2. Reads(n, w, val, h)
    BY <1>12 DEF Reads
  <2>3. QED
    BY <1>1, <1>5, <2>1, <2>2, ReadInSteps
<1>14. QED
  <2>1. read_binary_chunk(Taken(p, v)) = h[n]
    BY <1>9, <1>11
  <2>2. val[n] = chunk /\ write_binary_chunk(chunk) = c[n]
    BY <1>3, <1>4
  <2>3. QED
    BY ONLY <1>13, <2>1, <2>2, Zenon

\* A dump all of which can be written, and read back.
WritableDump(d) == \A i \in DOMAIN d : WritableChunk(d[i])

LEMMA DumpFacts ==
  ASSUME NEW d \in Dumps
  PROVE  /\ d \in Seq({d[i] : i \in DOMAIN d})
         /\ Len(d) \in Nat /\ DOMAIN d = 1..Len(d)
         /\ \A i \in 1..Len(d) : IsChunk(d[i])
<1>1. d \in Seq({d[i] : i \in DOMAIN d}) /\ \A i \in DOMAIN d : IsChunk(d[i])
  BY DumpsAssumption, Zenon
<1> DEFINE E == {d[i] : i \in DOMAIN d}
<1>2. d \in Seq(E)
  BY <1>1
<1> HIDE DEF E
<1>3. Len(d) \in Nat /\ DOMAIN d = 1..Len(d)
  BY <1>2
<1>4. QED
  BY <1>1, <1>3

LEMMA FileWritten ==
  ASSUME NEW d \in Dumps, WritableDump(d)
  PROVE  \E c : /\ Chain(c, Len(d), [i \in 1..Len(d) |-> write_binary_chunk(d[i])])
                /\ c[0] = <<Len(d)>> /\ write_binary(d) = c[Len(d)]
<1> DEFINE n == Len(d)
<1> DEFINE w == [i \in 1..n |-> write_binary_chunk(d[i])]
<1> DEFINE w0 == <<n>>
<1>1. n \in Nat /\ DOMAIN d = 1..n /\ \A i \in 1..n : IsChunk(d[i])
  BY DumpFacts
<1>2. write_binary(d) = FoldCat(w0, w)
  BY <1>1 DEF write_binary, FoldCat
<1>3. w0 \in Seq(Nat) /\ DOMAIN w = 1..n
  BY <1>1
<1>4. \A i \in 1..n : w[i] \in Seq(Nat)
  BY <1>1, ChunkBytes DEF WritableDump
<1> HIDE DEF n, w, w0
<1>5. \E c : Chain(c, n, w) /\ c[0] = w0 /\ FoldCat(w0, w) = c[n]
  <2>1. n \in Nat
    BY <1>1
  <2>2. Numbers(n, w)
    BY <1>3, <1>4 DEF Numbers
  <2>3. QED
    BY <1>3, <2>1, <2>2, CatChain
<1>6. QED
  BY <1>2, <1>5 DEF n, w, w0

\* A file is read as it was recorded.
LEMMA FileRead ==
  ASSUME NEW d \in Dumps, WritableDump(d), file = write_binary(d)
  PROVE  read_binary = [ok |-> TRUE, v |-> d]
<1> DEFINE n == Len(d)
<1> DEFINE w == [i \in 1..n |-> write_binary_chunk(d[i])]
<1>0. n \in Nat
  BY DumpFacts
<1>1. /\ n \in Nat /\ d \in Seq({d[i] : i \in DOMAIN d}) /\ DOMAIN d = 1..n
      /\ \A i \in 1..n : IsChunk(d[i]) /\ WritableChunk(d[i]) /\ w[i] = write_binary_chunk(d[i])
  BY DumpFacts DEF WritableDump
<1>2. PICK c : Chain(c, n, w) /\ c[0] = <<n>> /\ write_binary(d) = c[n]
  BY FileWritten
<1> DEFINE val == [k \in 0..n |-> Initial(d, k)]
<1>3. val[0] = <<>> /\ val[n] = d /\ \A k \in 1..n : val[k] = Append(val[k - 1], d[k])
  <2>1. \A k \in 1..n : k - 1 \in 0..n /\ k \in 0..n /\ k \in Nat \ {0}
    BY <1>1
  <2>2. 0 \in 0..n /\ n \in 0..n
    BY <1>1
  <2>3. val[0] = <<>> /\ val[n] = d
    BY <1>1, <2>2, InitialAll
  <2>4. QED
    BY <2>1, <2>3, InitialOneMore
<1> HIDE DEF n, w, val
<1>4. file \in Seq(Nat) /\ At(1, c[n])
  <2>1. file = c[n] /\ c[n] \in Seq(Nat)
    BY <1>1, <1>2 DEF Chain
  <2>2. At(1, file)
    BY <2>1 DEF At
  <2>3. QED
    BY <2>1, <2>2
<1>5. Located(1, c, n, w)
  BY <1>1, <1>2, <1>4, ChainAt
<1>6. At(1, <<n>>)
  <2>1. 0 \in 0..n
    BY <1>1
  <2>2. QED
    BY <1>2, <1>5, <2>1 DEF Located
<1> DEFINE num == Number(Taken(1, <<>>))
<1>7. From(num) = Taken(2, <<>>) /\ Last_(num) = n
  <2>1. num = Taken(1 + 1, <<n>>) /\ 1 + 1 = 2
    BY <1>6, NumberRead
  <2> DEFINE x == <<n>>
  <2> HIDE DEF num
  <2>2. Last_(num) = n
    BY <2>1, LastOfOne
  <2>3. From(num) = Taken(2, <<>>)
    BY <2>1 DEF Taken, From
  <2>4. QED
    BY <2>2, <2>3
<1> DEFINE all == FoldChunks(From(num), [i \in 1..Last_(num) |-> i])
<1>8. read_binary = [ok |-> all.ok, v |-> all.v]
  BY DEF read_binary, FoldChunks
<1> HIDE DEF num
<1> DEFINE start == Taken(2, <<>>)
<1> DEFINE s == [i \in 1..n |-> i]
<1>9. all = FoldChunks(start, s)
  BY <1>7
<1>10. DOMAIN s = 1..n
  OBVIOUS
<1> HIDE DEF s, start, all
<1>h. PICK h : ChunkSteps(n, start, s, h)
  BY <1>0, <1>10, FoldChunksSteps
<1>11. /\ h[0] = start
       /\ \A k \in 1..n : h[k] = TakeChunk(h[k - 1], s[k])
       /\ FoldChunks(start, s) = h[n]
  BY <1>h DEF ChunkSteps
<1>12. ASSUME NEW k \in 1..n, NEW q \in Nat \ {0}, At(q, w[k]), h[k - 1] = Taken(q, val[k - 1])
       PROVE  h[k] = Taken(q + Len(w[k]), val[k])
  <2> DEFINE chunk == d[k]
  <2> DEFINE x == write_binary_chunk(chunk)
  <2>1. h[k] = TakeChunk(Taken(q, val[k - 1]), s[k])
    BY <1>11, <1>12
  <2>2. w[k] = x /\ val[k] = Append(val[k - 1], chunk) /\ At(q, x)
    BY <1>1, <1>3, <1>12
  <2>3. IsChunk(chunk) /\ WritableChunk(chunk)
    BY <1>1
  <2> HIDE DEF chunk
  <2>4. read_binary_chunk(Taken(q, <<>>)) = Taken(q + Len(x), chunk)
    BY <1>4, <2>2, <2>3, ChunkRead
  <2> HIDE DEF x
  <2>5. TakeChunk(Taken(q, val[k - 1]), s[k]) = Taken(q + Len(x), Append(val[k - 1], chunk))
    <3> DEFINE r == read_binary_chunk(From(Taken(q, val[k - 1])))
    <3>1. From(Taken(q, val[k - 1])) = Taken(q, <<>>)
      BY TakenFields
    <3>2. r = Taken(q + Len(x), chunk)
      BY <2>4, <3>1, Zenon
    <3> HIDE DEF r
    <3>3. r.ok = TRUE /\ r.pos = q + Len(x) /\ r.v = chunk /\ Taken(q, val[k - 1]).v = val[k - 1]
      BY <3>2 DEF Taken
    <3>4. TakeChunk(Taken(q, val[k - 1]), s[k]) =
            IF r.ok THEN Taken(r.pos, Append(Taken(q, val[k - 1]).v, r.v))
            ELSE Short(Taken(q, val[k - 1]))
      BY Zenon DEF TakeChunk, r
    <3>5. QED
      BY <3>3, <3>4, Zenon
  <2>6. QED
    BY <2>1, <2>2, <2>5, Zenon
<1>13. h[n] = Taken(1 + Len(c[n]), val[n])
  <2>1. Len(c[0]) = 1 /\ h[0] = Taken(1 + 1, val[0])
    BY <1>2, <1>3, <1>11 DEF start
  <2>2. Reads(n, w, val, h)
    BY <1>12 DEF Reads
  <2>3. QED
    BY <1>1, <1>5, <2>1, <2>2, ReadInSteps
<1>14. all.ok = TRUE /\ all.v = d
  <2> DEFINE q == 1 + Len(c[n])
  <2>a. all = h[n]
    BY <1>9, <1>11
  <2>b. h[n] = Taken(q, val[n])
    BY <1>13
  <2>c. val[n] = d
    BY <1>3
  <2> HIDE DEF q
  <2>1. all = Taken(q, d)
    BY ONLY <2>a, <2>b, <2>c, Zenon
  <2>2. QED
    BY <2>1 DEF Taken
<1>15. QED
  BY <1>8, <1>14, Zenon

(***************************************************************************)
(* The JSON                                                                *)
(***************************************************************************)
\* What the array has of a chunk with a BS.
Element(t, chunk) ==
  [enb_config |-> IF t = "stats" THEN <<>> ELSE InOrderOf(chunk),
   mac_stats |-> IF t = "enb" THEN <<>> ELSE InOrderOf(chunk)]

LEMMA NoComma ==
  ASSUME NEW t, NEW chunk, IsChunk(chunk)
  PROVE  Element(t, chunk) # Comma
<1> DEFINE ids == InOrderOf(chunk)
<1> DEFINE n == Cardinality(DOMAIN chunk)
<1> DEFINE two == <<0, 0>>
<1>1. Len(two) = 2 /\ two[1] = two[2] /\ DOMAIN two = 1..2 /\ Len(<<>>) = 0
  OBVIOUS
<1>2. ids # two
  <2> SUFFICES ASSUME ids = two PROVE FALSE
    OBVIOUS
  <2>1. n = 2
    BY <1>1, InOrderIsOrder
  <2>2. ids[1] # ids[2]
    <3>1. 1 \in 1..n /\ 2 \in 1..n /\ 1 # 2
      BY <2>1
    <3>2. QED
      BY <3>1, InOrderIsOrder
  <2> HIDE DEF ids, two
  <2>3. QED
    BY <1>1, <2>2
<1>3. <<>> # two
  BY <1>1
<1> DEFINE e == Element(t, chunk)
<1>4. e.enb_config # two
  BY <1>2, <1>3 DEF Element
<1>5. Comma.enb_config = two
  BY DEF Comma
<1> HIDE DEF e, two
<1>6. QED
  BY <1>4, <1>5 DEF e

LEMMA EvenOdd ==
  ASSUME NEW m \in Nat
  PROVE  (2 * m) % 2 = 0 /\ (2 * m + 1) % 2 = 1
OBVIOUS

\* Commas are at the even places of s, and only there.
Alternates(s) == \A j \in DOMAIN s : (s[j] = Comma) <=> j % 2 = 0

LEMMA FirstElement ==
  ASSUME NEW e, e # Comma
  PROVE  Alternates(<<e>>)
<1> DEFINE s == <<e>>
<1>1. DOMAIN s = {1} /\ s[1] = e /\ 1 % 2 = 1
  OBVIOUS
<1> HIDE DEF s
<1>2. Alternates(s)
  BY <1>1 DEF Alternates
<1>3. QED
  BY <1>2 DEF s

LEMMA NextElement ==
  ASSUME NEW U, NEW s, s \in Seq(U), NEW k \in Nat \ {0}, Len(s) = 2 * k - 1, Alternates(s),
         NEW e \in U, e # Comma, Comma \in U
  PROVE  /\ s \o <<Comma, e>> \in Seq(U)
         /\ Len(s \o <<Comma, e>>) = 2 * (k + 1) - 1
         /\ Alternates(s \o <<Comma, e>>)
<1> DEFINE more == <<Comma, e>>
<1>1. /\ more \in Seq(U) /\ Len(more) = 2 /\ more[1] = Comma /\ more[2] = e
      /\ Len(s) \in Nat /\ DOMAIN s = 1..Len(s)
  OBVIOUS
<1> HIDE DEF more
<1> DEFINE all == s \o more
<1>2. /\ all \in Seq(U) /\ Len(all) = Len(s) + 2 /\ DOMAIN all = 1..(Len(s) + 2)
      /\ \A j \in 1..Len(s) : all[j] = s[j]
      /\ all[Len(s) + 1] = Comma /\ all[Len(s) + 2] = e
  <2>1. /\ all \in Seq(U) /\ Len(all) = Len(s) + Len(more)
        /\ \A j \in 1..Len(s) : all[j] = s[j]
        /\ \A j \in 1..Len(more) : all[Len(s) + j] = more[j]
    <3>1. s \in Seq(U) /\ more \in Seq(U)
      BY <1>1
    <3>2. QED
      BY ONLY <3>1, ConcatOf
  <2> HIDE DEF all
  <2>2. 1 \in 1..Len(more) /\ 2 \in 1..Len(more) /\ Len(all) = Len(s) + 2
    BY <1>1, <2>1
  <2>3. DOMAIN all = 1..(Len(s) + 2)
    BY <2>1, <2>2
  <2>4. QED
    BY <1>1, <2>1, <2>2, <2>3
<1> HIDE DEF all
<1>3. (2 * k) % 2 = 0 /\ (2 * k + 1) % 2 = 1
  BY EvenOdd
<1>4. ASSUME NEW j \in DOMAIN all
      PROVE  (all[j] = Comma) <=> j % 2 = 0
  <2>1. CASE j \in 1..Len(s)
    BY <1>1, <1>2, <2>1 DEF Alternates
  <2>2. CASE j = Len(s) + 1
    <3>1. j = 2 * k
      BY <2>2
    <3>2. QED
      BY <1>2, <1>3, <2>2, <3>1
  <2>3. CASE j = Len(s) + 2
    <3>1. j = 2 * k + 1
      BY <2>3
    <3>2. all[j] # Comma
      BY <1>2, <2>3
    <3>3. j % 2 = 1
      BY <1>3, <3>1
    <3>4. QED
      BY <3>2, <3>3
  <2>4. j \in 1..Len(s) \/ j = Len(s) + 1 \/ j = Len(s) + 2
    BY <1>1, <1>2
  <2>5. QED
    BY <2>1, <2>2, <2>3, <2>4
<1>5. Alternates(all)
  BY <1>4 DEF Alternates
<1>6. Len(all) = 2 * (k + 1) - 1
  BY <1>1, <1>2
<1>7. QED
  BY <1>2, <1>5, <1>6 DEF all, more

\* In the JSON of a dump that has a BS in every tick, elements and commas take turns.
LEMMA JsonAlternates ==
  ASSUME NEW t, NEW d \in Dumps, \A i \in DOMAIN d : DOMAIN d[i] # {}
  PROVE  /\ d # <<>> => Len(write_json(t, d)) = 2 * Len(d) - 1
         /\ Alternates(write_json(t, d))
<1> DEFINE n == Len(d)
<1> DEFINE U == {Element(t, d[i]) : i \in 1..n} \cup {Comma}
<1> DEFINE w == [i \in DOMAIN d |-> (IF i = 1 THEN <<>> ELSE <<Comma>>)
                                      \o write_json_chunk(t, d[i])]
<1> DEFINE none == <<>>
<1>1. n \in Nat /\ DOMAIN d = 1..n /\ \A i \in 1..n : IsChunk(d[i])
  BY DumpFacts
<1>2. \A i \in 1..n : Element(t, d[i]) \in U /\ Element(t, d[i]) # Comma
  BY <1>1, NoComma
<1>3. DOMAIN w = 1..n /\ write_json(t, d) = FoldCat(none, w)
  BY <1>1 DEF write_json, FoldCat
<1>4. ASSUME NEW i \in 1..n
      PROVE  /\ i = 1 => w[i] = <<Element(t, d[i])>>
             /\ i # 1 => w[i] = <<Comma, Element(t, d[i])>>
  <2> DEFINE e == Element(t, d[i])
  <2>1. write_json_chunk(t, d[i]) = <<e>>
    BY <1>1 DEF write_json_chunk, Element
  <2> HIDE DEF e
  <2>2. w[i] = (IF i = 1 THEN <<>> ELSE <<Comma>>) \o <<e>>
    BY <1>1, <2>1
  <2>3. <<>> \o <<e>> = <<e>> /\ <<Comma>> \o <<e>> = <<Comma, e>>
    <3> DEFINE E == {Comma, e}
    <3> DEFINE x == <<e>>
    <3>1. x \in Seq(E) /\ Comma \in E /\ e \in E
      OBVIOUS
    <3> HIDE DEF E
    <3>2. <<Comma>> \o <<e>> = <<Comma, e>>
      BY <3>1, TwoElements
    <3> HIDE DEF x
    <3>3. <<>> \o x = x
      BY <3>1, ConcatEmptySeq
    <3>4. QED
      BY <3>2, <3>3 DEF x
  <2> HIDE DEF w
  <2>4. QED
    BY <2>2, <2>3 DEF e
<1> HIDE DEF n, U, w, none
<1>n. n \in Nat
  BY <1>1
<1>d. DOMAIN w = 1..n
  BY <1>3
<1>h. PICK h : CatSteps(n, none, w, h)
  BY <1>n, <1>d, FoldCatSteps
<1>5. /\ h[0] = none
      /\ \A k \in 1..n : h[k] = Joined(h[k - 1], w[k])
      /\ FoldCat(none, w) = h[n]
  BY <1>h DEF CatSteps
<1> DEFINE Good(k) == h[k] \in Seq(U) /\ Len(h[k]) = 2 * k - 1 /\ Alternates(h[k])
<1> DEFINE S == {k \in 0..n : k = 0 \/ Good(k)}
<1>6. 0 \in S
  BY <1>n
<1>7. ASSUME NEW k \in 1..n, k - 1 \in S
      PROVE  k \in S
  <2> DEFINE e == Element(t, d[k])
  <2>1. e \in U /\ e # Comma /\ Comma \in U
    BY <1>2 DEF U
  <2>2. h[k] = h[k - 1] \o w[k]
    BY <1>5 DEF Joined
  <2>3. CASE k = 1
    <3> HIDE DEF e
    <3>1. h[k] = <<>> \o <<e>>
      <4>1. h[k - 1] = <<>>
        BY <1>5, <2>3 DEF none
      <4>2. w[k] = <<e>>
        BY <1>4, <2>3 DEF e
      <4>3. QED
        BY <2>2, <4>1, <4>2
    <3>2. <<>> \o <<e>> = <<e>> /\ <<e>> \in Seq(U) /\ Len(<<e>>) = 1
      <4> DEFINE x == <<e>>
      <4>1. x \in Seq(U) /\ Len(x) = 1
        BY <2>1
      <4> HIDE DEF x
      <4>2. <<>> \o x = x
        BY <4>1, ConcatEmptySeq
      <4>3. QED
        BY <4>1, <4>2 DEF x
    <3>3. Alternates(<<e>>)
      BY <2>1, FirstElement
    <3>4. 1 = 2 * k - 1 /\ k \in 0..n
      BY <1>n, <2>3
    <3>5. QED
      BY <3>1, <3>2, <3>3, <3>4
  <2>4. CASE k # 1
    <3> DEFINE s == h[k - 1]
    <3>1. k - 1 \in Nat \ {0} /\ (k - 1) + 1 = k /\ k \in 0..n
      BY <1>n, <2>4
    <3>2. s \in Seq(U) /\ Len(s) = 2 * (k - 1) - 1 /\ Alternates(s)
      BY <1>7, <3>1
    <3>3. h[k] = s \o <<Comma, e>>
      BY <1>4, <2>2, <2>4
    <3> HIDE DEF s, e
    <3>4. /\ s \o <<Comma, e>> \in Seq(U)
          /\ Len(s \o <<Comma, e>>) = 2 * ((k - 1) + 1) - 1
          /\ Alternates(s \o <<Comma, e>>)
      BY <2>1, <3>1, <3>2, NextElement
    <3>5. Good(k)
      BY <3>1, <3>3, <3>4
    <3>6. QED
      BY <3>1, <3>5
  <2>5. QED
    BY <2>3, <2>4
<1>8. n \in S
  <2> HIDE DEF S
  <2>1. 0..n \subseteq S
    BY <1>n, <1>6, <1>7, Cats!UpTo
  <2>2. QED
    BY <1>n, <2>1
<1>9. CASE n = 0
  <2>1. write_json(t, d) = <<>>
    BY <1>3, <1>5, <1>9 DEF none
  <2>2. Alternates(<<>>)
    BY DEF Alternates
  <2>3. d = <<>>
    BY <1>9, DumpFacts DEF n
  <2>4. QED
    BY <2>1, <2>2, <2>3
<1>10. CASE n # 0
  <2>1. Good(n)
    BY <1>8, <1>10
  <2>2. write_json(t, d) = h[n]
    BY <1>3, <1>5
  <2>3. QED
    BY <2>1, <2>2 DEF n
<1>11. QED
  BY <1>9, <1>10

(***************************************************************************)
(* The recorder's files                                                    *)
(***************************************************************************)
\* What the files have at each stage.
FileInv ==
  /\ recorded \in Dumps
  /\ stage = "written" => file = write_binary(recorded)
  /\ RoundTrip
  /\ stage = "parsed" /\ Writable => json = write_json(type, recorded)

LEMMA WritableIsWritable ==
  ASSUME recorded \in Dumps, Writable
  PROVE  WritableDump(recorded)
<1>1. ASSUME NEW i \in DOMAIN recorded
      PROVE  WritableChunk(recorded[i])
  <2> DEFINE chunk == recorded[i]
  <2>1. \A b \in DOMAIN chunk : WritableBd(chunk[b]) /\ Len(InOrderOf(chunk)) < CountMod
    BY DEF Writable, WritableBd
  <2>2. CASE DOMAIN chunk = {}
    <3>1. IsChunk(chunk)
      BY <1>1, DumpsAssumption
    <3>2. Len(InOrderOf(chunk)) = 0
      BY <2>2, <3>1, InOrderIsOrder, FS_EmptySet
    <3>3. QED
      BY <2>1, <3>2, CountModAssumption DEF WritableChunk
  <2>3. CASE DOMAIN chunk # {}
    BY <2>1, <2>3 DEF WritableChunk
  <2>4. QED
    BY <2>2, <2>3
<1>2. QED
  BY <1>1 DEF WritableDump

LEMMA FileInvInit ==
  ASSUME FileInit
  PROVE  FileInv
BY DEF FileInit, FileInv, RoundTrip

LEMMA FileInvNext ==
  ASSUME FileInv, [FileNext]_fileVars
  PROVE  FileInv'
<1>1. recorded \in Dumps /\ recorded' = recorded /\ (Writable' <=> Writable)
  BY DEF FileInv, FileNext, WriteBinary, WriteJson, ReadBinary, ParseBd, fileVars, Writable
<1>2. CASE WriteBinary
  BY <1>1, <1>2 DEF FileInv, WriteBinary, RoundTrip
<1>3. CASE WriteJson
  BY <1>1, <1>3 DEF FileInv, WriteJson, RoundTrip
<1>4. CASE ReadBinary
  <2>1. ASSUME Writable
        PROVE  read' = [ok |-> TRUE, v |-> recorded]
    <3>1. file = write_binary(recorded)
      BY <1>4 DEF FileInv, ReadBinary
    <3>2. WritableDump(recorded)
      BY <1>1, <2>1, WritableIsWritable
    <3>3. read_binary = [ok |-> TRUE, v |-> recorded]
      BY <1>1, <3>1, <3>2, FileRead
    <3>4. QED
      BY <1>4, <3>3 DEF ReadBinary
  <2>2. stage' = "read"
    BY <1>4 DEF ReadBinary
  <2>3. QED
    BY <1>1, <2>1, <2>2 DEF FileInv, RoundTrip
<1>5. ASSUME NEW t \in {"all", "enb", "stats"}, ParseBd(t)
      PROVE  FileInv'
  <2>1. ASSUME Writable
        PROVE  read.v = recorded
    BY <1>5, <2>1 DEF FileInv, ParseBd, RoundTrip
  <2>2. stage' = "parsed" /\ json' = write_json(type', read.v)
    BY <1>5 DEF ParseBd
  <2>3. QED
    BY <1>1, <2>1, <2>2 DEF FileInv, RoundTrip
<1>6. CASE UNCHANGED fileVars
  BY <1>1, <1>6 DEF FileInv, fileVars, RoundTrip
<1>7. QED
  BY <1>2, <1>3, <1>4, <1>5, <1>6 DEF FileNext

LEMMA FileInvReadable ==
  ASSUME FileInv
  PROVE  FilesReadable
<1>1. JsonArray
  <2> SUFFICES ASSUME stage = "parsed", Writable, \A i \in DOMAIN recorded : DOMAIN recorded[i] # {}
               PROVE  /\ recorded # <<>> => Len(json) = 2 * Len(recorded) - 1
                      /\ \A i \in DOMAIN json : (json[i] = Comma) <=> i % 2 = 0
    BY DEF JsonArray
  <2>1. recorded \in Dumps /\ json = write_json(type, recorded)
    BY DEF FileInv
  <2>2. /\ recorded # <<>> => Len(write_json(type, recorded)) = 2 * Len(recorded) - 1
        /\ Alternates(write_json(type, recorded))
    BY <2>1, JsonAlternates
  <2>3. QED
    BY <2>1, <2>2 DEF Alternates
<1>2. QED
  BY <1>1 DEF FileInv, FilesReadable

\* A binary record is read back as it was recorded, for every dump and every count of bytes;
\* what is converted to JSON is an array (recorder.cc, parse-bd.cc).
THEOREM FilesAreReadable == FileSpec => []FilesReadable
<1>1. FileInit => FileInv
  BY FileInvInit
<1>2. FileInv /\ [FileNext]_fileVars => FileInv'
  BY FileInvNext
<1>3. FileInv => FilesReadable
  BY FileInvReadable
<1>4. QED
  BY <1>1, <1>2, <1>3, PTL DEF FileSpec
=============================================================================
