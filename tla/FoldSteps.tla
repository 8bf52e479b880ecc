------------------------------ MODULE FoldSteps ------------------------------
(***************************************************************************)
(* The steps of a fold over a sequence (FoldLeft of SequencesExt), for     *)
(* every operator that is folded: the library defines a fold by a          *)
(* recursive function on the subsets of the sequence's domain, of which a  *)
(* proof has nothing until it is known to exist.  A module of proofs has   *)
(* an instance of this one for each operator that its model folds.         *)
(***************************************************************************)
EXTENDS Naturals, NaturalsInduction, WellFoundedInduction, TLAPS

CONSTANT op(_, _)

\* g is the function on the parts of D that a fold of s is defined by.
Iterates(g, base, s, D) ==
  g = [t \in SUBSET D |->
         IF t = {} THEN base
         ELSE LET last == CHOOSE x \in t : \A y \in t : x >= y
              IN op(g[t \ {last}], s[last])]

\* What FoldLeft is when its definition is expanded.
Fold(base, s) == (CHOOSE g : Iterates(g, base, s, DOMAIN s))[DOMAIN s]

\* A set of numbers has a least one.
THEOREM LeastNumber ==
  \A T \in SUBSET Nat : T # {} => \E x \in T : \A y \in T : x <= y
<1> SUFFICES ASSUME NEW T \in SUBSET Nat, T # {}
             PROVE  \E x \in T : \A y \in T : x <= y
  OBVIOUS
<1> DEFINE R == OpToRel(<, Nat)
<1>1. \A x, y \in Nat : x < y => <<x, y>> \in R
  BY DEF OpToRel
<1>2. IsWellFoundedOn(R, Nat)
  BY NatLessThanWellFounded
<1> HIDE DEF R
<1>3. \E x \in T : \A y \in T : ~ (<<y, x>> \in R)
  BY <1>2, WFMin
<1>4. PICK x \in T : \A y \in T : ~ (<<y, x>> \in R)
  BY <1>3
<1>5. \A y \in T : ~ (y < x)
  BY <1>1, <1>4
<1>6. \A y \in T : x <= y
  BY <1>5
<1>7. QED
  BY <1>6

\* What holds of no number and of each that follows one of which it holds, holds up to n.
THEOREM UpTo ==
  \A n \in Nat : \A S : 0 \in S /\ (\A k \in 1..n : k - 1 \in S => k \in S) => 0..n \subseteq S
<1> SUFFICES ASSUME NEW n \in Nat, NEW S, 0 \in S, \A k \in 1..n : k - 1 \in S => k \in S,
                    ~ (0..n \subseteq S)
             PROVE  FALSE
  OBVIOUS
<1> DEFINE T == (0..n) \ S
<1>1. T \in SUBSET Nat /\ T # {}
  OBVIOUS
<1>2. PICK x \in T : \A y \in T : x <= y
  <2> HIDE DEF T
  <2>1. QED
    BY <1>1, LeastNumber
<1>3. x \in 1..n /\ x - 1 \in 0..n /\ ~ (x <= x - 1)
  OBVIOUS
<1>4. x - 1 \in T
  BY <1>2, <1>3
<1>5. QED
  BY <1>2, <1>3, <1>4

\* The last element of a part of 1..k, with and without k.
LEMMA LastOfPart ==
  ASSUME NEW k \in Nat \ {0}, NEW t \in SUBSET (1..k), k \in t
  PROVE  (CHOOSE x \in t : \A y \in t : x >= y) = k
<1>1. k \in t /\ \A y \in t : k >= y
  OBVIOUS
<1>2. \A x \in t : (\A y \in t : x >= y) => x = k
  BY <1>1
<1>3. QED
  BY <1>1, <1>2

\* The function exists: from one on the parts of 1..(k - 1) one on the parts of 1..k is made.
LEMMA IteratesExist ==
  ASSUME NEW n \in Nat, NEW base, NEW s
  PROVE  \E g : Iterates(g, base, s, 1..n)
<1> DEFINE S == {k \in 0..n : \E g : Iterates(g, base, s, 1..k)}
<1> DEFINE Last(t) == CHOOSE x \in t : \A y \in t : x >= y
<1>1. 0 \in S
  <2> DEFINE g == [t \in SUBSET (1..0) |-> base]
  <2>1. 1..0 = {}
    OBVIOUS
  <2>2. \A t \in SUBSET (1..0) : t = {}
    BY <2>1
  <2>3. Iterates(g, base, s, 1..0)
    BY <2>2 DEF Iterates
  <2>4. QED
    BY <2>3
<1>2. ASSUME NEW k \in 1..n, k - 1 \in S
      PROVE  k \in S
  <2>1. k - 1 \in Nat /\ k \in Nat \ {0} /\ k \in 0..n
    OBVIOUS
  <2>2. PICK g : Iterates(g, base, s, 1..(k - 1))
    BY <1>2
  <2> DEFINE h == [t \in SUBSET (1..k) |-> IF k \in t THEN op(g[t \ {k}], s[k]) ELSE g[t]]
  <2>3. \A t \in SUBSET (1..k) : k \notin t => t \in SUBSET (1..(k - 1))
    BY <2>1
  <2>4. \A t \in SUBSET (1..(k - 1)) : h[t] = g[t]
    BY <2>1
  <2>5. ASSUME NEW t \in SUBSET (1..k)
        PROVE  h[t] = IF t = {} THEN base ELSE op(h[t \ {Last(t)}], s[Last(t)])
    <3>1. CASE k \in t
      <4>1. Last(t) = k
        BY <2>1, <3>1, LastOfPart
      <4>2. t \ {k} \in SUBSET (1..(k - 1))
        BY <2>1
      <4>3. h[t] = op(g[t \ {k}], s[k])
        BY <3>1
      <4>4. h[t \ {k}] = g[t \ {k}]
        BY <2>4, <4>2
      <4> HIDE DEF h, Last
      <4>5. QED
        BY <3>1, <4>1, <4>3, <4>4
    <3>2. CASE k \notin t
      <4>1. t \in SUBSET (1..(k - 1)) /\ t \ {Last(t)} \in SUBSET (1..(k - 1))
        BY <2>3, <3>2
      <4>2. h[t] = g[t] /\ h[t \ {Last(t)}] = g[t \ {Last(t)}]
        BY <2>4, <4>1
      <4>3. g[t] = IF t = {} THEN base ELSE op(g[t \ {Last(t)}], s[Last(t)])
        BY <2>2, <4>1 DEF Iterates
      <4> HIDE DEF h, Last
      <4>4. QED
        BY <4>2, <4>3
    <3>3. QED
      BY <3>1, <3>2
  <2>6. h = [t \in SUBSET (1..k) |-> IF t = {} THEN base ELSE op(h[t \ {Last(t)}], s[Last(t)])]
    <3> DEFINE f == [t \in SUBSET (1..k) |->
                       IF t = {} THEN base ELSE op(h[t \ {Last(t)}], s[Last(t)])]
    <3>1. \A t \in SUBSET (1..k) : h[t] = f[t]
      BY <2>5
    <3>2. DOMAIN h = SUBSET (1..k) /\ DOMAIN f = SUBSET (1..k)
      OBVIOUS
    <3>3. h = [t \in SUBSET (1..k) |-> h[t]] /\ f = [t \in SUBSET (1..k) |-> f[t]]
      OBVIOUS
    <3> HIDE DEF h, f
    <3>4. h = f
      BY <3>1, <3>3
    <3>5. QED
      BY <3>4 DEF f
  <2>7. Iterates(h, base, s, 1..k)
    <3> HIDE DEF h
    <3>1. QED
      BY <2>6 DEF Iterates
  <2>8. QED
    BY <2>1, <2>7
<1> HIDE DEF S
<1>3. n \in S
  BY <1>1, <1>2, UpTo
<1>4. QED
  BY <1>3 DEF S

\* A fold of n elements takes n steps, and each folds in one element.
THEOREM Steps ==
  \A n \in Nat : \A base, s :
    DOMAIN s = 1..n =>
      \E h : /\ h[0] = base
             /\ \A k \in 1..n : h[k] = op(h[k - 1], s[k])
             /\ Fold(base, s) = h[n]
<1> SUFFICES ASSUME NEW n \in Nat, NEW base, NEW s, DOMAIN s = 1..n
             PROVE  \E h : /\ h[0] = base
                           /\ \A k \in 1..n : h[k] = op(h[k - 1], s[k])
                           /\ Fold(base, s) = h[n]
  OBVIOUS
<1> DEFINE g == CHOOSE f : Iterates(f, base, s, 1..n)
<1> DEFINE h == [k \in 0..n |-> g[1..k]]
<1>1. Iterates(g, base, s, 1..n)
  BY IteratesExist
<1>2. Fold(base, s) = g[1..n]
  BY DEF Fold
<1> HIDE DEF g
<1>3. g[{}] = base
  BY <1>1 DEF Iterates
<1>4. h[0] = base
  <2>1. 1..0 = {}
    OBVIOUS
  <2>2. QED
    BY <1>3, <2>1
<1>5. ASSUME NEW k \in 1..n
      PROVE  h[k] = op(h[k - 1], s[k])
  <2>1. 1..k \in SUBSET (1..n) /\ k \in 1..k /\ 1..k # {} /\ (1..k) \ {k} = 1..(k - 1)
        /\ k \in 0..n /\ k - 1 \in 0..n /\ k \in Nat \ {0}
    OBVIOUS
  <2>2. (CHOOSE x \in 1..k : \A y \in 1..k : x >= y) = k
    BY <2>1, LastOfPart
  <2>3. g[1..k] = op(g[(1..k) \ {k}], s[k])
    BY <1>1, <2>1, <2>2 DEF Iterates
  <2>4. QED
    BY <2>1, <2>3
<1>6. h[n] = g[1..n]
  OBVIOUS
<1> HIDE DEF h
<1>7. QED
  BY <1>2, <1>4, <1>5, <1>6
=============================================================================
