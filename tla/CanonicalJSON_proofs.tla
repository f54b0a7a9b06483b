------------------------ MODULE CanonicalJSON_proofs ------------------------
(***************************************************************************)
(* Proofs about CanonicalJSON, for every document: its canonical form says *)
(* what it says, is in the order of RFC 8785, and is the one of every      *)
(* document that says the same, and of no other.                           *)
(*                                                                         *)
(* Nothing here goes by the depth of a document.  A value has a place, the *)
(* way to it, and a property of the way is one of each step on it: where   *)
(* the members of one object go.  A member's seat is the number of keys    *)
(* beside it that come before its own, so it depends on the set of the     *)
(* keys and not on the order they are written in, and two members have two *)
(* seats because two keys are comparable.  That is the first half of the   *)
(* module: Precedes and KeyBefore are strict total orders, and the order   *)
(* of UTF-16 units is the one of code points that Before says it is.  The  *)
(* induction that is needed is in the library's fact that numbers are      *)
(* well-founded, of which Least is the form that is used.                  *)
(***************************************************************************)
EXTENDS CanonicalJSON, SequenceTheorems, FiniteSetTheorems, WellFoundedInduction, TLAPS
-----------------------------------------------------------------------------
(* Orders of sequences, from an order of what is in them.                  *)

\* Of a set of numbers that is not empty, one is the least: what an induction over
\* the places of a key or of a document rests on here.
LEMMA Least ==
    ASSUME NEW T, T \subseteq Nat, T # {}
    PROVE  \E n \in T : \A m \in T : n <= m
<1>1. IsWellFoundedOn(OpToRel(<, Nat), Nat)
    BY NatLessThanWellFounded, Zenon
<1>2. \E n \in T : \A m \in T : <<m, n>> \notin OpToRel(<, Nat)
    BY <1>1, WFMin, Zenon
<1>3. \E n \in T : \A m \in T : ~(m < n)
    BY <1>2, Zenon DEF OpToRel
<1>4. \A n \in T : n \in Nat
    OBVIOUS
<1>5. \A n, m \in T : ~(m < n) => n <= m
    BY <1>4
<1>6. QED
    BY <1>3, <1>5, Zenon

\* Lexical with the order as a set of pairs: a theorem cannot be about an operator.
LexR(a, b, R) ==
    \/ Len(a) < Len(b) /\ \A i \in DOMAIN a : a[i] = b[i]
    \/ \E i \in DOMAIN a \cap DOMAIN b : <<a[i], b[i]>> \in R /\ \A j \in 1..i-1 : a[j] = b[j]

\* What an order has to be for sortJCSKeys to have one result.
StrictOrder(R, S) ==
    /\ \A x \in S : <<x, x>> \notin R
    /\ \A x, y, z \in S : <<x, y>> \in R /\ <<y, z>> \in R => <<x, z>> \in R

\* And that any two are comparable.
Total(R, S) == \A x, y \in S : x = y \/ <<x, y>> \in R \/ <<y, x>> \in R

\* The order of numbers, for the units that lessUTF16 compares.
Lower == {r \in Int \X Int : r[1] < r[2]}

\* Precedes is such an order of sequences (the loop of lessUTF16, jcs.go:299-304).
LEMMA PrecedesIs ==
    ASSUME NEW a \in Seq(Int), NEW b \in Seq(Int)
    PROVE Precedes(a, b) <=> LexR(a, b, Lower)
<1>1. \A x, y \in Int : <<x, y>> \in Lower <=> x < y
   BY DEF Lower
<1>2. \A i \in DOMAIN a : a[i] \in Int
   OBVIOUS
<1>3. \A i \in DOMAIN b : b[i] \in Int
   OBVIOUS
<1> QED
   BY <1>1, <1>2, <1>3 DEF Precedes, Lexical, LexR

\* No sequence comes before itself.
LEMMA LexIrreflexive ==
    ASSUME NEW S, NEW R, StrictOrder(R, S), NEW a \in Seq(S)
    PROVE ~LexR(a, a, R)
<1>1. \A i \in DOMAIN a : a[i] \in S
  OBVIOUS
<1>2. ~(Len(a) < Len(a))
  OBVIOUS
<1>3. QED
  BY <1>1, <1>2, Zenon DEF LexR, StrictOrder

\* What comes before a sequence comes before all that come after that one.
LEMMA LexTransitive ==
    ASSUME NEW S, NEW R, StrictOrder(R, S), NEW a \in Seq(S), NEW b \in Seq(S), NEW c \in Seq(S),
           LexR(a, b, R), LexR(b, c, R)
    PROVE LexR(a, c, R)
<1>a. /\ Len(a) \in Nat /\ Len(b) \in Nat /\ Len(c) \in Nat
      /\ DOMAIN a = 1..Len(a) /\ DOMAIN b = 1..Len(b) /\ DOMAIN c = 1..Len(c)
  OBVIOUS
<1>0. /\ \A i \in 1..Len(a) : a[i] \in S
      /\ \A i \in 1..Len(b) : b[i] \in S
      /\ \A i \in 1..Len(c) : c[i] \in S
  OBVIOUS
<1> DEFINE First(x, y, i) == i \in DOMAIN x \cap DOMAIN y /\ <<x[i], y[i]>> \in R /\ \A j \in 1..i-1 : x[j] = y[j]
           Short(x, y) == Len(x) < Len(y) /\ \A i \in DOMAIN x : x[i] = y[i]
<1>1. ASSUME Short(a, b), Short(b, c) PROVE LexR(a, c, R)
  <2>1. Len(a) < Len(c) /\ \A i \in 1..Len(a) : i \in 1..Len(b)
    BY <1>1, <1>a
  <2>2. \A i \in DOMAIN a : a[i] = c[i]
    BY <1>1, <1>a, <2>1, Zenon
  <2>3. QED BY <2>1, <2>2, Zenon DEF LexR
<1>2. ASSUME Short(a, b), NEW i, First(b, c, i) PROVE LexR(a, c, R)
  <2>0. i \in Nat /\ i \in 1..Len(b) /\ i \in 1..Len(c)
    BY <1>2, <1>a
  <2>1. CASE i \in 1..Len(a)
    <3>1. \A j \in 1..i-1 : j \in 1..Len(a)
      BY <1>a, <2>0, <2>1
    <3>2. First(a, c, i)
      BY <1>2, <1>a, <2>0, <2>1, <3>1, Zenon
    <3>3. QED BY <3>2, Zenon DEF LexR
  <2>2. CASE i \notin 1..Len(a)
    <3>1. Len(a) < Len(c) /\ \A j \in 1..Len(a) : j \in 1..i-1
      BY <1>a, <2>0, <2>2
    <3>2. Short(a, c)
      BY <1>2, <1>a, <3>1, Zenon
    <3>3. QED BY <3>2, Zenon DEF LexR
  <2>3. QED BY <2>1, <2>2
<1>3. ASSUME NEW i, First(a, b, i), Short(b, c) PROVE LexR(a, c, R)
  <2>1. i \in 1..Len(a) /\ i \in 1..Len(b)
    BY <1>3, <1>a, Zenon
  <2>2. /\ i \in 1..Len(c) /\ \A j \in 1..i-1 : j \in 1..Len(b)
    BY <1>3, <1>a, <2>1
  <2>3. First(a, c, i)
    BY <1>3, <1>a, <2>1, <2>2, Zenon
  <2>4. QED BY <2>3, Zenon DEF LexR
<1>4. ASSUME NEW i, First(a, b, i), NEW j, First(b, c, j) PROVE LexR(a, c, R)
  <2>0. i \in 1..Len(a) /\ i \in 1..Len(b) /\ j \in 1..Len(b) /\ j \in 1..Len(c)
    BY <1>4, <1>a, Zenon
  <2>1. CASE i < j
    <3>1. i \in 1..j-1 /\ i \in 1..Len(c) /\ \A k \in 1..i-1 : k \in 1..j-1
      BY <1>a, <2>0, <2>1
    <3>2. First(a, c, i)
      BY <1>4, <1>a, <2>0, <3>1, Zenon
    <3>3. QED BY <3>2, Zenon DEF LexR
  <2>2. CASE j < i
    <3>1. j \in 1..i-1 /\ j \in 1..Len(a) /\ \A k \in 1..j-1 : k \in 1..i-1
      BY <1>a, <2>0, <2>2
    <3>2. First(a, c, j)
      BY <1>4, <1>a, <2>0, <3>1, Zenon
    <3>3. QED BY <3>2, Zenon DEF LexR
  <2>3. CASE i = j
    <3>1. <<a[i], c[i]>> \in R
      BY <1>0, <1>4, <2>0, <2>3, Zenon DEF StrictOrder
    <3>2. First(a, c, i)
      BY <1>4, <1>a, <2>0, <2>3, <3>1, Zenon
    <3>3. QED BY <3>2, Zenon DEF LexR
  <2>4. i \in Int /\ j \in Int
    BY <2>0
  <2>5. QED BY <2>1, <2>2, <2>3, <2>4
<1>5. Short(a, b) \/ \E i : First(a, b, i)
  BY Zenon DEF LexR
<1>6. Short(b, c) \/ \E i : First(b, c, i)
  BY Zenon DEF LexR
<1> HIDE DEF First, Short
<1>7. QED BY <1>1, <1>2, <1>3, <1>4, <1>5, <1>6, Zenon

\* Of two sequences, one comes before the other or they are one: they differ
\* somewhere first, or one goes on where the other ends.
LEMMA LexTotal ==
    ASSUME NEW S, NEW R, Total(R, S), NEW a \in Seq(S), NEW b \in Seq(S)
    PROVE a = b \/ LexR(a, b, R) \/ LexR(b, a, R)
<1>1. Len(a) \in Nat /\ Len(b) \in Nat /\ DOMAIN a = 1..Len(a) /\ DOMAIN b = 1..Len(b)
  OBVIOUS
<1>0. /\ \A i \in 1..Len(a) : a[i] \in S
      /\ \A i \in 1..Len(b) : b[i] \in S
  OBVIOUS
<1> DEFINE T == {i \in DOMAIN a \cap DOMAIN b : a[i] # b[i]}
<1>2. CASE T = {}
  <2>1. CASE Len(a) = Len(b)
    BY <1>1, <1>2, <2>1, SeqEqual
  <2>2. CASE Len(a) < Len(b)
    BY <1>1, <1>2, <2>2 DEF LexR
  <2>3. CASE Len(b) < Len(a)
    BY <1>1, <1>2, <2>3 DEF LexR
  <2>4. Len(a) = Len(b) \/ Len(a) < Len(b) \/ Len(b) < Len(a)
    <3>1. Len(a) \in Nat /\ Len(b) \in Nat
      OBVIOUS
    <3>2. QED BY <3>1
  <2>5. QED BY <2>1, <2>2, <2>3, <2>4, Zenon
<1>3. CASE T # {}
  <2>1. T \subseteq Nat
    BY <1>1
  <2>2. PICK n \in T : \A m \in T : n <= m
    <3> HIDE DEF T
    <3> QED BY <1>3, <2>1, Least, Zenon
  <2>3. n \in DOMAIN a \cap DOMAIN b /\ a[n] # b[n] /\ n \in Nat
    BY <2>1
  <2>4. \A j \in 1..n-1 : a[j] = b[j]
    BY <1>1, <2>2, <2>3
  <2>5. a[n] \in S /\ b[n] \in S
    BY <1>0, <1>1, <2>3
  <2>6. <<a[n], b[n]>> \in R \/ <<b[n], a[n]>> \in R
    BY <2>3, <2>5, Zenon DEF Total
  <2>7. QED
    BY <2>3, <2>4, <2>6, Zenon DEF LexR
<1>4. QED BY <1>2, <1>3

\* Of finitely many things in an order, one has none before it: the first fault of a
\* document, and the name locateUncanonicalizableNumber finds, exist.
LEMMA Minimal ==
    ASSUME NEW S, NEW R, StrictOrder(R, S), NEW T, T \subseteq S, T # {}, IsFiniteSet(T)
    PROVE  \E m \in T : \A x \in T : <<x, m>> \notin R
<1> DEFINE below(y) == {x \in T : <<x, y>> \in R}
           N == {Cardinality(below(y)) : y \in T}
<1>1. \A y \in T : IsFiniteSet(below(y)) /\ Cardinality(below(y)) \in Nat
  <2>1. \A y \in T : below(y) \in SUBSET T
    OBVIOUS
  <2> HIDE DEF below
  <2>2. QED
    BY <2>1, FS_Subset, FS_CardinalityType, Zenon
<1>2. N \subseteq Nat /\ N # {}
  BY <1>1
<1> HIDE DEF N
<1>3. PICK n \in N : \A k \in N : n <= k
  BY <1>2, Least, Zenon
<1> USE DEF N
<1>4. PICK m \in T : n = Cardinality(below(m))
  OBVIOUS
<1>5. ASSUME NEW x \in T, <<x, m>> \in R PROVE FALSE
  <2>1. x \in S /\ m \in S
    OBVIOUS
  <2>2. below(x) \subseteq below(m)
    BY <1>5, <2>1, Zenon DEF StrictOrder
  <2>3. x \in below(m) /\ x \notin below(x)
    BY <1>5, <2>1 DEF StrictOrder
  <2>4. Cardinality(below(x)) \in N /\ n <= Cardinality(below(x))
    BY <1>3
  <2>5. /\ IsFiniteSet(below(m)) /\ Cardinality(below(m)) \in Nat /\ Cardinality(below(x)) \in Nat
        /\ below(x) \in SUBSET below(m)
    BY <1>1, <2>2
  <2> HIDE DEF below, N
  <2>6. /\ Cardinality(below(x)) <= Cardinality(below(m))
        /\ Cardinality(below(m)) = Cardinality(below(x)) => below(m) = below(x)
    BY <2>5, FS_Subset, Zenon
  <2>7. Cardinality(below(m)) = Cardinality(below(x))
    BY <1>4, <2>4, <2>5, <2>6
  <2>8. QED
    BY <2>3, <2>6, <2>7, Zenon
<1>6. QED
  BY <1>5

\* The order of sequences is strict if the one of what is in them is.
LEMMA LexStrict ==
    ASSUME NEW S, NEW R, StrictOrder(R, S), NEW Q,
           \A a, b \in Seq(S) : <<a, b>> \in Q <=> LexR(a, b, R)
    PROVE  StrictOrder(Q, Seq(S))
<1>1. \A a \in Seq(S) : <<a, a>> \notin Q
  BY LexIrreflexive, Zenon
<1>2. \A a, b, c \in Seq(S) : <<a, b>> \in Q /\ <<b, c>> \in Q => <<a, c>> \in Q
  BY LexTransitive, Zenon
<1>3. QED BY <1>1, <1>2, Zenon DEF StrictOrder

\* The order of places in which decodeJSONValue reads.
LowerSeq == {r \in Seq(Int) \X Seq(Int) : Precedes(r[1], r[2])}

\* Places, and units, are strictly ordered.
LEMMA LowerSeqIs ==
    /\ \A a, b \in Seq(Int) : <<a, b>> \in LowerSeq <=> Precedes(a, b)
    /\ StrictOrder(Lower, Int) /\ StrictOrder(LowerSeq, Seq(Int))
<1>1. \A a, b \in Seq(Int) : <<a, b>> \in LowerSeq <=> Precedes(a, b)
  BY DEF LowerSeq
<1>2. StrictOrder(Lower, Int)
  BY DEF Lower, StrictOrder
<1>3. \A a, b \in Seq(Int) : <<a, b>> \in LowerSeq <=> LexR(a, b, Lower)
  BY <1>1, PrecedesIs, Zenon
<1>4. StrictOrder(LowerSeq, Seq(Int))
  BY <1>2, <1>3, LexStrict, Zenon
<1>5. QED BY <1>1, <1>2, <1>4, Zenon
-----------------------------------------------------------------------------
(* Keys: UTF-16 units against code points.                                 *)

\* Code points in the order RFC 8785 gives them.
Earlier == {r \in Points \X Points : Before(r[1], r[2])}

\* What a Go string decodes to: no surrogates, nothing beyond U+10FFFF.
LEMMA PointsAre ==
    \A x \in Points : x \in Nat /\ (x < 55296 \/ (x >= 57344 /\ x <= 1114111))
BY DEF Points

\* The order of RFC 8785 is strict and total on points, and so on keys.
LEMMA KeyBeforeIs ==
    /\ StrictOrder(Earlier, Points) /\ Total(Earlier, Points)
    /\ \A k, l \in Seq(Points) : KeyBefore(k, l) <=> LexR(k, l, Earlier)
<1>1. \A x, y \in Points : <<x, y>> \in Earlier <=> Before(x, y)
  BY DEF Earlier
<1>2. \A x, y, z \in Points :
        /\ ~Before(x, x)
        /\ (Before(x, y) /\ Before(y, z) => Before(x, z))
        /\ (x = y \/ Before(x, y) \/ Before(y, x))
  <2>1. \A x \in Points : x \in Nat /\ (x < 55296 \/ x >= 57344)
    BY PointsAre
  <2>2. QED
    BY <2>1 DEF Before, Supplementary
<1>3. StrictOrder(Earlier, Points) /\ Total(Earlier, Points)
  BY <1>1, <1>2, Zenon DEF StrictOrder, Total
<1>4. ASSUME NEW k \in Seq(Points), NEW l \in Seq(Points)
      PROVE KeyBefore(k, l) <=> LexR(k, l, Earlier)
  <2>1. \A i \in DOMAIN k : k[i] \in Points
    OBVIOUS
  <2>2. \A i \in DOMAIN l : l[i] \in Points
    OBVIOUS
  <2>3. QED
    BY <1>1, <2>1, <2>2, Zenon DEF KeyBefore, Lexical, LexR
<1>5. QED BY <1>3, <1>4, Zenon

\* The same for two keys, as the ranks need it.
LEMMA KeyOrder ==
    ASSUME NEW k \in Seq(Points), NEW l \in Seq(Points)
    PROVE  /\ ~KeyBefore(k, k)
           /\ ~(KeyBefore(k, l) /\ KeyBefore(l, k))
           /\ k = l \/ KeyBefore(k, l) \/ KeyBefore(l, k)
           /\ \A m \in Seq(Points) : KeyBefore(k, l) /\ KeyBefore(l, m) => KeyBefore(k, m)
<1>1. ~KeyBefore(k, k)
  BY KeyBeforeIs, LexIrreflexive, Zenon
<1>2. \A m \in Seq(Points) : KeyBefore(k, l) /\ KeyBefore(l, m) => KeyBefore(k, m)
  BY KeyBeforeIs, LexTransitive, Zenon
<1>3. k = l \/ KeyBefore(k, l) \/ KeyBefore(l, k)
  BY KeyBeforeIs, LexTotal, Zenon
<1>4. QED BY <1>1, <1>2, <1>3, Zenon

\* The points of a key that take two units, up to some place: finitely many.
LEMMA WidePart ==
    ASSUME NEW key \in Seq(Points), NEW p
    PROVE  /\ IsFiniteSet({q \in Wide(key) : q < p})
           /\ Cardinality({q \in Wide(key) : q < p}) \in Nat
           /\ IsFiniteSet(Wide(key)) /\ Cardinality(Wide(key)) \in Nat
           /\ Wide(key) \subseteq 1..Len(key) /\ Len(key) \in Nat
<1>1. Len(key) \in Nat /\ Len(key) \in Int /\ DOMAIN key = 1..Len(key)
  OBVIOUS
<1>2. Wide(key) \in SUBSET (1..Len(key)) /\ {q \in Wide(key) : q < p} \in SUBSET (1..Len(key))
  BY <1>1 DEF Wide
<1>3. IsFiniteSet(1..Len(key))
  <2>1. 1 \in Int
    OBVIOUS
  <2>2. QED BY <1>1, <2>1, FS_Interval, Zenon
<1> DEFINE below == {q \in Wide(key) : q < p}
<1> HIDE DEF below
<1>4. IsFiniteSet(below) /\ IsFiniteSet(Wide(key))
  BY <1>2, <1>3, FS_Subset, Zenon DEF below
<1>5. Cardinality(below) \in Nat /\ Cardinality(Wide(key)) \in Nat
  BY <1>4, FS_CardinalityType, Zenon
<1>6. QED
  BY <1>1, <1>2, <1>4, <1>5, Zenon DEF below

\* The second unit of a point, if there is one.
Pair(key, p) == IF p \in Wide(key) THEN 1 ELSE 0

\* Each point has its units behind those of the one before (utf16.Encode).
LEMMA UnitStep ==
    ASSUME NEW key \in Seq(Points), NEW p \in Nat
    PROVE  Unit(key, p) \in Nat /\ Unit(key, p + 1) = Unit(key, p) + 1 + Pair(key, p)
<1> DEFINE b(n) == {q \in Wide(key) : q < n}
<1>1. /\ IsFiniteSet(b(p)) /\ Cardinality(b(p)) \in Nat /\ Wide(key) \subseteq 1..Len(key) /\ Len(key) \in Nat
  BY WidePart, Zenon
<1>2. CASE p \in Wide(key)
  <2>1. b(p + 1) = b(p) \cup {p} /\ p \notin b(p)
    BY <1>1, <1>2
  <2> HIDE DEF b
  <2>2. Cardinality(b(p + 1)) = Cardinality(b(p)) + 1
    BY <1>1, <2>1, FS_AddElement, Zenon
  <2>3. QED
    <3>1. Unit(key, p) = p + Cardinality(b(p)) /\ Unit(key, p + 1) = (p + 1) + Cardinality(b(p + 1))
      BY Zenon DEF Unit, b
    <3>2. Pair(key, p) = 1
      BY <1>2 DEF Pair
    <3>3. QED BY <1>1, <2>2, <3>1, <3>2
<1>3. CASE p \notin Wide(key)
  <2>1. b(p + 1) = b(p)
    BY <1>1, <1>3
  <2> HIDE DEF b
  <2>2. Unit(key, p) = p + Cardinality(b(p)) /\ Unit(key, p + 1) = (p + 1) + Cardinality(b(p))
    BY <2>1, Zenon DEF Unit, b
  <2>3. Pair(key, p) = 0
    BY <1>3 DEF Pair
  <2>4. QED BY <1>1, <2>2, <2>3
<1>4. QED BY <1>2, <1>3

\* So later points have later units.
LEMMA UnitGrows ==
    ASSUME NEW key \in Seq(Points), NEW p \in Nat, NEW q \in Nat, p < q
    PROVE  Unit(key, p) + 1 + Pair(key, p) <= Unit(key, q)
<1> DEFINE b(n) == {x \in Wide(key) : x < n}
<1>1. /\ IsFiniteSet(b(p + 1)) /\ IsFiniteSet(b(q)) /\ Cardinality(b(p + 1)) \in Nat /\ Cardinality(b(q)) \in Nat
      /\ Wide(key) \subseteq 1..Len(key) /\ Len(key) \in Nat
  BY WidePart, Zenon
<1>2. b(p + 1) \in SUBSET b(q)
  BY <1>1
<1> HIDE DEF b
<1>3. Cardinality(b(p + 1)) <= Cardinality(b(q))
  BY <1>1, <1>2, FS_Subset, Zenon
<1>4. Unit(key, p + 1) = (p + 1) + Cardinality(b(p + 1)) /\ Unit(key, q) = q + Cardinality(b(q))
  BY Zenon DEF Unit, b
<1>5. Unit(key, p + 1) <= Unit(key, q)
  BY <1>1, <1>3, <1>4
<1>6. QED BY <1>5, UnitStep

\* The first point starts with the first unit, the last one ends with the last.
LEMMA UnitEnds ==
    ASSUME NEW key \in Seq(Points)
    PROVE  /\ Unit(key, 1) = 1
           /\ Unit(key, Len(key) + 1) = Len(key) + Cardinality(Wide(key)) + 1
<1>1. /\ Wide(key) \subseteq 1..Len(key) /\ Len(key) \in Nat /\ Cardinality(Wide(key)) \in Nat
  BY WidePart, Zenon
<1>2. {q \in Wide(key) : q < 1} = {} /\ {q \in Wide(key) : q < Len(key) + 1} = Wide(key)
  BY <1>1
<1>3. Unit(key, 1) = 1 + Cardinality({}) /\ Unit(key, Len(key) + 1) = (Len(key) + 1) + Cardinality(Wide(key))
  BY <1>2, Zenon DEF Unit
<1>4. Cardinality({}) = 0
  BY FS_EmptySet, Zenon
<1>5. QED BY <1>1, <1>3, <1>4

\* Whose unit a unit is.
Of(key, u, p) == u = Unit(key, p) \/ (p \in Wide(key) /\ u = Unit(key, p) + 1)

\* Every unit is of one point: there is a last point that starts no later.
LEMMA UnitOwner ==
    ASSUME NEW key \in Seq(Points), NEW u \in 1..Len(key) + Cardinality(Wide(key))
    PROVE  \E p \in DOMAIN key : Of(key, u, p) /\ \A q \in DOMAIN key : Of(key, u, q) => q = p
<1>1. /\ Wide(key) \subseteq 1..Len(key) /\ Len(key) \in Nat /\ Cardinality(Wide(key)) \in Nat
      /\ DOMAIN key = 1..Len(key)
  <2>1. DOMAIN key = 1..Len(key)
    OBVIOUS
  <2>2. QED BY <2>1, WidePart, Zenon
<1> DEFINE T == {p \in 1..Len(key) + 1 : u < Unit(key, p)}
<1>2. Len(key) + 1 \in T
  BY <1>1, UnitEnds
<1>3. T \subseteq Nat /\ T # {}
  BY <1>1, <1>2
<1> HIDE DEF T
<1>4. PICK n \in T : \A m \in T : n <= m
  BY <1>3, Least, Zenon
<1> USE DEF T
<1>5. n # 1
  BY <1>1, <1>4, UnitEnds
<1> DEFINE p == n - 1
<1>6. p \in DOMAIN key /\ p \in Nat /\ p + 1 = n /\ p \notin T /\ p \in 1..Len(key) + 1
  BY <1>1, <1>4, <1>5
<1>7. Unit(key, p) \in Nat /\ Unit(key, p) <= u /\ u < Unit(key, p + 1)
  <2>1. Unit(key, p) \in Nat /\ u < Unit(key, n) /\ ~(u < Unit(key, p))
    BY <1>4, <1>6, UnitStep, Zenon
  <2>2. u \in Nat
    BY <1>1
  <2>3. QED BY <1>6, <2>1, <2>2
<1> HIDE DEF p, T
<1>8. Unit(key, p + 1) = Unit(key, p) + 1 + Pair(key, p)
  BY <1>6, UnitStep
<1>9. Of(key, u, p)
  BY <1>1, <1>7, <1>8 DEF Of, Pair
<1>10. ASSUME NEW q \in DOMAIN key, Of(key, u, q) PROVE q = p
  <2>1. q \in Nat /\ Unit(key, q) \in Nat /\ Unit(key, q) <= u /\ u < Unit(key, q) + 1 + Pair(key, q)
    <3>1. q \in Nat
      BY <1>1
    <3>2. Unit(key, q) \in Nat
      BY <3>1, UnitStep, Zenon
    <3>3. u = Unit(key, q) \/ (Pair(key, q) = 1 /\ u = Unit(key, q) + 1)
      BY <1>10 DEF Of, Pair
    <3>4. Pair(key, q) \in {0, 1}
      BY DEF Pair
    <3>5. QED BY <3>1, <3>2, <3>3, <3>4
  <2>2. ~(q < p)
    BY <1>6, <1>7, <2>1, UnitGrows DEF Pair
  <2>3. ~(p < q)
    BY <1>6, <1>7, <1>8, <2>1, UnitGrows DEF Pair
  <2>4. QED BY <1>6, <2>1, <2>2, <2>3
<1>11. QED BY <1>6, <1>9, <1>10

\* What a point has for a unit.
UnitOf(key, u, p) ==
    IF p \notin Wide(key) THEN key[p] ELSE IF u = Unit(key, p) THEN High(key[p]) ELSE Low(key[p])

\* Units gives every unit what its point has for it (utf16.Encode, jcs.go:298).
LEMMA UnitsAre ==
    ASSUME NEW key \in Seq(Points)
    PROVE  /\ Units(key) \in Seq(Int) /\ Len(Units(key)) = Len(key) + Cardinality(Wide(key))
           /\ \A p \in DOMAIN key : \A u \in 1..Len(key) + Cardinality(Wide(key)) :
                 Of(key, u, p) => Units(key)[u] = UnitOf(key, u, p)
<1> DEFINE n == Len(key) + Cardinality(Wide(key))
           P(u) == CHOOSE p \in DOMAIN key : Of(key, u, p)
           f == [u \in 1..n |-> UnitOf(key, u, P(u))]
<1>1. Units(key) = f
  BY Zenon DEF Units, UnitOf, Of
<1>2. n \in Nat
  <2>1. Len(key) \in Nat /\ Cardinality(Wide(key)) \in Nat
    BY WidePart, Zenon
  <2>2. QED BY <2>1
<1> HIDE DEF n
<1>3. ASSUME NEW u \in 1..n PROVE P(u) \in DOMAIN key /\ Of(key, u, P(u)) /\ \A q \in DOMAIN key : Of(key, u, q) => q = P(u)
  <2>1. PICK p \in DOMAIN key : Of(key, u, p) /\ \A q \in DOMAIN key : Of(key, u, q) => q = p
    BY UnitOwner, Zenon DEF n
  <2>2. QED BY <2>1, Zenon
<1>4. ASSUME NEW u \in 1..n PROVE UnitOf(key, u, P(u)) \in Int
  <2> DEFINE p == P(u)
  <2>1. p \in DOMAIN key
    BY <1>3, Zenon
  <2> HIDE DEF p
  <2>2. key[p] \in Points
    BY <2>1
  <2>3. key[p] \in Nat
    BY <2>2, PointsAre
  <2>4. UnitOf(key, u, p) \in Int
    BY <2>3 DEF UnitOf, High, Low
  <2>5. QED BY <2>4 DEF p
<1> HIDE DEF P
<1>5. f \in Seq(Int) /\ Len(f) = n /\ \A u \in 1..n : f[u] = UnitOf(key, u, P(u))
  BY <1>2, <1>4
<1>6. ASSUME NEW p \in DOMAIN key, NEW u \in 1..n, Of(key, u, p) PROVE f[u] = UnitOf(key, u, p)
  BY <1>3, <1>5, <1>6, Zenon
<1> HIDE DEF f
<1>7. QED BY <1>1, <1>5, <1>6, Zenon DEF n

\* Keys that agree up to a point agree up to its units.
LEMMA SameUnits ==
    ASSUME NEW k \in Seq(Points), NEW l \in Seq(Points), NEW n \in Nat,
           1 <= n, n <= Len(k) + 1, n <= Len(l) + 1, \A q \in 1..n-1 : k[q] = l[q]
    PROVE  /\ \A m \in 1..n : Unit(k, m) = Unit(l, m)
           /\ Unit(k, n) \in Nat
           /\ Unit(k, n) <= Len(Units(k)) + 1 /\ Unit(k, n) <= Len(Units(l)) + 1
           /\ \A u \in 1..Unit(k, n)-1 : Units(k)[u] = Units(l)[u]
<1>1. /\ Wide(k) \subseteq 1..Len(k) /\ Len(k) \in Nat /\ Cardinality(Wide(k)) \in Nat
      /\ Wide(l) \subseteq 1..Len(l) /\ Len(l) \in Nat /\ Cardinality(Wide(l)) \in Nat
  BY WidePart, Zenon
<1>2. DOMAIN k = 1..Len(k) /\ DOMAIN l = 1..Len(l)
  OBVIOUS
<1>3. \A q \in 1..n-1 : q \in DOMAIN k /\ q \in DOMAIN l /\ (q \in Wide(k) <=> q \in Wide(l))
  BY <1>1, <1>2 DEF Wide
<1>4. ASSUME NEW m \in 1..n PROVE Unit(k, m) = Unit(l, m)
  <2>1. {q \in Wide(k) : q < m} = {q \in Wide(l) : q < m}
    BY <1>1, <1>3
  <2>2. QED BY <2>1, Zenon DEF Unit
<1>5. ASSUME NEW x \in Seq(Points), n <= Len(x) + 1, Len(x) \in Nat, Cardinality(Wide(x)) \in Nat
      PROVE  Unit(x, n) \in Nat /\ Unit(x, n) <= Len(Units(x)) + 1 /\ Len(Units(x)) \in Nat
  <2>1. Unit(x, n) \in Nat /\ Unit(x, Len(x) + 1) = Len(x) + Cardinality(Wide(x)) + 1
    BY UnitStep, UnitEnds, Zenon
  <2>2. Len(Units(x)) = Len(x) + Cardinality(Wide(x))
    BY UnitsAre, Zenon
  <2>3. CASE n = Len(x) + 1
    BY <1>5, <2>1, <2>2, <2>3
  <2>4. CASE n < Len(x) + 1
    <3>1. Len(x) + 1 \in Nat /\ Pair(x, n) \in {0, 1}
      BY <1>5 DEF Pair
    <3>2. Unit(x, n) + 1 + Pair(x, n) <= Unit(x, Len(x) + 1)
      BY <2>4, <3>1, UnitGrows, Zenon
    <3>3. QED BY <1>5, <2>1, <2>2, <3>1, <3>2
  <2>5. QED BY <1>5, <2>3, <2>4
<1>6. ASSUME NEW u \in 1..Unit(k, n)-1 PROVE Units(k)[u] = Units(l)[u]
  <2>1. Unit(k, n) = Unit(l, n)
    <3>1. n \in 1..n
      OBVIOUS
    <3>2. QED BY <1>4, <3>1, Zenon
  <2>2. u \in 1..Len(Units(k)) /\ u \in 1..Len(Units(l)) /\ u \in Nat /\ u < Unit(k, n)
    BY <1>1, <1>5, <2>1
  <2>3. Len(Units(k)) = Len(k) + Cardinality(Wide(k)) /\ Len(Units(l)) = Len(l) + Cardinality(Wide(l))
    BY UnitsAre, Zenon
  <2>4. PICK p \in DOMAIN k : Of(k, u, p)
    BY <2>2, <2>3, UnitOwner, Zenon
  <2>5. p \in 1..n-1
    <3>1. p \in Nat /\ p >= 1
      BY <1>2
    <3>2. Unit(k, p) \in Nat /\ Unit(k, p) <= u /\ Unit(k, n) \in Nat
      <4>1. Unit(k, p) \in Nat /\ Unit(k, n) \in Nat
        BY <3>1, UnitStep, Zenon
      <4>2. u = Unit(k, p) \/ u = Unit(k, p) + 1
        BY <2>4 DEF Of
      <4>3. QED BY <4>1, <4>2
    <3>3. ~(p >= n)
      <4>1. ~(p = n)
        BY <2>2, <3>2
      <4>2. ~(n < p)
        <5>1. Pair(k, n) \in {0, 1}
          BY DEF Pair
        <5>2. n < p => Unit(k, n) + 1 + Pair(k, n) <= Unit(k, p)
          BY <3>1, UnitGrows, Zenon
        <5>3. QED BY <2>2, <3>2, <5>1, <5>2
      <4>3. QED BY <3>1, <4>1, <4>2
    <3>4. QED BY <3>1, <3>3
  <2>6. p \in 1..n /\ p \in DOMAIN l /\ k[p] = l[p]
    BY <1>2, <1>3, <2>5
  <2>7. Unit(k, p) = Unit(l, p)
    BY <1>4, <2>6, Zenon
  <2>8. p \in Wide(k) <=> p \in Wide(l)
    BY <1>3, <2>5, Zenon
  <2>9. Of(l, u, p) /\ UnitOf(k, u, p) = UnitOf(l, u, p)
    BY <2>4, <2>6, <2>7, <2>8 DEF Of, UnitOf
  <2>10. QED
    BY <2>2, <2>3, <2>4, <2>6, <2>9, UnitsAre, Zenon
<1>7. Unit(k, n) = Unit(l, n)
  <2>1. n \in 1..n
    OBVIOUS
  <2>2. QED BY <1>4, <2>1, Zenon
<1>8. QED BY <1>1, <1>4, <1>5, <1>6, <1>7, Zenon

\* What a point begins with.
FirstUnit(x) == IF Supplementary(x) THEN High(x) ELSE x

\* A point's first unit, and its second one, are where Unit says.
LEMMA PointUnits ==
    ASSUME NEW k \in Seq(Points), NEW p \in DOMAIN k
    PROVE  /\ Unit(k, p) \in 1..Len(Units(k)) /\ Unit(k, p) \in Nat /\ p \in Nat /\ p >= 1 /\ p <= Len(k)
           /\ Units(k)[Unit(k, p)] = FirstUnit(k[p])
           /\ Supplementary(k[p]) => /\ Unit(k, p) + 1 \in 1..Len(Units(k))
                              /\ Units(k)[Unit(k, p) + 1] = Low(k[p])
<1>1. p \in Nat /\ p >= 1 /\ p <= Len(k) /\ Len(k) \in Nat /\ p + 1 \in Nat
  OBVIOUS
<1>2. p \in Wide(k) <=> Supplementary(k[p])
  BY DEF Wide
<1>3. Unit(k, p) \in Nat /\ Unit(k, p + 1) \in Nat /\ Unit(k, p + 1) = Unit(k, p) + 1 + Pair(k, p)
  BY <1>1, UnitStep, Zenon
<1>4. Cardinality(Wide(k)) \in Nat /\ Len(Units(k)) = Len(k) + Cardinality(Wide(k))
  BY WidePart, UnitsAre, Zenon
<1>5. Unit(k, p) >= 1
  <2>1. Unit(k, 1) = 1 /\ Pair(k, 1) \in {0, 1} /\ 1 \in Nat
    BY UnitEnds DEF Pair
  <2>2. 1 < p => Unit(k, 1) + 1 + Pair(k, 1) <= Unit(k, p)
    BY <1>1, <2>1, UnitGrows, Zenon
  <2>3. QED BY <1>1, <1>3, <2>1, <2>2
<1>6. Unit(k, p + 1) <= Len(Units(k)) + 1
  <2>1. Unit(k, Len(k) + 1) = Len(k) + Cardinality(Wide(k)) + 1 /\ Len(k) + 1 \in Nat /\ Pair(k, p + 1) \in {0, 1}
    BY <1>1, UnitEnds DEF Pair
  <2>2. p + 1 < Len(k) + 1 => Unit(k, p + 1) + 1 + Pair(k, p + 1) <= Unit(k, Len(k) + 1)
    BY <1>1, <2>1, UnitGrows, Zenon
  <2>3. QED BY <1>1, <1>3, <1>4, <2>1, <2>2
<1>7. /\ Unit(k, p) \in 1..Len(Units(k))
      /\ Supplementary(k[p]) => Unit(k, p) + 1 \in 1..Len(Units(k))
  BY <1>2, <1>3, <1>4, <1>5, <1>6 DEF Pair
<1>8. Of(k, Unit(k, p), p) /\ (Supplementary(k[p]) => Of(k, Unit(k, p) + 1, p))
  BY <1>2 DEF Of
<1>9. \A u \in 1..Len(Units(k)) : Of(k, u, p) => Units(k)[u] = UnitOf(k, u, p)
  BY <1>4, UnitsAre, Zenon
<1>10. Unit(k, p) + 1 # Unit(k, p)
  BY <1>3
<1>11. QED
  BY <1>1, <1>2, <1>3, <1>7, <1>8, <1>9, <1>10 DEF UnitOf, FirstUnit

\* How one sequence of numbers is shown to come before another.
LEMMA PrecedesWhen ==
    ASSUME NEW a \in Seq(Int), NEW b \in Seq(Int)
    PROVE  /\ Len(a) < Len(b) /\ (\A i \in 1..Len(a) : a[i] = b[i]) => Precedes(a, b)
           /\ \A i \in Nat : i \in 1..Len(a) /\ i \in 1..Len(b) /\ a[i] < b[i] /\ (\A j \in 1..i-1 : a[j] = b[j])
                   => Precedes(a, b)
<1>1. DOMAIN a = 1..Len(a) /\ DOMAIN b = 1..Len(b)
  OBVIOUS
<1>2. QED BY <1>1, Zenon DEF Precedes, Lexical

\* Of two points, RFC 8785 puts the one first whose first unit is less, or, if they
\* share the high surrogate, whose low surrogate is.
LEMMA BeforeUnits ==
    ASSUME NEW x \in Points, NEW y \in Points, Before(x, y)
    PROVE  \/ FirstUnit(x) < FirstUnit(y)
           \/ /\ Supplementary(x) /\ Supplementary(y)
              /\ FirstUnit(x) = FirstUnit(y) /\ Low(x) < Low(y)
<1>1. /\ x \in Nat /\ (x < 55296 \/ (x >= 57344 /\ x <= 1114111))
      /\ y \in Nat /\ (y < 55296 \/ (y >= 57344 /\ y <= 1114111))
  BY PointsAre
<1>2. CASE Supplementary(x) /\ Supplementary(y)
  BY <1>1, <1>2 DEF Supplementary, FirstUnit, Before, High, Low
<1>3. CASE ~Supplementary(x) /\ ~Supplementary(y)
  BY <1>1, <1>3 DEF FirstUnit, Before
<1>4. CASE ~Supplementary(x) /\ Supplementary(y)
  BY <1>1, <1>4 DEF Supplementary, FirstUnit, Before, High
<1>5. CASE Supplementary(x) /\ ~Supplementary(y)
  BY <1>1, <1>5 DEF Supplementary, FirstUnit, Before, High
<1>6. QED BY <1>2, <1>3, <1>4, <1>5, Zenon

\* Where two keys differ first, their units do: lessUTF16 agrees with RFC 8785.
LEMMA KeyBeforeLess ==
    ASSUME NEW k \in Seq(Points), NEW l \in Seq(Points), KeyBefore(k, l)
    PROVE  LessUTF16(k, l)
<1>1. /\ DOMAIN k = 1..Len(k) /\ DOMAIN l = 1..Len(l) /\ Len(k) \in Nat /\ Len(l) \in Nat
      /\ \A i \in DOMAIN k : k[i] \in Points
      /\ \A i \in DOMAIN l : l[i] \in Points
  OBVIOUS
<1>2. Units(k) \in Seq(Int) /\ Units(l) \in Seq(Int)
  BY UnitsAre, Zenon
<1>3. CASE Len(k) < Len(l) /\ \A i \in DOMAIN k : k[i] = l[i]
  <2> DEFINE n == Len(k) + 1
  <2>1. n \in Nat /\ 1 <= n /\ n <= Len(k) + 1 /\ n <= Len(l) + 1 /\ n \in DOMAIN l /\ n \in 1..n
        /\ \A q \in 1..n-1 : k[q] = l[q]
    BY <1>1, <1>3
  <2>2. Unit(k, n) = Len(Units(k)) + 1
    BY UnitsAre, UnitEnds, Zenon
  <2> HIDE DEF n
  <2>3. /\ Unit(k, n) = Unit(l, n)
        /\ \A u \in 1..Unit(k, n)-1 : Units(k)[u] = Units(l)[u]
    BY <2>1, SameUnits, Zenon
  <2>4. Unit(l, n) \in 1..Len(Units(l))
    BY <2>1, PointUnits, Zenon
  <2>5. Len(Units(k)) \in Nat /\ Len(Units(l)) \in Nat
    BY <1>2
  <2>6. Len(Units(k)) < Len(Units(l)) /\ \A u \in 1..Len(Units(k)) : Units(k)[u] = Units(l)[u]
    BY <2>2, <2>3, <2>4, <2>5
  <2>7. QED
    BY <1>2, <2>6, PrecedesWhen, Zenon DEF LessUTF16
<1>4. ASSUME NEW p \in DOMAIN k \cap DOMAIN l, Before(k[p], l[p]), \A q \in 1..p-1 : k[q] = l[q]
      PROVE  LessUTF16(k, l)
  <2> DEFINE u == Unit(k, p)
             a == Units(k)
             b == Units(l)
             x == k[p]
             y == l[p]
  <2>1. p \in Nat /\ 1 <= p /\ p <= Len(k) + 1 /\ p <= Len(l) + 1 /\ p \in 1..p /\ p \in DOMAIN k /\ p \in DOMAIN l
        /\ x \in Points /\ y \in Points
    BY <1>1
  <2>2. /\ u = Unit(l, p) /\ u \in Nat
        /\ \A v \in 1..u-1 : a[v] = b[v]
    BY <1>4, <2>1, SameUnits, Zenon
  <2>3. /\ u \in 1..Len(a) /\ a[u] = FirstUnit(x)
        /\ Supplementary(x) => u + 1 \in 1..Len(a) /\ a[u + 1] = Low(x)
    BY <2>1, PointUnits, Zenon
  <2>4. /\ u \in 1..Len(b) /\ b[u] = FirstUnit(y)
        /\ Supplementary(y) => u + 1 \in 1..Len(b) /\ b[u + 1] = Low(y)
    BY <2>1, <2>2, PointUnits, Zenon
  <2>5. a \in Seq(Int) /\ b \in Seq(Int) /\ Before(x, y)
    BY <1>2, <1>4
  <2> HIDE DEF a, b, x, y, u
  <2>6. FirstUnit(x) < FirstUnit(y) \/ (Supplementary(x) /\ Supplementary(y) /\ FirstUnit(x) = FirstUnit(y) /\ Low(x) < Low(y))
    BY <2>1, <2>5, BeforeUnits, Zenon
  <2>8. a[u] < b[u] \/ (Supplementary(x) /\ Supplementary(y) /\ a[u] = b[u] /\ a[u + 1] < b[u + 1])
    BY <2>3, <2>4, <2>6, Zenon
  <2>9. CASE a[u] < b[u]
    <3>1. Precedes(a, b)
      BY <2>2, <2>3, <2>4, <2>5, <2>9, PrecedesWhen, Zenon
    <3>2. QED BY <3>1, Zenon DEF LessUTF16, a, b
  <2>10. CASE Supplementary(x) /\ Supplementary(y) /\ a[u] = b[u] /\ a[u + 1] < b[u + 1]
    <3>1. u + 1 \in Nat /\ \A v \in 1..(u + 1)-1 : v \in 1..u-1 \/ v = u
      BY <2>2
    <3>2. \A v \in 1..(u + 1)-1 : a[v] = b[v]
      BY <2>2, <2>10, <3>1, Zenon
    <3>3. Precedes(a, b)
      BY <2>3, <2>4, <2>5, <2>10, <3>1, <3>2, PrecedesWhen, Zenon
    <3>4. QED BY <3>3, Zenon DEF LessUTF16, a, b
  <2>11. QED BY <2>8, <2>9, <2>10
<1>5. QED BY <1>3, <1>4, Zenon DEF KeyBefore, Lexical

\* sortJCSKeys sorts by UTF-16 units what RFC 8785 orders by code points with the
\* supplementary planes moved before U+E000: it is one order, for any two keys
\* (lessUTF16, jcs.go:297).
THEOREM LessIsBefore ==
    ASSUME NEW k \in Seq(Points), NEW l \in Seq(Points)
    PROVE  LessUTF16(k, l) <=> KeyBefore(k, l)
<1> DEFINE a == Units(k)
           b == Units(l)
<1>1. a \in Seq(Int) /\ b \in Seq(Int)
  BY UnitsAre, Zenon
<1>2. LessUTF16(k, l) <=> Precedes(a, b)
  BY DEF LessUTF16
<1>3. LessUTF16(l, k) <=> Precedes(b, a)
  BY DEF LessUTF16
<1>4. k = l => a = b
  OBVIOUS
<1> HIDE DEF a, b
<1>5. ~Precedes(a, a) /\ ~(Precedes(a, b) /\ Precedes(b, a))
  BY <1>1, LowerSeqIs, Zenon DEF StrictOrder
<1>6. QED BY <1>2, <1>3, <1>4, <1>5, KeyBeforeLess, KeyOrder, Zenon
-----------------------------------------------------------------------------
(* Places of a document.                                                   *)

\* The part of a sequence from one place to another, perhaps nothing.
LEMMA Part ==
    ASSUME NEW S, NEW s \in Seq(S), NEW m \in Int, NEW n \in Int,
           m >= 1, n <= Len(s), (n - m) + 1 >= 0
    PROVE  /\ SubSeq(s, m, n) \in Seq(S) /\ Len(SubSeq(s, m, n)) = (n - m) + 1
           /\ \A k \in 1..Len(SubSeq(s, m, n)) : SubSeq(s, m, n)[k] = s[(m + k) - 1]
<1>1. \A k \in m..n : s[k] \in S
    OBVIOUS
<1>2. /\ SubSeq(s, m, n) \in Seq(S)
      /\ Len(SubSeq(s, m, n)) = IF m <= n THEN n - m + 1 ELSE 0
      /\ \A k \in 1..(n - m + 1) : SubSeq(s, m, n)[k] = s[m + k - 1]
    BY <1>1, SubSeqProperties
<1> DEFINE t == SubSeq(s, m, n)
<1> HIDE DEF t
<1>3. /\ t \in Seq(S) /\ Len(t) = IF m <= n THEN n - m + 1 ELSE 0
      /\ \A k \in 1..(n - m + 1) : t[k] = s[m + k - 1]
    BY <1>2, Zenon DEF t
<1>4. /\ t \in Seq(S) /\ Len(t) = (n - m) + 1
      /\ \A k \in 1..Len(t) : t[k] = s[(m + k) - 1]
    BY <1>3
<1>5. QED
    BY <1>4, Zenon DEF t

\* The first steps of a way.
LEMMA WayIs ==
    ASSUME NEW p \in Seq(Nat), NEW k \in 0..Len(p)
    PROVE  /\ Way(p, k) \in Seq(Nat) /\ Len(Way(p, k)) = k
           /\ \A i \in 1..k : Way(p, k)[i] = p[i]
           /\ k = Len(p) => Way(p, k) = p
<1>1. Len(p) \in Nat /\ k \in Int /\ 1 \in Int /\ 1 >= 1 /\ k <= Len(p) /\ (k - 1) + 1 >= 0 /\ (k - 1) + 1 = k
  OBVIOUS
<1> DEFINE w == SubSeq(p, 1, k)
<1>2. w \in Seq(Nat) /\ Len(w) = (k - 1) + 1 /\ \A i \in 1..Len(w) : w[i] = p[(1 + i) - 1]
  BY <1>1, Part
<1>3. Way(p, k) = w
  BY DEF Way
<1> HIDE DEF w
<1>4. w \in Seq(Nat) /\ Len(w) = k /\ \A i \in 1..k : w[i] = p[i]
  BY <1>1, <1>2
<1>5. k = Len(p) => w = p
  BY <1>4, SeqEqual
<1>6. QED BY <1>3, <1>4, <1>5, Zenon

\* The first steps of the first steps.
LEMMA WayWay ==
    ASSUME NEW p \in Seq(Nat), NEW k \in 0..Len(p), NEW j \in 0..k
    PROVE  Way(Way(p, k), j) = Way(p, j)
<1> DEFINE w == Way(p, k)
<1>1. w \in Seq(Nat) /\ Len(w) = k /\ \A i \in 1..k : w[i] = p[i]
  BY WayIs, Zenon
<1> HIDE DEF w
<1>2. j \in 0..Len(w) /\ j \in 0..Len(p)
  BY <1>1
<1>3. /\ Way(w, j) \in Seq(Nat) /\ Len(Way(w, j)) = j /\ \A i \in 1..j : Way(w, j)[i] = w[i]
      /\ Way(p, j) \in Seq(Nat) /\ Len(Way(p, j)) = j /\ \A i \in 1..j : Way(p, j)[i] = p[i]
  BY <1>1, <1>2, WayIs, Zenon
<1>4. \A i \in 1..j : Way(w, j)[i] = Way(p, j)[i]
  <2>1. \A i \in 1..j : i \in 1..k
    OBVIOUS
  <2>2. QED BY <1>1, <1>3, <2>1, Zenon
<1>5. Way(w, j) = Way(p, j)
  BY <1>3, <1>4, SeqEqual, Zenon
<1>6. QED BY <1>5 DEF w

\* Two places are parts of one whole if the ways to them part at the last step.
LEMMA SiblingsAre ==
    ASSUME NEW p \in Seq(Nat), NEW q \in Seq(Nat)
    PROVE  Siblings(p, q) <=> /\ Len(p) # 0 /\ Len(q) = Len(p)
                              /\ Way(p, Len(p) - 1) = Way(q, Len(p) - 1)
<1>1. Len(p) \in Nat /\ Len(q) \in Nat /\ (p # <<>> <=> Len(p) # 0)
  OBVIOUS
<1>2. CASE Len(p) # 0 /\ Len(q) = Len(p)
  <2> DEFINE n == Len(p) - 1
  <2>1. n \in 0..Len(p) /\ n \in 0..Len(q)
    BY <1>1, <1>2
  <2>2. /\ Way(p, n) \in Seq(Nat) /\ Len(Way(p, n)) = n /\ \A i \in 1..n : Way(p, n)[i] = p[i]
        /\ Way(q, n) \in Seq(Nat) /\ Len(Way(q, n)) = n /\ \A i \in 1..n : Way(q, n)[i] = q[i]
    <3> HIDE DEF n
    <3> QED BY <2>1, WayIs, Zenon
  <2>3. (\A i \in 1..n : p[i] = q[i]) <=> Way(p, n) = Way(q, n)
    <3> HIDE DEF n
    <3>1. (\A i \in 1..n : p[i] = q[i]) <=> (\A i \in 1..n : Way(p, n)[i] = Way(q, n)[i])
      BY <2>2, Zenon
    <3>2. (\A i \in 1..n : Way(p, n)[i] = Way(q, n)[i]) => Way(p, n) = Way(q, n)
      BY <2>2, SeqEqual, Zenon
    <3>3. QED BY <3>1, <3>2, Zenon
  <2>4. QED BY <1>1, <1>2, <2>3, Zenon DEF Siblings
<1>3. CASE ~(Len(p) # 0 /\ Len(q) = Len(p))
  BY <1>1, <1>3, Zenon DEF Siblings
<1>4. QED BY <1>2, <1>3

\* What a document has at a place, and on the way to it (decodeJSONValue).
LEMMA DocumentIs ==
    ASSUME NEW d, IsDocument(d), NEW p \in DOMAIN d
    PROVE  /\ p \in Seq(Nat) /\ Len(p) \in Nat /\ DOMAIN p = 1..Len(p)
           /\ \A k \in 0..Len(p) : Way(p, k) \in DOMAIN d
           /\ \A k \in 1..Len(p) : IsMember(d, Way(p, k)) <=> d[Way(p, k - 1)].value = "object"
           /\ IsMember(d, p) => d[p].key \in Seq(Points)
           /\ Len(p) = 0 => ~IsMember(d, p) /\ p = <<>>
           /\ d[p] = [value |-> d[p].value, key |-> d[p].key]
<1>1. /\ p \in Seq(Nat) /\ <<>> \in DOMAIN d /\ ~IsMember(d, <<>>)
      /\ \A k \in 1..Len(p) :
            /\ Way(p, k - 1) \in DOMAIN d
            /\ IsMember(d, Way(p, k)) <=> d[Way(p, k - 1)].value = "object"
      /\ d[p].key \in Seq(Points) \/ d[p].key = NoKey
      /\ d[p] = [value |-> d[p].value, key |-> d[p].key]
  BY Zenon DEF IsDocument
<1>2. Len(p) \in Nat /\ DOMAIN p = 1..Len(p)
  BY <1>1
<1>3. ASSUME NEW k \in 0..Len(p) PROVE Way(p, k) \in DOMAIN d
  <2>1. CASE k = Len(p)
    BY <1>1, <2>1, WayIs, Zenon
  <2>2. CASE k # Len(p)
    <3>1. k + 1 \in 1..Len(p) /\ (k + 1) - 1 = k
      BY <1>2, <2>2
    <3>2. Way(p, (k + 1) - 1) \in DOMAIN d
      BY <1>1, <3>1, Zenon
    <3>3. QED BY <3>1, <3>2
  <2>3. QED BY <2>1, <2>2
<1>4. Len(p) = 0 => p = <<>>
  BY <1>1
<1>5. QED BY <1>1, <1>2, <1>3, <1>4, Zenon DEF IsMember

\* The place a value is in.
Outer(p) == Way(p, Len(p) - 1)

\* A value is in an array or an object, and is a member if it is an object.
LEMMA OuterIs ==
    ASSUME NEW d, IsDocument(d), NEW p \in DOMAIN d, Len(p) # 0
    PROVE  /\ Outer(p) \in DOMAIN d /\ Len(Outer(p)) = Len(p) - 1
           /\ IsMember(d, p) <=> d[Outer(p)].value = "object"
<1>1. p \in Seq(Nat) /\ Len(p) \in Nat
  BY DocumentIs, Zenon
<1>2. Len(p) - 1 \in 0..Len(p) /\ Len(p) \in 1..Len(p) /\ Len(p) \in 0..Len(p)
  BY <1>1
<1>3. Way(p, Len(p)) = p /\ Len(Way(p, Len(p) - 1)) = Len(p) - 1
  BY <1>1, <1>2, WayIs, Zenon
<1>4. \A k \in 0..Len(p) : Way(p, k) \in DOMAIN d
  BY DocumentIs, Zenon
<1>5. IsMember(d, Way(p, Len(p))) <=> d[Way(p, Len(p) - 1)].value = "object"
  BY <1>2, DocumentIs
<1>6. QED BY <1>2, <1>3, <1>4, <1>5, Zenon DEF Outer

\* Parts of one whole are all members or all items, go by their last step, and have
\* the same keys beside them.
LEMMA SiblingsInDocument ==
    ASSUME NEW d, IsDocument(d), NEW p \in DOMAIN d, NEW q \in DOMAIN d
    PROVE  /\ Siblings(p, q) <=> Len(p) # 0 /\ Len(q) = Len(p) /\ Outer(p) = Outer(q)
           /\ Siblings(p, q) => /\ Siblings(q, p) /\ (IsMember(d, p) <=> IsMember(d, q))
                                /\ (p = q <=> At(p) = At(q)) /\ At(p) \in Nat /\ At(q) \in Nat
                                /\ KeysBeside(d, p) = KeysBeside(d, q)
           /\ Len(p) # 0 => Siblings(p, p)
<1>1. \A r \in DOMAIN d : r \in Seq(Nat) /\ Len(r) \in Nat /\ DOMAIN r = 1..Len(r)
  BY DocumentIs, Zenon
<1>2. \A r, s \in DOMAIN d : Siblings(r, s) <=> Len(r) # 0 /\ Len(s) = Len(r) /\ Outer(r) = Outer(s)
  <2> SUFFICES ASSUME NEW r \in DOMAIN d, NEW s \in DOMAIN d
               PROVE Siblings(r, s) <=> Len(r) # 0 /\ Len(s) = Len(r) /\ Outer(r) = Outer(s)
    OBVIOUS
  <2>1. Siblings(r, s) <=> Len(r) # 0 /\ Len(s) = Len(r) /\ Way(r, Len(r) - 1) = Way(s, Len(r) - 1)
    BY <1>1, SiblingsAre, Zenon
  <2>2. QED BY <2>1, Zenon DEF Outer
<1>3. ASSUME Siblings(p, q)
      PROVE  /\ Siblings(q, p) /\ (IsMember(d, p) <=> IsMember(d, q))
             /\ (p = q <=> At(p) = At(q)) /\ At(p) \in Nat /\ At(q) \in Nat
             /\ KeysBeside(d, p) = KeysBeside(d, q)
  <2>1. Len(p) # 0 /\ Len(q) = Len(p) /\ Outer(p) = Outer(q)
    BY <1>2, <1>3, Zenon
  <2>2. Siblings(q, p) /\ \A r \in DOMAIN d : Siblings(p, r) <=> Siblings(q, r)
    BY <1>2, <2>1, Zenon
  <2>3. IsMember(d, p) <=> IsMember(d, q)
    BY <2>1, OuterIs, Zenon
  <2>4. At(p) \in Nat /\ At(q) \in Nat /\ (At(p) = At(q) => p = q)
    <3>1. Len(p) \in 1..Len(p)
      BY <1>1, <2>1
    <3>2. p[Len(p)] \in Nat /\ q[Len(q)] \in Nat
      BY <1>1, <2>1, <3>1
    <3>3. \A i \in 1..Len(p) : i = Len(p) \/ i \in 1..Len(p)-1
      BY <1>1
    <3>4. ASSUME p[Len(p)] = q[Len(p)] PROVE p = q
      <4>1. \A i \in 1..Len(p) : p[i] = q[i]
        BY <1>3, <3>3, <3>4, Zenon DEF Siblings
      <4>2. QED BY <1>1, <2>1, <4>1, SeqEqual, Zenon
    <3>5. QED BY <2>1, <3>2, <3>4 DEF At
  <2>5. KeysBeside(d, p) = KeysBeside(d, q)
    BY <2>2 DEF KeysBeside
  <2>6. QED BY <2>2, <2>3, <2>4, <2>5, Zenon
<1>4. QED BY <1>2, <1>3, Zenon

\* The keys of an object: finitely many sequences of points, and the member's own.
LEMMA KeysAre ==
    ASSUME NEW d, IsDocument(d), NEW p \in DOMAIN d, IsMember(d, p)
    PROVE  /\ IsFiniteSet(KeysBeside(d, p)) /\ KeysBeside(d, p) \subseteq Seq(Points)
           /\ \A q \in DOMAIN d : Siblings(p, q) => d[q].key \in KeysBeside(d, p)
           /\ d[p].key \in KeysBeside(d, p) /\ Len(p) # 0
<1> DEFINE S == {q \in DOMAIN d : Siblings(p, q)}
           K == KeysBeside(d, p)
           f == [q \in S |-> d[q].key]
<1>1. K = {d[q].key : q \in S}
  BY DEF KeysBeside
<1>2. Len(p) # 0 /\ Siblings(p, p)
  BY DocumentIs, SiblingsInDocument, Zenon
<1>3. IsFiniteSet(S)
  <2>1. IsFiniteSet(DOMAIN d) /\ S \in SUBSET DOMAIN d
    BY DEF IsDocument
  <2>2. QED BY <2>1, FS_Subset, Zenon
<1>4. f \in Surjection(S, K)
  BY <1>1 DEF Surjection
<1> HIDE DEF f
<1>5. IsFiniteSet(K)
  BY <1>3, <1>4, FS_Surjection, Zenon
<1>6. K \subseteq Seq(Points)
  <2>1. \A q \in S : d[q].key \in Seq(Points)
    BY DocumentIs, SiblingsInDocument, Zenon
  <2>2. QED BY <1>1, <2>1
<1>7. QED BY <1>1, <1>2, <1>5, <1>6
-----------------------------------------------------------------------------
(* Seats: where the canonical form writes a value (sortJCSKeys, jcs.go:290).*)

\* The keys beside a member that are written before it.
Lesser(d, p) == {key \in KeysBeside(d, p) : LessUTF16(key, d[p].key)}

\* A member's rank counts them.
LEMMA RankIs ==
    ASSUME NEW d, IsDocument(d), NEW p \in DOMAIN d, IsMember(d, p)
    PROVE  /\ IsFiniteSet(Lesser(d, p)) /\ Cardinality(Lesser(d, p)) \in Nat
           /\ Rank(d, p) = 1 + Cardinality(Lesser(d, p)) /\ Rank(d, p) \in Nat
<1>1. IsFiniteSet(KeysBeside(d, p)) /\ Lesser(d, p) \in SUBSET KeysBeside(d, p)
  BY KeysAre DEF Lesser
<1>2. IsFiniteSet(Lesser(d, p)) /\ Cardinality(Lesser(d, p)) \in Nat
  BY <1>1, FS_Subset, FS_CardinalityType, Zenon
<1>3. Rank(d, p) = 1 + Cardinality(Lesser(d, p))
  BY Zenon DEF Rank, Lesser
<1>4. QED BY <1>2, <1>3

\* Ranks are in the order of the keys: a lesser key has fewer before it, and they
\* are before the greater one too.
LEMMA RankOrder ==
    ASSUME NEW d, IsDocument(d), NEW p \in DOMAIN d, NEW q \in DOMAIN d,
           Siblings(p, q), IsMember(d, p)
    PROVE  /\ KeyBefore(d[p].key, d[q].key) => Rank(d, p) < Rank(d, q)
           /\ KeyBefore(d[q].key, d[p].key) => Rank(d, q) < Rank(d, p)
           /\ d[p].key = d[q].key => Rank(d, p) = Rank(d, q)
<1>1. /\ Siblings(q, p) /\ IsMember(d, q) /\ KeysBeside(d, p) = KeysBeside(d, q)
  BY SiblingsInDocument, Zenon
<1>2. ASSUME NEW r \in DOMAIN d, NEW s \in DOMAIN d, Siblings(r, s), IsMember(d, r), IsMember(d, s),
             KeysBeside(d, r) = KeysBeside(d, s), KeyBefore(d[r].key, d[s].key)
      PROVE  Rank(d, r) < Rank(d, s)
  <2>1. /\ d[r].key \in KeysBeside(d, r) /\ KeysBeside(d, r) \subseteq Seq(Points)
        /\ d[r].key \in Seq(Points) /\ d[s].key \in Seq(Points)
    BY <1>2, KeysAre, DocumentIs, Zenon
  <2>2. \A key \in KeysBeside(d, r) : /\ LessUTF16(key, d[r].key) <=> KeyBefore(key, d[r].key)
                                      /\ LessUTF16(key, d[s].key) <=> KeyBefore(key, d[s].key)
    BY <2>1, LessIsBefore
  <2>3. Lesser(d, r) \in SUBSET Lesser(d, s)
    <3>1. \A key \in KeysBeside(d, r) : KeyBefore(key, d[r].key) => KeyBefore(key, d[s].key)
      BY <1>2, <2>1, KeyOrder
    <3>2. QED BY <1>2, <2>2, <3>1 DEF Lesser
  <2>4. d[r].key \in Lesser(d, s) /\ d[r].key \notin Lesser(d, r)
    <3>1. ~KeyBefore(d[r].key, d[r].key)
      BY <2>1, KeyOrder, Zenon
    <3>2. QED BY <1>2, <2>1, <2>2, <3>1 DEF Lesser
  <2>5. /\ IsFiniteSet(Lesser(d, s)) /\ Cardinality(Lesser(d, s)) \in Nat /\ Rank(d, s) = 1 + Cardinality(Lesser(d, s))
        /\ Cardinality(Lesser(d, r)) \in Nat /\ Rank(d, r) = 1 + Cardinality(Lesser(d, r))
    BY <1>2, RankIs, Zenon
  <2>6. /\ Cardinality(Lesser(d, r)) <= Cardinality(Lesser(d, s))
        /\ Cardinality(Lesser(d, s)) # Cardinality(Lesser(d, r))
    <3>1. Lesser(d, s) # Lesser(d, r)
      BY <2>4, Zenon
    <3>2. QED BY <2>3, <2>5, <3>1, FS_Subset, Zenon
  <2>7. QED BY <2>5, <2>6
<1>3. d[p].key = d[q].key => Rank(d, p) = Rank(d, q)
  BY <1>1 DEF Rank
<1>4. QED BY <1>1, <1>2, <1>3, Zenon

\* A value's own step of the way to it in the canonical form.
Step(d, p) == IF IsMember(d, p) THEN Rank(d, p) ELSE At(p)

\* A seat is as long as the place, and each step is the rank of a member or an
\* item's own number.
LEMMA SeatIs ==
    ASSUME NEW d, IsDocument(d), NEW p \in DOMAIN d
    PROVE  /\ Seat(d, p) \in Seq(Nat) /\ Len(Seat(d, p)) = Len(p)
           /\ \A k \in 1..Len(p) : Seat(d, p)[k] = Step(d, Way(p, k))
<1>1. p \in Seq(Nat) /\ Len(p) \in Nat
  BY DocumentIs, Zenon
<1>2. ASSUME NEW k \in 1..Len(p)
      PROVE  /\ Step(d, Way(p, k)) = IF IsMember(d, Way(p, k)) THEN Rank(d, Way(p, k)) ELSE p[k]
             /\ Step(d, Way(p, k)) \in Nat
  <2>1. k \in 0..Len(p) /\ k \in 1..k
    BY <1>1
  <2>a. Len(Way(p, k)) = k /\ \A i \in 1..k : Way(p, k)[i] = p[i]
    BY <1>1, <2>1, WayIs, Zenon
  <2>b. \A i \in 0..Len(p) : Way(p, i) \in DOMAIN d
    BY DocumentIs, Zenon
  <2>2. Len(Way(p, k)) = k /\ Way(p, k)[k] = p[k] /\ Way(p, k) \in DOMAIN d
    BY <2>1, <2>a, <2>b, Zenon
  <2>3. p[k] \in Nat /\ At(Way(p, k)) = p[k]
    BY <1>1, <2>2 DEF At
  <2>4. IsMember(d, Way(p, k)) => Rank(d, Way(p, k)) \in Nat
    BY <2>2, RankIs, Zenon
  <2>5. QED BY <2>3, <2>4, Zenon DEF Step
<1> DEFINE g(k) == IF IsMember(d, Way(p, k)) THEN Rank(d, Way(p, k)) ELSE p[k]
           s == [k \in 1..Len(p) |-> g(k)]
<1>3. \A k \in 1..Len(p) : g(k) = Step(d, Way(p, k)) /\ g(k) \in Nat
  BY <1>2, Zenon
<1>4. Seat(d, p) = s
  BY DEF Seat
<1> HIDE DEF g
<1>5. s \in Seq(Nat) /\ Len(s) = Len(p) /\ \A k \in 1..Len(p) : s[k] = g(k)
  BY <1>1, <1>3
<1> HIDE DEF s
<1>6. QED BY <1>3, <1>4, <1>5, Zenon

\* The whole a value is in is written where its own seat is.
LEMMA WayOfSeat ==
    ASSUME NEW d, IsDocument(d), NEW p \in DOMAIN d, NEW k \in 0..Len(p)
    PROVE  Way(Seat(d, p), k) = Seat(d, Way(p, k)) /\ Way(p, k) \in DOMAIN d /\ Len(Way(p, k)) = k
<1> DEFINE s == Seat(d, p)
           w == Way(p, k)
           t == Seat(d, w)
<1>1. p \in Seq(Nat) /\ Len(p) \in Nat /\ w \in DOMAIN d /\ Len(w) = k
  BY DocumentIs, WayIs, Zenon
<1>2. /\ s \in Seq(Nat) /\ Len(s) = Len(p) /\ \A i \in 1..Len(p) : s[i] = Step(d, Way(p, i))
      /\ t \in Seq(Nat) /\ Len(t) = Len(w) /\ \A i \in 1..Len(w) : t[i] = Step(d, Way(w, i))
  BY <1>1, SeatIs, Zenon
<1>3. \A i \in 1..k : Way(w, i) = Way(p, i)
  <2>1. \A i \in 1..k : i \in 0..k
    OBVIOUS
  <2>2. QED BY <1>1, <2>1, WayWay, Zenon
<1> HIDE DEF s, t, w
<1>4. k \in 0..Len(s)
  BY <1>1, <1>2
<1>5. Way(s, k) \in Seq(Nat) /\ Len(Way(s, k)) = k /\ \A i \in 1..k : Way(s, k)[i] = s[i]
  BY <1>2, <1>4, WayIs, Zenon
<1>6. \A i \in 1..k : i \in 1..Len(p) /\ i \in 1..Len(w)
  BY <1>1
<1>7. \A i \in 1..k : Way(s, k)[i] = t[i]
  BY <1>2, <1>3, <1>5, <1>6, Zenon
<1>8. Way(s, k) = t
  BY <1>1, <1>2, <1>5, <1>7, SeqEqual, Zenon
<1>9. QED BY <1>1, <1>8, Zenon DEF s, t, w

\* A document that decodeJSONValue does not refuse for a key that comes twice.
Unique(d) == IsDocument(d) /\ \A p \in DOMAIN d : ~Repeats(d, p)

\* Then a member goes by its key.
LEMMA KeyTells ==
    ASSUME NEW d, Unique(d), NEW p \in DOMAIN d, NEW q \in DOMAIN d,
           Siblings(p, q), IsMember(d, p), d[p].key = d[q].key
    PROVE  p = q
<1>1. /\ Siblings(q, p) /\ IsMember(d, q) /\ (p = q <=> At(p) = At(q)) /\ At(p) \in Nat /\ At(q) \in Nat
  BY SiblingsInDocument, Zenon DEF Unique
<1>2. ~Repeats(d, p) /\ ~Repeats(d, q)
  BY DEF Unique
<1>3. ~(At(p) < At(q)) /\ ~(At(q) < At(p))
  BY <1>1, <1>2, Zenon DEF Repeats
<1>4. QED BY <1>1, <1>3

\* So two parts of one whole are written in two places.
LEMMA StepTells ==
    ASSUME NEW d, Unique(d), NEW p \in DOMAIN d, NEW q \in DOMAIN d,
           Siblings(p, q), Step(d, p) = Step(d, q)
    PROVE  p = q
<1>1. /\ IsDocument(d) /\ (IsMember(d, p) <=> IsMember(d, q)) /\ (p = q <=> At(p) = At(q))
  BY SiblingsInDocument, Zenon DEF Unique
<1>2. CASE ~IsMember(d, p)
  BY <1>1, <1>2, Zenon DEF Step
<1>3. CASE IsMember(d, p)
  <2>1. Rank(d, p) = Rank(d, q) /\ Rank(d, p) \in Nat /\ Rank(d, q) \in Nat
    BY <1>1, <1>3, RankIs, Zenon DEF Step
  <2>2. d[p].key \in Seq(Points) /\ d[q].key \in Seq(Points)
    BY <1>1, <1>3, DocumentIs, Zenon
  <2>3. ~KeyBefore(d[p].key, d[q].key) /\ ~KeyBefore(d[q].key, d[p].key)
    <3>1. ~(Rank(d, p) < Rank(d, q)) /\ ~(Rank(d, q) < Rank(d, p))
      BY <2>1
    <3>2. QED BY <1>1, <1>3, <3>1, RankOrder, Zenon
  <2>4. d[p].key = d[q].key
    BY <2>2, <2>3, KeyOrder, Zenon
  <2>5. QED BY <1>3, <2>4, KeyTells, Zenon
<1>4. QED BY <1>2, <1>3

\* Two different ways of one length part somewhere, among parts of one whole.
LEMMA Parting ==
    ASSUME NEW d, IsDocument(d), NEW p \in DOMAIN d, NEW q \in DOMAIN d, p # q, Len(p) = Len(q)
    PROVE  \E k \in 1..Len(p) : Way(p, k) # Way(q, k) /\ Siblings(Way(p, k), Way(q, k))
<1>1. p \in Seq(Nat) /\ Len(p) \in Nat /\ q \in Seq(Nat)
  BY DocumentIs, Zenon
<1> DEFINE T == {k \in 1..Len(p) : p[k] # q[k]}
<1>2. T # {} /\ T \subseteq Nat
  <2>1. T = {} => p = q
    <3>1. T = {} => \A k \in 1..Len(p) : p[k] = q[k]
      OBVIOUS
    <3> HIDE DEF T
    <3>2. QED BY <1>1, <3>1, SeqEqual, Zenon
  <2>2. QED BY <1>1, <2>1
<1>3. PICK k \in T : \A m \in T : k <= m
  <2> HIDE DEF T
  <2> QED BY <1>2, Least, Zenon
<1>4. k \in 1..Len(p) /\ k \in 0..Len(p) /\ k \in Nat /\ k # 0 /\ k \in 1..k /\ p[k] # q[k]
      /\ \A i \in 1..k-1 : p[i] = q[i] /\ i \in 1..k
  BY <1>1, <1>3
<1>5. /\ Way(p, k) \in Seq(Nat) /\ Len(Way(p, k)) = k /\ \A i \in 1..k : Way(p, k)[i] = p[i]
      /\ Way(q, k) \in Seq(Nat) /\ Len(Way(q, k)) = k /\ \A i \in 1..k : Way(q, k)[i] = q[i]
  BY <1>1, <1>4, WayIs, Zenon
<1>6. Way(p, k) # Way(q, k)
  BY <1>4, <1>5, Zenon
<1>7. Siblings(Way(p, k), Way(q, k))
  <2>1. Way(p, k) # <<>>
    BY <1>4, <1>5
  <2>2. \A i \in 1..k-1 : Way(p, k)[i] = Way(q, k)[i]
    BY <1>4, <1>5, Zenon
  <2>3. QED BY <1>5, <2>1, <2>2, Zenon DEF Siblings
<1>8. QED BY <1>4, <1>6, <1>7, Zenon

\* So no two values of a document are written in one place.
LEMMA SeatTells ==
    ASSUME NEW d, Unique(d), NEW p \in DOMAIN d, NEW q \in DOMAIN d, Seat(d, p) = Seat(d, q)
    PROVE  p = q
<1>1. IsDocument(d)
  BY DEF Unique
<1>2. Len(p) = Len(q)
  BY <1>1, SeatIs, Zenon
<1>3. ASSUME p # q PROVE FALSE
  <2>1. PICK k \in 1..Len(p) : Way(p, k) # Way(q, k) /\ Siblings(Way(p, k), Way(q, k))
    BY <1>1, <1>2, <1>3, Parting, Zenon
  <2>2. k \in 0..Len(p)
    OBVIOUS
  <2>3. Way(p, k) \in DOMAIN d /\ Way(q, k) \in DOMAIN d
    BY <1>1, <1>2, <2>2, DocumentIs, Zenon
  <2>4. Step(d, Way(p, k)) = Step(d, Way(q, k))
    BY <1>1, <1>2, <2>1, SeatIs, Zenon
  <2>5. QED BY <2>1, <2>3, <2>4, StepTells, Zenon
<1>4. QED BY <1>3

\* ... nor validateRawJSONUnicode for a text.
Clean(d) == Unique(d) /\ ~BadUnicode(d)

\* Canonical has, at every seat, what is written at the place that has it.
LEMMA CanonicalIs ==
    ASSUME NEW d, Unique(d)
    PROVE  /\ Canonical(d) = [s \in DOMAIN Canonical(d) |-> Canonical(d)[s]]
           /\ DOMAIN Canonical(d) = {Seat(d, p) : p \in DOMAIN d}
           /\ \A p \in DOMAIN d : Canonical(d)[Seat(d, p)] = Written(d[p])
<1> DEFINE S == Seats(d)
           D == {s.seat : s \in S}
           at(place) == CHOOSE s \in S : s.seat = place
           w(place) == Written(d[at(place).place])
<1>1. Canonical(d) = [place \in D |-> w(place)]
  BY DEF Canonical
<1>2. S = {[place |-> p, seat |-> Seat(d, p)] : p \in DOMAIN d}
  BY DEF Seats
<1>0. /\ \A p \in DOMAIN d : [place |-> p, seat |-> Seat(d, p)] \in S
      /\ \A s \in S : \E p \in DOMAIN d : s = [place |-> p, seat |-> Seat(d, p)]
  BY <1>2
<1> HIDE DEF S
<1>3. D = {Seat(d, p) : p \in DOMAIN d}
  <2>1. \A p \in DOMAIN d : Seat(d, p) \in D
    <3>1. \A p \in DOMAIN d : [place |-> p, seat |-> Seat(d, p)].seat = Seat(d, p)
      OBVIOUS
    <3>2. QED BY <1>0, <3>1
  <2>2. \A x \in D : \E p \in DOMAIN d : x = Seat(d, p)
    BY <1>0
  <2>3. QED BY <2>1, <2>2
<1>4. ASSUME NEW p \in DOMAIN d PROVE w(Seat(d, p)) = Written(d[p])
  <2>1. \E s \in S : s.seat = Seat(d, p)
    BY <1>0
  <2>2. at(Seat(d, p)) \in S /\ at(Seat(d, p)).seat = Seat(d, p)
    BY <2>1
  <2> HIDE DEF at
  <2>3. PICK q \in DOMAIN d : at(Seat(d, p)) = [place |-> q, seat |-> Seat(d, q)]
    BY <1>0, <2>2
  <2>4. Seat(d, q) = Seat(d, p) /\ at(Seat(d, p)).place = q
    BY <2>2, <2>3
  <2>5. q = p
    BY <2>4, SeatTells, Zenon
  <2>6. QED BY <2>4, <2>5
<1> HIDE DEF D, w
<1>5. /\ DOMAIN Canonical(d) = D
      /\ \A s \in D : Canonical(d)[s] = w(s)
      /\ Canonical(d) = [s \in DOMAIN Canonical(d) |-> Canonical(d)[s]]
  BY <1>1
<1>6. \A p \in DOMAIN d : Seat(d, p) \in D
  BY <1>3
<1>7. \A p \in DOMAIN d : Canonical(d)[Seat(d, p)] = Written(d[p])
  BY <1>4, <1>5, <1>6, Zenon
<1>8. QED BY <1>3, <1>5, <1>7, Zenon

\* With no text replaced, that is the value itself, a member if it was one.
LEMMA CanonicalOf ==
    ASSUME NEW d, Clean(d), NEW p \in DOMAIN d
    PROVE  /\ Seat(d, p) \in DOMAIN Canonical(d)
           /\ Canonical(d)[Seat(d, p)] = d[p]
           /\ IsMember(Canonical(d), Seat(d, p)) <=> IsMember(d, p)
<1>1. Unique(d) /\ Written(d[p]) = d[p]
  BY Zenon DEF Clean, BadUnicode, Written
<1>2. Seat(d, p) \in DOMAIN Canonical(d)
  BY <1>1, CanonicalIs
<1>3. Canonical(d)[Seat(d, p)] = d[p]
  BY <1>1, CanonicalIs, Zenon
<1>4. QED BY <1>2, <1>3, Zenon DEF IsMember
-----------------------------------------------------------------------------
(* What the canonical form says.                                           *)

\* A name has a tag for each step of the way.
LEMMA NameIs ==
    ASSUME NEW d, IsDocument(d), NEW p \in DOMAIN d
    PROVE  /\ DOMAIN Name(d, p) = 1..Len(p)
           /\ \A k \in 1..Len(p) : Name(d, p)[k] = Tag(d, Way(p, k))
<1> DEFINE g(k) == Tag(d, Way(p, k))
<1>1. Name(d, p) = [k \in 1..Len(p) |-> g(k)]
  BY DEF Name
<1> HIDE DEF g
<1>2. DOMAIN Name(d, p) = 1..Len(p) /\ \A k \in 1..Len(p) : Name(d, p)[k] = g(k)
  BY <1>1
<1>3. QED BY <1>2, Zenon DEF g

\* The last step of a seat.
LEMMA AtSeat ==
    ASSUME NEW d, IsDocument(d), NEW p \in DOMAIN d, Len(p) # 0
    PROVE  At(Seat(d, p)) = Step(d, p)
<1>1. Len(p) \in Nat /\ p \in Seq(Nat)
  BY DocumentIs, Zenon
<1>2. Len(p) \in 1..Len(p) /\ Len(p) \in 0..Len(p)
  BY <1>1
<1>3. Way(p, Len(p)) = p
  BY <1>1, <1>2, WayIs, Zenon
<1>4. Len(Seat(d, p)) = Len(p) /\ Seat(d, p)[Len(p)] = Step(d, Way(p, Len(p)))
  BY <1>2, SeatIs, Zenon
<1>5. QED BY <1>3, <1>4, Zenon DEF At

\* A value has the same name where it is written: members keep their keys, items
\* their numbers.
LEMMA NameOfSeat ==
    ASSUME NEW d, Clean(d), NEW p \in DOMAIN d
    PROVE  Name(Canonical(d), Seat(d, p)) = Name(d, p)
<1> DEFINE c == Canonical(d)
           s == Seat(d, p)
           f(k) == Tag(c, Way(s, k))
           g(k) == Tag(d, Way(p, k))
<1>1. IsDocument(d)
  BY DEF Clean, Unique
<1>2. Len(p) \in Nat /\ Len(s) = Len(p)
  BY <1>1, DocumentIs, SeatIs, Zenon
<1>3. ASSUME NEW k \in 1..Len(p) PROVE f(k) = g(k)
  <2> DEFINE w == Way(p, k)
  <2>1. k \in 0..Len(p) /\ k # 0
    BY <1>2
  <2>2. Way(s, k) = Seat(d, w) /\ w \in DOMAIN d /\ Len(w) = k
    BY <1>1, <2>1, WayOfSeat, Zenon
  <2> HIDE DEF w
  <2>3. c[Seat(d, w)] = d[w] /\ (IsMember(c, Seat(d, w)) <=> IsMember(d, w))
    BY <2>2, CanonicalOf, Zenon
  <2>4. At(Seat(d, w)) = Step(d, w)
    BY <1>1, <2>1, <2>2, AtSeat, Zenon
  <2>5. Tag(c, Seat(d, w)) = Tag(d, w)
    <3>1. CASE IsMember(d, w)
      BY <2>3, <3>1, Zenon DEF Tag
    <3>2. CASE ~IsMember(d, w)
      BY <2>3, <2>4, <3>2, Zenon DEF Tag, Step
    <3>3. QED BY <3>1, <3>2
  <2>6. QED BY <2>2, <2>5, Zenon DEF w
<1>4. Name(c, s) = [k \in 1..Len(s) |-> f(k)] /\ Name(d, p) = [k \in 1..Len(p) |-> g(k)]
  BY DEF Name
<1> HIDE DEF f, g, c, s
<1>5. Name(c, s) = Name(d, p)
  BY <1>2, <1>3, <1>4
<1>6. QED BY <1>5, Zenon DEF c, s

\* The canonical form says what the document says: every value under the keys and
\* numbers it had, and nothing else (writeJCS, jcs.go:202).
THEOREM CanonicalSays ==
    ASSUME NEW d, Clean(d)
    PROVE  SameValue(Canonical(d), d)
<1> DEFINE c == Canonical(d)
           e(p) == [name |-> Name(d, p), value |-> d[p].value]
           f(s) == [name |-> Name(c, s), value |-> c[s].value]
<1>1. DOMAIN c = {Seat(d, p) : p \in DOMAIN d}
  BY CanonicalIs, Zenon DEF Clean
<1>2. \A p \in DOMAIN d : f(Seat(d, p)) = e(p)
  BY CanonicalOf, NameOfSeat, Zenon
<1>3. Value(c) = {f(s) : s \in DOMAIN c} /\ Value(d) = {e(p) : p \in DOMAIN d}
  BY DEF Value
<1> HIDE DEF c, e, f
<1>4. Value(c) = Value(d)
  BY <1>1, <1>2, <1>3
<1>5. QED BY <1>4, Zenon DEF SameValue, c

\* The canonical form has the members of every object in the order of RFC 8785, and
\* none twice (sortJCSKeys, jcs.go:290).
THEOREM CanonicalInOrder ==
    ASSUME NEW d, Clean(d)
    PROVE  InRFCOrder(Canonical(d))
<1> DEFINE c == Canonical(d)
<1>1. Unique(d) /\ IsDocument(d)
  BY DEF Clean, Unique
<1>2. DOMAIN c = {Seat(d, p) : p \in DOMAIN d}
  BY <1>1, CanonicalIs, Zenon
<1>3. ASSUME NEW p \in DOMAIN d, NEW q \in DOMAIN d, Siblings(Seat(d, p), Seat(d, q)),
             IsMember(c, Seat(d, p)), At(Seat(d, p)) < At(Seat(d, q))
      PROVE  KeyBefore(c[Seat(d, p)].key, c[Seat(d, q)].key)
  <2> DEFINE s == Seat(d, p)
             t == Seat(d, q)
             n == Len(p) - 1
  <2>1. /\ s \in Seq(Nat) /\ t \in Seq(Nat) /\ Len(s) = Len(p) /\ Len(t) = Len(q)
        /\ p \in Seq(Nat) /\ q \in Seq(Nat) /\ Len(p) \in Nat /\ Len(q) \in Nat
    BY <1>1, SeatIs, DocumentIs, Zenon
  <2>2. Len(s) # 0 /\ Len(t) = Len(s) /\ Way(s, Len(s) - 1) = Way(t, Len(s) - 1)
    <3> HIDE DEF s, t
    <3>1. Siblings(s, t)
      BY <1>3 DEF s, t
    <3>2. QED BY <2>1, <3>1, SiblingsAre, Zenon
  <2>3. n \in 0..Len(p) /\ n \in 0..Len(q) /\ Len(p) # 0 /\ Len(q) = Len(p) /\ Way(s, n) = Way(t, n)
    BY <2>1, <2>2
  <2>4. /\ Way(s, n) = Seat(d, Way(p, n)) /\ Way(p, n) \in DOMAIN d
        /\ Way(t, n) = Seat(d, Way(q, n)) /\ Way(q, n) \in DOMAIN d
    <3> HIDE DEF n
    <3> QED BY <1>1, <2>3, WayOfSeat, Zenon
  <2>5. Outer(p) = Outer(q)
    <3>1. Way(p, n) = Way(q, n)
      <4> HIDE DEF n, s, t
      <4> QED BY <1>1, <2>3, <2>4, SeatTells, Zenon
    <3>2. QED BY <2>3, <3>1 DEF Outer
  <2>6. Siblings(p, q)
    BY <1>1, <2>3, <2>5, SiblingsInDocument, Zenon
  <2>7. IsMember(d, p) /\ IsMember(d, q)
    BY <1>1, <1>3, <2>6, CanonicalOf, SiblingsInDocument, Zenon
  <2>8. At(s) = Rank(d, p) /\ At(t) = Rank(d, q)
    BY <1>1, <2>3, <2>7, AtSeat, Zenon DEF Step
  <2>9. c[s] = d[p] /\ c[t] = d[q]
    BY CanonicalOf, Zenon
  <2>10. KeyBefore(d[p].key, d[q].key)
    <3>1. Rank(d, p) < Rank(d, q) /\ Rank(d, p) \in Nat /\ Rank(d, q) \in Nat
      BY <1>1, <1>3, <2>7, <2>8, RankIs, Zenon
    <3>2. ~(Rank(d, q) < Rank(d, p)) /\ Rank(d, q) # Rank(d, p)
      BY <3>1
    <3>3. d[p].key \in Seq(Points) /\ d[q].key \in Seq(Points)
      BY <1>1, <2>7, DocumentIs, Zenon
    <3>4. ~KeyBefore(d[q].key, d[p].key) /\ d[p].key # d[q].key
      BY <1>1, <2>6, <2>7, <3>2, RankOrder, Zenon
    <3>5. QED BY <3>3, <3>4, KeyOrder, Zenon
  <2>11. QED BY <2>9, <2>10, Zenon
<1> HIDE DEF c
<1>4. \A s, t \in DOMAIN c : Siblings(s, t) /\ IsMember(c, s) /\ At(s) < At(t) => KeyBefore(c[s].key, c[t].key)
  <2> SUFFICES ASSUME NEW s \in DOMAIN c, NEW t \in DOMAIN c, Siblings(s, t), IsMember(c, s), At(s) < At(t)
               PROVE  KeyBefore(c[s].key, c[t].key)
    OBVIOUS
  <2>1. PICK p \in DOMAIN d : s = Seat(d, p)
    BY <1>2
  <2>2. PICK q \in DOMAIN d : t = Seat(d, q)
    BY <1>2
  <2>3. QED BY <1>3, <2>1, <2>2, Zenon
<1>5. QED BY <1>4, Zenon DEF InRFCOrder, c
-----------------------------------------------------------------------------
(* One value, one canonical form.                                          *)

\* One name, as a predicate: the provers rewrite an equation and lose the name.
SameName(a, p, b, q) == Name(a, p) = Name(b, q)

\* One name: of one length, with one tag at each step.
LEMMA NameGives ==
    ASSUME NEW a, IsDocument(a), NEW b, IsDocument(b), NEW p \in DOMAIN a, NEW q \in DOMAIN b,
           SameName(a, p, b, q)
    PROVE  Len(p) = Len(q) /\ \A k \in 1..Len(p) : Tag(a, Way(p, k)) = Tag(b, Way(q, k))
<1>1. /\ DOMAIN Name(a, p) = 1..Len(p) /\ \A k \in 1..Len(p) : Name(a, p)[k] = Tag(a, Way(p, k))
      /\ DOMAIN Name(b, q) = 1..Len(q) /\ \A k \in 1..Len(q) : Name(b, q)[k] = Tag(b, Way(q, k))
  BY NameIs, Zenon
<1>2. Len(p) \in Nat /\ Len(q) \in Nat
  BY DocumentIs, Zenon
<1>3. 1..Len(p) = 1..Len(q)
  BY <1>1, Zenon DEF SameName
<1>4. Len(p) = Len(q)
  BY <1>2, <1>3
<1>5. QED BY <1>1, <1>4, Zenon DEF SameName

\* ... and the other way round.
LEMMA NameFrom ==
    ASSUME NEW a, NEW b, NEW p \in DOMAIN a, NEW q \in DOMAIN b,
           Len(p) = Len(q), \A k \in 1..Len(p) : Tag(a, Way(p, k)) = Tag(b, Way(q, k))
    PROVE  SameName(a, p, b, q)
<1> DEFINE f(k) == Tag(a, Way(p, k))
           g(k) == Tag(b, Way(q, k))
<1>1. Name(a, p) = [k \in 1..Len(p) |-> f(k)] /\ Name(b, q) = [k \in 1..Len(q) |-> g(k)]
  BY DEF Name
<1>2. \A k \in 1..Len(p) : f(k) = g(k)
  BY Zenon
<1> HIDE DEF f, g
<1>3. QED BY <1>1, <1>2 DEF SameName

\* The wholes that two values of one name are in have one name.
LEMMA NameOfWay ==
    ASSUME NEW a, IsDocument(a), NEW b, IsDocument(b), NEW p \in DOMAIN a, NEW q \in DOMAIN b,
           SameName(a, p, b, q), NEW k \in 0..Len(p)
    PROVE  /\ SameName(a, Way(p, k), b, Way(q, k)) /\ Len(p) = Len(q)
           /\ Way(p, k) \in DOMAIN a /\ Way(q, k) \in DOMAIN b
<1>1. /\ Len(p) = Len(q) /\ p \in Seq(Nat) /\ q \in Seq(Nat) /\ Len(p) \in Nat
      /\ \A i \in 1..Len(p) : Tag(a, Way(p, i)) = Tag(b, Way(q, i))
  <2>1. p \in Seq(Nat) /\ q \in Seq(Nat) /\ Len(p) \in Nat
    BY DocumentIs, Zenon
  <2>2. QED BY <2>1, NameGives
<1>2. Way(p, k) \in DOMAIN a /\ Way(q, k) \in DOMAIN b
  BY <1>1, DocumentIs, Zenon
<1>3. Len(Way(p, k)) = k /\ Len(Way(q, k)) = k
  BY <1>1, WayIs, Zenon
<1>4. \A i \in 1..k : i \in 0..k /\ i \in 1..Len(p)
  BY <1>1
<1>5. \A i \in 1..k : Way(Way(p, k), i) = Way(p, i) /\ Way(Way(q, k), i) = Way(q, i)
  BY <1>1, <1>4, WayWay, Zenon
<1>6. \A i \in 1..k : Tag(a, Way(Way(p, k), i)) = Tag(b, Way(Way(q, k), i))
  BY <1>1, <1>4, <1>5, Zenon
<1>7. SameName(a, Way(p, k), b, Way(q, k))
  BY <1>2, <1>3, <1>6, NameFrom, Zenon
<1>8. QED BY <1>1, <1>2, <1>7, Zenon

\* So have the values the last tag.
LEMMA LastTag ==
    ASSUME NEW a, IsDocument(a), NEW b, IsDocument(b), NEW p \in DOMAIN a, NEW q \in DOMAIN b,
           SameName(a, p, b, q), Len(p) # 0
    PROVE  /\ Tag(a, p) = Tag(b, q) /\ Len(q) = Len(p)
           /\ Outer(p) \in DOMAIN a /\ Outer(q) \in DOMAIN b /\ SameName(a, Outer(p), b, Outer(q))
<1>1. /\ Len(p) = Len(q) /\ p \in Seq(Nat) /\ q \in Seq(Nat) /\ Len(p) \in Nat
      /\ \A i \in 1..Len(p) : Tag(a, Way(p, i)) = Tag(b, Way(q, i))
  <2>1. p \in Seq(Nat) /\ q \in Seq(Nat) /\ Len(p) \in Nat
    BY DocumentIs, Zenon
  <2>2. QED BY <2>1, NameGives, ZenonT(60)
<1>2. Len(p) \in 0..Len(p) /\ Len(p) \in 1..Len(p) /\ Len(p) - 1 \in 0..Len(p)
  BY <1>1
<1>3. Way(p, Len(p)) = p /\ Way(q, Len(q)) = q
  BY <1>1, <1>2, WayIs, Zenon
<1>4. Tag(a, p) = Tag(b, q)
  BY <1>1, <1>2, <1>3, Zenon
<1>5. /\ SameName(a, Way(p, Len(p) - 1), b, Way(q, Len(p) - 1))
      /\ Way(p, Len(p) - 1) \in DOMAIN a /\ Way(q, Len(p) - 1) \in DOMAIN b
  BY <1>2, NameOfWay
<1>6. QED BY <1>1, <1>4, <1>5, Zenon DEF Outer

\* In one document, a name is of one value.
LEMMA NameTells ==
    ASSUME NEW d, Unique(d), NEW p \in DOMAIN d, NEW q \in DOMAIN d, SameName(d, p, d, q)
    PROVE  p = q
<1>1. IsDocument(d)
  BY DEF Unique
<1>2. Len(p) = Len(q) /\ \A k \in 1..Len(p) : Tag(d, Way(p, k)) = Tag(d, Way(q, k))
  BY <1>1, NameGives, ZenonT(60)
<1>3. ASSUME p # q PROVE FALSE
  <2>1. PICK k \in 1..Len(p) : Way(p, k) # Way(q, k) /\ Siblings(Way(p, k), Way(q, k))
    BY <1>1, <1>2, <1>3, Parting, Zenon
  <2> DEFINE v == Way(p, k)
             w == Way(q, k)
  <2>2. k \in 0..Len(p)
    OBVIOUS
  <2>3. v \in DOMAIN d /\ w \in DOMAIN d /\ Tag(d, v) = Tag(d, w) /\ v # w /\ Siblings(v, w)
    BY <1>1, <1>2, <2>1, <2>2, DocumentIs, Zenon
  <2> HIDE DEF v, w
  <2>4. (IsMember(d, v) <=> IsMember(d, w)) /\ (v = w <=> At(v) = At(w))
    BY <1>1, <2>3, SiblingsInDocument, Zenon
  <2>5. CASE IsMember(d, v)
    <3>1. d[v].key = d[w].key
      BY <2>3, <2>4, <2>5, Zenon DEF Tag
    <3>2. QED BY <2>3, <2>5, <3>1, KeyTells, Zenon
  <2>6. CASE ~IsMember(d, v)
    <3>1. <<At(v)>> = <<At(w)>>
      BY <2>3, <2>4, <2>6, Zenon DEF Tag
    <3>2. At(v) = At(w)
      BY <3>1
    <3>3. QED BY <2>3, <2>4, <3>2, Zenon
  <2>7. QED BY <2>5, <2>6
<1>4. QED BY <1>3

\* Of two documents with one value, each has what the other has, by name.
LEMMA ValueTells ==
    ASSUME NEW a, Unique(a), NEW b, Unique(b), SameValue(a, b), NEW p \in DOMAIN a
    PROVE  /\ \E q \in DOMAIN b : SameName(a, p, b, q)
           /\ \A q \in DOMAIN b : SameName(a, p, b, q) => a[p].value = b[q].value
<1> DEFINE e(r) == [name |-> Name(a, r), value |-> a[r].value]
           f(r) == [name |-> Name(b, r), value |-> b[r].value]
<1>1. Value(a) = {e(r) : r \in DOMAIN a} /\ Value(b) = {f(r) : r \in DOMAIN b}
  BY DEF Value
<1>a. Value(a) = Value(b)
  BY DEF SameValue
<1>2. PICK q \in DOMAIN b : e(p) = f(q)
  <2> HIDE DEF e, f
  <2> QED BY <1>1, <1>a
<1>3. SameName(a, p, b, q) /\ a[p].value = b[q].value
  BY <1>2 DEF SameName
<1>4. ASSUME NEW r \in DOMAIN b, SameName(a, p, b, r) PROVE r = q
  <2>1. SameName(b, r, b, q)
    BY <1>3, <1>4, Zenon DEF SameName
  <2>2. QED BY <2>1, NameTells
<1>5. QED BY <1>3, <1>4, Zenon

\* Of the two values of one name, both are members, with one key, or both are items,
\* with one number: their wholes are both objects or both arrays.
LEMMA NodeTells ==
    ASSUME NEW a, Unique(a), NEW b, Unique(b), SameValue(a, b),
           NEW p \in DOMAIN a, NEW q \in DOMAIN b, SameName(a, p, b, q)
    PROVE  /\ a[p] = b[q] /\ (IsMember(a, p) <=> IsMember(b, q))
           /\ Len(p) # 0 /\ ~IsMember(a, p) => At(p) = At(q)
<1>1. IsDocument(a) /\ IsDocument(b)
  BY DEF Unique
<1>2. a[p].value = b[q].value /\ Len(p) = Len(q)
  BY <1>1, ValueTells, NameGives
<1>3. CASE Len(p) = 0
  <2>1. ~IsMember(a, p) /\ ~IsMember(b, q)
    BY <1>1, <1>2, <1>3, DocumentIs, Zenon
  <2>2. a[p].key = NoKey /\ b[q].key = NoKey
    BY <2>1, Zenon DEF IsMember
  <2>3. a[p] = b[q]
    <3>1. a[p] = [value |-> a[p].value, key |-> a[p].key] /\ b[q] = [value |-> b[q].value, key |-> b[q].key]
      BY <1>1, DocumentIs, Zenon
    <3>2. QED BY <1>2, <2>2, <3>1
  <2>4. QED BY <1>3, <2>1, <2>3
<1>4. CASE Len(p) # 0
  <2>1. /\ Tag(a, p) = Tag(b, q) /\ Len(q) # 0
        /\ Outer(p) \in DOMAIN a /\ Outer(q) \in DOMAIN b /\ SameName(a, Outer(p), b, Outer(q))
    BY <1>1, <1>2, <1>4, LastTag
  <2>2. a[Outer(p)].value = b[Outer(q)].value
    BY <2>1, ValueTells
  <2>3. IsMember(a, p) <=> IsMember(b, q)
    BY <1>1, <1>4, <2>1, <2>2, OuterIs, Zenon
  <2>4. a[p].key = b[q].key
    BY <2>1, <2>3, Zenon DEF Tag, IsMember
  <2>5. a[p] = b[q]
    <3>1. a[p] = [value |-> a[p].value, key |-> a[p].key] /\ b[q] = [value |-> b[q].value, key |-> b[q].key]
      BY <1>1, DocumentIs, Zenon
    <3>2. QED BY <1>2, <2>4, <3>1
  <2>6. ASSUME ~IsMember(a, p) PROVE At(p) = At(q)
    <3>1. <<At(p)>> = <<At(q)>>
      BY <2>1, <2>3, <2>6, Zenon DEF Tag
    <3>2. QED BY <3>1
  <2>7. QED BY <2>3, <2>5, <2>6
<1>5. QED BY <1>3, <1>4

\* They have the same keys beside them.
LEMMA KeysTell ==
    ASSUME NEW a, Unique(a), NEW b, Unique(b), SameValue(a, b),
           NEW p \in DOMAIN a, NEW q \in DOMAIN b, SameName(a, p, b, q)
    PROVE  KeysBeside(a, p) \subseteq KeysBeside(b, q)
<1>1. IsDocument(a) /\ IsDocument(b)
  BY DEF Unique
<1>2. ASSUME NEW r \in DOMAIN a, Siblings(p, r)
      PROVE  \E s \in DOMAIN b : Siblings(q, s) /\ b[s].key = a[r].key
  <2>1. PICK s \in DOMAIN b : SameName(a, r, b, s)
    BY ValueTells, Zenon
  <2>2. Len(p) # 0 /\ Len(r) = Len(p) /\ Outer(p) = Outer(r)
    BY <1>1, <1>2, SiblingsInDocument, Zenon
  <2>3. /\ Len(q) = Len(p) /\ Outer(q) \in DOMAIN b /\ SameName(a, Outer(p), b, Outer(q))
        /\ Len(s) = Len(r) /\ Outer(s) \in DOMAIN b /\ SameName(a, Outer(r), b, Outer(s))
    BY <1>1, <2>1, <2>2, LastTag
  <2>4. Outer(q) = Outer(s)
    <3>1. SameName(b, Outer(q), b, Outer(s))
      BY <2>2, <2>3, Zenon DEF SameName
    <3>2. QED BY <2>3, <3>1, NameTells
  <2>5. Siblings(q, s)
    BY <1>1, <2>2, <2>3, <2>4, SiblingsInDocument, Zenon
  <2>6. b[s] = a[r]
    BY <2>1, NodeTells
  <2>7. QED BY <2>5, <2>6, Zenon
<1>3. QED BY <1>2 DEF KeysBeside

\* So they are written in one place: the rank only needs the set of the keys.
LEMMA SameSeat ==
    ASSUME NEW a, Unique(a), NEW b, Unique(b), SameValue(a, b),
           NEW p \in DOMAIN a, NEW q \in DOMAIN b, SameName(a, p, b, q)
    PROVE  Seat(a, p) = Seat(b, q)
<1>1. IsDocument(a) /\ IsDocument(b)
  BY DEF Unique
<1>2. ASSUME NEW v \in DOMAIN a, NEW w \in DOMAIN b, SameName(a, v, b, w), Len(v) # 0
      PROVE  Step(a, v) = Step(b, w)
  <2>1. /\ a[v] = b[w] /\ (IsMember(a, v) <=> IsMember(b, w))
        /\ ~IsMember(a, v) => At(v) = At(w)
    BY <1>2, NodeTells
  <2>2. KeysBeside(a, v) = KeysBeside(b, w)
    <3>1. KeysBeside(a, v) \subseteq KeysBeside(b, w)
      BY <1>2, KeysTell, Zenon
    <3>2. KeysBeside(b, w) \subseteq KeysBeside(a, v)
      <4>1. SameValue(b, a) /\ SameName(b, w, a, v)
        BY <1>2, Zenon DEF SameValue, SameName
      <4>2. QED BY <4>1, KeysTell
    <3>3. QED BY <3>1, <3>2
  <2>3. Rank(a, v) = Rank(b, w)
    BY <2>1, <2>2 DEF Rank
  <2>4. QED BY <2>1, <2>3, Zenon DEF Step
<1>3. Len(p) = Len(q) /\ Len(p) \in Nat
  BY <1>1, NameGives, DocumentIs, Zenon
<1>4. ASSUME NEW k \in 1..Len(p) PROVE Step(a, Way(p, k)) = Step(b, Way(q, k))
  <2>1. k \in 0..Len(p) /\ k # 0
    BY <1>3
  <2>2. SameName(a, Way(p, k), b, Way(q, k)) /\ Way(p, k) \in DOMAIN a /\ Way(q, k) \in DOMAIN b
    BY <1>1, <2>1, NameOfWay, Zenon
  <2>3. Len(Way(p, k)) = k
    BY <1>1, <2>1, WayOfSeat, Zenon
  <2>4. QED BY <1>2, <2>1, <2>2, <2>3, Zenon
<1>5. /\ Seat(a, p) \in Seq(Nat) /\ Len(Seat(a, p)) = Len(p)
      /\ \A k \in 1..Len(p) : Seat(a, p)[k] = Step(a, Way(p, k))
  BY <1>1, SeatIs, Zenon
<1>6. /\ Seat(b, q) \in Seq(Nat) /\ Len(Seat(b, q)) = Len(p)
      /\ \A k \in 1..Len(p) : Seat(b, q)[k] = Step(b, Way(q, k))
  BY <1>1, <1>3, SeatIs, Zenon
<1>7. \A k \in 1..Len(p) : Seat(a, p)[k] = Seat(b, q)[k]
  BY <1>4, <1>5, <1>6, Zenon
<1>8. QED BY <1>5, <1>6, <1>7, SeqEqual, Zenon

\* The canonical forms have the same at every place.
LEMMA SameSeats ==
    ASSUME NEW a, Clean(a), NEW b, Clean(b), SameValue(a, b), NEW s \in DOMAIN Canonical(a)
    PROVE  s \in DOMAIN Canonical(b) /\ Canonical(a)[s] = Canonical(b)[s]
<1>1. Unique(a) /\ Unique(b) /\ IsDocument(a) /\ IsDocument(b)
  BY DEF Clean, Unique
<1>2. DOMAIN Canonical(a) = {Seat(a, p) : p \in DOMAIN a}
  BY <1>1, CanonicalIs, Zenon
<1>3. PICK p \in DOMAIN a : s = Seat(a, p)
  BY <1>2
<1>4. PICK q \in DOMAIN b : SameName(a, p, b, q)
  BY <1>1, ValueTells, Zenon
<1>5. Seat(b, q) = s /\ a[p] = b[q]
  BY <1>1, <1>3, <1>4, SameSeat, NodeTells
<1>6. Seat(b, q) \in DOMAIN Canonical(b) /\ Canonical(b)[Seat(b, q)] = b[q]
  BY CanonicalOf, Zenon
<1>7. Canonical(a)[s] = a[p]
  BY <1>3, CanonicalOf, Zenon
<1>8. QED BY <1>5, <1>6, <1>7, Zenon

\* Two documents have one canonical form exactly if they say the same, in whatever
\* order their members are written: what a fingerprint is taken of tells any two
\* bodies apart, and never the same body from itself (CanonicalizeJSON, jcs.go:35).
THEOREM CanonicalSeparates ==
    ASSUME NEW a, Clean(a), NEW b, Clean(b)
    PROVE  Canonical(a) = Canonical(b) <=> SameValue(a, b)
<1>1. ASSUME Canonical(a) = Canonical(b) PROVE SameValue(a, b)
  BY <1>1, CanonicalSays, Zenon DEF SameValue
<1>2. ASSUME SameValue(a, b) PROVE Canonical(a) = Canonical(b)
  <2>1. /\ Canonical(a) = [s \in DOMAIN Canonical(a) |-> Canonical(a)[s]]
        /\ Canonical(b) = [s \in DOMAIN Canonical(b) |-> Canonical(b)[s]]
    BY CanonicalIs, Zenon DEF Clean
  <2>2. DOMAIN Canonical(a) = DOMAIN Canonical(b)
    <3>1. \A s \in DOMAIN Canonical(a) : s \in DOMAIN Canonical(b)
      BY <1>2, SameSeats, Zenon
    <3>2. \A s \in DOMAIN Canonical(b) : s \in DOMAIN Canonical(a)
      <4>1. SameValue(b, a)
        BY <1>2, Zenon DEF SameValue
      <4>2. QED BY <4>1, SameSeats
    <3>3. QED BY <3>1, <3>2
  <2>3. \A s \in DOMAIN Canonical(a) : Canonical(a)[s] = Canonical(b)[s]
    BY <1>2, SameSeats
  <2>4. QED BY <2>1, <2>2, <2>3
<1>3. QED BY <1>1, <1>2, Zenon
-----------------------------------------------------------------------------
(* Objects that are made of documents, as encoding/json makes a body.      *)

\* The place of a value in the i-th part.
Under(i, p) == <<i>> \o p

\* It is one step longer.
LEMMA UnderIs ==
    ASSUME NEW i \in Nat, NEW p \in Seq(Nat)
    PROVE  /\ Under(i, p) \in Seq(Nat) /\ Len(Under(i, p)) = 1 + Len(p) /\ Len(p) \in Nat
           /\ Under(i, p)[1] = i /\ Under(i, p) # <<>>
           /\ \A k \in 1..Len(p) : Under(i, p)[1 + k] = p[k]
           /\ Head(Under(i, p)) = i /\ Tail(Under(i, p)) = p
<1> DEFINE s == <<i>>
           q == Under(i, p)
<1>1. s \in Seq(Nat) /\ Len(s) = 1 /\ s[1] = i /\ Len(p) \in Nat
  OBVIOUS
<1>2. q = s \o p
  BY DEF Under
<1> HIDE DEF s, q
<1>3. /\ q \in Seq(Nat) /\ Len(q) = Len(s) + Len(p)
      /\ \A k \in 1..Len(s) + Len(p) : q[k] = IF k <= Len(s) THEN s[k] ELSE p[k - Len(s)]
  BY <1>1, <1>2, ConcatProperties
<1>4. q[1] = i /\ \A k \in 1..Len(p) : q[1 + k] = p[k]
  <2>1. 1 \in 1..Len(s) + Len(p) /\ 1 <= Len(s)
    BY <1>1
  <2>2. ASSUME NEW k \in 1..Len(p) PROVE q[1 + k] = p[k]
    <3>1. 1 + k \in 1..Len(s) + Len(p) /\ ~(1 + k <= Len(s)) /\ (1 + k) - Len(s) = k
      BY <1>1
    <3>2. QED BY <1>3, <3>1
  <2>3. QED BY <1>1, <1>3, <2>1, <2>2
<1>5. q # <<>> /\ Len(q) = 1 + Len(p)
  BY <1>1, <1>3
<1>6. Head(q) = i
  BY <1>3, <1>4, <1>5
<1> DEFINE t == Tail(q)
<1>7. t \in Seq(Nat) /\ Len(t) = Len(q) - 1 /\ \A k \in 1..Len(t) : t[k] = q[k + 1]
  BY <1>3, <1>5, HeadTailProperties
<1> HIDE DEF t
<1>8. t = p
  <2>1. Len(t) = Len(p)
    BY <1>1, <1>5, <1>7
  <2>2. ASSUME NEW k \in 1..Len(t) PROVE t[k] = p[k]
    <3>1. k + 1 = 1 + k /\ k \in 1..Len(p)
      BY <2>1
    <3>2. QED BY <1>4, <1>7, <3>1
  <2>3. QED BY <1>7, <2>1, <2>2, SeqEqual
<1>9. QED BY <1>1, <1>3, <1>4, <1>5, <1>6, <1>8 DEF q, t

\* Two values are in two places.
LEMMA UnderTells ==
    ASSUME NEW i \in Nat, NEW p \in Seq(Nat), NEW j \in Nat, NEW q \in Seq(Nat), Under(i, p) = Under(j, q)
    PROVE  i = j /\ p = q
<1>1. Head(Under(i, p)) = i /\ Tail(Under(i, p)) = p /\ Head(Under(j, q)) = j /\ Tail(Under(j, q)) = q
  BY UnderIs, ZenonT(60)
<1>2. QED BY <1>1

\* The way there is the step into the part, and the way in it.
LEMMA WayUnder ==
    ASSUME NEW i \in Nat, NEW p \in Seq(Nat)
    PROVE  /\ \A k \in 0..Len(p) : Way(Under(i, p), 1 + k) = Under(i, Way(p, k))
           /\ Way(Under(i, p), 0) = <<>> /\ Way(p, 0) = <<>>
<1> DEFINE q == Under(i, p)
<1>1. q \in Seq(Nat) /\ Len(q) = 1 + Len(p) /\ Len(p) \in Nat /\ q[1] = i /\ \A k \in 1..Len(p) : q[1 + k] = p[k]
  BY UnderIs
<1> HIDE DEF q
<1>2. ASSUME NEW k \in 0..Len(p) PROVE Way(q, 1 + k) = Under(i, Way(p, k))
  <2> DEFINE v == Way(q, 1 + k)
             w == Way(p, k)
             u == Under(i, w)
  <2>1. 1 + k \in 0..Len(q) /\ k \in Nat
    BY <1>1
  <2>2. /\ v \in Seq(Nat) /\ Len(v) = 1 + k /\ \A m \in 1..1+k : v[m] = q[m]
    BY <1>1, <2>1, WayIs, Zenon
  <2>3. w \in Seq(Nat) /\ Len(w) = k /\ \A m \in 1..k : w[m] = p[m]
    BY WayIs, Zenon
  <2> HIDE DEF v, w
  <2>4. u \in Seq(Nat) /\ Len(u) = 1 + Len(w) /\ u[1] = i /\ \A m \in 1..Len(w) : u[1 + m] = w[m]
    BY <2>3, UnderIs, ZenonT(60)
  <2> HIDE DEF u
  <2>5. ASSUME NEW m \in 1..1+k PROVE v[m] = u[m]
    <3>1. CASE m = 1
      BY <1>1, <2>2, <2>4, <3>1
    <3>2. CASE m # 1
      <4>1. m - 1 \in 1..k /\ m - 1 \in 1..Len(p) /\ m - 1 \in 1..Len(w) /\ 1 + (m - 1) = m
        BY <1>1, <2>1, <2>3, <3>2
      <4> DEFINE n == m - 1
      <4>2. v[m] = q[1 + n]
        BY <2>2, <4>1
      <4>3. u[m] = w[n]
        BY <2>4, <4>1
      <4>4. q[1 + n] = p[n] /\ w[n] = p[n]
        BY <1>1, <2>3, <4>1
      <4>5. QED BY <4>2, <4>3, <4>4
    <3>3. QED BY <3>1, <3>2
  <2>6. v = u
    <3>1. Len(v) = 1 + k /\ Len(u) = 1 + k
      BY <2>2, <2>3, <2>4
    <3>2. QED BY <2>2, <2>4, <2>5, <3>1, SeqEqual, Zenon
  <2>7. QED BY <2>6 DEF v, w, u
<1>3. Way(q, 0) = <<>> /\ Way(p, 0) = <<>>
  <2>1. 0 \in 0..Len(q) /\ 0 \in 0..Len(p)
    BY <1>1
  <2>2. Way(q, 0) \in Seq(Nat) /\ Len(Way(q, 0)) = 0 /\ Way(p, 0) \in Seq(Nat) /\ Len(Way(p, 0)) = 0
    BY <1>1, <2>1, WayIs, Zenon
  <2>3. QED BY <2>2
<1>4. QED BY <1>2, <1>3 DEF q

\* The members an object is made of, n of them.
Members(n, ms) ==
    /\ n \in Nat /\ DOMAIN ms = 1..n
    /\ \A i \in 1..n : IsDocument(ms[i].value) /\ ms[i].key \in Seq(Points)

\* The object has each value of each part in its place, and no more (json.Marshal).
LEMMA ObjectIs ==
    ASSUME NEW n, NEW ms, Members(n, ms)
    PROVE  /\ Object(ms) = [place \in DOMAIN Object(ms) |-> Object(ms)[place]]
           /\ <<>> \in DOMAIN Object(ms) /\ Object(ms)[<<>>] = [value |-> "object", key |-> NoKey]
           /\ \A q \in DOMAIN Object(ms) : q = <<>> \/ \E i \in 1..n : \E p \in DOMAIN ms[i].value : q = Under(i, p)
           /\ \A i \in 1..n : \A p \in DOMAIN ms[i].value :
                /\ Under(i, p) \in DOMAIN Object(ms)
                /\ Object(ms)[Under(i, p)] =
                        [value |-> ms[i].value[p].value,
                         key   |-> IF p = <<>> THEN ms[i].key ELSE ms[i].value[p].key]
           /\ IsFiniteSet(DOMAIN Object(ms))
<1> DEFINE keys == [m \in DOMAIN ms |-> ms[m].key]
           parts == [m \in DOMAIN ms |-> ms[m].value]
           In(i) == {<<i>> \o p : p \in DOMAIN parts[i]}
           Ins == {In(i) : i \in DOMAIN parts}
           inner == UNION Ins
           Inner(i, p) == [value |-> parts[i][p].value,
                           key   |-> IF p = <<>> THEN keys[i] ELSE parts[i][p].key]
           g(place) == IF place = <<>> THEN [value |-> "object", key |-> NoKey]
                       ELSE Inner(Head(place), Tail(place))
           o == Object(ms)
<1>1. o = [place \in {<<>>} \cup inner |-> g(place)]
  BY DEF Object, Compound
<1>2. DOMAIN ms = 1..n /\ DOMAIN parts = 1..n /\ n \in Nat
  BY DEF Members
<1>3. \A i \in 1..n : parts[i] = ms[i].value /\ keys[i] = ms[i].key
  BY <1>2
<1>4. \A i \in 1..n : i \in Nat /\ IsFiniteSet(DOMAIN ms[i].value) /\ DOMAIN ms[i].value \subseteq Seq(Nat)
  <2> SUFFICES ASSUME NEW i \in 1..n
               PROVE i \in Nat /\ IsFiniteSet(DOMAIN ms[i].value) /\ DOMAIN ms[i].value \subseteq Seq(Nat)
    OBVIOUS
  <2>1. IsDocument(ms[i].value)
    BY DEF Members
  <2>2. IsFiniteSet(DOMAIN ms[i].value) /\ DOMAIN ms[i].value \subseteq Seq(Nat)
    BY <2>1, Zenon DEF IsDocument
  <2>3. i \in Nat
    BY <1>2
  <2>4. QED BY <2>2, <2>3
<1>5. \A i \in 1..n : \A p \in DOMAIN ms[i].value :
        /\ Under(i, p) # <<>> /\ Head(Under(i, p)) = i /\ Tail(Under(i, p)) = p
  BY <1>4, UnderIs
<1> HIDE DEF keys, parts
<1>6. \A i \in 1..n : In(i) = {Under(i, p) : p \in DOMAIN ms[i].value}
  BY <1>3 DEF Under
<1>7. \A i \in 1..n : \A p \in DOMAIN ms[i].value :
        g(Under(i, p)) = [value |-> ms[i].value[p].value,
                          key   |-> IF p = <<>> THEN ms[i].key ELSE ms[i].value[p].key]
  BY <1>3, <1>5, Zenon
<1> HIDE DEF In, g
<1>8. Ins = {In(i) : i \in 1..n}
  BY <1>2
<1>9. \A q \in inner : \E i \in 1..n : \E p \in DOMAIN ms[i].value : q = Under(i, p)
  BY <1>6, <1>8
<1>10. \A i \in 1..n : \A p \in DOMAIN ms[i].value : Under(i, p) \in inner
  <2> SUFFICES ASSUME NEW i \in 1..n, NEW p \in DOMAIN ms[i].value PROVE Under(i, p) \in inner
    OBVIOUS
  <2>1. Under(i, p) \in In(i)
    BY <1>6
  <2>2. In(i) \in Ins
    BY <1>8
  <2>3. QED BY <2>1, <2>2
<1>11. IsFiniteSet(inner)
  <2>1. \A i \in 1..n : IsFiniteSet(In(i))
    <3> SUFFICES ASSUME NEW i \in 1..n PROVE IsFiniteSet(In(i))
      OBVIOUS
    <3> DEFINE S == DOMAIN ms[i].value
               f == [p \in S |-> Under(i, p)]
    <3>1. f \in Surjection(S, In(i))
      BY <1>6 DEF Surjection
    <3>2. IsFiniteSet(S)
      BY <1>4
    <3> HIDE DEF f, S
    <3>3. QED BY <3>1, <3>2, FS_Surjection, Zenon
  <2>2. IsFiniteSet(Ins)
    <3> DEFINE S == 1..n
               f == [i \in S |-> In(i)]
    <3>1. f \in Surjection(S, Ins)
      BY <1>8 DEF Surjection
    <3>2. IsFiniteSet(S)
      BY <1>2, FS_Interval
    <3> HIDE DEF f, S, Ins
    <3>3. QED BY <3>1, <3>2, FS_Surjection, Zenon
  <2>3. \A T \in Ins : IsFiniteSet(T)
    BY <1>8, <2>1
  <2> HIDE DEF Ins
  <2>4. QED BY <2>2, <2>3, FS_UNION, Zenon
<1>12. <<>> \notin inner
  BY <1>5, <1>9, Zenon
<1> HIDE DEF Ins, inner, o
<1>13. DOMAIN o = {<<>>} \cup inner /\ \A q \in {<<>>} \cup inner : o[q] = g(q)
  BY <1>1
<1>14. o = [place \in DOMAIN o |-> o[place]]
  BY <1>1
<1>15. IsFiniteSet(DOMAIN o)
  <2>1. IsFiniteSet(inner \cup {<<>>})
    BY <1>11, FS_AddElement, Zenon
  <2>2. inner \cup {<<>>} = {<<>>} \cup inner
    OBVIOUS
  <2>3. QED BY <1>13, <2>1, <2>2
<1>16. g(<<>>) = [value |-> "object", key |-> NoKey]
  BY DEF g
<1>17. <<>> \in DOMAIN o /\ o[<<>>] = [value |-> "object", key |-> NoKey]
  BY <1>13, <1>16
<1>18. \A q \in DOMAIN o : q = <<>> \/ \E i \in 1..n : \E p \in DOMAIN ms[i].value : q = Under(i, p)
  BY <1>9, <1>13
<1>19. \A i \in 1..n : \A p \in DOMAIN ms[i].value :
        /\ Under(i, p) \in DOMAIN o
        /\ o[Under(i, p)] = [value |-> ms[i].value[p].value,
                             key   |-> IF p = <<>> THEN ms[i].key ELSE ms[i].value[p].key]
  <2> SUFFICES ASSUME NEW i \in 1..n, NEW p \in DOMAIN ms[i].value
               PROVE  /\ Under(i, p) \in DOMAIN o
                      /\ o[Under(i, p)] = [value |-> ms[i].value[p].value,
                             key   |-> IF p = <<>> THEN ms[i].key ELSE ms[i].value[p].key]
    OBVIOUS
  <2>1. Under(i, p) \in inner
    BY <1>10
  <2>2. Under(i, p) \in DOMAIN o /\ o[Under(i, p)] = g(Under(i, p))
    BY <1>13, <2>1
  <2>3. QED BY <1>7, <2>2, Zenon
<1>20. QED BY <1>14, <1>15, <1>17, <1>18, <1>19, Zenon DEF o

\* No key is the mark of what has none.
LEMMA KeyIsNone == \A key \in Seq(Points) : key # NoKey
<1>1. -1 \notin Points
  BY DEF Points
<1>2. SUFFICES ASSUME NEW key \in Seq(Points), key = <<-1>> PROVE FALSE
  BY DEF NoKey
<1>3. Len(key) = 1 /\ key[1] = -1
  BY <1>2
<1>4. key[1] \in Points
  BY <1>3
<1>5. QED BY <1>1, <1>3, <1>4

\* What IsDocument says of a place.
LEMMA DocumentHas ==
    ASSUME NEW d, IsDocument(d)
    PROVE  /\ <<>> \in DOMAIN d /\ ~IsMember(d, <<>>)
           /\ \A p \in DOMAIN d :
                /\ p \in Seq(Nat) /\ d[p].value \in Leaves \cup {"array", "object"}
                /\ d[p].key \in Seq(Points) \/ d[p].key = NoKey
                /\ \A k \in 1..Len(p) :
                    /\ Way(p, k - 1) \in DOMAIN d
                    /\ d[Way(p, k - 1)].value \in {"array", "object"}
                    /\ IsMember(d, Way(p, k)) <=> d[Way(p, k - 1)].value = "object"
<1>1. /\ DOMAIN d \subseteq Seq(Nat) /\ <<>> \in DOMAIN d /\ ~IsMember(d, <<>>)
      /\ \A p \in DOMAIN d :
            /\ d[p].value \in Leaves \cup {"array", "object"}
            /\ d[p].key \in Seq(Points) \/ d[p].key = NoKey
            /\ \A k \in 1..Len(p) :
                /\ Way(p, k - 1) \in DOMAIN d
                /\ d[Way(p, k - 1)].value \in {"array", "object"}
                /\ IsMember(d, Way(p, k)) <=> d[Way(p, k - 1)].value = "object"
  BY Zenon DEF IsDocument
<1>2. \A p \in DOMAIN d : p \in Seq(Nat)
  BY <1>1
<1>3. QED BY <1>1, <1>2, Zenon

\* What an object has of a part.
InObject(o, i, p, part, key) ==
    /\ Under(i, p) \in DOMAIN o /\ o[Under(i, p)].value = part[p].value
    /\ o[Under(i, p)] = [value |-> o[Under(i, p)].value, key |-> o[Under(i, p)].key]
    /\ p = <<>> => o[Under(i, p)].key = key
    /\ p # <<>> => o[Under(i, p)].key = part[p].key
    /\ IsMember(o, Under(i, p)) <=> p = <<>> \/ IsMember(part, p)

\* A value of a part is in the object as it was; the part itself gets the key.
LEMMA ObjectHas ==
    ASSUME NEW n, NEW ms, Members(n, ms), NEW i \in 1..n, NEW p \in DOMAIN ms[i].value
    PROVE  /\ i \in Nat /\ p \in Seq(Nat) /\ IsDocument(ms[i].value) /\ ms[i].key \in Seq(Points)
           /\ InObject(Object(ms), i, p, ms[i].value, ms[i].key)
<1> DEFINE o == Object(ms)
           part == ms[i].value
           q == Under(i, p)
<1>1. IsDocument(part) /\ ms[i].key \in Seq(Points) /\ n \in Nat
  BY DEF Members
<1>2. p \in Seq(Nat)
  BY <1>1, DocumentHas, Zenon
<1>3. i \in Nat
  BY <1>1
<1>4. /\ q \in DOMAIN o
      /\ o[q] = [value |-> part[p].value, key |-> IF p = <<>> THEN ms[i].key ELSE part[p].key]
  BY ObjectIs
<1> HIDE DEF q, o, part
<1>5. /\ o[q].value = part[p].value /\ o[q].key = (IF p = <<>> THEN ms[i].key ELSE part[p].key)
      /\ o[q] = [value |-> o[q].value, key |-> o[q].key]
  BY <1>4
<1>6. ms[i].key # NoKey
  BY <1>1, KeyIsNone, Zenon
<1>7. IsMember(o, q) <=> p = <<>> \/ IsMember(part, p)
  BY <1>5, <1>6, Zenon DEF IsMember
<1>8. InObject(o, i, p, part, ms[i].key)
  BY <1>4, <1>5, <1>7, Zenon DEF InObject, q
<1>9. QED BY <1>1, <1>2, <1>3, <1>8, Zenon DEF o, part

\* An object of documents is a document: a body made of what the application gave
\* is one (GatewayCreateRequest, gateway.go:78).
LEMMA ObjectDocument ==
    ASSUME NEW n, NEW ms, Members(n, ms)
    PROVE  IsDocument(Object(ms))
<1> DEFINE o == Object(ms)
<1>1. /\ o = [place \in DOMAIN o |-> o[place]] /\ IsFiniteSet(DOMAIN o)
      /\ <<>> \in DOMAIN o /\ o[<<>>] = [value |-> "object", key |-> NoKey]
      /\ \A q \in DOMAIN o : q = <<>> \/ \E i \in 1..n : \E p \in DOMAIN ms[i].value : q = Under(i, p)
  BY ObjectIs
<1> HIDE DEF o
<1>2. ~IsMember(o, <<>>) /\ o[<<>>].value = "object" /\ o[<<>>].key = NoKey
      /\ o[<<>>] = [value |-> o[<<>>].value, key |-> o[<<>>].key]
  BY <1>1 DEF IsMember
<1> DEFINE OK(q) ==
        /\ q \in Seq(Nat)
        /\ o[q] = [value |-> o[q].value, key |-> o[q].key]
        /\ o[q].value \in Leaves \cup {"array", "object"}
        /\ o[q].key \in Seq(Points) \/ o[q].key = NoKey
        /\ \A k \in 1..Len(q) :
            /\ Way(q, k - 1) \in DOMAIN o
            /\ o[Way(q, k - 1)].value \in {"array", "object"}
            /\ IsMember(o, Way(q, k)) <=> o[Way(q, k - 1)].value = "object"
<1>3. OK(<<>>)
  BY <1>2
<1>4. ASSUME NEW i \in 1..n, NEW p \in DOMAIN ms[i].value PROVE OK(Under(i, p))
  <2> DEFINE q == Under(i, p)
             part == ms[i].value
  <2>a. /\ i \in Nat /\ p \in Seq(Nat) /\ IsDocument(part) /\ ms[i].key \in Seq(Points)
    BY ObjectHas, Zenon
  <2>b. \A r \in DOMAIN part : InObject(o, i, r, part, ms[i].key)
    BY ObjectHas, Zenon DEF o
  <2>1. /\ i \in Nat /\ p \in Seq(Nat) /\ IsDocument(part) /\ o[q].value = part[p].value
        /\ o[q] = [value |-> o[q].value, key |-> o[q].key]
        /\ p = <<>> => o[q].key = ms[i].key /\ ms[i].key \in Seq(Points)
        /\ p # <<>> => o[q].key = part[p].key
    BY <2>a, <2>b, Zenon DEF InObject
  <2>2. /\ part[p].value \in Leaves \cup {"array", "object"}
        /\ part[p].key \in Seq(Points) \/ part[p].key = NoKey
        /\ \A k \in 1..Len(p) :
            /\ Way(p, k - 1) \in DOMAIN part
            /\ part[Way(p, k - 1)].value \in {"array", "object"}
            /\ IsMember(part, Way(p, k)) <=> part[Way(p, k - 1)].value = "object"
    BY <2>1, DocumentHas, Zenon
  <2>3. q \in Seq(Nat) /\ Len(q) = 1 + Len(p) /\ Len(p) \in Nat
    BY <2>1, UnderIs, ZenonT(60)
  <2>4. o[q].value \in Leaves \cup {"array", "object"} /\ (o[q].key \in Seq(Points) \/ o[q].key = NoKey)
    BY <2>1, <2>2, Zenon
  <2>w. /\ \A k \in 0..Len(p) : Way(q, 1 + k) = Under(i, Way(p, k))
        /\ Way(q, 0) = <<>> /\ Way(p, 0) = <<>>
    BY <2>1, WayUnder, Zenon
  <2> HIDE DEF q, part
  <2>5. ASSUME NEW k \in 1..Len(q)
        PROVE  /\ Way(q, k - 1) \in DOMAIN o
               /\ o[Way(q, k - 1)].value \in {"array", "object"}
               /\ IsMember(o, Way(q, k)) <=> o[Way(q, k - 1)].value = "object"
    <3>1. CASE k = 1
      <4>1. Way(q, k - 1) = <<>> /\ Way(q, k) = Under(i, <<>>)
        <5>1. 0 \in 0..Len(p) /\ k - 1 = 0 /\ k = 1 + 0
          BY <2>3, <3>1
        <5>2. QED BY <2>w, <5>1
      <4>2. <<>> \in DOMAIN part
        BY <2>1, DocumentHas, Zenon
      <4>3. IsMember(o, Under(i, <<>>))
        BY <2>b, <4>2, Zenon DEF InObject
      <4>4. QED BY <1>1, <1>2, <4>1, <4>3
    <3>2. CASE k # 1
      <4> DEFINE j == k - 1
      <4>1. j \in 1..Len(p) /\ j \in 0..Len(p) /\ j - 1 \in 0..Len(p) /\ k = 1 + j /\ k - 1 = 1 + (j - 1) /\ j # 0
        BY <2>3, <3>2
      <4> HIDE DEF j
      <4>2. Way(q, k - 1) = Under(i, Way(p, j - 1)) /\ Way(q, k) = Under(i, Way(p, j))
        BY <2>w, <4>1
      <4>3. /\ Way(p, j - 1) \in DOMAIN part /\ part[Way(p, j - 1)].value \in {"array", "object"}
            /\ IsMember(part, Way(p, j)) <=> part[Way(p, j - 1)].value = "object"
        BY <2>2, <4>1, Zenon
      <4>4. Way(p, j) \in DOMAIN part /\ Way(p, j) # <<>>
        <5>1. Way(p, j) \in DOMAIN part
          BY <2>1, <4>1, DocumentIs, Zenon DEF part
        <5>2. Len(Way(p, j)) = j
          BY <2>1, <4>1, WayIs, Zenon
        <5>3. QED BY <4>1, <5>1, <5>2
      <4>5. /\ Under(i, Way(p, j - 1)) \in DOMAIN o
            /\ o[Under(i, Way(p, j - 1))].value = part[Way(p, j - 1)].value
        BY <2>b, <4>3, Zenon DEF InObject
      <4>6. IsMember(o, Under(i, Way(p, j))) <=> IsMember(part, Way(p, j))
        <5>1. IsMember(o, Under(i, Way(p, j))) <=> Way(p, j) = <<>> \/ IsMember(part, Way(p, j))
          BY <2>b, <4>4, Zenon DEF InObject
        <5>2. QED BY <4>4, <5>1, Zenon
      <4>7. QED BY <4>2, <4>3, <4>5, <4>6
    <3>3. QED BY <3>1, <3>2
  <2>6. QED BY <2>1, <2>3, <2>4, <2>5, Zenon DEF q
<1> HIDE DEF OK
<1>5. \A q \in DOMAIN o : OK(q)
  BY <1>1, <1>3, <1>4, Zenon
<1>6. DOMAIN o \subseteq Seq(Nat)
  BY <1>5 DEF OK
<1>7. IsDocument(o)
  BY <1>1, <1>2, <1>5, <1>6, Zenon DEF IsDocument, OK
<1>8. QED BY <1>7 DEF o
-----------------------------------------------------------------------------
(* Faults.                                                                 *)

\* Nothing of a document is refused.
Sound(d) ==
    /\ ~BadUnicode(d) /\ Faulty(d) = {} /\ ~ControlKey(d)

\* If a document has a fault, there is a first one, and it is what is reported.
LEMMA DecodeFaultIs ==
    ASSUME NEW d, IsDocument(d)
    PROVE  /\ DecodeFault(d) = "none" <=> Faulty(d) = {}
           /\ Faulty(d) # {} => \E p \in Faulty(d) : DecodeFault(d) = FaultAt(d, p) /\ FaultAt(d, p) # "none"
<1> DEFINE F == Faulty(d)
           First(p) == \A q \in F : ~Precedes(q, p)
<1>1. /\ F \subseteq DOMAIN d /\ \A p \in F : FaultAt(d, p) # "none"
  BY DEF Faulty
<1>2. IsFiniteSet(F) /\ F \subseteq Seq(Int)
  <2>1. IsFiniteSet(DOMAIN d) /\ DOMAIN d \subseteq Seq(Nat)
    BY Zenon DEF IsDocument
  <2>2. F \in SUBSET DOMAIN d
    BY <1>1
  <2>3. IsFiniteSet(F)
    BY <2>1, <2>2, FS_Subset, Zenon
  <2>4. Seq(Nat) \subseteq Seq(Int)
    OBVIOUS
  <2>5. QED BY <1>1, <2>1, <2>3, <2>4, Zenon
<1>3. ASSUME F # {} PROVE \E p \in F : First(p)
  <2>1. PICK p \in F : \A q \in F : <<q, p>> \notin LowerSeq
    BY <1>2, <1>3, LowerSeqIs, Minimal
  <2>2. \A q \in F : q \in Seq(Int) /\ p \in Seq(Int)
    BY <1>2
  <2>3. QED BY <2>1, <2>2, LowerSeqIs, Zenon
<1> DEFINE p0 == CHOOSE p \in F : First(p)
<1>4. F # {} => DecodeFault(d) = FaultAt(d, p0)
  BY Zenon DEF DecodeFault
<1>5. F = {} => DecodeFault(d) = "none"
  BY DEF DecodeFault
<1> HIDE DEF First, F
<1>6. F # {} => p0 \in F
  BY <1>3
<1>7. QED BY <1>1, <1>4, <1>5, <1>6, Zenon DEF F

\* A raw body is refused for nothing exactly if its document is sound and nothing
\* follows it; for a number, only if its texts were fine (CanonicalizeJSON).
LEMMA FaultIs ==
    ASSUME NEW d, IsDocument(d), NEW t
    PROVE  /\ Fault(Raw(d, t)) = "none" <=> Sound(d) /\ t # "other"
           /\ Fault(Raw(d, t)) \in {"fraction", "range"} =>
                ~BadUnicode(d) /\ Faulty(d) # {} /\ DecodeFault(d) = Fault(Raw(d, t))
<1>1. Raw(d, t).document = d /\ Raw(d, t).trailing = t
  BY DEF Raw
<1>2. Faulty(d) # {} => DecodeFault(d) # "none"
  BY DecodeFaultIs, Zenon
<1>3. Fault(Raw(d, t)) =
        IF BadUnicode(d) THEN "unicode"
        ELSE IF Faulty(d) # {} THEN DecodeFault(d)
        ELSE IF t = "other" THEN "trailing"
        ELSE IF ControlKey(d) THEN "control" ELSE "none"
  BY <1>1 DEF Fault
<1>4. QED BY <1>2, <1>3 DEF Sound

\* No place is faulty exactly if no key comes twice and no number is unfit.
LEMMA FaultyIs ==
    ASSUME NEW d
    PROVE  /\ Faulty(d) = {} <=> \A p \in DOMAIN d : ~Repeats(d, p) /\ d[p].value \notin Fractions \cup OutOfRange
           /\ \A p \in DOMAIN d : FaultAt(d, p) = "duplicate" <=> Repeats(d, p)
<1>1. \A p \in DOMAIN d : FaultAt(d, p) # "none" <=> Repeats(d, p) \/ d[p].value \in Fractions \cup OutOfRange
  BY DEF FaultAt
<1>2. \A p \in DOMAIN d : FaultAt(d, p) = "duplicate" <=> Repeats(d, p)
  BY DEF FaultAt
<1>3. Faulty(d) = {} <=> \A p \in DOMAIN d : FaultAt(d, p) = "none"
  BY DEF Faulty
<1>4. QED BY <1>1, <1>2, <1>3, Zenon

\* What is not refused has a canonical form that the theorems above are about.
LEMMA SoundIsClean ==
    ASSUME NEW d, IsDocument(d), Sound(d)
    PROVE  Clean(d)
BY FaultyIs, Zenon DEF Sound, Clean, Unique

\* Soundness, place by place.
LEMMA SoundIs ==
    ASSUME NEW d
    PROVE  Sound(d) <=>
             \A p \in DOMAIN d :
                /\ d[p].value \notin NotUnicode \cup Fractions \cup OutOfRange /\ ~Repeats(d, p)
                /\ \A i \in DOMAIN d[p].key : ~Control(d[p].key[i])
<1>1. BadUnicode(d) <=> \E p \in DOMAIN d : d[p].value \in NotUnicode
  BY DEF BadUnicode
<1>2. ControlKey(d) <=> \E p \in DOMAIN d : \E i \in DOMAIN d[p].key : Control(d[p].key[i])
  BY DEF ControlKey
<1> HIDE DEF Control
<1>3. QED BY <1>1, <1>2, FaultyIs DEF Sound

\* An object of sound documents, under different keys that are fit to print, is
\* sound: no check on the whole fails if those on the parts passed.
LEMMA ObjectSound ==
    ASSUME NEW n, NEW ms, Members(n, ms),
           \A i, j \in 1..n : ms[i].key = ms[j].key => i = j,
           \A i \in 1..n : Sound(ms[i].value) /\ \A k \in DOMAIN ms[i].key : ~Control(ms[i].key[k])
    PROVE  Sound(Object(ms)) /\ IsDocument(Object(ms))
<1> DEFINE o == Object(ms)
<1>1. /\ <<>> \in DOMAIN o /\ o[<<>>] = [value |-> "object", key |-> NoKey]
      /\ \A q \in DOMAIN o : q = <<>> \/ \E i \in 1..n : \E p \in DOMAIN ms[i].value : q = Under(i, p)
  BY ObjectIs
<1>2. IsDocument(o)
  BY ObjectDocument, Zenon
<1> DEFINE Fit(v) == v \notin NotUnicode \cup Fractions \cup OutOfRange
           Keyed(k) == \A i \in DOMAIN k : ~Control(k[i])
<1>3. o[<<>>].value = "object" /\ o[<<>>].key = NoKey
  BY <1>1
<1>4. Fit("object") /\ Keyed(NoKey) /\ ~Repeats(o, <<>>)
  <2>1. Fit("object")
    BY DEF NotUnicode, Fractions, OutOfRange
  <2>2. Keyed(NoKey)
    <3>1. DOMAIN NoKey = {1} /\ NoKey[1] = -1
      BY DEF NoKey
    <3>2. ~Control(-1)
      BY DEF Control
    <3>3. QED BY <3>1, <3>2
  <2>3. ~Repeats(o, <<>>)
    BY DEF Repeats, Siblings
  <2>4. QED BY <2>1, <2>2, <2>3
<1> HIDE DEF o, Control
<1>5. ASSUME NEW i \in 1..n, NEW p \in DOMAIN ms[i].value
      PROVE  Fit(o[Under(i, p)].value) /\ Keyed(o[Under(i, p)].key) /\ ~Repeats(o, Under(i, p))
  <2> DEFINE q == Under(i, p)
             part == ms[i].value
  <2>1. InObject(o, i, p, part, ms[i].key) /\ i \in Nat /\ p \in Seq(Nat) /\ IsDocument(part)
    BY ObjectHas, Zenon DEF o
  <2>2. Sound(part) /\ Keyed(ms[i].key)
    OBVIOUS
  <2>3. Fit(part[p].value) /\ Keyed(part[p].key) /\ ~Repeats(part, p)
    <3> HIDE DEF part
    <3>1. p \in DOMAIN part
      BY DEF part
    <3>2. QED BY <2>2, <3>1, SoundIs
  <2> HIDE DEF part, Fit, Keyed
  <2>4. Fit(o[q].value) /\ Keyed(o[q].key)
    <3>1. o[q].value = part[p].value /\ (o[q].key = ms[i].key \/ o[q].key = part[p].key)
      BY <2>1, Zenon DEF InObject
    <3>2. QED BY <2>2, <2>3, <3>1, Zenon
  <2>5. ASSUME Repeats(o, q) PROVE FALSE
    <3>1. PICK r \in DOMAIN o : Siblings(q, r) /\ At(r) < At(q) /\ IsMember(o, q) /\ o[r].key = o[q].key
      BY <2>5 DEF Repeats
    <3>2. Len(q) = Len(r) /\ \A k \in 1..Len(q) - 1 : q[k] = r[k]
      BY <3>1, Zenon DEF Siblings
    <3>3. q \in Seq(Nat) /\ Len(q) = 1 + Len(p) /\ Len(p) \in Nat /\ q[1] = i /\ \A k \in 1..Len(p) : q[1 + k] = p[k]
      BY <2>1, UnderIs, ZenonT(60)
    <3>4. r # <<>>
      <4>1. Len(r) # 0
        BY <3>2, <3>3
      <4>2. QED BY <4>1
    <3>5. PICK j \in 1..n : \E s \in DOMAIN ms[j].value : r = Under(j, s)
      BY <1>1, <3>4, Zenon
    <3>6. PICK s \in DOMAIN ms[j].value : r = Under(j, s)
      BY <3>5
    <3>7. /\ InObject(o, j, s, ms[j].value, ms[j].key) /\ j \in Nat /\ s \in Seq(Nat)
      BY ObjectHas, Zenon DEF o
    <3> HIDE DEF q
    <3>8. Len(r) = 1 + Len(s) /\ Len(s) \in Nat /\ r[1] = j /\ \A k \in 1..Len(s) : r[1 + k] = s[k]
      <4> DEFINE u == Under(j, s)
      <4>1. Len(u) = 1 + Len(s) /\ Len(s) \in Nat /\ u[1] = j /\ \A k \in 1..Len(s) : u[1 + k] = s[k]
        BY <3>7, UnderIs, ZenonT(60)
      <4> HIDE DEF u
      <4>2. r = u
        BY <3>6 DEF u
      <4>3. QED BY <4>1, <4>2
    <3>9. Len(p) = Len(s) /\ (p = <<>> <=> Len(p) = 0) /\ (s = <<>> <=> Len(s) = 0)
      <4>1. Len(p) = Len(s)
        <5>1. 1 + Len(p) = 1 + Len(s) /\ Len(p) \in Nat /\ Len(s) \in Nat
          BY <3>2, <3>3, <3>8, Zenon
        <5>2. QED BY <5>1
      <4>2. p \in Seq(Nat) /\ s \in Seq(Nat)
        BY <2>1, <3>7
      <4>3. QED BY <4>1, <4>2
    <3>10. CASE Len(p) = 0
      <4>1. p = <<>> /\ s = <<>>
        BY <3>9, <3>10
      <4>2. ms[i].key = ms[j].key
        BY <2>1, <3>1, <3>6, <3>7, <4>1, Zenon DEF InObject, q
      <4>3. i = j
        BY <4>2
      <4>4. q = r
        BY <3>6, <4>1, <4>3, Zenon DEF q
      <4>5. At(q) = i
        BY <3>3, <3>10 DEF At
      <4>6. QED BY <2>1, <3>1, <4>4, <4>5
    <3>11. CASE Len(p) # 0
      <4>1. 1 \in 1..Len(q)-1
        BY <3>3, <3>11
      <4>2. i = j
        BY <3>2, <3>3, <3>8, <4>1
      <4>3. s \in DOMAIN part /\ InObject(o, i, s, part, ms[i].key)
        BY <3>7, <4>2, Zenon DEF part
      <4>4. p # <<>> /\ s # <<>>
        BY <3>9, <3>11
      <4>5. part[s].key = part[p].key /\ IsMember(part, p)
        <5>1. o[q].key = part[p].key /\ (IsMember(o, q) => IsMember(part, p))
          BY <2>1, <4>4, Zenon DEF InObject, q
        <5>2. o[r].key = part[s].key
          BY <3>6, <4>2, <4>3, <4>4, Zenon DEF InObject
        <5>3. QED BY <3>1, <5>1, <5>2, Zenon
      <4>6. At(q) = At(p) /\ At(r) = At(s)
        <5>1. Len(p) \in 1..Len(p) /\ Len(s) \in 1..Len(s)
          BY <3>3, <3>9, <3>11
        <5>2. q[1 + Len(p)] = p[Len(p)] /\ r[1 + Len(s)] = s[Len(s)]
          BY <3>3, <3>8, <5>1
        <5>3. QED BY <3>3, <3>8, <5>2, Zenon DEF At
      <4>7. Siblings(p, s)
        <5>1. ASSUME NEW k \in 1..Len(p)-1 PROVE p[k] = s[k]
          <6>1. 1 + k \in 1..Len(q)-1 /\ k \in 1..Len(p) /\ k \in 1..Len(s)
            BY <3>3, <3>9
          <6>2. QED BY <3>2, <3>3, <3>8, <6>1
        <5>2. QED BY <3>9, <4>4, <5>1, Zenon DEF Siblings
      <4>8. At(s) < At(p)
        BY <3>1, <4>6
      <4>9. Repeats(part, p)
        BY <4>3, <4>5, <4>7, <4>8, Zenon DEF Repeats
      <4>10. QED BY <2>3, <4>9
    <3>12. QED BY <3>10, <3>11
  <2>6. QED BY <2>4, <2>5 DEF q
<1>6. \A q \in DOMAIN o : Fit(o[q].value) /\ Keyed(o[q].key) /\ ~Repeats(o, q)
  <2> HIDE DEF Fit, Keyed
  <2> SUFFICES ASSUME NEW q \in DOMAIN o PROVE Fit(o[q].value) /\ Keyed(o[q].key) /\ ~Repeats(o, q)
    OBVIOUS
  <2>1. CASE q = <<>>
    BY <1>3, <1>4, <2>1
  <2>2. CASE q # <<>>
    <3>1. PICK i \in 1..n : \E p \in DOMAIN ms[i].value : q = Under(i, p)
      BY <1>1, <2>2, Zenon
    <3>2. PICK p \in DOMAIN ms[i].value : q = Under(i, p)
      BY <3>1
    <3>3. QED BY <1>5, <3>2
  <2>3. QED BY <2>1, <2>2
<1>7. Sound(o)
  BY <1>6, SoundIs
<1>8. QED BY <1>2, <1>7 DEF o
-----------------------------------------------------------------------------
(* What is canonical already.                                              *)

\* The canonical form is a document, in which no key comes twice.
LEMMA CanonicalDocument ==
    ASSUME NEW d, Clean(d)
    PROVE  Clean(Canonical(d))
<1> DEFINE c == Canonical(d)
<1>1. Unique(d) /\ IsDocument(d) /\ ~BadUnicode(d)
  BY DEF Clean, Unique
<1>2. c = [s \in DOMAIN c |-> c[s]] /\ DOMAIN c = {Seat(d, p) : p \in DOMAIN d}
  BY <1>1, CanonicalIs, Zenon
<1>3. \A s \in DOMAIN c : \E p \in DOMAIN d : s = Seat(d, p)
  BY <1>2
<1>4. \A p \in DOMAIN d : Seat(d, p) \in DOMAIN c /\ c[Seat(d, p)] = d[p]
  BY CanonicalOf, Zenon
<1>5. \A p \in DOMAIN d : IsMember(c, Seat(d, p)) <=> IsMember(d, p)
  BY CanonicalOf, Zenon
<1>6. IsFiniteSet(DOMAIN c)
  <2> DEFINE f == [p \in DOMAIN d |-> Seat(d, p)]
  <2>1. f \in Surjection(DOMAIN d, DOMAIN c)
    BY <1>2 DEF Surjection
  <2> HIDE DEF f, c
  <2>2. IsFiniteSet(DOMAIN d)
    BY <1>1 DEF IsDocument
  <2>3. QED
    BY <2>1, <2>2, FS_Surjection, Zenon
<1>7. ASSUME NEW p \in DOMAIN d
      PROVE  /\ Seat(d, p) \in Seq(Nat) /\ Len(Seat(d, p)) = Len(p)
             /\ p \in Seq(Nat) /\ Len(p) \in Nat
  BY <1>1, SeatIs, DocumentIs, Zenon
<1>8. <<>> \in DOMAIN c /\ ~IsMember(c, <<>>)
  <2>1. <<>> \in DOMAIN d /\ ~IsMember(d, <<>>)
    BY <1>1, DocumentHas, Zenon
  <2>2. Seat(d, <<>>) = <<>>
    BY <2>1, <1>7
  <2>3. Seat(d, <<>>) \in DOMAIN c /\ ~IsMember(c, Seat(d, <<>>))
    BY <2>1, <1>4, <1>5, Zenon
  <2> HIDE DEF c
  <2>4. QED
    BY <2>2, <2>3
<1> DEFINE Node(s) ==
        /\ c[s] = [value |-> c[s].value, key |-> c[s].key]
        /\ c[s].value \in Leaves \cup {"array", "object"}
        /\ c[s].key \in Seq(Points) \/ c[s].key = NoKey
           On(s, k) ==
        /\ Way(s, k - 1) \in DOMAIN c
        /\ c[Way(s, k - 1)].value \in {"array", "object"}
        /\ IsMember(c, Way(s, k)) <=> c[Way(s, k - 1)].value = "object"
<1>9. ASSUME NEW s \in DOMAIN c PROVE Node(s)
  <2>1. PICK p \in DOMAIN d : s = Seat(d, p)
    BY <1>3
  <2>2. c[s] = d[p]
    BY <2>1, <1>4
  <2>3. /\ d[p] = [value |-> d[p].value, key |-> d[p].key]
        /\ d[p].value \in Leaves \cup {"array", "object"}
        /\ d[p].key \in Seq(Points) \/ d[p].key = NoKey
    BY <1>1 DEF IsDocument
  <2> HIDE DEF c
  <2>4. QED
    BY <2>2, <2>3, Zenon
<1>10. ASSUME NEW s \in DOMAIN c, NEW k \in 1..Len(s) PROVE On(s, k)
  <2>1. PICK p \in DOMAIN d : s = Seat(d, p)
    BY <1>3
  <2>2. k \in 1..Len(p) /\ k \in 0..Len(p) /\ k - 1 \in 0..Len(p)
    BY <2>1, <1>7
  <2> DEFINE w == Way(p, k - 1)
             v == Way(p, k)
  <2>3. Way(s, k - 1) = Seat(d, w) /\ w \in DOMAIN d
    BY <1>1, <2>1, <2>2, WayOfSeat, Zenon
  <2>4. Way(s, k) = Seat(d, v) /\ v \in DOMAIN d
    BY <1>1, <2>1, <2>2, WayOfSeat, Zenon
  <2>5. d[w].value \in {"array", "object"} /\ (IsMember(d, v) <=> d[w].value = "object")
    BY <1>1, <2>2, DocumentHas, Zenon
  <2>6. Seat(d, w) \in DOMAIN c /\ c[Seat(d, w)] = d[w]
    BY <2>3, <1>4, Zenon
  <2>7. IsMember(c, Seat(d, v)) <=> IsMember(d, v)
    BY <2>4, <1>5, Zenon
  <2> HIDE DEF w, v, c
  <2>8. QED
    BY <2>3, <2>4, <2>5, <2>6, <2>7
<1>11. \A s \in DOMAIN c : Node(s) /\ \A k \in 1..Len(s) : On(s, k)
  BY <1>9, <1>10, Zenon
<1>12. DOMAIN c \subseteq Seq(Nat)
  BY <1>3, <1>7
<1>13. IsDocument(c)
  <2> HIDE DEF c
  <2>1. QED
    BY <1>2, <1>6, <1>8, <1>11, <1>12, Zenon DEF IsDocument
<1>14. ~BadUnicode(c)
  <2>1. \A p \in DOMAIN d : d[p].value \notin NotUnicode
    BY <1>1 DEF BadUnicode
  <2>2. \A s \in DOMAIN c : \E p \in DOMAIN d : c[s] = d[p]
    BY <1>3, <1>4, Zenon
  <2> HIDE DEF c
  <2>3. QED
    BY <2>1, <2>2 DEF BadUnicode
<1>15. InRFCOrder(c)
  BY CanonicalInOrder, Zenon
<1> HIDE DEF c
<1>16. ASSUME NEW s \in DOMAIN c, Repeats(c, s) PROVE FALSE
  <2>1. PICK q \in DOMAIN c : Siblings(s, q) /\ At(q) < At(s) /\ IsMember(c, s) /\ c[q].key = c[s].key
    BY <1>16, Zenon DEF Repeats
  <2>2. Siblings(q, s)
    BY <1>13, <2>1, SiblingsInDocument, Zenon
  <2>3. IsMember(c, q)
    BY <2>1, Zenon DEF IsMember
  <2>4. KeyBefore(c[q].key, c[s].key)
    BY <1>15, <2>1, <2>2, <2>3, Zenon DEF InRFCOrder
  <2>5. c[s].key \in Seq(Points)
    BY <1>13, <2>1, DocumentIs, Zenon
  <2>6. ~KeyBefore(c[s].key, c[s].key)
    BY <2>5, KeyOrder, Zenon
  <2>7. QED
    BY <2>1, <2>4, <2>6, Zenon
<1>17. Clean(c)
  BY <1>13, <1>14, <1>16 DEF Clean, Unique
<1>18. QED
  BY <1>17 DEF c

\* The canonical form of a canonical form is itself: who canonicalizes what was
\* signed, a server with a jcs of its own, gets the same bytes (CanonicalizeJSON).
THEOREM CanonicalAgain ==
    ASSUME NEW d, Clean(d)
    PROVE  Canonical(Canonical(d)) = Canonical(d)
<1>1. Clean(Canonical(d)) /\ SameValue(Canonical(d), d)
  BY CanonicalDocument, CanonicalSays, Zenon
<1>2. QED
  BY <1>1, CanonicalSeparates, Zenon

\* ... and is not refused them: no fault comes in by the writing (validateJCSKey,
\* validateRawJSONUnicode and decodeJSONValue, on what writeJCS wrote).
THEOREM CanonicalIsTaken ==
    ASSUME NEW d, IsDocument(d), Sound(d)
    PROVE  Fault(Raw(Canonical(d), "none")) = "none"
<1> DEFINE c == Canonical(d)
<1>1. Clean(d)
  BY SoundIsClean, Zenon
<1>2. Clean(c) /\ IsDocument(c)
  <2>1. Clean(c)
    BY <1>1, CanonicalDocument, Zenon
  <2>2. QED
    BY <2>1 DEF Clean, Unique
<1>3. ASSUME NEW s \in DOMAIN c PROVE \E p \in DOMAIN d : c[s] = d[p]
  <2>1. DOMAIN c = {Seat(d, p) : p \in DOMAIN d}
    BY <1>1, CanonicalIs, Zenon DEF Clean
  <2>2. PICK p \in DOMAIN d : s = Seat(d, p)
    BY <2>1
  <2>3. c[s] = d[p]
    BY <1>1, <2>2, CanonicalOf, Zenon
  <2>4. QED
    BY <2>3
<1>4. \A p \in DOMAIN d :
        /\ d[p].value \notin NotUnicode \cup Fractions \cup OutOfRange
        /\ \A i \in DOMAIN d[p].key : ~Control(d[p].key[i])
  BY SoundIs, Zenon
<1>5. \A s \in DOMAIN c : ~Repeats(c, s)
  BY <1>2, Zenon DEF Clean, Unique
<1>6. \A s \in DOMAIN c :
        /\ c[s].value \notin NotUnicode \cup Fractions \cup OutOfRange
        /\ \A i \in DOMAIN c[s].key : ~Control(c[s].key[i])
  <2> HIDE DEF c
  <2>1. QED
    BY <1>3, <1>4, Zenon
<1>7. Sound(c)
  <2> HIDE DEF c
  <2>1. QED
    BY <1>5, <1>6, SoundIs, Zenon
<1> HIDE DEF c
<1>8. Fault(Raw(c, "none")) = "none"
  BY <1>2, <1>7, FaultIs
<1>9. QED
  BY <1>8 DEF c
=============================================================================
