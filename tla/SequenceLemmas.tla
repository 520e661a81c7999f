--------------------------- MODULE SequenceLemmas ---------------------------
(***************************************************************************)
(* What the book's proofs need of the operators on sequences and of Min.   *)
(***************************************************************************)
EXTENDS Integers, Sequences, SequencesExt, SequenceTheorems, WellFoundedInduction, TLAPS

(* Min of a nonempty set of naturals is its least element. *)
LEMMA MinOfNats ==
    ASSUME NEW T \in SUBSET Nat, T # {}
    PROVE  Min(T) \in T /\ \A y \in T : Min(T) <= y
<1>1. PICK x \in T : \A y \in T : <<y, x>> \notin OpToRel(<, Nat)
  BY WFMin, NatLessThanWellFounded, Zenon
<1>2. OpToRel(<, Nat) = {ss \in Nat \X Nat : ss[1] < ss[2]}
  BY DEF OpToRel
<1>3. ASSUME NEW y \in T PROVE x <= y
  <2>1. <<y, x>> \in Nat \X Nat /\ <<y, x>>[1] = y /\ <<y, x>>[2] = x
    OBVIOUS
  <2>2. ~(y < x)
    BY <1>1, <1>2, <2>1
  <2>. QED
    BY <2>2
<1>. QED
  BY <1>3 DEF Min

(* RemoveAt(s, k) keeps the elements before k and moves those after it.     *)
LEMMA RemoveAtProperties ==
    ASSUME NEW S, NEW s \in Seq(S), NEW k \in 1..Len(s)
    PROVE  /\ RemoveAt(s, k) \in Seq(S)
           /\ Len(RemoveAt(s, k)) = Len(s) - 1
           /\ \A j \in 1..(Len(s) - 1) : RemoveAt(s, k)[j] = IF j < k THEN s[j] ELSE s[j + 1]
<1> DEFINE a == SubSeq(s, 1, k - 1)
           b == SubSeq(s, k + 1, Len(s))
<1>1. Len(s) \in Nat /\ \A j \in 1..Len(s) : s[j] \in S
  BY LenProperties, ElementOfSeq
<1>2. a \in Seq(S) /\ Len(a) = k - 1 /\ \A j \in 1..(k - 1) : a[j] = s[j]
  <2>1. \A j \in 1..(k - 1) : s[j] \in S
    BY <1>1
  <2>. QED
    BY <1>1, <2>1, SubSeqProperties
<1>3. b \in Seq(S) /\ Len(b) = Len(s) - k /\ \A j \in 1..(Len(s) - k) : b[j] = s[k + j]
  <2>1. \A j \in (k + 1)..Len(s) : s[j] \in S
    BY <1>1
  <2>2. /\ b \in Seq(S)
        /\ Len(b) = IF k + 1 <= Len(s) THEN Len(s) - (k + 1) + 1 ELSE 0
        /\ \A j \in 1..(Len(s) - (k + 1) + 1) : b[j] = s[(k + 1) + j - 1]
    BY <1>1, <2>1, SubSeqProperties
  <2>. QED
    BY <1>1, <2>2
<1>4. /\ a \o b \in Seq(S)
      /\ Len(a \o b) = Len(a) + Len(b)
      /\ \A j \in 1..(Len(a) + Len(b)) : (a \o b)[j] = IF j <= Len(a) THEN a[j] ELSE b[j - Len(a)]
  BY <1>2, <1>3, ConcatProperties
<1>5. RemoveAt(s, k) = a \o b
  BY DEF RemoveAt
<1> HIDE DEF a, b
<1>6. \A j \in 1..(Len(s) - 1) : (a \o b)[j] = IF j < k THEN s[j] ELSE s[j + 1]
  <2>1. ASSUME NEW j \in 1..(Len(s) - 1), j < k PROVE (a \o b)[j] = s[j]
    BY <1>1, <1>2, <1>3, <1>4, <2>1
  <2>2. ASSUME NEW j \in 1..(Len(s) - 1), ~(j < k) PROVE (a \o b)[j] = s[j + 1]
    <3>1. j - (k - 1) \in 1..(Len(s) - k) /\ k + (j - (k - 1)) = j + 1
      BY <1>1, <2>2
    <3>2. (a \o b)[j] = b[j - (k - 1)]
      BY <1>1, <1>2, <1>3, <1>4, <2>2
    <3>. QED
      BY <1>3, <3>1, <3>2
  <2>. QED
    BY <2>1, <2>2
<1>7. Len(a \o b) = Len(s) - 1
  BY <1>1, <1>2, <1>3, <1>4
<1>. QED
  BY <1>4, <1>5, <1>6, <1>7

(* InsertAt(s, k, e) keeps the elements before k and moves the others up.   *)
LEMMA InsertAtProperties ==
    ASSUME NEW S, NEW s \in Seq(S), NEW k \in 1..(Len(s) + 1), NEW e \in S
    PROVE  /\ InsertAt(s, k, e) \in Seq(S)
           /\ Len(InsertAt(s, k, e)) = Len(s) + 1
           /\ \A j \in 1..(Len(s) + 1) :
                InsertAt(s, k, e)[j] = IF j < k THEN s[j] ELSE IF j = k THEN e ELSE s[j - 1]
<1> DEFINE a == SubSeq(s, 1, k - 1)
           b == SubSeq(s, k, Len(s))
           m == <<e>>
<1>1. Len(s) \in Nat /\ \A j \in 1..Len(s) : s[j] \in S
  BY LenProperties, ElementOfSeq
<1>2. a \in Seq(S) /\ Len(a) = k - 1 /\ \A j \in 1..(k - 1) : a[j] = s[j]
  <2>1. \A j \in 1..(k - 1) : s[j] \in S
    BY <1>1
  <2>. QED
    BY <1>1, <2>1, SubSeqProperties
<1>3. b \in Seq(S) /\ Len(b) = Len(s) - k + 1 /\ \A j \in 1..(Len(s) - k + 1) : b[j] = s[k + j - 1]
  <2>1. \A j \in k..Len(s) : s[j] \in S
    BY <1>1
  <2>2. /\ b \in Seq(S)
        /\ Len(b) = IF k <= Len(s) THEN Len(s) - k + 1 ELSE 0
        /\ \A j \in 1..(Len(s) - k + 1) : b[j] = s[k + j - 1]
    BY <1>1, <2>1, SubSeqProperties
  <2>. QED
    BY <1>1, <2>2
<1>4. m \in Seq(S) /\ Len(m) = 1 /\ m[1] = e
  OBVIOUS
<1> HIDE DEF a, b, m
<1>5. /\ a \o m \in Seq(S)
      /\ Len(a \o m) = k
      /\ \A j \in 1..k : (a \o m)[j] = IF j <= k - 1 THEN s[j] ELSE e
  <2>1. /\ a \o m \in Seq(S)
        /\ Len(a \o m) = Len(a) + Len(m)
        /\ \A j \in 1..(Len(a) + Len(m)) :
              (a \o m)[j] = IF j <= Len(a) THEN a[j] ELSE m[j - Len(a)]
    BY <1>2, <1>4, ConcatProperties
  <2>2. Len(a) + Len(m) = k
    BY <1>1, <1>2, <1>4
  <2>3. ASSUME NEW j \in 1..k, j <= k - 1 PROVE (a \o m)[j] = s[j]
    BY <1>1, <1>2, <2>1, <2>2, <2>3
  <2>4. (a \o m)[k] = e
    <3>1. ~(k <= Len(a)) /\ k - Len(a) = 1 /\ k \in 1..(Len(a) + Len(m))
      BY <1>1, <1>2, <2>2
    <3>. QED
      BY <1>4, <2>1, <3>1
  <2>5. \A j \in 1..k : ~(j <= k - 1) => j = k
    BY <1>1
  <2>. QED
    BY <2>1, <2>2, <2>3, <2>4, <2>5
<1> DEFINE c == a \o m
           d == c \o b
<1>6. InsertAt(s, k, e) = d
  BY DEF InsertAt, a, b, m
<1>7. c \in Seq(S) /\ Len(c) = k /\ \A j \in 1..k : c[j] = IF j <= k - 1 THEN s[j] ELSE e
  BY <1>5
<1> HIDE DEF c
<1>8. /\ d \in Seq(S)
      /\ Len(d) = k + Len(b)
      /\ \A j \in 1..(k + Len(b)) : d[j] = IF j <= k THEN c[j] ELSE b[j - k]
  <2>1. /\ d \in Seq(S)
        /\ Len(d) = Len(c) + Len(b)
        /\ \A j \in 1..(Len(c) + Len(b)) : d[j] = IF j <= Len(c) THEN c[j] ELSE b[j - Len(c)]
    BY <1>3, <1>7, ConcatProperties
  <2>. QED
    BY <1>7, <2>1
<1> HIDE DEF d
<1>9. ASSUME NEW j \in 1..(Len(s) + 1)
      PROVE d[j] = IF j < k THEN s[j] ELSE IF j = k THEN e ELSE s[j - 1]
  <2>0. k + Len(b) = Len(s) + 1 /\ k \in Nat /\ j \in Nat
    BY <1>1, <1>3
  <2>1. CASE j <= k
    BY <1>7, <1>8, <2>0, <2>1
  <2>2. CASE j > k
    <3>1. j - k \in 1..(Len(s) - k + 1) /\ k + (j - k) - 1 = j - 1
      BY <1>1, <2>0, <2>2
    <3>2. d[j] = b[j - k]
      BY <1>8, <2>0, <2>2
    <3>. QED
      BY <1>3, <2>0, <2>2, <3>1, <3>2
  <2>. QED
    BY <2>0, <2>1, <2>2
<1>10. Len(d) = Len(s) + 1
  BY <1>1, <1>3, <1>8
<1>. QED
  BY <1>8, <1>6, <1>9, <1>10

(* The elements of a sequence are the values at its positions.              *)
LEMMA ToSetOfSeq ==
    ASSUME NEW S, NEW s \in Seq(S)
    PROVE  \A x : x \in ToSet(s) <=> \E j \in 1..Len(s) : s[j] = x
BY LenProperties DEF ToSet

LEMMA ToSetOfAppend ==
    ASSUME NEW S, NEW s \in Seq(S), NEW e \in S
    PROVE  ToSet(Append(s, e)) = ToSet(s) \cup {e}
<1>1. /\ Append(s, e) \in Seq(S) /\ Len(Append(s, e)) = Len(s) + 1 /\ Len(s) \in Nat
      /\ \A j \in 1..Len(s) : Append(s, e)[j] = s[j]
      /\ Append(s, e)[Len(s) + 1] = e
  BY AppendProperties, LenProperties
<1>2. \A x : x \in ToSet(Append(s, e)) <=> \E j \in 1..(Len(s) + 1) : Append(s, e)[j] = x
  <2>1. \A x : x \in ToSet(Append(s, e)) <=> \E j \in 1..Len(Append(s, e)) : Append(s, e)[j] = x
    BY <1>1, ToSetOfSeq, Zenon
  <2>. QED
    BY <1>1, <2>1, Zenon
<1>3. \A x : x \in ToSet(s) <=> \E j \in 1..Len(s) : s[j] = x
  BY ToSetOfSeq
<1>4. ASSUME NEW x PROVE x \in ToSet(Append(s, e)) <=> (x \in ToSet(s) \/ x = e)
  <2>1. CASE x \in ToSet(Append(s, e))
    <3>1. PICK j \in 1..(Len(s) + 1) : Append(s, e)[j] = x
      BY <1>2, <2>1
    <3>2. CASE j = Len(s) + 1
      BY <1>1, <3>1, <3>2, <2>1
    <3>3. CASE j \in 1..Len(s)
      BY <1>1, <1>3, <3>1, <3>3, <2>1
    <3>. QED
      BY <1>1, <3>2, <3>3
  <2>2. CASE x \in ToSet(s)
    <3>1. PICK j \in 1..Len(s) : s[j] = x
      BY <1>3, <2>2
    <3>2. j \in 1..(Len(s) + 1) /\ Append(s, e)[j] = x
      BY <1>1, <3>1
    <3>. QED
      BY <1>2, <3>2, <2>2
  <2>3. CASE x = e
    <3>1. Len(s) + 1 \in 1..(Len(s) + 1) /\ Append(s, e)[Len(s) + 1] = x
      BY <1>1, <2>3
    <3>. QED
      BY <1>2, <3>1, <2>3
  <2>. QED
    BY <2>1, <2>2, <2>3
<1>. QED
  BY <1>4
=============================================================================
