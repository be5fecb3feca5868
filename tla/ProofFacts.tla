----------------------------- MODULE ProofFacts -----------------------------
(***************************************************************************)
(* Facts about naturals and sequences that the proofs rest on.  The        *)
(* library's induction theorems over Nat take an operator; that a nonempty *)
(* bounded set of naturals has a least element is therefore taken from the *)
(* well-foundedness of strict inclusion on the subsets of a finite set.    *)
(***************************************************************************)
EXTENDS Integers, Sequences, FiniteSets, SequencesExt,
        FiniteSetTheorems, FunctionTheorems, SequenceTheorems,
        WellFoundedInduction, TLAPS

\* A nonempty set of naturals up to n has a least element: the CHOOSE of
\* MessageOrNextOne (the first message at or after a UID) is well defined.
LEMMA LeastElement ==
    ASSUME NEW n \in Nat, NEW T \in SUBSET (0..n), T # {}
    PROVE  \E x \in T : \A y \in T : x <= y
<1> DEFINE Below(x) == 0..x
           S == 0..n
           I == {Below(x) : x \in T}
<1>1. IsFiniteSet(S)
  BY FS_Interval
<1>2. FiniteSubsetsOf(S) = SUBSET S
  BY <1>1, FS_FiniteSubsetsOfFinite
<1>3. IsWellFoundedOn(StrictSubsetOrdering(S), SUBSET S)
  BY <1>2, FS_StrictSubsetOrderingWellFounded
<1>4. ASSUME NEW x \in T PROVE Below(x) \subseteq S
  OBVIOUS
<1> HIDE DEF S, Below
<1>4a. I \subseteq SUBSET S /\ I # {}
  BY <1>4
<1>5. PICK i \in I : \A j \in I : ~ (<<j, i>> \in StrictSubsetOrdering(S))
  BY <1>3, <1>4a, WFMin
<1>6. PICK x \in T : i = Below(x)
  OBVIOUS
<1>7. ASSUME NEW y \in T, ~ (x <= y) PROVE FALSE
  <2>1. y \in Nat /\ x \in Nat /\ y < x
    BY <1>7
  <2>2. Below(y) \subseteq Below(x)
    BY <2>1 DEF Below
  <2>2a. x \in Below(x) /\ x \notin Below(y)
    BY <2>1 DEF Below
  <2>3. Below(y) \in I /\ Below(y) \in SUBSET S /\ Below(x) \in SUBSET S
    BY <1>4
  <2>4. <<Below(y), Below(x)>> \in StrictSubsetOrdering(S)
    BY <2>2, <2>2a, <2>3 DEF StrictSubsetOrdering
  <2> QED
    BY <2>3, <2>4, <1>5, <1>6
<1> QED
  BY <1>7

\* ... and a greatest one: the highest known UID, the last UID of a VANISHED.
LEMMA GreatestElement ==
    ASSUME NEW n \in Nat, NEW T \in SUBSET (0..n), T # {}
    PROVE  \E x \in T : \A y \in T : y <= x
<1> DEFINE R == {z \in 0..n : n - z \in T}
<1>0. PICK t \in T : TRUE
  OBVIOUS
<1>1. R \in SUBSET (0..n) /\ n - t \in R
  OBVIOUS
<1>2. PICK r \in R : \A y \in R : r <= y
  BY <1>1, LeastElement
<1>3. n - r \in T
  OBVIOUS
<1>4. ASSUME NEW y \in T PROVE y <= n - r
  <2>1. y \in 0..n /\ n - y \in 0..n /\ n - (n - y) = y
    OBVIOUS
  <2>2. n - y \in R
    BY <2>1
  <2>3. r <= n - y
    BY <2>2, <1>2
  <2> HIDE DEF R
  <2> QED
    BY <2>1, <2>3, <1>1
<1> QED
  BY <1>3, <1>4

\* A function on 1..n is a sequence of length n: how the lists are built.
LEMMA FiniteFunctionIsSeq ==
    ASSUME NEW n \in Nat, NEW S, NEW f \in [1..n -> S]
    PROVE  f \in Seq(S) /\ Len(f) = n
<1>1. f \in Seq(S)
  BY SeqDef
<1> QED
  BY <1>1, LenProperties

\* RemoveAt shortens a sequence by one: an EXPUNGE of the list.
LEMMA RemoveAtType ==
    ASSUME NEW S, NEW s \in Seq(S), NEW i \in 1..Len(s)
    PROVE  RemoveAt(s, i) \in Seq(S) /\ Len(RemoveAt(s, i)) = Len(s) - 1
<1>1. SubSeq(s, 1, i - 1) \in Seq(S) /\ Len(SubSeq(s, 1, i - 1)) = i - 1
  BY SubSeqProperties, ElementOfSeq
<1>2. SubSeq(s, i + 1, Len(s)) \in Seq(S) /\ Len(SubSeq(s, i + 1, Len(s))) = Len(s) - i
  BY SubSeqProperties, ElementOfSeq
<1> QED
  BY <1>1, <1>2, ConcatProperties DEF RemoveAt

\* How often x occurs in a sequence.
Count(q, x) == Cardinality({i \in DOMAIN q : q[i] = x})

\* The count is a number, zero where x does not occur.
LEMMA CountNat ==
    ASSUME NEW S, NEW q \in Seq(S), NEW x
    PROVE  /\ Count(q, x) \in Nat
           /\ Count(q, x) = 0 <=> \A i \in DOMAIN q : q[i] # x
<1> DEFINE P == {i \in DOMAIN q : q[i] = x}
<1>1. DOMAIN q = 1..Len(q) /\ Len(q) \in Nat /\ P \in SUBSET (1..Len(q))
  OBVIOUS
<1>2. IsFiniteSet(1..Len(q))
  BY <1>1, FS_Interval
<1>3. IsFiniteSet(P)
  BY <1>1, <1>2, FS_Subset
<1>4. Cardinality(P) \in Nat /\ (Cardinality(P) = 0 <=> P = {})
  BY <1>3, FS_CardinalityType, FS_EmptySet
<1> QED
  BY <1>4 DEF Count

\* Counting in a concatenation.
LEMMA CountConcat ==
    ASSUME NEW S, NEW s \in Seq(S), NEW t \in Seq(S), NEW x
    PROVE  Count(s \o t, x) = Count(s, x) + Count(t, x)
<1> DEFINE P == {i \in 1..Len(s) : s[i] = x}
           R == {i \in 1..Len(t) : t[i] = x}
           Q == {i \in (Len(s) + 1)..(Len(s) + Len(t)) : t[i - Len(s)] = x}
           A == {i \in 1..(Len(s) + Len(t)) : (s \o t)[i] = x}
           f == [i \in R |-> i + Len(s)]
<1>1. /\ Len(s) \in Nat /\ Len(t) \in Nat /\ DOMAIN s = 1..Len(s) /\ DOMAIN t = 1..Len(t)
      /\ DOMAIN (s \o t) = 1..(Len(s) + Len(t))
  OBVIOUS
<1>2. \A i \in 1..(Len(s) + Len(t)) : (s \o t)[i] = IF i <= Len(s) THEN s[i] ELSE t[i - Len(s)]
  BY ConcatProperties
<1>3. IsFiniteSet(P) /\ IsFiniteSet(R)
  <2>1. IsFiniteSet(1..Len(s)) /\ IsFiniteSet(1..Len(t))
    BY <1>1, FS_Interval
  <2> QED
    BY <2>1, FS_Subset
<1>4. f \in Bijection(R, Q)
  <2>1. f \in [R -> Q]
    BY <1>1
  <2>2. \A i, j \in R : f[i] = f[j] => i = j
    BY <1>1
  <2>3. \A k \in Q : k - Len(s) \in R /\ f[k - Len(s)] = k
    BY <1>1
  <2> QED
    BY <2>1, <2>2, <2>3, Fun_IsBij
<1>5. IsFiniteSet(Q) /\ Cardinality(Q) = Cardinality(R)
  BY <1>3, <1>4, FS_Bijection DEF ExistsBijection
<1>6. A = P \cup Q /\ P \cap Q = {}
  BY <1>1, <1>2
<1>7. Cardinality(P \cup Q) = Cardinality(P) + Cardinality(Q)
  <2>1. Cardinality(P \cap Q) = 0
    BY <1>6, FS_EmptySet
  <2>2. Cardinality(P) \in Nat /\ Cardinality(Q) \in Nat
    BY <1>3, <1>5, FS_CardinalityType
  <2>3. Cardinality(P \cup Q) = Cardinality(P) + Cardinality(Q) - Cardinality(P \cap Q)
    BY <1>3, <1>5, FS_Union
  <2> QED
    BY <2>1, <2>2, <2>3
<1> QED
  BY <1>1, <1>5, <1>6, <1>7 DEF Count

\* Counting in a sequence of one element.
LEMMA CountOne == \A a, x : Count(<<a>>, x) = IF a = x THEN 1 ELSE 0
<1> SUFFICES ASSUME NEW a, NEW x PROVE Count(<<a>>, x) = IF a = x THEN 1 ELSE 0
  OBVIOUS
<1>1. DOMAIN <<a>> = {1} /\ <<a>>[1] = a
  OBVIOUS
<1>2. CASE a = x
  <2>1. {i \in DOMAIN <<a>> : <<a>>[i] = x} = {1}
    BY <1>1, <1>2
  <2> QED
    BY <1>2, <2>1, FS_Singleton DEF Count
<1>3. CASE a # x
  <2>1. {i \in DOMAIN <<a>> : <<a>>[i] = x} = {}
    BY <1>1, <1>3
  <2> QED
    BY <1>3, <2>1, FS_EmptySet DEF Count
<1> QED
  BY <1>2, <1>3

\* ... and in the empty one.
LEMMA CountNone == \A x : Count(<<>>, x) = 0
BY FS_EmptySet DEF Count

\* Counting after an append.
LEMMA CountAppend ==
    ASSUME NEW S, NEW s \in Seq(S), NEW a \in S, NEW x
    PROVE  Count(Append(s, a), x) = Count(s, x) + (IF a = x THEN 1 ELSE 0)
<1>1. <<a>> \in Seq(S) /\ Append(s, a) = s \o <<a>>
  BY AppendIsConcat
<1>2. Count(s \o <<a>>, x) = Count(s, x) + Count(<<a>>, x)
  BY <1>1, CountConcat
<1>3. Count(<<a>>, x) = IF a = x THEN 1 ELSE 0
  BY CountOne
<1> QED
  BY <1>1, <1>2, <1>3

\* Counting without the head.
LEMMA CountTail ==
    ASSUME NEW S, NEW s \in Seq(S), s # <<>>, NEW x
    PROVE  Count(s, x) = Count(Tail(s), x) + (IF Head(s) = x THEN 1 ELSE 0)
<1>1. Head(s) \in S /\ Tail(s) \in Seq(S) /\ <<Head(s)>> \in Seq(S)
  OBVIOUS
<1>2. s = <<Head(s)>> \o Tail(s)
  OBVIOUS
<1>3. Count(s, x) = Count(<<Head(s)>>, x) + Count(Tail(s), x)
  BY <1>1, <1>2, CountConcat
<1>4. Count(Tail(s), x) \in Nat /\ Count(<<Head(s)>>, x) = IF Head(s) = x THEN 1 ELSE 0
  BY <1>1, CountNat, CountOne
<1> QED
  BY <1>3, <1>4

\* n times a: it has n of them and nothing else.
Alike(q, n, a) == DOMAIN q = 1..n /\ \A i \in 1..n : q[i] = a
\* Counting in such a sequence.
LEMMA CountAlike ==
    ASSUME NEW n \in Nat, NEW a, NEW x, NEW q, Alike(q, n, a)
    PROVE  (a = x => Count(q, x) = n) /\ (a # x => Count(q, x) = 0)
<1> USE DEF Alike
<1>1. ASSUME a = x PROVE Count(q, x) = n
  <2>1. {i \in DOMAIN q : q[i] = x} = 1..n
    BY <1>1
  <2>2. Cardinality(1..n) = n
    BY FS_Interval
  <2> QED
    BY <2>1, <2>2 DEF Count
<1>2. ASSUME a # x PROVE Count(q, x) = 0
  <2>1. {i \in DOMAIN q : q[i] = x} = {}
    BY <1>2
  <2> QED
    BY <2>1, FS_EmptySet DEF Count
<1> QED
  BY <1>1, <1>2
=============================================================================
