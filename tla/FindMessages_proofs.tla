------------------------ MODULE FindMessages_proofs ------------------------
(***************************************************************************)
(* The search for a UID is a lower bound search for every list, whatever   *)
(* UIDs are unknown and wherever they are; and if the UIDs asked for       *)
(* ascend, all of their messages are found.                                *)
(***************************************************************************)
EXTENDS FindMessages, ProofFacts

Searching == mode \in {"binary", "linear"}

\* What the search knows: everything between its start and begin is unknown or
\* below the UID, and the position after the range is the end or not below it.
SearchInv ==
    /\ Searching \/ mode = "found" =>
          /\ i <= Len(uids) /\ lastUid = uids[i] /\ it <= begin
          /\ \A j \in it..(begin - 1) : list[j] < lastUid
    /\ Searching /\ begin + n <= Len(list) =>
          list[begin + n] >= lastUid /\ list[begin + n] # 0
    /\ SearchRight

\* What findMessagesByUids knows: the messages found are those of the UIDs that it
\* is done with, and those before the next start are below all that are left.
ResultInv ==
    /\ IF i = 1 THEN it = 1 /\ (mode = "next" => lastUid = 0)
       ELSE mode = "next" => lastUid = uids[i - 1]
    /\ mode = "done" => i > Len(uids)
    /\ i > 1 /\ mode # "next" /\ mode # "done" => uids[i - 1] <= lastUid
    /\ \A j \in 1..(it - 1) : list[j] < lastUid
    /\ \A p \in 1..Len(list) :
          (\E k \in DOMAIN res : res[k] = p) <=> \E k \in 1..(i - 1) : uids[k] = list[p]

----------------------------------------------------------------------------
\* The list and the UIDs asked for are sequences, and the list ascends.
LEMMA DataType ==
    ASSUME list \in Lists, uids \in Requests
    PROVE  /\ Len(list) \in Nat /\ Len(uids) \in Nat
           /\ DOMAIN list = 1..Len(list) /\ DOMAIN uids = 1..Len(uids)
           /\ \A j \in 1..Len(list) : list[j] \in Nat
           /\ \A j \in 1..Len(uids) : uids[j] \in Nat \ {0}
           /\ \A j, k \in 1..Len(list) :
                 j < k /\ list[j] # 0 /\ list[k] # 0 => list[j] < list[k]
<1>1. PICK len \in 0..MaxLen : list \in [1..len -> 0..MaxUid]
  BY DEF Lists
<1>2. PICK asked \in 0..MaxAsked : uids \in [1..asked -> 1..MaxUid]
  BY DEF Requests
<1>3. len \in Nat /\ asked \in Nat
  BY BoundAssumption
<1>4. list \in Seq(0..MaxUid) /\ Len(list) = len
  BY <1>1, <1>3, FiniteFunctionIsSeq
<1>5. uids \in Seq(1..MaxUid) /\ Len(uids) = asked
  BY <1>2, <1>3, FiniteFunctionIsSeq
<1>6. DOMAIN list = 1..Len(list) /\ DOMAIN uids = 1..Len(uids)
  BY <1>1, <1>2, <1>4, <1>5
<1>7. \A j \in 1..Len(list) : list[j] \in 0..MaxUid
  BY <1>1, <1>4
<1>8. \A j \in 1..Len(uids) : uids[j] \in 1..MaxUid
  BY <1>2, <1>5
<1>9. Ascending(list)
  BY DEF Lists
<1>10. \A j, k \in 1..Len(list) :
          j < k /\ list[j] # 0 /\ list[k] # 0 => list[j] < list[k]
  BY <1>6, <1>9 DEF Ascending
<1>11. \A j \in 1..Len(list) : list[j] \in Nat
  BY <1>7, BoundAssumption
<1>12. \A j \in 1..Len(uids) : uids[j] \in Nat \ {0}
  BY <1>8, BoundAssumption
<1>13. Len(list) \in Nat /\ Len(uids) \in Nat
  BY <1>3, <1>4, <1>5
<1> QED
  BY <1>6, <1>10, <1>11, <1>12, <1>13

\* The initial state satisfies every part of the invariant.
LEMMA InitInv == Init => TypeOK /\ SearchInv /\ ResultInv
<1> SUFFICES ASSUME Init PROVE TypeOK /\ SearchInv /\ ResultInv
  OBVIOUS
<1> USE DEF Init
<1>1. Len(list) \in Nat /\ Len(uids) \in Nat
  BY DataType
<1>2. TypeOK
  BY <1>1 DEF TypeOK
<1>3. SearchInv
  BY DEF SearchInv, Searching, SearchRight
<1>4. ResultInv
  BY <1>1 DEF ResultInv
<1> QED
  BY <1>2, <1>3, <1>4

\* The loop over the UIDs starts a search for the next one.
LEMMA NextUidInv ==
    ASSUME TypeOK, SearchInv, NextUid
    PROVE  TypeOK' /\ SearchInv'
<1> USE DEF TypeOK
<1>1. /\ Len(list) \in Nat /\ Len(uids) \in Nat
      /\ \A j \in 1..Len(uids) : uids[j] \in Nat \ {0}
  BY DataType
<1>2. UNCHANGED <<list, uids, it, res>> /\ mode = "next" /\ i <= Len(uids)
  BY DEF NextUid
<1>3. CASE uids[i] = lastUid
  <2>1. i' = i + 1 /\ UNCHANGED <<lastUid, begin, n, mode>>
    BY <1>3 DEF NextUid
  <2>2. TypeOK'
    BY <1>1, <1>2, <2>1
  <2>3. SearchInv'
    BY <1>2, <2>1 DEF SearchInv, Searching, SearchRight
  <2> QED
    BY <2>2, <2>3
<1>4. CASE uids[i] # lastUid
  <2>1. /\ lastUid' = uids[i] /\ begin' = it /\ n' = Len(list) + 1 - it
        /\ mode' = "binary" /\ i' = i
    BY <1>4 DEF NextUid
  <2>2. TypeOK'
    BY <1>1, <1>2, <2>1
  <2>3. SearchInv'
    BY <1>1, <1>2, <2>1 DEF SearchInv, Searching, SearchRight
  <2> QED
    BY <2>2, <2>3
<1> QED
  BY <1>3, <1>4

\* Bisecting keeps what the search knows: everything below a known UID that is
\* too low is too low as well, or unknown.
LEMMA BinaryInv ==
    ASSUME TypeOK, SearchInv, Binary
    PROVE  TypeOK' /\ SearchInv'
<1> USE DEF TypeOK
<1>1. /\ Len(list) \in Nat /\ Len(uids) \in Nat
      /\ \A j \in 1..Len(list) : list[j] \in Nat
      /\ \A j \in 1..Len(uids) : uids[j] \in Nat \ {0}
      /\ \A j, k \in 1..Len(list) :
            j < k /\ list[j] # 0 /\ list[k] # 0 => list[j] < list[k]
  BY DataType
<1>2. UNCHANGED <<list, uids, i, lastUid, it, res>> /\ mode = "binary"
  BY DEF Binary
<1>3. /\ i <= Len(uids) /\ lastUid = uids[i] /\ it <= begin
      /\ \A j \in it..(begin - 1) : list[j] < lastUid
      /\ begin + n <= Len(list) => list[begin + n] >= lastUid /\ list[begin + n] # 0
  BY <1>2 DEF SearchInv, Searching
<1>3a. lastUid \in Nat \ {0}
  BY <1>1, <1>3
<1>4. CASE n = 0
  <2>1. mode' = "found" /\ UNCHANGED <<begin, n>>
    BY <1>4 DEF Binary
  <2>2. TypeOK'
    BY <1>2, <2>1
  <2>3. SearchInv'
    BY <1>1, <1>2, <1>3, <1>4, <2>1 DEF SearchInv, Searching, SearchRight, IsLowerBound
  <2> QED
    BY <2>2, <2>3
<1>5. CASE n # 0
  <2> DEFINE half == n \div 2
             middle == begin + half
  <2>1. half \in Nat /\ half < n /\ middle \in 1..Len(list)
    BY <1>1, <1>5
  <2>2. CASE IsUnknown(middle)
    <3>1. mode' = "linear" /\ UNCHANGED <<begin, n>>
      BY <1>5, <2>2 DEF Binary
    <3>2. TypeOK'
      BY <1>2, <3>1
    <3>3. SearchInv'
      BY <1>2, <1>3, <3>1 DEF SearchInv, Searching, SearchRight
    <3> QED
      BY <3>2, <3>3
  <2>3. CASE ~IsUnknown(middle) /\ LessThan(middle, lastUid)
    <3>1. begin' = middle + 1 /\ n' = n - (half + 1) /\ mode' = mode
      BY <1>5, <2>3 DEF Binary, Behind
    <3>2. list[middle] # 0 /\ list[middle] < lastUid
      BY <2>3 DEF IsUnknown, LessThan
    <3> HIDE DEF half
    <3>3. begin' + n' = begin + n /\ n' \in Nat /\ begin' \in 1..(Len(list) + 1)
      BY <1>1, <2>1, <3>1
    <3>4. TypeOK'
      BY <1>1, <1>2, <3>1, <3>3
    <3>5. ASSUME NEW j \in it..middle PROVE list[j] < lastUid
      <4>1. CASE j < begin
        BY <1>3, <4>1, <2>1
      <4>2. CASE j >= begin
        <5>1. j \in 1..Len(list) /\ j <= middle
          BY <1>1, <4>2, <2>1
        <5>2. list[j] = 0 \/ j = middle \/ list[j] < list[middle]
          BY <5>1, <1>1, <2>1, <3>2
        <5>3. list[j] \in Nat /\ list[middle] \in Nat
          BY <5>1, <1>1, <2>1
        <5> QED
          BY <5>2, <5>3, <3>2, <1>3a, SMTT(30)
      <4> QED
        BY <4>1, <4>2, <2>1
    <3>6. it <= begin' /\ \A j \in it..(begin' - 1) : list[j] < lastUid
      BY <1>3, <2>1, <3>1, <3>5
    <3> QED
      BY <1>2, <1>3, <3>1, <3>3, <3>4, <3>6 DEF SearchInv, Searching, SearchRight
  <2>4. CASE ~IsUnknown(middle) /\ ~LessThan(middle, lastUid)
    <3>1. n' = half /\ begin' = begin /\ mode' = mode
      BY <1>5, <2>4 DEF Binary, Below
    <3>2. list[middle] # 0 /\ list[middle] >= lastUid
      BY <1>1, <2>1, <2>4 DEF IsUnknown, LessThan
    <3> HIDE DEF half
    <3>3. TypeOK'
      BY <1>1, <1>2, <2>1, <3>1
    <3>4. SearchInv'
      BY <1>2, <1>3, <2>1, <3>1, <3>2 DEF SearchInv, Searching, SearchRight
    <3> QED
      BY <3>3, <3>4
  <2> QED
    BY <2>2, <2>3, <2>4
<1> QED
  BY <1>4, <1>5

\* The linear search passes only unknown UIDs and those that are too low.
LEMMA LinearInv ==
    ASSUME TypeOK, SearchInv, Linear
    PROVE  TypeOK' /\ SearchInv'
<1> USE DEF TypeOK
<1>1. /\ Len(list) \in Nat /\ Len(uids) \in Nat
      /\ \A j \in 1..Len(list) : list[j] \in Nat
      /\ \A j \in 1..Len(uids) : uids[j] \in Nat \ {0}
  BY DataType
<1>2. UNCHANGED <<list, uids, i, lastUid, it, res>> /\ mode = "linear"
  BY DEF Linear
<1>3. /\ i <= Len(uids) /\ lastUid = uids[i] /\ it <= begin
      /\ \A j \in it..(begin - 1) : list[j] < lastUid
      /\ begin + n <= Len(list) => list[begin + n] >= lastUid /\ list[begin + n] # 0
  BY <1>2 DEF SearchInv, Searching
<1>3a. lastUid \in Nat \ {0}
  BY <1>1, <1>3
<1>4. CASE n > 0 /\ (IsUnknown(begin) \/ LessThan(begin, lastUid))
  <2>1. begin' = begin + 1 /\ n' = n - 1 /\ mode' = mode
    BY <1>4 DEF Linear
  <2>2. list[begin] < lastUid
    BY <1>3a, <1>4 DEF IsUnknown, LessThan
  <2>3. TypeOK'
    BY <1>1, <1>2, <1>4, <2>1
  <2>4. it <= begin' /\ begin' + n' = begin + n
    BY <1>3, <2>1
  <2>5. \A j \in it..(begin' - 1) : j = begin \/ j \in it..(begin - 1)
    BY <2>1
  <2>6. \A j \in it..(begin' - 1) : list[j] < lastUid
    BY <1>3, <2>2, <2>5
  <2> QED
    BY <1>2, <1>3, <2>1, <2>3, <2>4, <2>6 DEF SearchInv, Searching, SearchRight
<1>5. CASE ~(n > 0 /\ (IsUnknown(begin) \/ LessThan(begin, lastUid)))
  <2>1. mode' = "found" /\ UNCHANGED <<begin, n>>
    BY <1>5 DEF Linear
  <2>2. begin <= Len(list) => list[begin] >= lastUid /\ list[begin] # 0
    <3>1. CASE n = 0
      BY <1>3, <3>1
    <3>2. CASE n > 0
      BY <1>1, <1>3a, <1>5, <3>2 DEF IsUnknown, LessThan
    <3> QED
      BY <3>1, <3>2
  <2>3. TypeOK'
    BY <1>2, <2>1
  <2>4. SearchInv'
    BY <1>2, <1>3, <2>1, <2>2 DEF SearchInv, Searching, SearchRight, IsLowerBound
  <2> QED
    BY <2>3, <2>4
<1> QED
  BY <1>4, <1>5

\* A message that is found is one of the list.
LEMMA TakeInv ==
    ASSUME TypeOK, SearchInv, Take
    PROVE  TypeOK' /\ SearchInv'
<1> USE DEF TypeOK
<1>1. Len(list) \in Nat /\ Len(uids) \in Nat
  BY DataType
<1>2. /\ UNCHANGED <<list, uids, lastUid, begin, n>> /\ mode = "found"
      /\ it' = begin /\ i' = i + 1 /\ mode' = "next"
      /\ res' = IF begin <= Len(list) /\ list[begin] = lastUid THEN Append(res, begin) ELSE res
  BY DEF Take, Resume
<1>3. i <= Len(uids)
  BY <1>2 DEF SearchInv
<1>4. res' \in Seq(1..Len(list))
  <2>1. CASE begin <= Len(list) /\ list[begin] = lastUid
    <3>1. begin \in 1..Len(list)
      BY <1>1, <2>1
    <3> QED
      BY <1>2, <2>1, <3>1, AppendProperties
  <2>2. CASE ~(begin <= Len(list) /\ list[begin] = lastUid)
    BY <1>2, <2>2
  <2> QED
    BY <2>1, <2>2
<1>5. TypeOK'
  BY <1>1, <1>2, <1>3, <1>4
<1>6. SearchInv'
  BY <1>2 DEF SearchInv, Searching, SearchRight
<1> QED
  BY <1>5, <1>6

\* Every step keeps the types and what the search knows.
LEMMA NextSearchInv == TypeOK /\ SearchInv /\ [Next]_vars => TypeOK' /\ SearchInv'
<1> SUFFICES ASSUME TypeOK, SearchInv, [Next]_vars PROVE TypeOK' /\ SearchInv'
  OBVIOUS
<1>1. CASE NextUid
  BY <1>1, NextUidInv
<1>2. CASE Return
  <2>1. /\ mode' = "done"
        /\ UNCHANGED <<list, uids, i, lastUid, it, begin, n, res>>
    BY <1>2 DEF Return
  <2> QED
    BY <2>1 DEF TypeOK, SearchInv, Searching, SearchRight
<1>3. CASE Binary
  BY <1>3, BinaryInv
<1>4. CASE Linear
  BY <1>4, LinearInv
<1>5. CASE Take
  BY <1>5, TakeInv
<1>6. CASE UNCHANGED vars
  BY <1>6 DEF vars, TypeOK, SearchInv, Searching, SearchRight, IsLowerBound
<1> QED
  BY <1>1, <1>2, <1>3, <1>4, <1>5, <1>6 DEF Next

\* A step of the search itself changes nothing that is done with.
LEMMA SearchKeepsResult ==
    ASSUME TypeOK, ResultInv, Binary \/ Linear
    PROVE  ResultInv'
<1>1. /\ UNCHANGED <<list, uids, i, lastUid, it, res>>
      /\ mode \in {"binary", "linear"} /\ mode' \in {"binary", "linear", "found"}
  BY DEF Binary, Linear
<1> QED
  BY <1>1 DEF ResultInv

\* The next UID asked for is above the last one, unless it is the same again.
LEMMA NextUidKeepsResult ==
    ASSUME TypeOK, ResultInv, Sorted(uids), NextUid
    PROVE  ResultInv'
<1>1. /\ Len(list) \in Nat /\ Len(uids) \in Nat /\ DOMAIN uids = 1..Len(uids)
      /\ \A j \in 1..Len(list) : list[j] \in Nat
      /\ \A j \in 1..Len(uids) : uids[j] \in Nat \ {0}
      /\ i \in 1..(Len(uids) + 1) /\ it \in 1..(Len(list) + 1) /\ lastUid \in Nat
  BY DataType DEF TypeOK
<1>2. UNCHANGED <<list, uids, it, res>> /\ mode = "next" /\ i <= Len(uids)
  BY DEF NextUid
<1>3. i \in 1..Len(uids) /\ (i # 1 => i - 1 \in 1..Len(uids))
  BY <1>1, <1>2
<1>4. /\ i = 1 => it = 1 /\ lastUid = 0
      /\ i # 1 => lastUid = uids[i - 1]
      /\ \A j \in 1..(it - 1) : list[j] < lastUid
      /\ \A p \in 1..Len(list) :
            (\E k \in DOMAIN res : res[k] = p) <=> \E k \in 1..(i - 1) : uids[k] = list[p]
  BY <1>2 DEF ResultInv
<1>5. CASE uids[i] = lastUid
  <2>1. i' = i + 1 /\ UNCHANGED <<lastUid, begin, n, mode>>
    BY <1>5 DEF NextUid
  <2>2. i # 1
    BY <1>1, <1>3, <1>4, <1>5
  <2>3. uids[i - 1] = uids[i] /\ i - 1 \in 1..(i - 1)
    BY <1>3, <1>4, <1>5, <2>2
  <2>4. \A k \in 1..i : k = i \/ k \in 1..(i - 1)
    BY <1>1
  <2>5. \A u : (\E k \in 1..i : uids[k] = u) <=> \E k \in 1..(i - 1) : uids[k] = u
    BY <1>1, <2>3, <2>4
  <2>6. i' # 1 /\ i' - 1 = i
    BY <1>1, <2>1
  <2>7. \A p \in 1..Len(list) :
           (\E k \in DOMAIN res : res[k] = p) <=> \E k \in 1..i : uids[k] = list[p]
    BY <1>4, <2>5
  <2>8. \A j \in 1..(it - 1) : list[j] < lastUid
    BY <1>4
  <2> QED
    BY <1>2, <1>5, <2>1, <2>6, <2>7, <2>8, ZenonT(60) DEF ResultInv
<1>6. CASE uids[i] # lastUid
  <2>1. lastUid' = uids[i] /\ mode' = "binary" /\ i' = i
    BY <1>6 DEF NextUid
  <2>2. lastUid <= uids[i]
    <3>1. CASE i = 1
      BY <1>1, <1>3, <1>4, <3>1
    <3>2. CASE i # 1
      <4>1. i - 1 \in DOMAIN uids /\ i \in DOMAIN uids /\ i - 1 < i
        BY <1>1, <1>3, <3>2
      <4>2. uids[i - 1] <= uids[i]
        BY <4>1 DEF Sorted
      <4> QED
        BY <1>4, <3>2, <4>2
    <3> QED
      BY <3>1, <3>2
  <2>3. \A j \in 1..(it - 1) : list[j] < uids[i]
    <3> TAKE j \in 1..(it - 1)
    <3>1. j \in 1..Len(list)
      BY <1>1
    <3>2. list[j] \in Nat /\ uids[i] \in Nat /\ list[j] < lastUid
      BY <1>1, <1>3, <1>4, <3>1
    <3> QED
      BY <1>1, <2>2, <3>2
  <2>4. i > 1 => uids[i - 1] <= uids[i]
    BY <1>4, <2>2
  <2> QED
    BY <1>2, <1>4, <2>1, <2>3, <2>4 DEF ResultInv
<1> QED
  BY <1>5, <1>6

\* The position that the search returns is the message, if there is one.
LEMMA TakeKeepsResult ==
    ASSUME TypeOK, SearchInv, ResultInv, Take
    PROVE  ResultInv'
<1>1. /\ Len(list) \in Nat /\ Len(uids) \in Nat
      /\ \A j \in 1..Len(list) : list[j] \in Nat
      /\ \A j \in 1..Len(uids) : uids[j] \in Nat \ {0}
      /\ \A j, k \in 1..Len(list) :
            j < k /\ list[j] # 0 /\ list[k] # 0 => list[j] < list[k]
      /\ i \in 1..(Len(uids) + 1) /\ it \in 1..(Len(list) + 1)
      /\ begin \in 1..(Len(list) + 1) /\ res \in Seq(1..Len(list))
  BY DataType DEF TypeOK
<1>2. /\ UNCHANGED <<list, uids, lastUid, begin, n>> /\ mode = "found"
      /\ it' = begin /\ i' = i + 1 /\ mode' = "next"
      /\ res' = IF begin <= Len(list) /\ list[begin] = lastUid THEN Append(res, begin) ELSE res
  BY DEF Take, Resume
<1>3. /\ i <= Len(uids) /\ lastUid = uids[i] /\ it <= begin
      /\ \A j \in it..(begin - 1) : list[j] < lastUid
      /\ begin <= Len(list) => list[begin] >= lastUid /\ list[begin] # 0
  BY <1>2 DEF SearchInv, SearchRight, IsLowerBound
<1>4. i \in 1..Len(uids) /\ i' # 1 /\ i' - 1 = i /\ lastUid \in Nat \ {0}
  BY <1>1, <1>2, <1>3
<1>5. /\ \A j \in 1..(it - 1) : list[j] < lastUid
      /\ \A p \in 1..Len(list) :
            (\E k \in DOMAIN res : res[k] = p) <=> \E k \in 1..(i - 1) : uids[k] = list[p]
  BY DEF ResultInv
<1>6. \A j \in 1..(begin - 1) : list[j] < lastUid
  <2>1. \A j \in 1..(begin - 1) : j \in 1..(it - 1) \/ j \in it..(begin - 1)
    BY <1>1
  <2> QED
    BY <1>3, <1>5, <2>1
<1>7. ASSUME NEW p \in 1..Len(list)
      PROVE  list[p] = lastUid <=> p = begin /\ begin <= Len(list) /\ list[begin] = lastUid
  <2>1. CASE p < begin
    <3>1. list[p] < lastUid /\ list[p] \in Nat
      BY <1>1, <1>6, <2>1
    <3> QED
      BY <1>4, <2>1, <3>1
  <2>2. CASE p = begin
    BY <2>2
  <2>3. CASE p > begin
    <3>1. begin \in 1..Len(list)
      BY <1>1, <2>3
    <3>2. list[begin] # 0 /\ list[begin] >= lastUid /\ list[begin] \in Nat /\ list[p] \in Nat
      BY <1>1, <1>3, <3>1
    <3>3. list[p] = 0 \/ list[begin] < list[p]
      BY <1>1, <2>3, <3>1, <3>2
    <3> QED
      BY <1>4, <2>3, <3>2, <3>3
  <2> QED
    BY <1>1, <2>1, <2>2, <2>3
<1>8. ASSUME NEW p \in 1..Len(list)
      PROVE  (\E k \in DOMAIN res' : res'[k] = p) <=>
                 (\E k \in DOMAIN res : res[k] = p) \/ list[p] = lastUid
  <2>1. CASE begin <= Len(list) /\ list[begin] = lastUid
    <3>1. begin \in 1..Len(list) /\ res' = Append(res, begin)
      BY <1>1, <1>2, <2>1
    <3>2. Len(res) \in Nat /\ DOMAIN res = 1..Len(res)
      BY <1>1, LenProperties
    <3>3. /\ Len(res') = Len(res) + 1 /\ res' \in Seq(1..Len(list))
          /\ \A k \in 1..Len(res) : res'[k] = res[k]
          /\ res'[Len(res) + 1] = begin
      BY <1>1, <3>1, AppendProperties
    <3>4. DOMAIN res' = 1..(Len(res) + 1)
      BY <3>3, LenProperties
    <3>5. \A k \in 1..(Len(res) + 1) : k \in 1..Len(res) \/ k = Len(res) + 1
      BY <3>2
    <3>6. (\E k \in DOMAIN res' : res'[k] = p) <=> (\E k \in DOMAIN res : res[k] = p) \/ p = begin
      BY <3>2, <3>3, <3>4, <3>5
    <3> QED
      BY <1>7, <2>1, <3>6
  <2>2. CASE ~(begin <= Len(list) /\ list[begin] = lastUid)
    BY <1>2, <1>7, <2>2
  <2> QED
    BY <2>1, <2>2
<1>9. ASSUME NEW u
      PROVE  (\E k \in 1..i : uids[k] = u) <=> (\E k \in 1..(i - 1) : uids[k] = u) \/ u = lastUid
  <2>1. \A k \in 1..i : k = i \/ k \in 1..(i - 1)
    BY <1>1
  <2> QED
    BY <1>3, <1>4, <2>1
<1>10. \A p \in 1..Len(list) :
          (\E k \in DOMAIN res' : res'[k] = p) <=> \E k \in 1..i : uids[k] = list[p]
  BY <1>5, <1>8, <1>9
<1> QED
  BY <1>2, <1>3, <1>4, <1>6, <1>10, SMTT(30) DEF ResultInv

\* If the UIDs ascend, no step loses a message.
LEMMA NextResultInv ==
    TypeOK /\ SearchInv /\ ResultInv /\ Sorted(uids) /\ [Next]_vars => ResultInv'
<1> SUFFICES ASSUME TypeOK, SearchInv, ResultInv, Sorted(uids), [Next]_vars PROVE ResultInv'
  OBVIOUS
<1>1. CASE NextUid
  BY <1>1, NextUidKeepsResult
<1>2. CASE Return
  <2>1. /\ mode = "next" /\ i > Len(uids) /\ mode' = "done"
        /\ UNCHANGED <<list, uids, i, lastUid, it, begin, n, res>>
    BY <1>2 DEF Return
  <2> QED
    BY <2>1 DEF ResultInv
<1>3. CASE Binary \/ Linear
  BY <1>3, SearchKeepsResult
<1>4. CASE Take
  BY <1>4, TakeKeepsResult
<1>5. CASE UNCHANGED vars
  BY <1>5 DEF vars, ResultInv
<1> QED
  BY <1>1, <1>2, <1>3, <1>4, <1>5 DEF Next

\* No iterator of the search ever leaves the list, for every list and every UIDs.
THEOREM IteratorsInRange == Spec => []TypeOK
<1>1. Init => TypeOK /\ SearchInv
  BY InitInv
<1> QED
  BY <1>1, NextSearchInv, PTL DEF Spec

\* lowerBoundWithUnknownElements returns what a linear search would, for every list
\* of ascending UIDs with any of them unknown.
THEOREM SearchIsLowerBound == Spec => []SearchRight
<1>1. Init => TypeOK /\ SearchInv
  BY InitInv
<1>2. SearchInv => SearchRight
  BY DEF SearchInv
<1> QED
  BY <1>1, <1>2, NextSearchInv, PTL DEF Spec

\* Every message asked for is found, and no other, for every mailbox and every
\* ascending request, with UIDs that are unknown, missing or asked for twice.
THEOREM AllAreFound == ASSUME ~AnyOrder PROVE Spec => []AllFound
<1>1. Init => TypeOK /\ SearchInv /\ ResultInv
  BY InitInv
<1>2. TypeOK => Sorted(uids)
  BY DEF TypeOK, Requests
<1>3. TypeOK /\ ResultInv => AllFound
  <2> SUFFICES ASSUME TypeOK, ResultInv, mode = "done"
               PROVE  \A p \in 1..Len(list) :
                         (\E k \in DOMAIN res : res[k] = p) <=>
                             \E k \in DOMAIN uids : uids[k] = list[p]
    BY DEF AllFound
  <2>1. Len(uids) \in Nat /\ DOMAIN uids = 1..Len(uids) /\ i \in 1..(Len(uids) + 1)
    BY DataType DEF TypeOK
  <2>2. i > Len(uids)
    BY DEF ResultInv
  <2>3. 1..(i - 1) = DOMAIN uids
    BY <2>1, <2>2
  <2> QED
    BY <2>3 DEF ResultInv
<1> QED
  BY <1>1, <1>2, <1>3, NextSearchInv, NextResultInv, PTL DEF Spec
=============================================================================
