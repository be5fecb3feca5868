---------------------------- MODULE Cache_proofs ----------------------------
(***************************************************************************)
(* Proofs about the persistent cache: that it implements the abstract      *)
(* store and that a crash loses a bounded time of writes, for every set of *)
(* UIDs, every delay and period and however many handlers and faults.      *)
(***************************************************************************)
EXTENDS Cache, ProofFacts

\* The numbers in the rows are those of handlers that have run.
Numbered ==
    /\ \A r \in Row : tables[r] <= n /\ committed[r] <= n
    /\ \A i \in DOMAIN todo : todo[i].value <= n

\* Both timers have been started or none has, and a transaction starts them.
Timers ==
    /\ delay = Off <=> period = Off
    /\ inTransaction => period # Off

\* SQLCache and SQLite agree about the transaction until a statement fails.
Transaction == inTransaction /\ ~refused => txn

Inv == TypeOK /\ Numbered /\ Timers /\ Transaction

\* The statements of one handler, which remove rows or set them to v; the sync
\* state is never removed.
Legal(s, v) == s.value \in {0, v} /\ (SyncRow \in s.rows => s.value = v)
StatementsOf(v) == {s \in Seq(Statement) : \A i \in DOMAIN s : Legal(s[i], v)}

----------------------------------------------------------------------------
(* The statements of the handlers. *)

LEMMA RowOrFile == Row \cap File = {}
BY DEF Row, File

LEMMA OneStatement ==
    ASSUME NEW v \in Nat, NEW call \in 1..3, NEW rows \in (SUBSET Row) \cup (SUBSET File),
           NEW x \in {0, v}, SyncRow \in rows => x = v
    PROVE  <<[call |-> call, rows |-> rows, value |-> x]>> \in StatementsOf(v)
<1>1. [call |-> call, rows |-> rows, value |-> x] \in Statement
  BY DEF Statement
<1> QED
  BY <1>1 DEF StatementsOf, Legal

LEMMA TwoLists ==
    ASSUME NEW v \in Nat, NEW s \in StatementsOf(v), NEW t \in StatementsOf(v)
    PROVE  s \o t \in StatementsOf(v)
<1>1. s \in Seq(Statement) /\ t \in Seq(Statement)
  BY DEF StatementsOf
<1>2. s \o t \in Seq(Statement) /\ Len(s \o t) = Len(s) + Len(t)
  BY <1>1
<1>3. ASSUME NEW i \in 1..Len(s \o t) PROVE (s \o t)[i] \in {s[j] : j \in 1..Len(s)} \cup {t[j] : j \in 1..Len(t)}
  <2>1. CASE i <= Len(s)
    BY <1>1, <1>2, <2>1
  <2>2. CASE i > Len(s)
    <3>1. i - Len(s) \in 1..Len(t) /\ (s \o t)[i] = t[i - Len(s)]
      BY <1>1, <1>2, <2>2, SMTT(30)
    <3> QED
      BY <3>1
  <2>3. i \in Nat /\ Len(s) \in Nat
    BY <1>1, <1>2
  <2> QED
    BY <2>1, <2>2, <2>3
<1>4. DOMAIN (s \o t) = 1..Len(s \o t) /\ DOMAIN s = 1..Len(s) /\ DOMAIN t = 1..Len(t)
  BY <1>1, <1>2
<1>5. ASSUME NEW i \in 1..Len(s \o t) PROVE Legal((s \o t)[i], v)
  <2>1. CASE \E j \in 1..Len(s) : (s \o t)[i] = s[j]
    BY <1>4, <2>1 DEF StatementsOf
  <2>2. CASE \E j \in 1..Len(t) : (s \o t)[i] = t[j]
    BY <1>4, <2>2 DEF StatementsOf
  <2> QED
    BY <1>3, <2>1, <2>2
<1> QED
  BY <1>2, <1>4, <1>5 DEF StatementsOf

LEMMA PutIsList ==
    ASSUME NEW v \in Nat, NEW call \in 1..3, NEW row \in Row \cup File
    PROVE  Put(call, row, v) \in StatementsOf(v)
<1>1. {row} \in (SUBSET Row) \cup (SUBSET File)
  OBVIOUS
<1> QED
  BY <1>1, OneStatement DEF Put

LEMMA DeleteIsList ==
    ASSUME NEW v \in Nat, NEW rows \in (SUBSET Row) \cup (SUBSET File), SyncRow \notin rows
    PROVE  Delete(1, rows) \in StatementsOf(v)
<1>1. 1 \in 1..3 /\ 0 \in {0, v}
  OBVIOUS
<1> QED
  BY <1>1, OneStatement DEF Delete

LEMMA NamedRows ==
    /\ SyncRow \in Row /\ UidsRow \in Row /\ <<"threading", 0>> \in Row /\ <<"children", 0>> \in Row
    /\ {"metadata"} \X Uid \subseteq Row /\ {"flags"} \X Uid \subseteq Row
    /\ {"part"} \X Uid \subseteq Row
    /\ \A u \in Uid : /\ <<"metadata", u>> \in Row /\ <<"flags", u>> \in Row
                      /\ PartRow(u) \in Row /\ FileOf(u) \in File
BY DEF Row, File, SyncRow, UidsRow, PartRow, FileOf, Nothing

LEMMA SyncRowApart ==
    /\ SyncRow \notin File /\ SyncRow \notin {"metadata"} \X Uid /\ SyncRow \notin {"flags"} \X Uid
    /\ SyncRow \notin {"part"} \X Uid /\ SyncRow \notin {<<"threading", 0>>}
    /\ SyncRow \notin {UidsRow} /\ SyncRow \notin {<<"children", 0>>}
    /\ \A u \in Uid : /\ SyncRow \notin {<<"metadata", u>>} /\ SyncRow \notin {<<"flags", u>>}
                      /\ SyncRow \notin {PartRow(u)} /\ SyncRow \notin {FileOf(u)}
BY DEF File, SyncRow, UidsRow, PartRow, FileOf

LEMMA ClearAllIsList == ASSUME NEW v \in Nat PROVE ClearAllMessages \in StatementsOf(v)
<1>1. /\ {"metadata"} \X Uid \in SUBSET Row /\ {"flags"} \X Uid \in SUBSET Row
      /\ {"part"} \X Uid \in SUBSET Row /\ {<<"threading", 0>>} \in SUBSET Row
      /\ {UidsRow} \in SUBSET Row /\ File \in SUBSET File
  BY NamedRows
<1> DEFINE D1 == Delete(1, {"metadata"} \X Uid)
           D2 == Delete(1, {"flags"} \X Uid)
           D3 == Delete(1, {"part"} \X Uid)
           D4 == Delete(1, {<<"threading", 0>>})
           D5 == Delete(1, {UidsRow})
           D6 == Delete(1, File)
<1>2. /\ D1 \in StatementsOf(v) /\ D2 \in StatementsOf(v) /\ D3 \in StatementsOf(v)
      /\ D4 \in StatementsOf(v) /\ D5 \in StatementsOf(v) /\ D6 \in StatementsOf(v)
  BY <1>1, DeleteIsList, SyncRowApart
<1>3. ClearAllMessages = D1 \o D2 \o D3 \o D4 \o D5 \o D6
  BY DEF ClearAllMessages
<1> HIDE DEF D1, D2, D3, D4, D5, D6
<1>4. D1 \o D2 \in StatementsOf(v)
  BY <1>2, TwoLists
<1>5. D1 \o D2 \o D3 \in StatementsOf(v)
  BY <1>2, <1>4, TwoLists
<1>6. D1 \o D2 \o D3 \o D4 \in StatementsOf(v)
  BY <1>2, <1>5, TwoLists
<1>7. D1 \o D2 \o D3 \o D4 \o D5 \in StatementsOf(v)
  BY <1>2, <1>6, TwoLists
<1> QED
  BY <1>2, <1>3, <1>7, TwoLists

LEMMA ClearOneIsList ==
    ASSUME NEW v \in Nat, NEW u \in Uid PROVE ClearMessage(u) \in StatementsOf(v)
<1>1. /\ {<<"metadata", u>>} \in SUBSET Row /\ {<<"flags", u>>} \in SUBSET Row
      /\ {PartRow(u)} \in SUBSET Row /\ {FileOf(u)} \in SUBSET File
  BY NamedRows
<1> DEFINE D1 == Delete(1, {<<"metadata", u>>})
           D2 == Delete(1, {<<"flags", u>>})
           D3 == Delete(1, {PartRow(u)})
           D4 == Delete(1, {FileOf(u)})
<1>2. /\ D1 \in StatementsOf(v) /\ D2 \in StatementsOf(v) /\ D3 \in StatementsOf(v)
      /\ D4 \in StatementsOf(v)
  BY <1>1, DeleteIsList, SyncRowApart
<1>3. ClearMessage(u) = D1 \o D2 \o D3 \o D4
  BY DEF ClearMessage
<1> HIDE DEF D1, D2, D3, D4
<1>4. D1 \o D2 \in StatementsOf(v)
  BY <1>2, TwoLists
<1>5. D1 \o D2 \o D3 \in StatementsOf(v)
  BY <1>2, <1>4, TwoLists
<1> QED
  BY <1>2, <1>3, <1>5, TwoLists

\* Every handler: nothing runs, and the list that it leaves is one of its own.
LEMMA HandlerStep ==
    ASSUME Inv, Handler
    PROVE  /\ todo = <<>> /\ n < MaxHandlers /\ n' = n + 1 /\ todo' \in StatementsOf(n + 1)
           /\ session' \in Sessions /\ skipped' \in BOOLEAN /\ session # "off"
           /\ session \in Opened /\ session' \in Opened
           /\ UNCHANGED <<tables, committed, inTransaction, txn, delay, period, refused, files,
                          since, changes, age, faulty>>
<1> DEFINE L == StatementsOf(n + 1)
<1>0. n \in Nat /\ n + 1 \in Nat /\ 1 \in 1..3 /\ 2 \in 1..3 /\ 3 \in 1..3 /\ skipped \in BOOLEAN
  BY DEF Inv, TypeOK
<1>1. ASSUME NEW s \in L, Handle(s)
      PROVE  /\ todo = <<>> /\ n < MaxHandlers /\ n' = n + 1 /\ todo' \in L
             /\ UNCHANGED <<tables, committed, inTransaction, txn, delay, period, refused, files,
                          since, changes, age, faulty>>
  BY <1>1 DEF Handle
<1>2. ASSUME NEW S \in SUBSET Opened, Unchanged(S)
      PROVE session \in Opened /\ session' \in Opened /\ skipped' \in BOOLEAN
  BY <1>0, <1>2 DEF Unchanged
<1>3. Opened \subseteq Sessions /\ "off" \notin Opened
      /\ {"syncing", "synced"} \in SUBSET Opened /\ {"synced"} \in SUBSET Opened
  BY DEF Opened, Sessions
<1>4. <<>> \in L
  BY DEF StatementsOf
<1>5. ASSUME NEW call \in 1..2 PROVE SaveSyncStateAndUids(call, n + 1) \in L
  <2>1. call \in 1..3 /\ call + 1 \in 1..3
    OBVIOUS
  <2> QED
    BY <1>0, <2>1, NamedRows, PutIsList, TwoLists DEF SaveSyncStateAndUids
<1>6. CASE Select
  <2>1. skipped' \in BOOLEAN
    BY <1>0, <1>6 DEF Select, Inconsistent
  <2>2. session \in Opened /\ session' \in Opened /\ skipped' \in BOOLEAN
    BY <1>6, <2>1 DEF Select, Opened
  <2>3. PICK s \in L : Handle(s)
    BY <1>0, <1>4, <1>6, ClearAllIsList DEF Select
  <2> QED
    BY <1>1, <1>3, <2>2, <2>3
<1>7. CASE Synced
  <2>1. Handle(SaveSyncStateAndUids(1, n + 1))
    BY <1>7 DEF Synced
  <2>2. session \in Opened /\ session' \in Opened /\ skipped' \in BOOLEAN
    BY <1>0, <1>7 DEF Synced, Opened
  <2> QED
    BY <1>1, <1>3, <1>5, <2>1, <2>2
<1>8. CASE Threading
  BY <1>0, <1>1, <1>2, <1>3, <1>8, PutIsList, NamedRows DEF Threading
<1>9. CASE Children
  <2>1. SetChildMailboxes(n + 1) \in L
    <3>1. {<<"children", 0>>} \in SUBSET Row
      BY NamedRows
    <3> QED
      BY <1>0, <3>1, NamedRows, SyncRowApart, PutIsList, DeleteIsList, TwoLists DEF SetChildMailboxes
  <2> QED
    BY <1>1, <1>2, <1>3, <1>9, <2>1 DEF Children
<1>10. ASSUME NEW u \in Uid, Flags(u) \/ Expunge(u) \/ Metadata(u) \/ Part(u)
       PROVE  (\E s \in L : Handle(s)) /\ \E S \in SUBSET Opened : Unchanged(S)
  <2>1. CASE Flags(u)
    <3>1. Put(1, <<"flags", u>>, n + 1) \in L
      BY <1>0, NamedRows, PutIsList
    <3>2. Put(1, SyncRow, n + 1) \o Put(2, <<"flags", u>>, n + 1) \in L
      BY <1>0, NamedRows, PutIsList, TwoLists
    <3> QED
      BY <1>3, <2>1, <3>1, <3>2 DEF Flags
  <2>2. CASE Expunge(u)
    <3>1. ClearMessage(u) \o SaveSyncStateAndUids(2, n + 1) \in L /\ ClearMessage(u) \in L
      BY <1>0, <1>5, ClearOneIsList, TwoLists
    <3> QED
      BY <1>3, <2>2, <3>1 DEF Expunge
  <2>3. CASE Metadata(u)
    BY <1>0, <1>3, <2>3, NamedRows, PutIsList DEF Metadata
  <2>4. CASE Part(u)
    <3>1. \A place \in {PartRow(u), FileOf(u)} : Put(1, place, n + 1) \in L
      BY <1>0, NamedRows, PutIsList
    <3> QED
      BY <1>3, <2>4, <3>1 DEF Part
  <2> QED
    BY <1>10, <2>1, <2>2, <2>3, <2>4
<1>11. CASE \E u \in Uid : Flags(u) \/ Expunge(u) \/ Metadata(u) \/ Part(u)
  BY <1>1, <1>2, <1>3, <1>10, <1>11
<1> QED
  BY <1>6, <1>7, <1>8, <1>9, <1>11 DEF Handler
----------------------------------------------------------------------------
(* The rows after the statements of a list. *)

LEMMA LastExists ==
    ASSUME NEW list \in Seq(Statement), NEW r, NEW k \in DOMAIN list, r \in list[k].rows
    PROVE  \E i \in DOMAIN list : IsLast(list, r, i)
<1> DEFINE T == {i \in 1..Len(list) : r \in list[i].rows}
<1>1. DOMAIN list = 1..Len(list) /\ Len(list) \in Nat
  OBVIOUS
<1>2. T \in SUBSET (0..Len(list)) /\ T # {}
  BY <1>1
<1>3. PICK i \in T : \A j \in T : j <= i
  BY <1>1, <1>2, GreatestElement
<1>4. ASSUME NEW j \in DOMAIN list, j > i PROVE r \notin list[j].rows
  BY <1>1, <1>3, <1>4
<1> QED
  BY <1>1, <1>4 DEF IsLast

LEMMA AfterLast ==
    ASSUME NEW content, NEW list \in Seq(Statement), NEW r \in Row, NEW i, IsLast(list, r, i)
    PROVE  After(content, list)[r] = list[i].value
<1>1. DOMAIN list = 1..Len(list) /\ Len(list) \in Nat
  OBVIOUS
<1>2. ASSUME NEW j, IsLast(list, r, j) PROVE j = i
  BY <1>1, <1>2 DEF IsLast
<1>3. i = CHOOSE j \in DOMAIN list : IsLast(list, r, j)
  BY <1>2 DEF IsLast
<1>4. \E j \in DOMAIN list : r \in list[j].rows
  BY DEF IsLast
<1> QED
  BY <1>3, <1>4 DEF After

LEMMA AfterNone ==
    ASSUME NEW content, NEW list, NEW r \in Row, \A i \in DOMAIN list : r \notin list[i].rows
    PROVE  After(content, list)[r] = content[r]
BY DEF After

LEMMA AfterNothing == ASSUME NEW content \in Rows PROVE After(content, <<>>) = content
<1>1. \A r \in Row : After(content, <<>>)[r] = content[r]
  BY AfterNone
<1>2. After(content, <<>>) = [r \in Row |-> After(content, <<>>)[r]]
  BY DEF After
<1> QED
  BY <1>1, <1>2 DEF Rows

\* A row keeps its value or gets that of a statement.
LEMMA AfterOneOf ==
    ASSUME NEW content, NEW list \in Seq(Statement), NEW r \in Row
    PROVE  \/ After(content, list)[r] = content[r]
           \/ \E i \in DOMAIN list : After(content, list)[r] = list[i].value
<1>1. CASE \E k \in DOMAIN list : r \in list[k].rows
  <2>1. PICK i \in DOMAIN list : IsLast(list, r, i)
    BY <1>1, LastExists
  <2> QED
    BY <2>1, AfterLast
<1>2. CASE \A k \in DOMAIN list : r \notin list[k].rows
  BY <1>2, AfterNone
<1> QED
  BY <1>1, <1>2

LEMMA AfterType ==
    ASSUME NEW content \in Rows, NEW list \in Seq(Statement) PROVE After(content, list) \in Rows
<1>1. ASSUME NEW r \in Row PROVE After(content, list)[r] \in Nat
  <2>1. content[r] \in Nat
    BY DEF Rows
  <2>2. ASSUME NEW i \in DOMAIN list PROVE list[i].value \in Nat
    <3>1. list[i] \in Statement
      OBVIOUS
    <3> QED
      BY <3>1 DEF Statement
  <2> QED
    BY <2>1, <2>2, AfterOneOf
<1>2. After(content, list) = [r \in Row |-> After(content, list)[r]]
  BY DEF After
<1> QED
  BY <1>1, <1>2 DEF Rows

\* Executing the first statement changes nothing about the end.
LEMMA AfterTail ==
    ASSUME NEW content, NEW next, NEW list \in Seq(Statement), list # <<>>,
           \A r \in Row : next[r] = IF r \in Head(list).rows THEN Head(list).value
                                  ELSE content[r]
    PROVE  After(next, Tail(list)) = After(content, list)
<1> DEFINE rest == Tail(list)
<1>1. /\ Len(list) \in Nat \ {0} /\ DOMAIN list = 1..Len(list) /\ Head(list) = list[1]
      /\ rest \in Seq(Statement)
      /\ DOMAIN rest = 1..(Len(list) - 1) /\ \A i \in 1..(Len(list) - 1) : rest[i] = list[i + 1]
  OBVIOUS
<1> HIDE DEF rest
<1>2. ASSUME NEW r \in Row PROVE After(next, rest)[r] = After(content, list)[r]
  <2>1. CASE \E k \in DOMAIN rest : r \in rest[k].rows
    <3>1. PICK i \in DOMAIN rest : IsLast(rest, r, i)
      BY <1>1, <2>1, LastExists
    <3>2. IsLast(list, r, i + 1)
      <4>1. i + 1 \in DOMAIN list /\ r \in list[i + 1].rows
        BY <1>1, <3>1 DEF IsLast
      <4>2. ASSUME NEW j \in DOMAIN list, j > i + 1 PROVE r \notin list[j].rows
        <5>1. j - 1 \in DOMAIN rest /\ j - 1 > i /\ rest[j - 1] = list[j]
          BY <1>1, <4>2
        <5> QED
          BY <3>1, <5>1 DEF IsLast
      <4> QED
        BY <4>1, <4>2 DEF IsLast
    <3>3. After(next, rest)[r] = rest[i].value
      BY <1>1, <3>1, AfterLast
    <3>4. After(content, list)[r] = list[i + 1].value
      BY <3>2, AfterLast
    <3> QED
      BY <1>1, <3>1, <3>3, <3>4
  <2>2. CASE \A k \in DOMAIN rest : r \notin rest[k].rows
    <3>1. After(next, rest)[r] = next[r]
      BY <2>2, AfterNone
    <3>2. ASSUME NEW j \in DOMAIN list, j > 1 PROVE r \notin list[j].rows
      <4>1. j - 1 \in DOMAIN rest /\ rest[j - 1] = list[j]
        BY <1>1, <3>2
      <4> QED
        BY <2>2, <4>1
    <3>3. CASE r \in Head(list).rows
      <4>1. IsLast(list, r, 1)
        BY <1>1, <3>2, <3>3 DEF IsLast
      <4> QED
        BY <1>1, <3>1, <3>3, <4>1, AfterLast
    <3>4. CASE r \notin Head(list).rows
      <4>1. \A j \in DOMAIN list : r \notin list[j].rows
        BY <1>1, <3>2, <3>4
      <4> QED
        BY <3>1, <3>4, <4>1, AfterNone
    <3> QED
      BY <3>3, <3>4
  <2> QED
    BY <2>1, <2>2
<1>3. /\ After(next, rest) = [r \in Row |-> After(next, rest)[r]]
      /\ After(content, list) = [r \in Row |-> After(content, list)[r]]
  BY DEF After
<1> QED
  BY <1>2, <1>3 DEF rest

----------------------------------------------------------------------------
(* The invariant. *)

LEMMA RowsWritten ==
    ASSUME NEW content \in Rows, NEW s \in Statement
    PROVE  /\ Written(content, s) \in Rows
           /\ \A r \in Row : Written(content, s)[r] = IF r \in s.rows THEN s.value ELSE content[r]
BY DEF Written, Rows, Statement

LEMMA HeadAndTail ==
    ASSUME TypeOK, Numbered, todo # <<>>
    PROVE  /\ Head(todo) \in Statement /\ Head(todo).value <= n /\ Tail(todo) \in Seq(Statement)
           /\ \A i \in DOMAIN Tail(todo) : Tail(todo)[i].value <= n
<1>1. /\ Len(todo) \in Nat \ {0} /\ DOMAIN todo = 1..Len(todo) /\ Head(todo) = todo[1]
      /\ Tail(todo) \in Seq(Statement) /\ DOMAIN Tail(todo) = 1..(Len(todo) - 1)
      /\ \A i \in 1..(Len(todo) - 1) : Tail(todo)[i] = todo[i + 1]
  BY DEF TypeOK
<1>2. todo[1] \in Statement
  BY <1>1 DEF TypeOK
<1>3. \A i \in 1..(Len(todo) - 1) : i + 1 \in DOMAIN todo
  BY <1>1
<1> QED
  BY <1>1, <1>2, <1>3 DEF Numbered

LEMMA InitInv == Init => Inv
<1> SUFFICES ASSUME Init PROVE Inv
  OBVIOUS
<1>1. tables \in Rows /\ committed \in Rows /\ \A r \in Row : tables[r] <= 1 /\ committed[r] <= 1
  BY DEF Init, Empty, Full, Cleared, Rows
<1>2. TypeOK
  <2>1. todo \in Seq(Statement) /\ session \in Sessions
    BY DEF Init, Sessions
  <2>2. files \in [File -> Nat]
    BY DEF Init
  <2>3. /\ delay \in Off..Delay /\ period \in Off..Period /\ since \in Nat
        /\ changes \in 0..MaxChanges /\ age \in 0..(Period + 1) /\ faults \in 0..MaxFaults
    BY BoundAssumption, TimerAssumption DEF Init, Off
  <2>4. n \in 0..MaxHandlers
    BY BoundAssumption DEF Init
  <2>5. /\ inTransaction \in BOOLEAN /\ txn \in BOOLEAN /\ commitFailed \in BOOLEAN
        /\ refused \in BOOLEAN /\ skipped \in BOOLEAN
    BY DEF Init
  <2> QED
    BY <1>1, <2>1, <2>2, <2>3, <2>4, <2>5 DEF TypeOK
<1> QED
  BY <1>1, <1>2 DEF Inv, Numbered, Timers, Transaction, Init, Off

\* Starting a handler.
LEMMA HandlerInv == ASSUME Inv, Handler PROVE Inv'
<1>1. /\ todo = <<>> /\ n < MaxHandlers /\ n' = n + 1 /\ todo' \in StatementsOf(n + 1)
      /\ session' \in Sessions /\ skipped' \in BOOLEAN
      /\ UNCHANGED <<tables, committed, inTransaction, txn, delay, period, refused, files,
                     since, changes, age, faulty>>
  BY HandlerStep
<1>2. n \in Nat /\ n' \in 0..MaxHandlers
  BY <1>1, BoundAssumption DEF Inv, TypeOK
<1>3. TypeOK'
  BY <1>1, <1>2 DEF Inv, TypeOK, StatementsOf, faulty
<1>4. Numbered'
  <2>1. \A r \in Row : tables[r] \in Nat /\ committed[r] \in Nat
    BY DEF Inv, TypeOK, Rows
  <2>2. \A r \in Row : tables'[r] <= n' /\ committed'[r] <= n'
    BY <1>1, <1>2, <2>1 DEF Inv, Numbered
  <2>3. \A i \in DOMAIN (todo') : todo'[i].value <= n'
    BY <1>1, <1>2 DEF StatementsOf, Legal
  <2> QED
    BY <2>2, <2>3 DEF Numbered
<1> QED
  BY <1>1, <1>3, <1>4 DEF Inv, Timers, Transaction

LEMMA ExecuteInv == ASSUME Inv, Execute PROVE Inv'
<1>1. /\ todo # <<>> /\ tables' = Written(tables, Head(todo)) /\ todo' = Tail(todo)
      /\ committed' \in {committed, Written(committed, Head(todo))}
      /\ delay' = Delay /\ period' \in {period, Period} /\ (~inTransaction => period' = Period)
      /\ inTransaction' = TRUE
      /\ txn' = (txn \/ ~inTransaction)
      /\ (inTransaction => period' = period)
      /\ UNCHANGED <<refused, files, session, world, age, faulty, skipped>>
  BY DEF Execute, Step, Touched
<1>2. /\ Head(todo) \in Statement /\ Head(todo).value <= n /\ Tail(todo) \in Seq(Statement)
      /\ \A i \in DOMAIN Tail(todo) : Tail(todo)[i].value <= n
  BY <1>1, HeadAndTail DEF Inv
<1>3. tables' \in Rows /\ committed' \in Rows
  BY <1>1, <1>2, RowsWritten DEF Inv, TypeOK
<1>4. TypeOK'
  BY <1>1, <1>2, <1>3, TimerAssumption DEF Inv, TypeOK, world, faulty, Off
<1>5. Numbered'
  <2>1. \A r \in Row : tables'[r] <= n /\ committed'[r] <= n
    <3>1. \A r \in Row : tables[r] <= n /\ committed[r] <= n
      BY DEF Inv, Numbered
    <3>2. ASSUME NEW content \in {tables, committed}, NEW r \in Row
          PROVE  Written(content, Head(todo))[r] <= n
      <4>1. content \in Rows /\ content[r] <= n
        BY <3>1, <3>2 DEF Inv, TypeOK
      <4>2. Written(content, Head(todo))[r]
            = IF r \in Head(todo).rows THEN Head(todo).value ELSE content[r]
        BY <1>2, <4>1, RowsWritten
      <4> QED
        BY <1>2, <4>1, <4>2
    <3> QED
      BY <1>1, <3>1, <3>2
  <2> QED
    BY <1>1, <1>2, <2>1 DEF Numbered, world
<1>6. Timers'
  BY <1>1, TimerAssumption DEF Inv, Timers, Off
<1>7. Transaction'
  BY <1>1 DEF Inv, Transaction
<1> QED
  BY <1>4, <1>5, <1>6, <1>7 DEF Inv

LEMMA WriteFileInv == ASSUME Inv, WriteFile PROVE Inv'
<1>1. /\ todo # <<>> /\ todo' = Tail(todo) /\ files' = WrittenFiles(Head(todo))
      /\ UNCHANGED <<tables, committed, inTransaction, txn, delay, period, refused,
                     session, world, age, faulty, skipped>>
  BY DEF WriteFile, Step
<1>2. /\ Head(todo) \in Statement /\ Tail(todo) \in Seq(Statement)
      /\ \A i \in DOMAIN Tail(todo) : Tail(todo)[i].value <= n
  BY <1>1, HeadAndTail DEF Inv
<1>3. files' \in [File -> Nat]
  BY <1>1, <1>2 DEF Inv, TypeOK, WrittenFiles, Statement
<1>4. TypeOK'
  BY <1>1, <1>2, <1>3 DEF Inv, TypeOK, world, faulty
<1> QED
  BY <1>1, <1>2, <1>4 DEF Inv, Numbered, Timers, Transaction, world

LEMMA StatementFailsInv == ASSUME Inv, StatementFails PROVE Inv'
<1>1. /\ faults < MaxFaults /\ faults' = faults + 1
      /\ session' = "replaced" /\ refused' = TRUE
      /\ delay' = Delay /\ period' = (IF inTransaction THEN period ELSE Period)
      /\ inTransaction' = TRUE
      /\ tables' \in {tables, committed} /\ txn' \in {FALSE, txn \/ ~inTransaction}
      /\ UNCHANGED <<committed, files, world, age, commitFailed, skipped>>
  BY DEF StatementFails, Touched
<1>2. PICK k \in DOMAIN todo : todo' = SubSeq(todo, 2, k)
  BY DEF StatementFails
<1>3. DOMAIN todo = 1..Len(todo) /\ Len(todo) \in Nat
  BY DEF Inv, TypeOK
<1>4. /\ todo' \in Seq(Statement)
      /\ \A i \in DOMAIN (todo') : i + 1 \in DOMAIN todo /\ todo'[i] = todo[i + 1]
  <2>1. todo \in Seq(Statement) /\ k \in 1..Len(todo)
    BY <1>3 DEF Inv, TypeOK
  <2>2. \A i \in 2..k : todo[i] \in Statement
    BY <2>1
  <2>3. /\ todo' \in Seq(Statement) /\ Len(todo') = IF 2 <= k THEN k - 2 + 1 ELSE 0
        /\ \A i \in 1..(k - 2 + 1) : todo'[i] = todo[2 + i - 1]
    BY <1>2, <2>1, <2>2, SubSeqProperties
  <2>4. DOMAIN (todo') = 1..Len(todo')
    BY <2>3
  <2>5. \A i \in 1..Len(todo') : i \in 1..(k - 2 + 1) /\ 2 + i - 1 = i + 1 /\ i + 1 \in 1..Len(todo)
    BY <2>1, <2>3
  <2> QED
    BY <1>3, <2>3, <2>4, <2>5
<1>5. TypeOK'
  <2>1. faults' \in 0..MaxFaults
    BY <1>1, BoundAssumption DEF Inv, TypeOK
  <2>2. txn' \in BOOLEAN
    BY <1>1 DEF Inv, TypeOK
  <2>3. delay' \in Off..Delay /\ period' \in Off..Period
    BY <1>1, TimerAssumption DEF Inv, TypeOK, Off
  <2> QED
    BY <1>1, <1>4, <2>1, <2>2, <2>3 DEF Inv, TypeOK, world, Sessions
<1>6. Numbered'
  BY <1>1, <1>4 DEF Inv, Numbered, world
<1>7. Timers'
  BY <1>1, TimerAssumption DEF Inv, Timers, Off
<1> QED
  BY <1>1, <1>5, <1>6, <1>7 DEF Inv, Transaction

\* What may come out of a commit.
LEMMA ResultFacts ==
    ASSUME TypeOK, NEW result \in Results
    PROVE  /\ result \in {"done", "open", "undone"}
           /\ faults + (IF result = "done" THEN 0 ELSE 1) \in 0..MaxFaults
           /\ ~inTransaction => result = "done"
<1>1. result = "done" \/ (result \in {"open", "undone"} /\ faults < MaxFaults /\ inTransaction)
  BY DEF Results
<1>2. faults \in 0..MaxFaults
  BY DEF TypeOK
<1>3. CASE result = "done"
  BY <1>2, <1>3
<1>4. CASE result \in {"open", "undone"} /\ faults < MaxFaults /\ inTransaction
  <2>1. result # "done"
    BY <1>4
  <2>2. faults + 1 \in 0..MaxFaults
    BY <1>2, <1>4, BoundAssumption
  <2> QED
    BY <1>4, <2>1, <2>2
<1> QED
  BY <1>1, <1>3, <1>4

LEMMA TimeToCommitInv == ASSUME Inv, TimeToCommit PROVE Inv'
<1>1. PICK result \in Results : Commit(result)
  BY DEF TimeToCommit
<1>2. /\ todo = <<>> /\ UNCHANGED <<todo, refused, files, session, world, skipped>>
      /\ \/ delay = 0 /\ delay' = Delay /\ UNCHANGED period
         \/ period = 0 /\ period' = Period /\ UNCHANGED delay
  BY DEF TimeToCommit
<1>3. /\ inTransaction' = FALSE /\ tables' \in {tables, committed}
      /\ committed' \in {tables, committed} /\ txn' \in {txn, FALSE}
      /\ commitFailed' = (commitFailed \/ result # "done")
      /\ faults' = faults + (IF result = "done" THEN 0 ELSE 1)
      /\ age' \in {0, age}
  BY <1>1 DEF Commit, CommitEnds
<1>4. delay' \in Off..Delay /\ period' \in Off..Period
  BY <1>2, TimerAssumption DEF Inv, TypeOK, Off
<1>5. /\ tables' \in Rows /\ committed' \in Rows /\ txn' \in BOOLEAN
      /\ commitFailed' \in BOOLEAN /\ age' \in 0..(Period + 1) /\ faults' \in 0..MaxFaults
  <2>1. tables' \in Rows /\ committed' \in Rows
    BY <1>3 DEF Inv, TypeOK
  <2>2. txn' \in BOOLEAN /\ commitFailed' \in BOOLEAN
    <3>1. txn \in BOOLEAN
      BY DEF Inv, TypeOK
    <3>2. txn' \in BOOLEAN
      BY <1>3, <3>1
    <3>3. commitFailed' \in BOOLEAN
      BY <1>3, Zenon
    <3> QED
      BY <3>2, <3>3
  <2>3. age' \in 0..(Period + 1)
    BY <1>3, TimerAssumption DEF Inv, TypeOK
  <2>4. faults' \in 0..MaxFaults
    BY <1>3, ResultFacts DEF Inv
  <2> QED
    BY <2>1, <2>2, <2>3, <2>4
<1>6. TypeOK'
  BY <1>2, <1>3, <1>4, <1>5 DEF Inv, TypeOK, world
<1>7. Numbered'
  BY <1>2, <1>3 DEF Inv, Numbered, world
<1>8. Timers'
  BY <1>2, <1>3, TimerAssumption DEF Inv, Timers, Off
<1> QED
  BY <1>3, <1>6, <1>7, <1>8 DEF Inv, Transaction

LEMMA DestroyInv ==
    ASSUME Inv, NEW result \in Results, Destroy(result), UNCHANGED commitFailed,
           session' \in Sessions
    PROVE  Inv'
<1>1. /\ todo = <<>> /\ UNCHANGED todo
      /\ committed' \in {tables, committed} /\ tables' = committed'
      /\ inTransaction' = FALSE /\ txn' = FALSE /\ delay' = Off /\ period' = Off
      /\ faults' = faults + (IF result = "done" THEN 0 ELSE 1)
      /\ age' = 0 /\ UNCHANGED <<refused, files, world, skipped>>
  BY DEF Destroy
<1>2. TypeOK'
  <2>1. tables' \in Rows /\ committed' \in Rows
    BY <1>1 DEF Inv, TypeOK
  <2>2. /\ delay' \in Off..Delay /\ period' \in Off..Period /\ age' \in 0..(Period + 1)
    BY <1>1, TimerAssumption DEF Off
  <2>3. faults' \in 0..MaxFaults
    BY <1>1, ResultFacts DEF Inv
  <2> QED
    BY <1>1, <2>1, <2>2, <2>3 DEF Inv, TypeOK, world
<1> QED
  BY <1>1, <1>2 DEF Inv, Numbered, Timers, Transaction, world

\* Tick leaves the rows alone and never takes a timer below zero.
LEMMA TickInv == ASSUME Inv, Tick PROVE Inv'
<1>1. /\ delay # 0 /\ period # 0 /\ delay # Off /\ delay' = delay - 1 /\ period' = period - 1
      /\ age' = (IF tables # committed /\ age <= Period THEN age + 1 ELSE age)
      /\ UNCHANGED <<tables, committed, todo, inTransaction, txn, refused, files, session,
                     world, faulty, skipped>>
  BY DEF Tick
<1>2. delay \in Nat \ {0} /\ period \in Nat \ {0}
  BY <1>1, TimerAssumption DEF Inv, TypeOK, Timers, Off
<1>3. /\ delay' \in Off..Delay /\ period' \in Off..Period /\ age' \in 0..(Period + 1)
      /\ delay' # Off /\ period' # Off
  BY <1>1, <1>2, TimerAssumption DEF Inv, TypeOK, Off
<1>4. TypeOK'
  BY <1>1, <1>3 DEF Inv, TypeOK, world, faulty
<1> QED
  BY <1>1, <1>3, <1>4 DEF Inv, Numbered, Timers, Transaction, world

LEMMA CrashInv == ASSUME Inv, Crash PROVE Inv'
<1>1. /\ session' = "off" /\ tables' = committed /\ todo' = <<>>
      /\ inTransaction' = FALSE /\ txn' = FALSE /\ delay' = Off /\ period' = Off /\ age' = 0
      /\ UNCHANGED <<committed, refused, files, world, faulty, skipped>>
  BY DEF Crash
<1>2. TypeOK'
  <2>1. /\ delay' \in Off..Delay /\ period' \in Off..Period /\ age' \in 0..(Period + 1)
    BY <1>1, TimerAssumption DEF Off
  <2>2. session' \in Sessions /\ todo' \in Seq(Statement)
    BY <1>1 DEF Sessions
  <2> QED
    BY <1>1, <2>1, <2>2 DEF Inv, TypeOK, world, faulty
<1> QED
  BY <1>1, <1>2 DEF Inv, Numbered, Timers, Transaction, world

\* Steps that touch neither the rows nor the timers.
LEMMA OtherInv ==
    ASSUME Inv, Disconnect \/ UidValidityChanges \/ Start \/ UNCHANGED vars
    PROVE  Inv'
<1>1. /\ UNCHANGED <<tables, committed, todo, inTransaction, txn, delay, period, refused,
                     files, n, age, faults, skipped>>
      /\ session' \in {session, "offline"} /\ since' \in {since, n + 1}
      /\ changes' \in 0..MaxChanges /\ commitFailed' \in BOOLEAN
  <2>1. changes \in 0..MaxChanges /\ commitFailed \in BOOLEAN
    BY DEF Inv, TypeOK
  <2>2. CASE Disconnect
    BY <2>1, <2>2 DEF Disconnect, sql, world, faulty
  <2>3. CASE UidValidityChanges
    BY <2>1, <2>3, BoundAssumption DEF UidValidityChanges, sql, world, faulty
  <2>4. CASE Start
    BY <2>1, <2>4 DEF Start, sql, world, faulty
  <2>5. CASE UNCHANGED vars
    BY <2>1, <2>5 DEF vars, sql, world, faulty
  <2> QED
    BY <2>2, <2>3, <2>4, <2>5
<1>2. since' \in Nat /\ session' \in Sessions
  <2>1. n \in 0..MaxHandlers /\ since \in Nat /\ session \in Sessions
    BY DEF Inv, TypeOK
  <2> QED
    BY <1>1, <2>1, BoundAssumption DEF Sessions
<1>3. TypeOK'
  BY <1>1, <1>2 DEF Inv, TypeOK
<1> QED
  BY <1>1, <1>3 DEF Inv, Numbered, Timers, Transaction

LEMMA NextInv == ASSUME Inv, [Next]_vars PROVE Inv'
<1>1. CASE Handler
  BY <1>1, HandlerInv
<1>2. CASE Execute
  BY <1>2, ExecuteInv
<1>3. CASE WriteFile
  BY <1>3, WriteFileInv
<1>4. CASE StatementFails
  BY <1>4, StatementFailsInv
<1>5. CASE TimeToCommit
  BY <1>5, TimeToCommitInv
<1>6. CASE Replaced \/ Quit
  <2>1. PICK result \in Results : Destroy(result)
    BY <1>6 DEF Replaced, Quit
  <2>2. UNCHANGED commitFailed /\ session' \in Sessions
    BY <1>6 DEF Replaced, Quit, Sessions
  <2> QED
    BY <2>1, <2>2, DestroyInv
<1>7. CASE Disconnect \/ UidValidityChanges \/ Start \/ UNCHANGED vars
  BY <1>7, OtherInv
<1>8. CASE Crash
  BY <1>8, CrashInv
<1>9. CASE Tick
  BY <1>9, TickInv
<1> QED
  BY <1>1, <1>2, <1>3, <1>4, <1>5, <1>6, <1>7, <1>8, <1>9 DEF Next

\* The whole state keeps its type: values are numbers of handlers, a timer is
\* off or counts down from its interval (SQLCache.cpp).
THEOREM CacheTypes == Spec => []TypeOK
<1>1. Inv => TypeOK
  BY DEF Inv
<1> QED
  BY <1>1, InitInv, NextInv, PTL DEF Spec
----------------------------------------------------------------------------
(* The refinement: the tables implement the abstract store. *)

Target == After(tables, todo)

LEMMA Targets == ASSUME Inv PROVE Target \in Rows /\ committed \in Rows
BY AfterType DEF Inv, TypeOK, Target

LEMMA IdleTarget == ASSUME Inv, todo = <<>> PROVE Target = tables
BY AfterNothing DEF Inv, TypeOK, Target

LEMMA InitMaps == Init => Promised!Init
<1> SUFFICES ASSUME Init PROVE Promised!Init
  OBVIOUS
<1>1. Target = tables /\ tables \in {Empty, Full, Cleared} /\ committed = tables /\ refused = FALSE
  BY InitInv, IdleTarget DEF Init
<1>2. tables \in [Row -> {0, 1}]
  BY <1>1 DEF Empty, Full, Cleared
<1> QED
  BY <1>1, <1>2 DEF Promised!Init, Target

\* A handler is one step of the store, whatever its statements.
LEMMA HandlerMaps == ASSUME Inv, Inv', Handler PROVE Promised!Handle
<1> DEFINE next == After(tables, todo')
<1>1. /\ todo = <<>> /\ n' = n + 1 /\ todo' \in StatementsOf(n + 1)
      /\ UNCHANGED <<tables, committed, refused>>
  BY HandlerStep
<1>2. Target = tables /\ Target' = next /\ next \in Rows /\ tables \in Rows /\ committed \in Rows
  BY <1>1, IdleTarget, Targets, AfterType DEF Inv, TypeOK, Target, StatementsOf
<1>3. n \in Nat
  BY DEF Inv, TypeOK
<1>4. \A r \in Row : tables[r] < n + 1 /\ committed[r] < n + 1
  BY <1>2, <1>3 DEF Inv, Numbered, Rows
<1>5. ASSUME NEW r \in Row PROVE next[r] \in {tables[r], 0, n + 1}
  BY <1>1, AfterOneOf DEF StatementsOf, Legal
<1> HIDE DEF next
<1>6. ASSUME NEW v \in {tables[r] : r \in Row} \cup {0, n + 1},
             \A r \in Row : tables[r] < v /\ committed[r] < v, Row # {}
      PROVE  v = n + 1
  <2>1. \A r \in Row : tables[r] \in Nat
    BY <1>2 DEF Rows
  <2> QED
    BY <1>6, <2>1
<1>7. Row # {}
  BY NamedRows
<1>8. next \in [Row -> Nat]
  BY <1>2 DEF Rows
<1>9. \A r \in Row : \/ next[r] \in {tables[r], 0}
                    \/ \A q \in Row : tables[q] < next[r] /\ committed[q] < next[r]
  BY <1>4, <1>5
<1>10. ASSUME NEW q \in Row, NEW r \in Row,
              \A x \in Row : tables[x] < next[q] /\ committed[x] < next[q],
              \A x \in Row : tables[x] < next[r] /\ committed[x] < next[r]
       PROVE  next[q] = next[r]
  <2>1. next[q] = n + 1
    BY <1>5, <1>6, <1>7, <1>10
  <2>2. next[r] = n + 1
    BY <1>5, <1>6, <1>7, <1>10
  <2> QED
    BY <2>1, <2>2
<1>11. \A r \in Row : next[r] \in {tables[r], 0} \/ Promised!Fresh(next[r])
  BY <1>2, <1>9 DEF Promised!Fresh, Target
<1>12. \A q, r \in Row : Promised!Fresh(next[q]) /\ Promised!Fresh(next[r]) => next[q] = next[r]
  BY <1>2, <1>10 DEF Promised!Fresh, Target
<1> QED
  BY <1>1, <1>2, <1>8, <1>11, <1>12 DEF Promised!Handle, Promised!Contents, Target

\* Executing a statement is no step of the store.
LEMMA StatementMaps ==
    ASSUME Inv, Inv', Execute \/ WriteFile, ~refused
    PROVE  Target' = Target /\ committed' = committed /\ refused' = refused
<1>1. todo # <<>> /\ todo' = Tail(todo) /\ refused' = refused
  BY DEF Execute, WriteFile, Step
<1>2. todo \in Seq(Statement) /\ tables \in Rows /\ Head(todo) \in Statement
  BY <1>1, HeadAndTail DEF Inv, TypeOK
<1>3. \A r \in Row : tables'[r] = IF r \in Head(todo).rows THEN Head(todo).value ELSE tables[r]
  <2>1. CASE Execute
    BY <1>2, <2>1, RowsWritten DEF Execute
  <2>2. CASE WriteFile
    BY <2>2, RowOrFile DEF WriteFile
  <2> QED
    BY <2>1, <2>2
<1>4. After(tables', Tail(todo)) = After(tables, todo)
  BY <1>1, <1>2, <1>3, AfterTail
<1>5. committed' = committed
  BY DEF Execute, WriteFile, Inv, Transaction
<1> QED
  BY <1>1, <1>4, <1>5 DEF Target

\* A commit saves, loses or does nothing.
LEMMA CommitMaps ==
    ASSUME Inv, Inv', todo = <<>>, todo' = <<>>, UNCHANGED refused,
           \/ tables' = tables /\ committed' \in {tables, committed}
           \/ tables' = committed /\ committed' = committed
    PROVE  Promised!Save \/ Promised!Lose \/ UNCHANGED <<Target, committed, refused>>
<1>1. Target = tables /\ Target' = tables'
  <2>1. tables \in Rows /\ tables' \in Rows
    BY DEF Inv, TypeOK
  <2> QED
    BY <2>1, AfterNothing DEF Target
<1>2. CASE tables' = tables /\ committed' = tables
  BY <1>1, <1>2 DEF Promised!Save, Target
<1>3. CASE tables' = tables /\ committed' = committed
  BY <1>1, <1>3
<1>4. CASE tables' = committed /\ committed' = committed
  BY <1>1, <1>4 DEF Promised!Lose, Target
<1> QED
  BY <1>2, <1>3, <1>4

LEMMA NextMaps ==
    ASSUME Inv, Inv', [Next]_vars
    PROVE  Promised!Next \/ UNCHANGED <<Target, committed, refused>>
<1>1. Target' \in Rows /\ committed' \in Rows
  BY AfterType DEF Inv, TypeOK, Target
<1>2. refused \in BOOLEAN /\ refused' \in BOOLEAN
  BY DEF Inv, TypeOK
<1>3. CASE refused' = TRUE
  BY <1>1, <1>3 DEF Promised!Next, Promised!Break, Promised!Contents, Rows, Target
<1>4. CASE refused' = FALSE
  <2>1. CASE Handler
    BY <2>1, HandlerMaps DEF Promised!Next
  <2>2. CASE Execute \/ WriteFile
    <3>1. refused = FALSE
      BY <1>4, <2>2 DEF Execute, WriteFile
    <3> QED
      BY <2>2, <3>1, StatementMaps
  <2>3. CASE StatementFails
    BY <1>4, <2>3 DEF StatementFails
  <2>4. CASE TimeToCommit
    <3>1. PICK result \in Results : Commit(result)
      BY <2>4 DEF TimeToCommit
    <3>2. todo = <<>> /\ todo' = <<>> /\ UNCHANGED refused
      BY <2>4 DEF TimeToCommit
    <3>3. \/ tables' = tables /\ committed' \in {tables, committed}
          \/ tables' = committed /\ committed' = committed
      BY <3>1 DEF Commit, CommitEnds
    <3> QED
      BY <3>2, <3>3, CommitMaps DEF Promised!Next
  <2>5. CASE Replaced \/ Quit
    <3>1. PICK result \in Results : Destroy(result)
      BY <2>5 DEF Replaced, Quit
    <3>2. todo = <<>> /\ todo' = <<>> /\ UNCHANGED refused
      BY <3>1 DEF Destroy
    <3>3. CASE committed' = tables /\ tables' = tables
      BY <3>2, <3>3, CommitMaps DEF Promised!Next
    <3>4. CASE committed' = committed /\ tables' = committed
      BY <3>2, <3>4, CommitMaps DEF Promised!Next
    <3> QED
      BY <3>1, <3>3, <3>4 DEF Destroy
  <2>6. CASE Disconnect \/ UidValidityChanges \/ Start \/ Tick \/ UNCHANGED vars
    <3>1. UNCHANGED <<tables, todo, committed, refused>>
      BY <2>6 DEF Disconnect, UidValidityChanges, Start, Tick, vars, sql
    <3> QED
      BY <3>1 DEF Target
  <2>7. CASE Crash
    <3>1. tables' = committed /\ todo' = <<>> /\ committed' = committed /\ refused' = refused
      BY <2>7 DEF Crash
    <3>2. Target' = tables'
      BY <3>1, AfterNothing DEF Target, Inv, TypeOK
    <3> QED
      BY <3>1, <3>2 DEF Promised!Next, Promised!Lose, Target
  <2> QED
    BY <2>1, <2>2, <2>3, <2>4, <2>5, <2>6, <2>7 DEF Next
<1> QED
  BY <1>2, <1>3, <1>4

\* The rows of the database are those of the abstract store: every handler takes
\* effect on the disk as a whole or not at all (touchingDB, timeToCommit, ~SQLCache).
THEOREM CacheImplementsStore == Spec => ImplementsStore
<1>1. Inv /\ Inv' /\ [Next]_vars => [Promised!Next]_<<Target, committed, ~refused>>
  <2> SUFFICES ASSUME Inv, Inv', [Next]_vars PROVE [Promised!Next]_<<Target, committed, ~refused>>
    OBVIOUS
  <2> QED
    BY NextMaps
<1>2. Spec => Promised!Init /\ [][Promised!Next]_<<Target, committed, ~refused>>
  BY <1>1, InitInv, InitMaps, NextInv, PTL DEF Spec
<1> QED
  BY <1>2 DEF ImplementsStore, Promised!Spec, Target

----------------------------------------------------------------------------
(* What a crash may lose. *)

\* The period was started by the first write of the transaction, so the age of
\* that write and the rest of the period add up to at most Period.
Loss ==
    /\ ~commitFailed =>
         IF inTransaction THEN period \in Nat /\ age + period <= Period
         ELSE tables = committed /\ age = 0
    /\ session \in {"off", "memory"} =>
         tables = committed /\ age = 0 /\ ~inTransaction /\ todo = <<>>

LEMMA LossHolds == ASSUME Inv, Inv', Loss, [Next]_vars PROVE Loss'
<1>0. /\ age \in Nat /\ period \in Off..Period /\ Period \in Nat /\ inTransaction \in BOOLEAN
      /\ commitFailed \in BOOLEAN
  BY TimerAssumption DEF Inv, TypeOK
<1>1. CASE Handler
  <2>1. /\ session' \in Opened
        /\ UNCHANGED <<tables, committed, inTransaction, period, age, commitFailed>>
    BY <1>1, HandlerStep DEF faulty
  <2> QED
    BY <2>1 DEF Loss, Opened
<1>2. CASE Execute
  <2>1. /\ session' = session /\ todo # <<>> /\ inTransaction' = TRUE
        /\ age' = age /\ commitFailed' = commitFailed
        /\ period' = (IF inTransaction THEN period ELSE Period)
    BY <1>2 DEF Execute, Step, Touched, faulty
  <2>2. session \notin {"off", "memory"}
    BY <2>1 DEF Loss
  <2> QED
    BY <1>0, <2>1, <2>2 DEF Loss
<1>3. CASE WriteFile
  <2>1. /\ session' = session /\ todo # <<>>
        /\ UNCHANGED <<tables, committed, inTransaction, period, age, commitFailed>>
    BY <1>3 DEF WriteFile, Step, faulty
  <2> QED
    BY <2>1 DEF Loss
<1>4. CASE StatementFails
  <2>1. /\ session' = "replaced" /\ inTransaction' = TRUE
        /\ age' = age /\ commitFailed' = commitFailed
        /\ period' = (IF inTransaction THEN period ELSE Period)
    BY <1>4 DEF StatementFails, Touched
  <2> QED
    BY <1>0, <2>1 DEF Loss
<1>5. CASE TimeToCommit
  <2>1. PICK result \in Results : Commit(result)
    BY <1>5 DEF TimeToCommit
  <2>2. session' = session /\ todo = <<>> /\ todo' = <<>>
    BY <1>5 DEF TimeToCommit
  <2>3. inTransaction' = FALSE /\ commitFailed' = (commitFailed \/ result # "done")
        /\ age' = IF inTransaction /\ result # "open" THEN 0 ELSE age
    BY <2>1 DEF Commit
  <2>4. CASE ~inTransaction
    BY <2>1, <2>2, <2>3, <2>4, <1>0 DEF Loss, Commit, CommitEnds
  <2>5. CASE inTransaction /\ result = "done"
    <3>1. tables' = tables /\ committed' = tables /\ age' = 0
      BY <2>1, <2>3, <2>5 DEF Commit, CommitEnds
    <3> QED
      BY <2>2, <2>3, <3>1 DEF Loss
  <2>6. CASE inTransaction /\ result # "done"
    <3>1. session \notin {"off", "memory"}
      BY <2>6 DEF Loss
    <3> QED
      BY <2>2, <2>3, <2>6, <3>1 DEF Loss
  <2> QED
    BY <1>0, <2>4, <2>5, <2>6
<1>6. CASE Replaced \/ Quit
  <2>1. PICK result \in Results : Destroy(result)
    BY <1>6 DEF Replaced, Quit
  <2>2. tables' = committed' /\ age' = 0 /\ inTransaction' = FALSE /\ todo' = <<>>
    BY <2>1 DEF Destroy
  <2> QED
    BY <2>2 DEF Loss
<1>7. CASE Disconnect \/ UidValidityChanges
  <2>1. UNCHANGED <<tables, committed, todo, inTransaction, period, age, commitFailed>>
        /\ session' \in {session, "offline"}
    BY <1>7 DEF Disconnect, UidValidityChanges, sql, faulty
  <2> QED
    BY <2>1 DEF Loss
<1>8. CASE Crash
  BY <1>8 DEF Loss, Crash
<1>9. CASE Start
  BY <1>9 DEF Loss, Start, sql
<1>10. CASE Tick
  <2>1. /\ session \in Opened /\ session' = session /\ period # 0 /\ delay # Off
        /\ period' = period - 1
        /\ age' = (IF tables # committed /\ age <= Period THEN age + 1 ELSE age)
        /\ UNCHANGED <<tables, committed, inTransaction, commitFailed>>
    BY <1>10 DEF Tick, faulty
  <2>2. session' \notin {"off", "memory"}
    BY <2>1 DEF Opened
  <2>3. period \in Nat \ {0}
    BY <1>0, <2>1 DEF Inv, Timers, Off
  <2> QED
    BY <1>0, <2>1, <2>2, <2>3 DEF Loss
<1>11. CASE UNCHANGED vars
  BY <1>11 DEF Loss, vars, sql, faulty
<1> QED
  BY <1>1, <1>2, <1>3, <1>4, <1>5, <1>6, <1>7, <1>8, <1>9, <1>10, <1>11 DEF Next

\* A crash loses at most Period of writes, as long as commits succeed: touchingDB
\* does not restart the period timer while a transaction is open.
THEOREM CrashLosesLittle == Spec => []BoundedLoss
<1>1. Init => Loss
  BY DEF Init, Loss
<1>2. Inv /\ Loss => BoundedLoss
  <2> SUFFICES ASSUME Inv, Loss PROVE BoundedLoss
    OBVIOUS
  <2>1. age \in Nat /\ Period \in Nat
    BY TimerAssumption DEF Inv, TypeOK
  <2> QED
    BY <2>1 DEF Loss, BoundedLoss
<1> QED
  BY <1>1, <1>2, InitInv, NextInv, LossHolds, PTL DEF Spec


----------------------------------------------------------------------------
(* The parts in the tables and in files belong to the current UIDVALIDITY. *)

Fresh(v) == v = 0 \/ v >= since
FreshRows(content) == \A u \in Uid : Fresh(content[PartRow(u)])
FreshFiles == \A f \in File : Fresh(files[f])

\* Content whose sync state is current holds current parts only, whether it is
\* what the program goes on with or what it finds after a crash.
Current(content) == content[SyncRow] >= since => FreshRows(content) /\ FreshFiles

\* While the mailbox is selected, nothing is left of an older UIDVALIDITY when
\* the statements of the handler have been executed.
WillBeFresh ==
    /\ FreshRows(Target)
    /\ \A f \in File : Fresh(files[f]) \/ \E i \in DOMAIN todo : f \in todo[i].rows

Parts ==
    /\ ~refused /\ since \in 1..(n + 1) /\ todo \in StatementsOf(n)
    /\ session \in {"off", "offline", "syncing", "synced"}
    /\ IF Connected THEN since <= n ELSE todo = <<>>
    /\ committed[SyncRow] <= Target[SyncRow]
    /\ ~skipped => Current(Target) /\ Current(committed)
    /\ ~skipped /\ Connected => WillBeFresh

\* The sets of rows that the statements of a list write.
WrittenBy(s) == {s[i].rows : i \in DOMAIN s}

LEMMA WrittenByBoth ==
    ASSUME NEW s \in Seq(Statement), NEW t \in Seq(Statement)
    PROVE  WrittenBy(s \o t) = WrittenBy(s) \cup WrittenBy(t)
<1> DEFINE st == s \o t
<1>1. /\ Len(st) = Len(s) + Len(t) /\ Len(s) \in Nat /\ Len(t) \in Nat
      /\ DOMAIN s = 1..Len(s) /\ DOMAIN t = 1..Len(t) /\ DOMAIN st = 1..Len(st)
      /\ \A i \in 1..Len(s) : st[i] = s[i]
  OBVIOUS
<1>2. ASSUME NEW i \in 1..Len(t) PROVE Len(s) + i \in 1..Len(st) /\ st[Len(s) + i] = t[i]
  BY <1>1, SMTT(30)
<1>3. ASSUME NEW i \in 1..Len(st), i > Len(s) PROVE i - Len(s) \in 1..Len(t) /\ st[i] = t[i - Len(s)]
  BY <1>1, <1>3, SMTT(30)
<1> HIDE DEF st
<1>4. ASSUME NEW i \in 1..Len(st) PROVE st[i].rows \in WrittenBy(s) \cup WrittenBy(t)
  <2>1. CASE i <= Len(s)
    BY <1>1, <2>1 DEF WrittenBy
  <2>2. CASE i > Len(s)
    <3>1. i - Len(s) \in DOMAIN t /\ st[i] = t[i - Len(s)]
      BY <1>1, <1>3, <2>2
    <3> QED
      BY <3>1 DEF WrittenBy
  <2> QED
    BY <1>1, <2>1, <2>2
<1>5. ASSUME NEW i \in 1..Len(s) PROVE s[i].rows \in WrittenBy(st)
  <2>1. i \in DOMAIN st /\ st[i] = s[i]
    BY <1>1
  <2> QED
    BY <2>1 DEF WrittenBy
<1>6. ASSUME NEW i \in 1..Len(t) PROVE t[i].rows \in WrittenBy(st)
  <2>1. Len(s) + i \in DOMAIN st /\ st[Len(s) + i] = t[i]
    BY <1>1, <1>2
  <2> QED
    BY <2>1 DEF WrittenBy
<1>7. WrittenBy(st) \subseteq WrittenBy(s) \cup WrittenBy(t)
  BY <1>1, <1>4 DEF WrittenBy
<1>8. WrittenBy(s) \subseteq WrittenBy(st) /\ WrittenBy(t) \subseteq WrittenBy(st)
  BY <1>1, <1>5, <1>6 DEF WrittenBy
<1> QED
  BY <1>7, <1>8 DEF st

LEMMA DeleteWrites == \A rows : WrittenBy(Delete(1, rows)) = {rows}
<1> SUFFICES ASSUME NEW rows PROVE WrittenBy(Delete(1, rows)) = {rows}
  OBVIOUS
<1> DEFINE d == [call |-> 1, rows |-> rows, value |-> 0]
<1>1. DOMAIN <<d>> = {1} /\ <<d>>[1] = d /\ d.rows = rows
  OBVIOUS
<1> QED
  BY <1>1 DEF WrittenBy, Delete

\* Clearing the messages removes every part, from the tables and from the disk.
LEMMA ClearAllParts ==
    WrittenBy(ClearAllMessages)
        = {{"metadata"} \X Uid, {"flags"} \X Uid, {"part"} \X Uid, {<<"threading", 0>>},
           {UidsRow}, File}
<1> DEFINE D1 == Delete(1, {"metadata"} \X Uid)
           D2 == Delete(1, {"flags"} \X Uid)
           D3 == Delete(1, {"part"} \X Uid)
           D4 == Delete(1, {<<"threading", 0>>})
           D5 == Delete(1, {UidsRow})
           D6 == Delete(1, File)
           L == Seq(Statement)
<1>1. \A rows \in (SUBSET Row) \cup (SUBSET File) : Delete(1, rows) \in L
  BY DEF Delete, Statement
<1>2. D1 \in L /\ D2 \in L /\ D3 \in L /\ D4 \in L /\ D5 \in L /\ D6 \in L
  <2>1. /\ {"metadata"} \X Uid \in SUBSET Row /\ {"flags"} \X Uid \in SUBSET Row
        /\ {"part"} \X Uid \in SUBSET Row /\ {<<"threading", 0>>} \in SUBSET Row
        /\ {UidsRow} \in SUBSET Row /\ File \in SUBSET File
    BY NamedRows
  <2> QED
    BY <1>1, <2>1
<1>3. /\ WrittenBy(D1) = {{"metadata"} \X Uid} /\ WrittenBy(D2) = {{"flags"} \X Uid}
      /\ WrittenBy(D3) = {{"part"} \X Uid} /\ WrittenBy(D4) = {{<<"threading", 0>>}}
      /\ WrittenBy(D5) = {{UidsRow}} /\ WrittenBy(D6) = {File}
  BY DeleteWrites
<1>4. ClearAllMessages = D1 \o D2 \o D3 \o D4 \o D5 \o D6
  BY DEF ClearAllMessages
<1> HIDE DEF D1, D2, D3, D4, D5, D6, L
<1>5. \A s \in L : \A t \in L : s \o t \in L
  BY DEF L
<1>6. D1 \o D2 \in L /\ WrittenBy(D1 \o D2) = WrittenBy(D1) \cup WrittenBy(D2)
  BY <1>2, <1>5, WrittenByBoth DEF L
<1>7. /\ D1 \o D2 \o D3 \in L
      /\ WrittenBy(D1 \o D2 \o D3) = WrittenBy(D1 \o D2) \cup WrittenBy(D3)
  BY <1>2, <1>5, <1>6, WrittenByBoth DEF L
<1>8. /\ D1 \o D2 \o D3 \o D4 \in L
      /\ WrittenBy(D1 \o D2 \o D3 \o D4) = WrittenBy(D1 \o D2 \o D3) \cup WrittenBy(D4)
  BY <1>2, <1>5, <1>7, WrittenByBoth DEF L
<1>9. /\ D1 \o D2 \o D3 \o D4 \o D5 \in L
      /\ WrittenBy(D1 \o D2 \o D3 \o D4 \o D5)
            = WrittenBy(D1 \o D2 \o D3 \o D4) \cup WrittenBy(D5)
  BY <1>2, <1>5, <1>8, WrittenByBoth DEF L
<1>10. WrittenBy(ClearAllMessages) = WrittenBy(D1 \o D2 \o D3 \o D4 \o D5) \cup WrittenBy(D6)
  BY <1>2, <1>4, <1>9, WrittenByBoth DEF L
<1> QED
  BY <1>3, <1>6, <1>7, <1>8, <1>9, <1>10

LEMMA ClearAllRows ==
    ASSUME NEW content \in Rows
    PROVE  /\ \A u \in Uid : After(content, ClearAllMessages)[PartRow(u)] = 0
           /\ After(content, ClearAllMessages)[SyncRow] = content[SyncRow]
<1>1. ClearAllMessages \in Seq(Statement) /\ \A i \in DOMAIN ClearAllMessages : ClearAllMessages[i].value = 0
  <2>1. ClearAllMessages \in StatementsOf(0)
    BY ClearAllIsList
  <2> QED
    BY <2>1 DEF StatementsOf, Legal
<1>2. ASSUME NEW u \in Uid PROVE After(content, ClearAllMessages)[PartRow(u)] = 0
  <2>1. PICK k \in DOMAIN ClearAllMessages : ClearAllMessages[k].rows = {"part"} \X Uid
    <3>1. {"part"} \X Uid \in WrittenBy(ClearAllMessages)
      BY ClearAllParts
    <3> QED
      BY <3>1 DEF WrittenBy
  <2>2. PartRow(u) \in Row /\ PartRow(u) \in {"part"} \X Uid
    BY NamedRows DEF PartRow
  <2>3. PICK i \in DOMAIN ClearAllMessages : IsLast(ClearAllMessages, PartRow(u), i)
    BY <1>1, <2>1, <2>2, LastExists
  <2> QED
    BY <1>1, <2>2, <2>3, AfterLast
<1>3. After(content, ClearAllMessages)[SyncRow] = content[SyncRow]
  <2>1. \A i \in DOMAIN ClearAllMessages : SyncRow \notin ClearAllMessages[i].rows
    BY ClearAllParts, SyncRowApart DEF WrittenBy
  <2> QED
    BY <2>1, NamedRows, AfterNone
<1> QED
  BY <1>2, <1>3

LEMMA PartsInit == ASSUME Init PROVE Parts
<1>1. Inv /\ Target = tables /\ tables \in Rows
  BY InitInv, IdleTarget DEF Init, Inv, TypeOK
<1>2. /\ todo = <<>> /\ session = "offline" /\ n = 1 /\ since = 1 /\ ~refused /\ committed = tables
      /\ skipped = FALSE
  BY DEF Init
<1>3. todo \in StatementsOf(n)
  BY <1>2 DEF StatementsOf
<1>4. Current(tables)
  <2>1. \A r \in Row : Fresh(tables[r])
    BY <1>2 DEF Init, Empty, Full, Cleared, Fresh
  <2>2. \A f \in File : Fresh(files[f])
    BY <1>2 DEF Init, Fresh
  <2> QED
    BY <2>1, <2>2, NamedRows DEF Current, FreshRows, FreshFiles
<1>5. tables[SyncRow] \in Nat
  BY <1>1, NamedRows DEF Rows
<1> QED
  BY <1>1, <1>2, <1>3, <1>4, <1>5 DEF Parts, Connected

\* Nothing that has been written so far is of a UIDVALIDITY that is still to come.
LEMMA NothingIsNewer ==
    ASSUME Inv PROVE Target[SyncRow] <= n /\ committed[SyncRow] <= n
<1>1. \A r \in Row : tables[r] <= n /\ committed[r] <= n
  BY DEF Inv, Numbered
<1>2. \A i \in DOMAIN todo : todo[i].value <= n
  BY DEF Inv, Numbered
<1> QED
  BY <1>1, <1>2, NamedRows, AfterOneOf DEF Inv, TypeOK, Target

\* A handler of a mailbox that is selected writes numbers of the current
\* UIDVALIDITY or removes something.
LEMMA ConnectedHandlerParts ==
    ASSUME Inv, Inv', Parts, Handler, Connected, session' \in {"syncing", "synced"},
           UNCHANGED skipped
    PROVE  Parts'
<1>1. /\ todo = <<>> /\ n' = n + 1 /\ todo' \in StatementsOf(n + 1)
      /\ UNCHANGED <<tables, committed, refused, files, since>>
  BY HandlerStep
<1>2. n \in Nat /\ since \in Nat /\ since <= n /\ skipped \in BOOLEAN
  BY DEF Inv, TypeOK, Parts
<1>3. Target = tables /\ Target \in Rows /\ committed \in Rows
  BY <1>1, IdleTarget, Targets
<1>4. ASSUME NEW r \in Row PROVE Target'[r] \in {Target[r], 0, n + 1}
  <2>1. todo' \in Seq(Statement) /\ Target' = After(tables, todo')
    BY <1>1 DEF StatementsOf, Target
  <2>2. \/ Target'[r] = tables[r]
        \/ \E i \in DOMAIN (todo') : Target'[r] = todo'[i].value
    BY <2>1, AfterOneOf
  <2> QED
    BY <1>1, <1>3, <2>2 DEF StatementsOf, Legal
<1>5. Target'[SyncRow] \in {Target[SyncRow], n + 1}
  <2>1. CASE \E k \in DOMAIN (todo') : SyncRow \in todo'[k].rows
    <3>1. PICK i \in DOMAIN (todo') : IsLast(todo', SyncRow, i)
      BY <1>1, <2>1, LastExists DEF StatementsOf
    <3>2. Target'[SyncRow] = todo'[i].value
      BY <1>1, <3>1, AfterLast, NamedRows DEF StatementsOf, Target
    <3>3. todo'[i].value = n + 1
      BY <1>1, <3>1 DEF IsLast, StatementsOf, Legal
    <3> QED
      BY <3>2, <3>3
  <2>2. CASE \A k \in DOMAIN (todo') : SyncRow \notin todo'[k].rows
    BY <1>1, <1>3, <2>2, AfterNone, NamedRows DEF Target
  <2> QED
    BY <2>1, <2>2
<1>6. committed[SyncRow] \in Nat /\ Target[SyncRow] \in Nat /\ committed[SyncRow] <= n
  BY <1>3, NamedRows, NothingIsNewer DEF Rows
<1>7. committed'[SyncRow] <= Target'[SyncRow]
  BY <1>1, <1>2, <1>5, <1>6 DEF Parts
<1>8. ASSUME ~skipped PROVE FreshRows(Target)' /\ FreshFiles /\ FreshFiles'
  <2>1. WillBeFresh /\ DOMAIN todo = {}
    BY <1>1, <1>8 DEF Parts
  <2>2. FreshFiles /\ FreshFiles'
    BY <1>1, <2>1 DEF WillBeFresh, FreshFiles, Fresh
  <2>3. ASSUME NEW u \in Uid PROVE Target'[PartRow(u)] = 0 \/ Target'[PartRow(u)] >= since'
    <3>1. Fresh(Target[PartRow(u)]) /\ PartRow(u) \in Row
      BY <2>1, NamedRows DEF WillBeFresh, FreshRows
    <3>2. Target'[PartRow(u)] \in {Target[PartRow(u)], 0, n + 1}
      BY <1>4, <3>1
    <3>3. since' = since /\ n + 1 >= since
      BY <1>1, <1>2
    <3> QED
      BY <3>1, <3>2, <3>3 DEF Fresh
  <2> QED
    BY <2>2, <2>3 DEF FreshRows, Fresh
<1>9. ASSUME ~skipped PROVE Current(Target)' /\ Current(committed)' /\ WillBeFresh'
  <2>1. FreshRows(Target)' /\ FreshFiles' /\ Current(committed) /\ FreshFiles
    BY <1>8, <1>9 DEF Parts
  <2>2. Current(committed)'
    BY <1>1, <2>1 DEF Current, FreshRows, FreshFiles, Fresh
  <2> QED
    BY <2>1, <2>2 DEF Current, WillBeFresh, FreshFiles
<1>10. Connected' /\ since' \in 1..(n' + 1) /\ since' <= n'
  BY <1>1, <1>2 DEF Parts, Connected
<1> QED
  BY <1>1, <1>7, <1>9, <1>10 DEF Parts

\* finalizeSelect: the messages are taken over because UIDVALIDITY is the same,
\* taken over unseen, or cleared.
LEMMA SelectParts == ASSUME Inv, Inv', Parts, Select PROVE Parts'
<1>1. /\ todo = <<>> /\ n' = n + 1 /\ todo' \in StatementsOf(n + 1)
      /\ UNCHANGED <<tables, committed, refused, files, since>>
  BY HandlerStep DEF Handler
<1>2. /\ session = "offline" /\ session' = "syncing"
      /\ skipped' = (IF SameUidValidity THEN skipped ELSE Inconsistent)
      /\ todo' = IF Inconsistent \/ SameUidValidity THEN <<>> ELSE ClearAllMessages
  BY DEF Select, Handle
<1>3. n \in Nat /\ since \in Nat /\ since <= n + 1 /\ skipped \in BOOLEAN
  BY DEF Inv, TypeOK, Parts
<1>4. Target = tables /\ Target \in Rows /\ committed \in Rows /\ tables \in Rows
  BY <1>1, IdleTarget, Targets DEF Inv, TypeOK
<1>5. Connected' /\ since' \in 1..(n' + 1) /\ since' <= n'
  BY <1>1, <1>2, <1>3 DEF Parts, Connected
<1>6. tables[SyncRow] \in Nat /\ committed[SyncRow] \in Nat
  BY <1>4, NamedRows DEF Rows
<1>7. Target'[SyncRow] = tables[SyncRow]
  <2>1. Target' = After(tables, todo')
    BY <1>1 DEF Target
  <2>2. CASE todo' = <<>>
    BY <1>4, <2>1, <2>2, AfterNothing
  <2>3. CASE todo' = ClearAllMessages
    BY <1>4, <2>1, <2>3, ClearAllRows
  <2> QED
    BY <1>2, <2>2, <2>3
<1>8. CASE SameUidValidity
  <2>1. Target' = Target
    BY <1>1, <1>2, <1>4, <1>8, AfterNothing DEF Target
  <2>2. ASSUME ~skipped' PROVE Current(Target) /\ Current(committed) /\ FreshRows(Target) /\ FreshFiles
    <3>1. ~skipped
      BY <1>2, <1>8, <2>2
    <3> QED
      BY <1>4, <1>8, <3>1 DEF Parts, Current, SameUidValidity
  <2>3. ASSUME ~skipped' PROVE Current(Target)' /\ Current(committed)' /\ WillBeFresh'
    BY <1>1, <2>1, <2>2, <2>3 DEF Current, FreshRows, FreshFiles, Fresh, WillBeFresh
  <2> QED
    BY <1>1, <1>2, <1>5, <2>1, <2>3 DEF Parts
<1>9. CASE ~SameUidValidity /\ Inconsistent
  BY <1>1, <1>2, <1>4, <1>5, <1>7, <1>9 DEF Parts
<1>10. CASE ~SameUidValidity /\ ~Inconsistent
  <2>1. Target' = After(tables, ClearAllMessages)
    BY <1>1, <1>2, <1>10 DEF Target
  <2>2. FreshRows(Target)'
    BY <1>4, <2>1, ClearAllRows DEF FreshRows, Fresh
  <2>3. \A f \in File : \E i \in DOMAIN (todo') : f \in todo'[i].rows
    <3>1. PICK i \in DOMAIN ClearAllMessages : ClearAllMessages[i].rows = File
      BY ClearAllParts DEF WrittenBy
    <3> QED
      BY <1>2, <1>10, <3>1
  <2>4. tables[SyncRow] < since /\ committed[SyncRow] < since
    <3>1. tables[SyncRow] < since
      BY <1>3, <1>6, <1>10 DEF SameUidValidity
    <3>2. committed[SyncRow] <= tables[SyncRow]
      BY <1>4 DEF Parts
    <3> QED
      BY <1>3, <1>6, <3>1, <3>2
  <2>5. Current(Target)' /\ Current(committed)'
    BY <1>1, <1>3, <1>6, <1>7, <2>4 DEF Current
  <2>6. WillBeFresh'
    BY <2>2, <2>3 DEF WillBeFresh
  <2>7. committed'[SyncRow] <= Target'[SyncRow]
    BY <1>1, <1>4, <1>7 DEF Parts
  <2> QED
    BY <1>1, <1>2, <1>5, <2>5, <2>6, <2>7 DEF Parts
<1> QED
  BY <1>8, <1>9, <1>10

\* The rest of a list of statements, and what the first one writes.
LEMMA RestOfStatements ==
    ASSUME NEW v \in Nat, todo \in StatementsOf(v), todo # <<>>
    PROVE  /\ Tail(todo) \in StatementsOf(v) /\ Legal(Head(todo), v)
           /\ \A i \in DOMAIN todo : todo[i] = Head(todo) \/ \E j \in DOMAIN Tail(todo) : Tail(todo)[j] = todo[i]
<1> DEFINE rest == Tail(todo)
<1>1. todo \in Seq(Statement) /\ \A i \in DOMAIN todo : Legal(todo[i], v)
  BY DEF StatementsOf
<1>2. /\ Len(todo) \in Nat \ {0} /\ DOMAIN todo = 1..Len(todo) /\ Head(todo) = todo[1]
      /\ rest \in Seq(Statement)
      /\ DOMAIN rest = 1..(Len(todo) - 1) /\ \A i \in 1..(Len(todo) - 1) : rest[i] = todo[i + 1]
  BY <1>1
<1> HIDE DEF rest
<1>3. ASSUME NEW i \in 1..(Len(todo) - 1) PROVE Legal(rest[i], v)
  BY <1>1, <1>2
<1>4. ASSUME NEW i \in 1..Len(todo), i # 1 PROVE i - 1 \in DOMAIN rest /\ rest[i - 1] = todo[i]
  BY <1>2, <1>4
<1>5. rest \in StatementsOf(v)
  BY <1>2, <1>3 DEF StatementsOf
<1>6. \A i \in DOMAIN todo : todo[i] = Head(todo) \/ \E j \in DOMAIN rest : rest[j] = todo[i]
  BY <1>2, <1>4
<1>7. Legal(Head(todo), v)
  BY <1>1, <1>2
<1> QED
  BY <1>5, <1>6, <1>7 DEF rest

\* Statements take nothing away from what is promised of their end.
LEMMA StatementParts ==
    ASSUME Inv, Inv', Parts, Execute \/ WriteFile PROVE Parts'
<1>1. /\ todo # <<>> /\ todo' = Tail(todo)
      /\ UNCHANGED <<session, n, since, skipped, refused>>
  BY DEF Execute, WriteFile, Step, world
<1>2. Target' = Target /\ committed' = committed
  BY StatementMaps DEF Parts
<1>3. Connected /\ since <= n /\ n \in Nat /\ since \in Nat /\ skipped \in BOOLEAN
  BY <1>1 DEF Parts, Inv, TypeOK
<1>4. /\ Tail(todo) \in StatementsOf(n) /\ Legal(Head(todo), n)
      /\ \A i \in DOMAIN todo : todo[i] = Head(todo) \/ \E j \in DOMAIN Tail(todo) : Tail(todo)[j] = todo[i]
  BY <1>1, <1>3, RestOfStatements DEF Parts
<1>5. ASSUME NEW f \in File
      PROVE  IF f \in Head(todo).rows THEN files'[f] \in {0, n} ELSE files'[f] = files[f]
  <2>1. CASE Execute
    <3>1. Head(todo).rows \subseteq Row /\ files' = files
      BY <2>1 DEF Execute
    <3> QED
      BY <3>1, RowOrFile
  <2>2. CASE WriteFile
    BY <1>4, <2>2 DEF WriteFile, WrittenFiles, Legal
  <2> QED
    BY <2>1, <2>2
<1>6. ASSUME NEW f \in File, Fresh(files[f]) \/ f \in Head(todo).rows
      PROVE  files'[f] = 0 \/ files'[f] >= since
  BY <1>3, <1>5, <1>6 DEF Fresh
<1>7. ASSUME NEW content, NEW next, next = content, Current(content)
      PROVE  next[SyncRow] >= since => FreshRows(next) /\ \A f \in File : files'[f] = 0 \/ files'[f] >= since
  BY <1>6, <1>7 DEF Current, FreshFiles
<1>8. ASSUME ~skipped PROVE Current(Target)' /\ Current(committed)'
  <2>1. Current(Target) /\ Current(committed)
    BY <1>8 DEF Parts
  <2>2. Target[SyncRow] >= since => FreshRows(Target) /\ \A f \in File : files'[f] = 0 \/ files'[f] >= since
    BY <2>1, <1>7
  <2>3. committed[SyncRow] >= since => FreshRows(committed) /\ \A f \in File : files'[f] = 0 \/ files'[f] >= since
    BY <2>1, <1>7
  <2> QED
    BY <1>1, <1>2, <2>2, <2>3 DEF Current, FreshRows, FreshFiles, Fresh
<1>9. ASSUME ~skipped PROVE WillBeFresh'
  <2>1. FreshRows(Target) /\ \A f \in File : Fresh(files[f]) \/ \E i \in DOMAIN todo : f \in todo[i].rows
    BY <1>3, <1>9 DEF Parts, WillBeFresh
  <2>2. ASSUME NEW f \in File
        PROVE  (files'[f] = 0 \/ files'[f] >= since) \/ \E j \in DOMAIN Tail(todo) : f \in Tail(todo)[j].rows
    BY <1>4, <1>6, <2>1
  <2> QED
    BY <1>1, <1>2, <2>1, <2>2 DEF WillBeFresh, FreshRows, Fresh
<1>10. Connected'
  BY <1>1, <1>3 DEF Connected
<1> QED
  BY <1>1, <1>2, <1>3, <1>4, <1>8, <1>9, <1>10 DEF Parts

\* Between two handlers, or when the program dies in the middle of one: the
\* content and what is on the disk become equal or stay.
LEMMA IdleParts ==
    ASSUME Inv, Inv', Parts, todo' = <<>>, UNCHANGED <<refused, files, n, since, skipped>>,
           \/ tables' = committed /\ committed' = committed /\ session' \in {"off", "offline"}
           \/ /\ todo = <<>> /\ tables' = tables /\ committed' \in {committed, tables}
              /\ session' \in {session, "off", "offline"}
    PROVE  Parts'
<1>1. Target' = tables'
  BY IdleTarget, AfterNothing DEF Target, Inv, TypeOK
<1>2. \/ Target' = committed /\ committed' = committed
      \/ todo = <<>> /\ Target' = Target /\ committed' \in {committed, Target}
  BY <1>1, IdleTarget
<1>3. todo' \in StatementsOf(n')
  BY DEF StatementsOf
<1>4. committed[SyncRow] \in Nat /\ Target[SyncRow] \in Nat
  BY Targets, NamedRows DEF Rows
<1>5. committed'[SyncRow] <= Target'[SyncRow]
  BY <1>2, <1>4 DEF Parts
<1>6. \A content : Current(content) => (content[SyncRow] >= since' => FreshRows(content)' /\ FreshFiles')
  BY DEF Current, FreshRows, FreshFiles, Fresh
<1>7. ASSUME ~skipped PROVE Current(Target)' /\ Current(committed)'
  <2>1. Current(Target) /\ Current(committed)
    BY <1>7 DEF Parts
  <2> QED
    BY <1>2, <2>1 DEF Current, FreshRows, FreshFiles, Fresh
<1>8. CASE session' = session /\ todo = <<>> /\ Target' = Target
  <2>1. ASSUME ~skipped, Connected PROVE WillBeFresh'
    BY <1>8, <2>1 DEF Parts, WillBeFresh, FreshRows, Fresh
  <2>2. Connected' <=> Connected
    BY <1>8 DEF Connected
  <2> QED
    BY <1>3, <1>5, <1>7, <1>8, <2>1, <2>2 DEF Parts
<1>9. CASE session' \in {"off", "offline"}
  <2>1. ~Connected'
    BY <1>9 DEF Connected
  <2> QED
    BY <1>3, <1>5, <1>7, <1>9, <2>1 DEF Parts
<1> QED
  BY <1>1, <1>8, <1>9, IdleTarget

\* A new UIDVALIDITY: nothing that is there is of it.
LEMMA UidValidityParts == ASSUME Inv, Inv', Parts, UidValidityChanges PROVE Parts'
<1>1. /\ ~Connected /\ since' = n + 1
      /\ UNCHANGED <<tables, committed, todo, refused, files, session, n, skipped>>
  BY DEF UidValidityChanges, sql
<1>2. Target' = Target /\ ~Connected'
  BY <1>1 DEF Target, Connected
<1>3. n \in Nat /\ Target[SyncRow] \in Nat /\ committed[SyncRow] \in Nat
  <2>1. n \in Nat
    BY DEF Inv, TypeOK
  <2>2. Target[SyncRow] \in Nat /\ committed[SyncRow] \in Nat
    BY Targets, NamedRows DEF Rows
  <2> QED
    BY <2>1, <2>2
<1>4. Target[SyncRow] < n + 1 /\ committed[SyncRow] < n + 1
  BY <1>3, NothingIsNewer
<1>5. Current(Target)' /\ Current(committed)'
  BY <1>1, <1>2, <1>3, <1>4 DEF Current
<1>6. since' \in 1..(n' + 1)
  BY <1>1, <1>3
<1> QED
  BY <1>1, <1>2, <1>5, <1>6 DEF Parts

\* As long as nothing has failed.
PartsInv == faults = 0 => Parts

LEMMA PartsStep == ASSUME Inv, Inv', PartsInv, [Next]_vars PROVE PartsInv'
<1> SUFFICES ASSUME faults' = 0 PROVE Parts'
  BY DEF PartsInv
<1>0. faults \in Nat /\ faults + 1 # 0
  BY BoundAssumption DEF Inv, TypeOK
<1>1. CASE Handler
  <2>1. Parts
    BY <1>1, HandlerStep DEF PartsInv, faulty
  <2>2. CASE Select
    BY <2>1, <2>2, SelectParts
  <2>3. CASE ~Select
    <3>1. Connected /\ session' \in {"syncing", "synced"} /\ UNCHANGED skipped
      BY <1>1, <2>3 DEF Handler, Synced, Threading, Children, Flags, Expunge, Metadata, Part,
                        Unchanged, Connected
    <3> QED
      BY <1>1, <2>1, <3>1, ConnectedHandlerParts
  <2> QED
    BY <2>2, <2>3
<1>2. CASE Execute \/ WriteFile
  <2>1. Parts
    BY <1>2 DEF Execute, WriteFile, faulty, PartsInv
  <2> QED
    BY <1>2, <2>1, StatementParts
<1>3. CASE StatementFails
  BY <1>0, <1>3 DEF StatementFails
<1>4. CASE TimeToCommit
  <2>1. PICK result \in Results : Commit(result)
    BY <1>4 DEF TimeToCommit
  <2>2. result = "done" /\ faults = 0
    BY <1>0, <2>1 DEF Commit
  <2>3. Parts
    BY <2>2 DEF PartsInv
  <2>4. /\ todo = <<>> /\ todo' = <<>> /\ UNCHANGED <<refused, files, n, since, skipped, session>>
        /\ tables' = tables /\ committed' \in {committed, tables}
    BY <1>4, <2>1, <2>2 DEF TimeToCommit, Commit, CommitEnds, world
  <2> QED
    BY <2>3, <2>4, IdleParts
<1>5. CASE Replaced \/ Quit
  <2>1. PICK result \in Results : Destroy(result)
    BY <1>5 DEF Replaced, Quit
  <2>2. result = "done" /\ faults = 0
    BY <1>0, <2>1 DEF Destroy
  <2>3. Parts
    BY <2>2 DEF PartsInv
  <2>4. session' = "off"
    BY <1>5, <2>3 DEF Replaced, Quit, Parts
  <2>5. /\ todo = <<>> /\ todo' = <<>> /\ UNCHANGED <<refused, files, n, since, skipped>>
        /\ \/ tables' = tables /\ committed' = tables
           \/ tables' = committed /\ committed' = committed
    BY <2>1, <2>2 DEF Destroy, world
  <2> QED
    BY <2>3, <2>4, <2>5, IdleParts
<1>6. CASE Disconnect \/ Start \/ Tick
  <2>1. /\ UNCHANGED <<tables, committed, todo, refused, files, n, since, skipped, faults>>
        /\ \/ session' = "offline" /\ session = "off"
           \/ todo = <<>> /\ session' \in {session, "offline"}
    BY <1>6 DEF Disconnect, Start, Tick, sql, world, faulty
  <2>2. Parts
    BY <2>1 DEF PartsInv
  <2>3. todo = <<>> /\ session' \in {session, "offline"}
    BY <2>1, <2>2 DEF Parts, Connected
  <2> QED
    BY <2>1, <2>2, <2>3, IdleParts
<1>7. CASE UidValidityChanges
  <2>1. Parts
    BY <1>7 DEF UidValidityChanges, faulty, PartsInv
  <2> QED
    BY <1>7, <2>1, UidValidityParts
<1>8. CASE Crash
  <2>1. Parts
    BY <1>8 DEF Crash, faulty, PartsInv
  <2>2. /\ session' = "off" /\ tables' = committed /\ committed' = committed /\ todo' = <<>>
        /\ UNCHANGED <<refused, files, n, since, skipped>>
    BY <1>8 DEF Crash, world
  <2> QED
    BY <2>1, <2>2, IdleParts
<1>9. CASE UNCHANGED vars
  <2>1. /\ UNCHANGED <<tables, committed, todo, refused, files, n, since, skipped, faults, session>>
        /\ Target' = Target
    BY <1>9 DEF vars, sql, world, faulty, Target
  <2> QED
    BY <2>1 DEF PartsInv, Parts, Current, WillBeFresh, FreshRows, FreshFiles, Fresh, Connected
<1> QED
  BY <1>1, <1>2, <1>3, <1>4, <1>5, <1>6, <1>7, <1>8, <1>9 DEF Next

\* What the cache returns once a mailbox is synchronized is of the current
\* UIDVALIDITY, through crashes, unsaved tables and changes of UIDVALIDITY, unless
\* a sync took the cache over unseen (finalizeSelect, CombinedCache::messagePart).
THEOREM CachedPartsMatch == Spec => []PartsMatch
<1>1. Init => PartsInv
  BY PartsInit DEF PartsInv
<1>2. Inv /\ PartsInv => PartsMatch
  <2> SUFFICES ASSUME Inv, Parts, session = "synced", todo = <<>>, ~skipped, NEW u \in Uid,
                      MessagePart(u) # 0
               PROVE  MessagePart(u) >= since
    BY DEF PartsMatch, PartsInv
  <2>1. FreshRows(tables) /\ FreshFiles
    BY IdleTarget DEF Parts, Connected, WillBeFresh, FreshFiles
  <2> QED
    BY <2>1, NamedRows DEF MessagePart, FreshRows, FreshFiles, Fresh
<1> QED
  BY <1>1, <1>2, InitInv, NextInv, PartsStep, PTL DEF Spec

=============================================================================
