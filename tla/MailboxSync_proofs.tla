------------------------- MODULE MailboxSync_proofs -------------------------
(***************************************************************************)
(* Type correctness and the agreement of EXISTS with the message tree, for *)
(* every value of the constants.  The inductive invariant is TypeOK and    *)
(* SyncInv; each action has a lemma that it preserves both.                *)
(*                                                                         *)
(* Then, for a server without extensions, KeepsUp is inductive: there are  *)
(* hs, states of the server's mailbox, that the responses under way lead   *)
(* through.  hs loses its first state when a response is handled, and gets *)
(* a new last one when one is sent; what the handlers do, the histories of *)
(* the mailbox and the steps have their lemmas in this order.  The last    *)
(* sections count what is under way, for Pending in MailboxHistory_proofs. *)
(***************************************************************************)
EXTENDS MailboxHistory, ProofFacts

----------------------------------------------------------------------------
(* The handlers of TreeItemMailbox: the type of the result, and what they do to
   the length of the list and to EXISTS, for every mailbox. *)

\* Orders(S) lists positions out of S.
LEMMA OrdersType ==
    ASSUME NEW n \in Nat, NEW S \in SUBSET (1..n), NEW order \in Orders(S)
    PROVE  order \in Seq(S) /\ Len(order) \in Nat
<1>0. IsFiniteSet(1..n)
  BY FS_Interval
<1>0a. IsFiniteSet(S)
  BY <1>0, FS_Subset
<1>1. Cardinality(S) \in Nat
  BY <1>0a, FS_CardinalityType
<1>2. order \in [1..Cardinality(S) -> S]
  BY DEF Orders
<1> QED
  BY <1>1, <1>2, FiniteFunctionIsSeq

\* The messages that EXISTS announces are messages, as many as it announces.
LEMMA UnknownType ==
    ASSUME NEW n \in Int
    PROVE  /\ Unknown(n) \in Seq(Message)
           /\ n \in Nat => Len(Unknown(n)) = n
<1> DEFINE one == [uid |-> 0, fl |-> 0]
<1>1. one \in Message
  BY MaxUidAssumption DEF Message
<1>2. CASE n \in Nat
  <2>1. Unknown(n) \in [1..n -> Message]
    BY <1>1 DEF Unknown
  <2> QED
    BY <1>2, <2>1, FiniteFunctionIsSeq
<1>3. CASE n < 0
  <2>1. Unknown(n) \in [1..0 -> Message]
    BY <1>1, <1>3 DEF Unknown
  <2>2. Unknown(n) \in Seq(Message)
    BY <2>1, FiniteFunctionIsSeq
  <2> QED
    BY <1>3, <2>2
<1> QED
  BY <1>2, <1>3

\* The saved UID map is a sequence of UIDs, as long as the list.
LEMMA UidsType ==
    ASSUME NEW list \in Seq(Message)
    PROVE  Uids(list) \in Seq(0..MaxUid) /\ Len(Uids(list)) = Len(list)
<1>0. ASSUME NEW i \in 1..Len(list) PROVE list[i].uid \in 0..MaxUid
  <2>1. list[i] \in Message
    BY ElementOfSeq
  <2> QED
    BY <2>1 DEF Message
<1>1. Uids(list) \in [1..Len(list) -> 0..MaxUid]
  BY <1>0 DEF Uids
<1>2. Len(list) \in Nat
  BY LenProperties
<1> QED
  BY <1>1, <1>2, FiniteFunctionIsSeq

\* The types of a mailbox's fields.
LEMMA MailboxFields ==
    ASSUME NEW m \in Mailbox
    PROVE  /\ m.list \in Seq(Message) /\ Len(m.list) \in Nat
           /\ m.st \in FetchStatus
           /\ m.sync \in SyncState /\ m.sync.exists \in Nat /\ m.sync.uidNext \in Nat
           /\ m.sync.uidVal \in Nat /\ m.sync.modSeq \in Nat
           /\ m.disk \in Disk /\ m.disk.sync \in SyncState
           /\ m.disk.uids \in Seq(0..MaxUid) /\ Len(m.disk.uids) \in Nat
           /\ m.disk.flags \in [Uid -> Nat]
<1>1. /\ m.list \in Seq(Message) /\ m.st \in FetchStatus
      /\ m.sync \in SyncState /\ m.disk \in Disk
  BY DEF Mailbox
<1>2. /\ m.disk.sync \in SyncState /\ m.disk.uids \in Seq(0..MaxUid)
      /\ m.disk.flags \in [Uid -> Nat]
  BY <1>1 DEF Disk
<1>3. /\ m.sync.exists \in Nat /\ m.sync.uidNext \in Nat
      /\ m.sync.uidVal \in Nat /\ m.sync.modSeq \in Nat
  BY <1>1 DEF SyncState
<1> QED
  BY <1>1, <1>2, <1>3, LenProperties

\* Clearing cached messages leaves list and sync state alone.
LEMMA ClearMessagesType ==
    ASSUME NEW m \in Mailbox, NEW us
    PROVE  /\ ClearMessages(m, us) \in Mailbox
           /\ ClearMessages(m, us).list = m.list
           /\ ClearMessages(m, us).sync = m.sync
           /\ ClearMessages(m, us).st = m.st
<1>1. [u \in Uid |-> IF u \in us THEN 0 ELSE m.disk.flags[u]] \in [Uid -> Nat]
  BY MailboxFields
<1>2. [m.disk EXCEPT !.flags = [u \in Uid |-> IF u \in us THEN 0 ELSE m.disk.flags[u]]] \in Disk
  BY <1>1, MailboxFields DEF Disk
<1> QED
  BY <1>2 DEF ClearMessages, Mailbox

\* ... and so does clearing all of them.
LEMMA ClearAllMessagesType ==
    ASSUME NEW m \in Mailbox
    PROVE  /\ ClearAllMessages(m) \in Mailbox
           /\ ClearAllMessages(m).list = m.list
           /\ ClearAllMessages(m).sync = m.sync
<1>1. [[m.disk EXCEPT !.flags = [u \in Uid |-> 0]] EXCEPT !.uids = <<>>] \in Disk
  BY MailboxFields, EmptySeq DEF Disk
<1> QED
  BY <1>1 DEF ClearAllMessages, Mailbox

\* Saving, now or only if the list is fetched, changes the cache only.
LEMMA SaveType ==
    ASSUME NEW m \in Mailbox
    PROVE  /\ SaveSyncStateAndUids(m) \in Mailbox
           /\ SaveSyncStateAndUids(m).list = m.list
           /\ SaveSyncStateAndUids(m).sync = m.sync
           /\ SaveIfDone(m) \in Mailbox
           /\ SaveIfDone(m).list = m.list
           /\ SaveIfDone(m).sync = m.sync
<1>1. [[m.disk EXCEPT !.sync = m.sync] EXCEPT !.uids = Uids(m.list)] \in Disk
  BY MailboxFields, UidsType DEF Disk
<1> QED
  BY <1>1 DEF SaveSyncStateAndUids, SaveIfDone, Mailbox, FetchStatus

\* Cached flags are flags, whatever the UID map contains.
LEMMA FlagsOfType ==
    ASSUME NEW m \in Mailbox, NEW u
    PROVE  FlagsOf(m, u) \in Nat
BY MailboxFields DEF FlagsOf

\* The list read from the cache is a list of messages.
LEMMA PopulateType ==
    ASSUME NEW m \in Mailbox
    PROVE  Populate(m) \in Mailbox
<1> DEFINE filled == [i \in 1..Len(m.disk.uids) |->
                        [uid |-> m.disk.uids[i], fl |-> FlagsOf(m, m.disk.uids[i])]]
<1>1. filled \in [1..Len(m.disk.uids) -> Message]
  BY MailboxFields, ElementOfSeq, FlagsOfType DEF Message
<1>2. filled \in Seq(Message)
  BY <1>1, MailboxFields, FiniteFunctionIsSeq
<1> HIDE DEF filled
<1> QED
  BY <1>2, MailboxFields DEF Populate, filled, Mailbox, FetchStatus

\* handleExists makes the list as long as EXISTS says.
LEMMA HandleExistsType ==
    ASSUME NEW m \in Mailbox, NEW n \in Nat, ~ExistsThrows(m, n)
    PROVE  /\ HandleExists(m, n) \in Mailbox
           /\ Len(HandleExists(m, n).list) = n
           /\ HandleExists(m, n).sync.exists = n
           /\ HandleExists(m, n).sync.uidNext = m.sync.uidNext
<1>1. n - Len(m.list) \in Nat
  BY MailboxFields DEF ExistsThrows
<1> DEFINE k == n - Len(m.list)
           new == Unknown(k)
<1>1a. k \in Nat /\ k \in Int
  BY <1>1
<1> HIDE DEF k
<1>1b. new \in Seq(Message) /\ Len(new) = k
  BY <1>1a, UnknownType
<1> HIDE DEF new
<1>1c. m.list \o new \in Seq(Message) /\ Len(m.list \o new) = Len(m.list) + Len(new)
  BY <1>1b, MailboxFields, ConcatProperties
<1>2. m.list \o new \in Seq(Message) /\ Len(m.list \o new) = n
  BY <1>1b, <1>1c, MailboxFields DEF k
<1>3. [m.sync EXCEPT !.exists = n] \in SyncState
  BY MailboxFields DEF SyncState
<1> QED
  BY <1>2, <1>3, MailboxFields DEF k, new, HandleExists, Mailbox, FetchStatus, SyncState

\* handleExpunge removes one message and leaves the counters to its caller.
LEMMA HandleExpungeType ==
    ASSUME NEW m \in Mailbox, NEW n \in Nat, ~ExpungeThrows(m, n)
    PROVE  /\ HandleExpunge(m, n) \in Mailbox
           /\ Len(HandleExpunge(m, n).list) = Len(m.list) - 1
           /\ HandleExpunge(m, n).sync = m.sync
<1>1. n \in 1..Len(m.list)
  BY DEF ExpungeThrows
<1>2. RemoveAt(m.list, n) \in Seq(Message) /\ Len(RemoveAt(m.list, n)) = Len(m.list) - 1
  BY <1>1, MailboxFields, RemoveAtType
<1> DEFINE rest == [m EXCEPT !.list = RemoveAt(m.list, n)]
<1>3. rest \in Mailbox /\ rest.list = RemoveAt(m.list, n) /\ rest.sync = m.sync
  BY <1>2 DEF Mailbox
<1>4. HandleExpunge(m, n) = SaveIfDone(ClearMessages(rest, {m.list[n].uid}))
  BY DEF HandleExpunge
<1> HIDE DEF rest
<1> DEFINE cleared == ClearMessages(rest, {m.list[n].uid})
<1>5. cleared \in Mailbox /\ cleared.list = rest.list /\ cleared.sync = rest.sync
  BY <1>3, ClearMessagesType
<1> HIDE DEF cleared
<1>6. HandleExpunge(m, n) = SaveIfDone(cleared)
  BY <1>4 DEF cleared
<1> QED
  BY <1>2, <1>3, <1>5, <1>6, SaveType

\* lowerBoundWithUnknownElements finds the first known UID that is not below u:
\* every message before it is unknown or has a lower UID.
LEMMA MessageOrNextOneType ==
    ASSUME NEW list \in Seq(Message), NEW u \in Nat
    PROVE  /\ MessageOrNextOne(list, u) \in 1..(Len(list) + 1)
           /\ \/ MessageOrNextOne(list, u) = Len(list) + 1
              \/ list[MessageOrNextOne(list, u)].uid >= u
           /\ \A j \in 1..(MessageOrNextOne(list, u) - 1) : list[j].uid < u
<1> DEFINE n == Len(list) + 1
           Typed(i) == i = n \/ list[i].uid >= u
           T == {i \in 1..n : Typed(i)}
<1>0. Len(list) \in Nat
  BY LenProperties
<1>1. T \in SUBSET (0..n) /\ n \in T /\ n \in Nat
  BY <1>0
<1>2. PICK x \in T : \A y \in T : x <= y
  BY <1>1, LeastElement
<1>3. ASSUME NEW j \in 1..(x - 1) PROVE list[j].uid < u
  <2>1. j \in 1..n /\ j \notin T /\ j \in 1..Len(list)
    BY <1>2, <1>0
  <2>2. list[j] \in Message
    BY <2>1, ElementOfSeq
  <2>3. list[j].uid \in Nat
    BY <2>2 DEF Message
  <2> QED
    BY <2>1, <2>3
<1>4. x \in 1..n /\ Typed(x)
  BY <1>2
<1> QED
  BY <1>3, <1>4 DEF MessageOrNextOne

\* A VANISHED removes nothing but a message of the list.
LEMMA VanishedAtType ==
    ASSUME NEW m \in Mailbox, NEW u \in Uid
    PROVE  VanishedAt(m.list, u) \subseteq 1..Len(m.list)
<1> DEFINE found == MessageOrNextOne(m.list, u)
<1>0. u \in Nat
  BY MaxUidAssumption DEF Uid
<1>1. found \in 1..(Len(m.list) + 1)
  BY <1>0, MailboxFields, MessageOrNextOneType
<1>2. m.list # <<>> => Len(m.list) > 0
  BY MailboxFields, EmptySeq
<1> HIDE DEF found
<1> QED
  BY <1>1, <1>2, MailboxFields DEF VanishedAt, found

\* The counter is set to the length of the list after a VANISHED.
LEMMA AfterVanishedType ==
    ASSUME NEW m \in Mailbox
    PROVE  /\ AfterVanished(m) \in Mailbox
           /\ AfterVanished(m).list = m.list
           /\ AfterVanished(m).sync.exists = Len(m.list)
<1>1. [m.sync EXCEPT !.exists = Len(m.list)] \in SyncState
  BY MailboxFields DEF SyncState
<1>2. [m EXCEPT !.sync.exists = Len(m.list)] \in Mailbox
  BY <1>1 DEF Mailbox
<1>3. [m EXCEPT !.sync.exists = Len(m.list)].list = m.list
  BY DEF Mailbox
<1>4. [m EXCEPT !.sync.exists = Len(m.list)].sync.exists = Len(m.list)
  BY MailboxFields DEF Mailbox, SyncState
<1> QED
  BY <1>2, <1>3, <1>4, SaveType DEF AfterVanished

\* handleVanished leaves EXISTS and the list in step, whatever was there before.
LEMMA HandleVanishedType ==
    ASSUME NEW m \in Mailbox, NEW u \in Uid
    PROVE  /\ HandleVanished(m, u) \in Mailbox
           /\ HandleVanished(m, u).sync.exists = Len(HandleVanished(m, u).list)
<1>1. CASE VanishedAt(m.list, u) = {}
  BY <1>1, AfterVanishedType DEF HandleVanished
<1>2. CASE VanishedAt(m.list, u) # {}
  <2> DEFINE at == CHOOSE at \in VanishedAt(m.list, u) : TRUE
             list == RemoveAt(m.list, at)
             sync == [m.sync EXCEPT !.uidNext = IF @ <= u THEN u + 1 ELSE @]
             rest == [m EXCEPT !.list = list, !.sync = sync]
  <2>1. at \in 1..Len(m.list)
    BY <1>2, VanishedAtType
  <2>2. list \in Seq(Message)
    BY <2>1, MailboxFields, RemoveAtType
  <2>3. sync \in SyncState
    <3>1. u + 1 \in Nat
      BY MaxUidAssumption DEF Uid
    <3>2. (IF m.sync.uidNext <= u THEN u + 1 ELSE m.sync.uidNext) \in Nat
      BY <3>1, MailboxFields
    <3> QED
      BY <3>2, MailboxFields DEF SyncState
  <2> HIDE DEF list, sync
  <2>4. rest \in Mailbox
    BY <2>2, <2>3 DEF Mailbox
  <2>5. HandleVanished(m, u) = AfterVanished(ClearMessages(rest, {u}))
    BY <1>2 DEF HandleVanished, Mailbox, list, sync
  <2> HIDE DEF rest
  <2> QED
    BY <2>4, <2>5, ClearMessagesType, AfterVanishedType
<1> QED
  BY <1>1, <1>2

\* ... and so does VANISHED (EARLIER), with messages added or taken away.
LEMMA HandleVanishedEarlierType ==
    ASSUME NEW m \in Mailbox, NEW us \in SUBSET Uid, NEW order \in Orders(Surviving(m, us))
    PROVE  /\ HandleVanishedEarlier(m, us, order) \in Mailbox
           /\ HandleVanishedEarlier(m, us, order).sync.exists =
                 Len(HandleVanishedEarlier(m, us, order).list)
<1> DEFINE kept == [k \in 1..Len(order) |-> m.list[order[k]]]
           gone == {m.list[i].uid : i \in 1..Len(m.list)} \cap us
           bump == {u \in gone : m.sync.uidNext <= u}
           missing == Missing(m, order)
           next == IF bump = {} THEN m.sync.uidNext
                   ELSE 1 + CHOOSE u \in bump : \A v \in bump : v <= u
<1>1. Surviving(m, us) \in SUBSET (1..Len(m.list))
  BY DEF Surviving
<1>2. order \in Seq(1..Len(m.list)) /\ Len(order) \in Nat
  <2>1. Len(m.list) \in Nat
    BY MailboxFields
  <2>2. order \in Seq(Surviving(m, us)) /\ Len(order) \in Nat
    BY <1>1, <2>1, OrdersType
  <2> QED
    BY <1>1, <2>2, SeqMonotonic
<1>3. kept \in Seq(Message)
  <2>1. ASSUME NEW k \in 1..Len(order) PROVE m.list[order[k]] \in Message
    BY <1>2, MailboxFields, ElementOfSeq
  <2>2. kept \in [1..Len(order) -> Message]
    BY <2>1
  <2> QED
    BY <1>2, <2>2, FiniteFunctionIsSeq
<1>4. missing \in Int
  BY <1>2, MailboxFields DEF Missing
<1>5. next \in Nat
  <2>1. CASE bump = {}
    BY <2>1, MailboxFields
  <2>2. CASE bump # {}
    <3>1. bump \in SUBSET (0..MaxUid)
      <4>1. Uid \subseteq 0..MaxUid
        BY MaxUidAssumption, SMT DEF Uid
      <4>2. bump \subseteq us
        BY Zenon
      <4> QED
        BY <4>1, <4>2, Zenon
    <3>2. PICK u \in bump : \A v \in bump : v <= u
      BY <2>2, <3>1, MaxUidAssumption, GreatestElement
    <3> DEFINE top == CHOOSE w \in bump : \A v \in bump : v <= w
    <3>3. top \in bump
      BY <3>2
    <3>4. next = 1 + top
      BY <2>2
    <3> HIDE DEF top, next, bump
    <3>5. top \in 0..MaxUid
      BY <3>1, <3>3
    <3> QED
      BY <3>4, <3>5, MaxUidAssumption
  <2> QED
    BY <2>1, <2>2
<1> HIDE DEF kept, missing, next
<1>6. Unknown(missing) \in Seq(Message)
  BY <1>4, UnknownType
<1>7. kept \o Unknown(missing) \in Seq(Message)
  BY <1>3, <1>6, ConcatProperties
<1> DEFINE list == kept \o Unknown(missing)
           sync == [m.sync EXCEPT !.uidNext = next]
           rest == [m EXCEPT !.list = list, !.sync = sync]
<1>8. sync \in SyncState
  BY <1>5, MailboxFields DEF SyncState
<1> HIDE DEF list, sync
<1>9. rest \in Mailbox
  BY <1>7, <1>8 DEF Mailbox, list
<1>10. HandleVanishedEarlier(m, us, order) = AfterVanished(ClearMessages(rest, gone))
  BY DEF HandleVanishedEarlier, Mailbox, list, sync, kept, missing, next
<1> HIDE DEF rest
<1> QED
  BY <1>9, <1>10, ClearMessagesType, AfterVanishedType

\* A FETCH changes one message and neither adds nor removes any.
LEMMA HandleFetchResponseType ==
    ASSUME NEW m \in Mailbox,
           NEW r \in [t: {"FETCH"}, n: Nat, uid: 0..MaxUid, fl: Nat, mod: Nat],
           ~FetchThrows(m, r)
    PROVE  /\ HandleFetchResponse(m, r) \in Mailbox
           /\ Len(HandleFetchResponse(m, r).list) = Len(m.list)
           /\ HandleFetchResponse(m, r).sync.exists = m.sync.exists
           /\ HandleFetchResponse(m, r).list[r.n].uid \in 0..MaxUid
<1> DEFINE uid == IF UidLearnt(m, r) THEN r.uid ELSE m.list[r.n].uid
           guess == UidLearnt(m, r) /\ m.sync.uidNext <= r.uid
           raise == r.mod > m.sync.modSeq
           st == IF guess THEN "LOADING" ELSE m.st
           sync == [m.sync EXCEPT !.uidNext = IF guess THEN r.uid + 1 ELSE @,
                                  !.modSeq = IF raise THEN r.mod ELSE @]
           list == [m.list EXCEPT ![r.n] = [uid |-> uid, fl |-> r.fl]]
           flags == [u \in Uid |-> IF u = uid /\ m.list[r.n].fl # r.fl
                                   THEN r.fl ELSE m.disk.flags[u]]
           disk == [m.disk EXCEPT !.sync = IF raise /\ st = "DONE" THEN sync ELSE @,
                                  !.flags = flags]
<1>1. r.n \in 1..Len(m.list) /\ r.uid \in 0..MaxUid /\ r.fl \in Nat /\ r.mod \in Nat
  BY DEF FetchThrows
<1>2. m.list[r.n] \in Message
  BY <1>1, MailboxFields, ElementOfSeq
<1>3. uid \in 0..MaxUid
  BY <1>1, <1>2 DEF Message
<1> HIDE DEF uid
<1>4. [uid |-> uid, fl |-> r.fl] \in Message
  BY <1>1, <1>3 DEF Message
<1>5. list \in Seq(Message) /\ Len(list) = Len(m.list) /\ list[r.n] = [uid |-> uid, fl |-> r.fl]
  BY <1>1, <1>4, MailboxFields, ExceptSeq
<1>6. sync \in SyncState /\ sync.exists = m.sync.exists
  <2>1. (IF guess THEN r.uid + 1 ELSE m.sync.uidNext) \in Nat
    BY <1>1, MailboxFields, MaxUidAssumption
  <2>2. (IF raise THEN r.mod ELSE m.sync.modSeq) \in Nat
    BY <1>1, MailboxFields
  <2> QED
    BY <2>1, <2>2, MailboxFields DEF SyncState
<1>7. st \in FetchStatus
  BY MailboxFields DEF FetchStatus
<1>8. flags \in [Uid -> Nat]
  BY <1>1, MailboxFields
<1> HIDE DEF sync, list, flags, st, raise, guess
<1>9. disk \in Disk
  BY <1>6, <1>8, MailboxFields DEF Disk
<1> HIDE DEF disk
<1>10. HandleFetchResponse(m, r) =
         [m EXCEPT !.list = list, !.st = st, !.sync = sync, !.disk = disk]
  BY ZenonT(60) DEF HandleFetchResponse, Mailbox, Disk, uid, sync, list, flags, st, raise, guess, disk
<1> DEFINE after == [m EXCEPT !.list = list, !.st = st, !.sync = sync, !.disk = disk]
<1>11. after \in Mailbox /\ after.list = list /\ after.sync = sync
  BY <1>5, <1>6, <1>7, <1>9 DEF Mailbox
<1> HIDE DEF after
<1>12. HandleFetchResponse(m, r) = after
  BY <1>10 DEF after
<1> QED
  BY <1>3, <1>5, <1>6, <1>11, <1>12

\* applyUids leaves the first messages alone and as many after them as UIDs came.
LEMMA ApplyUidsType ==
    ASSUME NEW m \in Mailbox, NEW uids \in Seq(Uid), NEW first \in 0..Len(m.list)
    PROVE  /\ ApplyUids(m, first, uids) \in Mailbox
           /\ Len(ApplyUids(m, first, uids).list) = first + Len(uids)
           /\ ApplyUids(m, first, uids).sync = m.sync
<1> DEFINE slot == Slots(m.list, first, uids)
           At(k) == slot[k - first]
           Reused(k) == IF At(k) \in 1..Len(m.list) THEN m.list[At(k)].fl ELSE 0
           n == first + Len(uids)
           list == [k \in 1..n |-> IF k <= first THEN m.list[k]
                                   ELSE [uid |-> uids[k - first], fl |-> Reused(k)]]
           rest == [m EXCEPT !.list = list, !.st = "DONE"]
<1>1. Len(m.list) \in Nat /\ Len(uids) \in Nat /\ n \in Nat
  BY MailboxFields, LenProperties
<1>2. ASSUME NEW p \in 1..Len(m.list) PROVE m.list[p] \in Message /\ m.list[p].fl \in Nat
  <2>1. m.list[p] \in Message
    BY MailboxFields, ElementOfSeq
  <2> QED
    BY <2>1 DEF Message
<1>3. ASSUME NEW k \in 1..n
      PROVE  (IF k <= first THEN m.list[k]
              ELSE [uid |-> uids[k - first], fl |-> Reused(k)]) \in Message
  <2>1. CASE k <= first
    BY <1>1, <1>2, <2>1
  <2>2. CASE ~ (k <= first)
    <3>1. k - first \in 1..Len(uids)
      BY <1>1, <2>2
    <3>2. uids[k - first] \in Uid
      BY <3>1, ElementOfSeq
    <3>3. Reused(k) \in Nat
      BY <1>2
    <3> HIDE DEF Reused
    <3>4. [uid |-> uids[k - first], fl |-> Reused(k)] \in Message
      BY <3>2, <3>3, MaxUidAssumption DEF Message, Uid
    <3> QED
      BY <2>2, <3>4
  <2> QED
    BY <2>1, <2>2
<1>4. list \in [1..n -> Message]
  BY <1>3
<1> HIDE DEF n, list
<1>5. list \in Seq(Message) /\ Len(list) = n
  BY <1>1, <1>4, FiniteFunctionIsSeq
<1>6. rest \in Mailbox /\ rest.list = list /\ rest.sync = m.sync
  BY <1>5 DEF Mailbox, FetchStatus
<1>7. \E us : ApplyUids(m, first, uids) = ClearMessages(rest, us)
  BY DEF ApplyUids, list, n
<1> HIDE DEF rest
<1> QED
  BY <1>5, <1>6, <1>7, ClearMessagesType DEF n

\* updateHighestKnownUid changes UIDNEXT only.
LEMMA UpdateHighestKnownUidType ==
    ASSUME NEW m \in Mailbox
    PROVE  /\ UpdateHighestKnownUid(m) \in Mailbox
           /\ UpdateHighestKnownUid(m).list = m.list
           /\ UpdateHighestKnownUid(m).sync.exists = m.sync.exists
<1> DEFINE known == {i \in 1..Len(m.list) : m.list[i].uid # 0}
           last == CHOOSE i \in known : \A j \in known : j <= i
           top == m.list[last].uid
           sync == [m.sync EXCEPT !.uidNext = top + 1]
<1>1. CASE known = {} \/ top < m.sync.uidNext
  BY <1>1 DEF UpdateHighestKnownUid
<1>2. CASE ~ (known = {} \/ top < m.sync.uidNext)
  <2>1. known \in SUBSET (0..Len(m.list)) /\ Len(m.list) \in Nat
    BY MailboxFields
  <2>2. \E i \in known : \A j \in known : j <= i
    BY <1>2, <2>1, GreatestElement
  <2>3. last \in known
    BY <2>2
  <2> HIDE DEF last
  <2>4. m.list[last] \in Message
    BY <2>3, MailboxFields, ElementOfSeq
  <2>5. top + 1 \in Nat
    BY <2>4, MaxUidAssumption DEF Message
  <2> HIDE DEF top
  <2>6. sync \in SyncState /\ sync.exists = m.sync.exists
    BY <2>5, MailboxFields DEF SyncState
  <2>7. UpdateHighestKnownUid(m) = [m EXCEPT !.sync = sync]
    BY <1>2 DEF UpdateHighestKnownUid, top, last, Mailbox
  <2> HIDE DEF sync
  <2> DEFINE after == [m EXCEPT !.sync = sync]
  <2>8. after \in Mailbox /\ after.list = m.list /\ after.sync = sync
    BY <2>6 DEF Mailbox
  <2> HIDE DEF after
  <2>9. UpdateHighestKnownUid(m) = after
    BY <2>7 DEF after
  <2> QED
    BY <2>6, <2>8, <2>9
<1> QED
  BY <1>1, <1>2

----------------------------------------------------------------------------
(* The steps of the synchronization. *)

\* What a handler of the client changes, typed and with its part of SyncInv.
GoodTask(tk) == tk \in Task /\ (tk.mode = "ALL" => tk.firstUnknown = 0)
ClientOK == mb \in Mailbox /\ task \in Task /\ cmds \in Seq(Commands) /\ SyncInv
InStep(m) == m \in Mailbox /\ m.sync.exists = Len(m.list)

\* The types of a task's fields.
LEMMA TaskFields ==
    ASSUME NEW tk \in Task
    PROVE  /\ tk.status \in Syncing \cup {"OFF", "KEEP"} /\ tk.old \in SyncState
           /\ tk.qresync \in BOOLEAN /\ tk.mode \in {"ALL", "NEW"}
           /\ tk.firstUnknown \in Nat /\ tk.arrivals \in Nat /\ tk.flagsCmd \in BOOLEAN
           /\ tk.old.exists \in Nat /\ tk.old.uidNext \in Nat
           /\ tk.old.uidVal \in Nat /\ tk.old.modSeq \in Nat
BY DEF Task, SyncState

\* No task, and KeepMailboxOpenTask, satisfy their part of SyncInv.
LEMMA IdleTasks == GoodTask(NoTask) /\ GoodTask(KeepTask) /\ KeepTask.status = "KEEP"
BY DEF GoodTask, NoTask, KeepTask, Task, NoSync, SyncState

\* The types of a response's fields, by its kind.
LEMMA ResponseFields ==
    ASSUME NEW r \in Response
    PROVE  /\ r.t = "EXISTS" => r.n \in Nat
           /\ r.t = "EXPUNGE" => r.n \in Nat \ {0}
           /\ r.t = "CODES" => r.uidNext \in Nat /\ r.uidVal \in Nat /\ r.modSeq \in Nat
           /\ r.t = "EARLIER" => r.uids \in SUBSET Uid
           /\ r.t = "VANISHED" => r.uid \in Uid
           /\ r.t = "FETCH" => r \in [t: {"FETCH"}, n: Nat, uid: 0..MaxUid, fl: Nat, mod: Nat]
           /\ r.t = "SEARCH" => r.uids \in Seq(Uid)
BY DEF Response

\* A handler that types the client's state preserves the whole invariant.
LEMMA HandledType ==
    ASSUME TypeOK, net # <<>>, Handled, ClientOK'
    PROVE  TypeOK' /\ SyncInv'
<1>1. Tail(net) \in Seq(Response)
  BY HeadTailProperties DEF TypeOK
<1> QED
  BY <1>1 DEF TypeOK, Handled, ClientOK

\* The response at the head of the connection is a response.
LEMMA HeadType ==
    ASSUME TypeOK, net # <<>>
    PROVE  Resp \in Response
BY HeadTailProperties DEF TypeOK, Resp

\* Losing the connection kills the tasks, and with them what SyncInv asks.
LEMMA DisconnectedType ==
    ASSUME TypeOK, Disconnected, srv' = srv, selects' = selects,
           mb' \in Mailbox, threw' \in Exceptions
    PROVE  TypeOK' /\ SyncInv'
<1>1. task' = NoTask /\ NoTask.status = "OFF"
  BY DEF Disconnected, NoTask
<1>2. TypeOK'
  BY <1>1, IdleTasks, EmptySeq DEF TypeOK, Disconnected, GoodTask
<1>3. SyncInv'
  BY <1>1, IdleTasks DEF SyncInv, CountsAgree, GoodTask
<1> QED
  BY <1>2, <1>3

\* An exception caught by the Model preserves the invariant.
LEMMA ThrowType ==
    ASSUME TypeOK, NEW e \in Exceptions, Throw(e)
    PROVE  TypeOK' /\ SyncInv'
<1>1. mb' \in Mailbox
  BY DEF Throw, TypeOK
<1> QED
  BY <1>1, DisconnectedType DEF Throw

\* ... the end of the program does ...
LEMMA StopType ==
    ASSUME TypeOK, Stop, threw' \in Exceptions
    PROVE  TypeOK' /\ SyncInv'
<1>1. NoSync \in SyncState
  BY DEF NoSync, SyncState
<1>2. <<>> \in Seq(Message)
  BY EmptySeq
<1>3. mb.disk \in Disk
  BY MailboxFields DEF TypeOK
<1>4. mb' \in Mailbox
  BY <1>1, <1>2, <1>3 DEF Stop, Mailbox, FetchStatus
<1> QED
  BY <1>4, DisconnectedType DEF Stop

\* ... and a failed Q_ASSERT does.
LEMMA AbortType ==
    ASSUME TypeOK, Abort
    PROVE  TypeOK' /\ SyncInv'
<1>1. threw' \in Exceptions
  BY DEF Abort, Exceptions
<1> QED
  BY <1>1, StopType DEF Abort

\* A command that the task issues is one.
LEMMA IssueType ==
    ASSUME TypeOK, NEW t \in CommandKind, NEW arg \in Nat, Issue(Command(t, arg))
    PROVE  cmds' \in Seq(Commands)
<1>1. Command(t, arg) \in Commands
  BY DEF Command, Commands, TypeOK
<1> QED
  BY <1>1, AppendProperties DEF Issue, TypeOK

\* KeepMailboxOpenTask takes over a mailbox whose counts agree.
LEMMA CompleteType ==
    ASSUME TypeOK, NEW m, InStep(m), Complete(m)
    PROVE  ClientOK'
<1>1. mb' \in Mailbox /\ mb'.list = m.list /\ mb'.sync = m.sync
  BY SaveType DEF Complete, InStep
<1>2. task' = KeepTask /\ cmds' = cmds
  BY DEF Complete
<1> QED
  BY <1>1, <1>2, IdleTasks DEF ClientOK, SyncInv, CountsAgree, GoodTask, InStep, TypeOK

\* syncUids() and syncOnlyNewUids(): a full search starts at the first message.
LEMMA SyncUidsType ==
    ASSUME TypeOK, NEW m \in Mailbox, NEW tk, GoodTask(tk), NEW mode \in {"ALL", "NEW"},
           NEW from \in Nat, NEW first \in Nat, mode = "ALL" => first = 0,
           SyncUids(m, tk, mode, from, first)
    PROVE  ClientOK'
<1>1. /\ task' \in Task /\ task'.status = "SYNCING_UIDS"
      /\ task'.mode = mode /\ task'.firstUnknown = first
  BY DEF SyncUids, GoodTask, Task, Syncing
<1>2. cmds' \in Seq(Commands)
  BY IssueType DEF SyncUids, CommandKind
<1> QED
  BY <1>1, <1>2 DEF SyncUids, ClientOK, SyncInv, CountsAgree

\* fullMboxSync() makes the list as long as EXISTS said and starts over.
LEMMA FullMboxSyncType ==
    ASSUME TypeOK, NEW m \in Mailbox, NEW tk, GoodTask(tk), FullMboxSync(m, tk)
    PROVE  ClientOK'
<1> DEFINE fresh == [m EXCEPT !.list = Unknown(m.sync.exists)]
<1>0. m.sync.exists \in Nat /\ m.sync.exists \in Int
  BY MailboxFields
<1>1. Unknown(m.sync.exists) \in Seq(Message) /\ Len(Unknown(m.sync.exists)) = m.sync.exists
  BY <1>0, UnknownType
<1>2. InStep(fresh)
  BY <1>1 DEF InStep, Mailbox
<1> HIDE DEF fresh
<1>3. CASE m.sync.exists > 0
  <2>1. SyncUids(fresh, tk, "ALL", 0, 0)
    BY <1>3 DEF FullMboxSync, fresh
  <2> QED
    BY <1>2, <2>1, SyncUidsType DEF InStep
<1>4. CASE ~ (m.sync.exists > 0)
  <2>1. Complete(fresh)
    BY <1>4 DEF FullMboxSync, fresh
  <2> QED
    BY <1>2, <2>1, CompleteType
<1> QED
  BY <1>3, <1>4

\* syncFlags() keeps the counts in step.
LEMMA SyncFlagsType ==
    ASSUME TypeOK, NEW m, InStep(m), NEW tk, GoodTask(tk), SyncFlags(m, tk)
    PROVE  ClientOK'
<1> DEFINE usable == CanUseModSeq(m, tk.old)
           same == usable /\ NothingChanged(m, tk.old)
           since == IF usable /\ tk.old.modSeq < m.sync.modSeq THEN tk.old.modSeq ELSE 0
           status == IF same THEN "DONE" ELSE "SYNCING_FLAGS"
<1>1. CASE same /\ tk.arrivals = 0
  <2>1. Complete(m)
    BY <1>1 DEF SyncFlags
  <2> QED
    BY <2>1, CompleteType
<1>2. CASE ~ (same /\ tk.arrivals = 0)
  <2>1. /\ mb' = m
        /\ task' = [tk EXCEPT !.status = status, !.flagsCmd = TRUE]
        /\ Issue(Command("FLAGS", since))
    BY <1>2 DEF SyncFlags
  <2>2. since \in Nat
    BY TaskFields DEF GoodTask
  <2>3. status \in Syncing
    BY DEF Syncing
  <2> HIDE DEF since, status
  <2>4. cmds' \in Seq(Commands)
    BY <2>1, <2>2, IssueType DEF CommandKind
  <2>5. /\ task' \in Task /\ task'.mode = tk.mode /\ task'.firstUnknown = tk.firstUnknown
    BY <2>1, <2>3 DEF GoodTask, Task
  <2> QED
    BY <2>1, <2>4, <2>5 DEF ClientOK, SyncInv, CountsAgree, GoodTask, InStep
<1> QED
  BY <1>1, <1>2

\* syncNoNewNoDeletions() starts from a list as long as EXISTS, read from the
\* cache or already there.
LEMMA SyncNoNewNoDeletionsType ==
    ASSUME TypeOK, NEW m \in Mailbox, NEW tk, GoodTask(tk),
           Len(m.disk.uids) = m.sync.exists,
           m.list # <<>> => Len(m.list) = m.sync.exists,
           SyncNoNewNoDeletions(m, tk)
    PROVE  ClientOK'
<1> DEFINE cached == [i \in 1..Len(m.disk.uids) |-> [uid |-> m.disk.uids[i], fl |-> 0]]
           filled == IF m.list = <<>> THEN [m EXCEPT !.list = cached] ELSE m
           done == [filled EXCEPT !.st = "DONE"]
<1>1. cached \in Seq(Message) /\ Len(cached) = Len(m.disk.uids)
  <2>1. ASSUME NEW i \in 1..Len(m.disk.uids)
        PROVE  [uid |-> m.disk.uids[i], fl |-> 0] \in Message
    <3>1. m.disk.uids[i] \in 0..MaxUid
      BY MailboxFields, ElementOfSeq
    <3> QED
      BY <3>1 DEF Message
  <2>2. cached \in [1..Len(m.disk.uids) -> Message]
    BY <2>1
  <2>3. Len(m.disk.uids) \in Nat
    BY MailboxFields
  <2> HIDE DEF cached
  <2> QED
    BY <2>2, <2>3, FiniteFunctionIsSeq
<1> HIDE DEF cached
<1>2. InStep(filled)
  BY <1>1 DEF InStep, Mailbox
<1> HIDE DEF filled
<1>3. InStep(done)
  BY <1>2 DEF InStep, Mailbox, FetchStatus
<1>4. SyncFlags(done, tk)
  BY DEF SyncNoNewNoDeletions, done, filled, cached
<1> HIDE DEF done
<1> QED
  BY <1>3, <1>4, SyncFlagsType

\* The QRESYNC branch completes only if the list is as long as EXISTS.
LEMMA FinalizeQresyncType ==
    ASSUME TypeOK, NEW m \in Mailbox, NEW tk, GoodTask(tk), FinalizeQresync(m, tk)
    PROVE  ClientOK'
<1> DEFINE cleared == ClearAllMessages(m)
           distrust == [cleared EXCEPT !.sync.modSeq = 0]
           without == [tk EXCEPT !.qresync = FALSE]
           done == [m EXCEPT !.st = "DONE"]
           unknown == \E i \in 1..Len(m.list) : m.list[i].uid = 0
           wrong == \/ tk.old.modSeq > m.sync.modSeq
                    \/ /\ tk.old.modSeq = m.sync.modSeq
                       /\ tk.old.exists # m.sync.exists \/ tk.old.uidNext # m.sync.uidNext
                    \/ Len(m.list) # m.sync.exists
           arrived == tk.old.modSeq < m.sync.modSeq /\ tk.old.uidNext < m.sync.uidNext /\ unknown
<1>1. CASE wrong
  <2>1. cleared \in Mailbox
    BY ClearAllMessagesType
  <2> HIDE DEF cleared
  <2>2. [cleared.sync EXCEPT !.modSeq = 0] \in SyncState
    BY <2>1, MailboxFields DEF SyncState
  <2>3. distrust \in Mailbox
    BY <2>1, <2>2 DEF Mailbox
  <2>4. GoodTask(without)
    BY DEF GoodTask, Task
  <2>5. FullMboxSync(distrust, without)
    BY <1>1 DEF FinalizeQresync, cleared
  <2> HIDE DEF distrust, without
  <2> QED
    BY <2>3, <2>4, <2>5, FullMboxSyncType
<1>2. CASE ~wrong
  <2>1. InStep(done)
    BY <1>2 DEF InStep, Mailbox, FetchStatus
  <2>2. CASE arrived
    <3> DEFINE from == IF tk.old.uidNext > 1 THEN tk.old.uidNext ELSE 1
    <3>1. /\ mb' = done
          /\ task' = [tk EXCEPT !.status = "DONE", !.arrivals = @ + 1]
          /\ Issue(Command("ARRIVALS", from))
      BY <1>2, <2>2 DEF FinalizeQresync
    <3>2. from \in Nat
      BY TaskFields DEF GoodTask
    <3> HIDE DEF from, done
    <3>3. cmds' \in Seq(Commands)
      BY <3>1, <3>2, IssueType DEF CommandKind
    <3>4. tk.arrivals + 1 \in Nat
      BY TaskFields DEF GoodTask
    <3>5. task' \in Task /\ task'.mode = tk.mode /\ task'.firstUnknown = tk.firstUnknown
      BY <3>1, <3>4 DEF GoodTask, Task, Syncing
    <3> QED
      BY <2>1, <3>1, <3>3, <3>5 DEF ClientOK, SyncInv, CountsAgree, GoodTask, InStep
  <2>3. CASE ~arrived
    <3>1. Complete(done)
      BY <1>2, <2>3 DEF FinalizeQresync
    <3> HIDE DEF done
    <3> QED
      BY <2>1, <3>1, CompleteType
  <2> QED
    BY <2>2, <2>3
<1> QED
  BY <1>1, <1>2

\* Every branch of finalizeSelect() establishes the invariant.
LEMMA FinalizeSelectType ==
    ASSUME TypeOK, SyncInv, ~SelectThrows(mb), FinalizeSelect(mb)
    PROVE  ClientOK'
<1> DEFINE m == mb
           old == m.disk.sync
           tk == [task EXCEPT !.old = old]
           dumb == [tk EXCEPT !.old.modSeq = 0]
           usable == IsUsableForSyncing(m.sync) /\ IsUsableForSyncing(old)
                     /\ m.sync.uidVal = old.uidVal
           quick == tk.qresync /\ IsUsableForCondstore(old) /\ IsUsableForCondstore(m.sync)
<1>1. m \in Mailbox /\ ClearAllMessages(m) \in Mailbox
  BY ClearAllMessagesType DEF TypeOK
<1>2. old \in SyncState /\ old.uidNext \in Nat /\ old.exists \in Nat
  BY <1>1, MailboxFields DEF SyncState
<1>3. GoodTask(tk) /\ tk.qresync = task.qresync /\ tk.old = old
  BY <1>2 DEF GoodTask, Task, TypeOK, SyncInv
<1>4. [old EXCEPT !.modSeq = 0] \in SyncState
  BY <1>2 DEF SyncState
<1>5. GoodTask(dumb)
  BY <1>3, <1>4 DEF GoodTask, Task
<1> HIDE DEF tk
<1>6. \/ FullMboxSync(m, dumb)
      \/ FullMboxSync(ClearAllMessages(m), tk)
      \/ FinalizeQresync(m, tk)
      \/ FullMboxSync(m, tk)
      \/ /\ Len(m.disk.uids) = old.exists /\ usable /\ ~quick /\ m.sync.exists # 0
         /\ NoArrivals(m, old) /\ m.sync.exists = old.exists
         /\ SyncNoNewNoDeletions(m, tk)
      \/ SyncUids(m, tk, "ALL", 0, 0)
      \/ SyncUids(m, tk, "NEW", old.uidNext, old.exists)
  BY DEF FinalizeSelect, tk
<1> HIDE DEF m, dumb
<1>7. CASE /\ Len(m.disk.uids) = old.exists /\ usable /\ ~quick /\ m.sync.exists # 0
           /\ NoArrivals(m, old) /\ m.sync.exists = old.exists
           /\ SyncNoNewNoDeletions(m, tk)
  <2>1. m.sync.exists > 0
    BY <1>1, <1>7, MailboxFields
  <2>2. Len(m.list) \in {0, m.sync.exists}
    BY <1>3, <1>7, <2>1 DEF SelectThrows, NoArrivals, m
  <2>3. m.list # <<>> => Len(m.list) # 0
    BY <1>1, MailboxFields, EmptySeq
  <2> QED
    BY <1>1, <1>3, <1>7, <2>2, <2>3, SyncNoNewNoDeletionsType
<1> QED
  BY <1>1, <1>2, <1>3, <1>5, <1>6, <1>7, FullMboxSyncType, FinalizeQresyncType, SyncUidsType

\* The types of the server's fields.
LEMMA ServerFields ==
    ASSUME TypeOK
    PROVE  /\ srv.msgs \in Seq(Uid) /\ Len(srv.msgs) \in Nat
           /\ srv.flag \in [Uid -> Nat] /\ srv.hms \in Nat
           /\ srv.next \in 1..(MaxUid + 1) /\ srv.next \in Nat /\ srv.val \in 1..2
<1>1. srv \in Server
  BY DEF TypeOK
<1>2. /\ srv.msgs \in Seq(Uid)
      /\ srv.flag \in [Uid -> Nat] /\ srv.hms \in Nat
      /\ srv.next \in 1..(MaxUid + 1) /\ srv.val \in 1..2
  BY <1>1 DEF Server
<1> QED
  BY <1>2, LenProperties, MaxUidAssumption

\* A step that leaves task and mailbox alone keeps SyncInv.
LEMMA SameClient ==
    ASSUME TypeOK, SyncInv, task' = task, mb' = mb
    PROVE  SyncInv'
BY DEF SyncInv, CountsAgree

\* The answers are about messages that the server has.
LEMMA WantedType ==
    ASSUME TypeOK, NEW c
    PROVE  Wanted(c) \in SUBSET (1..Len(srv.msgs))
BY DEF Wanted, FromUid, ChangedSince

\* FETCH responses are responses.
LEMMA FetchesType ==
    ASSUME TypeOK, NEW order \in Seq(1..Len(srv.msgs)),
           NEW withUid \in BOOLEAN, NEW withMod \in BOOLEAN
    PROVE  Fetches(order, withUid, withMod) \in Seq(Response)
<1>1. ASSUME NEW k \in 1..Len(order)
      PROVE  Fetch(order[k], srv.msgs[order[k]], withUid, withMod) \in Response
  <2>1. order[k] \in 1..Len(srv.msgs) /\ order[k] \in Nat
    BY ElementOfSeq, ServerFields
  <2>2. srv.msgs[order[k]] \in Uid
    BY <2>1, ServerFields, ElementOfSeq
  <2>3. srv.flag[srv.msgs[order[k]]] \in Nat
    BY <2>2, ServerFields
  <2> DEFINE f == Fetch(order[k], srv.msgs[order[k]], withUid, withMod)
  <2>4. f \in [t: {"FETCH"}, n: Nat, uid: 0..MaxUid, fl: Nat, mod: Nat]
    BY <2>1, <2>2, <2>3, MaxUidAssumption DEF Fetch, Uid
  <2> QED
    BY <2>4 DEF Response
<1>2. Len(order) \in Nat
  BY LenProperties
<1>3. Fetches(order, withUid, withMod) \in [1..Len(order) -> Response]
  BY <1>1 DEF Fetches
<1> QED
  BY <1>2, <1>3, FiniteFunctionIsSeq

\* What the server sends for a command are responses.
LEMMA DataType ==
    ASSUME TypeOK, NEW c \in Commands, NEW order \in Seq(1..Len(srv.msgs))
    PROVE  Data(c, order) \in Seq(Response)
<1> DEFINE codes == [t |-> "CODES", uidNext |-> srv.next, uidVal |-> srv.val,
                     modSeq |-> IF Condstore THEN srv.hms ELSE 0]
           gone == {u \in Uid : u < srv.next /\ \A i \in 1..Len(srv.msgs) : srv.msgs[i] # u}
           earlier == [t |-> "EARLIER", uids |-> gone]
           found == [k \in 1..Len(order) |-> srv.msgs[order[k]]]
<1>1. CASE c.t = "SELECT"
  <2>1. codes \in Response
    <3>1. codes \in [t: {"CODES"}, uidNext: Nat, uidVal: Nat, modSeq: Nat]
      BY ServerFields
    <3> QED
      BY <3>1 DEF Response
  <2>2. Exists(Len(srv.msgs)) \in Response
    <3>1. Exists(Len(srv.msgs)) \in [t: {"EXISTS"}, n: Nat]
      BY ServerFields DEF Exists
    <3> QED
      BY <3>1 DEF Response
  <2>3. earlier \in Response
    <3>1. earlier \in [t: {"EARLIER"}, uids: SUBSET Uid]
      OBVIOUS
    <3> QED
      BY <3>1 DEF Response
  <2> HIDE DEF earlier, codes
  <2>4. <<Exists(Len(srv.msgs)), codes>> \in Seq(Response)
    BY <2>1, <2>2
  <2>5. <<earlier>> \in Seq(Response)
    BY <2>3
  <2>6. <<earlier>> \o Fetches(order, TRUE, TRUE) \in Seq(Response)
    BY <2>5, FetchesType, ConcatProperties
  <2> DEFINE rest == IF Resync(c) THEN <<earlier>> \o Fetches(order, TRUE, TRUE) ELSE <<>>
  <2>7. rest \in Seq(Response)
    BY <2>6, EmptySeq
  <2> HIDE DEF rest
  <2>8. <<Exists(Len(srv.msgs)), codes>> \o rest \in Seq(Response)
    BY <2>4, <2>7, ConcatProperties
  <2>9. Data(c, order) = <<Exists(Len(srv.msgs)), codes>> \o rest
    BY <1>1 DEF Data, SelectData, rest, codes, earlier
  <2> QED
    BY <2>8, <2>9
<1>2. CASE c.t = "SEARCH"
  <2>1. ASSUME NEW k \in 1..Len(order) PROVE srv.msgs[order[k]] \in Uid
    <3>1. order[k] \in 1..Len(srv.msgs)
      BY ElementOfSeq
    <3> QED
      BY <3>1, ServerFields, ElementOfSeq
  <2>2. Len(order) \in Nat
    BY LenProperties
  <2>3. found \in [1..Len(order) -> Uid]
    BY <2>1
  <2> HIDE DEF found
  <2>4. found \in Seq(Uid)
    BY <2>2, <2>3, FiniteFunctionIsSeq
  <2>5. [t |-> "SEARCH", uids |-> found] \in Response
    BY <2>4 DEF Response
  <2>6. Data(c, order) = <<[t |-> "SEARCH", uids |-> found]>>
    BY <1>2 DEF Data, found
  <2> QED
    BY <2>5, <2>6
<1>3. CASE c.t = "FLAGS"
  <2>1. Data(c, order) = Fetches(order, Qresync, c.arg > 0)
    BY <1>3 DEF Data
  <2>2. Qresync \in BOOLEAN /\ (c.arg > 0) \in BOOLEAN
    BY ExtensionsAssumption
  <2> QED
    BY <2>1, <2>2, FetchesType
<1>4. CASE c.t = "ARRIVALS"
  <2>1. Data(c, order) = Fetches(order, TRUE, FALSE)
    BY <1>4 DEF Data
  <2> QED
    BY <2>1, FetchesType
<1>5. c.t \in CommandKind
  BY DEF Commands
<1> QED
  BY <1>1, <1>2, <1>3, <1>4, <1>5 DEF CommandKind

\* The server answering a command preserves the invariant.
LEMMA SendDataType ==
    ASSUME TypeOK, SyncInv, SendData
    PROVE  TypeOK' /\ SyncInv'
<1>1. Head(cmds) \in Commands
  BY HeadTailProperties DEF SendData, TypeOK
<1>2. PICK order \in Orders(Wanted(Head(cmds))) : net' = net \o Data(Head(cmds), order)
  BY DEF SendData
<1>3. order \in Seq(1..Len(srv.msgs))
  <2>1. Wanted(Head(cmds)) \in SUBSET (1..Len(srv.msgs))
    BY WantedType
  <2>2. Len(srv.msgs) \in Nat
    BY ServerFields
  <2>3. order \in Seq(Wanted(Head(cmds)))
    BY <2>1, <2>2, OrdersType
  <2> QED
    BY <2>1, <2>3, SeqMonotonic
<1>4. Data(Head(cmds), order) \in Seq(Response)
  BY <1>1, <1>3, DataType
<1>5. net' \in Seq(Response)
  BY <1>2, <1>4, ConcatProperties DEF TypeOK
<1> QED
  BY <1>5, SameClient DEF SendData, TypeOK

\* The server completing a command preserves the invariant.
LEMMA SendTaggedType ==
    ASSUME TypeOK, SyncInv, SendTagged
    PROVE  TypeOK' /\ SyncInv'
<1>1. Head(cmds) \in Commands /\ Tail(cmds) \in Seq(Commands)
  BY HeadTailProperties DEF SendTagged, TypeOK
<1>2. ASSUME NEW kind \in {"OK", "NO"} PROVE Tagged(kind) \in Response
  <2>1. Tagged(kind) \in [t: {"OK", "NO"}, cmd: CommandKind, tag: Nat]
    BY <1>1 DEF Tagged, Commands
  <2> QED
    BY <2>1 DEF Response
<1>3. net' \in Seq(Response)
  <2>1. net \in Seq(Response)
    BY DEF TypeOK
  <2>2. PICK kind \in {"OK", "NO"} : net' = Append(net, Tagged(kind))
    BY DEF SendTagged
  <2> QED
    BY <1>2, <2>1, <2>2, AppendProperties
<1> QED
  BY <1>1, <1>3, SameClient DEF SendTagged, TypeOK

\* An announcement is sent only when the mailbox is selected.
LEMMA AnnounceType ==
    ASSUME TypeOK, NEW r \in Response, Announce(r)
    PROVE  net' \in Seq(Response)
BY AppendProperties DEF TypeOK, Announce

\* A delivery preserves the invariant.
LEMMA ArriveType ==
    ASSUME TypeOK, SyncInv, Arrive
    PROVE  TypeOK' /\ SyncInv'
<1>1. srv.next \in Uid /\ srv.hms + 1 \in Nat
  BY ServerFields, MaxUidAssumption DEF Arrive, Uid
<1>2. /\ srv'.msgs = Append(srv.msgs, srv.next) /\ srv'.next = srv.next + 1
      /\ srv'.hms = srv.hms + 1 /\ srv'.val = srv.val
      /\ srv'.flag = [srv.flag EXCEPT ![srv.next] = srv.hms + 1]
      /\ srv' = [srv EXCEPT !.msgs = srv'.msgs, !.next = srv'.next, !.hms = srv'.hms,
                            !.flag = srv'.flag]
  BY DEF Arrive, TypeOK, Server
<1>3. Append(srv.msgs, srv.next) \in Seq(Uid)
  BY <1>1, ServerFields, AppendProperties
<1>4. srv.next + 1 \in 1..(MaxUid + 1)
  BY <1>1, MaxUidAssumption DEF Uid
<1>5. [srv.flag EXCEPT ![srv.next] = srv.hms + 1] \in [Uid -> Nat]
  BY <1>1, ServerFields
<1>6. srv' \in Server
  BY <1>1, <1>2, <1>3, <1>4, <1>5 DEF TypeOK, Server
<1>7. Exists(Len(srv.msgs) + 1) \in Response
  BY ServerFields DEF Exists, Response
<1>8. net' \in Seq(Response)
  BY <1>7, AnnounceType DEF Arrive
<1> QED
  BY <1>6, <1>8, SameClient DEF Arrive, TypeOK

\* An expunge on the server preserves the invariant.
LEMMA ServerExpungeType ==
    ASSUME TypeOK, SyncInv, NEW i \in 1..Len(srv.msgs), ServerExpunge(i)
    PROVE  TypeOK' /\ SyncInv'
<1>1. RemoveAt(srv.msgs, i) \in Seq(Uid) /\ srv.hms + 1 \in Nat
  BY ServerFields, RemoveAtType
<1>2. srv' \in Server
  BY <1>1 DEF ServerExpunge, TypeOK, Server
<1> DEFINE r == IF Qresync THEN [t |-> "VANISHED", uid |-> srv.msgs[i]]
                ELSE [t |-> "EXPUNGE", n |-> i]
<1>3. srv.msgs[i] \in Uid /\ i \in Nat \ {0}
  BY ServerFields, ElementOfSeq
<1>4. r \in Response
  <2>1. [t |-> "VANISHED", uid |-> srv.msgs[i]] \in [t: {"VANISHED"}, uid: Uid]
    BY <1>3
  <2>2. [t |-> "EXPUNGE", n |-> i] \in [t: {"EXPUNGE"}, n: Nat \ {0}]
    BY <1>3
  <2> QED
    BY <2>1, <2>2 DEF Response
<1>5. net' \in Seq(Response)
  <2>1. Announce(r)
    BY DEF ServerExpunge
  <2> HIDE DEF r
  <2> QED
    BY <1>4, <2>1, AnnounceType
<1> QED
  BY <1>2, <1>5, SameClient DEF ServerExpunge, TypeOK

\* A change of flags on the server preserves the invariant.
LEMMA ServerFlagType ==
    ASSUME TypeOK, SyncInv, NEW i \in 1..Len(srv.msgs), ServerFlag(i)
    PROVE  TypeOK' /\ SyncInv'
<1>1. srv.msgs[i] \in Uid /\ i \in Nat /\ srv.hms + 1 \in Nat
  BY ServerFields, ElementOfSeq
<1> DEFINE flag == [srv.flag EXCEPT ![srv.msgs[i]] = srv.hms + 1]
           r == [t |-> "FETCH", n |-> i, uid |-> IF Qresync THEN srv.msgs[i] ELSE 0,
                 fl |-> srv.hms + 1, mod |-> IF Condstore THEN srv.hms + 1 ELSE 0]
<1>2. flag \in [Uid -> Nat]
  BY <1>1, ServerFields
<1>3. srv' = [srv EXCEPT !.flag = flag, !.hms = srv.hms + 1]
  BY DEF ServerFlag, TypeOK, Server
<1> HIDE DEF flag
<1>4. srv' \in Server
  BY <1>1, <1>2, <1>3 DEF TypeOK, Server
<1>5. r \in Response
  <2>1. r \in [t: {"FETCH"}, n: Nat, uid: 0..MaxUid, fl: Nat, mod: Nat]
    BY <1>1, MaxUidAssumption DEF Uid
  <2> QED
    BY <2>1 DEF Response
<1>6. Announce(r)
  BY DEF ServerFlag
<1> HIDE DEF r
<1>7. net' \in Seq(Response)
  BY <1>5, <1>6, AnnounceType
<1> QED
  BY <1>4, <1>7, SameClient DEF ServerFlag, TypeOK

\* Deleting and creating the mailbox preserves the invariant.
LEMMA RecreateType ==
    ASSUME TypeOK, SyncInv, Recreate
    PROVE  TypeOK' /\ SyncInv'
<1>1. 1 \in Uid /\ srv.hms + 1 \in Nat /\ 2 \in 1..(MaxUid + 1)
  BY ServerFields, MaxUidAssumption DEF Uid
<1>2. <<1>> \in Seq(Uid)
  BY <1>1
<1>3. [u \in Uid |-> IF u = 1 THEN srv.hms + 1 ELSE 0] \in [Uid -> Nat]
  BY <1>1
<1>4. srv' \in Server
  BY <1>1, <1>2, <1>3 DEF Recreate, Server
<1> QED
  BY <1>4, SameClient DEF Recreate, TypeOK

\* Starting a synchronization preserves the invariant.
LEMMA PerformType ==
    ASSUME TypeOK, SyncInv, Perform
    PROVE  TypeOK' /\ SyncInv'
<1> DEFINE m == Populate(mb)
           qresync == Qresync /\ IsUsableForCondstore(m.disk.sync)
           arg == IF qresync THEN m.disk.sync.modSeq ELSE 0
           c == [t |-> "SELECT", arg |-> arg, val |-> m.disk.sync.uidVal, tag |-> selects + 1]
<1>1. m \in Mailbox
  BY PopulateType DEF TypeOK
<1>2. /\ mb' = [m EXCEPT !.st = "LOADING", !.sync = NoSync]
      /\ task' = [NoTask EXCEPT !.status = "SELECTING", !.qresync = qresync]
      /\ Issue(c)
      /\ selects' = selects + 1 /\ selects < MaxSelects
  BY DEF Perform
<1> HIDE DEF m
<1>3. mb' \in Mailbox
  <2>1. NoSync \in SyncState
    BY DEF NoSync, SyncState
  <2> QED
    BY <1>1, <1>2, <2>1 DEF Mailbox, FetchStatus
<1>4. qresync \in BOOLEAN
  BY ExtensionsAssumption DEF IsUsableForCondstore, IsUsableForSyncing
<1> HIDE DEF qresync
<1>5. /\ task' \in Task /\ task'.status = "SELECTING" /\ task'.firstUnknown = 0
  BY <1>2, <1>4, IdleTasks DEF GoodTask, Task, NoTask, Syncing
<1>6. arg \in Nat /\ m.disk.sync.uidVal \in Nat
  BY <1>1, MailboxFields DEF SyncState
<1> HIDE DEF arg
<1>7. selects' \in 0..MaxSelects
  BY <1>2, BoundsAssumption DEF TypeOK
<1>8. c \in Commands
  BY <1>2, <1>6, <1>7, BoundsAssumption DEF Commands, CommandKind
<1> HIDE DEF c
<1>9. cmds' \in Seq(Commands)
  BY <1>2, <1>8, AppendProperties DEF Issue, TypeOK
<1>10. TypeOK'
  BY <1>3, <1>5, <1>7, <1>9 DEF Perform, TypeOK
<1>11. SyncInv'
  BY <1>5 DEF SyncInv, CountsAgree
<1> QED
  BY <1>10, <1>11

\* A handler that changes the mailbox only, and keeps its counts in step if they
\* were promised to be, types the client's state.
LEMMA UpdateType ==
    ASSUME TypeOK, SyncInv, NEW m \in Mailbox,
           task.status \in {"SYNCING_FLAGS", "DONE", "KEEP"} => m.sync.exists = Len(m.list),
           Update(m)
    PROVE  ClientOK'
BY DEF Update, ClientOK, SyncInv, CountsAgree, TypeOK

\* Response codes do not touch the counts.
LEMMA HandleCodesType ==
    ASSUME TypeOK, SyncInv, HandleCodes
    PROVE  TypeOK' /\ SyncInv'
<1> DEFINE sync == [mb.sync EXCEPT !.uidNext = Resp.uidNext, !.uidVal = Resp.uidVal,
                                   !.modSeq = Resp.modSeq]
           m == IF task.status = "OFF" THEN mb ELSE [mb EXCEPT !.sync = sync]
<1>1. Resp \in Response /\ Resp.t = "CODES"
  BY HeadType DEF HandleCodes, Next1, Resp
<1>2. Resp.uidNext \in Nat /\ Resp.uidVal \in Nat /\ Resp.modSeq \in Nat
  BY <1>1, ResponseFields
<1>3. mb \in Mailbox
  BY DEF TypeOK
<1>4. sync \in SyncState /\ sync.exists = mb.sync.exists
  BY <1>2, <1>3, MailboxFields DEF SyncState
<1>5. Update(m)
  BY <1>3 DEF HandleCodes, Mailbox
<1> HIDE DEF sync
<1>6. m \in Mailbox /\ m.list = mb.list /\ m.sync.exists = mb.sync.exists
  BY <1>3, <1>4 DEF Mailbox
<1> HIDE DEF m
<1>7. ClientOK'
  BY <1>5, <1>6, UpdateType DEF SyncInv, CountsAgree
<1> QED
  BY <1>7, HandledType DEF HandleCodes, Next1

\* Asking for the UIDs of arrivals keeps the counts in step.
LEMMA AskForArrivalsType ==
    ASSUME TypeOK, SyncInv, NEW m, InStep(m), NEW from \in Nat, AskForArrivals(m, from)
    PROVE  ClientOK'
<1> DEFINE first == IF from > 1 THEN from ELSE 1
<1>1. /\ mb' = m /\ task' = [task EXCEPT !.arrivals = @ + 1]
      /\ Issue(Command("ARRIVALS", first))
  BY DEF AskForArrivals
<1>2. first \in Nat
  OBVIOUS
<1> HIDE DEF first
<1>3. cmds' \in Seq(Commands)
  BY <1>1, <1>2, IssueType DEF CommandKind
<1>4. task.arrivals + 1 \in Nat
  BY TaskFields DEF TypeOK
<1>5. /\ task' \in Task /\ task'.mode = task.mode /\ task'.firstUnknown = task.firstUnknown
  BY <1>1, <1>4 DEF TypeOK, Task
<1> QED
  BY <1>1, <1>3, <1>5 DEF ClientOK, SyncInv, CountsAgree, InStep

\* After EXISTS the counts are in step, whatever they were before.
LEMMA GrownType ==
    ASSUME TypeOK, NEW n \in Nat, ~ExistsThrows(mb, n)
    PROVE  /\ InStep(HandleExists(mb, n))
           /\ InStep(UpdateHighestKnownUid(HandleExists(mb, n)))
<1>1. InStep(HandleExists(mb, n))
  BY HandleExistsType DEF TypeOK, InStep
<1> QED
  BY <1>1, UpdateHighestKnownUidType DEF InStep

\* EXISTS during a synchronization preserves the invariant.
LEMMA ObtainExistsType ==
    ASSUME TypeOK, SyncInv, ObtainExists
    PROVE  TypeOK' /\ SyncInv'
<1> DEFINE n == Resp.n
           grown == UpdateHighestKnownUid(HandleExists(mb, n))
<1>1. Resp \in Response /\ n \in Nat
  BY HeadType, ResponseFields DEF ObtainExists, Next1, Resp
<1>2. mb \in Mailbox /\ "ExistsDecreased" \in Exceptions
  BY DEF TypeOK, Exceptions
<1> DEFINE list == IF task.qresync THEN mb.list \o Unknown(n - Len(mb.list)) ELSE mb.list
           noted == [mb EXCEPT !.sync.exists = n, !.list = list]
<1>3. noted \in Mailbox
  <2>1. [mb.sync EXCEPT !.exists = n] \in SyncState
    BY <1>1, <1>2, MailboxFields DEF SyncState
  <2>2. n - Len(mb.list) \in Int
    BY <1>1, <1>2, MailboxFields
  <2>3. Unknown(n - Len(mb.list)) \in Seq(Message)
    BY <2>2, UnknownType
  <2>4. mb.list \o Unknown(n - Len(mb.list)) \in Seq(Message)
    BY <1>2, <2>3, MailboxFields, ConcatProperties
  <2>5. list \in Seq(Message)
    BY <1>2, <2>4, MailboxFields
  <2> HIDE DEF list, n
  <2> QED
    BY <1>2, <2>1, <2>5 DEF Mailbox
<1>4. \/ task.status = "SELECTING" /\ Handled /\ Update(noted)
      \/ Throw("ExistsDecreased")
      \/ task.status = "SYNCING_UIDS" /\ ~ExistsThrows(mb, n) /\ Handled /\ Update(grown)
      \/ Handled /\ Update(mb)
      \/ ~ExistsThrows(mb, n) /\ Handled /\ AskForArrivals(grown, grown.sync.uidNext)
  BY <1>2 DEF ObtainExists, Mailbox
<1> HIDE DEF n, noted, grown
<1>5. net # <<>>
  BY DEF ObtainExists, Next1
<1>6. CASE Throw("ExistsDecreased")
  BY <1>2, <1>6, ThrowType
<1>7. CASE task.status = "SELECTING" /\ Handled /\ Update(noted)
  <2>1. ClientOK'
    BY <1>3, <1>7, UpdateType
  <2> QED
    BY <1>5, <1>7, <2>1, HandledType
<1>8. CASE task.status = "SYNCING_UIDS" /\ ~ExistsThrows(mb, n) /\ Handled /\ Update(grown)
  <2>1. grown \in Mailbox
    BY <1>1, <1>8, GrownType DEF grown, InStep
  <2>2. ClientOK'
    BY <1>8, <2>1, UpdateType
  <2> QED
    BY <1>5, <1>8, <2>2, HandledType
<1>9. CASE Handled /\ Update(mb)
  <2>1. ClientOK'
    BY <1>2, <1>9, UpdateType DEF SyncInv, CountsAgree
  <2> QED
    BY <1>5, <1>9, <2>1, HandledType
<1>10. CASE ~ExistsThrows(mb, n) /\ Handled /\ AskForArrivals(grown, grown.sync.uidNext)
  <2>1. InStep(grown)
    BY <1>1, <1>10, GrownType DEF grown
  <2>2. grown.sync.uidNext \in Nat
    BY <2>1, MailboxFields DEF InStep
  <2>3. ClientOK'
    BY <1>10, <2>1, <2>2, AskForArrivalsType
  <2> QED
    BY <1>5, <1>10, <2>3, HandledType
<1> QED
  BY <1>4, <1>6, <1>7, <1>8, <1>9, <1>10

\* EXISTS in an open mailbox preserves the invariant.
LEMMA KeepExistsType ==
    ASSUME TypeOK, SyncInv, KeepExists
    PROVE  TypeOK' /\ SyncInv'
<1> DEFINE n == Resp.n
           grown == HandleExists(mb, n)
           from == UpdateHighestKnownUid(grown).sync.uidNext
<1>1. Resp \in Response /\ n \in Nat
  BY HeadType, ResponseFields DEF KeepExists, Next1, Resp
<1>2. mb \in Mailbox /\ "ExistsDecreased" \in Exceptions /\ net # <<>>
  BY DEF TypeOK, Exceptions, KeepExists, Next1
<1>3. \/ Throw("ExistsDecreased")
      \/ Handled /\ Update(mb)
      \/ ~ExistsThrows(mb, n) /\ Handled /\ AskForArrivals(grown, from)
  BY DEF KeepExists
<1> HIDE DEF n, grown, from
<1>4. CASE Throw("ExistsDecreased")
  BY <1>2, <1>4, ThrowType
<1>5. CASE Handled /\ Update(mb)
  <2>1. ClientOK'
    BY <1>2, <1>5, UpdateType DEF SyncInv, CountsAgree
  <2> QED
    BY <1>2, <1>5, <2>1, HandledType
<1>6. CASE ~ExistsThrows(mb, n) /\ Handled /\ AskForArrivals(grown, from)
  <2>1. InStep(grown) /\ InStep(UpdateHighestKnownUid(grown))
    BY <1>1, <1>6, GrownType DEF grown
  <2>2. from \in Nat
    BY <2>1, MailboxFields DEF InStep, from
  <2>3. ClientOK'
    BY <1>6, <2>1, <2>2, AskForArrivalsType
  <2> QED
    BY <1>2, <1>6, <2>3, HandledType
<1> QED
  BY <1>3, <1>4, <1>5, <1>6

\* ... and preserves the whole invariant.
LEMMA UpdatedType ==
    ASSUME TypeOK, SyncInv, net # <<>>, Handled, NEW m \in Mailbox,
           task.status \in {"SYNCING_FLAGS", "DONE", "KEEP"} => m.sync.exists = Len(m.list),
           Update(m)
    PROVE  TypeOK' /\ SyncInv'
<1>1. ClientOK'
  BY UpdateType
<1> QED
  BY <1>1, HandledType

\* EXPUNGE during a synchronization: the counter always goes down, the list only
\* when the UID of the message is known, and from SYNCING_FLAGS on it always is.
LEMMA ObtainExpungeType ==
    ASSUME TypeOK, SyncInv, ObtainExpunge
    PROVE  TypeOK' /\ SyncInv'
<1> DEFINE n == Resp.n
           sync == [mb.sync EXCEPT !.exists = OneLess(@)]
           m == [mb EXCEPT !.sync = sync]
           known == IsKnown(n)
           shorter == HandleExpunge(m, n)
           early == known /\ task.status \in {"SELECTING", "SYNCING_UIDS"}
           tk == IF early THEN [task EXCEPT !.firstUnknown = @ - 1] ELSE task
           after == CASE ~known -> m
                      [] task.status = "DONE" -> SaveSyncStateAndUids(shorter)
                      [] OTHER -> shorter
<1>1. Resp \in Response /\ n \in Nat \ {0}
  BY HeadType, ResponseFields DEF ObtainExpunge, Next1, Resp
<1>2. mb \in Mailbox /\ "UnknownMessageIndex" \in Exceptions /\ net # <<>>
  BY DEF TypeOK, Exceptions, ObtainExpunge, Next1
<1>3. sync \in SyncState /\ sync.exists = OneLess(mb.sync.exists)
  BY <1>2, MailboxFields, SMTT(30) DEF SyncState, OneLess
<1>4. m = [mb EXCEPT !.sync.exists = OneLess(@)]
  BY <1>2 DEF Mailbox
<1>5. \/ Throw("UnknownMessageIndex")
      \/ /\ ~ (known /\ ExpungeThrows(mb, n)) /\ task.status \in Syncing
         /\ Handled /\ cmds' = cmds /\ mb' = after /\ task' = tk
  BY <1>4 DEF ObtainExpunge
<1>6. m \in Mailbox /\ m.list = mb.list /\ m.sync = sync
  BY <1>2, <1>3 DEF Mailbox
<1> HIDE DEF m, sync, n
<1>7. CASE Throw("UnknownMessageIndex")
  BY <1>2, <1>7, ThrowType
<1>8. CASE /\ ~ (known /\ ExpungeThrows(mb, n)) /\ task.status \in Syncing
           /\ Handled /\ cmds' = cmds /\ mb' = after /\ task' = tk
  <2>1. GoodTask(tk) /\ tk.status = task.status
    <3>1. task \in Task /\ task.firstUnknown \in Nat
      BY TaskFields DEF TypeOK
    <3>2. CASE early
      <4>1. n <= task.firstUnknown
        BY <3>2 DEF IsKnown
      <4>2. task.firstUnknown # 0 /\ task.firstUnknown - 1 \in Nat
        BY <1>1, <3>1, <4>1
      <4> QED
        BY <3>1, <3>2, <4>2 DEF GoodTask, SyncInv, Task
    <3>3. CASE ~early
      BY <3>1, <3>3 DEF GoodTask, SyncInv
    <3> HIDE DEF tk
    <3> QED
      BY <3>2, <3>3
  <2>2. CASE known
    <3>1. ~ExpungeThrows(m, n) /\ n \in 1..Len(mb.list)
      BY <1>6, <1>8, <2>2 DEF ExpungeThrows
    <3>2. /\ shorter \in Mailbox /\ Len(shorter.list) = Len(mb.list) - 1
          /\ shorter.sync = sync
      BY <1>1, <1>6, <3>1, HandleExpungeType
    <3> HIDE DEF shorter
    <3>3. after \in Mailbox /\ after.list = shorter.list /\ after.sync = sync
      BY <2>2, <3>2, SaveType
    <3> HIDE DEF after
    <3>4. mb.sync.exists = Len(mb.list) => sync.exists = Len(after.list)
      BY <1>2, <1>3, <3>1, <3>2, <3>3, MailboxFields DEF OneLess
    <3> QED
      BY <1>2, <1>8, <2>1, <3>3, <3>4, HandledType
         DEF ClientOK, GoodTask, SyncInv, CountsAgree, TypeOK
  <2>3. CASE ~known
    <3>1. task.status \notin {"SYNCING_FLAGS", "DONE"} /\ after = m
      BY <2>3 DEF IsKnown
    <3> HIDE DEF after
    <3>2. task.status # "KEEP"
      BY <1>8 DEF Syncing
    <3> QED
      BY <1>2, <1>6, <1>8, <2>1, <3>1, <3>2, HandledType
         DEF ClientOK, GoodTask, SyncInv, CountsAgree, TypeOK
  <2> QED
    BY <2>2, <2>3
<1> QED
  BY <1>5, <1>7, <1>8

\* saveSyncStateNowOrLater() leaves list and counters alone.
LEMMA SaveNowOrLaterType ==
    ASSUME NEW m \in Mailbox
    PROVE  /\ SaveSyncStateNowOrLater(m) \in Mailbox
           /\ SaveSyncStateNowOrLater(m).list = m.list
           /\ SaveSyncStateNowOrLater(m).sync = m.sync
BY SaveType DEF SaveSyncStateNowOrLater, Mailbox, FetchStatus

\* EXPUNGE in an open mailbox takes one from both the list and the counter.
LEMMA KeepExpungeType ==
    ASSUME TypeOK, SyncInv, KeepExpunge
    PROVE  TypeOK' /\ SyncInv'
<1> DEFINE n == Resp.n
           shorter == HandleExpunge(mb, n)
           sync == [shorter.sync EXCEPT !.exists = @ - 1]
           m == [shorter EXCEPT !.sync = sync]
<1>1. Resp \in Response /\ n \in Nat
  BY HeadType, ResponseFields DEF KeepExpunge, Next1, Resp
<1>2. /\ mb \in Mailbox /\ "UnknownMessageIndex" \in Exceptions /\ net # <<>>
      /\ mb.sync.exists = Len(mb.list)
  BY DEF TypeOK, Exceptions, KeepExpunge, Next1, SyncInv, CountsAgree
<1>3. CASE ExpungeThrows(mb, n)
  BY <1>2, <1>3, ThrowType DEF KeepExpunge
<1>4. CASE ~ExpungeThrows(mb, n)
  <2>1. /\ shorter \in Mailbox /\ Len(shorter.list) = Len(mb.list) - 1
        /\ shorter.sync = mb.sync
    BY <1>1, <1>2, <1>4, HandleExpungeType
  <2>2. Handled /\ Update(SaveSyncStateNowOrLater([shorter EXCEPT !.sync.exists = @ - 1]))
    BY <1>4 DEF KeepExpunge
  <2>3. n \in 1..Len(mb.list)
    BY <1>4 DEF ExpungeThrows
  <2> HIDE DEF shorter, n
  <2>4. sync \in SyncState /\ sync.exists = Len(shorter.list)
    BY <1>2, <2>1, <2>3, MailboxFields DEF SyncState
  <2>5. m = [shorter EXCEPT !.sync.exists = @ - 1]
    BY <2>1 DEF Mailbox
  <2> HIDE DEF sync
  <2>6. m \in Mailbox /\ m.list = shorter.list /\ m.sync = sync
    BY <2>1, <2>4 DEF Mailbox
  <2> HIDE DEF m
  <2> QED
    BY <1>2, <2>2, <2>4, <2>5, <2>6, SaveNowOrLaterType, UpdatedType
<1> QED
  BY <1>3, <1>4

\* A live VANISHED preserves the invariant, in every status.
LEMMA VanishedType ==
    ASSUME TypeOK, SyncInv, Vanished
    PROVE  TypeOK' /\ SyncInv'
<1> DEFINE m == HandleVanished(mb, Resp.uid)
<1>1. Resp \in Response /\ Resp.uid \in Uid /\ mb \in Mailbox /\ net # <<>>
  BY HeadType, ResponseFields DEF Vanished, Next1, Resp, TypeOK
<1>2. m \in Mailbox /\ m.sync.exists = Len(m.list)
  BY <1>1, HandleVanishedType
<1>3. Handled /\ Update(IF task.status = "KEEP" THEN SaveSyncStateNowOrLater(m) ELSE m)
  BY DEF Vanished
<1> HIDE DEF m
<1> QED
  BY <1>1, <1>2, <1>3, SaveNowOrLaterType, UpdatedType

\* VANISHED (EARLIER) preserves the invariant.
LEMMA VanishedEarlierSyncs ==
    ASSUME TypeOK, SyncInv, VanishedEarlier
    PROVE  TypeOK' /\ SyncInv'
<1>1. Resp \in Response /\ Resp.uids \in SUBSET Uid /\ mb \in Mailbox /\ net # <<>>
  BY HeadType, ResponseFields DEF VanishedEarlier, Next1, Resp, TypeOK
<1>2. PICK order \in Orders(Surviving(mb, Resp.uids)) :
         Update(HandleVanishedEarlier(mb, Resp.uids, order))
  BY DEF VanishedEarlier
<1> DEFINE m == HandleVanishedEarlier(mb, Resp.uids, order)
<1>3. m \in Mailbox /\ m.sync.exists = Len(m.list)
  BY <1>1, HandleVanishedEarlierType
<1>4. Handled /\ Update(m)
  BY <1>2 DEF VanishedEarlier
<1> HIDE DEF m
<1> QED
  BY <1>1, <1>3, <1>4, UpdatedType

\* A FETCH preserves the invariant.
LEMMA HandleFetchType ==
    ASSUME TypeOK, SyncInv, HandleFetch
    PROVE  TypeOK' /\ SyncInv'
<1> DEFINE m == HandleFetchResponse(mb, Resp)
           uid == m.list[Resp.n].uid
           raised == [m EXCEPT !.sync.uidNext = uid + 1]
           raise == task.status \in Syncing /\ MessageChanged(mb, Resp) /\ m.sync.uidNext <= uid
<1>1. /\ Resp \in [t: {"FETCH"}, n: Nat, uid: 0..MaxUid, fl: Nat, mod: Nat]
      /\ mb \in Mailbox /\ net # <<>>
  BY HeadType, ResponseFields DEF HandleFetch, Next1, Resp, TypeOK
<1>2. CASE FetchThrows(mb, Resp)
  <2>1. "UidMismatch" \in Exceptions /\ "UnknownMessageIndex" \in Exceptions
    BY DEF Exceptions
  <2> QED
    BY <1>2, <2>1, ThrowType DEF HandleFetch
<1>3. CASE ~FetchThrows(mb, Resp)
  <2>1. /\ m \in Mailbox /\ Len(m.list) = Len(mb.list)
        /\ m.sync.exists = mb.sync.exists /\ uid \in 0..MaxUid
    BY <1>1, <1>3, HandleFetchResponseType
  <2>2. Handled /\ Update(IF raise THEN raised ELSE m)
    BY <1>3 DEF HandleFetch
  <2> HIDE DEF m, raise
  <2>3. [m.sync EXCEPT !.uidNext = uid + 1] \in SyncState
    <3>1. uid + 1 \in Nat /\ m.sync \in SyncState
      BY <2>1, MailboxFields, MaxUidAssumption
    <3> HIDE DEF uid
    <3> QED
      BY <3>1 DEF SyncState
  <2>4. raised = [m EXCEPT !.sync = [m.sync EXCEPT !.uidNext = uid + 1]]
    BY <2>1 DEF Mailbox
  <2> HIDE DEF uid
  <2>5. raised \in Mailbox /\ raised.list = m.list /\ raised.sync.exists = m.sync.exists
    BY <2>1, <2>3, <2>4 DEF Mailbox, SyncState
  <2> HIDE DEF raised
  <2>6. task.status \in {"SYNCING_FLAGS", "DONE", "KEEP"} => mb.sync.exists = Len(mb.list)
    BY DEF SyncInv, CountsAgree
  <2> QED
    BY <1>1, <2>1, <2>2, <2>5, <2>6, UpdatedType
<1> QED
  BY <1>2, <1>3

\* finalizeSearch(): the check of the number of UIDs makes the list as long as
\* EXISTS, because a full search starts at the first message.
LEMMA HandleSearchType ==
    ASSUME TypeOK, SyncInv, HandleSearch
    PROVE  TypeOK' /\ SyncInv'
<1> DEFINE uids == Resp.uids
           first == task.firstUnknown
           applied == ApplyUids(mb, first, uids)
           m == UpdateHighestKnownUid(applied)
<1>1. uids \in Seq(Uid) /\ mb \in Mailbox /\ net # <<>> /\ task \in Task
  BY HeadType, ResponseFields DEF HandleSearch, Next1, Resp, TypeOK
<1>2. first \in Nat /\ Len(mb.list) \in Nat /\ Len(uids) \in Nat /\ mb.sync.exists \in Nat
  BY <1>1, TaskFields, MailboxFields, LenProperties
<1>3. CASE SearchThrows(uids)
  BY <1>3, ThrowType DEF HandleSearch, Exceptions
<1>4. CASE ~SearchThrows(uids) /\ first > Len(mb.list)
  BY <1>4, AbortType DEF HandleSearch
<1>5. CASE ~SearchThrows(uids) /\ ~ (first > Len(mb.list))
  <2>1. first \in 0..Len(mb.list)
    BY <1>2, <1>5
  <2>2. /\ applied \in Mailbox /\ Len(applied.list) = first + Len(uids)
        /\ applied.sync = mb.sync
    BY <1>1, <2>1, ApplyUidsType
  <2> HIDE DEF applied
  <2>3. m \in Mailbox /\ m.list = applied.list /\ m.sync.exists = mb.sync.exists
    BY <2>2, UpdateHighestKnownUidType
  <2>4. Handled /\ mb' = m /\ task' = [task EXCEPT !.status = "SYNCING_FLAGS"] /\ cmds' = cmds
    BY <1>5 DEF HandleSearch, FinalizeSearch, m, applied
  <2> HIDE DEF m
  <2>5. first + Len(uids) = mb.sync.exists
    <3>1. task.mode \in {"ALL", "NEW"} /\ (task.mode = "ALL" => first = 0)
      BY <1>1, TaskFields DEF SyncInv
    <3> QED
      BY <1>2, <1>5, <3>1 DEF SearchThrows, Expected
  <2>6. task' \in Task /\ task'.mode = task.mode /\ task'.firstUnknown = first
    BY <1>1, <2>4 DEF Task, Syncing
  <2> QED
    BY <1>1, <2>2, <2>3, <2>4, <2>5, <2>6, HandledType
       DEF ClientOK, SyncInv, CountsAgree, TypeOK
<1> QED
  BY <1>3, <1>4, <1>5

\* The tagged OK of SELECT preserves the invariant.
LEMMA SelectOkType ==
    ASSUME TypeOK, SyncInv, SelectOk
    PROVE  TypeOK' /\ SyncInv'
<1>1. net # <<>> /\ "WrongChildren" \in Exceptions
  BY DEF SelectOk, Ok, Next1, Exceptions
<1>2. CASE Abort
  BY <1>2, AbortType
<1>3. CASE Throw("WrongChildren")
  BY <1>1, <1>3, ThrowType
<1>4. CASE ~SelectThrows(mb) /\ Handled /\ FinalizeSelect(mb)
  BY <1>1, <1>4, FinalizeSelectType, HandledType
<1> QED
  BY <1>2, <1>3, <1>4 DEF SelectOk

\* The tagged OK of UID SEARCH preserves the invariant.
LEMMA SearchOkType ==
    ASSUME TypeOK, SyncInv, SearchOk
    PROVE  TypeOK' /\ SyncInv'
<1>1. CASE task.status # "SYNCING_FLAGS"
  BY <1>1, AbortType DEF SearchOk
<1>2. CASE task.status = "SYNCING_FLAGS"
  <2>1. net # <<>> /\ Handled /\ SyncFlags(mb, task)
    BY <1>2 DEF SearchOk, Ok, Next1
  <2>2. InStep(mb) /\ GoodTask(task)
    BY <1>2 DEF InStep, GoodTask, SyncInv, CountsAgree, TypeOK
  <2> QED
    BY <2>1, <2>2, SyncFlagsType, HandledType
<1> QED
  BY <1>1, <1>2

\* The tagged OK of the FETCH of flags preserves the invariant.
LEMMA FlagsOkType ==
    ASSUME TypeOK, SyncInv, FlagsOk
    PROVE  TypeOK' /\ SyncInv'
<1>1. CASE task.status # "SYNCING_FLAGS"
  BY <1>1, AbortType DEF FlagsOk
<1>2. CASE task.status = "SYNCING_FLAGS"
  <2>1. InStep(mb) /\ net # <<>> /\ task \in Task
    BY <1>2 DEF InStep, SyncInv, CountsAgree, TypeOK, FlagsOk, Ok, Next1
  <2>2. CASE task.arrivals = 0
    <3>1. Handled /\ Complete(mb)
      BY <1>2, <2>2 DEF FlagsOk
    <3> QED
      BY <2>1, <3>1, CompleteType, HandledType
  <2>3. CASE task.arrivals # 0
    <3>1. /\ Handled /\ mb' = mb /\ cmds' = cmds
          /\ task' = [task EXCEPT !.status = "DONE", !.flagsCmd = FALSE]
      BY <1>2, <2>3 DEF FlagsOk
    <3>2. task' \in Task /\ task'.mode = task.mode /\ task'.firstUnknown = task.firstUnknown
      BY <2>1, <3>1 DEF Task, Syncing
    <3> QED
      BY <2>1, <3>1, <3>2, HandledType
         DEF ClientOK, SyncInv, CountsAgree, InStep, TypeOK
  <2> QED
    BY <2>2, <2>3
<1> QED
  BY <1>1, <1>2

\* One UID FETCH less is pending.
LEMMA ArrivalsDoneType ==
    ASSUME TypeOK, SyncInv, task.arrivals > 0
    PROVE  GoodTask(ArrivalsDone) /\ ArrivalsDone.status = task.status
<1>1. task \in Task /\ task.arrivals - 1 \in Nat
  BY TaskFields DEF TypeOK
<1> QED
  BY <1>1 DEF ArrivalsDone, GoodTask, SyncInv, Task

\* The end of a UID FETCH during a synchronization preserves the invariant.
LEMMA ObtainArrivalsOkType ==
    ASSUME TypeOK, SyncInv, ObtainArrivalsOk
    PROVE  TypeOK' /\ SyncInv'
<1>1. net # <<>> /\ Handled /\ task.arrivals > 0
  BY DEF ObtainArrivalsOk, Ok, Next1
<1>2. CASE task.status = "DONE" /\ Complete(mb)
  <2>1. InStep(mb)
    BY <1>2 DEF InStep, SyncInv, CountsAgree, TypeOK
  <2> QED
    BY <1>1, <1>2, <2>1, CompleteType, HandledType
<1>3. CASE task' = ArrivalsDone /\ mb' = mb /\ cmds' = cmds
  <2>1. GoodTask(task') /\ task'.status = task.status
    BY <1>1, <1>3, ArrivalsDoneType
  <2> QED
    BY <1>1, <1>3, <2>1, HandledType DEF ClientOK, GoodTask, SyncInv, CountsAgree, TypeOK
<1> QED
  BY <1>2, <1>3 DEF ObtainArrivalsOk

\* A refused command ends the task.
LEMMA ObtainNoType ==
    ASSUME TypeOK, SyncInv, ObtainNo
    PROVE  TypeOK' /\ SyncInv'
<1>1. /\ net # <<>> /\ Handled
      /\ mb' = mb /\ task' = NoTask /\ cmds' = cmds /\ NoTask.status = "OFF"
  BY DEF ObtainNo, Next1, Failed, NoTask
<1> QED
  BY <1>1, IdleTasks, HandledType DEF ClientOK, GoodTask, SyncInv, CountsAgree, TypeOK

\* The end of a UID FETCH in an open mailbox preserves the invariant.
LEMMA KeepArrivalsFinishedType ==
    ASSUME TypeOK, SyncInv, KeepArrivalsFinished
    PROVE  TypeOK' /\ SyncInv'
<1>1. /\ net # <<>> /\ Handled /\ task.arrivals > 0 /\ task' = ArrivalsDone
      /\ mb' = (IF task.arrivals = 1 THEN SaveSyncStateAndUids(mb) ELSE mb)
      /\ cmds' = cmds /\ mb \in Mailbox
  BY DEF KeepArrivalsFinished, TypeOK
<1>2. GoodTask(task') /\ task'.status = task.status
  BY <1>1, ArrivalsDoneType
<1>3. mb' \in Mailbox /\ mb'.list = mb.list /\ mb'.sync = mb.sync
  BY <1>1, SaveType
<1> QED
  BY <1>1, <1>2, <1>3, HandledType DEF ClientOK, GoodTask, SyncInv, CountsAgree, TypeOK

\* A response nobody wants, a lost connection and a restart preserve the invariant.
LEMMA EndsType ==
    ASSUME TypeOK, SyncInv, Unhandled \/ Drop \/ Restart
    PROVE  TypeOK' /\ SyncInv'
<1>1. CASE Unhandled
  BY <1>1, ThrowType DEF Unhandled, Exceptions
<1>2. CASE Drop
  BY <1>2, DisconnectedType DEF Drop, TypeOK
<1>3. CASE Restart
  BY <1>3, StopType DEF Restart, TypeOK
<1> QED
  BY <1>1, <1>2, <1>3

\* The first run of the program satisfies the invariant.
LEMMA InitType ==
    ASSUME Init
    PROVE  TypeOK /\ SyncInv
<1>1. PICK k \in 0..MaxUid :
         srv = [msgs |-> UidsOf(k), flag |-> [u \in Uid |-> IF u <= k THEN 1 ELSE 0],
                hms |-> 1, next |-> k + 1, val |-> 1]
  BY DEF Init
<1>2. k \in Nat /\ k + 1 \in 1..(MaxUid + 1)
  BY MaxUidAssumption
<1>3. UidsOf(k) \in Seq(Uid)
  <2>1. UidsOf(k) \in [1..k -> Uid]
    BY <1>2, MaxUidAssumption DEF UidsOf, Uid
  <2> QED
    BY <1>2, <2>1, FiniteFunctionIsSeq
<1>4. [u \in Uid |-> IF u <= k THEN 1 ELSE 0] \in [Uid -> Nat]
  OBVIOUS
<1>5. srv \in Server
  BY <1>1, <1>2, <1>3, <1>4 DEF Server
<1>6. NoSync \in SyncState
  BY DEF NoSync, SyncState
<1>7. EmptyDisk \in Disk
  BY <1>6, EmptySeq DEF EmptyDisk, Disk
<1>8. mb \in Mailbox
  BY <1>6, <1>7, EmptySeq DEF Init, Mailbox, FetchStatus
<1>9. task = NoTask /\ GoodTask(task) /\ task.status = "OFF"
  BY IdleTasks DEF Init, NoTask
<1>10. cmds \in Seq(Commands) /\ net \in Seq(Response)
  BY EmptySeq DEF Init
<1>11. threw \in Exceptions /\ selects \in 0..MaxSelects
  BY BoundsAssumption DEF Init, Exceptions
<1> QED
  BY <1>5, <1>8, <1>9, <1>10, <1>11 DEF Init, TypeOK, SyncInv, CountsAgree, GoodTask

\* Every step preserves the invariant.
LEMMA NextType ==
    ASSUME TypeOK, SyncInv, [Next]_vars
    PROVE  TypeOK' /\ SyncInv'
<1>1. CASE ServerChange \/ Recreate
  BY <1>1, ArriveType, ServerExpungeType, ServerFlagType, RecreateType DEF ServerChange
<1>2. CASE SendData \/ SendTagged
  BY <1>2, SendDataType, SendTaggedType
<1>3. CASE Perform
  BY <1>3, PerformType
<1>4. CASE HandleCodes \/ ObtainExists \/ KeepExists \/ ObtainExpunge \/ KeepExpunge
  BY <1>4, HandleCodesType, ObtainExistsType, KeepExistsType, ObtainExpungeType, KeepExpungeType
<1>5. CASE Vanished \/ VanishedEarlier \/ HandleFetch \/ HandleSearch
  BY <1>5, VanishedType, VanishedEarlierSyncs, HandleFetchType, HandleSearchType
<1>6. CASE SelectOk \/ SearchOk \/ FlagsOk
  BY <1>6, SelectOkType, SearchOkType, FlagsOkType
<1>7. CASE ObtainArrivalsOk \/ ObtainNo \/ KeepArrivalsFinished
  BY <1>7, ObtainArrivalsOkType, ObtainNoType, KeepArrivalsFinishedType
<1>8. CASE Unhandled \/ Drop \/ Restart
  BY <1>8, EndsType
<1>9. CASE UNCHANGED vars
  BY <1>9 DEF vars, TypeOK, SyncInv, CountsAgree
<1> QED
  BY <1>1, <1>2, <1>3, <1>4, <1>5, <1>6, <1>7, <1>8, <1>9 DEF Next, HandleResponse

\* Type correctness for every server, mailbox size and bound: in particular no
\* counter of the client (EXISTS, firstUnknownUid, pending UID FETCHes) ever goes
\* below zero and no UID beyond the server's enters the list.
THEOREM TypeCorrect == Spec => []TypeOK
<1>1. Init => TypeOK /\ SyncInv
  BY InitType
<1>2. TypeOK /\ SyncInv /\ [Next]_vars => TypeOK' /\ SyncInv'
  BY NextType
<1> QED
  BY <1>1, <1>2, PTL DEF Spec

\* EXISTS and the message tree are in step and a full UID search starts at the
\* first message, with all the extensions, refusals, drops and restarts.
THEOREM SyncInvariant == Spec => []SyncInv
<1>1. Init => TypeOK /\ SyncInv
  BY InitType
<1>2. TypeOK /\ SyncInv /\ [Next]_vars => TypeOK' /\ SyncInv'
  BY NextType
<1> QED
  BY <1>1, <1>2, PTL DEF Spec

\* Once the UIDs are known, EXISTS equals the number of messages in the tree, in
\* whichever order EXISTS, EXPUNGE, VANISHED, FETCH and the SEARCH result came.
THEOREM CountsStayInStep == Spec => []CountsAgree
<1>1. SyncInv => CountsAgree
  BY DEF SyncInv
<1> QED
  BY <1>1, SyncInvariant, PTL

----------------------------------------------------------------------------
(* States of the server's mailbox, and how a later one follows from an earlier. *)

\* The elements of a sequence without its head ...
LEMMA TailElements ==
    ASSUME NEW S, NEW q \in Seq(S), q # <<>>
    PROVE  /\ Len(q) \in Nat /\ Len(q) >= 1 /\ Head(q) = q[1]
           /\ Tail(q) \in Seq(S) /\ Len(Tail(q)) = Len(q) - 1
           /\ \A i \in 1..(Len(q) - 1) : Tail(q)[i] = q[i + 1]
<1>1. Len(q) \in Nat /\ Len(q) >= 1
  BY EmptySeq, LenProperties
<1>2. Tail(q) \in Seq(S) /\ Len(Tail(q)) = Len(q) - 1 /\ Head(q) = q[1]
  BY <1>1, HeadTailProperties
<1>3. \A i \in 1..Len(Tail(q)) : Tail(q)[i] = q[i + 1]
  BY HeadTailProperties
<1> QED
  BY <1>1, <1>2, <1>3

\* ... with one more at the end ...
LEMMA AppendElements ==
    ASSUME NEW S, NEW q \in Seq(S), NEW a \in S
    PROVE  /\ Append(q, a) \in Seq(S) /\ Len(Append(q, a)) = Len(q) + 1 /\ Len(q) \in Nat
           /\ \A i \in 1..Len(q) : Append(q, a)[i] = q[i]
           /\ Append(q, a)[Len(q) + 1] = a
BY AppendProperties, LenProperties

\* ... and without the one at a position.
LEMMA RemoveAtElements ==
    ASSUME NEW S, NEW s \in Seq(S), NEW n \in 1..Len(s)
    PROVE  /\ RemoveAt(s, n) \in Seq(S) /\ Len(RemoveAt(s, n)) = Len(s) - 1
           /\ \A j \in 1..(Len(s) - 1) : RemoveAt(s, n)[j] = IF j < n THEN s[j] ELSE s[j + 1]
<1> DEFINE l == SubSeq(s, 1, n - 1)
           r == SubSeq(s, n + 1, Len(s))
<1>0. Len(s) \in Nat /\ n \in Nat
  BY LenProperties
<1>1. l \in Seq(S) /\ Len(l) = n - 1 /\ \A j \in 1..(n - 1) : l[j] = s[j]
  BY <1>0, SubSeqProperties, ElementOfSeq
<1>2. r \in Seq(S) /\ Len(r) = Len(s) - n /\ \A j \in 1..(Len(s) - n) : r[j] = s[n + j]
  BY <1>0, SubSeqProperties, ElementOfSeq
<1>3. RemoveAt(s, n) = l \o r
  BY DEF RemoveAt
<1> HIDE DEF l, r
<1>4. /\ l \o r \in Seq(S) /\ Len(l \o r) = Len(l) + Len(r)
      /\ \A j \in 1..(Len(l) + Len(r)) : (l \o r)[j] = IF j <= Len(l) THEN l[j] ELSE r[j - Len(l)]
  BY <1>1, <1>2, ConcatProperties
<1>5. ASSUME NEW j \in 1..(Len(s) - 1)
      PROVE  RemoveAt(s, n)[j] = IF j < n THEN s[j] ELSE s[j + 1]
  <2>1. CASE j < n
    <3>1. j \in 1..(n - 1) /\ j \in 1..(Len(l) + Len(r)) /\ j <= Len(l)
      BY <1>0, <1>1, <1>2, <2>1
    <3> QED
      BY <1>1, <1>3, <1>4, <2>1, <3>1
  <2>2. CASE ~(j < n)
    <3>1. /\ j - (n - 1) \in 1..(Len(s) - n) /\ j \in 1..(Len(l) + Len(r)) /\ ~(j <= Len(l))
          /\ n + (j - (n - 1)) = j + 1
      BY <1>0, <1>1, <1>2, <2>2
    <3> QED
      BY <1>1, <1>2, <1>3, <1>4, <2>2, <3>1
  <2> QED
    BY <2>1, <2>2
<1> QED
  BY <1>0, <1>1, <1>2, <1>3, <1>4, <1>5

\* The types of a state's fields.
LEMMA SaneFields ==
    ASSUME NEW s, Sane(s)
    PROVE  /\ s \in Server /\ s.msgs \in Seq(Uid) /\ Len(s.msgs) \in Nat
           /\ s.next \in 1..(MaxUid + 1) /\ s.next \in Nat /\ s.next >= 1 /\ s.val \in 1..2
           /\ s.flag \in [Uid -> Nat]
           /\ \A i \in 1..Len(s.msgs) : s.msgs[i] \in Uid /\ s.msgs[i] \in Nat
                                        /\ s.msgs[i] >= 1 /\ s.msgs[i] < s.next
<1>1. s \in Server /\ \A i \in 1..Len(s.msgs) : s.msgs[i] < s.next
  BY DEF Sane
<1>2. s.msgs \in Seq(Uid) /\ s.next \in 1..(MaxUid + 1) /\ s.val \in 1..2 /\ s.flag \in [Uid -> Nat]
  BY <1>1 DEF Server
<1>3. ASSUME NEW i \in 1..Len(s.msgs) PROVE s.msgs[i] \in Uid /\ s.msgs[i] \in Nat /\ s.msgs[i] >= 1
  <2>1. s.msgs[i] \in Uid
    BY <1>2, ElementOfSeq
  <2> QED
    BY <2>1, MaxUidAssumption DEF Uid
<1> QED
  BY <1>1, <1>2, <1>3, LenProperties, MaxUidAssumption

\* Of two surpluses that are never positive the sum is not either; if it is 0, both are.
LEMMA SurplusAdds ==
    ASSUME NEW n \in Nat, NEW p \in Nat, NEW q \in Nat, NEW x \in Nat, NEW y \in Nat, NEW z \in Nat,
           x <= y, y <= z, (p - n) - (y - x) <= 0, (q - p) - (z - y) <= 0
    PROVE  /\ x <= z /\ (q - n) - (z - x) <= 0
           /\ (q - n) - (z - x) = 0 =>
                 (p - n) - (y - x) = 0 /\ (q - p) - (z - y) = 0 /\ n <= p /\ p <= q
OBVIOUS

\* What a UID map and a UIDNEXT were true of stays so as the mailbox changes.
LEMMA FollowsTrans ==
    ASSUME NEW uids \in Seq(0..MaxUid), NEW next \in Nat, NEW a, NEW b, Sane(a), Sane(b),
           Follows(uids, next, a), Follows(a.msgs, a.next, b)
    PROVE  /\ Follows(uids, next, b)
           /\ Surplus(uids, next, b) = 0 => /\ Surplus(uids, next, a) = 0
                                            /\ Surplus(a.msgs, a.next, b) = 0
<1> DEFINE n == Len(uids)
           p == Len(a.msgs)
           q == Len(b.msgs)
<1>1. n \in Nat /\ p \in Nat /\ q \in Nat /\ a.next \in Nat /\ b.next \in Nat /\ next \in Nat
  BY SaneFields, LenProperties
<1>2. /\ next <= a.next /\ a.next <= b.next
      /\ (p - n) - (a.next - next) <= 0 /\ (q - p) - (b.next - a.next) <= 0
  BY DEF Follows, Surplus
<1>2a. /\ Surplus(uids, next, a) = (p - n) - (a.next - next)
       /\ Surplus(a.msgs, a.next, b) = (q - p) - (b.next - a.next)
       /\ Surplus(uids, next, b) = (q - n) - (b.next - next)
  BY DEF Surplus
<1>2b. n = Len(uids) /\ p = Len(a.msgs) /\ q = Len(b.msgs)
  OBVIOUS
<1> HIDE DEF n, p, q
<1>3. next <= b.next /\ Surplus(uids, next, b) <= 0
  <2>1. PICK y \in Nat, z \in Nat : y = a.next /\ z = b.next
    BY <1>1
  <2>2. next <= y /\ y <= z /\ (p - n) - (y - next) <= 0 /\ (q - p) - (z - y) <= 0
    BY <1>2, <2>1
  <2>3. next <= z /\ (q - n) - (z - next) <= 0
    BY <1>1, <2>2
  <2> QED
    BY <1>2a, <2>1, <2>3
<1>4. ASSUME Surplus(uids, next, b) = 0
      PROVE  /\ Begins(uids, next, b)
             /\ Surplus(uids, next, a) = 0 /\ Surplus(a.msgs, a.next, b) = 0
  <2>0. (q - n) - (b.next - next) = 0
    BY <1>2a, <1>4
  <2>0a. (p - n) - (a.next - next) = 0 /\ (q - p) - (b.next - a.next) = 0 /\ n <= p /\ p <= q
    <3>1. PICK y \in Nat, z \in Nat : y = a.next /\ z = b.next
      BY <1>1
    <3>2. /\ next <= y /\ y <= z /\ (p - n) - (y - next) <= 0 /\ (q - p) - (z - y) <= 0
          /\ (q - n) - (z - next) = 0
      BY <1>2, <2>0, <3>1
    <3>3. (p - n) - (y - next) = 0 /\ (q - p) - (z - y) = 0 /\ n <= p /\ p <= q
      BY <1>1, <3>2, SurplusAdds
    <3> QED
      BY <3>1, <3>3
  <2>1. Surplus(uids, next, a) = 0 /\ Surplus(a.msgs, a.next, b) = 0 /\ n <= p /\ p <= q
    BY <1>2a, <2>0a
  <2>2. Begins(uids, next, a) /\ Begins(a.msgs, a.next, b)
    BY <2>1 DEF Follows
  <2>3. ASSUME NEW j \in 1..q
        PROVE  IF j <= n THEN uids[j] \in {0, b.msgs[j]} /\ b.msgs[j] < next ELSE b.msgs[j] >= next
    <3>1. CASE j <= p
      <4>1. j \in 1..p /\ j \in Nat
        BY <1>1, <2>1, <3>1
      <4>2. b.msgs[j] = a.msgs[j]
        <5>1. a.msgs[j] \in {0, b.msgs[j]} /\ a.msgs[j] >= 1 /\ a.msgs[j] \in Nat
          BY <1>2b, <2>2, <3>1, <4>1, SaneFields DEF Begins
        <5> QED
          BY <5>1
      <4> QED
        BY <1>2b, <2>2, <4>1, <4>2 DEF Begins
    <3>2. CASE ~(j <= p)
      <4>1. b.msgs[j] >= a.next /\ b.msgs[j] \in Nat
        BY <1>2b, <2>2, <3>2, SaneFields DEF Begins
      <4>2. b.msgs[j] >= next
        BY <1>1, <1>2, <4>1
      <4>3. j \in Nat /\ ~(j <= n)
        BY <1>1, <2>1, <3>2
      <4> QED
        BY <4>2, <4>3
    <3> QED
      BY <3>1, <3>2
  <2> QED
    BY <1>2b, <2>1, <2>3 DEF Begins
<1> QED
  BY <1>3, <1>4 DEF Follows

\* A state is as late as itself.
LEMMA LaterSame ==
    ASSUME NEW a, NEW b, Sane(a), b \in Server,
           b.msgs = a.msgs, b.next = a.next, b.val = a.val
    PROVE  Sane(b) /\ Later(a, b)
<1>1. Sane(b)
  BY DEF Sane
<1>2. a.next \in Nat /\ Len(a.msgs) \in Nat
  BY SaneFields
<1>3. Surplus(a.msgs, a.next, b) = 0
  BY <1>2 DEF Surplus
<1>4. Begins(a.msgs, a.next, b)
  BY DEF Begins, Sane
<1>5. NoneReturns(a, b)
  BY DEF NoneReturns, Has
<1> QED
  BY <1>1, <1>2, <1>3, <1>4, <1>5 DEF Later, Follows

\* ... an arrival makes a later one ...
LEMMA LaterGrown ==
    ASSUME NEW a, NEW b, Sane(a), b \in Server,
           b.msgs = Append(a.msgs, a.next), b.next = a.next + 1, b.val = a.val
    PROVE  Sane(b) /\ Later(a, b)
<1> DEFINE n == Len(a.msgs)
<1>1. a.msgs \in Seq(Uid) /\ n \in Nat /\ a.next \in Nat /\ b.next \in 1..(MaxUid + 1)
  BY SaneFields DEF Server
<1>2. a.next \in Uid
  BY <1>1, SaneFields, MaxUidAssumption DEF Uid
<1>3. /\ Len(b.msgs) = n + 1 /\ b.msgs[n + 1] = a.next
      /\ \A i \in 1..n : b.msgs[i] = a.msgs[i] /\ a.msgs[i] < a.next /\ a.msgs[i] \in Nat
  BY <1>1, <1>2, AppendElements, SaneFields
<1>4. ASSUME NEW i \in 1..Len(b.msgs), NEW j \in 1..Len(b.msgs), i < j
      PROVE  b.msgs[i] < b.msgs[j]
  <2>1. i \in 1..n /\ (j \in 1..n \/ j = n + 1)
    BY <1>1, <1>3, <1>4
  <2> QED
    BY <1>3, <1>4, <2>1 DEF Sane
<1>5. ASSUME NEW i \in 1..Len(b.msgs) PROVE b.msgs[i] < b.next
  <2>1. i \in 1..n \/ i = n + 1
    BY <1>1, <1>3
  <2> QED
    BY <1>1, <1>3, <2>1
<1>6. Sane(b)
  BY <1>4, <1>5 DEF Sane
<1>7. Surplus(a.msgs, a.next, b) = 0
  BY <1>1, <1>3 DEF Surplus
<1>8. Begins(a.msgs, a.next, b)
  <2> SUFFICES ASSUME NEW j \in 1..Len(b.msgs)
               PROVE  IF j <= n THEN a.msgs[j] \in {0, b.msgs[j]} /\ b.msgs[j] < a.next
                      ELSE b.msgs[j] >= a.next
    BY DEF Begins
  <2>1. j \in 1..n \/ j = n + 1
    BY <1>1, <1>3
  <2> QED
    BY <1>1, <1>3, <2>1
<1>9. NoneReturns(a, b)
  <2> SUFFICES ASSUME NEW u \in Uid, u < a.next, NEW j \in 1..Len(b.msgs), b.msgs[j] = u
               PROVE  Has(a, u)
    BY DEF NoneReturns, Has
  <2>1. j \in 1..n \/ j = n + 1
    BY <1>1, <1>3
  <2>2. j # n + 1
    BY <1>1, <1>3
  <2> QED
    BY <1>3, <2>1, <2>2 DEF Has
<1>10. Follows(a.msgs, a.next, b)
  BY <1>1, <1>3, <1>7, <1>8 DEF Follows
<1> QED
  BY <1>6, <1>9, <1>10 DEF Later

\* ... and so does an expunge.
LEMMA LaterRemoved ==
    ASSUME NEW a, NEW b, Sane(a), b \in Server, NEW n \in 1..Len(a.msgs),
           b.msgs = RemoveAt(a.msgs, n), b.next = a.next, b.val = a.val
    PROVE  Sane(b) /\ Later(a, b) /\ Surplus(a.msgs, a.next, b) < 0
<1>1. a.msgs \in Seq(Uid) /\ Len(a.msgs) \in Nat /\ a.next \in Nat
  BY SaneFields
<1>2. /\ Len(b.msgs) = Len(a.msgs) - 1
      /\ \A j \in 1..Len(b.msgs) : b.msgs[j] = IF j < n THEN a.msgs[j] ELSE a.msgs[j + 1]
  BY <1>1, RemoveAtElements
<1>3. ASSUME NEW i \in 1..Len(b.msgs), NEW j \in 1..Len(b.msgs), i < j
      PROVE  b.msgs[i] < b.msgs[j]
  <2> DEFINE x == IF i < n THEN i ELSE i + 1
             y == IF j < n THEN j ELSE j + 1
  <2>1. x \in 1..Len(a.msgs) /\ y \in 1..Len(a.msgs) /\ x < y
    BY <1>1, <1>2, <1>3
  <2>2. b.msgs[i] = a.msgs[x] /\ b.msgs[j] = a.msgs[y]
    BY <1>2
  <2> QED
    BY <2>1, <2>2 DEF Sane
<1>4. ASSUME NEW i \in 1..Len(b.msgs) PROVE b.msgs[i] < b.next
  <2> DEFINE x == IF i < n THEN i ELSE i + 1
  <2>1. x \in 1..Len(a.msgs) /\ b.msgs[i] = a.msgs[x]
    BY <1>1, <1>2
  <2> QED
    BY <2>1 DEF Sane
<1>5. Sane(b)
  BY <1>3, <1>4 DEF Sane
<1>6. Surplus(a.msgs, a.next, b) = 0 - 1
  BY <1>1, <1>2 DEF Surplus
<1>7. NoneReturns(a, b)
  <2> SUFFICES ASSUME NEW u \in Uid, NEW j \in 1..Len(b.msgs), b.msgs[j] = u
               PROVE  Has(a, u)
    BY DEF NoneReturns, Has
  <2>1. IF j < n THEN j \in 1..Len(a.msgs) /\ a.msgs[j] = u
        ELSE j + 1 \in 1..Len(a.msgs) /\ a.msgs[j + 1] = u
    BY <1>1, <1>2
  <2> QED
    BY <2>1 DEF Has
<1> QED
  BY <1>1, <1>5, <1>6, <1>7 DEF Later, Follows

----------------------------------------------------------------------------
(* Histories. *)

\* The first and the last state.
LEMMA HistoryEnds ==
    ASSUME NEW q \in Seq(Response), NEW s, NEW hs, History(hs, q, s)
    PROVE  /\ hs \in Seq(Server) /\ Len(q) \in Nat /\ Len(hs) = Len(q) + 1
           /\ Sane(s) /\ Sane(hs[1]) /\ Later(hs[1], s) /\ hs[1].val = s.val
           /\ q = <<>> => hs[1] = s
<1>1. /\ Len(q) \in Nat /\ Len(hs) = Len(q) + 1 /\ hs[Len(hs)] = s /\ hs \in Seq(Server)
      /\ \A i \in 1..Len(hs) : Sane(hs[i])
      /\ \A i, j \in 1..Len(hs) : i < j => Later(hs[i], hs[j])
  BY LenProperties DEF History
<1>2. 1 \in 1..Len(hs) /\ Len(hs) \in 1..Len(hs)
  BY <1>1
<1>3. Sane(hs[1]) /\ Sane(s)
  BY <1>1, <1>2
<1>4. Later(hs[1], s)
  <2>1. CASE Len(hs) = 1
    <3>1. hs[1] = s
      BY <1>1, <2>1
    <3>2. s \in Server
      BY <1>3, SaneFields
    <3> QED
      BY <1>3, <3>1, <3>2, LaterSame
  <2>2. CASE Len(hs) # 1
    <3>1. 1 < Len(hs)
      BY <1>1, <2>2
    <3>2. Later(hs[1], hs[Len(hs)])
      BY <1>1, <1>2, <3>1
    <3> QED
      BY <1>1, <3>2
  <2> QED
    BY <2>1, <2>2
<1>5. q = <<>> => hs[1] = s
  <2> HAVE q = <<>>
  <2>1. Len(q) = 0
    OBVIOUS
  <2> QED
    BY <1>1, <2>1
<1> QED
  BY <1>1, <1>3, <1>4, <1>5 DEF Later

\* Nothing is under way: the state now is all that counts.
LEMMA HistoryNow ==
    ASSUME NEW s, Sane(s)
    PROVE  History(<<s>>, <<>>, s)
<1>1. s \in Server
  BY SaneFields
<1>2. <<s>> \in Seq(Server) /\ Len(<<s>>) = 1 /\ <<s>>[1] = s /\ Len(<<>>) = 0
  BY <1>1
<1> QED
  BY <1>2 DEF History

\* A change that is announced.
LEMMA HistoryAppend ==
    ASSUME NEW q \in Seq(Response), NEW s, NEW hs, History(hs, q, s),
           NEW r \in Response, NEW s2, Sane(s2), Later(s, s2), Tells(r, s, s2)
    PROVE  /\ History(Append(hs, s2), Append(q, r), s2)
           /\ \A i \in 1..Len(hs) : Append(hs, s2)[i] = hs[i]
<1> DEFINE n == Len(hs)
           h == Append(hs, s2)
           p == Append(q, r)
<1>1. /\ Len(q) \in Nat /\ n = Len(q) + 1 /\ n \in Nat /\ hs \in Seq(Server) /\ s2 \in Server
      /\ Sane(s) /\ hs[n] = s
  BY HistoryEnds, SaneFields DEF History
<1>2. /\ h \in Seq(Server) /\ Len(h) = n + 1 /\ h[n + 1] = s2
      /\ \A i \in 1..n : h[i] = hs[i]
  BY <1>1, AppendElements
<1>3. /\ Len(p) = n /\ p[n] = r /\ \A i \in 1..Len(q) : p[i] = q[i]
  BY <1>1, AppendElements
<1>4. /\ \A i \in 1..n : Sane(hs[i])
      /\ \A i, j \in 1..n : i < j => Later(hs[i], hs[j])
      /\ \A i \in 1..Len(q) : Tells(q[i], hs[i], hs[i + 1])
  BY DEF History
<1> HIDE DEF n, h, p
<1>5. ASSUME NEW i \in 1..n PROVE Later(hs[i], s2)
  <2>1. Sane(hs[i]) /\ hs[i].msgs \in Seq(0..MaxUid) /\ hs[i].next \in Nat
    <3>1. Sane(hs[i])
      BY <1>4
    <3>2. hs[i].msgs \in Seq(Uid) /\ hs[i].next \in Nat
      BY <3>1, SaneFields
    <3>3. Uid \subseteq 0..MaxUid
      BY MaxUidAssumption DEF Uid
    <3> QED
      BY <3>1, <3>2, <3>3, SeqMonotonic
  <2>2. CASE i = n
    BY <1>1, <2>2
  <2>3. CASE i # n
    <3>1. n \in 1..n /\ i < n
      BY <1>1, <2>3
    <3>2. Later(hs[i], s)
      BY <1>1, <1>4, <3>1
    <3>3. Follows(hs[i].msgs, hs[i].next, s2)
      BY <1>1, <2>1, <3>2, FollowsTrans DEF Later
    <3>4. hs[i].next <= s.next /\ s.next \in Nat /\ s2.next \in Nat
      BY <1>1, <3>2, SaneFields DEF Later, Follows
    <3>5. NoneReturns(hs[i], s) /\ NoneReturns(s, s2)
      BY <3>2 DEF Later
    <3>6. NoneReturns(hs[i], s2)
      BY <2>1, <3>4, <3>5 DEF NoneReturns, Uid
    <3> QED
      BY <3>2, <3>3, <3>6 DEF Later
  <2> QED
    BY <2>2, <2>3
<1>6. \A i \in 1..Len(h) : Sane(h[i])
  <2> TAKE i \in 1..Len(h)
  <2>1. i \in 1..n \/ i = n + 1
    BY <1>1, <1>2
  <2> QED
    BY <1>2, <1>4, <2>1
<1>7. \A i, j \in 1..Len(h) : i < j => Later(h[i], h[j])
  <2> TAKE i, j \in 1..Len(h)
  <2> HAVE i < j
  <2>1. i \in 1..n /\ (j \in 1..n \/ j = n + 1)
    BY <1>1, <1>2
  <2> QED
    BY <1>2, <1>4, <1>5, <2>1
<1>8. \A i \in 1..Len(p) : Tells(p[i], h[i], h[i + 1])
  <2> TAKE i \in 1..Len(p)
  <2>1. CASE i = n
    BY <1>1, <1>2, <1>3, <2>1
  <2>2. CASE i # n
    <3>1. i \in 1..Len(q) /\ i \in 1..n /\ i + 1 \in 1..n
      BY <1>1, <1>3, <2>2
    <3> QED
      BY <1>2, <1>3, <1>4, <3>1
  <2> QED
    BY <2>1, <2>2
<1>9. History(h, p, s2)
  BY <1>1, <1>2, <1>3, <1>6, <1>7, <1>8 DEF History
<1> QED
  BY <1>2, <1>9 DEF h, p, n

\* The responses d are true of s; h goes on from hs, at s for the responses after the
\* first n.
AllTell(d, s) == \A k \in 1..Len(d) : Tells(d[k], s, s)
GoesOn(h, hs, n, m, s) ==
    /\ \A i \in 1..Len(hs) : h[i] = hs[i]
    /\ \A i \in 1..(n + m + 1) : i > n => h[i] = s

\* What is said of the present state changes nothing.
LEMMA HistoryConcat ==
    ASSUME NEW q \in Seq(Response), NEW s, NEW hs, History(hs, q, s),
           NEW d \in Seq(Response), AllTell(d, s)
    PROVE  \E h \in Seq(Server) : History(h, q \o d, s) /\ GoesOn(h, hs, Len(q), Len(d), s)
<1> DEFINE n == Len(hs)
           k == Len(d)
           h == [i \in 1..(n + k) |-> IF i <= n THEN hs[i] ELSE s]
           p == q \o d
<1>1. /\ Len(q) \in Nat /\ n = Len(q) + 1 /\ n \in Nat /\ hs \in Seq(Server) /\ s \in Server
      /\ Sane(s) /\ hs[n] = s /\ k \in Nat
  BY HistoryEnds, SaneFields, LenProperties DEF History
<1>1a. \A i \in 1..n : hs[i] \in Server
  BY <1>1, ElementOfSeq
<1>2. h \in [1..(n + k) -> Server]
  BY <1>1, <1>1a
<1>3. h \in Seq(Server) /\ Len(h) = n + k
  BY <1>1, <1>2, FiniteFunctionIsSeq
<1>3a. \A i \in 1..(n + k) : h[i] = IF i <= n THEN hs[i] ELSE s
  OBVIOUS
<1>4. Len(p) = Len(q) + k /\ \A i \in 1..(Len(q) + k) : p[i] = IF i <= Len(q) THEN q[i] ELSE d[i - Len(q)]
  BY ConcatProperties
<1>5. /\ \A i \in 1..n : Sane(hs[i])
      /\ \A i, j \in 1..n : i < j => Later(hs[i], hs[j])
      /\ \A i \in 1..Len(q) : Tells(q[i], hs[i], hs[i + 1])
  BY DEF History
<1>6. \A i \in 1..k : Tells(d[i], s, s)
  BY DEF AllTell
<1> HIDE DEF n, k, h, p
<1>7. Later(s, s)
  BY <1>1, LaterSame
<1>7a. ASSUME NEW i \in 1..(n + k), i >= n PROVE h[i] = s
  <2>1. CASE i = n
    BY <1>1, <1>3a, <2>1
  <2>2. CASE i # n
    BY <1>1, <1>3a, <1>7a, <2>2
  <2> QED
    BY <2>1, <2>2
<1>8. \A i \in 1..Len(h) : Sane(h[i])
  BY <1>1, <1>3, <1>3a, <1>5
<1>9. \A i, j \in 1..Len(h) : i < j => Later(h[i], h[j])
  <2> TAKE i, j \in 1..Len(h)
  <2> HAVE i < j
  <2>1. CASE j <= n
    <3>1. i \in 1..n /\ j \in 1..n
      BY <1>1, <1>3, <2>1
    <3>2. i \in 1..(n + k) /\ j \in 1..(n + k) /\ i <= n
      BY <1>1, <3>1
    <3>3. h[i] = hs[i] /\ h[j] = hs[j]
      BY <1>3a, <2>1, <3>2
    <3>4. Later(hs[i], hs[j])
      BY <1>5, <3>1
    <3> QED
      BY <3>3, <3>4
  <2>2. CASE ~(j <= n) /\ i < n
    <3>1. i \in 1..n /\ n \in 1..n
      BY <1>1, <1>3, <2>2
    <3>1a. Later(hs[i], hs[n])
      BY <1>5, <2>2, <3>1
    <3>1b. h[i] = hs[i] /\ h[j] = s
      BY <1>1, <1>3, <1>3a, <2>2, <3>1
    <3>2. Later(hs[i], hs[n]) /\ h[i] = hs[i] /\ h[j] = s
      BY <3>1a, <3>1b
    <3> QED
      BY <1>1, <3>2
  <2>3. CASE ~(j <= n) /\ ~(i < n)
    <3>0. i \in 1..(n + k) /\ j \in 1..(n + k) /\ i >= n /\ j >= n
      BY <1>1, <1>3, <2>3
    <3>1. h[i] = s /\ h[j] = s
      BY <1>7a, <3>0
    <3> QED
      BY <1>7, <3>1
  <2> QED
    BY <2>1, <2>2, <2>3
<1>10. \A i \in 1..Len(p) : Tells(p[i], h[i], h[i + 1])
  <2> TAKE i \in 1..Len(p)
  <2>1. CASE i <= Len(q)
    <3>1. i \in 1..Len(q) /\ i \in 1..(n + k) /\ i + 1 \in 1..(n + k) /\ i <= n /\ i + 1 <= n
          /\ i \in 1..(Len(q) + k)
      BY <1>1, <1>4, <2>1
    <3>2. p[i] = q[i] /\ h[i] = hs[i] /\ h[i + 1] = hs[i + 1]
      BY <1>3a, <1>4, <2>1, <3>1
    <3> QED
      BY <1>5, <3>1, <3>2
  <2>2. CASE ~(i <= Len(q))
    <3>1. /\ i - Len(q) \in 1..k /\ i \in 1..(n + k) /\ i + 1 \in 1..(n + k) /\ ~(i + 1 <= n)
          /\ i \in 1..(Len(q) + k)
      BY <1>1, <1>4, <2>2
    <3>2. p[i] = d[i - Len(q)] /\ h[i + 1] = s
      BY <1>3a, <1>4, <2>2, <3>1
    <3>3. h[i] = s
      BY <1>1, <1>3a, <2>2, <3>1
    <3> QED
      BY <1>6, <3>1, <3>2, <3>3
  <2> QED
    BY <2>1, <2>2
<1>11. h[Len(h)] = s
  <2>1. n + k \in 1..(n + k) /\ n + k >= n
    BY <1>1
  <2> QED
    BY <1>3, <1>7a, <2>1
<1>12. History(h, p, s)
  BY <1>1, <1>3, <1>4, <1>8, <1>9, <1>10, <1>11 DEF History
<1>13. \A i \in 1..n : h[i] = hs[i]
  BY <1>1, <1>3a
<1>14. \A i \in 1..(Len(q) + k + 1) : i > Len(q) => h[i] = s
  BY <1>1, <1>7a
<1>15. GoesOn(h, hs, Len(q), k, s)
  BY <1>13, <1>14 DEF GoesOn, n
<1> QED
  BY <1>3, <1>12, <1>15 DEF p, k

\* A response is handled.
LEMMA HistoryTail ==
    ASSUME NEW q \in Seq(Response), NEW s, NEW hs, History(hs, q, s), q # <<>>
    PROVE  /\ History(Tail(hs), Tail(q), s)
           /\ \A i \in 1..Len(q) : Tail(hs)[i] = hs[i + 1]
           /\ Len(q) >= 1 /\ Len(q) \in Nat
           /\ Tells(Head(q), hs[1], hs[2]) /\ Later(hs[1], hs[2]) /\ Sane(hs[1]) /\ Sane(hs[2])
           /\ Tail(hs)[1] = hs[2]
<1> DEFINE n == Len(q)
           h == Tail(hs)
           p == Tail(q)
<1>1. /\ n \in Nat /\ Len(hs) = n + 1 /\ hs \in Seq(Server) /\ hs[n + 1] = s
  BY HistoryEnds DEF History
<1>1a. hs # <<>>
  BY <1>1
<1>2. /\ n >= 1 /\ Head(q) = q[1] /\ Len(p) = n - 1 /\ \A i \in 1..(n - 1) : p[i] = q[i + 1]
  BY TailElements
<1>3. /\ h \in Seq(Server) /\ Len(h) = n /\ \A i \in 1..n : h[i] = hs[i + 1]
  BY <1>1, <1>1a, TailElements
<1>4. /\ \A i \in 1..(n + 1) : Sane(hs[i])
      /\ \A i, j \in 1..(n + 1) : i < j => Later(hs[i], hs[j])
      /\ \A i \in 1..n : Tells(q[i], hs[i], hs[i + 1])
  BY <1>1 DEF History
<1> HIDE DEF n, h, p
<1>5. 1 \in 1..n /\ 1 \in 1..(n + 1) /\ 2 \in 1..(n + 1) /\ 1 + 1 = 2
  BY <1>1, <1>2
<1>6. Tells(Head(q), hs[1], hs[2]) /\ Later(hs[1], hs[2]) /\ Sane(hs[1]) /\ Sane(hs[2]) /\ h[1] = hs[2]
  BY <1>2, <1>3, <1>4, <1>5
<1>7. \A i \in 1..Len(h) : Sane(h[i])
  <2> TAKE i \in 1..Len(h)
  <2>1. i \in 1..n /\ i + 1 \in 1..(n + 1)
    BY <1>1, <1>3
  <2>2. h[i] = hs[i + 1] /\ Sane(hs[i + 1])
    BY <1>3, <1>4, <2>1
  <2> QED
    BY <2>2
<1>8. \A i, j \in 1..Len(h) : i < j => Later(h[i], h[j])
  <2> TAKE i, j \in 1..Len(h)
  <2> HAVE i < j
  <2>1. i + 1 \in 1..(n + 1) /\ j + 1 \in 1..(n + 1) /\ i + 1 < j + 1
    BY <1>1, <1>3
  <2> QED
    BY <1>3, <1>4, <2>1
<1>9. \A i \in 1..Len(p) : Tells(p[i], h[i], h[i + 1])
  <2> TAKE i \in 1..Len(p)
  <2>1. i \in 1..(n - 1) /\ i \in 1..n /\ i + 1 \in 1..n
    BY <1>1, <1>2
  <2> QED
    BY <1>2, <1>3, <1>4, <2>1
<1>10. h[Len(h)] = s /\ Len(h) = Len(p) + 1
  BY <1>1, <1>2, <1>3
<1>11. History(h, p, s)
  BY <1>3, <1>7, <1>8, <1>9, <1>10 DEF History
<1> QED
  BY <1>1, <1>2, <1>3, <1>6, <1>11 DEF h, p, n

----------------------------------------------------------------------------
(* What the handlers do to the list, the counters and what is on disk. *)

\* The saved sync state and UID map are the same; they are those of the list.
SameDisk(a, b) == b.disk.sync = a.disk.sync /\ b.disk.uids = a.disk.uids
IsSaved(m) == m.disk.sync = m.sync /\ m.disk.uids = Uids(m.list)

\* Clearing cached messages touches flags only ...
LEMMA ClearMessagesDoes ==
    ASSUME NEW m \in Mailbox, NEW us
    PROVE  SameDisk(m, ClearMessages(m, us))
BY DEF ClearMessages, Mailbox, Disk, SameDisk

\* ... or the UID map too.
LEMMA ClearAllMessagesDoes ==
    ASSUME NEW m \in Mailbox
    PROVE  /\ ClearAllMessages(m).st = m.st
           /\ ClearAllMessages(m).disk.sync = m.disk.sync
BY DEF ClearAllMessages, Mailbox, Disk

\* Saving.
LEMMA SaveDoes ==
    ASSUME NEW m \in Mailbox
    PROVE  SaveSyncStateAndUids(m).st = "DONE" /\ IsSaved(SaveSyncStateAndUids(m))
<1>1. /\ SaveSyncStateAndUids(m).st = "DONE"
      /\ SaveSyncStateAndUids(m).disk.sync = m.sync
      /\ SaveSyncStateAndUids(m).disk.uids = Uids(m.list)
  BY DEF SaveSyncStateAndUids, Mailbox, Disk
<1> QED
  BY <1>1, SaveType DEF IsSaved

\* The list read from disk has the UIDs of the map.
LEMMA PopulateDoes ==
    ASSUME NEW m \in Mailbox
    PROVE  /\ SameDisk(m, Populate(m))
           /\ \/ Populate(m) = m /\ ~(m.st = "NONE" /\ IsUsableForSyncing(m.disk.sync))
              \/ /\ m.st = "NONE" /\ Len(Populate(m).list) = Len(m.disk.uids)
                 /\ \A j \in 1..Len(m.disk.uids) : Populate(m).list[j].uid = m.disk.uids[j]
<1> DEFINE filled == [i \in 1..Len(m.disk.uids) |->
                        [uid |-> m.disk.uids[i], fl |-> FlagsOf(m, m.disk.uids[i])]]
<1>1. CASE ~(m.st = "NONE" /\ IsUsableForSyncing(m.disk.sync))
  BY <1>1 DEF Populate, SameDisk
<1>2. CASE m.st = "NONE" /\ IsUsableForSyncing(m.disk.sync)
  <2>1. filled \in [1..Len(m.disk.uids) -> Message]
    BY MailboxFields, ElementOfSeq, FlagsOfType DEF Message
  <2>2. Len(filled) = Len(m.disk.uids)
    BY <2>1, MailboxFields, FiniteFunctionIsSeq
  <2>3. \A j \in 1..Len(m.disk.uids) : filled[j].uid = m.disk.uids[j]
    OBVIOUS
  <2>4. Populate(m) = [m EXCEPT !.list = filled, !.sync = m.disk.sync, !.st = "DONE"]
    BY <1>2 DEF Populate
  <2> HIDE DEF filled
  <2>5. Populate(m).list = filled /\ Populate(m).disk = m.disk
    BY <2>4 DEF Mailbox
  <2> QED
    BY <1>2, <2>2, <2>3, <2>5 DEF SameDisk
<1> QED
  BY <1>1, <1>2

\* Unknown messages have no UID.
LEMMA UnknownUids ==
    ASSUME NEW n \in Nat, NEW j \in 1..n
    PROVE  Unknown(n)[j].uid = 0
BY DEF Unknown

\* EXISTS adds unknown messages at the end.
LEMMA HandleExistsDoes ==
    ASSUME NEW m \in Mailbox, NEW n \in Nat, ~ExistsThrows(m, n)
    PROVE  /\ SameDisk(m, HandleExists(m, n)) /\ Len(m.list) <= n
           /\ \A j \in 1..n : HandleExists(m, n).list[j].uid
                              = IF j <= Len(m.list) THEN m.list[j].uid ELSE 0
           /\ HandleExists(m, n).st = IF n = Len(m.list) THEN m.st ELSE "LOADING"
           /\ HandleExists(m, n).sync.uidVal = m.sync.uidVal
<1> DEFINE k == n - Len(m.list)
           new == Unknown(k)
<1>1. k \in Nat /\ k \in Int /\ Len(m.list) \in Nat /\ Len(m.list) <= n
  BY MailboxFields DEF ExistsThrows
<1>2. k + Len(m.list) = n
  BY <1>1
<1> HIDE DEF k
<1>3. new \in Seq(Message) /\ Len(new) = k /\ \A j \in 1..k : new[j].uid = 0
  BY <1>1, UnknownType, UnknownUids
<1> HIDE DEF new
<1>4. \A j \in 1..(Len(m.list) + Len(new)) :
         (m.list \o new)[j] = IF j <= Len(m.list) THEN m.list[j] ELSE new[j - Len(m.list)]
  BY <1>3, MailboxFields, ConcatProperties
<1>5. ASSUME NEW j \in 1..n
      PROVE  (m.list \o new)[j].uid = IF j <= Len(m.list) THEN m.list[j].uid ELSE 0
  <2>1. j \in 1..(Len(m.list) + Len(new)) /\ (~(j <= Len(m.list)) => j - Len(m.list) \in 1..k)
    BY <1>1, <1>2, <1>3
  <2> QED
    BY <1>3, <1>4, <2>1
<1>6. /\ HandleExists(m, n).list = m.list \o new
      /\ HandleExists(m, n).disk = m.disk
      /\ HandleExists(m, n).st = IF n = Len(m.list) THEN m.st ELSE "LOADING"
      /\ HandleExists(m, n).sync.uidVal = m.sync.uidVal
  BY DEF HandleExists, Mailbox, SyncState, new, k
<1> QED
  BY <1>1, <1>5, <1>6 DEF SameDisk

\* EXPUNGE removes one message, and saves a mailbox that is synced.
LEMMA HandleExpungeDoes ==
    ASSUME NEW m \in Mailbox, NEW n \in Nat, ~ExpungeThrows(m, n)
    PROVE  /\ n \in 1..Len(m.list) /\ HandleExpunge(m, n).list = RemoveAt(m.list, n)
           /\ HandleExpunge(m, n).st = m.st
           /\ IF m.st = "DONE" THEN IsSaved(HandleExpunge(m, n))
              ELSE SameDisk(m, HandleExpunge(m, n))
<1>1. n \in 1..Len(m.list)
  BY DEF ExpungeThrows
<1>2. RemoveAt(m.list, n) \in Seq(Message)
  BY <1>1, MailboxFields, RemoveAtType
<1> DEFINE rest == [m EXCEPT !.list = RemoveAt(m.list, n)]
           cleared == ClearMessages(rest, {m.list[n].uid})
<1>3. /\ rest \in Mailbox /\ rest.list = RemoveAt(m.list, n) /\ rest.sync = m.sync
      /\ rest.disk = m.disk /\ rest.st = m.st
  BY <1>2 DEF Mailbox
<1>4. HandleExpunge(m, n) = SaveIfDone(cleared)
  BY DEF HandleExpunge
<1> HIDE DEF rest
<1>5. /\ cleared \in Mailbox /\ cleared.list = rest.list /\ cleared.sync = rest.sync
      /\ cleared.st = rest.st /\ SameDisk(rest, cleared)
  BY <1>3, ClearMessagesType, ClearMessagesDoes
<1> HIDE DEF cleared
<1>6. CASE m.st = "DONE"
  <2>1. HandleExpunge(m, n) = SaveSyncStateAndUids(cleared)
    BY <1>3, <1>4, <1>5, <1>6 DEF SaveIfDone
  <2> QED
    BY <1>1, <1>3, <1>5, <1>6, <2>1, SaveType, SaveDoes
<1>7. CASE m.st # "DONE"
  <2>1. HandleExpunge(m, n) = cleared
    BY <1>3, <1>4, <1>5, <1>7 DEF SaveIfDone
  <2> QED
    BY <1>1, <1>3, <1>5, <1>7, <2>1 DEF SameDisk
<1> QED
  BY <1>6, <1>7

\* A FETCH without MODSEQ: the UID of a message may become known.
LEMMA HandleFetchDoes ==
    ASSUME NEW m \in Mailbox,
           NEW r \in [t: {"FETCH"}, n: Nat, uid: 0..MaxUid, fl: Nat, mod: Nat],
           ~FetchThrows(m, r), r.mod = 0
    PROVE  LET w == HandleFetchResponse(m, r)
           IN /\ SameDisk(m, w) /\ r.n \in 1..Len(m.list)
              /\ \A j \in 1..Len(m.list) :
                    w.list[j].uid = IF j = r.n /\ UidLearnt(m, r) THEN r.uid ELSE m.list[j].uid
              /\ w.sync.uidVal = m.sync.uidVal
              /\ w.sync.uidNext = IF UidLearnt(m, r) /\ m.sync.uidNext <= r.uid THEN r.uid + 1
                                  ELSE m.sync.uidNext
              /\ w.st \in {m.st, "LOADING"}
<1> DEFINE uid == IF UidLearnt(m, r) THEN r.uid ELSE m.list[r.n].uid
           guess == UidLearnt(m, r) /\ m.sync.uidNext <= r.uid
           raise == r.mod > m.sync.modSeq
           st == IF guess THEN "LOADING" ELSE m.st
           sync == [m.sync EXCEPT !.uidNext = IF guess THEN r.uid + 1 ELSE @,
                                  !.modSeq = IF raise THEN r.mod ELSE @]
           list == [m.list EXCEPT ![r.n] = [uid |-> uid, fl |-> r.fl]]
           flags == [u \in Uid |-> IF u = uid /\ m.list[r.n].fl # r.fl
                                   THEN r.fl ELSE m.disk.flags[u]]
           disk == [m.disk EXCEPT !.sync = IF raise /\ st = "DONE" THEN sync ELSE @,
                                  !.flags = flags]
<1>1. r.n \in 1..Len(m.list) /\ m.sync.modSeq \in Nat
  BY MailboxFields DEF FetchThrows
<1>2. ~raise
  BY <1>1
<1>3. /\ sync.uidVal = m.sync.uidVal
      /\ sync.uidNext = IF guess THEN r.uid + 1 ELSE m.sync.uidNext
  BY MailboxFields DEF SyncState
<1>4. \A j \in 1..Len(m.list) :
         list[j].uid = IF j = r.n /\ UidLearnt(m, r) THEN r.uid ELSE m.list[j].uid
  <2> TAKE j \in 1..Len(m.list)
  <2>1. DOMAIN m.list = 1..Len(m.list)
    BY MailboxFields
  <2>2. list[j] = IF j = r.n THEN [uid |-> uid, fl |-> r.fl] ELSE m.list[j]
    BY <1>1, <2>1
  <2> HIDE DEF list
  <2> QED
    BY <2>2
<1> HIDE DEF sync, list, flags, st, raise
<1>5. disk.sync = m.disk.sync /\ disk.uids = m.disk.uids
  BY <1>2, MailboxFields DEF Disk
<1>6. st \in {m.st, "LOADING"}
  BY DEF st
<1> HIDE DEF disk, guess, uid
<1>7. HandleFetchResponse(m, r) =
         [m EXCEPT !.list = list, !.st = st, !.sync = sync, !.disk = disk]
  BY ZenonT(60) DEF HandleFetchResponse, Mailbox, Disk, uid, sync, list, flags, st, raise, guess, disk
<1> DEFINE w == HandleFetchResponse(m, r)
<1>8. w.list = list /\ w.st = st /\ w.sync = sync /\ w.disk = disk
  BY <1>7 DEF Mailbox
<1> HIDE DEF w
<1>9. /\ SameDisk(m, w) /\ r.n \in 1..Len(m.list)
      /\ \A j \in 1..Len(m.list) :
            w.list[j].uid = IF j = r.n /\ UidLearnt(m, r) THEN r.uid ELSE m.list[j].uid
      /\ w.sync.uidVal = m.sync.uidVal
      /\ w.sync.uidNext = IF UidLearnt(m, r) /\ m.sync.uidNext <= r.uid THEN r.uid + 1
                          ELSE m.sync.uidNext
      /\ w.st \in {m.st, "LOADING"}
  BY <1>1, <1>3, <1>4, <1>5, <1>6, <1>8 DEF SameDisk, guess
<1> QED
  BY <1>9 DEF w

\* The messages after the first few get the UIDs that were found.
LEMMA ApplyUidsDoes ==
    ASSUME NEW m \in Mailbox, NEW uids \in Seq(Uid), NEW first \in 0..Len(m.list)
    PROVE  LET w == ApplyUids(m, first, uids)
           IN /\ SameDisk(m, w) /\ w.st = "DONE"
              /\ \A k \in 1..(first + Len(uids)) :
                    w.list[k].uid = IF k <= first THEN m.list[k].uid ELSE uids[k - first]
<1> DEFINE slot == Slots(m.list, first, uids)
           At(k) == slot[k - first]
           Reused(k) == IF At(k) \in 1..Len(m.list) THEN m.list[At(k)].fl ELSE 0
           n == first + Len(uids)
           list == [k \in 1..n |-> IF k <= first THEN m.list[k]
                                   ELSE [uid |-> uids[k - first], fl |-> Reused(k)]]
           rest == [m EXCEPT !.list = list, !.st = "DONE"]
           w == ApplyUids(m, first, uids)
<1>1. \A k \in 1..n : list[k].uid = IF k <= first THEN m.list[k].uid ELSE uids[k - first]
  <2> TAKE k \in 1..n
  <2>1. list[k] = IF k <= first THEN m.list[k] ELSE [uid |-> uids[k - first], fl |-> Reused(k)]
    OBVIOUS
  <2> HIDE DEF list, Reused
  <2> QED
    BY <2>1
<1>2. \E us : ApplyUids(m, first, uids) = ClearMessages(rest, us)
  BY DEF ApplyUids
<1> HIDE DEF w
<1>2a. list \in Seq(Message)
  <2>1. w.list = list
    BY <1>2 DEF w, ClearMessages, Mailbox
  <2> HIDE DEF list, slot, n
  <2>2. w \in Mailbox
    BY ApplyUidsType DEF w
  <2>3. w.list \in Seq(Message)
    BY <2>2, MailboxFields
  <2> QED
    BY <2>1, <2>3
<1> HIDE DEF n, list
<1>3. PICK us : w = ClearMessages(rest, us)
  BY <1>2 DEF w
<1>3a. rest \in Mailbox
  BY <1>2a DEF Mailbox, FetchStatus
<1>4. rest.list = list /\ rest.st = "DONE" /\ rest.disk = m.disk
  BY DEF Mailbox
<1> HIDE DEF rest
<1>5. w.list = rest.list /\ w.st = rest.st /\ SameDisk(rest, w)
  BY <1>3, <1>3a, ClearMessagesType, ClearMessagesDoes
<1> HIDE DEF w
<1>6. /\ SameDisk(m, w) /\ w.st = "DONE"
      /\ \A k \in 1..(first + Len(uids)) :
            w.list[k].uid = IF k <= first THEN m.list[k].uid ELSE uids[k - first]
  BY <1>1, <1>4, <1>5 DEF SameDisk, n
<1> QED
  BY <1>6 DEF w

\* The known UIDs ascend.
InOrder(list) ==
    \A i, j \in 1..Len(list) :
       i < j /\ list[i].uid # 0 /\ list[j].uid # 0 => list[i].uid < list[j].uid

\* UIDNEXT is raised past the last known message of the list.
LEMMA UpdateHighestKnownUidDoes ==
    ASSUME NEW m \in Mailbox
    PROVE  LET w == UpdateHighestKnownUid(m)
           IN /\ SameDisk(m, w) /\ w.st = m.st /\ w.sync.uidVal = m.sync.uidVal
              /\ w.sync.uidNext >= m.sync.uidNext
              /\ \/ w.sync.uidNext = m.sync.uidNext
                 \/ \E i \in 1..Len(m.list) : w.sync.uidNext = m.list[i].uid + 1
              /\ InOrder(m.list) =>
                    \A i \in 1..Len(m.list) : m.list[i].uid # 0 => m.list[i].uid < w.sync.uidNext
<1> DEFINE known == {i \in 1..Len(m.list) : m.list[i].uid # 0}
           last == CHOOSE i \in known : \A j \in known : j <= i
           top == m.list[last].uid
           sync == [m.sync EXCEPT !.uidNext = top + 1]
           w == UpdateHighestKnownUid(m)
<1>0. known \in SUBSET (0..Len(m.list)) /\ Len(m.list) \in Nat /\ m.sync.uidNext \in Nat
  BY MailboxFields
<1>1. CASE known = {}
  <2>1. w = m
    BY <1>1 DEF UpdateHighestKnownUid
  <2>2. \A i \in 1..Len(m.list) : m.list[i].uid = 0
    BY <1>1
  <2> HIDE DEF w
  <2>3. /\ SameDisk(m, w) /\ w.st = m.st /\ w.sync.uidVal = m.sync.uidVal
        /\ w.sync.uidNext >= m.sync.uidNext /\ w.sync.uidNext = m.sync.uidNext
        /\ \A i \in 1..Len(m.list) : m.list[i].uid # 0 => m.list[i].uid < w.sync.uidNext
    BY <1>0, <2>1, <2>2 DEF SameDisk
  <2> QED
    BY <2>3 DEF w
<1>2. CASE known # {}
  <2>2. \E i \in known : \A j \in known : j <= i
    BY <1>0, <1>2, GreatestElement
  <2>3. last \in known /\ \A j \in known : j <= last
    BY <2>2
  <2> HIDE DEF last
  <2>4. m.list[last] \in Message
    BY <2>3, MailboxFields, ElementOfSeq
  <2>5. top \in Nat
    BY <2>4, MaxUidAssumption DEF Message
  <2>6. ASSUME InOrder(m.list), NEW i \in 1..Len(m.list), m.list[i].uid # 0
        PROVE  m.list[i].uid <= top /\ m.list[i].uid \in Nat
    <3>1. i \in known /\ i <= last /\ last \in 1..Len(m.list) /\ m.list[last].uid # 0
      BY <2>3, <2>6
    <3>2. m.list[i] \in Message
      BY MailboxFields, ElementOfSeq
    <3>3. m.list[i].uid \in Nat
      BY <3>2, MaxUidAssumption DEF Message
    <3>4. CASE i = last
      BY <2>5, <3>3, <3>4
    <3>5. CASE i # last
      <4>1. i < last
        BY <1>0, <3>1, <3>5
      <4>2. m.list[i].uid < m.list[last].uid
        BY <2>6, <3>1, <4>1 DEF InOrder
      <4> QED
        BY <2>5, <3>3, <4>2
    <3> QED
      BY <3>4, <3>5
  <2>6b. last \in 1..Len(m.list)
    BY <2>3
  <2>7. \/ w = m /\ top < m.sync.uidNext
        \/ w = [m EXCEPT !.sync = sync] /\ ~(top < m.sync.uidNext)
    BY <1>2 DEF UpdateHighestKnownUid, top, last, Mailbox
  <2> HIDE DEF top, known, w
  <2>7a. sync.uidNext = top + 1 /\ sync.uidVal = m.sync.uidVal
    BY MailboxFields DEF SyncState
  <2> HIDE DEF sync
  <2>8. \/ w = m /\ w.sync.uidNext > top
        \/ /\ w.list = m.list /\ w.st = m.st /\ w.disk = m.disk
           /\ w.sync.uidNext = top + 1 /\ w.sync.uidVal = m.sync.uidVal
           /\ ~(top < m.sync.uidNext)
    BY <1>0, <2>5, <2>7, <2>7a DEF Mailbox
  <2>9. /\ SameDisk(m, w) /\ w.st = m.st /\ w.sync.uidVal = m.sync.uidVal
        /\ w.sync.uidNext >= m.sync.uidNext /\ w.sync.uidNext > top
    BY <1>0, <2>5, <2>8 DEF SameDisk
  <2>10. w.sync.uidNext = m.sync.uidNext \/ w.sync.uidNext = m.list[last].uid + 1
    BY <2>8 DEF top
  <2>11. InOrder(m.list) =>
            \A i \in 1..Len(m.list) : m.list[i].uid # 0 => m.list[i].uid < w.sync.uidNext
    <3> HAVE InOrder(m.list)
    <3> TAKE i \in 1..Len(m.list)
    <3> HAVE m.list[i].uid # 0
    <3>1. m.list[i].uid <= top /\ m.list[i].uid \in Nat
      BY <2>6
    <3>2. w.sync.uidNext = top + 1 \/ w.sync.uidNext \in Nat
      BY <1>0, <2>8
    <3> QED
      BY <2>5, <2>9, <3>1, <3>2
  <2>12. \/ w.sync.uidNext = m.sync.uidNext
         \/ \E i \in 1..Len(m.list) : w.sync.uidNext = m.list[i].uid + 1
    BY <2>6b, <2>10
  <2> QED
    BY <2>9, <2>11, <2>12 DEF w
<1> QED
  BY <1>1, <1>2

----------------------------------------------------------------------------
(* The client lags behind: what a change of the server's, or a response, leaves of it. *)

\* The UIDs in a list are numbers.
LEMMA ListUids ==
    ASSUME NEW list \in Seq(Message)
    PROVE  /\ Len(list) \in Nat
           /\ \A j \in 1..Len(list) : list[j].uid \in 0..MaxUid /\ list[j].uid \in Nat
<1>1. ASSUME NEW j \in 1..Len(list) PROVE list[j].uid \in 0..MaxUid /\ list[j].uid \in Nat
  <2>1. list[j] \in Message
    BY ElementOfSeq
  <2> QED
    BY <2>1, MaxUidAssumption DEF Message
<1> QED
  BY <1>1, LenProperties

\* A bound on the UIDs may be raised.
LEMMA KnownBelowMore ==
    ASSUME NEW list \in Seq(Message), NEW n \in Nat, NEW k \in Nat, n <= k, KnownBelow(list, n)
    PROVE  KnownBelow(list, k)
<1> SUFFICES ASSUME NEW j \in 1..Len(list) PROVE list[j].uid < k
  BY DEF KnownBelow
<1>1. list[j].uid < n /\ list[j].uid \in Nat
  BY ListUids DEF KnownBelow
<1> QED
  BY <1>1

\* A list that fits has no UID beyond UIDNEXT.
LEMMA FitsBelow ==
    ASSUME NEW list \in Seq(Message), NEW h, Sane(h), Len(list) <= Len(h.msgs),
           FitsTo(list, Len(list), h)
    PROVE  KnownBelow(list, h.next)
<1> SUFFICES ASSUME NEW j \in 1..Len(list) PROVE list[j].uid < h.next
  BY DEF KnownBelow
<1>1. list[j].uid \in {0, h.msgs[j]} /\ j \in 1..Len(h.msgs)
  BY ListUids, SaneFields DEF FitsTo
<1> QED
  BY <1>1, SaneFields

\* The known UIDs of a list that fits ascend.
LEMMA FitsInOrder ==
    ASSUME NEW list \in Seq(Message), NEW h, Sane(h), Len(list) <= Len(h.msgs),
           FitsTo(list, Len(list), h)
    PROVE  InOrder(list)
<1> SUFFICES ASSUME NEW i \in 1..Len(list), NEW j \in 1..Len(list),
                    i < j, list[i].uid # 0, list[j].uid # 0
             PROVE  list[i].uid < list[j].uid
  BY DEF InOrder
<1>1. /\ list[i].uid = h.msgs[i] /\ i \in 1..Len(h.msgs)
      /\ list[j].uid = h.msgs[j] /\ j \in 1..Len(h.msgs)
  BY ListUids, SaneFields DEF FitsTo
<1> QED
  BY <1>1 DEF Sane

\* Without an expunge there are no fewer messages.
LEMMA NoFewer ==
    ASSUME NEW a, NEW b, Sane(a), Sane(b), Later(a, b), Surplus(a.msgs, a.next, b) = 0
    PROVE  Len(a.msgs) <= Len(b.msgs)
<1> DEFINE p == Len(a.msgs)
           q == Len(b.msgs)
           x == a.next
           y == b.next
<1>1. p \in Nat /\ q \in Nat /\ x \in Nat /\ y \in Nat /\ x <= y
  BY SaneFields DEF Later, Follows
<1>2. (q - p) - (y - x) = 0
  BY DEF Surplus
<1> HIDE DEF p, q, x, y
<1>3. p <= q
  BY <1>1, <1>2
<1> QED
  BY <1>3 DEF p, q

\* ... and a list that fitted still does.
LEMMA FitsLater ==
    ASSUME NEW list \in Seq(Message), NEW n \in Nat, NEW a, NEW b, Sane(a), Sane(b), Later(a, b),
           Surplus(a.msgs, a.next, b) = 0, n <= Len(a.msgs), FitsTo(list, n, a)
    PROVE  FitsTo(list, n, b) /\ Len(a.msgs) <= Len(b.msgs)
<1>1. /\ Len(a.msgs) \in Nat /\ Len(b.msgs) \in Nat /\ a.next \in Nat /\ b.next \in Nat
      /\ a.next <= b.next /\ Begins(a.msgs, a.next, b)
  BY SaneFields DEF Later, Follows
<1>3. Len(a.msgs) <= Len(b.msgs)
  BY NoFewer
<1>4. ASSUME NEW j \in 1..n PROVE list[j].uid \in {0, b.msgs[j]}
  <2>1. j \in 1..Len(b.msgs) /\ j <= Len(a.msgs) /\ j \in 1..Len(a.msgs)
    BY <1>1, <1>3
  <2>2. a.msgs[j] \in {0, b.msgs[j]} /\ a.msgs[j] # 0
    BY <1>1, <2>1, SaneFields DEF Begins
  <2> QED
    BY <2>2 DEF FitsTo
<1> QED
  BY <1>3, <1>4 DEF FitsTo

\* What is on disk is not touched by a handler that turns the list of m into that of w
\* while the mailbox goes from a to b.
LEMMA OnDiskMoved ==
    ASSUME NEW m \in Mailbox, NEW w \in Mailbox, NEW val \in Nat, NEW a, NEW b,
           Sane(a), Sane(b), Later(a, b), SameDisk(m, w), OnDisk(m, val, a),
           w.st # "NONE" => m.st # "NONE",
           KnownBelow(m.list, a.next) => KnownBelow(w.list, b.next),
           ASSUME w.st # "NONE", Surplus(a.msgs, a.next, b) = 0, Len(m.list) <= Len(a.msgs),
                  FitsTo(m.list, Len(m.list), a)
           PROVE  /\ Len(m.list) <= Len(w.list) /\ Len(w.list) <= Len(b.msgs)
                  /\ FitsTo(w.list, Len(w.list), b)
    PROVE  OnDisk(w, val, b)
<1> DEFINE next == m.disk.sync.uidNext
           uids == m.disk.uids
<1>1. w.disk.sync = m.disk.sync /\ w.disk.uids = m.disk.uids
  BY DEF SameDisk
<1>2. m.disk.sync.uidVal <= val
  BY DEF OnDisk
<1>3. next \in Nat /\ uids \in Seq(0..MaxUid) /\ Len(uids) \in Nat
      /\ Len(m.list) \in Nat /\ Len(w.list) \in Nat
  BY MailboxFields DEF SyncState
<1>4. ASSUME m.disk.sync.uidVal = val
      PROVE  /\ Len(uids) = m.disk.sync.exists
             /\ Follows(uids, next, b)
             /\ \A j \in 1..Len(uids) : uids[j] < next
             /\ KnownBelow(w.list, b.next)
             /\ w.st # "NONE" /\ Surplus(uids, next, b) = 0 =>
                   /\ Len(uids) <= Len(w.list) /\ Len(w.list) <= Len(b.msgs)
                   /\ FitsTo(w.list, Len(w.list), b)
  <2>1. /\ Len(uids) = m.disk.sync.exists
        /\ Follows(uids, next, a)
        /\ \A j \in 1..Len(uids) : uids[j] < next
        /\ KnownBelow(m.list, a.next)
        /\ m.st # "NONE" /\ Surplus(uids, next, a) = 0 =>
              /\ Len(uids) <= Len(m.list) /\ Len(m.list) <= Len(a.msgs)
              /\ FitsTo(m.list, Len(m.list), a)
    BY <1>4 DEF OnDisk
  <2>2. Follows(a.msgs, a.next, b)
    BY DEF Later
  <2> HIDE DEF next, uids
  <2>3. /\ Follows(uids, next, b)
        /\ Surplus(uids, next, b) = 0 => /\ Surplus(uids, next, a) = 0
                                         /\ Surplus(a.msgs, a.next, b) = 0
    BY <1>3, <2>1, <2>2, FollowsTrans
  <2>4. ASSUME w.st # "NONE", Surplus(uids, next, b) = 0
        PROVE  /\ Len(uids) <= Len(w.list) /\ Len(w.list) <= Len(b.msgs)
               /\ FitsTo(w.list, Len(w.list), b)
    <3>1. /\ Len(uids) <= Len(m.list) /\ Len(m.list) <= Len(a.msgs)
          /\ FitsTo(m.list, Len(m.list), a) /\ Surplus(a.msgs, a.next, b) = 0
      BY <2>1, <2>3, <2>4
    <3>2. /\ Len(m.list) <= Len(w.list) /\ Len(w.list) <= Len(b.msgs)
          /\ FitsTo(w.list, Len(w.list), b)
      BY <2>4, <3>1
    <3> QED
      BY <1>3, <3>1, <3>2
  <2> QED
    BY <2>1, <2>3, <2>4
<1> QED
  BY <1>1, <1>2, <1>4 DEF OnDisk

\* ... in particular when the list stays.
LEMMA OnDiskSame ==
    ASSUME NEW m \in Mailbox, NEW w \in Mailbox, NEW val \in Nat, NEW a, NEW b,
           Sane(a), Sane(b), Later(a, b), SameDisk(m, w), OnDisk(m, val, a),
           w.list = m.list, w.st # "NONE" => m.st # "NONE"
    PROVE  OnDisk(w, val, b)
<1>1. m.list \in Seq(Message) /\ Len(m.list) \in Nat /\ a.next \in Nat /\ b.next \in Nat
      /\ a.next <= b.next /\ Len(a.msgs) \in Nat /\ Len(b.msgs) \in Nat
  BY MailboxFields, SaneFields DEF Later, Follows
<1>2. KnownBelow(m.list, a.next) => KnownBelow(w.list, b.next)
  BY <1>1, KnownBelowMore
<1>3. ASSUME w.st # "NONE", Surplus(a.msgs, a.next, b) = 0, Len(m.list) <= Len(a.msgs),
             FitsTo(m.list, Len(m.list), a)
      PROVE  /\ Len(m.list) <= Len(w.list) /\ Len(w.list) <= Len(b.msgs)
             /\ FitsTo(w.list, Len(w.list), b)
  BY <1>1, <1>3, FitsLater
<1> QED
  BY <1>2, <1>3, OnDiskMoved

\* A list that reflects the mailbox satisfies what is asked on account of the disk.
LEMMA OnDiskReflected ==
    ASSUME NEW m \in Mailbox, NEW w \in Mailbox, NEW val \in Nat, NEW a, NEW b,
           Sane(a), Sane(b), Later(a, b), SameDisk(m, w), OnDisk(m, val, a),
           Reflects(w.list, b), w.st # "NONE" => m.st # "NONE"
    PROVE  OnDisk(w, val, b)
<1>1. w.list \in Seq(Message) /\ Len(m.list) \in Nat /\ a.next \in Nat /\ b.next \in Nat
      /\ a.next <= b.next /\ Len(a.msgs) \in Nat /\ Len(b.msgs) \in Nat
  BY MailboxFields, SaneFields DEF Later, Follows
<1>2. KnownBelow(w.list, b.next) /\ Len(w.list) = Len(b.msgs) /\ FitsTo(w.list, Len(w.list), b)
  BY <1>1, FitsBelow DEF Reflects
<1>3. ASSUME Surplus(a.msgs, a.next, b) = 0, Len(m.list) <= Len(a.msgs)
      PROVE  Len(m.list) <= Len(w.list)
  <2>1. Len(a.msgs) <= Len(b.msgs)
    BY <1>3, NoFewer
  <2> QED
    BY <1>1, <1>2, <1>3, <2>1
<1>4. ASSUME w.st # "NONE", Surplus(a.msgs, a.next, b) = 0, Len(m.list) <= Len(a.msgs),
             FitsTo(m.list, Len(m.list), a)
      PROVE  /\ Len(m.list) <= Len(w.list) /\ Len(w.list) <= Len(b.msgs)
             /\ FitsTo(w.list, Len(w.list), b)
  BY <1>1, <1>2, <1>3, <1>4
<1> QED
  BY <1>2, <1>4, OnDiskMoved

\* What has just been saved is the mailbox.
LEMMA OnDiskSaved ==
    ASSUME NEW m \in Mailbox, NEW val \in Nat, NEW h, Sane(h), IsSaved(m), Synced(m, val, h),
           m.sync.exists = Len(m.list)
    PROVE  OnDisk(m, val, h)
<1> DEFINE next == m.disk.sync.uidNext
           uids == m.disk.uids
           n == Len(m.list)
<1>1. m.list \in Seq(Message) /\ n \in Nat /\ h.next \in Nat /\ Len(h.msgs) \in Nat
  BY MailboxFields, SaneFields
<1>2. /\ m.disk.sync = m.sync /\ uids = Uids(m.list) /\ next = m.sync.uidNext
      /\ next \in 1..h.next /\ m.sync.uidVal = val /\ n = Len(h.msgs)
      /\ FitsTo(m.list, n, h) /\ KnownBelow(m.list, next)
  BY DEF IsSaved, Synced, Reflects
<1>3. /\ Len(uids) = n /\ \A j \in 1..n : uids[j] = m.list[j].uid
  BY <1>1, <1>2, UidsType DEF Uids
<1> HIDE DEF next, uids, n
<1>4. Surplus(uids, next, h) = (Len(h.msgs) - n) - (h.next - next)
  BY <1>3 DEF Surplus
<1>5. next <= h.next /\ Surplus(uids, next, h) <= 0
  BY <1>1, <1>2, <1>4
<1>6. ASSUME Surplus(uids, next, h) = 0
      PROVE  Begins(uids, next, h)
  <2>1. next = h.next
    BY <1>1, <1>2, <1>4, <1>6
  <2> SUFFICES ASSUME NEW j \in 1..Len(h.msgs)
               PROVE  /\ j <= Len(uids) /\ uids[j] \in {0, h.msgs[j]} /\ h.msgs[j] < next
    BY DEF Begins
  <2>2. j \in 1..n /\ j <= n
    BY <1>1, <1>2
  <2> QED
    BY <1>2, <1>3, <2>1, <2>2, SaneFields DEF FitsTo
<1>7. \A j \in 1..Len(uids) : uids[j] < next
  BY <1>2, <1>3 DEF KnownBelow, n
<1>8. KnownBelow(m.list, h.next)
  BY <1>1, <1>2, <1>5, KnownBelowMore
<1>9. Follows(uids, next, h)
  BY <1>5, <1>6 DEF Follows
<1> QED
  BY <1>1, <1>2, <1>3, <1>7, <1>8, <1>9 DEF OnDisk, next, uids, n

----------------------------------------------------------------------------
(* Lists and the server's mailbox. *)

\* An EXPUNGE takes the same message out of both.
LEMMA FitsExpunged ==
    ASSUME NEW list \in Seq(Message), NEW a, NEW b, Sane(a), Sane(b), NEW n \in 1..Len(a.msgs),
           b.msgs = RemoveAt(a.msgs, n), n \in 1..Len(list),
           NEW k \in Nat, n <= k, k <= Len(list), k <= Len(a.msgs), FitsTo(list, k, a)
    PROVE  FitsTo(RemoveAt(list, n), k - 1, b)
<1>1. /\ a.msgs \in Seq(Uid) /\ Len(a.msgs) \in Nat /\ Len(list) \in Nat
  BY SaneFields, LenProperties
<1>2. /\ \A j \in 1..(Len(a.msgs) - 1) : b.msgs[j] = IF j < n THEN a.msgs[j] ELSE a.msgs[j + 1]
      /\ \A j \in 1..(Len(list) - 1) : RemoveAt(list, n)[j] = IF j < n THEN list[j] ELSE list[j + 1]
  BY <1>1, RemoveAtElements
<1> SUFFICES ASSUME NEW j \in 1..(k - 1) PROVE RemoveAt(list, n)[j].uid \in {0, b.msgs[j]}
  BY DEF FitsTo
<1> DEFINE x == IF j < n THEN j ELSE j + 1
<1>3. j \in 1..(Len(a.msgs) - 1) /\ j \in 1..(Len(list) - 1) /\ x \in 1..k
  BY <1>1
<1>4. b.msgs[j] = a.msgs[x] /\ RemoveAt(list, n)[j] = list[x]
  BY <1>2, <1>3
<1> HIDE DEF x
<1>5. list[x].uid \in {0, a.msgs[x]}
  BY <1>3 DEF FitsTo
<1> QED
  BY <1>4, <1>5

\* ... or, after the part that is known, only the server's.
LEMMA FitsBefore ==
    ASSUME NEW list \in Seq(Message), NEW a, NEW b, Sane(a), Sane(b), NEW n \in 1..Len(a.msgs),
           b.msgs = RemoveAt(a.msgs, n), NEW k \in Nat, k < n, FitsTo(list, k, a)
    PROVE  FitsTo(list, k, b)
<1>1. /\ a.msgs \in Seq(Uid) /\ Len(a.msgs) \in Nat /\ n \in Nat
  BY SaneFields
<1>2. \A j \in 1..(Len(a.msgs) - 1) : b.msgs[j] = IF j < n THEN a.msgs[j] ELSE a.msgs[j + 1]
  BY <1>1, RemoveAtElements
<1> SUFFICES ASSUME NEW j \in 1..k PROVE list[j].uid \in {0, b.msgs[j]}
  BY DEF FitsTo
<1>3. j \in 1..(Len(a.msgs) - 1) /\ j < n
  BY <1>1
<1> QED
  BY <1>2, <1>3 DEF FitsTo

\* Without one message the UIDs are still below the bound.
LEMMA BelowExpunged ==
    ASSUME NEW list \in Seq(Message), NEW n \in 1..Len(list), NEW k, KnownBelow(list, k)
    PROVE  KnownBelow(RemoveAt(list, n), k)
<1>1. Len(list) \in Nat /\ n \in Nat
  BY LenProperties
<1>2. /\ Len(RemoveAt(list, n)) = Len(list) - 1
      /\ \A j \in 1..(Len(list) - 1) : RemoveAt(list, n)[j] = IF j < n THEN list[j] ELSE list[j + 1]
  BY RemoveAtElements
<1> SUFFICES ASSUME NEW j \in 1..(Len(list) - 1) PROVE RemoveAt(list, n)[j].uid < k
  BY <1>2 DEF KnownBelow
<1> DEFINE x == IF j < n THEN j ELSE j + 1
<1>3. x \in 1..Len(list) /\ RemoveAt(list, n)[j] = list[x]
  BY <1>1, <1>2
<1> HIDE DEF x
<1> QED
  BY <1>3 DEF KnownBelow

\* The message that divides the mailbox moves by one when one before it is expunged.
LEMMA SplitsExpunged ==
    ASSUME NEW a, NEW b, Sane(a), Sane(b), NEW n \in 1..Len(a.msgs),
           b.msgs = RemoveAt(a.msgs, n), NEW first \in Nat, NEW f \in Nat, Splits(a, first, f)
    PROVE  Splits(b, first, IF n <= f THEN f - 1 ELSE f)
<1>1. /\ a.msgs \in Seq(Uid) /\ Len(a.msgs) \in Nat /\ n \in Nat
  BY SaneFields
<1>2. /\ Len(b.msgs) = Len(a.msgs) - 1
      /\ \A j \in 1..(Len(a.msgs) - 1) : b.msgs[j] = IF j < n THEN a.msgs[j] ELSE a.msgs[j + 1]
  BY <1>1, RemoveAtElements
<1> DEFINE g == IF n <= f THEN f - 1 ELSE f
<1> SUFFICES ASSUME NEW j \in 1..Len(b.msgs) PROVE b.msgs[j] >= first <=> j > g
  BY DEF Splits
<1> DEFINE x == IF j < n THEN j ELSE j + 1
<1>3. x \in 1..Len(a.msgs) /\ b.msgs[j] = a.msgs[x] /\ (x > f <=> j > g)
  BY <1>1, <1>2
<1>4. a.msgs[x] >= first <=> x > f
  BY <1>3 DEF Splits
<1> QED
  BY <1>3, <1>4

\* An arrival comes after it.
LEMMA SplitsGrown ==
    ASSUME NEW a, NEW b, Sane(a), Sane(b), Grown(a, b), NEW first \in Nat, first <= a.next,
           NEW f \in Nat, f <= Len(a.msgs), Splits(a, first, f)
    PROVE  Splits(b, first, f)
<1>1. /\ a.msgs \in Seq(Uid) /\ Len(a.msgs) \in Nat /\ a.next \in Nat
      /\ b.msgs = Append(a.msgs, a.next) /\ a.next \in Uid
  <2>1. b.next \in 1..(MaxUid + 1) /\ b.next = a.next + 1 /\ b.msgs = Append(a.msgs, a.next)
    BY SaneFields DEF Grown
  <2>2. a.next \in Nat /\ a.next >= 1 /\ a.msgs \in Seq(Uid) /\ Len(a.msgs) \in Nat
    BY SaneFields
  <2> QED
    BY <2>1, <2>2, MaxUidAssumption DEF Uid
<1>2. /\ Len(b.msgs) = Len(a.msgs) + 1 /\ b.msgs[Len(a.msgs) + 1] = a.next
      /\ \A j \in 1..Len(a.msgs) : b.msgs[j] = a.msgs[j]
  BY <1>1, AppendElements
<1> SUFFICES ASSUME NEW j \in 1..Len(b.msgs) PROVE b.msgs[j] >= first <=> j > f
  BY DEF Splits
<1>3. CASE j \in 1..Len(a.msgs)
  BY <1>2, <1>3 DEF Splits
<1>4. CASE j = Len(a.msgs) + 1
  BY <1>1, <1>2, <1>4
<1> QED
  BY <1>1, <1>2, <1>3, <1>4

\* An arrival leaves the UIDs of the others.
LEMMA GrownKeeps ==
    ASSUME NEW a, NEW b, Sane(a), Sane(b), Grown(a, b)
    PROVE  /\ Len(b.msgs) = Len(a.msgs) + 1 /\ b.next = a.next + 1
           /\ \A j \in 1..Len(a.msgs) : b.msgs[j] = a.msgs[j]
<1>1. b.next \in 1..(MaxUid + 1) /\ b.next = a.next + 1 /\ b.msgs = Append(a.msgs, a.next)
  BY SaneFields DEF Grown
<1>2. a.next \in Nat /\ a.next >= 1 /\ a.msgs \in Seq(Uid) /\ Len(a.msgs) \in Nat
  BY SaneFields
<1>3. a.next \in Uid
  BY <1>1, <1>2, MaxUidAssumption DEF Uid
<1> QED
  BY <1>1, <1>2, <1>3, AppendElements

----------------------------------------------------------------------------
(* What is under way, and the server's steps. *)

\* Every state of the mailbox is one.
LEMMA SaneServer ==
    ASSUME TypeOK, NEW hs, FollowsServer(hs)
    PROVE  /\ net \in Seq(Response) /\ hs \in Seq(Server) /\ Len(net) \in Nat
           /\ Len(hs) = Len(net) + 1 /\ History(hs, net, srv)
           /\ Sane(srv) /\ Sane(hs[1]) /\ Later(hs[1], srv) /\ hs[1].val = srv.val
           /\ net = <<>> => hs[1] = srv
           /\ mb \in Mailbox /\ srv.val \in Nat
<1>1. net \in Seq(Response) /\ History(hs, net, srv) /\ mb \in Mailbox
  BY DEF FollowsServer, TypeOK
<1>2. /\ hs \in Seq(Server) /\ Len(net) \in Nat
      /\ Len(hs) = Len(net) + 1
      /\ Sane(srv) /\ Sane(hs[1]) /\ Later(hs[1], srv) /\ hs[1].val = srv.val
      /\ net = <<>> => hs[1] = srv
  BY <1>1, HistoryEnds
<1>3. srv.val \in Nat
  BY <1>2, SaneFields
<1> QED
  BY <1>1, <1>2, <1>3

\* The invariant holds when there is a history for the new state.
LEMMA Concluded ==
    ASSUME NEW hs, NEW h, History(h, net', srv'), Stream(h)', Client(mb', task', srv'.val, h[1]),
           mb'.st = "NONE" => ~up', Continues(hs, h)
    PROVE  Onwards(hs)
<1>1. h \in Seq(Server)
  BY DEF History
<1>2. FollowsServer(h)'
  BY DEF FollowsServer
<1> QED
  BY <1>1, <1>2 DEF Onwards

\* No SELECT is under way when no task waits for it.
LEMMA NoSelect ==
    ASSUME TypeOK, NEW hs, Stream(hs), task.status # "SELECTING"
    PROVE  /\ \A i \in 1..Len(net) : net[i].t # "CODES" /\ ~IsSelect(net[i])
           /\ \A i \in 1..Len(cmds) : cmds[i].t # "SELECT"
           /\ ~SelectAnswered
<1>1. /\ \A i \in 1..Len(net) : ~IsSelect(net[i])
      /\ \A i \in 1..Len(cmds) : cmds[i].t # "SELECT"
  BY DEF Stream, SelectIsLast
<1>2. ~SelectAnswered
  <2> SUFFICES ASSUME cmds # <<>>, Head(cmds).t = "SELECT" PROVE FALSE
    BY DEF SelectAnswered
  <2>1. cmds \in Seq(Commands)
    BY DEF TypeOK
  <2>2. Head(cmds) = cmds[1] /\ 1 \in 1..Len(cmds)
    BY <2>1, TailElements
  <2> QED
    BY <1>1, <2>2
<1>3. ASSUME NEW i \in 1..Len(net), net[i].t = "CODES" PROVE FALSE
  <2>1. Len(net) \in Nat
    BY LenProperties DEF TypeOK
  <2>2. i < Len(net) => IsSelect(net[i + 1])
    BY <1>3 DEF Stream, CodesInOrder
  <2>3. ~(i < Len(net)) => SelectAnswered
    BY <1>3 DEF Stream, CodesInOrder
  <2>4. i < Len(net) => i + 1 \in 1..Len(net)
    BY <2>1
  <2> QED
    BY <1>1, <1>2, <2>2, <2>3, <2>4
<1> QED
  BY <1>1, <1>2, <1>3

\* The server has selected the mailbox while anything is under way to the client.
LEMMA Underway ==
    ASSUME TypeOK, NEW hs, Stream(hs), net # <<>>
    PROVE  up /\ selected
BY DEF Stream, Connected, TypeOK

\* Nothing is under way on no connection.
LEMMA StreamOff ==
    ASSUME NEW h, ~up', ~selected', cmds' = <<>>, ~answered', net' = <<>>, task'.status = "OFF"
    PROVE  Stream(h)'
<1>1. Len(net') = 0 /\ Len(cmds') = 0
  OBVIOUS
<1>2. \A i \in 1..Len(net') : FALSE
  BY <1>1
<1>3. \A i \in 1..Len(cmds') : FALSE
  BY <1>1
<1>4. CodesInOrder(h)' /\ SelectInOrder(h)'
  BY <1>2 DEF CodesInOrder, SelectInOrder, SelectAnswered
<1>5. SelectIsLast' /\ ArgsPlain'
  BY <1>2, <1>3 DEF SelectIsLast, ArgsPlain
<1>6. TagsFit' /\ SearchFits(h)' /\ Connected'
  BY <1>2, <1>3 DEF TagsFit, SearchFits, Connected
<1> QED
  BY <1>4, <1>5, <1>6 DEF Stream

\* A change of the mailbox that the server announces.
LEMMA Announced ==
    ASSUME Plain, TypeOK, NEW hs, FollowsServer(hs), selected, MayChange,
           NEW r \in Response, Announcement(r), net' = Append(net, r),
           Sane(srv'), Later(srv, srv'), Tells(r, srv, srv'),
           UNCHANGED <<selected, cmds, answered, up, task, mb, threw, selects>>
    PROVE  Onwards(hs)
<1>1. /\ net \in Seq(Response) /\ hs \in Seq(Server) /\ Len(net) \in Nat
      /\ Len(hs) = Len(net) + 1 /\ History(hs, net, srv) /\ srv'.val = srv.val
  BY SaneServer DEF Later
<1>2. PICK h : h = Append(hs, srv')
  OBVIOUS
<1>3. History(h, net', srv') /\ \A i \in 1..Len(hs) : h[i] = hs[i]
  BY <1>1, <1>2, HistoryAppend
<1>4. h[1] = hs[1]
  BY <1>1, <1>3
<1>5. /\ Len(net') = Len(net) + 1 /\ net'[Len(net) + 1] = r
      /\ \A i \in 1..Len(net) : net'[i] = net[i]
  BY <1>1, AppendElements
<1>6. /\ selected' = selected /\ cmds' = cmds /\ answered' = answered /\ up' = up
      /\ task' = task /\ mb' = mb /\ selects' = selects
  OBVIOUS
<1>7. ~SelectAnswered
  BY DEF Plain, MayChange, SelectAnswered
<1>8. r.t \notin {"CODES", "OK", "NO", "SEARCH"} /\ ~IsSelect(r)
  BY DEF Announcement, IsSelect
<1>8a. ~SelectAnswered'
  BY <1>6, <1>7 DEF SelectAnswered
<1>8b. Stream(hs)
  BY DEF FollowsServer
<1>9. CodesInOrder(h)'
  <2> SUFFICES ASSUME NEW i \in 1..Len(net'), net'[i].t = "CODES"
               PROVE  /\ IF i > 1 THEN net'[i - 1].t = "EXISTS"
                         ELSE mb'.sync.exists = Len(h[1].msgs)
                      /\ IF i < Len(net') THEN IsSelect(net'[i + 1]) ELSE SelectAnswered'
    BY DEF CodesInOrder, IsSelect
  <2>1. i \in 1..Len(net) /\ net[i].t = "CODES"
    BY <1>1, <1>5, <1>8
  <2>2. /\ IF i > 1 THEN net[i - 1].t = "EXISTS" ELSE mb.sync.exists = Len(hs[1].msgs)
        /\ IF i < Len(net) THEN IsSelect(net[i + 1]) ELSE SelectAnswered
    BY <1>8b, <2>1 DEF Stream, CodesInOrder
  <2>3. i < Len(net) /\ IsSelect(net[i + 1])
    BY <1>7, <2>2
  <2>4. i + 1 \in 1..Len(net) /\ i < Len(net')
    BY <1>1, <1>5, <2>3
  <2>5. i > 1 => i - 1 \in 1..Len(net)
    BY <1>1, <2>1
  <2> QED
    BY <1>4, <1>5, <1>6, <2>2, <2>3, <2>4, <2>5
<1>10. SelectInOrder(h)'
  <2> SUFFICES ASSUME NEW i \in 1..Len(net'), IsSelect(net'[i])
               PROVE  IF i > 1 THEN net'[i - 1].t = "CODES" ELSE SyncIs(mb', h[1])
    BY <1>8a DEF SelectInOrder, IsSelect, SyncIs
  <2>1. i \in 1..Len(net) /\ IsSelect(net[i])
    BY <1>1, <1>5, <1>8
  <2>2. IF i > 1 THEN net[i - 1].t = "CODES" ELSE SyncIs(mb, hs[1])
    BY <1>8b, <2>1 DEF Stream, SelectInOrder
  <2>3. i > 1 => i - 1 \in 1..Len(net)
    BY <1>1, <2>1
  <2> QED
    BY <1>4, <1>5, <1>6, <2>2, <2>3
<1>11. SelectIsLast'
  <2>1. ASSUME NEW i \in 1..Len(net'), IsSelect(net'[i])
        PROVE  /\ net'[i].t = "OK" /\ task'.status = "SELECTING" /\ cmds' = <<>>
               /\ \A k \in 1..Len(net') : k > i => Announcement(net'[k])
    <3>1. i \in 1..Len(net) /\ IsSelect(net[i]) /\ net'[i] = net[i]
      BY <1>1, <1>5, <1>8, <2>1
    <3>2. /\ net[i].t = "OK" /\ task.status = "SELECTING" /\ cmds = <<>>
          /\ \A k \in 1..Len(net) : k > i => Announcement(net[k])
      BY <1>8b, <3>1 DEF Stream, SelectIsLast
    <3>3. ASSUME NEW k \in 1..Len(net'), k > i PROVE Announcement(net'[k])
      <4>1. k \in 1..Len(net) \/ k = Len(net) + 1
        BY <1>1, <1>5
      <4> QED
        BY <1>5, <3>2, <3>3, <4>1
    <3> QED
      BY <1>6, <3>1, <3>2, <3>3
  <2>2. \A i \in 1..Len(cmds') : cmds'[i].t = "SELECT" =>
           i = Len(cmds') /\ task'.status = "SELECTING"
    BY <1>6, <1>8b DEF Stream, SelectIsLast
  <2> QED
    BY <2>1, <2>2 DEF SelectIsLast, IsSelect, Announcement
<1>12. ArgsPlain'
  BY <1>6, <1>8b DEF Stream, ArgsPlain
<1>13. TagsFit'
  <2>1. ASSUME NEW i \in 1..Len(net'), net'[i].t \in {"OK", "NO"}
        PROVE  /\ net'[i].tag <= selects'
               /\ task'.status = "SELECTING" => IsSelect(net'[i]) \/ net'[i].tag < selects'
    <3>1. i \in 1..Len(net) /\ net'[i] = net[i]
      BY <1>1, <1>5, <1>8, <2>1
    <3> QED
      BY <1>6, <1>8b, <2>1, <3>1 DEF Stream, TagsFit
  <2>2. \A i \in 1..Len(cmds') :
          /\ cmds'[i].tag <= selects'
          /\ task'.status = "SELECTING" => cmds'[i].t = "SELECT" \/ cmds'[i].tag < selects'
    BY <1>6, <1>8b DEF Stream, TagsFit
  <2> QED
    BY <2>1, <2>2 DEF TagsFit, IsSelect
<1>14. Connected'
  BY <1>6, <1>8b DEF Stream, Connected
<1>15. SearchFits(h)'
  <2> SUFFICES ASSUME task'.status = "SYNCING_UIDS"
               PROVE  /\ \A i \in 1..Len(cmds') :
                            cmds'[i].t = "SEARCH" => cmds'[i].arg = SearchArg(task')
                      /\ \A i \in 1..Len(net') : net'[i].t = "SEARCH" =>
                            Finds(net'[i].uids, h[i], SearchArg(task'))
    BY DEF SearchFits, Finds, SearchArg, Splits
  <2>1. /\ \A i \in 1..Len(cmds) : cmds[i].t = "SEARCH" => cmds[i].arg = SearchArg(task)
        /\ \A i \in 1..Len(net) : net[i].t = "SEARCH" => Finds(net[i].uids, hs[i], SearchArg(task))
    BY <1>6, <1>8b DEF Stream, SearchFits
  <2>2. ASSUME NEW i \in 1..Len(net'), net'[i].t = "SEARCH"
        PROVE  Finds(net'[i].uids, h[i], SearchArg(task'))
    <3>1. i \in 1..Len(net) /\ net'[i] = net[i] /\ h[i] = hs[i]
      BY <1>1, <1>3, <1>5, <1>8, <2>2
    <3> QED
      BY <1>6, <2>1, <2>2, <3>1
  <2> QED
    BY <1>6, <2>1, <2>2
<1>16. Stream(h)'
  BY <1>9, <1>10, <1>11, <1>12, <1>13, <1>14, <1>15 DEF Stream
<1>17. Client(mb', task', srv'.val, h[1]) /\ (mb'.st = "NONE" => ~up')
  BY <1>1, <1>4, <1>6 DEF FollowsServer
<1>18. Continues(hs, h)
  <2>1. Len(h) = Len(hs) + 1 /\ h[Len(hs) + 1] = srv' /\ Len(hs) \in Nat
    BY <1>1, <1>2, <1>3, <1>5 DEF History
  <2> QED
    BY <1>3, <2>1 DEF Continues
<1> QED
  BY <1>3, <1>16, <1>17, <1>18, Concluded

\* A change of the mailbox while it is not selected: nobody has it open.
LEMMA Unannounced ==
    ASSUME Plain, TypeOK, NEW hs, FollowsServer(hs), ~selected, MayChange,
           Sane(srv'), srv'.val # srv.val => srv'.val = 2 /\ srv.val = 1,
           srv'.val = srv.val => Later(srv, srv'), net' = net,
           UNCHANGED <<selected, cmds, answered, up, task, mb, threw, selects>>
    PROVE  Onwards(hs)
<1>1. /\ mb \in Mailbox /\ Sane(srv) /\ Sane(hs[1]) /\ Later(hs[1], srv) /\ hs[1].val = srv.val
      /\ net = <<>> => hs[1] = srv
  BY SaneServer
<1>2. /\ selected' = selected /\ cmds' = cmds /\ answered' = answered /\ up' = up
      /\ task' = task /\ mb' = mb
  OBVIOUS
<1>3. Connected
  BY DEF FollowsServer, Stream
<1>4. ~up
  BY <1>3 DEF Plain, MayChange, Connected
<1>5. task.status = "OFF" /\ net = <<>> /\ cmds = <<>> /\ ~answered
  BY <1>3, <1>4 DEF Connected
<1>6. PICK h : h = <<srv'>>
  OBVIOUS
<1>7. History(h, net', srv') /\ h[1] = srv'
  <2>1. History(<<srv'>>, <<>>, srv')
    BY HistoryNow
  <2>2. net' = <<>>
    BY <1>5
  <2>3. <<srv'>>[1] = srv'
    OBVIOUS
  <2>4. h[1] = srv'
    BY <1>6, <2>3, Zenon
  <2>5. History(h, net', srv')
    BY <1>6, <2>1, <2>2, Zenon
  <2> QED
    BY <2>4, <2>5
<1>8. Stream(h)'
  BY <1>2, <1>4, <1>5, StreamOff
<1>9. Client(mb, task, srv.val, srv)
  BY <1>1, <1>5 DEF FollowsServer
<1>10. OnDisk(mb, srv'.val, srv')
  <2>1. OnDisk(mb, srv.val, srv) /\ mb.disk.sync.uidVal <= srv.val
    BY <1>9 DEF Client, OnDisk
  <2>2. CASE srv'.val = srv.val
    <3>1. Later(srv, srv') /\ SameDisk(mb, mb) /\ srv.val \in Nat
      BY <1>1, <2>2, SaneFields DEF SameDisk
    <3>2. OnDisk(mb, srv.val, srv')
      BY <1>1, <2>1, <3>1, OnDiskSame
    <3> QED
      BY <2>2, <3>2
  <2>3. CASE srv'.val # srv.val
    <3>1. mb.disk.sync.uidVal \in Nat
      BY <1>1, MailboxFields DEF SyncState
    <3>2. mb.disk.sync.uidVal <= 1 /\ srv'.val = 2
      BY <2>1, <2>3
    <3>3. mb.disk.sync.uidVal <= srv'.val /\ mb.disk.sync.uidVal # srv'.val
      BY <3>1, <3>2
    <3> QED
      BY <3>3 DEF OnDisk
  <2> QED
    BY <2>2, <2>3
<1>11. Client(mb', task', srv'.val, h[1])
  <2>1. ~task.qresync /\ (mb.st = "NONE" => mb.list = <<>>)
    BY <1>9 DEF Client
  <2> QED
    BY <1>2, <1>5, <1>7, <1>10, <2>1 DEF Client, UidsAreKnown
<1>12. Continues(hs, h)
  BY <1>2, <1>4 DEF Continues
<1> QED
  BY <1>2, <1>4, <1>7, <1>8, <1>11, <1>12, Concluded

\* A delivery.
LEMMA ArriveKeepsUp ==
    ASSUME Plain, TypeOK, TypeOK', NEW hs, FollowsServer(hs), Arrive
    PROVE  Onwards(hs)
<1>1. Sane(srv) /\ srv \in Server /\ srv' \in Server
  BY SaneServer DEF TypeOK
<1>2. /\ srv'.msgs = Append(srv.msgs, srv.next) /\ srv'.next = srv.next + 1
      /\ srv'.val = srv.val
      /\ srv'.flag = [srv.flag EXCEPT ![srv.next] = srv.hms + 1]
  BY <1>1 DEF Arrive, Server
<1>3. Sane(srv') /\ Later(srv, srv')
  BY <1>1, <1>2, LaterGrown
<1>4. Grown(srv, srv')
  <2>1. srv.flag \in [Uid -> Nat]
    BY <1>1 DEF Server
  <2>2. OthersKeepFlags(srv, srv', srv.next)
    BY <1>2, <2>1 DEF OthersKeepFlags
  <2> QED
    BY <1>2, <2>2 DEF Grown
<1>5. /\ MayChange
      /\ UNCHANGED <<selected, cmds, answered, up, task, mb, threw, selects>>
      /\ Announce(Exists(Len(srv.msgs) + 1))
  BY DEF Arrive
<1>6. CASE selected
  <2> DEFINE r == Exists(Len(srv.msgs) + 1)
  <2>1. r \in Response /\ Announcement(r)
    BY ServerFields DEF Exists, Response, Announcement
  <2>2. Tells(r, srv, srv')
    <3>1. r.t = "EXISTS" /\ r.n = Len(srv.msgs) + 1
      BY DEF Exists
    <3>2. Len(srv'.msgs) = Len(srv.msgs) + 1
      BY <1>1, <1>3, <1>4, GrownKeeps
    <3> QED
      BY <1>4, <3>1, <3>2 DEF Tells
  <2>3. net' = Append(net, r)
    BY <1>5, <1>6 DEF Announce
  <2> HIDE DEF r
  <2> QED
    BY <1>3, <1>5, <1>6, <2>1, <2>2, <2>3, Announced
<1>7. CASE ~selected
  <2>1. net' = net
    BY <1>5, <1>7 DEF Announce
  <2> QED
    BY <1>2, <1>3, <1>5, <1>7, <2>1, Unannounced
<1> QED
  BY <1>6, <1>7

\* An expunge.
LEMMA ServerExpungeKeepsUp ==
    ASSUME Plain, TypeOK, TypeOK', NEW hs, FollowsServer(hs),
           NEW i \in 1..Len(srv.msgs), ServerExpunge(i)
    PROVE  Onwards(hs)
<1>0. ~Qresync
  BY ExtensionsAssumption DEF Plain
<1>1. Sane(srv) /\ srv \in Server /\ srv' \in Server
  BY SaneServer DEF TypeOK
<1>2. /\ srv'.msgs = RemoveAt(srv.msgs, i) /\ srv'.next = srv.next
      /\ srv'.val = srv.val /\ srv'.flag = srv.flag
  BY <1>1 DEF ServerExpunge, Server
<1>3. Sane(srv') /\ Later(srv, srv')
  BY <1>1, <1>2, LaterRemoved
<1>5. /\ MayChange
      /\ UNCHANGED <<selected, cmds, answered, up, task, mb, threw, selects>>
      /\ Announce([t |-> "EXPUNGE", n |-> i])
  BY <1>0 DEF ServerExpunge
<1>6. CASE selected
  <2> DEFINE r == [t |-> "EXPUNGE", n |-> i]
  <2>1. r.t = "EXPUNGE" /\ r.n = i
    OBVIOUS
  <2>2. r \in Response
    <3>1. r \in [t: {"EXPUNGE"}, n: Nat \ {0}]
      BY ServerFields
    <3> QED
      BY <3>1 DEF Response
  <2>3. net' = Append(net, r)
    BY <1>5, <1>6 DEF Announce
  <2> HIDE DEF r
  <2>4. Tells(r, srv, srv') /\ Announcement(r)
    BY <1>2, <2>1 DEF Tells, Announcement
  <2> QED
    BY <1>3, <1>5, <1>6, <2>2, <2>3, <2>4, Announced
<1>7. CASE ~selected
  <2>1. net' = net
    BY <1>5, <1>7 DEF Announce
  <2> QED
    BY <1>2, <1>3, <1>5, <1>7, <2>1, Unannounced
<1> QED
  BY <1>6, <1>7

\* A change of flags.
LEMMA ServerFlagKeepsUp ==
    ASSUME Plain, TypeOK, TypeOK', NEW hs, FollowsServer(hs),
           NEW i \in 1..Len(srv.msgs), ServerFlag(i)
    PROVE  Onwards(hs)
<1>0. ~Qresync /\ ~Condstore
  BY ExtensionsAssumption DEF Plain
<1>1. Sane(srv) /\ srv \in Server /\ srv' \in Server /\ srv.flag \in [Uid -> Nat]
  BY SaneServer, ServerFields DEF TypeOK
<1>1a. srv.msgs[i] \in Uid
  BY <1>1, SaneFields
<1>2. /\ srv'.msgs = srv.msgs /\ srv'.next = srv.next /\ srv'.val = srv.val
      /\ srv'.flag = [srv.flag EXCEPT ![srv.msgs[i]] = srv.hms + 1]
  BY <1>1 DEF ServerFlag, Server
<1>3. Sane(srv') /\ Later(srv, srv')
  BY <1>1, <1>2, LaterSame
<1>4. OthersKeepFlags(srv, srv', srv.msgs[i]) /\ srv'.flag[srv.msgs[i]] = srv.hms + 1
  BY <1>1, <1>1a, <1>2 DEF OthersKeepFlags
<1>5. /\ MayChange
      /\ UNCHANGED <<selected, cmds, answered, up, task, mb, threw, selects>>
      /\ Announce([t |-> "FETCH", n |-> i, uid |-> 0, fl |-> srv.hms + 1, mod |-> 0])
  BY <1>0 DEF ServerFlag
<1>6. CASE selected
  <2> DEFINE r == [t |-> "FETCH", n |-> i, uid |-> 0, fl |-> srv.hms + 1, mod |-> 0]
  <2>1. r.t = "FETCH" /\ r.n = i /\ r.uid = 0 /\ r.fl = srv.hms + 1 /\ r.mod = 0
    OBVIOUS
  <2>2. r \in Response
    <3>1. r \in [t: {"FETCH"}, n: Nat, uid: 0..MaxUid, fl: Nat, mod: Nat]
      BY ServerFields, MaxUidAssumption
    <3> QED
      BY <3>1 DEF Response
  <2>3. net' = Append(net, r)
    BY <1>5, <1>6 DEF Announce
  <2> HIDE DEF r
  <2>4. Tells(r, srv, srv') /\ Announcement(r)
    BY <1>2, <1>4, <2>1 DEF Tells, Announcement
  <2> QED
    BY <1>3, <1>5, <1>6, <2>2, <2>3, <2>4, Announced
<1>7. CASE ~selected
  <2>1. net' = net
    BY <1>5, <1>7 DEF Announce
  <2> QED
    BY <1>2, <1>3, <1>5, <1>7, <2>1, Unannounced
<1> QED
  BY <1>6, <1>7

\* The mailbox is deleted and created again.
LEMMA RecreateKeepsUp ==
    ASSUME Plain, TypeOK, TypeOK', NEW hs, FollowsServer(hs), Recreate
    PROVE  Onwards(hs)
<1>1. /\ MayChange /\ ~up /\ srv.val = 1 /\ net' = net
      /\ UNCHANGED <<selected, cmds, answered, up, task, mb, threw, selects>>
      /\ srv'.msgs = <<1>> /\ srv'.next = 2 /\ srv'.val = 2
  BY DEF Recreate
<1>2. Sane(srv')
  BY <1>1 DEF Sane, TypeOK
<1>3. ~selected
  BY <1>1 DEF FollowsServer, Stream, Connected
<1> QED
  BY <1>1, <1>2, <1>3, Unannounced

\* A function that lists n numbers of f + 1, ..., f + n in ascending order lists all of them.
LEMMA ListsAll ==
    ASSUME NEW n \in Nat, NEW f \in Nat, NEW o \in [1..n -> (f + 1)..(f + n)],
           \A i, j \in 1..n : i < j => o[i] < o[j]
    PROVE  \A k \in 1..n : o[k] = f + k
<1>1. \A k \in 1..n : o[k] \in Nat /\ o[k] >= f + 1 /\ o[k] <= f + n
  OBVIOUS
<1>2. \A k \in 1..n : o[k] >= f + k
  <2> SUFFICES ASSUME NEW x \in 1..n, ~(o[x] >= f + x) PROVE FALSE
    OBVIOUS
  <2> DEFINE T == {k \in 1..n : o[k] < f + k}
  <2>0. x \in T
    BY <1>1
  <2>0a. T # {}
    BY <2>0
  <2>1. T \in SUBSET (0..n)
    OBVIOUS
  <2>2. PICK k \in T : \A y \in T : k <= y
    BY <2>0a, <2>1, LeastElement
  <2>3. k \in 1..n /\ o[k] < f + k /\ o[k] >= f + 1
    BY <1>1, <2>2
  <2>4. k - 1 \in 1..n /\ k - 1 \notin T /\ k - 1 < k
    BY <1>1, <2>2, <2>3
  <2>5. o[k - 1] >= f + (k - 1) /\ o[k - 1] < o[k]
    BY <1>1, <2>3, <2>4
  <2> QED
    BY <1>1, <2>3, <2>4, <2>5
<1>3. \A k \in 1..n : o[k] <= f + k
  <2> SUFFICES ASSUME NEW x \in 1..n, ~(o[x] <= f + x) PROVE FALSE
    OBVIOUS
  <2> DEFINE T == {k \in 1..n : o[k] > f + k}
  <2>0. x \in T
    BY <1>1
  <2>0a. T # {}
    BY <2>0
  <2>1. T \in SUBSET (0..n)
    OBVIOUS
  <2>2. PICK k \in T : \A y \in T : y <= k
    BY <2>0a, <2>1, GreatestElement
  <2>3. k \in 1..n /\ o[k] > f + k /\ o[k] <= f + n
    BY <1>1, <2>2
  <2>4. k + 1 \in 1..n /\ k + 1 \notin T /\ k < k + 1
    BY <1>1, <2>2, <2>3
  <2>5. o[k + 1] <= f + (k + 1) /\ o[k] < o[k + 1]
    BY <1>1, <2>3, <2>4
  <2> QED
    BY <1>1, <2>3, <2>4, <2>5
<1> QED
  BY <1>1, <1>2, <1>3

\* UID SEARCH finds the messages with a UID from arg on.
LEMMA SearchFinds ==
    ASSUME TypeOK, Sane(srv), NEW c, NEW order \in Orders(FromUid(c.arg)), c.arg \in Nat
    PROVE  Finds([k \in 1..Len(order) |-> srv.msgs[order[k]]], srv, c.arg)
<1> DEFINE uids == [k \in 1..Len(order) |-> srv.msgs[order[k]]]
           n == Len(order)
<1>1. srv.msgs \in Seq(Uid) /\ Len(srv.msgs) \in Nat
  BY ServerFields
<1>2. FromUid(c.arg) \in SUBSET (1..Len(srv.msgs))
  BY DEF FromUid
<1>3. order \in Seq(FromUid(c.arg)) /\ n \in Nat
  BY <1>1, <1>2, OrdersType
<1>4. order \in [1..n -> FromUid(c.arg)]
  <2>1. order \in [1..Len(order) -> FromUid(c.arg)]
    BY <1>3, LenProperties
  <2> QED
    BY <2>1
<1>5. \A i, j \in 1..n : i < j => order[i] < order[j]
  <2>1. DOMAIN order = 1..n /\ DOMAIN order = 1..Cardinality(FromUid(c.arg))
    BY <1>4 DEF Orders
  <2> QED
    BY <2>1 DEF Orders
<1>6. Len(uids) = n
  <2>1. \A k \in 1..n : order[k] \in 1..Len(srv.msgs) /\ srv.msgs[order[k]] \in Uid
    BY <1>1, <1>2, <1>4, ElementOfSeq
  <2>2. uids \in [1..n -> Uid]
    BY <2>1
  <2> QED
    BY <1>3, <2>2, FiniteFunctionIsSeq
<1>7. \A k \in 1..n : uids[k] = srv.msgs[order[k]]
  OBVIOUS
<1> HIDE DEF uids, n
<1>8. ASSUME NEW f \in 0..Len(srv.msgs), Splits(srv, c.arg, f), Len(uids) = Len(srv.msgs) - f,
             NEW k \in 1..Len(uids)
      PROVE  uids[k] = srv.msgs[f + k]
  <2>1. f \in Nat /\ f + n = Len(srv.msgs) /\ f < Len(srv.msgs)
    BY <1>1, <1>3, <1>6, <1>8
  <2>2. ASSUME NEW i \in FromUid(c.arg) PROVE i \in (f + 1)..(f + n)
    <3>1. i \in 1..Len(srv.msgs) /\ (srv.msgs[i] >= c.arg \/ i = Len(srv.msgs))
      BY DEF FromUid
    <3>2. i > f
      BY <1>1, <1>8, <2>1, <3>1 DEF Splits
    <3> QED
      BY <1>3, <2>1, <3>1, <3>2
  <2>3. order \in [1..n -> (f + 1)..(f + n)]
    BY <1>4, <2>2
  <2>4. \A j \in 1..n : order[j] = f + j
    BY <1>3, <1>5, <2>1, <2>3, ListsAll
  <2> QED
    BY <1>6, <1>7, <1>8, <2>4
<1>9. Finds(uids, srv, c.arg)
  BY <1>8 DEF Finds
<1> QED
  BY <1>9 DEF uids

\* The data of an answer.
LEMMA Answered ==
    ASSUME Plain, TypeOK, NEW hs, FollowsServer(hs), cmds # <<>>, ~answered,
           NEW d \in Seq(Response), net' = net \o d,
           \A k \in 1..Len(d) : /\ Tells(d[k], srv, srv) /\ d[k].t \notin {"OK", "NO"}
                                /\ d[k].t = "SEARCH" /\ task.status = "SYNCING_UIDS" =>
                                      Finds(d[k].uids, srv, SearchArg(task)),
           IF Head(cmds).t = "SELECT"
           THEN Len(d) = 2 /\ d[1].t = "EXISTS" /\ d[2].t = "CODES"
           ELSE \A k \in 1..Len(d) : d[k].t # "CODES",
           answered' = TRUE, selected' = (selected \/ Head(cmds).t = "SELECT"),
           UNCHANGED <<srv, cmds, up, task, mb, threw, selects>>
    PROVE  Onwards(hs)
<1> DEFINE n == Len(net)
           m == Len(d)
<1>1. /\ net \in Seq(Response) /\ hs \in Seq(Server) /\ n \in Nat /\ m \in Nat
      /\ Len(hs) = n + 1 /\ History(hs, net, srv)
  BY SaneServer, LenProperties
<1>1a. AllTell(d, srv)
  BY DEF AllTell
<1>2. PICK h \in Seq(Server) : History(h, net \o d, srv) /\ GoesOn(h, hs, Len(net), Len(d), srv)
  BY <1>1, <1>1a, HistoryConcat
<1>2a. /\ \A i \in 1..Len(hs) : h[i] = hs[i]
       /\ \A i \in 1..(n + m + 1) : i > n => h[i] = srv
  BY <1>2 DEF GoesOn
<1>3. /\ srv' = srv /\ cmds' = cmds /\ up' = up /\ task' = task /\ mb' = mb /\ selects' = selects
  OBVIOUS
<1>4. History(h, net', srv') /\ h[1] = hs[1]
  <2>1. h[1] = hs[1]
    BY <1>1, <1>2a
  <2>2. net' = net \o d
    OBVIOUS
  <2>3. History(h, net', srv')
    BY <1>2, <1>3, <2>2, Zenon
  <2> QED
    BY <2>1, <2>3
<1>5. /\ Len(net') = n + m
      /\ \A i \in 1..(n + m) : net'[i] = IF i <= n THEN net[i] ELSE d[i - n]
  BY <1>1, ConcatProperties
<1>6. Stream(hs) /\ up
  <2>1. Stream(hs)
    BY DEF FollowsServer
  <2> QED
    BY <2>1 DEF Stream, Connected
<1>7. \A i \in 1..n : ~IsSelect(net[i])
  BY <1>6 DEF Stream, SelectIsLast
<1>8. \A i \in 1..n : net[i].t = "CODES" => i < n /\ IsSelect(net[i + 1])
  BY <1>6 DEF Stream, CodesInOrder, SelectAnswered
<1>9. \A i \in 1..n : net[i].t # "CODES"
  <2> SUFFICES ASSUME NEW i \in 1..n, net[i].t = "CODES" PROVE FALSE
    OBVIOUS
  <2>1. i + 1 \in 1..n /\ IsSelect(net[i + 1])
    BY <1>1, <1>8
  <2> QED
    BY <1>7, <2>1
<1>10. \A k \in 1..m : d[k].t \notin {"OK", "NO"} /\ ~IsSelect(d[k])
  BY DEF IsSelect
<1>11. Head(cmds) = cmds[1] /\ 1 \in 1..Len(cmds)
  BY TailElements DEF TypeOK
<1> HIDE DEF n, m
<1>12. \A i \in 1..(n + m) : \/ i \in 1..n /\ net'[i] = net[i]
                             \/ i - n \in 1..m /\ net'[i] = d[i - n] /\ i > n
  BY <1>1, <1>5
<1>13. \A i \in 1..(n + m) : ~IsSelect(net'[i])
  BY <1>7, <1>10, <1>12
<1>14. CodesInOrder(h)'
  <2> SUFFICES ASSUME NEW i \in 1..Len(net'), net'[i].t = "CODES"
               PROVE  /\ IF i > 1 THEN net'[i - 1].t = "EXISTS"
                         ELSE mb'.sync.exists = Len(h[1].msgs)
                      /\ IF i < Len(net') THEN IsSelect(net'[i + 1]) ELSE SelectAnswered'
    BY DEF CodesInOrder, IsSelect
  <2>1. i - n \in 1..m /\ d[i - n].t = "CODES" /\ i > n
    BY <1>5, <1>9, <1>12
  <2>2. Head(cmds).t = "SELECT" /\ m = 2 /\ d[1].t = "EXISTS"
    BY <2>1 DEF m
  <2>3. i - n = 2
    BY <1>1, <2>1, <2>2
  <2>4. i = n + 2 /\ i > 1 /\ ~(i < Len(net')) /\ i - 1 \in 1..(n + m) /\ (i - 1) - n = 1 /\ i - 1 > n
    BY <1>1, <1>5, <2>2, <2>3
  <2>5. net'[i - 1] = d[1]
    BY <1>1, <1>12, <2>4
  <2>6. SelectAnswered'
    BY <1>3, <2>2 DEF SelectAnswered
  <2> QED
    BY <2>2, <2>4, <2>5, <2>6
<1>15. SelectInOrder(h)'
  <2>1. \A i \in 1..Len(net') : ~IsSelect(net'[i])
    BY <1>5, <1>13
  <2>2. ASSUME SelectAnswered'
        PROVE  /\ selected'
               /\ IF net' = <<>> THEN SyncIs(mb', srv') ELSE net'[Len(net')].t = "CODES"
    <3>1. Head(cmds).t = "SELECT"
      BY <1>3, <2>2 DEF SelectAnswered
    <3>2. m = 2 /\ d[2].t = "CODES" /\ selected'
      BY <3>1 DEF m
    <3>3. Len(net') = n + 2 /\ n + 2 \in 1..(n + m) /\ (n + 2) - n = 2 /\ n + 2 > n
      BY <1>1, <1>5, <3>2
    <3>4. net'[n + 2] = d[2]
      BY <1>1, <1>12, <3>3
    <3>5. net' # <<>>
      BY <1>1, <3>3
    <3> QED
      BY <3>2, <3>3, <3>4, <3>5
  <2> QED
    BY <2>1, <2>2 DEF SelectInOrder, IsSelect, SyncIs
<1>16. SelectIsLast'
  <2>1. \A i \in 1..Len(net') : ~IsSelect(net'[i])
    BY <1>5, <1>13
  <2>2. \A i \in 1..Len(cmds') : cmds'[i].t = "SELECT" =>
           i = Len(cmds') /\ task'.status = "SELECTING"
    BY <1>3, <1>6 DEF Stream, SelectIsLast
  <2> QED
    BY <2>1, <2>2 DEF SelectIsLast, IsSelect
<1>17. ArgsPlain'
  BY <1>3, <1>6 DEF Stream, ArgsPlain
<1>18. TagsFit'
  <2>1. ASSUME NEW i \in 1..Len(net'), net'[i].t \in {"OK", "NO"}
        PROVE  /\ net'[i].tag <= selects'
               /\ task'.status = "SELECTING" => IsSelect(net'[i]) \/ net'[i].tag < selects'
    <3>1. i \in 1..n /\ net'[i] = net[i]
      BY <1>5, <1>10, <1>12, <2>1
    <3> QED
      BY <1>3, <1>6, <2>1, <3>1 DEF Stream, TagsFit, n
  <2>2. \A i \in 1..Len(cmds') :
          /\ cmds'[i].tag <= selects'
          /\ task'.status = "SELECTING" => cmds'[i].t = "SELECT" \/ cmds'[i].tag < selects'
    BY <1>3, <1>6 DEF Stream, TagsFit
  <2> QED
    BY <2>1, <2>2 DEF TagsFit, IsSelect
<1>19. Connected'
  <2>1. selected \/ Head(cmds).t = "SELECT"
    BY <1>6 DEF Stream, Connected
  <2>2. selected'
    BY <2>1
  <2> QED
    BY <1>3, <1>6, <2>2 DEF Connected
<1>20. SearchFits(h)'
  <2> SUFFICES ASSUME task'.status = "SYNCING_UIDS"
               PROVE  /\ \A i \in 1..Len(cmds') :
                            cmds'[i].t = "SEARCH" => cmds'[i].arg = SearchArg(task')
                      /\ \A i \in 1..Len(net') : net'[i].t = "SEARCH" =>
                            Finds(net'[i].uids, h[i], SearchArg(task'))
    BY DEF SearchFits, Finds, SearchArg, Splits
  <2>1. /\ \A i \in 1..Len(cmds) : cmds[i].t = "SEARCH" => cmds[i].arg = SearchArg(task)
        /\ \A i \in 1..n : net[i].t = "SEARCH" => Finds(net[i].uids, hs[i], SearchArg(task))
    BY <1>3, <1>6 DEF Stream, SearchFits, n
  <2>2. ASSUME NEW i \in 1..Len(net'), net'[i].t = "SEARCH"
        PROVE  Finds(net'[i].uids, h[i], SearchArg(task'))
    <3>1. CASE i \in 1..n /\ net'[i] = net[i]
      <4>1. h[i] = hs[i]
        BY <1>1, <1>2a, <3>1
      <4> QED
        BY <1>3, <2>1, <2>2, <3>1, <4>1
    <3>2. CASE i - n \in 1..m /\ net'[i] = d[i - n] /\ i > n
      <4>1. h[i] = srv
        BY <1>1, <1>2a, <1>5, <3>2
      <4>2. Finds(d[i - n].uids, srv, SearchArg(task))
        BY <1>3, <2>2, <3>2 DEF m
      <4> QED
        BY <1>3, <3>2, <4>1, <4>2
    <3> QED
      BY <1>5, <1>12, <3>1, <3>2
  <2> QED
    BY <1>3, <2>1, <2>2
<1>21. Stream(h)'
  BY <1>14, <1>15, <1>16, <1>17, <1>18, <1>19, <1>20 DEF Stream
<1>22. Client(mb', task', srv'.val, h[1]) /\ (mb'.st = "NONE" => ~up')
  BY <1>3, <1>4 DEF FollowsServer
<1>23. Continues(hs, h)
  <2>1. Len(h) = Len(net') + 1
    BY <1>4 DEF History
  <2>1a. Len(h) = n + m + 1
    BY <1>5, <2>1
  <2>2. \A i \in 1..Len(h) : i > Len(hs) => h[i] = srv'
    BY <1>1, <1>2a, <1>3, <2>1a
  <2>3. Len(h) >= Len(hs)
    BY <1>1, <2>1a
  <2> QED
    BY <1>2a, <2>2, <2>3 DEF Continues
<1> QED
  BY <1>4, <1>21, <1>22, <1>23, Concluded

\* FETCH responses are true of the mailbox that they are made from.
LEMMA FetchesTell ==
    ASSUME TypeOK, Sane(srv), NEW order \in Seq(1..Len(srv.msgs)),
           NEW withUid \in BOOLEAN, NEW k \in 1..Len(Fetches(order, withUid, FALSE))
    PROVE  /\ Fetches(order, withUid, FALSE)[k].t = "FETCH"
           /\ Tells(Fetches(order, withUid, FALSE)[k], srv, srv)
<1>1. Len(order) \in Nat /\ Len(Fetches(order, withUid, FALSE)) = Len(order)
  <2>1. Len(order) \in Nat
    BY LenProperties
  <2> DEFINE S == {Fetch(order[i], srv.msgs[order[i]], withUid, FALSE) : i \in 1..Len(order)}
             q == Fetches(order, withUid, FALSE)
  <2>2. q \in [1..Len(order) -> S]
    BY DEF Fetches
  <2> HIDE DEF S, q
  <2>3. Len(q) = Len(order)
    BY <2>1, <2>2, FiniteFunctionIsSeq
  <2> QED
    BY <2>1, <2>3 DEF q
<1>2. order[k] \in 1..Len(srv.msgs)
  BY <1>1, ElementOfSeq
<1> DEFINE n == order[k]
           u == srv.msgs[n]
           r == Fetch(n, u, withUid, FALSE)
<1>3. Fetches(order, withUid, FALSE)[k] = r
  BY <1>1 DEF Fetches
<1>4. r.t = "FETCH" /\ r.n = n /\ r.uid \in {0, u} /\ r.mod = 0 /\ r.fl = srv.flag[u]
  BY DEF Fetch
<1>5. OthersKeepFlags(srv, srv, u)
  BY DEF OthersKeepFlags
<1>6. u = srv.msgs[n] /\ n \in 1..Len(srv.msgs)
  BY <1>2
<1> HIDE DEF n, u, r
<1>7. Tells(r, srv, srv)
  BY <1>4, <1>5, <1>6 DEF Tells
<1> QED
  BY <1>3, <1>4, <1>7

\* Two elements.
LEMMA TwoElements ==
    ASSUME NEW a, NEW b
    PROVE  /\ Len(<<a, b>>) = 2 /\ <<a, b>>[1] = a /\ <<a, b>>[2] = b
           /\ \A k \in 1..Len(<<a, b>>) : <<a, b>>[k] = a \/ <<a, b>>[k] = b
OBVIOUS

\* The server answers a command.
LEMMA SendDataKeepsUp ==
    ASSUME Plain, TypeOK, NEW hs, FollowsServer(hs), SendData
    PROVE  Onwards(hs)
<1> DEFINE c == Head(cmds)
<1>0. ~Condstore /\ ~Qresync
  BY ExtensionsAssumption DEF Plain
<1>1. /\ cmds # <<>> /\ ~answered /\ answered' = TRUE
      /\ selected' = (selected \/ c.t = "SELECT")
      /\ UNCHANGED <<srv, cmds, up, task, mb, threw, selects>>
  BY DEF SendData
<1>2. PICK order \in Orders(Wanted(c)) : net' = net \o Data(c, order)
  BY DEF SendData
<1>3. c \in Commands /\ c = cmds[1] /\ 1 \in 1..Len(cmds)
  BY <1>1, TailElements, ElementOfSeq DEF TypeOK
<1>4. Sane(srv) /\ Stream(hs)
  BY SaneServer DEF FollowsServer
<1>5. order \in Seq(1..Len(srv.msgs))
  <2>1. Wanted(c) \in SUBSET (1..Len(srv.msgs))
    BY WantedType
  <2>2. Len(srv.msgs) \in Nat
    BY ServerFields
  <2>3. order \in Seq(Wanted(c))
    BY <2>1, <2>2, OrdersType
  <2> QED
    BY <2>1, <2>3, SeqMonotonic
<1>6. Data(c, order) \in Seq(Response)
  BY <1>3, <1>5, DataType
<1>7. c.t \in {"SELECT", "FLAGS"} => c.arg = 0
  BY <1>3, <1>4 DEF Stream, ArgsPlain
<1>8. c.t \in CommandKind /\ c.arg \in Nat
  BY <1>3 DEF Commands
<1> HIDE DEF c
<1>9. CASE c.t = "SELECT"
  <2> DEFINE e == Exists(Len(srv.msgs))
             o == [t |-> "CODES", uidNext |-> srv.next, uidVal |-> srv.val, modSeq |-> 0]
  <2>1. ~Resync(c)
    BY <1>7, <1>9 DEF Resync
  <2>2. Data(c, order) = <<e, o>> \o <<>>
    BY <1>0, <1>9, <2>1 DEF Data, SelectData
  <2>2a. e \in Response /\ o \in Response
    <3>1. e \in [t: {"EXISTS"}, n: Nat]
      BY ServerFields DEF Exists
    <3>2. o \in [t: {"CODES"}, uidNext: Nat, uidVal: Nat, modSeq: Nat]
      BY ServerFields
    <3> HIDE DEF e, o
    <3> QED
      BY <3>1, <3>2 DEF Response
  <2>3. e.t = "EXISTS" /\ e.n = Len(srv.msgs)
    BY DEF Exists
  <2>4. o.t = "CODES" /\ o.uidNext = srv.next /\ o.uidVal = srv.val
    OBVIOUS
  <2> HIDE DEF e, o
  <2>5. Tells(e, srv, srv) /\ Tells(o, srv, srv)
    BY <2>3, <2>4 DEF Tells
  <2>6. Data(c, order) = <<e, o>>
    BY <2>2, <2>2a
  <2> DEFINE d == Data(c, order)
  <2>7. /\ Len(d) = 2 /\ d[1] = e /\ d[2] = o
        /\ \A k \in 1..Len(d) : d[k] = e \/ d[k] = o
    BY <2>6, TwoElements
  <2>8. d \in Seq(Response) /\ net' = net \o d
    BY <1>2, <1>6
  <2> HIDE DEF d
  <2>9. \A k \in 1..Len(d) : /\ Tells(d[k], srv, srv) /\ d[k].t \notin {"OK", "NO"}
                             /\ d[k].t # "SEARCH"
    BY <2>3, <2>4, <2>5, <2>7
  <2>10. IF Head(cmds).t = "SELECT"
         THEN Len(d) = 2 /\ d[1].t = "EXISTS" /\ d[2].t = "CODES"
         ELSE \A k \in 1..Len(d) : d[k].t # "CODES"
    BY <1>9, <2>3, <2>4, <2>7 DEF c
  <2> QED
    BY <1>1, <2>8, <2>9, <2>10, Answered DEF c
<1>10. CASE c.t = "SEARCH"
  <2> DEFINE uids == [k \in 1..Len(order) |-> srv.msgs[order[k]]]
             r == [t |-> "SEARCH", uids |-> uids]
  <2>1. Data(c, order) = <<r>>
    BY <1>10 DEF Data
  <2>2. Finds(uids, srv, c.arg)
    <3>1. order \in Orders(FromUid(c.arg))
      BY <1>2, <1>10 DEF Wanted
    <3> QED
      BY <1>4, <1>8, <3>1, SearchFinds
  <2> HIDE DEF uids
  <2>3. r.t = "SEARCH" /\ r.uids = uids
    OBVIOUS
  <2> HIDE DEF r
  <2> DEFINE d == Data(c, order)
  <2>4. Len(d) = 1 /\ \A k \in 1..Len(d) : d[k] = r
    BY <2>1
  <2>5. d \in Seq(Response) /\ net' = net \o d
    BY <1>2, <1>6
  <2> HIDE DEF d
  <2>6. task.status = "SYNCING_UIDS" => c.arg = SearchArg(task)
    BY <1>3, <1>4, <1>10 DEF Stream, SearchFits
  <2>7. ASSUME NEW k \in 1..Len(d)
        PROVE  /\ Tells(d[k], srv, srv) /\ d[k].t \notin {"OK", "NO"}
               /\ d[k].t = "SEARCH" /\ task.status = "SYNCING_UIDS" =>
                     Finds(d[k].uids, srv, SearchArg(task))
               /\ d[k].t # "CODES"
    <3>1. d[k] = r
      BY <2>4
    <3>2. Tells(r, srv, srv)
      BY <2>3 DEF Tells
    <3>3. task.status = "SYNCING_UIDS" => Finds(r.uids, srv, SearchArg(task))
      BY <2>2, <2>3, <2>6
    <3> QED
      BY <2>3, <3>1, <3>2, <3>3
  <2>8. IF Head(cmds).t = "SELECT"
        THEN Len(d) = 2 /\ d[1].t = "EXISTS" /\ d[2].t = "CODES"
        ELSE \A k \in 1..Len(d) : d[k].t # "CODES"
    BY <1>10, <2>7 DEF c
  <2>9. \A k \in 1..Len(d) :
           /\ Tells(d[k], srv, srv) /\ d[k].t \notin {"OK", "NO"}
           /\ d[k].t = "SEARCH" /\ task.status = "SYNCING_UIDS" =>
                 Finds(d[k].uids, srv, SearchArg(task))
    BY <2>7
  <2> QED
    BY <1>1, <2>5, <2>8, <2>9, Answered DEF c
<1>11. CASE c.t \in {"FLAGS", "ARRIVALS"}
  <2> DEFINE d == Data(c, order)
  <2>1. PICK withUid \in BOOLEAN : d = Fetches(order, withUid, FALSE)
    <3>1. CASE c.t = "FLAGS"
      <4>1. (c.arg > 0) = FALSE /\ Qresync = FALSE
        BY <1>0, <1>7, <3>1, ExtensionsAssumption
      <4>2. Data(c, order) = Fetches(order, Qresync, c.arg > 0)
        BY <3>1 DEF Data
      <4>3. Data(c, order) = Fetches(order, FALSE, FALSE)
        BY <4>1, <4>2
      <4> QED
        BY <4>3
    <3>2. CASE c.t = "ARRIVALS"
      <4>1. Data(c, order) = Fetches(order, TRUE, FALSE)
        BY <3>2 DEF Data
      <4> QED
        BY <4>1
    <3> QED
      BY <1>11, <3>1, <3>2
  <2>2. d \in Seq(Response) /\ net' = net \o d
    BY <1>2, <1>6
  <2> HIDE DEF d
  <2>3. \A k \in 1..Len(d) : d[k].t = "FETCH" /\ Tells(d[k], srv, srv)
    BY <1>4, <1>5, <2>1, FetchesTell
  <2>4. IF Head(cmds).t = "SELECT"
        THEN Len(d) = 2 /\ d[1].t = "EXISTS" /\ d[2].t = "CODES"
        ELSE \A k \in 1..Len(d) : d[k].t # "CODES"
    BY <1>11, <2>3 DEF c
  <2>5. \A k \in 1..Len(d) : /\ Tells(d[k], srv, srv) /\ d[k].t \notin {"OK", "NO"}
                             /\ d[k].t # "SEARCH"
    BY <2>3
  <2> QED
    BY <1>1, <2>2, <2>4, <2>5, Answered DEF c
<1> QED
  BY <1>8, <1>9, <1>10, <1>11 DEF CommandKind

\* The server completes a command.
LEMMA SendTaggedKeepsUp ==
    ASSUME Plain, TypeOK, TypeOK', NEW hs, FollowsServer(hs), SendTagged
    PROVE  Onwards(hs)
<1> DEFINE c == Head(cmds)
           n == Len(net)
<1>1. /\ net \in Seq(Response) /\ hs \in Seq(Server) /\ n \in Nat
      /\ Len(hs) = n + 1 /\ History(hs, net, srv) /\ Sane(srv) /\ Later(srv, srv)
  BY SaneServer, LaterSame, SaneFields
<1>2. /\ cmds # <<>> /\ cmds' = Tail(cmds) /\ ~answered'
      /\ srv' = srv /\ selected' = selected /\ up' = up /\ task' = task /\ mb' = mb
      /\ selects' = selects
  BY DEF SendTagged
<1>3. /\ c = cmds[1] /\ Len(cmds) \in Nat /\ Len(cmds) >= 1 /\ 1 \in 1..Len(cmds)
      /\ Len(cmds') = Len(cmds) - 1 /\ \A i \in 1..(Len(cmds) - 1) : cmds'[i] = cmds[i + 1]
      /\ c \in Commands
  BY <1>2, TailElements, ElementOfSeq DEF TypeOK
<1>4. PICK kind \in {"OK", "NO"} :
         /\ net' = Append(net, Tagged(kind))
         /\ kind = "OK" => answered
         /\ kind = "NO" => ~answered /\ c.t # "SELECT"
  BY DEF SendTagged
<1>5. PICK r : r = Tagged(kind)
  OBVIOUS
<1>6. r.t = kind /\ r.cmd = c.t /\ r.tag = c.tag
  BY <1>5 DEF Tagged
<1>7. r \in Response
  <2>1. r \in [t: {"OK", "NO"}, cmd: CommandKind, tag: Nat]
    BY <1>3, <1>5 DEF Tagged, Commands
  <2> QED
    BY <2>1 DEF Response
<1>8. Tells(r, srv, srv)
  BY <1>6 DEF Tells
<1>9. PICK h : h = Append(hs, srv)
  OBVIOUS
<1>10. History(h, net', srv') /\ \A i \in 1..Len(hs) : h[i] = hs[i]
  <2>1. History(h, Append(net, r), srv) /\ \A i \in 1..Len(hs) : h[i] = hs[i]
    BY <1>1, <1>7, <1>8, <1>9, HistoryAppend
  <2>2. net' = Append(net, r)
    BY <1>4, <1>5
  <2> QED
    BY <1>2, <2>1, <2>2
<1>11. h[1] = hs[1]
  BY <1>1, <1>10
<1>12. /\ Len(net') = n + 1 /\ net'[n + 1] = r /\ \A i \in 1..n : net'[i] = net[i]
  BY <1>1, <1>4, <1>5, <1>7, AppendElements
<1>13. Stream(hs)
  BY DEF FollowsServer
<1>14. \A i \in 1..n : ~IsSelect(net[i])
  BY <1>2, <1>13 DEF Stream, SelectIsLast
<1>15. IsSelect(r) => SelectAnswered /\ Len(cmds) = 1 /\ kind = "OK" /\ task.status = "SELECTING"
  <2> HAVE IsSelect(r)
  <2>1. c.t = "SELECT"
    BY <1>6 DEF IsSelect
  <2>2. kind = "OK" /\ SelectAnswered
    BY <1>2, <1>4, <2>1 DEF SelectAnswered
  <2> QED
    BY <1>3, <1>13, <2>1, <2>2 DEF Stream, SelectIsLast
<1> HIDE DEF c, n
<1>15a. Len(net) = n
  BY DEF n
<1>16. CodesInOrder(h)'
  <2> SUFFICES ASSUME NEW i \in 1..Len(net'), net'[i].t = "CODES"
               PROVE  /\ IF i > 1 THEN net'[i - 1].t = "EXISTS"
                         ELSE mb'.sync.exists = Len(h[1].msgs)
                      /\ IF i < Len(net') THEN IsSelect(net'[i + 1]) ELSE SelectAnswered'
    BY DEF CodesInOrder, IsSelect
  <2>1. i \in 1..n /\ net[i].t = "CODES" /\ i < Len(net') /\ i + 1 \in 1..(n + 1)
    BY <1>1, <1>6, <1>12
  <2>2. /\ IF i > 1 THEN net[i - 1].t = "EXISTS" ELSE mb.sync.exists = Len(hs[1].msgs)
        /\ IF i < n THEN IsSelect(net[i + 1]) ELSE SelectAnswered
    BY <1>13, <2>1 DEF Stream, CodesInOrder, n
  <2>3. i < n => IsSelect(net'[i + 1])
    BY <1>1, <1>12, <2>1, <2>2
  <2>4. i = n => IsSelect(net'[i + 1])
    <3> HAVE i = n
    <3>1. SelectAnswered
      BY <1>1, <2>2
    <3>2. c.t = "SELECT"
      BY <3>1 DEF SelectAnswered, c
    <3> QED
      BY <1>6, <1>12, <3>2 DEF IsSelect
  <2>5. i > 1 => i - 1 \in 1..n
    BY <1>1, <2>1
  <2> QED
    BY <1>1, <1>2, <1>11, <1>12, <2>1, <2>2, <2>3, <2>4, <2>5
<1>17. SelectInOrder(h)'
  <2>1. ~SelectAnswered'
    BY <1>2 DEF SelectAnswered
  <2>2. ASSUME NEW i \in 1..Len(net'), IsSelect(net'[i])
        PROVE  IF i > 1 THEN net'[i - 1].t = "CODES" ELSE SyncIs(mb', h[1])
    <3>1. i = n + 1 /\ IsSelect(r)
      BY <1>1, <1>12, <1>14, <2>2
    <3>2. IF net = <<>> THEN SyncIs(mb, srv) ELSE net[n].t = "CODES"
      BY <1>13, <1>15, <3>1 DEF Stream, SelectInOrder, n
    <3>3. CASE i > 1
      <4>1. net # <<>> /\ n \in 1..n /\ i - 1 = n
        BY <1>1, <1>15a, <3>1, <3>3
      <4> QED
        BY <1>12, <3>2, <3>3, <4>1
    <3>4. CASE ~(i > 1)
      <4>1. n = 0
        BY <1>1, <3>1, <3>4
      <4>2. net = <<>>
        BY <1>1, <1>15a, <4>1, EmptySeq
      <4>3. hs[1] = srv
        BY <4>2, SaneServer
      <4> QED
        BY <1>2, <1>11, <3>2, <3>4, <4>2, <4>3
    <3> QED
      BY <3>3, <3>4
  <2> QED
    BY <2>1, <2>2 DEF SelectInOrder, IsSelect, SyncIs
<1>18. SelectIsLast'
  <2>1. ASSUME NEW i \in 1..Len(net'), IsSelect(net'[i])
        PROVE  /\ net'[i].t = "OK" /\ task'.status = "SELECTING" /\ cmds' = <<>>
               /\ \A k \in 1..Len(net') : k > i => Announcement(net'[k])
    <3>1. i = n + 1 /\ IsSelect(r)
      BY <1>1, <1>12, <1>14, <2>1
    <3>2. Len(cmds') = 0 /\ cmds' \in Seq(Commands)
      BY <1>3, <1>15, <3>1 DEF TypeOK
    <3>3. cmds' = <<>>
      BY <3>2, EmptySeq
    <3>4. \A k \in 1..Len(net') : ~(k > i)
      BY <1>1, <1>12, <3>1
    <3> QED
      BY <1>2, <1>6, <1>12, <1>15, <3>1, <3>3, <3>4
  <2>2. ASSUME NEW i \in 1..Len(cmds'), cmds'[i].t = "SELECT"
        PROVE  i = Len(cmds') /\ task'.status = "SELECTING"
    <3>1. i + 1 \in 1..Len(cmds) /\ cmds[i + 1].t = "SELECT"
      BY <1>3, <2>2
    <3>2. i + 1 = Len(cmds) /\ task.status = "SELECTING"
      BY <1>13, <3>1 DEF Stream, SelectIsLast
    <3>3. Len(cmds') = Len(cmds) - 1 /\ Len(cmds) \in Nat
      BY <1>3
    <3>4. i = Len(cmds')
      BY <3>2, <3>3
    <3>5. task' = task
      BY <1>2
    <3> QED
      BY <3>2, <3>4, <3>5
  <2> QED
    BY <2>1, <2>2 DEF SelectIsLast, IsSelect, Announcement
<1>19. ArgsPlain'
  <2> SUFFICES ASSUME NEW i \in 1..Len(cmds'), cmds'[i].t \in {"SELECT", "FLAGS"}
               PROVE  cmds'[i].arg = 0
    BY DEF ArgsPlain
  <2>1. i + 1 \in 1..Len(cmds) /\ cmds'[i] = cmds[i + 1]
    BY <1>3
  <2> QED
    BY <1>13, <2>1 DEF Stream, ArgsPlain
<1>20. TagsFit'
  <2>0. TagsFit
    BY <1>13 DEF Stream
  <2>1. ASSUME NEW i \in 1..Len(net'), net'[i].t \in {"OK", "NO"}
        PROVE  /\ net'[i].tag <= selects'
               /\ task'.status = "SELECTING" => IsSelect(net'[i]) \/ net'[i].tag < selects'
    <3>1. CASE i \in 1..n
      <4>1. net'[i] = net[i] /\ i \in 1..Len(net) /\ net[i].t \in {"OK", "NO"}
        BY <1>12, <1>15a, <2>1, <3>1
      <4>2. /\ net[i].tag <= selects
            /\ task.status = "SELECTING" => IsSelect(net[i]) \/ net[i].tag < selects
        BY <2>0, <4>1 DEF TagsFit
      <4>3. selects' = selects /\ task' = task
        BY <1>2
      <4> QED
        BY <4>1, <4>2, <4>3 DEF IsSelect
    <3>2. CASE i = n + 1
      <4>1. /\ c.tag <= selects
            /\ task.status = "SELECTING" => c.t = "SELECT" \/ c.tag < selects
        BY <1>3, <2>0 DEF TagsFit
      <4> QED
        BY <1>2, <1>6, <1>12, <3>2, <4>1 DEF IsSelect
    <3> QED
      BY <1>1, <1>12, <3>1, <3>2
  <2>2. ASSUME NEW i \in 1..Len(cmds')
        PROVE  /\ cmds'[i].tag <= selects'
               /\ task'.status = "SELECTING" => cmds'[i].t = "SELECT" \/ cmds'[i].tag < selects'
    <3>1. i + 1 \in 1..Len(cmds) /\ cmds'[i] = cmds[i + 1]
      BY <1>3
    <3> QED
      BY <1>2, <2>0, <3>1 DEF TagsFit
  <2> QED
    BY <2>1, <2>2 DEF TagsFit, IsSelect
<1>21. Connected'
  <2>1. up /\ (~selected => ~answered /\ c.t = "SELECT")
    BY <1>2, <1>13 DEF Stream, Connected, c
  <2>2. selected
    BY <1>4, <2>1
  <2> QED
    BY <1>2, <2>1, <2>2 DEF Connected
<1>22. SearchFits(h)'
  <2> SUFFICES ASSUME task'.status = "SYNCING_UIDS"
               PROVE  /\ \A i \in 1..Len(cmds') :
                            cmds'[i].t = "SEARCH" => cmds'[i].arg = SearchArg(task')
                      /\ \A i \in 1..Len(net') : net'[i].t = "SEARCH" =>
                            Finds(net'[i].uids, h[i], SearchArg(task'))
    BY DEF SearchFits, Finds, SearchArg, Splits
  <2>1. /\ \A i \in 1..Len(cmds) : cmds[i].t = "SEARCH" => cmds[i].arg = SearchArg(task)
        /\ \A i \in 1..n : net[i].t = "SEARCH" => Finds(net[i].uids, hs[i], SearchArg(task))
    BY <1>2, <1>13 DEF Stream, SearchFits, n
  <2>2. ASSUME NEW i \in 1..Len(net'), net'[i].t = "SEARCH"
        PROVE  Finds(net'[i].uids, h[i], SearchArg(task'))
    <3>1. i \in 1..n /\ net'[i] = net[i] /\ h[i] = hs[i]
      BY <1>1, <1>6, <1>10, <1>12, <2>2
    <3> QED
      BY <1>2, <2>1, <2>2, <3>1
  <2>3. ASSUME NEW i \in 1..Len(cmds'), cmds'[i].t = "SEARCH"
        PROVE  cmds'[i].arg = SearchArg(task')
    <3>1. i + 1 \in 1..Len(cmds) /\ cmds'[i] = cmds[i + 1]
      BY <1>3
    <3> QED
      BY <1>2, <2>1, <2>3, <3>1
  <2> QED
    BY <2>2, <2>3
<1>23. Stream(h)'
  BY <1>16, <1>17, <1>18, <1>19, <1>20, <1>21, <1>22 DEF Stream
<1>24. Client(mb', task', srv'.val, h[1]) /\ (mb'.st = "NONE" => ~up')
  BY <1>2, <1>11 DEF FollowsServer
<1>25. Continues(hs, h)
  <2>1. Len(h) = Len(hs) + 1 /\ h[Len(hs) + 1] = srv' /\ Len(hs) \in Nat
    BY <1>1, <1>2, <1>9, AppendElements
  <2> QED
    BY <1>10, <2>1 DEF Continues
<1> QED
  BY <1>10, <1>23, <1>24, <1>25, Concluded

----------------------------------------------------------------------------
(* Losing the connection, and the SELECT of a new one. *)

\* The list and the cache stay, or the cache only: what is lost is under way.
LEMMA LostKeepsUp ==
    ASSUME Plain, TypeOK, TypeOK', NEW hs, FollowsServer(hs), Disconnected, srv' = srv,
           mb' = mb \/ (mb'.list = <<>> /\ mb'.st = "NONE" /\ SameDisk(mb, mb'))
    PROVE  Onwards(hs)
<1>1. /\ mb \in Mailbox /\ Sane(srv) /\ Sane(hs[1]) /\ Later(hs[1], srv)
      /\ hs[1].val = srv.val /\ srv.val \in Nat
  BY SaneServer
<1>2. /\ ~up' /\ ~selected' /\ cmds' = <<>> /\ ~answered' /\ net' = <<>> /\ task' = NoTask
      /\ NoTask.status = "OFF" /\ ~NoTask.qresync
  BY DEF Disconnected, NoTask
<1>3. PICK h : h = <<srv>>
  OBVIOUS
<1>4. History(h, net', srv') /\ h[1] = srv
  <2>1. History(<<srv>>, <<>>, srv)
    BY <1>1, HistoryNow
  <2>2. <<srv>>[1] = srv
    OBVIOUS
  <2> QED
    BY <1>2, <1>3, <2>1, <2>2
<1>5. Stream(h)'
  BY <1>2, StreamOff
<1>6. mb' \in Mailbox
  BY DEF TypeOK
<1>7. OnDisk(mb, srv.val, hs[1]) /\ (mb.st = "NONE" => mb.list = <<>>)
  BY DEF FollowsServer, Client
<1>8. OnDisk(mb', srv.val, srv)
  <2>1. CASE mb' = mb
    <3>1. SameDisk(mb, mb')
      BY <2>1 DEF SameDisk
    <3> QED
      BY <1>1, <1>6, <1>7, <2>1, <3>1, OnDiskSame
  <2>2. CASE mb'.list = <<>> /\ mb'.st = "NONE" /\ SameDisk(mb, mb')
    <3>1. KnownBelow(mb'.list, srv.next)
      BY <2>2 DEF KnownBelow
    <3> QED
      BY <1>1, <1>6, <1>7, <2>2, <3>1, OnDiskMoved
  <2> QED
    BY <2>1, <2>2
<1>9. mb'.st = "NONE" => mb'.list = <<>>
  BY <1>7
<1>10. Client(mb', NoTask, srv.val, srv)
  BY <1>2, <1>8, <1>9 DEF Client, UidsAreKnown
<1>11. Client(mb', task', srv'.val, h[1])
  BY <1>2, <1>4, <1>10
<1>12. Continues(hs, h)
  BY <1>2 DEF Continues
<1> QED
  BY <1>2, <1>4, <1>5, <1>11, <1>12, Concluded

\* The connection drops.
LEMMA DropKeepsUp ==
    ASSUME Plain, TypeOK, TypeOK', NEW hs, FollowsServer(hs), Drop
    PROVE  Onwards(hs)
BY LostKeepsUp DEF Drop

\* An exception kills it.
LEMMA ThrowKeepsUp ==
    ASSUME Plain, TypeOK, TypeOK', NEW hs, FollowsServer(hs), NEW e, Throw(e)
    PROVE  Onwards(hs)
BY LostKeepsUp DEF Throw

\* The program ends.
LEMMA StopKeepsUp ==
    ASSUME Plain, TypeOK, TypeOK', NEW hs, FollowsServer(hs), Stop
    PROVE  Onwards(hs)
<1>1. /\ Disconnected /\ srv' = srv
      /\ mb' = [list |-> <<>>, st |-> "NONE", sync |-> NoSync, disk |-> mb.disk]
  BY DEF Stop
<1>2. mb'.list = <<>> /\ mb'.st = "NONE" /\ SameDisk(mb, mb')
  BY <1>1 DEF SameDisk
<1> QED
  BY <1>1, <1>2, LostKeepsUp

\* The list that the cache starts with fits what is on disk.
LEMMA PopulatedOnDisk ==
    ASSUME NEW m \in Mailbox, NEW w \in Mailbox, NEW h, Sane(h), OnDisk(m, h.val, h),
           w.list = Populate(m).list, SameDisk(m, w), w.st # "NONE"
    PROVE  OnDisk(w, h.val, h)
<1>1. /\ h.val \in Nat /\ h.val >= 1 /\ h.next \in Nat /\ Len(h.msgs) \in Nat
  BY SaneFields
<1>2. Later(h, h)
  BY LaterSame, SaneFields
<1>3. /\ m.disk.uids \in Seq(0..MaxUid) /\ Len(m.disk.uids) \in Nat
      /\ m.disk.sync.uidNext \in Nat /\ w.disk.sync = m.disk.sync /\ w.disk.uids = m.disk.uids
  BY MailboxFields DEF SameDisk, SyncState
<1>4. CASE Populate(m) = m /\ m.st # "NONE"
  BY <1>1, <1>2, <1>4, OnDiskSame
<1>5. CASE Populate(m) = m /\ m.st = "NONE" /\ ~IsUsableForSyncing(m.disk.sync)
  <2>1. w.disk.sync.uidVal = 0
    BY <1>3, <1>5 DEF IsUsableForSyncing
  <2> QED
    BY <1>1, <2>1 DEF OnDisk
<1>6. CASE /\ m.st = "NONE" /\ Len(Populate(m).list) = Len(m.disk.uids)
           /\ \A j \in 1..Len(m.disk.uids) : Populate(m).list[j].uid = m.disk.uids[j]
  <2> DEFINE uids == m.disk.uids
             next == m.disk.sync.uidNext
             list == w.list
             n == Len(uids)
             k == Len(h.msgs)
  <2>1. /\ uids \in Seq(0..MaxUid) /\ next \in Nat /\ n = Len(uids) /\ n \in Nat
        /\ k = Len(h.msgs) /\ k \in Nat
        /\ Len(list) = n /\ \A j \in 1..n : list[j].uid = uids[j]
    BY <1>1, <1>3, <1>6
  <2>2. w.disk.uids = uids /\ w.disk.sync.uidNext = next
    BY <1>3
  <2>3. w.disk.sync.uidVal <= h.val
    BY <1>3 DEF OnDisk
  <2> SUFFICES ASSUME w.disk.sync.uidVal = h.val
               PROVE  OnDisk(w, h.val, h)
    BY <2>3 DEF OnDisk
  <2>4. /\ n = w.disk.sync.exists /\ Follows(uids, next, h)
        /\ \A j \in 1..n : uids[j] < next
    BY <1>3 DEF OnDisk
  <2>5. w.list = list
    OBVIOUS
  <2> HIDE DEF uids, next, list, n, k
  <2>6. next <= h.next
    BY <2>4 DEF Follows
  <2>7. ASSUME NEW j \in 1..n PROVE uids[j] \in Nat
    <3>1. uids[j] \in 0..MaxUid
      BY <2>1, ElementOfSeq
    <3> QED
      BY <3>1, MaxUidAssumption
  <2>8. KnownBelow(list, h.next)
    <3> SUFFICES ASSUME NEW j \in 1..Len(list) PROVE list[j].uid < h.next
      BY DEF KnownBelow
    <3>1. j \in 1..n /\ list[j].uid = uids[j]
      BY <2>1
    <3> QED
      BY <1>1, <2>1, <2>4, <2>6, <2>7, <3>1
  <2>9. ASSUME Surplus(uids, next, h) = 0
        PROVE  n <= k /\ FitsTo(list, n, h)
    <3>1. Begins(uids, next, h)
      BY <2>4, <2>9 DEF Follows
    <3>2. (k - n) - (h.next - next) = 0
      BY <2>1, <2>9 DEF Surplus
    <3>3. n <= k
      BY <1>1, <2>1, <2>6, <3>2
    <3>4. ASSUME NEW j \in 1..n PROVE list[j].uid \in {0, h.msgs[j]}
      <4>1. j \in 1..k /\ j <= n
        BY <2>1, <3>3
      <4>2. uids[j] \in {0, h.msgs[j]}
        BY <2>1, <3>1, <4>1 DEF Begins
      <4> QED
        BY <2>1, <4>2
    <3> QED
      BY <3>3, <3>4 DEF FitsTo
  <2>10. n <= Len(list) /\ Len(list) = n
    BY <2>1
  <2>11. Surplus(uids, next, h) = 0 =>
            n <= Len(list) /\ Len(list) <= k /\ FitsTo(list, Len(list), h)
    BY <2>9, <2>10
  <2> QED
    BY <2>1, <2>2, <2>3, <2>4, <2>5, <2>8, <2>11 DEF OnDisk
<1> QED
  BY <1>4, <1>5, <1>6, PopulateDoes

\* A synchronization starts.
LEMMA PerformKeepsUp ==
    ASSUME Plain, TypeOK, TypeOK', NEW hs, FollowsServer(hs), Perform
    PROVE  Onwards(hs)
<1> DEFINE m == Populate(mb)
<1>0. ~Qresync
  BY ExtensionsAssumption DEF Plain
<1>1. /\ mb \in Mailbox /\ mb' \in Mailbox /\ Sane(hs[1]) /\ hs[1].val = srv.val
      /\ History(hs, net, srv) /\ selects \in Nat
      /\ cmds \in Seq(Commands) /\ cmds' \in Seq(Commands)
  BY SaneServer DEF TypeOK
<1>2. Stream(hs) /\ Client(mb, task, srv.val, hs[1])
  BY DEF FollowsServer
<1>3. Free /\ task.status \in {"OFF", "KEEP"} /\ task.status # "SELECTING"
  BY DEF Perform, Free
<1>4. /\ \A i \in 1..Len(net) : net[i].t # "CODES" /\ ~IsSelect(net[i])
      /\ \A i \in 1..Len(cmds) : cmds[i].t # "SELECT"
      /\ ~SelectAnswered
  BY <1>2, <1>3, NoSelect
<1>5. /\ mb' = [m EXCEPT !.st = "LOADING", !.sync = NoSync]
      /\ task' = [NoTask EXCEPT !.status = "SELECTING", !.qresync = FALSE]
      /\ up' = TRUE /\ srv' = srv /\ net' = net /\ selected' = selected /\ answered' = answered
      /\ selects' = selects + 1
  BY <1>0 DEF Perform
<1>6. PICK c : /\ cmds' = Append(cmds, c)
               /\ c = [t |-> "SELECT", arg |-> 0, val |-> m.disk.sync.uidVal,
                       tag |-> selects + 1]
  BY <1>0 DEF Perform, Issue
<1>7. c.t = "SELECT" /\ c.arg = 0 /\ c.tag = selects + 1
  BY <1>6
<1>8. c \in Commands
  <2>1. m.disk.sync.uidVal \in Nat
    BY <1>1, PopulateType, MailboxFields DEF SyncState
  <2> QED
    BY <1>1, <1>6, <2>1 DEF Commands, CommandKind
<1>9. /\ Len(cmds) \in Nat /\ Len(cmds') = Len(cmds) + 1 /\ cmds'[Len(cmds) + 1] = c
      /\ \A i \in 1..Len(cmds) : cmds'[i] = cmds[i]
  BY <1>1, <1>6, <1>8, AppendElements
<1>9a. cmds' # <<>> /\ Head(cmds') = cmds'[1]
  <2>1. cmds' # <<>>
    BY <1>9
  <2> QED
    BY <1>1, <2>1, TailElements
<1>9b. \A i \in 1..Len(cmds') : i \in 1..Len(cmds) \/ i = Len(cmds) + 1
  BY <1>9
<1>10. /\ task'.status = "SELECTING" /\ ~task'.qresync /\ task'.firstUnknown = 0
  BY <1>5 DEF NoTask
<1>11. m \in Mailbox
  BY <1>1, PopulateType
<1>12. mb'.st = "LOADING" /\ mb'.list = m.list /\ SameDisk(mb, mb')
  BY <1>1, <1>5, <1>11, PopulateDoes DEF Mailbox, SameDisk
<1> HIDE DEF m
<1>13. OnDisk(mb', srv.val, hs[1])
  <2>1. OnDisk(mb, hs[1].val, hs[1])
    BY <1>1, <1>2 DEF Client
  <2>2. mb'.list = Populate(mb).list /\ mb'.st # "NONE"
    BY <1>12 DEF m
  <2>3. OnDisk(mb', hs[1].val, hs[1])
    BY <1>1, <1>12, <2>1, <2>2, PopulatedOnDisk
  <2> QED
    BY <1>1, <2>3
<1>14. Client(mb', task', srv'.val, hs[1])
  BY <1>5, <1>10, <1>12, <1>13 DEF Client, UidsAreKnown
<1>15. ~SelectAnswered'
  <2> SUFFICES ASSUME answered, Head(cmds').t = "SELECT" PROVE FALSE
    BY <1>5 DEF SelectAnswered
  <2>1. cmds # <<>>
    BY <1>2 DEF Stream, Connected
  <2>2. Head(cmds) = cmds[1] /\ 1 \in 1..Len(cmds)
    BY <1>1, <2>1, TailElements
  <2>3. Head(cmds') = cmds[1]
    BY <1>9, <1>9a, <2>2
  <2> QED
    BY <1>4, <2>2, <2>3
<1>16. CodesInOrder(hs)' /\ SelectInOrder(hs)'
  BY <1>4, <1>5, <1>15 DEF CodesInOrder, SelectInOrder, IsSelect
<1>17. SelectIsLast'
  <2>1. \A i \in 1..Len(cmds') : cmds'[i].t = "SELECT" => i = Len(cmds')
    BY <1>4, <1>9, <1>9b
  <2> QED
    BY <1>4, <1>5, <1>10, <2>1 DEF SelectIsLast, IsSelect
<1>18. ArgsPlain'
  <2>1. \A i \in 1..Len(cmds) : cmds[i].t \in {"SELECT", "FLAGS"} => cmds[i].arg = 0
    BY <1>2 DEF Stream, ArgsPlain
  <2> QED
    BY <1>7, <1>9, <1>9b, <2>1 DEF ArgsPlain
<1>19. TagsFit'
  <2>0. TagsFit
    BY <1>2 DEF Stream
  <2>1. ASSUME NEW i \in 1..Len(cmds')
        PROVE  /\ cmds'[i].tag <= selects'
               /\ cmds'[i].t = "SELECT" \/ cmds'[i].tag < selects'
    <3>1. CASE i \in 1..Len(cmds)
      <4>0. cmds[i] \in Commands
        BY <1>1, <3>1, ElementOfSeq
      <4>1. cmds'[i] = cmds[i] /\ cmds[i].tag <= selects /\ cmds[i].tag \in Nat
        BY <1>9, <2>0, <3>1, <4>0 DEF TagsFit, Commands
      <4> QED
        BY <1>1, <1>5, <4>1
    <3>2. CASE i = Len(cmds) + 1
      BY <1>1, <1>5, <1>7, <1>9, <3>2
    <3> QED
      BY <1>9b, <3>1, <3>2
  <2>2. ASSUME NEW i \in 1..Len(net'), net'[i].t \in {"OK", "NO"}
        PROVE  net'[i].tag <= selects' /\ net'[i].tag < selects'
    <3>1. i \in 1..Len(net) /\ net'[i] = net[i] /\ net[i] \in Response
      BY <1>5, ElementOfSeq DEF TypeOK
    <3>2. net[i].tag <= selects
      BY <2>0, <2>2, <3>1 DEF TagsFit
    <3>3. net[i].tag \in Nat
      BY <2>2, <3>1 DEF Response
    <3> QED
      BY <1>1, <1>5, <3>1, <3>2, <3>3
  <2> QED
    BY <2>1, <2>2 DEF TagsFit
<1>20. Connected'
  <2>1. ASSUME ~selected
        PROVE  net = <<>> /\ cmds = <<>> /\ ~answered
    <3>1. ~up
      <4> SUFFICES ASSUME up PROVE FALSE
        OBVIOUS
      <4>1. cmds # <<>> /\ Head(cmds).t = "SELECT"
        BY <1>2, <2>1 DEF Stream, Connected
      <4>2. Head(cmds) = cmds[1] /\ 1 \in 1..Len(cmds)
        BY <1>1, <4>1, TailElements
      <4> QED
        BY <1>4, <4>1, <4>2
    <3> QED
      BY <1>2, <3>1 DEF Stream, Connected
  <2>2. cmds = <<>> => Head(cmds') = c
    <3> HAVE cmds = <<>>
    <3>1. Len(cmds) = 0
      OBVIOUS
    <3> QED
      BY <1>9, <1>9a, <3>1
  <2> QED
    BY <1>5, <1>7, <1>9a, <2>1, <2>2 DEF Connected
<1>21. SearchFits(hs)'
  BY <1>10 DEF SearchFits
<1>22. Stream(hs)'
  BY <1>16, <1>17, <1>18, <1>19, <1>20, <1>21 DEF Stream
<1>23. History(hs, net', srv')
  BY <1>1, <1>5
<1>24. Continues(hs, hs)
  <2>1. Len(hs) \in Nat
    BY SaneServer
  <2> QED
    BY <2>1 DEF Continues
<1> QED
  BY <1>12, <1>14, <1>22, <1>23, <1>24, Concluded

----------------------------------------------------------------------------
(* The responses.  hs[1] is where the client is, hs[2] where the response takes it. *)

\* The commands that a handler issues once the SELECT is over, and in answer to its OK.
Further(c) == /\ c \in Commands /\ c.tag = selects
              /\ c.t \in {"FLAGS", "ARRIVALS"} /\ (c.t = "FLAGS" => c.arg = 0)
CmdsStay == \/ cmds' = cmds
            \/ task.status # "SELECTING" /\ \E c \in Commands : Further(c) /\ cmds' = Append(cmds, c)
\* What SELECT tells is noted.
Noted(s) ==
    task.status = "SELECTING" =>
       /\ Head(net).t = "EXISTS" => mb'.sync.exists = Len(s.msgs)
       /\ Head(net).t = "CODES" => SyncIs(mb', s)

\* The elements that remain.
LEMMA Remaining ==
    ASSUME TypeOK, NEW hs, FollowsServer(hs), net # <<>>, Handled
    PROVE  /\ net \in Seq(Response) /\ Len(net) \in Nat /\ Len(net) >= 1 /\ Head(net) = net[1]
           /\ Head(net) \in Response
           /\ Len(net') = Len(net) - 1
           /\ \A i \in 1..Len(net') : net'[i] = net[i + 1] /\ i + 1 \in 1..Len(net)
           /\ hs \in Seq(Server) /\ Len(hs) = Len(net) + 1
           /\ History(Tail(hs), net', srv')
           /\ \A i \in 1..Len(net) : Tail(hs)[i] = hs[i + 1]
           /\ Tells(Head(net), hs[1], hs[2]) /\ Later(hs[1], hs[2])
           /\ Sane(hs[1]) /\ Sane(hs[2]) /\ hs[1].val = srv.val /\ hs[2].val = srv.val
           /\ Len(net) = 1 => hs[2] = srv
           /\ Stream(hs) /\ Client(mb, task, srv.val, hs[1]) /\ mb.st # "NONE"
           /\ up /\ selected /\ mb \in Mailbox /\ srv.val \in Nat /\ Tail(hs)[1] = hs[2]
<1>1. /\ net \in Seq(Response) /\ hs \in Seq(Server) /\ Len(net) \in Nat
      /\ Len(hs) = Len(net) + 1 /\ History(hs, net, srv) /\ hs[1].val = srv.val
      /\ mb \in Mailbox /\ srv.val \in Nat
  BY SaneServer
<1>2. /\ Len(net) >= 1 /\ Head(net) = net[1] /\ Len(Tail(net)) = Len(net) - 1
      /\ \A i \in 1..(Len(net) - 1) : Tail(net)[i] = net[i + 1]
  BY <1>1, TailElements
<1>3. /\ History(Tail(hs), Tail(net), srv)
      /\ \A i \in 1..Len(net) : Tail(hs)[i] = hs[i + 1]
      /\ Tells(Head(net), hs[1], hs[2]) /\ Later(hs[1], hs[2]) /\ Sane(hs[1]) /\ Sane(hs[2])
      /\ Tail(hs)[1] = hs[2]
  BY <1>1, HistoryTail
<1>4. net' = Tail(net) /\ srv' = srv
  BY DEF Handled
<1>5. History(Tail(hs), net', srv')
  BY <1>3, <1>4, Zenon
<1>6. /\ Len(net') = Len(net) - 1
      /\ \A i \in 1..Len(net') : net'[i] = net[i + 1] /\ i + 1 \in 1..Len(net)
  BY <1>1, <1>2, <1>4
<1>7. hs[1].val = hs[2].val
  BY <1>3 DEF Later
<1>8. Len(net) = 1 => hs[2] = srv
  BY <1>1 DEF History
<1>9. Stream(hs) /\ Client(mb, task, srv.val, hs[1]) /\ (mb.st = "NONE" => ~up)
  BY DEF FollowsServer
<1>10. up /\ selected
  BY <1>9, Underway
<1>11. Head(net) \in Response
  BY <1>1, <1>2, ElementOfSeq
<1> QED
  BY <1>1, <1>2, <1>3, <1>5, <1>6, <1>7, <1>8, <1>9, <1>10, <1>11

\* What stays under way is in order still.
LEMMA StreamAfter ==
    ASSUME Plain, TypeOK, TypeOK', NEW hs, FollowsServer(hs), net # <<>>, Handled,
           ~IsSelect(Head(net)), Noted(hs[2]), CmdsStay,
           task'.status = "SELECTING" <=> task.status = "SELECTING",
           task'.status = "SYNCING_UIDS" => /\ task.status = "SYNCING_UIDS"
                                            /\ SearchArg(task') = SearchArg(task),
           NEW h, h = Tail(hs)
    PROVE  Stream(h)'
<1> DEFINE n == Len(net)
<1>1. /\ n \in Nat /\ n >= 1 /\ Head(net) = net[1]
      /\ Len(net') = n - 1
      /\ \A i \in 1..Len(net') : net'[i] = net[i + 1] /\ i + 1 \in 1..n
      /\ \A i \in 1..n : h[i] = hs[i + 1]
      /\ n = 1 => hs[2] = srv
      /\ up /\ selected
  BY Remaining
<1>1a. 1 \in 1..n /\ h[1] = hs[2] /\ Len(net) = n
  <2>1. 1 \in 1..n /\ 1 + 1 = 2
    BY <1>1
  <2> QED
    BY <1>1, <2>1
<1>2. Stream(hs)
  BY Remaining
<1>3. srv' = srv /\ selected' = selected /\ answered' = answered /\ up' = up /\ selects' = selects
  BY DEF Handled
<1> HIDE DEF n
<1>4. ASSUME task.status # "SELECTING"
      PROVE  /\ \A i \in 1..n : net[i].t # "CODES" /\ ~IsSelect(net[i])
             /\ \A i \in 1..Len(cmds) : cmds[i].t # "SELECT"
             /\ ~SelectAnswered
  BY <1>1a, <1>2, <1>4, NoSelect
<1>5. cmds \in Seq(Commands) /\ cmds' \in Seq(Commands) /\ Len(cmds) \in Nat /\ selects \in Nat
  BY LenProperties DEF TypeOK
\* One command may have been added.
<1>6. /\ Len(cmds') \in {Len(cmds), Len(cmds) + 1}
      /\ \A i \in 1..Len(cmds) : cmds'[i] = cmds[i]
      /\ Len(cmds') = Len(cmds) + 1 => task.status # "SELECTING" /\ Further(cmds'[Len(cmds) + 1])
      /\ Len(cmds') = Len(cmds) => cmds' = cmds
  <2>1. CASE cmds' = cmds
    BY <1>5, <2>1
  <2>2. ASSUME task.status # "SELECTING", NEW c \in Commands, Further(c), cmds' = Append(cmds, c)
        PROVE  <1>6
    <3>1. /\ Len(cmds') = Len(cmds) + 1 /\ cmds'[Len(cmds) + 1] = c
          /\ \A i \in 1..Len(cmds) : cmds'[i] = cmds[i]
      BY <1>5, <2>2, AppendElements
    <3> QED
      BY <1>5, <2>2, <3>1
  <2> QED
    BY <2>1, <2>2 DEF CmdsStay
<1>7. \A i \in 1..Len(cmds') : \/ i \in 1..Len(cmds) /\ cmds'[i] = cmds[i]
                               \/ /\ i = Len(cmds) + 1 /\ task.status # "SELECTING"
                                  /\ Further(cmds'[i])
  BY <1>5, <1>6
<1>8. SelectAnswered' => SelectAnswered /\ task.status = "SELECTING"
  <2> HAVE SelectAnswered'
  <2>1. cmds' # <<>> /\ answered /\ Head(cmds').t = "SELECT"
    BY <1>3 DEF SelectAnswered
  <2>2. cmds # <<>>
    BY <1>2, <2>1 DEF Stream, Connected
  <2>3. Head(cmds') = cmds'[1] /\ Head(cmds) = cmds[1] /\ 1 \in 1..Len(cmds)
    BY <1>5, <2>1, <2>2, TailElements
  <2>4. Head(cmds') = Head(cmds)
    BY <1>6, <2>3
  <2>5. SelectAnswered
    BY <2>1, <2>2, <2>4 DEF SelectAnswered
  <2> QED
    BY <1>4, <2>5
<1>9. task.status = "SELECTING" => (SelectAnswered => SelectAnswered')
  BY <1>3, <1>6 DEF SelectAnswered, CmdsStay
<1>10. CodesInOrder(h)'
  <2> SUFFICES ASSUME NEW i \in 1..Len(net'), net'[i].t = "CODES"
               PROVE  /\ IF i > 1 THEN net'[i - 1].t = "EXISTS"
                         ELSE mb'.sync.exists = Len(h[1].msgs)
                      /\ IF i < Len(net') THEN IsSelect(net'[i + 1]) ELSE SelectAnswered'
    BY DEF CodesInOrder, IsSelect
  <2>1. i + 1 \in 1..n /\ net[i + 1].t = "CODES" /\ i + 1 > 1 /\ (i + 1) - 1 = i /\ i \in 1..n
    BY <1>1
  <2>2. /\ net[i].t = "EXISTS"
        /\ IF i + 1 < n THEN IsSelect(net[i + 2]) ELSE SelectAnswered
    <3>1. /\ IF i + 1 > 1 THEN net[(i + 1) - 1].t = "EXISTS" ELSE mb.sync.exists = Len(hs[1].msgs)
          /\ IF i + 1 < n THEN IsSelect(net[(i + 1) + 1]) ELSE SelectAnswered
      BY <1>1a, <1>2, <2>1 DEF Stream, CodesInOrder
    <3>2. (i + 1) + 1 = i + 2
      BY <1>1
    <3> QED
      BY <2>1, <3>1, <3>2
  <2>3. task.status = "SELECTING"
    BY <1>4, <2>1
  <2>4. i > 1 => net'[i - 1] = net[i]
    <3> HAVE i > 1
    <3>1. i - 1 \in 1..Len(net') /\ (i - 1) + 1 = i
      BY <1>1
    <3> QED
      BY <1>1, <3>1
  <2>5. i < Len(net') => IsSelect(net'[i + 1])
    <3> HAVE i < Len(net')
    <3>1. i + 1 \in 1..Len(net') /\ (i + 1) + 1 = i + 2 /\ i + 1 < n
      BY <1>1
    <3>2. net'[i + 1] = net[i + 2]
      BY <1>1, <3>1
    <3> QED
      BY <2>2, <3>1, <3>2
  <2>6. ~(i < Len(net')) => SelectAnswered'
    <3> HAVE ~(i < Len(net'))
    <3>1. ~(i + 1 < n)
      BY <1>1
    <3> QED
      BY <1>9, <2>2, <2>3, <3>1
  <2>7. ~(i > 1) => mb'.sync.exists = Len(h[1].msgs)
    <3> HAVE ~(i > 1)
    <3>1. i = 1
      BY <1>1
    <3> QED
      BY <1>1, <1>1a, <2>2, <2>3, <3>1 DEF Noted
  <2> QED
    BY <2>2, <2>4, <2>5, <2>6, <2>7
<1>11. SelectInOrder(h)'
  <2>1. ASSUME NEW i \in 1..Len(net'), IsSelect(net'[i])
        PROVE  IF i > 1 THEN net'[i - 1].t = "CODES" ELSE SyncIs(mb', h[1])
    <3>1. i + 1 \in 1..n /\ IsSelect(net[i + 1]) /\ i + 1 > 1 /\ (i + 1) - 1 = i /\ i \in 1..n
      BY <1>1, <2>1
    <3>2. IF i + 1 > 1 THEN net[(i + 1) - 1].t = "CODES" ELSE SyncIs(mb, hs[1])
      BY <1>1a, <1>2, <3>1 DEF Stream, SelectInOrder
    <3>3. net[i].t = "CODES"
      BY <3>1, <3>2
    <3>4. CASE i > 1
      <4>1. i - 1 \in 1..Len(net') /\ (i - 1) + 1 = i
        BY <1>1, <3>4
      <4> QED
        BY <1>1, <3>3, <3>4, <4>1
    <3>5. CASE ~(i > 1)
      <4>1. i = 1
        BY <1>1, <3>5
      <4>2. Head(net).t = "CODES" /\ task.status = "SELECTING"
        BY <1>1, <1>4, <3>1, <3>3, <4>1
      <4>3. SyncIs(mb', h[1])
        BY <1>1a, <4>2 DEF Noted
      <4> QED
        BY <3>5, <4>3
    <3> QED
      BY <3>4, <3>5
  <2>2. ASSUME SelectAnswered'
        PROVE  /\ selected'
               /\ IF net' = <<>> THEN SyncIs(mb', srv') ELSE net'[Len(net')].t = "CODES"
    <3>1. SelectAnswered /\ task.status = "SELECTING"
      BY <1>8, <2>2
    <3>2. net # <<>> /\ (IF net = <<>> THEN SyncIs(mb, srv) ELSE net[n].t = "CODES")
      BY <1>1a, <1>2, <3>1 DEF Stream, SelectInOrder
    <3>3. net[n].t = "CODES"
      BY <3>2
    <3>4. CASE net' = <<>>
      <4>1. n = 1
        BY <1>1, <3>4
      <4>2. SyncIs(mb', hs[2])
        BY <1>1, <3>1, <3>3, <4>1 DEF Noted
      <4> QED
        BY <1>1, <1>3, <3>4, <4>1, <4>2
    <3>5. CASE net' # <<>>
      <4>1. net' \in Seq(Response)
        BY DEF TypeOK
      <4>2. Len(net') # 0
        BY <3>5, <4>1, EmptySeq
      <4>3. Len(net') \in 1..Len(net') /\ Len(net') + 1 = n
        BY <1>1, <4>2
      <4> QED
        BY <1>1, <1>3, <3>3, <3>5, <4>3
    <3> QED
      BY <1>1, <1>3, <3>4, <3>5
  <2> QED
    BY <2>1, <2>2 DEF SelectInOrder, IsSelect, SyncIs
<1>12. SelectIsLast'
  <2>1. ASSUME NEW i \in 1..Len(net'), IsSelect(net'[i])
        PROVE  /\ net'[i].t = "OK" /\ task'.status = "SELECTING" /\ cmds' = <<>>
               /\ \A k \in 1..Len(net') : k > i => Announcement(net'[k])
    <3>1. i + 1 \in 1..n /\ IsSelect(net[i + 1]) /\ net'[i] = net[i + 1]
      BY <1>1, <2>1
    <3>2. /\ net[i + 1].t = "OK" /\ task.status = "SELECTING" /\ cmds = <<>>
          /\ \A k \in 1..n : k > i + 1 => Announcement(net[k])
      BY <1>1a, <1>2, <3>1 DEF Stream, SelectIsLast
    <3>3. ASSUME NEW k \in 1..Len(net'), k > i PROVE Announcement(net'[k])
      <4>1. k + 1 \in 1..n /\ k + 1 > i + 1 /\ net'[k] = net[k + 1]
        BY <1>1, <3>3
      <4> QED
        BY <3>2, <4>1
    <3>4. cmds' = <<>>
      BY <3>2 DEF CmdsStay
    <3> QED
      BY <3>1, <3>2, <3>3, <3>4
  <2>2. ASSUME NEW i \in 1..Len(cmds'), cmds'[i].t = "SELECT"
        PROVE  i = Len(cmds') /\ task'.status = "SELECTING"
    <3>1. i \in 1..Len(cmds) /\ cmds[i].t = "SELECT"
      BY <1>7, <2>2 DEF Further
    <3>2. i = Len(cmds) /\ task.status = "SELECTING"
      BY <1>2, <3>1 DEF Stream, SelectIsLast
    <3>3. cmds' = cmds
      BY <3>2 DEF CmdsStay
    <3> QED
      BY <3>2, <3>3
  <2> QED
    BY <2>1, <2>2 DEF SelectIsLast, IsSelect, Announcement
<1>13. ArgsPlain'
  <2>1. \A i \in 1..Len(cmds) : cmds[i].t \in {"SELECT", "FLAGS"} => cmds[i].arg = 0
    BY <1>2 DEF Stream, ArgsPlain
  <2> QED
    BY <1>7, <2>1 DEF ArgsPlain, Further
<1>14. TagsFit'
  <2>0. TagsFit
    BY <1>2 DEF Stream
  <2>1. ASSUME NEW i \in 1..Len(net'), net'[i].t \in {"OK", "NO"}
        PROVE  /\ net'[i].tag <= selects'
               /\ task'.status = "SELECTING" => IsSelect(net'[i]) \/ net'[i].tag < selects'
    <3>1. i + 1 \in 1..Len(net) /\ net'[i] = net[i + 1]
      BY <1>1, <1>1a
    <3>2. /\ net[i + 1].tag <= selects
          /\ task.status = "SELECTING" => IsSelect(net[i + 1]) \/ net[i + 1].tag < selects
      BY <2>0, <2>1, <3>1 DEF TagsFit
    <3> QED
      BY <1>3, <3>1, <3>2
  <2>2. ASSUME NEW i \in 1..Len(cmds')
        PROVE  /\ cmds'[i].tag <= selects'
               /\ task'.status = "SELECTING" => cmds'[i].t = "SELECT" \/ cmds'[i].tag < selects'
    <3>1. CASE i \in 1..Len(cmds) /\ cmds'[i] = cmds[i]
      <4>1. /\ cmds[i].tag <= selects
            /\ task.status = "SELECTING" => cmds[i].t = "SELECT" \/ cmds[i].tag < selects
        BY <2>0, <3>1 DEF TagsFit
      <4> QED
        BY <1>3, <3>1, <4>1
    <3>2. CASE task.status # "SELECTING" /\ Further(cmds'[i])
      BY <1>3, <1>5, <3>2 DEF Further
    <3> QED
      BY <1>7, <3>1, <3>2
  <2> QED
    BY <2>1, <2>2 DEF TagsFit, IsSelect
<1>15. Connected'
  <2>1. cmds' = <<>> => ~answered
    <3> HAVE cmds' = <<>>
    <3>1. Len(cmds') = 0
      OBVIOUS
    <3>2. Len(cmds) = 0
      BY <1>5, <1>6, <3>1
    <3>3. cmds = <<>>
      BY <1>5, <3>2, EmptySeq
    <3> QED
      BY <1>2, <3>3 DEF Stream, Connected
  <2> QED
    BY <1>1, <1>3, <2>1 DEF Connected
<1>16. SearchFits(h)'
  <2> SUFFICES ASSUME task'.status = "SYNCING_UIDS"
               PROVE  /\ \A i \in 1..Len(cmds') :
                            cmds'[i].t = "SEARCH" => cmds'[i].arg = SearchArg(task')
                      /\ \A i \in 1..Len(net') : net'[i].t = "SEARCH" =>
                            Finds(net'[i].uids, h[i], SearchArg(task'))
    BY DEF SearchFits, Finds, SearchArg, Splits
  <2>1. SearchArg(task') = SearchArg(task)
    OBVIOUS
  <2>2. /\ \A i \in 1..Len(cmds) : cmds[i].t = "SEARCH" => cmds[i].arg = SearchArg(task)
        /\ \A i \in 1..n : net[i].t = "SEARCH" => Finds(net[i].uids, hs[i], SearchArg(task))
    BY <1>1a, <1>2 DEF Stream, SearchFits
  <2>3. ASSUME NEW i \in 1..Len(net'), net'[i].t = "SEARCH"
        PROVE  Finds(net'[i].uids, h[i], SearchArg(task'))
    <3>1. i + 1 \in 1..n /\ net'[i] = net[i + 1]
      BY <1>1
    <3>2. i \in 1..n
      BY <1>1, <3>1
    <3>3. h[i] = hs[i + 1]
      BY <1>1, <3>2
    <3>4. Finds(net[i + 1].uids, hs[i + 1], SearchArg(task))
      BY <2>2, <2>3, <3>1
    <3> QED
      BY <2>1, <3>1, <3>3, <3>4
  <2>4. ASSUME NEW i \in 1..Len(cmds'), cmds'[i].t = "SEARCH"
        PROVE  cmds'[i].arg = SearchArg(task')
    <3>1. i \in 1..Len(cmds) /\ cmds'[i] = cmds[i]
      BY <1>7, <2>4 DEF Further
    <3> QED
      BY <2>1, <2>2, <2>4, <3>1
  <2> QED
    BY <2>3, <2>4
<1> QED
  BY <1>10, <1>11, <1>12, <1>13, <1>14, <1>15, <1>16 DEF Stream

\* The client follows by one response.
LEMMA FollowsOn ==
    ASSUME Plain, TypeOK, TypeOK', NEW hs, FollowsServer(hs), net # <<>>, Handled,
           ~IsSelect(Head(net)), Noted(hs[2]), CmdsStay,
           task'.status = "SELECTING" <=> task.status = "SELECTING",
           task'.status = "SYNCING_UIDS" => /\ task.status = "SYNCING_UIDS"
                                            /\ SearchArg(task') = SearchArg(task),
           Client(mb', task', srv.val, hs[2]), mb'.st # "NONE"
    PROVE  Onwards(hs)
<1>1. PICK h : h = Tail(hs)
  OBVIOUS
<1>2. Stream(h)'
  BY <1>1, StreamAfter
<1>3. History(Tail(hs), net', srv') /\ Tail(hs)[1] = hs[2]
  BY Remaining
<1>4. History(h, net', srv')
  BY <1>1, <1>3, Zenon
<1>5. h[1] = hs[2]
  BY <1>1, <1>3, Zenon
<1>6. srv' = srv
  BY DEF Handled
<1>7. Client(mb', task', srv'.val, h[1])
  BY <1>5, <1>6
<1>8. Continues(hs, h)
  BY <1>1 DEF Handled, Continues
<1> QED
  BY <1>2, <1>4, <1>7, <1>8, Concluded

\* The guess at UIDNEXT stays below the server's.
LEMMA RaisedKeeps ==
    ASSUME NEW m \in Mailbox, NEW w, w = UpdateHighestKnownUid(m), NEW val \in Nat, NEW h, Sane(h)
    PROVE  /\ w \in Mailbox
           /\ OnDisk(m, val, h) => OnDisk(w, val, h)
           /\ Synced(m, val, h) => Synced(w, val, h)
           /\ \A tk : UidsAsked(m, tk, val, h) => UidsAsked(w, tk, val, h)
<1>1. /\ w \in Mailbox /\ w.list = m.list /\ w.sync.exists = m.sync.exists
      /\ SameDisk(m, w) /\ w.st = m.st /\ w.sync.uidVal = m.sync.uidVal
      /\ w.sync.uidNext >= m.sync.uidNext
      /\ \/ w.sync.uidNext = m.sync.uidNext
         \/ \E i \in 1..Len(m.list) : w.sync.uidNext = m.list[i].uid + 1
  BY UpdateHighestKnownUidType, UpdateHighestKnownUidDoes
<1>2. /\ h.next \in Nat /\ Len(h.msgs) \in Nat /\ h \in Server /\ Later(h, h)
      /\ m.list \in Seq(Message) /\ m.sync.uidNext \in Nat /\ w.sync.uidNext \in Nat
  BY <1>1, SaneFields, MailboxFields, LaterSame
<1>3. \A j \in 1..Len(m.list) : m.list[j].uid \in Nat
  BY <1>2, ListUids
<1>4. OnDisk(m, val, h) => OnDisk(w, val, h)
  BY <1>1, <1>2, OnDiskSame
<1>5. ASSUME m.sync.uidNext \in 1..h.next, KnownBelow(m.list, h.next)
      PROVE  w.sync.uidNext \in 1..h.next
  <2>1. CASE w.sync.uidNext = m.sync.uidNext
    BY <1>5, <2>1
  <2>2. ASSUME NEW i \in 1..Len(m.list), w.sync.uidNext = m.list[i].uid + 1
        PROVE  w.sync.uidNext \in 1..h.next
    <3>1. m.list[i].uid < h.next /\ m.list[i].uid \in Nat
      BY <1>3, <1>5 DEF KnownBelow
    <3> QED
      BY <1>2, <2>2, <3>1
  <2> QED
    BY <1>1, <2>1, <2>2
<1>6. Synced(m, val, h) => Synced(w, val, h)
  <2> HAVE Synced(m, val, h)
  <2>1. /\ Reflects(m.list, h) /\ m.sync.uidVal = val /\ m.sync.uidNext \in 1..h.next
        /\ KnownBelow(m.list, m.sync.uidNext) /\ m.st # "NONE"
    BY DEF Synced
  <2>2. KnownBelow(m.list, h.next) /\ KnownBelow(m.list, w.sync.uidNext)
    BY <1>1, <1>2, <2>1, KnownBelowMore
  <2>3. w.sync.uidNext \in 1..h.next
    BY <1>5, <2>1, <2>2
  <2> QED
    BY <1>1, <2>1, <2>2, <2>3 DEF Synced
<1>7. ASSUME NEW tk, UidsAsked(m, tk, val, h)
      PROVE  UidsAsked(w, tk, val, h)
  <2>1. m.sync.uidNext \in 1..h.next /\ KnownBelow(m.list, h.next)
    BY <1>7 DEF UidsAsked
  <2>2. w.sync.uidNext \in 1..h.next
    BY <1>5, <2>1
  <2> QED
    BY <1>1, <1>7, <2>2 DEF UidsAsked
<1> QED
  BY <1>1, <1>4, <1>6, <1>7

\* EXISTS, once the list is in use: the messages that have arrived are unknown.
LEMMA ExistsKeeps ==
    ASSUME NEW m \in Mailbox, NEW val \in Nat, NEW a, NEW b, Sane(a), Sane(b), Later(a, b),
           b = a \/ Grown(a, b), NEW n, n = Len(b.msgs), ~ExistsThrows(m, n),
           NEW w, w = HandleExists(m, n), m.st # "NONE"
    PROVE  /\ w \in Mailbox /\ w.st # "NONE"
           /\ OnDisk(m, val, a) => OnDisk(w, val, b)
           /\ Synced(m, val, a) => Synced(w, val, b)
           /\ \A tk : tk \in Task /\ UidsAsked(m, tk, val, a) => UidsAsked(w, tk, val, b)
<1>0. /\ n \in Nat /\ a.next \in Nat /\ b.next \in Nat /\ b.next >= 1 /\ Len(a.msgs) \in Nat
      /\ a.next <= b.next
  BY SaneFields DEF Later, Follows
<1>1. /\ w \in Mailbox /\ Len(w.list) = n /\ w.sync.exists = n /\ w.sync.uidNext = m.sync.uidNext
      /\ SameDisk(m, w) /\ Len(m.list) <= n
      /\ \A j \in 1..n : w.list[j].uid = IF j <= Len(m.list) THEN m.list[j].uid ELSE 0
      /\ w.st = IF n = Len(m.list) THEN m.st ELSE "LOADING"
      /\ w.sync.uidVal = m.sync.uidVal
  BY <1>0, HandleExistsType, HandleExistsDoes
<1>2. m.list \in Seq(Message) /\ Len(m.list) \in Nat /\ m.sync.uidNext \in Nat
  BY MailboxFields
<1>3. Len(a.msgs) <= n /\ \A j \in 1..Len(a.msgs) : b.msgs[j] = a.msgs[j]
  BY <1>0, GrownKeeps
<1>4. ASSUME NEW k \in Nat, NEW l \in Nat, k <= l, l >= 1, KnownBelow(m.list, k)
      PROVE  KnownBelow(w.list, l)
  <2> SUFFICES ASSUME NEW j \in 1..Len(w.list) PROVE w.list[j].uid < l
    BY DEF KnownBelow
  <2>1. CASE j <= Len(m.list)
    <3>1. j \in 1..Len(m.list) /\ w.list[j].uid = m.list[j].uid
      BY <1>1, <1>2, <2>1
    <3>2. m.list[j].uid < k /\ m.list[j].uid \in Nat
      BY <1>2, <1>4, <3>1, ListUids DEF KnownBelow
    <3> QED
      BY <1>4, <3>1, <3>2
  <2>2. CASE ~(j <= Len(m.list))
    BY <1>1, <1>4, <2>2
  <2> QED
    BY <2>1, <2>2
<1>5. ASSUME NEW k \in Nat, k <= Len(m.list), k <= Len(a.msgs), FitsTo(m.list, k, a)
      PROVE  FitsTo(w.list, k, b)
  <2> SUFFICES ASSUME NEW j \in 1..k PROVE w.list[j].uid \in {0, b.msgs[j]}
    BY DEF FitsTo
  <2>1. j \in 1..n /\ j <= Len(m.list) /\ j \in 1..Len(a.msgs)
    BY <1>0, <1>1, <1>2, <1>5
  <2>2. m.list[j].uid \in {0, a.msgs[j]}
    BY <1>5 DEF FitsTo
  <2> QED
    BY <1>1, <1>3, <2>1, <2>2
<1>6. ASSUME Len(m.list) <= Len(a.msgs), FitsTo(m.list, Len(m.list), a)
      PROVE  FitsTo(w.list, n, b)
  <2> SUFFICES ASSUME NEW j \in 1..n PROVE w.list[j].uid \in {0, b.msgs[j]}
    BY DEF FitsTo
  <2>1. CASE j <= Len(m.list)
    <3>1. FitsTo(w.list, Len(m.list), b)
      BY <1>2, <1>5, <1>6
    <3>2. j \in 1..Len(m.list)
      BY <1>2, <2>1
    <3> QED
      BY <3>1, <3>2 DEF FitsTo
  <2>2. CASE ~(j <= Len(m.list))
    BY <1>1, <2>2
  <2> QED
    BY <2>1, <2>2
<1>7. OnDisk(m, val, a) => OnDisk(w, val, b)
  <2> HAVE OnDisk(m, val, a)
  <2>1. KnownBelow(m.list, a.next) => KnownBelow(w.list, b.next)
    BY <1>0, <1>4
  <2>2. ASSUME w.st # "NONE", Surplus(a.msgs, a.next, b) = 0, Len(m.list) <= Len(a.msgs),
               FitsTo(m.list, Len(m.list), a)
        PROVE  /\ Len(m.list) <= Len(w.list) /\ Len(w.list) <= Len(b.msgs)
               /\ FitsTo(w.list, Len(w.list), b)
    BY <1>0, <1>1, <1>6, <2>2
  <2> QED
    BY <1>1, <2>1, <2>2, OnDiskMoved
<1>8. Synced(m, val, a) => Synced(w, val, b)
  <2> HAVE Synced(m, val, a)
  <2>1. /\ Len(m.list) = Len(a.msgs) /\ FitsTo(m.list, Len(m.list), a) /\ m.sync.uidVal = val
        /\ m.sync.uidNext \in 1..a.next
        /\ KnownBelow(m.list, m.sync.uidNext)
    BY DEF Synced, Reflects
  <2>2. FitsTo(w.list, n, b)
    BY <1>0, <1>6, <2>1
  <2>3. m.sync.uidNext \in 1..b.next /\ KnownBelow(w.list, m.sync.uidNext)
    BY <1>0, <1>2, <1>4, <2>1
  <2> QED
    BY <1>1, <2>1, <2>2, <2>3 DEF Synced, Reflects
<1>9. ASSUME NEW tk \in Task, UidsAsked(m, tk, val, a)
      PROVE  UidsAsked(w, tk, val, b)
  <2> DEFINE f == tk.firstUnknown
             first == SearchArg(tk)
  <2>1. /\ m.sync.uidVal = val /\ m.sync.uidNext \in 1..a.next /\ m.st = "LOADING"
        /\ f <= Len(a.msgs) /\ f <= Len(m.list) /\ FitsTo(m.list, f, a)
        /\ Splits(a, first, f) /\ first <= a.next /\ KnownBelow(m.list, a.next)
    BY <1>9 DEF UidsAsked
  <2>2. f \in Nat /\ first \in Nat
    BY TaskFields DEF SearchArg
  <2>3. tk.firstUnknown = f /\ SearchArg(tk) = first
    OBVIOUS
  <2> HIDE DEF f, first
  <2>4. Splits(b, first, f)
    BY <2>1, <2>2, SplitsGrown
  <2>5. FitsTo(w.list, f, b) /\ KnownBelow(w.list, b.next)
    BY <1>0, <1>4, <1>5, <2>1, <2>2
  <2>6. w.st = "LOADING" /\ m.sync.uidNext \in 1..b.next /\ f <= n /\ f <= Len(w.list) /\ first <= b.next
    BY <1>0, <1>1, <1>2, <1>3, <2>1, <2>2
  <2> QED
    BY <1>1, <2>1, <2>3, <2>4, <2>5, <2>6 DEF UidsAsked
<1>10. w.st # "NONE"
  BY <1>1
<1> QED
  BY <1>1, <1>7, <1>8, <1>9, <1>10

\* A response that changes the mailbox only.
LEMMA UpdateFollows ==
    ASSUME Plain, TypeOK, TypeOK', NEW hs, FollowsServer(hs), net # <<>>, Handled,
           ~IsSelect(Head(net)), Noted(hs[2]), UNCHANGED <<task, cmds>>,
           Client(mb', task, srv.val, hs[2]), mb'.st # "NONE"
    PROVE  Onwards(hs)
<1>1. task' = task /\ CmdsStay
  BY DEF CmdsStay
<1>2. Client(mb', task', srv.val, hs[2])
  BY <1>1
<1> QED
  BY <1>1, <1>2, FollowsOn

\* The response codes of SELECT.
LEMMA HandleCodesKeepsUp ==
    ASSUME Plain, TypeOK, TypeOK', NEW hs, FollowsServer(hs), HandleCodes
    PROVE  Onwards(hs)
<1>1. /\ net # <<>> /\ Head(net).t = "CODES" /\ Handled /\ UNCHANGED <<task, cmds>>
      /\ mb' = IF task.status = "OFF" THEN mb
               ELSE [mb EXCEPT !.sync.uidNext = Head(net).uidNext,
                               !.sync.uidVal = Head(net).uidVal,
                               !.sync.modSeq = Head(net).modSeq]
  BY DEF HandleCodes, Next1, Update, Resp
<1>2. /\ Head(net) = net[1] /\ Len(net) >= 1 /\ Len(net) \in Nat
      /\ Tells(Head(net), hs[1], hs[2]) /\ Sane(hs[1]) /\ Sane(hs[2]) /\ Later(hs[1], hs[2])
      /\ hs[2].val = srv.val /\ srv.val \in Nat /\ hs[1].val = srv.val
      /\ Stream(hs) /\ Client(mb, task, srv.val, hs[1]) /\ mb.st # "NONE" /\ mb \in Mailbox
  BY <1>1, Remaining
<1>3. 1 \in 1..Len(net)
  BY <1>2
<1>4. task.status = "SELECTING"
  BY <1>1, <1>2, <1>3, NoSelect
<1>5. hs[2] = hs[1] /\ Head(net).uidNext = hs[1].next /\ Head(net).uidVal = hs[1].val
  BY <1>1, <1>2 DEF Tells
<1>6. mb.sync.exists = Len(hs[1].msgs)
  BY <1>1, <1>2, <1>3 DEF Stream, CodesInOrder
<1>7. /\ mb'.sync.exists = mb.sync.exists /\ mb'.sync.uidNext = Head(net).uidNext
      /\ mb'.sync.uidVal = Head(net).uidVal /\ mb'.list = mb.list /\ mb'.st = mb.st
      /\ SameDisk(mb, mb')
  BY <1>1, <1>2, <1>4 DEF Mailbox, SyncState, SameDisk
<1>8. SyncIs(mb', hs[2])
  BY <1>5, <1>6, <1>7 DEF SyncIs
<1>9. Noted(hs[2])
  BY <1>1, <1>8 DEF Noted
<1>10. mb' \in Mailbox
  BY DEF TypeOK
<1>11. OnDisk(mb', srv.val, hs[2])
  BY <1>2, <1>7, <1>10, OnDiskSame DEF Client
<1>12. Client(mb', task, srv.val, hs[2]) /\ mb'.st # "NONE"
  BY <1>2, <1>4, <1>7, <1>11 DEF Client, UidsAreKnown
<1>13. ~IsSelect(Head(net))
  BY <1>1 DEF IsSelect
<1> QED
  BY <1>1, <1>9, <1>12, <1>13, UpdateFollows

\* EXISTS tells the number of messages.
LEMMA ExistsTells ==
    ASSUME TypeOK, NEW hs, FollowsServer(hs), net # <<>>, Handled, Head(net).t = "EXISTS"
    PROVE  /\ Head(net).n = Len(hs[2].msgs) /\ Head(net).n \in Nat
           /\ hs[2] = hs[1] \/ Grown(hs[1], hs[2])
           /\ Sane(hs[1]) /\ Sane(hs[2]) /\ Later(hs[1], hs[2]) /\ srv.val \in Nat
           /\ Client(mb, task, srv.val, hs[1]) /\ mb.st # "NONE" /\ mb \in Mailbox
           /\ ~IsSelect(Head(net))
<1>1. /\ Head(net) \in Response /\ Tells(Head(net), hs[1], hs[2]) /\ Later(hs[1], hs[2])
      /\ Sane(hs[1]) /\ Sane(hs[2]) /\ srv.val \in Nat
      /\ Client(mb, task, srv.val, hs[1]) /\ mb.st # "NONE" /\ mb \in Mailbox
  BY Remaining
<1>2. Head(net).n = Len(hs[2].msgs) /\ (hs[2] = hs[1] \/ Grown(hs[1], hs[2]))
  BY <1>1 DEF Tells
<1>3. ~IsSelect(Head(net))
  BY DEF IsSelect
<1> QED
  BY <1>1, <1>2, <1>3, ResponseFields

\* The same number again, when the UIDs are known: nothing has arrived.
LEMMA NothingArrived ==
    ASSUME TypeOK, NEW hs, FollowsServer(hs), net # <<>>, Handled, Head(net).t = "EXISTS",
           task.status \in UidsAreKnown, Head(net).n = Len(mb.list), mb' = mb
    PROVE  Client(mb', task, srv.val, hs[2])
<1>1. /\ Head(net).n = Len(hs[2].msgs) /\ Client(mb, task, srv.val, hs[1])
      /\ (hs[2] = hs[1] \/ Grown(hs[1], hs[2])) /\ Sane(hs[1]) /\ Sane(hs[2])
  BY ExistsTells
<1>2. Len(mb.list) = Len(hs[1].msgs) /\ Len(hs[1].msgs) \in Nat
  BY <1>1, SaneFields DEF Client, Synced, Reflects
<1>3. hs[2] = hs[1]
  <2>1. Grown(hs[1], hs[2]) => Len(hs[2].msgs) = Len(hs[1].msgs) + 1
    BY <1>1, GrownKeeps
  <2> QED
    BY <1>1, <1>2, <2>1
<1> QED
  BY <1>1, <1>3

\* Messages that have arrived while the UIDs are known.
LEMMA ArrivedFollows ==
    ASSUME Plain, TypeOK, TypeOK', NEW hs, FollowsServer(hs), net # <<>>, Handled,
           Head(net).t = "EXISTS", task.status \in UidsAreKnown, ~ExistsThrows(mb, Head(net).n),
           NEW from \in Nat, NEW m,
           \/ m = HandleExists(mb, Head(net).n)
           \/ m = UpdateHighestKnownUid(HandleExists(mb, Head(net).n)),
           AskForArrivals(m, from)
    PROVE  Onwards(hs)
<1> DEFINE w == HandleExists(mb, Head(net).n)
<1>1. /\ Head(net).n = Len(hs[2].msgs) /\ Head(net).n \in Nat
      /\ hs[2] = hs[1] \/ Grown(hs[1], hs[2])
      /\ Sane(hs[1]) /\ Sane(hs[2]) /\ Later(hs[1], hs[2]) /\ srv.val \in Nat
      /\ Client(mb, task, srv.val, hs[1]) /\ mb.st # "NONE" /\ mb \in Mailbox
      /\ ~IsSelect(Head(net))
  BY ExistsTells
<1>2. w \in Mailbox /\ OnDisk(w, srv.val, hs[2]) /\ Synced(w, srv.val, hs[2])
  <2>1. OnDisk(mb, srv.val, hs[1]) /\ Synced(mb, srv.val, hs[1])
    BY <1>1 DEF Client
  <2> QED
    BY <1>1, <2>1, ExistsKeeps
<1>3. m = w \/ m = UpdateHighestKnownUid(w)
  OBVIOUS
<1> HIDE DEF w
<1>4. OnDisk(m, srv.val, hs[2]) /\ Synced(m, srv.val, hs[2])
  BY <1>1, <1>2, <1>3, RaisedKeeps
<1> DEFINE c == Command("ARRIVALS", IF from > 1 THEN from ELSE 1)
<1>5. /\ mb' = m /\ task' = [task EXCEPT !.arrivals = @ + 1] /\ cmds' = Append(cmds, c)
  BY DEF AskForArrivals, Issue
<1>6. Further(c)
  <2>1. c.t = "ARRIVALS" /\ c.tag = selects
    BY DEF Command
  <2>2. c \in Commands
    BY DEF Command, Commands, CommandKind, TypeOK
  <2> QED
    BY <2>1, <2>2 DEF Further
<1> HIDE DEF c
<1>7. task.status \notin {"SELECTING", "SYNCING_UIDS", "OFF"} /\ task \in Task
  BY DEF UidsAreKnown, TypeOK
<1>8. CmdsStay
  BY <1>5, <1>6, <1>7 DEF CmdsStay, Further
<1>9. task'.status = task.status /\ task'.qresync = task.qresync
  BY <1>5, <1>7 DEF Task
<1>10. mb'.st # "NONE"
  BY <1>4, <1>5 DEF Synced
<1>11. Client(mb', task', srv.val, hs[2])
  BY <1>1, <1>4, <1>5, <1>7, <1>9, <1>10 DEF Client
<1>12. Noted(hs[2])
  BY <1>7 DEF Noted
<1> QED
  BY <1>1, <1>7, <1>8, <1>9, <1>10, <1>11, <1>12, FollowsOn

\* EXISTS during the synchronization.
LEMMA ObtainExistsKeepsUp ==
    ASSUME Plain, TypeOK, TypeOK', NEW hs, FollowsServer(hs), ObtainExists
    PROVE  Onwards(hs)
<1> DEFINE n == Head(net).n
<1>1. net # <<>> /\ Head(net).t = "EXISTS"
  BY DEF ObtainExists, Next1
<1>2. ASSUME Handled
      PROVE  /\ n = Len(hs[2].msgs) /\ n \in Nat
             /\ hs[2] = hs[1] \/ Grown(hs[1], hs[2])
             /\ Sane(hs[1]) /\ Sane(hs[2]) /\ Later(hs[1], hs[2]) /\ srv.val \in Nat
             /\ Client(mb, task, srv.val, hs[1]) /\ mb.st # "NONE" /\ mb \in Mailbox
             /\ ~IsSelect(Head(net))
  BY <1>1, <1>2, ExistsTells
<1>3. mb' \in Mailbox
  BY DEF TypeOK
<1>4. CASE \E e : Throw(e)
  BY <1>4, ThrowKeepsUp
<1>5. CASE /\ task.status = "SELECTING" /\ Handled
           /\ Update([mb EXCEPT !.sync.exists = n,
                                !.list = IF task.qresync THEN @ \o Unknown(n - Len(@))
                                         ELSE @])
  <2>1. ~task.qresync
    BY <1>2, <1>5 DEF Client
  <2>2. /\ mb' = [mb EXCEPT !.sync.exists = n, !.list = IF task.qresync THEN @ \o Unknown(n - Len(@)) ELSE @]
        /\ UNCHANGED <<task, cmds>>
    BY <1>5 DEF Update
  <2>3. mb'.sync.exists = n /\ mb'.list = mb.list /\ mb'.st = mb.st /\ SameDisk(mb, mb')
    BY <1>2, <1>5, <2>1, <2>2 DEF Mailbox, SyncState, SameDisk
  <2>4. OnDisk(mb', srv.val, hs[2])
    BY <1>2, <1>3, <1>5, <2>3, OnDiskSame DEF Client
  <2>5. Client(mb', task, srv.val, hs[2])
    BY <1>2, <1>5, <2>3, <2>4 DEF Client, UidsAreKnown
  <2>6. Noted(hs[2])
    BY <1>1, <1>2, <1>5, <2>3 DEF Noted
  <2> QED
    BY <1>1, <1>2, <1>5, <2>2, <2>3, <2>5, <2>6, UpdateFollows
<1>6. CASE /\ task.status = "SYNCING_UIDS" /\ ~ExistsThrows(mb, n)
           /\ Handled /\ Update(UpdateHighestKnownUid(HandleExists(mb, n)))
  <2> DEFINE w == HandleExists(mb, n)
  <2>1. mb' = UpdateHighestKnownUid(w) /\ UNCHANGED <<task, cmds>> /\ task \in Task
    BY <1>6 DEF Update, TypeOK
  <2>2. OnDisk(mb, srv.val, hs[1]) /\ UidsAsked(mb, task, srv.val, hs[1])
    BY <1>2, <1>6 DEF Client
  <2>3. w \in Mailbox /\ OnDisk(w, srv.val, hs[2]) /\ UidsAsked(w, task, srv.val, hs[2])
    BY <1>2, <1>6, <2>1, <2>2, ExistsKeeps
  <2> HIDE DEF w
  <2>4. OnDisk(mb', srv.val, hs[2]) /\ UidsAsked(mb', task, srv.val, hs[2])
    BY <1>2, <1>6, <2>1, <2>3, RaisedKeeps
  <2>5. mb'.st # "NONE"
    BY <2>4 DEF UidsAsked
  <2>6. Client(mb', task, srv.val, hs[2])
    BY <1>2, <1>6, <2>4, <2>5 DEF Client, UidsAreKnown
  <2>7. Noted(hs[2])
    BY <1>6 DEF Noted
  <2> QED
    BY <1>1, <1>2, <1>6, <2>1, <2>5, <2>6, <2>7, UpdateFollows
<1>7. CASE /\ task.status \in {"SYNCING_FLAGS", "DONE"} /\ n = Len(mb.list)
           /\ Handled /\ Update(mb)
  <2>1. mb' = mb /\ UNCHANGED <<task, cmds>>
    BY <1>7 DEF Update
  <2>2. Client(mb', task, srv.val, hs[2])
    BY <1>1, <1>7, <2>1, NothingArrived DEF UidsAreKnown
  <2>3. Noted(hs[2])
    BY <1>7 DEF Noted
  <2> QED
    BY <1>1, <1>2, <1>7, <2>1, <2>2, <2>3, UpdateFollows
<1>8. CASE /\ task.status \in {"SYNCING_FLAGS", "DONE"} /\ ~ExistsThrows(mb, n) /\ Handled
           /\ LET m == UpdateHighestKnownUid(HandleExists(mb, n))
              IN AskForArrivals(m, m.sync.uidNext)
  <2> DEFINE m == UpdateHighestKnownUid(HandleExists(mb, n))
  <2>1. AskForArrivals(m, m.sync.uidNext) /\ task.status \in UidsAreKnown
    BY <1>8 DEF UidsAreKnown
  <2>2. m.sync.uidNext \in Nat
    BY <1>2, <1>8, HandleExistsType, UpdateHighestKnownUidType, MailboxFields
  <2> HIDE DEF m
  <2>3. m = UpdateHighestKnownUid(HandleExists(mb, Head(net).n))
    BY DEF m
  <2> QED
    BY <1>1, <1>8, <2>1, <2>2, <2>3, ArrivedFollows
<1> QED
  BY <1>4, <1>5, <1>6, <1>7, <1>8 DEF ObtainExists, Resp

\* EXISTS while the mailbox is open.
LEMMA KeepExistsKeepsUp ==
    ASSUME Plain, TypeOK, TypeOK', NEW hs, FollowsServer(hs), KeepExists
    PROVE  Onwards(hs)
<1> DEFINE n == Head(net).n
<1>1. net # <<>> /\ Head(net).t = "EXISTS" /\ task.status = "KEEP"
  BY DEF KeepExists, Next1
<1>2. CASE \E e : Throw(e)
  BY <1>2, ThrowKeepsUp
<1>3. CASE n = Len(mb.list) /\ Handled /\ Update(mb)
  <2>1. mb' = mb /\ UNCHANGED <<task, cmds>>
    BY <1>3 DEF Update
  <2>2. Client(mb', task, srv.val, hs[2])
    BY <1>1, <1>3, <2>1, NothingArrived DEF UidsAreKnown
  <2>3. Noted(hs[2]) /\ mb.st # "NONE" /\ ~IsSelect(Head(net))
    BY <1>1, <1>3, ExistsTells DEF Noted
  <2> QED
    BY <1>1, <1>3, <2>1, <2>2, <2>3, UpdateFollows
<1>4. CASE /\ ~ExistsThrows(mb, n) /\ Handled
           /\ LET m == HandleExists(mb, n)
              IN AskForArrivals(m, UpdateHighestKnownUid(m).sync.uidNext)
  <2> DEFINE m == HandleExists(mb, n)
             from == UpdateHighestKnownUid(m).sync.uidNext
  <2>1. AskForArrivals(m, from) /\ task.status \in UidsAreKnown
    BY <1>1, <1>4 DEF UidsAreKnown
  <2>2. mb \in Mailbox /\ n \in Nat
    BY <1>1, <1>4, ExistsTells
  <2>3. from \in Nat
    BY <1>4, <2>2, HandleExistsType, UpdateHighestKnownUidType, MailboxFields
  <2>4. m = HandleExists(mb, Head(net).n)
    OBVIOUS
  <2> HIDE DEF m, from
  <2> QED
    BY <1>1, <1>4, <2>1, <2>3, <2>4, ArrivedFollows
<1> QED
  BY <1>1, <1>2, <1>3, <1>4 DEF KeepExists, Resp

\* The message at position n of list and mailbox is expunged: what is left fits.
LEMMA ExpungedReflects ==
    ASSUME NEW list \in Seq(Message), NEW a, NEW b, Sane(a), Sane(b), NEW n \in 1..Len(a.msgs),
           b.msgs = RemoveAt(a.msgs, n), Reflects(list, a)
    PROVE  /\ n \in 1..Len(list) /\ RemoveAt(list, n) \in Seq(Message)
           /\ Len(RemoveAt(list, n)) = Len(list) - 1
           /\ Reflects(RemoveAt(list, n), b)
<1>1. /\ Len(list) = Len(a.msgs) /\ FitsTo(list, Len(list), a) /\ Len(a.msgs) \in Nat
      /\ a.msgs \in Seq(Uid)
  BY SaneFields DEF Reflects
<1>2. n \in 1..Len(list) /\ Len(list) \in Nat
  BY <1>1
<1>3. /\ RemoveAt(list, n) \in Seq(Message) /\ Len(RemoveAt(list, n)) = Len(list) - 1
      /\ Len(b.msgs) = Len(a.msgs) - 1
  BY <1>1, <1>2, RemoveAtElements
<1> DEFINE k == Len(list)
<1>4. k \in Nat /\ n <= k /\ k <= Len(list) /\ k <= Len(a.msgs) /\ FitsTo(list, k, a)
  BY <1>1, <1>2
<1> HIDE DEF k
<1>5. FitsTo(RemoveAt(list, n), k - 1, b)
  BY <1>2, <1>4, FitsExpunged
<1> QED
  BY <1>1, <1>2, <1>3, <1>5 DEF Reflects, k

\* EXPUNGE tells which message has gone.
LEMMA ExpungeTells ==
    ASSUME TypeOK, NEW hs, FollowsServer(hs), net # <<>>, Handled, Head(net).t = "EXPUNGE"
    PROVE  /\ Head(net).n \in 1..Len(hs[1].msgs) /\ Head(net).n \in Nat
           /\ hs[2].msgs = RemoveAt(hs[1].msgs, Head(net).n) /\ hs[2].next = hs[1].next
           /\ Len(hs[2].msgs) = Len(hs[1].msgs) - 1 /\ Len(hs[1].msgs) \in Nat
           /\ Surplus(hs[1].msgs, hs[1].next, hs[2]) # 0
           /\ Sane(hs[1]) /\ Sane(hs[2]) /\ Later(hs[1], hs[2]) /\ srv.val \in Nat
           /\ hs[1].next \in Nat
           /\ Client(mb, task, srv.val, hs[1]) /\ mb.st # "NONE" /\ mb \in Mailbox
           /\ ~IsSelect(Head(net)) /\ Noted(hs[2])
<1>1. /\ Head(net) \in Response /\ Tells(Head(net), hs[1], hs[2]) /\ Later(hs[1], hs[2])
      /\ Sane(hs[1]) /\ Sane(hs[2]) /\ srv.val \in Nat /\ hs[1].val = srv.val /\ hs[2].val = srv.val
      /\ Client(mb, task, srv.val, hs[1]) /\ mb.st # "NONE" /\ mb \in Mailbox
  BY Remaining
<1>2. /\ Head(net).n \in 1..Len(hs[1].msgs)
      /\ hs[2].msgs = RemoveAt(hs[1].msgs, Head(net).n) /\ hs[2].next = hs[1].next
  BY <1>1 DEF Tells
<1>3. hs[1].msgs \in Seq(Uid) /\ Len(hs[1].msgs) \in Nat /\ hs[2] \in Server /\ hs[1].next \in Nat
  BY <1>1, SaneFields
<1>4. Len(hs[2].msgs) = Len(hs[1].msgs) - 1
  BY <1>2, <1>3, RemoveAtElements
<1>5. Surplus(hs[1].msgs, hs[1].next, hs[2]) # 0
  <2>1. Surplus(hs[1].msgs, hs[1].next, hs[2]) < 0
    BY <1>1, <1>2, <1>3, LaterRemoved
  <2> SUFFICES ASSUME Surplus(hs[1].msgs, hs[1].next, hs[2]) = 0 PROVE FALSE
    OBVIOUS
  <2> QED
    BY <2>1
<1>6. ~IsSelect(Head(net)) /\ Noted(hs[2])
  BY DEF IsSelect, Noted
<1> QED
  BY <1>1, <1>2, <1>3, <1>4, <1>5, <1>6

\* The list without the message, while the UIDs are known.
LEMMA ExpungedFollows ==
    ASSUME NEW m \in Mailbox, NEW w \in Mailbox, NEW a, NEW b, Sane(a), Sane(b), Later(a, b),
           NEW n \in 1..Len(a.msgs), b.msgs = RemoveAt(a.msgs, n), b.next = a.next,
           NEW val \in Nat, OnDisk(m, val, a), Synced(m, val, a),
           w.list = RemoveAt(m.list, n), w.sync.uidVal = m.sync.uidVal,
           w.sync.uidNext = m.sync.uidNext, w.sync.exists = Len(w.list), w.st # "NONE",
           IsSaved(w) \/ SameDisk(m, w)
    PROVE  OnDisk(w, val, b) /\ Synced(w, val, b)
<1>1. /\ Reflects(m.list, a) /\ m.sync.uidVal = val /\ m.sync.uidNext \in 1..a.next
      /\ KnownBelow(m.list, m.sync.uidNext) /\ m.st # "NONE"
  BY DEF Synced
<1>2. m.list \in Seq(Message)
  BY MailboxFields
<1>3. n \in 1..Len(m.list) /\ Reflects(w.list, b)
  BY <1>1, <1>2, ExpungedReflects
<1>4. KnownBelow(w.list, w.sync.uidNext)
  BY <1>1, <1>2, <1>3, BelowExpunged
<1>5. Synced(w, val, b)
  BY <1>1, <1>3, <1>4 DEF Synced
<1>6. CASE IsSaved(w)
  BY <1>5, <1>6, OnDiskSaved
<1>7. CASE SameDisk(m, w)
  <2>1. Reflects(w.list, b) /\ (w.st # "NONE" => m.st # "NONE")
    BY <1>1, <1>3
  <2> QED
    BY <1>5, <1>7, <2>1, OnDiskReflected
<1> QED
  BY <1>5, <1>6, <1>7

\* EXPUNGE during the synchronization.
LEMMA ObtainExpungeKeepsUp ==
    ASSUME Plain, TypeOK, TypeOK', SyncInv, NEW hs, FollowsServer(hs), ObtainExpunge
    PROVE  Onwards(hs)
<1> DEFINE n == Head(net).n
           m == [mb EXCEPT !.sync.exists = OneLess(@)]
           known == IsKnown(n)
           a == hs[1]
           b == hs[2]
<1>1. net # <<>> /\ Head(net).t = "EXPUNGE" /\ task.status \in Syncing
  BY DEF ObtainExpunge, Next1
<1>2. CASE Throw("UnknownMessageIndex")
  BY <1>2, ThrowKeepsUp
<1>3. CASE /\ ~(known /\ ExpungeThrows(mb, n)) /\ Handled /\ UNCHANGED cmds
           /\ mb' = CASE ~known -> m
                      [] task.status = "DONE" -> SaveSyncStateAndUids(HandleExpunge(m, n))
                      [] OTHER -> HandleExpunge(m, n)
           /\ task' = IF known /\ task.status \in {"SELECTING", "SYNCING_UIDS"}
                      THEN [task EXCEPT !.firstUnknown = @ - 1] ELSE task
  <2>1. /\ n \in 1..Len(a.msgs) /\ n \in Nat
        /\ b.msgs = RemoveAt(a.msgs, n) /\ b.next = a.next
        /\ Len(b.msgs) = Len(a.msgs) - 1 /\ Len(a.msgs) \in Nat
        /\ Surplus(a.msgs, a.next, b) # 0
        /\ Sane(a) /\ Sane(b) /\ Later(a, b) /\ srv.val \in Nat /\ a.next \in Nat
        /\ Client(mb, task, srv.val, a) /\ mb.st # "NONE" /\ mb \in Mailbox
        /\ ~IsSelect(Head(net)) /\ Noted(b)
    BY <1>1, <1>3, ExpungeTells
  <2>2. /\ m.list = mb.list /\ m.st = mb.st /\ SameDisk(mb, m)
        /\ m.sync.exists = OneLess(mb.sync.exists) /\ m.sync.uidNext = mb.sync.uidNext
        /\ m.sync.uidVal = mb.sync.uidVal /\ m \in Mailbox
    <3>1. OneLess(mb.sync.exists) \in Nat
      BY <2>1, MailboxFields DEF OneLess
    <3>2. /\ m.list = mb.list /\ m.st = mb.st /\ SameDisk(mb, m)
          /\ m.sync.exists = OneLess(mb.sync.exists) /\ m.sync.uidNext = mb.sync.uidNext
          /\ m.sync.uidVal = mb.sync.uidVal
      BY <2>1 DEF Mailbox, SyncState, SameDisk
    <3>3. m \in Mailbox
      BY <2>1, <3>1 DEF Mailbox, SyncState
    <3> QED
      BY <3>2, <3>3
  <2>3. /\ mb' \in Mailbox /\ task \in Task /\ task.firstUnknown \in Nat /\ mb.list \in Seq(Message)
        /\ mb.sync.exists \in Nat /\ m.list \in Seq(Message)
    BY <2>1, <2>2, MailboxFields, TaskFields DEF TypeOK
  <2>4. CmdsStay
    BY <1>3 DEF CmdsStay
  <2>5. /\ ~known => mb' = m
        /\ known /\ task.status = "DONE" => mb' = SaveSyncStateAndUids(HandleExpunge(m, n))
        /\ known /\ task.status # "DONE" => mb' = HandleExpunge(m, n)
        /\ known /\ task.status \in {"SELECTING", "SYNCING_UIDS"}
              => task' = [task EXCEPT !.firstUnknown = @ - 1]
        /\ ~(known /\ task.status \in {"SELECTING", "SYNCING_UIDS"}) => task' = task
    <3>0. mb' = CASE ~known -> m
                  [] task.status = "DONE" -> SaveSyncStateAndUids(HandleExpunge(m, n))
                  [] OTHER -> HandleExpunge(m, n)
      BY <1>3
    <3>0a. ~known => task.status # "DONE"
      BY DEF IsKnown
    <3> HIDE DEF m, n, known
    <3>1. ~known => mb' = m
      BY <3>0, <3>0a
    <3>2. known /\ task.status = "DONE" => mb' = SaveSyncStateAndUids(HandleExpunge(m, n))
      BY <3>0
    <3>3. known /\ task.status # "DONE" => mb' = HandleExpunge(m, n)
      BY <3>0
    <3>4. known /\ task.status \in {"SELECTING", "SYNCING_UIDS"}
             => task' = [task EXCEPT !.firstUnknown = @ - 1]
      BY <1>3
    <3>5. ~(known /\ task.status \in {"SELECTING", "SYNCING_UIDS"}) => task' = task
      BY <1>3
    <3> QED
      BY <3>1, <3>2, <3>3, <3>4, <3>5
  <2>6. known <=> (task.status \in {"SYNCING_FLAGS", "DONE"} \/ n <= task.firstUnknown)
    BY DEF IsKnown
  <2>7. known => /\ ~ExpungeThrows(m, n)
    BY <1>3, <2>2 DEF ExpungeThrows
  <2> HIDE DEF n, m, known, a, b
  <2>7a. n = Head(net).n /\ a = hs[1] /\ b = hs[2]
    BY DEF n, a, b
  <2>8. known => /\ n \in 1..Len(m.list) /\ HandleExpunge(m, n).list = RemoveAt(m.list, n)
                 /\ HandleExpunge(m, n).st = m.st
                 /\ HandleExpunge(m, n) \in Mailbox /\ HandleExpunge(m, n).sync = m.sync
                 /\ IF m.st = "DONE" THEN IsSaved(HandleExpunge(m, n))
                    ELSE SameDisk(m, HandleExpunge(m, n))
    BY <2>1, <2>2, <2>7, HandleExpungeDoes, HandleExpungeType
  <2>9. CASE ~known
    <3>1. mb' = m /\ task' = task
      BY <2>5, <2>9
    <3>2. OnDisk(mb', srv.val, b)
      BY <2>1, <2>2, <2>3, <3>1, OnDiskSame DEF Client
    <3>3. CASE task.status = "SELECTING"
      <4>1. Client(mb', task', srv.val, b)
        BY <2>1, <2>2, <3>1, <3>2, <3>3 DEF Client, UidsAreKnown
      <4> QED
        BY <1>1, <1>3, <2>1, <2>2, <2>4, <2>7a, <3>1, <3>3, <4>1, FollowsOn
    <3>4. CASE task.status = "SYNCING_UIDS"
      <4> DEFINE f == task.firstUnknown
                 first == SearchArg(task)
      <4>1. /\ mb.sync.exists = Len(a.msgs) /\ mb.sync.uidVal = srv.val
            /\ mb.sync.uidNext \in 1..a.next /\ mb.st = "LOADING"
            /\ f <= Len(a.msgs) /\ f <= Len(mb.list) /\ FitsTo(mb.list, f, a)
            /\ Splits(a, first, f) /\ first <= a.next /\ KnownBelow(mb.list, a.next)
        BY <2>1, <3>4 DEF Client, UidsAsked
      <4>2. f \in Nat /\ first \in Nat /\ ~(n <= f)
        BY <2>3, <2>6, <2>9, TaskFields DEF SearchArg
      <4>3. f = task.firstUnknown /\ first = SearchArg(task)
        OBVIOUS
      <4> HIDE DEF f, first
      <4>3a. f < n
        BY <2>1, <4>2
      <4>4. FitsTo(mb.list, f, b)
        BY <2>1, <2>3, <4>1, <4>2, <4>3a, FitsBefore
      <4>5. Splits(b, first, f)
        BY <2>1, <4>1, <4>2, SplitsExpunged
      <4>6. m.sync.exists = Len(b.msgs) /\ f <= Len(b.msgs)
        BY <2>1, <2>2, <4>1, <4>2 DEF OneLess
      <4>7. UidsAsked(mb', task', srv.val, b)
        BY <2>1, <2>2, <3>1, <4>1, <4>3, <4>4, <4>5, <4>6 DEF UidsAsked
      <4>8. Client(mb', task', srv.val, b)
        BY <2>1, <2>2, <3>1, <3>2, <3>4, <4>7 DEF Client, UidsAreKnown
      <4> QED
        BY <1>1, <1>3, <2>1, <2>2, <2>4, <2>7a, <3>1, <3>4, <4>8, FollowsOn
    <3> QED
      BY <1>1, <2>6, <2>9, <3>3, <3>4 DEF Syncing
  <2>10. CASE known /\ task.status = "SYNCING_UIDS"
    <3>1. mb' = HandleExpunge(m, n) /\ task' = [task EXCEPT !.firstUnknown = @ - 1]
      BY <2>5, <2>10
    <3>2. /\ task'.firstUnknown = task.firstUnknown - 1 /\ task'.status = task.status
          /\ task'.qresync = task.qresync /\ task'.mode = task.mode /\ task'.old = task.old
      BY <2>3, <3>1 DEF Task
    <3>3. SearchArg(task') = SearchArg(task)
      BY <3>2 DEF SearchArg
    <3> DEFINE f == task.firstUnknown
               first == SearchArg(task)
    <3>4. /\ mb.sync.exists = Len(a.msgs) /\ mb.sync.uidVal = srv.val
          /\ mb.sync.uidNext \in 1..a.next /\ mb.st = "LOADING"
          /\ f <= Len(a.msgs) /\ f <= Len(mb.list) /\ FitsTo(mb.list, f, a)
          /\ Splits(a, first, f) /\ first <= a.next /\ KnownBelow(mb.list, a.next)
      BY <2>1, <2>10 DEF Client, UidsAsked
    <3>5. f \in Nat /\ first \in Nat /\ n <= f
      BY <2>3, <2>6, <2>10, TaskFields DEF SearchArg
    <3>6. f = task.firstUnknown /\ first = SearchArg(task)
      OBVIOUS
    <3> HIDE DEF f, first
    <3>7. /\ mb'.list = RemoveAt(mb.list, n) /\ mb'.st = mb.st /\ mb'.sync = m.sync
          /\ n \in 1..Len(mb.list) /\ SameDisk(m, mb')
      BY <2>2, <2>8, <2>10, <3>1, <3>4
    <3>8. SameDisk(mb, mb')
      BY <2>2, <3>7 DEF SameDisk
    <3>9. FitsTo(mb'.list, f - 1, b)
      BY <2>1, <2>3, <3>4, <3>5, <3>7, FitsExpunged
    <3>10. Splits(b, first, f - 1)
      BY <2>1, <3>4, <3>5, SplitsExpunged
    <3>11. KnownBelow(mb'.list, b.next)
      BY <2>1, <2>3, <3>4, <3>7, BelowExpunged
    <3>12. Len(mb'.list) = Len(mb.list) - 1 /\ Len(mb.list) \in Nat
      BY <2>3, <3>7, RemoveAtElements
    <3>13. m.sync.exists = Len(b.msgs) /\ f - 1 <= Len(b.msgs) /\ f - 1 <= Len(mb'.list)
      BY <2>1, <2>2, <3>4, <3>5, <3>12 DEF OneLess
    <3>14. UidsAsked(mb', task', srv.val, b)
      BY <2>1, <2>2, <3>2, <3>3, <3>4, <3>6, <3>7, <3>9, <3>10, <3>11, <3>13 DEF UidsAsked
    <3>15. OnDisk(mb', srv.val, b)
      <4>1. OnDisk(mb, srv.val, a)
        BY <2>1 DEF Client
      <4> QED
        BY <2>1, <2>3, <3>8, <3>11, <4>1, OnDiskMoved
    <3>16. mb'.st # "NONE"
      BY <2>1, <3>7
    <3>17. Client(mb', task', srv.val, b)
      BY <2>1, <2>10, <3>2, <3>14, <3>15, <3>16 DEF Client, UidsAreKnown
    <3> QED
      BY <1>1, <1>3, <2>1, <2>4, <2>7a, <2>10, <3>2, <3>3, <3>16, <3>17, FollowsOn
  <2>11. CASE task.status \in {"SYNCING_FLAGS", "DONE"}
    <3>1. known /\ task' = task
      BY <2>5, <2>6, <2>11
    <3>2. OnDisk(mb, srv.val, a) /\ Synced(mb, srv.val, a)
      BY <2>1, <2>11 DEF Client, UidsAreKnown
    <3> DEFINE x == HandleExpunge(m, n)
    <3>3. /\ x.list = RemoveAt(mb.list, n) /\ x.st = mb.st /\ x.sync = m.sync /\ x \in Mailbox
          /\ n \in 1..Len(mb.list)
          /\ IF mb.st = "DONE" THEN IsSaved(x) ELSE SameDisk(m, x)
      BY <2>2, <2>8, <3>1
    <3> HIDE DEF x
    <3>4. /\ mb'.list = x.list /\ mb'.sync = x.sync /\ mb'.st # "NONE"
          /\ IsSaved(mb') \/ SameDisk(mb, mb')
      <4>1. CASE task.status = "DONE"
        <5>1. mb' = SaveSyncStateAndUids(x)
          BY <2>5, <3>1, <4>1 DEF x
        <5>2. /\ SaveSyncStateAndUids(x).list = x.list /\ SaveSyncStateAndUids(x).sync = x.sync
              /\ SaveSyncStateAndUids(x).st = "DONE" /\ IsSaved(SaveSyncStateAndUids(x))
          BY <3>3, SaveType, SaveDoes
        <5> QED
          BY <5>1, <5>2
      <4>2. CASE task.status # "DONE"
        <5>1. mb' = x
          BY <2>5, <3>1, <4>2 DEF x
        <5>2. IsSaved(x) \/ SameDisk(mb, x)
          BY <2>2, <3>3 DEF SameDisk
        <5> QED
          BY <2>1, <3>3, <5>1, <5>2
      <4> QED
        BY <4>1, <4>2
    <3>5. mb'.sync.exists = Len(mb'.list)
      <4>1. mb.sync.exists = Len(mb.list)
        BY <2>11 DEF SyncInv, CountsAgree
      <4>2. Len(mb'.list) = Len(mb.list) - 1 /\ Len(mb.list) >= 1 /\ Len(mb.list) \in Nat
        <5>1. mb.list \in Seq(Message) /\ Len(mb.list) \in Nat
          BY MailboxFields DEF TypeOK
        <5>2. Len(RemoveAt(mb.list, n)) = Len(mb.list) - 1
          BY <3>3, <5>1, RemoveAtElements
        <5>3. mb'.list = RemoveAt(mb.list, n)
          BY <3>3, <3>4
        <5>4. Len(mb.list) >= 1
          BY <3>3, <5>1
        <5> QED
          BY <5>1, <5>2, <5>3, <5>4
      <4>3. mb'.sync.exists = OneLess(mb.sync.exists)
        BY <2>2, <3>3, <3>4
      <4> QED
        BY <4>1, <4>2, <4>3 DEF OneLess
    <3>6. OnDisk(mb', srv.val, b) /\ Synced(mb', srv.val, b)
      <4>1. /\ mb'.list = RemoveAt(mb.list, n) /\ mb'.sync.uidVal = mb.sync.uidVal
            /\ mb'.sync.uidNext = mb.sync.uidNext
        BY <2>2, <3>3, <3>4
      <4> QED
        BY <2>1, <2>3, <3>2, <3>4, <3>5, <4>1, ExpungedFollows
    <3>7. Client(mb', task', srv.val, b)
      BY <2>1, <2>11, <3>1, <3>4, <3>6 DEF Client
    <3> QED
      BY <1>1, <1>3, <2>1, <2>4, <2>7a, <2>11, <3>1, <3>4, <3>7, FollowsOn
  <2>12. CASE known /\ task.status = "SELECTING"
    <3>1. task.firstUnknown = 0
      BY <2>1, <2>12 DEF Client
    <3>2. n <= 0
      BY <2>6, <2>12, <3>1
    <3>3. n >= 1
      BY <2>1
    <3> QED
      BY <2>1, <3>2, <3>3
  <2> QED
    BY <1>1, <2>9, <2>10, <2>11, <2>12 DEF Syncing
<1> QED
  BY <1>2, <1>3 DEF ObtainExpunge, Resp

\* EXPUNGE while the mailbox is open.
LEMMA KeepExpungeKeepsUp ==
    ASSUME Plain, TypeOK, TypeOK', SyncInv, NEW hs, FollowsServer(hs), KeepExpunge
    PROVE  Onwards(hs)
<1> DEFINE n == Head(net).n
           x == HandleExpunge(mb, n)
           m == [x EXCEPT !.sync.exists = @ - 1]
           a == hs[1]
           b == hs[2]
<1>1. net # <<>> /\ Head(net).t = "EXPUNGE" /\ task.status = "KEEP"
  BY DEF KeepExpunge, Next1
<1>2. CASE Throw("UnknownMessageIndex")
  BY <1>2, ThrowKeepsUp
<1>3. CASE ~ExpungeThrows(mb, n) /\ Handled /\ Update(SaveSyncStateNowOrLater(m))
  <2>1. /\ n \in 1..Len(a.msgs) /\ n \in Nat
        /\ b.msgs = RemoveAt(a.msgs, n) /\ b.next = a.next
        /\ Sane(a) /\ Sane(b) /\ Later(a, b) /\ srv.val \in Nat
        /\ Client(mb, task, srv.val, a) /\ mb.st # "NONE" /\ mb \in Mailbox
        /\ ~IsSelect(Head(net)) /\ Noted(b)
    BY <1>1, <1>3, ExpungeTells
  <2>2. mb' = SaveSyncStateNowOrLater(m) /\ UNCHANGED <<task, cmds>> /\ mb' \in Mailbox
    BY <1>3 DEF Update, TypeOK
  <2>3. /\ x.list = RemoveAt(mb.list, n) /\ x.st = mb.st /\ x.sync = mb.sync /\ x \in Mailbox
        /\ n \in 1..Len(mb.list)
        /\ mb.st # "DONE" => SameDisk(mb, x)
    BY <1>3, <2>1, HandleExpungeDoes, HandleExpungeType
  <2>4. mb.sync.exists = Len(mb.list) /\ mb.list \in Seq(Message) /\ Len(mb.list) \in Nat
    BY <1>1, <2>1, MailboxFields DEF SyncInv, CountsAgree
  <2>5. Len(x.list) = Len(mb.list) - 1 /\ Len(mb.list) >= 1
    <3>1. Len(RemoveAt(mb.list, n)) = Len(mb.list) - 1
      BY <2>3, <2>4, RemoveAtElements
    <3>2. Len(mb.list) >= 1
      BY <2>1, <2>3, <2>4
    <3> QED
      BY <2>3, <3>1, <3>2
  <2>5a. n = Head(net).n /\ a = hs[1] /\ b = hs[2] /\ m = [x EXCEPT !.sync.exists = @ - 1]
    OBVIOUS
  <2> HIDE DEF n, x, m, a, b
  <2>6. /\ m.list = x.list /\ m.st = x.st /\ SameDisk(x, m) /\ m.sync.exists = Len(m.list)
        /\ m.sync.uidNext = mb.sync.uidNext /\ m.sync.uidVal = mb.sync.uidVal
    <3>1. /\ m.list = x.list /\ m.st = x.st /\ SameDisk(x, m)
          /\ m.sync.exists = x.sync.exists - 1
          /\ m.sync.uidNext = x.sync.uidNext /\ m.sync.uidVal = x.sync.uidVal
      BY <2>3, <2>5a DEF Mailbox, SyncState, SameDisk
    <3> QED
      BY <2>3, <2>4, <2>5, <3>1
  <2>7. m \in Mailbox
    <3>1. x.sync.exists - 1 \in Nat
      BY <2>3, <2>4, <2>5
    <3> QED
      BY <2>3, <2>5a, <3>1 DEF Mailbox, SyncState
  <2>8. /\ mb'.list = m.list /\ mb'.sync = m.sync
    BY <2>2, <2>7, SaveNowOrLaterType
  <2>9. mb'.st # "NONE" /\ (IsSaved(mb') \/ SameDisk(mb, mb'))
    <3>1. CASE m.st = "DONE"
      <4>1. mb' = SaveSyncStateAndUids(m)
        BY <2>2, <3>1 DEF SaveSyncStateNowOrLater
      <4>2. SaveSyncStateAndUids(m).st = "DONE" /\ IsSaved(SaveSyncStateAndUids(m))
        BY <2>7, SaveDoes
      <4> QED
        BY <4>1, <4>2
    <3>2. CASE m.st # "DONE"
      <4>1. mb' = [m EXCEPT !.st = "LOADING"]
        BY <2>2, <3>2 DEF SaveSyncStateNowOrLater
      <4>2. mb'.st = "LOADING" /\ SameDisk(m, mb')
        BY <2>7, <4>1 DEF Mailbox, SameDisk
      <4>3. SameDisk(mb, x)
        BY <2>3, <2>6, <3>2
      <4> QED
        BY <2>6, <4>2, <4>3 DEF SameDisk
    <3> QED
      BY <3>1, <3>2
  <2>10. OnDisk(mb, srv.val, a) /\ Synced(mb, srv.val, a)
    BY <1>1, <2>1 DEF Client, UidsAreKnown
  <2>11. OnDisk(mb', srv.val, b) /\ Synced(mb', srv.val, b)
    <3>1. /\ mb'.list = RemoveAt(mb.list, n) /\ mb'.sync.uidVal = mb.sync.uidVal
          /\ mb'.sync.uidNext = mb.sync.uidNext /\ mb'.sync.exists = Len(mb'.list)
      BY <2>3, <2>6, <2>8
    <3> QED
      BY <2>1, <2>2, <2>9, <2>10, <3>1, ExpungedFollows
  <2>12. Client(mb', task, srv.val, b)
    BY <1>1, <2>1, <2>9, <2>11 DEF Client
  <2> QED
    BY <1>1, <1>3, <2>1, <2>2, <2>5a, <2>9, <2>12, UpdateFollows
<1> QED
  BY <1>1, <1>2, <1>3 DEF KeepExpunge, Resp

\* VANISHED is not sent without QRESYNC.
LEMMA NoneVanished ==
    ASSUME TypeOK, NEW hs, FollowsServer(hs)
    PROVE  ~Vanished /\ ~VanishedEarlier
<1> SUFFICES ASSUME Vanished \/ VanishedEarlier PROVE FALSE
  OBVIOUS
<1>1. net # <<>> /\ Head(net).t \in {"VANISHED", "EARLIER"} /\ Handled
  BY DEF Vanished, VanishedEarlier, Next1
<1>2. Tells(Head(net), hs[1], hs[2])
  BY <1>1, Remaining
<1> QED
  BY <1>1, <1>2 DEF Tells

\* A FETCH that is true of the mailbox: UIDs are learnt, and UIDNEXT with them.
LEMMA FetchKeeps ==
    ASSUME NEW m \in Mailbox, NEW val \in Nat, NEW a, NEW b, Sane(a), Sane(b), Later(a, b),
           NEW r \in [t: {"FETCH"}, n: Nat, uid: 0..MaxUid, fl: Nat, mod: Nat],
           ~FetchThrows(m, r), Tells(r, a, b),
           NEW w, w = HandleFetchResponse(m, r), m.st # "NONE"
    PROVE  /\ w \in Mailbox /\ w.st # "NONE" /\ (m.st = "LOADING" => w.st = "LOADING")
           /\ OnDisk(m, val, a) => OnDisk(w, val, b)
           /\ Synced(m, val, a) => Synced(w, val, b)
           /\ \A tk : tk \in Task /\ UidsAsked(m, tk, val, a) => UidsAsked(w, tk, val, b)
<1>1. /\ b.msgs = a.msgs /\ b.next = a.next /\ r.n \in 1..Len(a.msgs)
      /\ r.uid \in {0, a.msgs[r.n]} /\ r.mod = 0
  BY DEF Tells
<1>2. /\ w \in Mailbox /\ Len(w.list) = Len(m.list) /\ w.sync.exists = m.sync.exists
      /\ SameDisk(m, w) /\ r.n \in 1..Len(m.list)
      /\ \A j \in 1..Len(m.list) :
            w.list[j].uid = IF j = r.n /\ UidLearnt(m, r) THEN r.uid ELSE m.list[j].uid
      /\ w.sync.uidVal = m.sync.uidVal
      /\ w.sync.uidNext = IF UidLearnt(m, r) /\ m.sync.uidNext <= r.uid THEN r.uid + 1
                          ELSE m.sync.uidNext
      /\ w.st \in {m.st, "LOADING"}
  BY <1>1, HandleFetchDoes, HandleFetchResponseType
<1>3. /\ a.next \in Nat /\ Len(a.msgs) \in Nat /\ a.msgs[r.n] \in Nat /\ a.msgs[r.n] < a.next
  BY <1>1, SaneFields
<1>4. m.list \in Seq(Message) /\ Len(m.list) \in Nat /\ m.sync.uidNext \in Nat
  BY MailboxFields
<1>5. \A j \in 1..Len(m.list) : m.list[j].uid \in Nat
  BY <1>4, ListUids
<1>6. UidLearnt(m, r) => r.uid = a.msgs[r.n]
  BY <1>1 DEF UidLearnt
<1>7. \A j \in 1..Len(m.list) : w.list[j].uid \in {m.list[j].uid, a.msgs[r.n]}
  BY <1>2, <1>6
<1>8. KnownBelow(m.list, a.next) => KnownBelow(w.list, b.next)
  BY <1>1, <1>2, <1>3, <1>7 DEF KnownBelow
<1>9. ASSUME NEW k \in Nat, k <= Len(m.list), FitsTo(m.list, k, a)
      PROVE  FitsTo(w.list, k, b)
  <2> SUFFICES ASSUME NEW j \in 1..k PROVE w.list[j].uid \in {0, b.msgs[j]}
    BY DEF FitsTo
  <2>1. j \in 1..Len(m.list) /\ m.list[j].uid \in {0, a.msgs[j]}
    BY <1>4, <1>9 DEF FitsTo
  <2>2. CASE j = r.n /\ UidLearnt(m, r)
    BY <1>1, <1>2, <1>6, <2>1, <2>2
  <2>3. CASE ~(j = r.n /\ UidLearnt(m, r))
    BY <1>1, <1>2, <2>1, <2>3
  <2> QED
    BY <2>2, <2>3
<1>10. m.sync.uidNext \in 1..a.next => w.sync.uidNext \in 1..b.next
  BY <1>1, <1>2, <1>3, <1>4, <1>6
<1>11. OnDisk(m, val, a) => OnDisk(w, val, b)
  <2> HAVE OnDisk(m, val, a)
  <2>1. ASSUME w.st # "NONE", Surplus(a.msgs, a.next, b) = 0, Len(m.list) <= Len(a.msgs),
               FitsTo(m.list, Len(m.list), a)
        PROVE  /\ Len(m.list) <= Len(w.list) /\ Len(w.list) <= Len(b.msgs)
               /\ FitsTo(w.list, Len(w.list), b)
    <3>1. FitsTo(w.list, Len(m.list), b)
      BY <1>4, <1>9, <2>1
    <3> QED
      BY <1>1, <1>2, <1>4, <2>1, <3>1
  <2> QED
    BY <1>2, <1>8, <2>1, OnDiskMoved
<1>12. Synced(m, val, a) => Synced(w, val, b)
  <2> HAVE Synced(m, val, a)
  <2>1. /\ Len(m.list) = Len(a.msgs) /\ FitsTo(m.list, Len(m.list), a) /\ m.sync.uidVal = val
        /\ m.sync.uidNext \in 1..a.next
        /\ KnownBelow(m.list, m.sync.uidNext)
    BY DEF Synced, Reflects
  <2>2. FitsTo(w.list, Len(m.list), b)
    BY <1>4, <1>9, <2>1
  <2>3. KnownBelow(w.list, w.sync.uidNext)
    <3> SUFFICES ASSUME NEW j \in 1..Len(w.list) PROVE w.list[j].uid < w.sync.uidNext
      BY DEF KnownBelow
    <3>1. j \in 1..Len(m.list) /\ m.list[j].uid < m.sync.uidNext /\ m.list[j].uid \in Nat
      BY <1>2, <1>5, <2>1 DEF KnownBelow
    <3>2. w.sync.uidNext >= m.sync.uidNext /\ w.sync.uidNext \in Nat
      BY <1>2, <1>3, <1>4, <1>6
    <3>3. CASE j = r.n /\ UidLearnt(m, r)
      <4>1. w.list[j].uid = r.uid /\ r.uid \in Nat
        BY <1>2, <1>3, <1>6, <3>1, <3>3
      <4>2. CASE m.sync.uidNext <= r.uid
        BY <1>2, <3>3, <4>1, <4>2
      <4>3. CASE ~(m.sync.uidNext <= r.uid)
        BY <1>2, <1>4, <3>3, <4>1, <4>3
      <4> QED
        BY <4>2, <4>3
    <3>4. CASE ~(j = r.n /\ UidLearnt(m, r))
      <4>1. w.list[j].uid = m.list[j].uid
        BY <1>2, <3>1, <3>4
      <4>2. w.list[j].uid < m.sync.uidNext /\ w.list[j].uid \in Nat
        BY <3>1, <4>1
      <4>3. m.sync.uidNext \in Nat
        BY <1>4
      <4> QED
        BY <3>2, <4>2, <4>3
    <3> QED
      BY <3>3, <3>4
  <2>4. w.st # "NONE"
    BY <1>2
  <2> QED
    BY <1>1, <1>2, <1>10, <2>1, <2>2, <2>3, <2>4 DEF Synced, Reflects
<1>13. ASSUME NEW tk \in Task, UidsAsked(m, tk, val, a)
       PROVE  UidsAsked(w, tk, val, b)
  <2> DEFINE f == tk.firstUnknown
             first == SearchArg(tk)
  <2>1. /\ m.sync.exists = Len(a.msgs) /\ m.sync.uidVal = val /\ m.sync.uidNext \in 1..a.next
        /\ m.st = "LOADING" /\ f <= Len(a.msgs) /\ f <= Len(m.list) /\ FitsTo(m.list, f, a)
        /\ Splits(a, first, f) /\ first <= a.next /\ KnownBelow(m.list, a.next)
    BY <1>13 DEF UidsAsked
  <2>2. f \in Nat
    BY TaskFields
  <2>3. tk.firstUnknown = f /\ SearchArg(tk) = first
    OBVIOUS
  <2> HIDE DEF f, first
  <2>4. Splits(b, first, f)
    BY <1>1, <2>1 DEF Splits
  <2>5. FitsTo(w.list, f, b)
    BY <1>9, <2>1, <2>2
  <2>6. w.st = "LOADING"
    BY <1>2, <2>1
  <2> QED
    BY <1>1, <1>2, <1>8, <1>10, <2>1, <2>3, <2>4, <2>5, <2>6 DEF UidsAsked
<1> QED
  BY <1>2, <1>11, <1>12, <1>13

\* UIDNEXT one past a message of the list.
LEMMA PastMessage ==
    ASSUME NEW m \in Mailbox, NEW val \in Nat, NEW h, Sane(h), NEW n \in 1..Len(m.list),
           m.sync.uidNext <= m.list[n].uid,
           NEW w, w = [m EXCEPT !.sync.uidNext = m.list[n].uid + 1]
    PROVE  /\ w.st = m.st
           /\ OnDisk(m, val, h) => OnDisk(w, val, h)
           /\ Synced(m, val, h) => Synced(w, val, h)
           /\ \A tk : UidsAsked(m, tk, val, h) => UidsAsked(w, tk, val, h)
<1>1. /\ m.list \in Seq(Message) /\ m.sync.uidNext \in Nat /\ m.list[n].uid \in Nat
  BY MailboxFields, ListUids
<1>2. /\ w.list = m.list /\ w.st = m.st /\ w.sync.exists = m.sync.exists
      /\ w.sync.uidVal = m.sync.uidVal /\ w.sync.uidNext = m.list[n].uid + 1
      /\ SameDisk(m, w)
  BY DEF Mailbox, SyncState, SameDisk
<1>3. w \in Mailbox
  <2>0. PICK k \in Nat : k = m.list[n].uid + 1
    BY <1>1
  <2>1. PICK s : s = [m.sync EXCEPT !.uidNext = k]
    OBVIOUS
  <2>2. s \in SyncState
    <3>1. m.sync \in SyncState
      BY MailboxFields
    <3> QED
      BY <2>1, <3>1 DEF SyncState
  <2>3. w = [m EXCEPT !.sync = s]
    BY <2>0, <2>1
  <2> QED
    BY <2>2, <2>3 DEF Mailbox
<1>4. h.next \in Nat /\ h \in Server /\ Later(h, h)
  BY SaneFields, LaterSame
<1>5. OnDisk(m, val, h) => OnDisk(w, val, h)
  BY <1>2, <1>3, <1>4, OnDiskSame
<1>6. KnownBelow(m.list, h.next) => w.sync.uidNext \in 1..h.next
  BY <1>1, <1>2, <1>4 DEF KnownBelow
<1>7. ~Synced(m, val, h)
  BY <1>1 DEF Synced, KnownBelow
<1>8. ASSUME NEW tk, UidsAsked(m, tk, val, h)
      PROVE  UidsAsked(w, tk, val, h)
  BY <1>2, <1>6, <1>8 DEF UidsAsked
<1> QED
  BY <1>2, <1>5, <1>7, <1>8

\* FETCH.
LEMMA HandleFetchKeepsUp ==
    ASSUME Plain, TypeOK, TypeOK', NEW hs, FollowsServer(hs), HandleFetch
    PROVE  Onwards(hs)
<1> DEFINE r == Head(net)
           m == HandleFetchResponse(mb, r)
           a == hs[1]
           b == hs[2]
<1>1. net # <<>> /\ Head(net).t = "FETCH" /\ task.status # "OFF"
  BY DEF HandleFetch, Next1
<1>2. CASE \E e : Throw(e)
  BY <1>2, ThrowKeepsUp
<1>3. CASE /\ ~FetchThrows(mb, r) /\ Handled
           /\ Update(IF /\ task.status \in Syncing /\ MessageChanged(mb, r)
                        /\ m.sync.uidNext <= m.list[r.n].uid
                     THEN [m EXCEPT !.sync.uidNext = m.list[r.n].uid + 1] ELSE m)
  <2>1. /\ r \in Response /\ Tells(r, a, b) /\ Later(a, b)
        /\ Sane(a) /\ Sane(b) /\ srv.val \in Nat
        /\ Client(mb, task, srv.val, a) /\ mb.st # "NONE" /\ mb \in Mailbox
    BY <1>1, <1>3, Remaining
  <2>2. r \in [t: {"FETCH"}, n: Nat, uid: 0..MaxUid, fl: Nat, mod: Nat] /\ task \in Task
    BY <1>1, <2>1, ResponseFields DEF TypeOK
  <2>3. UNCHANGED <<task, cmds>> /\ (mb' = m \/ /\ m.sync.uidNext <= m.list[r.n].uid
                                                /\ mb' = [m EXCEPT !.sync.uidNext = m.list[r.n].uid + 1])
    BY <1>3 DEF Update
  <2>4. /\ m \in Mailbox /\ m.st # "NONE" /\ (mb.st = "LOADING" => m.st = "LOADING")
        /\ OnDisk(mb, srv.val, a) => OnDisk(m, srv.val, b)
        /\ Synced(mb, srv.val, a) => Synced(m, srv.val, b)
        /\ UidsAsked(mb, task, srv.val, a) => UidsAsked(m, task, srv.val, b)
    <3>1. m = HandleFetchResponse(mb, r) /\ ~FetchThrows(mb, r)
      BY <1>3
    <3> HIDE DEF m, r, a, b
    <3>2. /\ m \in Mailbox /\ m.st # "NONE" /\ (mb.st = "LOADING" => m.st = "LOADING")
          /\ OnDisk(mb, srv.val, a) => OnDisk(m, srv.val, b)
          /\ Synced(mb, srv.val, a) => Synced(m, srv.val, b)
          /\ \A tk : tk \in Task /\ UidsAsked(mb, tk, srv.val, a) => UidsAsked(m, tk, srv.val, b)
      BY <2>1, <2>2, <3>1, FetchKeeps
    <3> QED
      BY <2>2, <3>2
  <2>5. r.n \in 1..Len(m.list)
    BY <1>3, <2>1, <2>2, HandleFetchResponseType DEF FetchThrows
  <2>5a. r = Head(net) /\ b = hs[2]
    OBVIOUS
  <2> HIDE DEF r, m, a, b
  <2>6. /\ mb'.st = m.st
        /\ OnDisk(m, srv.val, b) => OnDisk(mb', srv.val, b)
        /\ Synced(m, srv.val, b) => Synced(mb', srv.val, b)
        /\ UidsAsked(m, task, srv.val, b) => UidsAsked(mb', task, srv.val, b)
    <3>1. CASE mb' = m
      BY <3>1
    <3>2. CASE m.sync.uidNext <= m.list[r.n].uid /\ mb' = [m EXCEPT !.sync.uidNext = m.list[r.n].uid + 1]
      BY <2>1, <2>4, <2>5, <3>2, PastMessage
    <3> QED
      BY <2>3, <3>1, <3>2
  <2>7. Client(mb', task, srv.val, b)
    BY <2>1, <2>4, <2>6 DEF Client
  <2>8. ~IsSelect(Head(net)) /\ Noted(hs[2])
    BY <1>1 DEF IsSelect, Noted
  <2> QED
    BY <1>1, <1>3, <2>3, <2>4, <2>5a, <2>6, <2>7, <2>8, UpdateFollows
<1> QED
  BY <1>1, <1>2, <1>3 DEF HandleFetch, Resp

\* The UIDs that the search has found become those of the list.
LEMMA HandleSearchKeepsUp ==
    ASSUME Plain, TypeOK, TypeOK', SyncInv, NEW hs, FollowsServer(hs), HandleSearch
    PROVE  Onwards(hs)
<1> DEFINE uids == Head(net).uids
           f == task.firstUnknown
           m == ApplyUids(mb, f, uids)
           a == hs[1]
           first == SearchArg(task)
<1>1. net # <<>> /\ Head(net).t = "SEARCH" /\ task.status = "SYNCING_UIDS"
  BY DEF HandleSearch, Next1
<1>2. CASE \E e : Throw(e)
  BY <1>2, ThrowKeepsUp
<1>3. CASE Abort
  BY <1>3, StopKeepsUp DEF Abort
<1>4. CASE ~SearchThrows(uids) /\ ~(f > Len(mb.list)) /\ Handled /\ FinalizeSearch(uids)
  <2>1. /\ Head(net) = net[1] /\ Len(net) >= 1 /\ Len(net) \in Nat
        /\ Head(net) \in Response /\ Tells(Head(net), a, hs[2]) /\ Later(a, hs[2])
        /\ Sane(a) /\ srv.val \in Nat /\ Stream(hs)
        /\ Client(mb, task, srv.val, a) /\ mb.st # "NONE" /\ mb \in Mailbox
    BY <1>1, <1>4, Remaining
  <2>2. hs[2] = a
    BY <1>1, <2>1 DEF Tells
  <2>3. uids \in Seq(Uid) /\ Len(uids) \in Nat
    BY <1>1, <2>1, ResponseFields, LenProperties
  <2>4. /\ mb.sync.exists = Len(a.msgs) /\ mb.sync.uidVal = srv.val
        /\ mb.sync.uidNext \in 1..a.next
        /\ f <= Len(a.msgs) /\ f <= Len(mb.list) /\ FitsTo(mb.list, f, a)
        /\ Splits(a, first, f) /\ OnDisk(mb, srv.val, a) /\ ~task.qresync
    BY <1>1, <2>1 DEF Client, UidsAsked
  <2>5. f \in Nat /\ Len(mb.list) \in Nat /\ Len(a.msgs) \in Nat /\ a.next \in Nat
        /\ mb.sync.uidNext \in Nat /\ task \in Task
    BY <2>1, TaskFields, MailboxFields, SaneFields DEF TypeOK
  <2>6. Len(uids) = Len(a.msgs) - f
    <3>1. task.mode = "ALL" => f = 0
      BY DEF SyncInv
    <3>2. Len(uids) = Len(a.msgs) - (IF task.mode = "NEW" THEN f ELSE 0)
      BY <1>4, <2>4 DEF SearchThrows, Expected
    <3>3. task.mode \in {"ALL", "NEW"}
      BY <2>5, TaskFields
    <3> QED
      BY <2>5, <3>1, <3>2, <3>3
  <2>7. Finds(uids, a, first)
    <3>1. 1 \in 1..Len(net)
      BY <2>1
    <3>2. \A i \in 1..Len(net) : net[i].t = "SEARCH" => Finds(net[i].uids, hs[i], SearchArg(task))
      BY <1>1, <2>1 DEF Stream, SearchFits
    <3>3. net[1].t = "SEARCH" /\ net[1].uids = uids
      BY <1>1, <2>1
    <3>4. Finds(net[1].uids, hs[1], SearchArg(task))
      BY <3>1, <3>2, <3>3
    <3>5. a = hs[1] /\ first = SearchArg(task)
      OBVIOUS
    <3> HIDE DEF uids, a, first
    <3> QED
      BY <3>3, <3>4, <3>5, Zenon
  <2>8. \A k \in 1..Len(uids) : uids[k] = a.msgs[f + k]
    <3>1. f \in 0..Len(a.msgs) /\ Splits(a, first, f) /\ Len(uids) = Len(a.msgs) - f
      BY <2>4, <2>5, <2>6
    <3> HIDE DEF f, uids, a, first
    <3> QED
      BY <2>7, <3>1 DEF Finds
  <2>9. f \in 0..Len(mb.list)
    BY <2>4, <2>5
  <2>10. /\ m \in Mailbox /\ Len(m.list) = f + Len(uids) /\ m.sync = mb.sync
         /\ SameDisk(mb, m) /\ m.st = "DONE"
         /\ \A k \in 1..(f + Len(uids)) :
               m.list[k].uid = IF k <= f THEN mb.list[k].uid ELSE uids[k - f]
    BY <2>1, <2>3, <2>9, ApplyUidsType, ApplyUidsDoes
  <2>11. /\ mb' = UpdateHighestKnownUid(m) /\ task' = [task EXCEPT !.status = "SYNCING_FLAGS"]
         /\ cmds' = cmds
    BY <1>4 DEF FinalizeSearch
  <2> HIDE DEF uids, f, m, first, a
  <2>12. Len(m.list) = Len(a.msgs)
    BY <2>3, <2>5, <2>6, <2>10
  <2>13. FitsTo(m.list, Len(m.list), a)
    <3> SUFFICES ASSUME NEW k \in 1..Len(m.list) PROVE m.list[k].uid \in {0, a.msgs[k]}
      BY DEF FitsTo
    <3>1. k \in 1..(f + Len(uids)) /\ k \in Nat
      BY <2>10, <2>12, <2>5
    <3>2. CASE k <= f
      <4>1. k \in 1..f
        BY <3>1, <3>2, <2>5
      <4>2. mb.list[k].uid \in {0, a.msgs[k]}
        BY <2>4, <4>1 DEF FitsTo
      <4> QED
        BY <2>10, <3>1, <3>2, <4>2
    <3>3. CASE ~(k <= f)
      <4>1. k - f \in 1..Len(uids) /\ f + (k - f) = k
        BY <2>3, <2>5, <3>1, <3>3
      <4>2. uids[k - f] = a.msgs[k]
        BY <2>8, <4>1
      <4> QED
        BY <2>10, <3>1, <3>3, <4>2
    <3> QED
      BY <3>2, <3>3
  <2>14. Reflects(m.list, a)
    BY <2>12, <2>13 DEF Reflects
  <2>15. m.list \in Seq(Message) /\ Len(m.list) <= Len(a.msgs)
    BY <2>5, <2>10, <2>12, MailboxFields
  <2>16. KnownBelow(m.list, a.next) /\ InOrder(m.list)
    BY <2>1, <2>13, <2>15, FitsBelow, FitsInOrder
  <2>17. /\ mb'.list = m.list /\ mb'.st = "DONE" /\ mb'.sync.uidVal = srv.val
         /\ SameDisk(m, mb') /\ mb' \in Mailbox
         /\ mb'.sync.uidNext >= m.sync.uidNext
         /\ \/ mb'.sync.uidNext = m.sync.uidNext
            \/ \E i \in 1..Len(m.list) : mb'.sync.uidNext = m.list[i].uid + 1
         /\ \A i \in 1..Len(m.list) : m.list[i].uid # 0 => m.list[i].uid < mb'.sync.uidNext
    BY <2>4, <2>10, <2>11, <2>16, UpdateHighestKnownUidType, UpdateHighestKnownUidDoes
  <2>18. mb'.sync.uidNext \in 1..a.next
    <3>1. CASE mb'.sync.uidNext = m.sync.uidNext
      BY <2>4, <2>10, <3>1
    <3>2. ASSUME NEW i \in 1..Len(m.list), mb'.sync.uidNext = m.list[i].uid + 1
          PROVE  mb'.sync.uidNext \in 1..a.next
      <4>1. m.list[i].uid \in Nat /\ m.list[i].uid < a.next
        BY <2>15, <2>16, ListUids DEF KnownBelow
      <4> QED
        BY <2>5, <3>2, <4>1
    <3> QED
      BY <2>17, <3>1, <3>2
  <2>19. KnownBelow(mb'.list, mb'.sync.uidNext)
    <3> SUFFICES ASSUME NEW i \in 1..Len(mb'.list) PROVE mb'.list[i].uid < mb'.sync.uidNext
      BY DEF KnownBelow
    <3>1. i \in 1..Len(m.list) /\ mb'.list[i].uid = m.list[i].uid
      BY <2>17
    <3>2. m.list[i].uid = 0 => 0 < mb'.sync.uidNext
      BY <2>18
    <3> QED
      BY <2>17, <3>1, <3>2
  <2>20. Synced(mb', srv.val, a)
    BY <2>14, <2>17, <2>18, <2>19 DEF Synced
  <2>21. OnDisk(mb', srv.val, a)
    <3>1. SameDisk(mb, mb')
      BY <2>10, <2>17 DEF SameDisk
    <3>2. Later(a, a)
      BY <2>1, <2>2
    <3>3. Reflects(mb'.list, a) /\ mb.st # "NONE"
      BY <2>1, <2>14, <2>17
    <3> QED
      BY <2>1, <2>4, <2>17, <3>1, <3>2, <3>3, OnDiskReflected
  <2>22. task'.status = "SYNCING_FLAGS" /\ task'.qresync = task.qresync
    BY <2>5, <2>11 DEF Task
  <2>23. Client(mb', task', srv.val, hs[2])
    BY <2>2, <2>4, <2>17, <2>20, <2>21, <2>22 DEF Client
  <2>24. ~IsSelect(Head(net)) /\ Noted(hs[2]) /\ CmdsStay
    BY <1>1, <2>11 DEF IsSelect, Noted, CmdsStay
  <2> QED
    BY <1>1, <1>4, <2>17, <2>22, <2>23, <2>24, FollowsOn
<1> QED
  BY <1>1, <1>2, <1>3, <1>4 DEF HandleSearch, Resp

\* A tagged line changes nothing of the mailbox.
LEMMA TaggedTells ==
    ASSUME TypeOK, NEW hs, FollowsServer(hs), net # <<>>, Handled, Head(net).t \in {"OK", "NO"}
    PROVE  /\ hs[2] = hs[1] /\ Sane(hs[2]) /\ Client(mb, task, srv.val, hs[2])
           /\ OnDisk(mb, srv.val, hs[2])
           /\ mb \in Mailbox /\ mb.st # "NONE" /\ task \in Task /\ Noted(hs[2])
           /\ srv.val \in Nat /\ srv.val = hs[2].val
<1>1. /\ Tells(Head(net), hs[1], hs[2]) /\ Client(mb, task, srv.val, hs[1])
      /\ Sane(hs[2]) /\ mb \in Mailbox /\ mb.st # "NONE" /\ srv.val \in Nat /\ hs[2].val = srv.val
  BY Remaining
<1>2. hs[2] = hs[1]
  BY <1>1 DEF Tells
<1>3. Client(mb, task, srv.val, hs[2])
  BY <1>1, <1>2
<1>4. OnDisk(mb, srv.val, hs[2])
  BY <1>3 DEF Client
<1> QED
  BY <1>1, <1>2, <1>3, <1>4 DEF Noted, TypeOK

\* A synchronization that completes leaves the list on disk.
LEMMA CompleteKeeps ==
    ASSUME NEW m \in Mailbox, NEW val \in Nat, NEW h, Sane(h), Synced(m, val, h),
           m.sync.exists = Len(m.list), Complete(m)
    PROVE  /\ Client(mb', task', val, h) /\ mb'.st # "NONE"
           /\ task'.status = "KEEP" /\ cmds' = cmds
<1> DEFINE w == SaveSyncStateAndUids(m)
<1>1. mb' = w /\ task' = KeepTask /\ cmds' = cmds
  BY DEF Complete
<1>2. w \in Mailbox /\ w.list = m.list /\ w.sync = m.sync /\ w.st = "DONE" /\ IsSaved(w)
  BY SaveType, SaveDoes
<1> HIDE DEF w
<1>3. Synced(w, val, h)
  BY <1>2 DEF Synced
<1>4. OnDisk(w, val, h)
  BY <1>2, <1>3, OnDiskSaved
<1>5. task'.status = "KEEP" /\ ~task'.qresync
  BY <1>1 DEF KeepTask, NoTask
<1>6. Client(mb', task', val, h)
  BY <1>1, <1>2, <1>3, <1>4, <1>5 DEF Client, UidsAreKnown
<1> QED
  BY <1>1, <1>2, <1>5, <1>6

\* Without CONDSTORE all flags are asked for.
LEMMA SyncFlagsPlain ==
    ASSUME Plain, TypeOK, NEW m, NEW tk \in Task, SyncFlags(m, tk)
    PROVE  /\ mb' = m /\ task'.status = "SYNCING_FLAGS" /\ task'.qresync = tk.qresync
           /\ \E c \in Commands : Further(c) /\ c.t = "FLAGS" /\ cmds' = Append(cmds, c)
<1>1. ~CanUseModSeq(m, tk.old)
  BY DEF Plain, CanUseModSeq
<1>2. /\ mb' = m
      /\ task' = [tk EXCEPT !.status = "SYNCING_FLAGS", !.flagsCmd = TRUE]
      /\ Issue(Command("FLAGS", 0))
  BY <1>1 DEF SyncFlags
<1>3. task'.status = "SYNCING_FLAGS" /\ task'.qresync = tk.qresync
  BY <1>2 DEF Task
<1>4. PICK c : c = Command("FLAGS", 0)
  OBVIOUS
<1>5. c \in Commands /\ Further(c) /\ c.t = "FLAGS"
  <2>1. c.t = "FLAGS" /\ c.arg = 0 /\ c.tag = selects
    BY <1>4 DEF Command
  <2>2. c \in Commands
    BY <1>4 DEF Command, Commands, CommandKind, TypeOK
  <2> QED
    BY <2>1, <2>2 DEF Further
<1>6. cmds' = Append(cmds, c)
  BY <1>2, <1>4 DEF Issue
<1> QED
  BY <1>2, <1>3, <1>5, <1>6

\* The OK of UID SEARCH.
LEMMA SearchOkKeepsUp ==
    ASSUME Plain, TypeOK, TypeOK', NEW hs, FollowsServer(hs), SearchOk
    PROVE  Onwards(hs)
<1>1. net # <<>> /\ Head(net).t = "OK" /\ Head(net).cmd = "SEARCH"
  BY DEF SearchOk, Ok, Next1, Resp
<1>2. CASE Abort
  BY <1>2, StopKeepsUp DEF Abort
<1>3. CASE task.status = "SYNCING_FLAGS" /\ Handled /\ SyncFlags(mb, task)
  <2>1. /\ Client(mb, task, srv.val, hs[2]) /\ mb.st # "NONE" /\ task \in Task /\ Noted(hs[2])
    BY <1>1, <1>3, TaggedTells
  <2>2. /\ mb' = mb /\ task'.status = "SYNCING_FLAGS" /\ task'.qresync = task.qresync
        /\ \E c \in Commands : Further(c) /\ cmds' = Append(cmds, c)
    BY <1>3, <2>1, SyncFlagsPlain
  <2>3. CmdsStay
    BY <1>3, <2>2 DEF CmdsStay
  <2>4. Client(mb', task', srv.val, hs[2])
    BY <1>3, <2>1, <2>2 DEF Client, UidsAreKnown
  <2>5. ~IsSelect(Head(net))
    BY <1>1 DEF IsSelect
  <2> QED
    BY <1>1, <1>3, <2>1, <2>2, <2>3, <2>4, <2>5, FollowsOn
<1> QED
  BY <1>2, <1>3 DEF SearchOk

\* The OK of FETCH FLAGS.
LEMMA FlagsOkKeepsUp ==
    ASSUME Plain, TypeOK, TypeOK', SyncInv, NEW hs, FollowsServer(hs), FlagsOk
    PROVE  Onwards(hs)
<1>1. net # <<>> /\ Head(net).t = "OK" /\ Head(net).cmd = "FLAGS"
  BY DEF FlagsOk, Ok, Next1, Resp
<1>2. CASE Abort
  BY <1>2, StopKeepsUp DEF Abort
<1>3. ASSUME task.status = "SYNCING_FLAGS", Handled
      PROVE  /\ Client(mb, task, srv.val, hs[2]) /\ mb.st # "NONE" /\ task \in Task
             /\ Noted(hs[2]) /\ Sane(hs[2]) /\ mb \in Mailbox /\ srv.val \in Nat
             /\ Synced(mb, srv.val, hs[2]) /\ mb.sync.exists = Len(mb.list)
             /\ ~IsSelect(Head(net))
  <2>1. /\ Client(mb, task, srv.val, hs[2]) /\ mb.st # "NONE" /\ task \in Task
        /\ Noted(hs[2]) /\ Sane(hs[2]) /\ mb \in Mailbox /\ srv.val \in Nat
    BY <1>1, <1>3, TaggedTells
  <2>2. Synced(mb, srv.val, hs[2])
    BY <1>3, <2>1 DEF Client, UidsAreKnown
  <2>3. mb.sync.exists = Len(mb.list)
    BY <1>3 DEF SyncInv, CountsAgree
  <2>4. ~IsSelect(Head(net))
    BY <1>1 DEF IsSelect
  <2> QED
    BY <2>1, <2>2, <2>3, <2>4
<1>4. CASE task.status = "SYNCING_FLAGS" /\ Handled /\ Complete(mb)
  <2>1. /\ Client(mb', task', srv.val, hs[2]) /\ mb'.st # "NONE"
        /\ task'.status = "KEEP" /\ cmds' = cmds
    BY <1>3, <1>4, CompleteKeeps
  <2> QED
    BY <1>1, <1>3, <1>4, <2>1, FollowsOn DEF CmdsStay
<1>5. CASE /\ task.status = "SYNCING_FLAGS" /\ Handled
           /\ task' = [task EXCEPT !.status = "DONE", !.flagsCmd = FALSE]
           /\ UNCHANGED <<mb, cmds>>
  <2>1. task'.status = "DONE" /\ task'.qresync = task.qresync
    BY <1>3, <1>5 DEF Task
  <2>2. Client(mb', task', srv.val, hs[2])
    BY <1>3, <1>5, <2>1 DEF Client, UidsAreKnown
  <2> QED
    BY <1>1, <1>3, <1>5, <2>1, <2>2, FollowsOn DEF CmdsStay
<1> QED
  BY <1>2, <1>4, <1>5 DEF FlagsOk

\* What a task with one fetch of arrivals fewer is.
LEMMA FewerArrivals ==
    ASSUME NEW m, NEW val, NEW h, task \in Task, Client(m, task, val, h)
    PROVE  /\ Client(m, ArrivalsDone, val, h)
           /\ ArrivalsDone.status = task.status /\ SearchArg(ArrivalsDone) = SearchArg(task)
<1>1. /\ ArrivalsDone.status = task.status /\ ArrivalsDone.mode = task.mode
      /\ ArrivalsDone.old = task.old /\ ArrivalsDone.firstUnknown = task.firstUnknown
      /\ ArrivalsDone.qresync = task.qresync
  BY DEF ArrivalsDone, Task
<1>2. SearchArg(ArrivalsDone) = SearchArg(task)
  BY <1>1 DEF SearchArg
<1>3. UidsAsked(m, task, val, h) => UidsAsked(m, ArrivalsDone, val, h)
  BY <1>1, <1>2 DEF UidsAsked
<1>4. Client(m, ArrivalsDone, val, h)
  BY <1>1, <1>3 DEF Client
<1> QED
  BY <1>1, <1>2, <1>4

\* The OK of a fetch of arrivals, during the synchronization ...
LEMMA ObtainArrivalsOkKeepsUp ==
    ASSUME Plain, TypeOK, TypeOK', SyncInv, NEW hs, FollowsServer(hs), ObtainArrivalsOk
    PROVE  Onwards(hs)
<1>1. net # <<>> /\ Head(net).t = "OK" /\ Head(net).cmd = "ARRIVALS" /\ Handled
  BY DEF ObtainArrivalsOk, Ok, Next1, Resp
<1>2. /\ Client(mb, task, srv.val, hs[2]) /\ mb.st # "NONE" /\ task \in Task
      /\ Noted(hs[2]) /\ Sane(hs[2]) /\ mb \in Mailbox /\ srv.val \in Nat
  BY <1>1, TaggedTells
<1>3. ~IsSelect(Head(net))
  BY <1>1 DEF IsSelect
<1>4. CASE task.status = "DONE" /\ Complete(mb)
  <2>1. Synced(mb, srv.val, hs[2]) /\ mb.sync.exists = Len(mb.list)
    BY <1>2, <1>4 DEF Client, UidsAreKnown, SyncInv, CountsAgree
  <2>2. /\ Client(mb', task', srv.val, hs[2]) /\ mb'.st # "NONE"
        /\ task'.status = "KEEP" /\ cmds' = cmds
    BY <1>2, <1>4, <2>1, CompleteKeeps
  <2> QED
    BY <1>1, <1>2, <1>3, <1>4, <2>2, FollowsOn DEF CmdsStay
<1>5. CASE task' = ArrivalsDone /\ UNCHANGED <<mb, cmds>>
  <2>1. /\ Client(mb, ArrivalsDone, srv.val, hs[2])
        /\ ArrivalsDone.status = task.status /\ SearchArg(ArrivalsDone) = SearchArg(task)
    BY <1>2, FewerArrivals
  <2>2. /\ Client(mb', task', srv.val, hs[2]) /\ task'.status = task.status
        /\ SearchArg(task') = SearchArg(task) /\ mb'.st # "NONE"
    BY <1>2, <1>5, <2>1
  <2> QED
    BY <1>1, <1>2, <1>3, <1>5, <2>2, FollowsOn DEF CmdsStay
<1> QED
  BY <1>4, <1>5 DEF ObtainArrivalsOk

\* ... and while the mailbox is open, or its NO.
LEMMA KeepArrivalsFinishedKeepsUp ==
    ASSUME Plain, TypeOK, TypeOK', SyncInv, NEW hs, FollowsServer(hs), KeepArrivalsFinished
    PROVE  Onwards(hs)
<1>1. /\ net # <<>> /\ Head(net).t \in {"OK", "NO"} /\ Head(net).cmd = "ARRIVALS" /\ Handled
      /\ task.status = "KEEP" /\ task' = ArrivalsDone /\ cmds' = cmds
      /\ mb' = IF task.arrivals = 1 THEN SaveSyncStateAndUids(mb) ELSE mb
  BY DEF KeepArrivalsFinished, Resp
<1>2. /\ Client(mb, task, srv.val, hs[2]) /\ mb.st # "NONE" /\ task \in Task
      /\ Noted(hs[2]) /\ Sane(hs[2]) /\ mb \in Mailbox /\ srv.val \in Nat
  BY <1>1, TaggedTells
<1>3. ~IsSelect(Head(net))
  BY <1>1 DEF IsSelect
<1>4. Client(mb', task, srv.val, hs[2]) /\ mb'.st # "NONE"
  <2>1. CASE mb' = mb
    BY <1>2, <2>1
  <2>2. CASE mb' = SaveSyncStateAndUids(mb)
    <3>1. Synced(mb, srv.val, hs[2]) /\ mb.sync.exists = Len(mb.list)
      BY <1>1, <1>2 DEF Client, UidsAreKnown, SyncInv, CountsAgree
    <3>2. /\ mb' \in Mailbox /\ mb'.list = mb.list /\ mb'.sync = mb.sync /\ mb'.st = "DONE"
          /\ IsSaved(mb')
      BY <1>2, <2>2, SaveType, SaveDoes
    <3>3. Synced(mb', srv.val, hs[2])
      BY <3>1, <3>2 DEF Synced
    <3>4. OnDisk(mb', srv.val, hs[2])
      BY <1>2, <3>1, <3>2, <3>3, OnDiskSaved
    <3> QED
      BY <1>1, <1>2, <3>2, <3>3, <3>4 DEF Client
  <2> QED
    BY <1>1, <2>1, <2>2
<1>5. /\ Client(mb', ArrivalsDone, srv.val, hs[2])
      /\ ArrivalsDone.status = task.status /\ SearchArg(ArrivalsDone) = SearchArg(task)
  BY <1>2, <1>4, FewerArrivals
<1>6. /\ Client(mb', task', srv.val, hs[2]) /\ task'.status = task.status
      /\ SearchArg(task') = SearchArg(task)
  BY <1>1, <1>5
<1> QED
  BY <1>1, <1>2, <1>3, <1>4, <1>6, FollowsOn DEF CmdsStay

\* NO ends the task.
LEMMA ObtainNoKeepsUp ==
    ASSUME Plain, TypeOK, TypeOK', NEW hs, FollowsServer(hs), ObtainNo
    PROVE  Onwards(hs)
<1>1. /\ net # <<>> /\ Head(net).t = "NO" /\ Head(net).tag = selects /\ Handled
      /\ mb' = mb /\ task' = NoTask /\ cmds' = cmds
  BY DEF ObtainNo, Next1, Resp, Failed
<1>2. /\ Client(mb, task, srv.val, hs[2]) /\ mb.st # "NONE"
      /\ Noted(hs[2]) /\ OnDisk(mb, srv.val, hs[2])
  BY <1>1, TaggedTells
<1>3. /\ Head(net) = net[1] /\ Len(net) >= 1 /\ Len(net) \in Nat /\ Stream(hs)
  BY <1>1, Remaining
<1>4. 1 \in 1..Len(net)
  BY <1>3
<1>5. ~IsSelect(Head(net))
  BY <1>1, <1>3, <1>4 DEF Stream, SelectIsLast
<1>6. task.status # "SELECTING"
  <2> SUFFICES ASSUME task.status = "SELECTING" PROVE FALSE
    OBVIOUS
  <2>1. IsSelect(net[1]) \/ net[1].tag < selects
    BY <1>1, <1>3, <1>4 DEF Stream, TagsFit
  <2>2. selects \in Nat
    BY DEF TypeOK
  <2> QED
    BY <1>1, <1>3, <1>5, <2>1, <2>2
<1>7. task'.status = "OFF" /\ ~task'.qresync
  BY <1>1 DEF NoTask
<1>8. Client(mb', task', srv.val, hs[2])
  BY <1>1, <1>2, <1>7 DEF Client, UidsAreKnown
<1> QED
  BY <1>1, <1>2, <1>5, <1>6, <1>7, <1>8, FollowsOn DEF CmdsStay

\* No one wants the response.
LEMMA UnhandledKeepsUp ==
    ASSUME Plain, TypeOK, TypeOK', NEW hs, FollowsServer(hs), Unhandled
    PROVE  Onwards(hs)
BY ThrowKeepsUp DEF Unhandled

----------------------------------------------------------------------------
(* The OK of SELECT. *)

\* The command that the synchronization goes on with.
Goes(c) == /\ c \in Commands /\ c.tag = selects
           /\ \/ c.t = "SEARCH" /\ c.arg = SearchArg(task')
              \/ c.t = "FLAGS" /\ c.arg = 0
\* The client at h, after SELECT.
Chosen(h) == /\ Client(mb', task', h.val, h) /\ mb'.st # "NONE" /\ task'.status # "SELECTING"
             /\ cmds' = cmds \/ \E c \in Commands : Goes(c) /\ cmds' = Append(cmds, c)

\* After its OK only changes are announced.
LEMMA StreamAfterSelect ==
    ASSUME TypeOK, TypeOK', NEW hs, FollowsServer(hs), net # <<>>, Handled, IsSelect(Head(net)),
           NEW s, Chosen(s), NEW h
    PROVE  Stream(h)'
<1>1. /\ Len(net) \in Nat /\ Len(net) >= 1 /\ Head(net) = net[1]
      /\ Len(net') = Len(net) - 1
      /\ \A i \in 1..Len(net') : net'[i] = net[i + 1] /\ i + 1 \in 1..Len(net)
      /\ Stream(hs) /\ up /\ selected
  BY Remaining
<1>2. 1 \in 1..Len(net)
  BY <1>1
<1>3. /\ cmds = <<>> /\ \A k \in 1..Len(net) : k > 1 => Announcement(net[k])
  BY <1>1, <1>2 DEF Stream, SelectIsLast
<1>4. ~answered
  BY <1>1, <1>3 DEF Stream, Connected
<1>5. selected' = selected /\ ~answered' /\ up' = up /\ selects' = selects
  BY <1>4 DEF Handled
<1>6. ASSUME NEW i \in 1..Len(net')
      PROVE  net'[i].t \notin {"CODES", "OK", "NO", "SEARCH"} /\ ~IsSelect(net'[i])
  <2>1. Announcement(net[i + 1]) /\ net'[i] = net[i + 1]
    BY <1>1, <1>3
  <2> QED
    BY <2>1 DEF Announcement, IsSelect
<1>7. task'.status # "SELECTING" /\ selects \in Nat
  BY DEF Chosen, TypeOK
<1>8. \A i \in 1..Len(cmds') : Goes(cmds'[i])
  <2>1. CASE cmds' = cmds
    <3>1. Len(cmds') = 0
      BY <1>3, <2>1
    <3> QED
      BY <3>1
  <2>2. ASSUME NEW c \in Commands, Goes(c), cmds' = Append(cmds, c)
        PROVE  \A i \in 1..Len(cmds') : Goes(cmds'[i])
    <3>1. cmds \in Seq(Commands) /\ Len(cmds) = 0
      BY <1>3 DEF TypeOK
    <3>2. Len(cmds') = 1 /\ cmds'[1] = c
      BY <2>2, <3>1, AppendElements
    <3> QED
      BY <2>2, <3>2
  <2> QED
    BY <2>1, <2>2 DEF Chosen
<1>9. CodesInOrder(h)' /\ SelectInOrder(h)'
  BY <1>5, <1>6 DEF CodesInOrder, SelectInOrder, SelectAnswered, IsSelect
<1>10. SelectIsLast'
  <2>1. \A i \in 1..Len(cmds') : cmds'[i].t # "SELECT"
    BY <1>8 DEF Goes
  <2> QED
    BY <1>6, <2>1 DEF SelectIsLast, IsSelect
<1>11. ArgsPlain'
  BY <1>8 DEF ArgsPlain, Goes
<1>12. TagsFit'
  <2>1. \A i \in 1..Len(cmds') : cmds'[i].tag <= selects'
    BY <1>5, <1>7, <1>8 DEF Goes
  <2> QED
    BY <1>6, <1>7, <2>1 DEF TagsFit
<1>13. Connected'
  BY <1>1, <1>5 DEF Connected
<1>14. SearchFits(h)'
  <2>1. \A i \in 1..Len(cmds') : cmds'[i].t = "SEARCH" => cmds'[i].arg = SearchArg(task')
    BY <1>8 DEF Goes
  <2>2. \A i \in 1..Len(net') : net'[i].t # "SEARCH"
    BY <1>6
  <2> QED
    BY <2>1, <2>2 DEF SearchFits, SearchArg
<1> QED
  BY <1>9, <1>10, <1>11, <1>12, <1>13, <1>14 DEF Stream

\* UID SEARCH from the first message whose UID is unknown.
LEMMA SearchFollows ==
    ASSUME TypeOK, NEW w \in Mailbox, NEW tk \in Task, ~tk.qresync, NEW mode \in {"ALL", "NEW"},
           NEW from \in Nat, NEW first \in Nat, SyncUids(w, tk, mode, from, first),
           from = IF mode = "NEW" THEN tk.old.uidNext ELSE 0,
           NEW h, Sane(h), SyncIs(w, h), w.st = "LOADING", OnDisk(w, h.val, h),
           KnownBelow(w.list, h.next), first <= Len(h.msgs), first <= Len(w.list),
           FitsTo(w.list, first, h), Splits(h, from, first), from <= h.next
    PROVE  Chosen(h)
<1>1. /\ mb' = w
      /\ task' = [tk EXCEPT !.status = "SYNCING_UIDS", !.mode = mode, !.firstUnknown = first]
  BY DEF SyncUids
<1>2. /\ task'.status = "SYNCING_UIDS" /\ task'.mode = mode /\ task'.firstUnknown = first
      /\ task'.old = tk.old /\ ~task'.qresync
  BY <1>1 DEF Task
<1>3. SearchArg(task') = from
  BY <1>2 DEF SearchArg
<1>4. h.next \in 1..h.next /\ h.val \in Nat
  BY SaneFields
<1>5. UidsAsked(mb', task', h.val, h)
  BY <1>1, <1>2, <1>3, <1>4 DEF UidsAsked, SyncIs
<1>6. Client(mb', task', h.val, h) /\ mb'.st # "NONE"
  BY <1>1, <1>2, <1>5 DEF Client, UidsAreKnown
<1>7. PICK c : c = Command("SEARCH", from)
  OBVIOUS
<1>8. c.t = "SEARCH" /\ c.arg = from /\ c.tag = selects
  BY <1>7 DEF Command
<1>9. c \in Commands
  BY <1>7 DEF Command, Commands, CommandKind, TypeOK
<1>10. Goes(c) /\ cmds' = Append(cmds, c)
  BY <1>3, <1>7, <1>8, <1>9 DEF Goes, SyncUids, Issue
<1> QED
  BY <1>2, <1>6, <1>9, <1>10 DEF Chosen

\* All of the UIDs are asked for.
LEMMA SearchAllFollows ==
    ASSUME TypeOK, NEW w \in Mailbox, NEW tk \in Task, ~tk.qresync, SyncUids(w, tk, "ALL", 0, 0),
           NEW h, Sane(h), SyncIs(w, h), w.st = "LOADING", OnDisk(w, h.val, h),
           KnownBelow(w.list, h.next)
    PROVE  Chosen(h)
<1>1. /\ h.next \in Nat /\ Len(h.msgs) \in Nat
      /\ \A i \in 1..Len(h.msgs) : h.msgs[i] \in Nat
  BY SaneFields
<1>2. Splits(h, 0, 0) /\ FitsTo(w.list, 0, h)
  BY <1>1 DEF Splits, FitsTo
<1>3. Len(w.list) \in Nat
  BY MailboxFields
<1> QED
  BY <1>1, <1>2, <1>3, SearchFollows

\* The list is forgotten: the cache is of another mailbox, or the mailbox is empty.
LEMMA FullFollows ==
    ASSUME TypeOK, NEW w \in Mailbox, NEW tk \in Task, ~tk.qresync, FullMboxSync(w, tk),
           NEW h, Sane(h), SyncIs(w, h), w.st = "LOADING", w.disk.sync.uidVal <= h.val,
           w.disk.sync.uidVal # h.val \/ w.sync.exists = 0
    PROVE  Chosen(h)
<1> DEFINE x == [w EXCEPT !.list = Unknown(w.sync.exists)]
<1>1. /\ w.sync.exists \in Nat /\ w.sync.exists = Len(h.msgs) /\ h.next \in Nat /\ h.next >= 1
      /\ h.val \in Nat
  BY MailboxFields, SaneFields DEF SyncIs
<1>2. /\ Unknown(w.sync.exists) \in Seq(Message) /\ Len(Unknown(w.sync.exists)) = w.sync.exists
      /\ \A j \in 1..w.sync.exists : Unknown(w.sync.exists)[j].uid = 0
  <2> DEFINE k == w.sync.exists
  <2>1. k \in Nat /\ k \in Int
    BY <1>1
  <2> HIDE DEF k
  <2>2. Unknown(k) \in Seq(Message) /\ Len(Unknown(k)) = k
    BY <2>1, UnknownType
  <2>3. ASSUME NEW j \in 1..k PROVE Unknown(k)[j].uid = 0
    BY <2>1, UnknownUids
  <2> QED
    BY <2>2, <2>3 DEF k
<1>3. /\ x.list = Unknown(w.sync.exists) /\ x.sync = w.sync /\ x.st = w.st /\ x.disk = w.disk
      /\ x \in Mailbox
  BY <1>2 DEF Mailbox
<1>4. IF w.sync.exists > 0 THEN SyncUids(x, tk, "ALL", 0, 0) ELSE Complete(x)
  BY DEF FullMboxSync
<1> HIDE DEF x
<1>5. SyncIs(x, h)
  BY <1>3 DEF SyncIs
<1>6. CASE w.sync.exists > 0
  <2>1. OnDisk(x, h.val, h)
    BY <1>3, <1>6 DEF OnDisk
  <2>2. KnownBelow(x.list, h.next)
    <3> SUFFICES ASSUME NEW j \in 1..Len(x.list) PROVE x.list[j].uid < h.next
      BY DEF KnownBelow
    <3>1. x.list[j].uid = 0
      BY <1>2, <1>3
    <3> QED
      BY <1>1, <3>1
  <2>3. SyncUids(x, tk, "ALL", 0, 0)
    BY <1>4, <1>6
  <2> QED
    BY <1>3, <1>5, <2>1, <2>2, <2>3, SearchAllFollows
<1>7. CASE ~(w.sync.exists > 0)
  <2>1. Len(x.list) = 0 /\ Len(h.msgs) = 0 /\ x.sync.exists = Len(x.list)
    BY <1>1, <1>2, <1>3, <1>7
  <2>2. Reflects(x.list, h) /\ KnownBelow(x.list, x.sync.uidNext)
    BY <2>1 DEF Reflects, FitsTo, KnownBelow
  <2>3. Synced(x, h.val, h)
    BY <1>1, <1>3, <1>5, <2>2 DEF Synced, SyncIs
  <2>4. Complete(x)
    BY <1>4, <1>7
  <2>5. /\ Client(mb', task', h.val, h) /\ mb'.st # "NONE"
        /\ task'.status = "KEEP" /\ cmds' = cmds
    BY <1>1, <1>3, <2>1, <2>3, <2>4, CompleteKeeps
  <2> QED
    BY <2>5 DEF Chosen
<1> QED
  BY <1>6, <1>7

\* Nothing has arrived and nothing was expunged: the list is right.
LEMMA NoNewFollows ==
    ASSUME Plain, TypeOK, NEW w \in Mailbox, NEW tk \in Task, ~tk.qresync,
           SyncNoNewNoDeletions(w, tk), NEW h, Sane(h), SyncIs(w, h), w.st # "NONE",
           OnDisk(w, h.val, h), w.sync.exists > 0,
           Reflects(w.list, h)
    PROVE  Chosen(h)
<1> DEFINE x == [w EXCEPT !.st = "DONE"]
<1>1. /\ Len(w.list) = Len(h.msgs) /\ Len(h.msgs) > 0 /\ Len(h.msgs) \in Nat
      /\ h.next \in Nat /\ h.next >= 1 /\ h \in Server /\ h.val \in Nat /\ w.list \in Seq(Message)
  BY SaneFields, MailboxFields DEF SyncIs, Reflects
<1>2. w.list # <<>>
  BY <1>1
<1>3. SyncFlags(x, tk)
  BY <1>2 DEF SyncNoNewNoDeletions
<1>4. x.list = w.list /\ x.sync = w.sync /\ x.st = "DONE" /\ SameDisk(w, x) /\ x \in Mailbox
  BY DEF Mailbox, SameDisk, FetchStatus
<1> HIDE DEF x
<1>5. /\ mb' = x /\ task'.status = "SYNCING_FLAGS" /\ task'.qresync = tk.qresync
      /\ \E c \in Commands : Further(c) /\ c.t = "FLAGS" /\ cmds' = Append(cmds, c)
  BY <1>3, SyncFlagsPlain
<1>6. KnownBelow(x.list, h.next)
  BY <1>1, <1>4, FitsBelow DEF Reflects
<1>7. Synced(x, h.val, h)
  BY <1>1, <1>4, <1>6 DEF Synced, SyncIs
<1>8. OnDisk(x, h.val, h)
  <2>1. Later(h, h)
    BY <1>1, LaterSame
  <2> QED
    BY <1>1, <1>4, <2>1, OnDiskSame
<1>9. Client(mb', task', h.val, h) /\ mb'.st # "NONE"
  BY <1>4, <1>5, <1>7, <1>8 DEF Client, UidsAreKnown
<1>10. PICK c \in Commands : Further(c) /\ c.t = "FLAGS" /\ cmds' = Append(cmds, c)
  BY <1>5
<1> QED
  BY <1>5, <1>9, <1>10 DEF Chosen, Goes, Further

\* The task that finalizeSelect goes on with.
LEMMA OldNoted ==
    ASSUME TypeOK, NEW old \in SyncState, ~task.qresync
    PROVE  /\ [task EXCEPT !.old = old] \in Task
           /\ [task EXCEPT !.old = old].old = old
           /\ ~[task EXCEPT !.old = old].qresync
<1>1. task \in Task
  BY DEF TypeOK
<1> QED
  BY <1>1 DEF Task

LEMMA ModSeqForgotten ==
    ASSUME NEW tk \in Task, ~tk.qresync
    PROVE  /\ [tk EXCEPT !.old.modSeq = 0] \in Task
           /\ ~[tk EXCEPT !.old.modSeq = 0].qresync
<1>1. PICK forgotten : forgotten = [tk.old EXCEPT !.modSeq = 0]
  OBVIOUS
<1>2. forgotten \in SyncState
  BY <1>1 DEF Task, SyncState
<1>3. [tk EXCEPT !.old.modSeq = 0] = [tk EXCEPT !.old = forgotten]
  BY <1>1
<1> QED
  BY <1>2, <1>3 DEF Task

\* Nothing was expunged since the mailbox was saved: the list begins as the server's mailbox
\* does, and the messages that the cache does not know come after those it does.
LEMMA NothingExpunged ==
    ASSUME NEW m \in Mailbox, NEW h, Sane(h), SyncIs(m, h), m.st # "NONE", OnDisk(m, h.val, h),
           m.disk.sync.uidVal = h.val, OnlyArrivals(m, m.disk.sync)
    PROVE  /\ m.disk.sync.exists = Len(m.disk.uids)
           /\ m.disk.sync.exists <= Len(m.list) /\ Len(m.list) <= Len(h.msgs)
           /\ FitsTo(m.list, Len(m.list), h)
           /\ Splits(h, m.disk.sync.uidNext, m.disk.sync.exists)
           /\ Surplus(m.disk.uids, m.disk.sync.uidNext, h) = 0
<1> DEFINE p == Len(m.disk.uids)
           n == m.disk.sync.uidNext
           k == Len(h.msgs)
<1>1. /\ p \in Nat /\ n \in Nat /\ k \in Nat /\ h.next \in Nat /\ Len(m.list) \in Nat
      /\ m.disk.sync.exists \in Nat
      /\ \A j \in 1..k : h.msgs[j] \in Nat
  <2>1. m.disk.sync \in SyncState /\ p \in Nat /\ Len(m.list) \in Nat
    BY MailboxFields
  <2>2. n \in Nat /\ m.disk.sync.exists \in Nat
    BY <2>1 DEF SyncState
  <2> HIDE DEF p, n
  <2> QED
    BY <2>1, <2>2, SaneFields
<1>2. /\ p = m.disk.sync.exists /\ Follows(m.disk.uids, n, h)
      /\ Surplus(m.disk.uids, n, h) = 0 =>
            p <= Len(m.list) /\ Len(m.list) <= k /\ FitsTo(m.list, Len(m.list), h)
  BY DEF OnDisk
<1>3. h.next - n = k - m.disk.sync.exists
  BY DEF OnlyArrivals, SyncIs
<1>4. Surplus(m.disk.uids, n, h) = (k - p) - (h.next - n)
  BY DEF Surplus
<1>5. Surplus(m.disk.uids, n, h) = 0 /\ p <= k
  <2> HIDE DEF p, n, k
  <2>1. Surplus(m.disk.uids, n, h) = 0
    BY <1>1, <1>2, <1>3, <1>4
  <2>2. p <= Len(m.list) /\ Len(m.list) <= k
    BY <1>2, <2>1
  <2> QED
    BY <1>1, <2>1, <2>2
<1>6. Begins(m.disk.uids, n, h)
  BY <1>2, <1>5 DEF Follows
<1>7. Splits(h, n, p)
  <2> SUFFICES ASSUME NEW j \in 1..k PROVE h.msgs[j] >= n <=> j > p
    BY DEF Splits
  <2>1. IF j <= p THEN h.msgs[j] < n ELSE h.msgs[j] >= n
    BY <1>6 DEF Begins
  <2>2. h.msgs[j] \in Nat
    BY <1>1
  <2> HIDE DEF p, n, k
  <2> QED
    BY <1>1, <2>1, <2>2
<1> QED
  BY <1>2, <1>5, <1>7

\* What finalizeSelect goes on with: with nothing when the cache is that of another mailbox or
\* the mailbox is empty, with what the cache knows when there may only be new messages.
Decides(tk, h) ==
    \/ /\ FullMboxSync(mb, tk) \/ FullMboxSync(ClearAllMessages(mb), tk)
       /\ mb.disk.sync.uidVal # h.val \/ mb.sync.exists = 0
    \/ SyncUids(mb, tk, "ALL", 0, 0) /\ mb.disk.sync.uidVal = h.val
    \/ /\ mb.disk.sync.uidVal = h.val /\ OnlyArrivals(mb, mb.disk.sync) /\ tk.old = mb.disk.sync
       /\ \/ /\ SyncNoNewNoDeletions(mb, tk) /\ mb.sync.exists > 0
             /\ mb.sync.exists = mb.disk.sync.exists
          \/ SyncUids(mb, tk, "NEW", mb.disk.sync.uidNext, mb.disk.sync.exists)

LEMMA FinalizeSelectDecides ==
    ASSUME Plain, TypeOK, NEW h, Sane(h), SyncIs(mb, h), OnDisk(mb, h.val, h), ~task.qresync,
           FinalizeSelect(mb)
    PROVE  \E tk \in Task : /\ ~tk.qresync /\ tk.arrivals = task.arrivals
                            /\ tk.flagsCmd = task.flagsCmd /\ Decides(tk, h)
<1>1. PICK old : old = mb.disk.sync
  OBVIOUS
<1>2. PICK tk : tk = [task EXCEPT !.old = old]
  OBVIOUS
<1>3. mb \in Mailbox /\ old \in SyncState
  BY <1>1, MailboxFields DEF TypeOK
<1>4. PICK tk0 : tk0 = [tk EXCEPT !.old.modSeq = 0]
  OBVIOUS
<1>5a. tk \in Task /\ tk.old = old /\ ~tk.qresync
  BY <1>2, <1>3, OldNoted
<1>5b. tk0 \in Task /\ ~tk0.qresync
  BY <1>4, <1>5a, ModSeqForgotten
<1>5. tk \in Task /\ tk.old = old /\ ~tk.qresync /\ tk0 \in Task /\ ~tk0.qresync
  BY <1>5a, <1>5b
<1>6. /\ h.next \in Nat /\ Len(h.msgs) \in Nat /\ h.val \in 1..2 /\ h.val \in Nat
      /\ Len(mb.list) \in Nat /\ Len(mb.disk.uids) \in Nat
      /\ old.exists \in Nat /\ old.uidNext \in Nat /\ old.uidVal \in Nat
  <2>1. h.next \in Nat /\ Len(h.msgs) \in Nat /\ h.val \in 1..2
    BY SaneFields
  <2>2. Len(mb.list) \in Nat /\ Len(mb.disk.uids) \in Nat
    BY <1>3, MailboxFields
  <2>3. old.exists \in Nat /\ old.uidNext \in Nat /\ old.uidVal \in Nat
    BY <1>3 DEF SyncState
  <2> QED
    BY <2>1, <2>2, <2>3
<1>7. /\ mb.sync.exists = Len(h.msgs) /\ mb.sync.uidNext = h.next /\ mb.sync.uidVal = h.val
  BY DEF SyncIs
<1>8. old.uidVal <= h.val
  BY <1>1 DEF OnDisk
<1>9. PICK cleared : cleared = ClearAllMessages(mb)
  OBVIOUS
<1>10. /\ cleared \in Mailbox /\ cleared.list = mb.list /\ cleared.sync = mb.sync
       /\ cleared.st = mb.st /\ cleared.disk.sync = mb.disk.sync
  BY <1>3, <1>9, ClearAllMessagesType, ClearAllMessagesDoes
<1>11. IF Len(mb.disk.uids) # old.exists
       THEN FullMboxSync(mb, tk0)
       ELSE IF ~(IsUsableForSyncing(mb.sync) /\ IsUsableForSyncing(old)
                 /\ mb.sync.uidVal = old.uidVal)
       THEN FullMboxSync(cleared, tk)
       ELSE IF tk.qresync /\ IsUsableForCondstore(old) /\ IsUsableForCondstore(mb.sync)
       THEN FinalizeQresync(mb, tk)
       ELSE IF mb.sync.exists = 0 THEN FullMboxSync(mb, tk)
       ELSE IF NoArrivals(mb, old)
       THEN IF mb.sync.exists = old.exists THEN SyncNoNewNoDeletions(mb, tk)
            ELSE SyncUids(mb, tk, "ALL", 0, 0)
       ELSE IF mb.sync.uidNext < old.uidNext THEN FullMboxSync(cleared, tk)
       ELSE IF OnlyArrivals(mb, old)
       THEN SyncUids(mb, tk, "NEW", old.uidNext, old.exists)
       ELSE SyncUids(mb, tk, "ALL", 0, 0)
  BY <1>1, <1>2, <1>4, <1>9 DEF FinalizeSelect
<1>11a. /\ tk.arrivals = task.arrivals /\ tk.flagsCmd = task.flagsCmd
        /\ tk0.arrivals = task.arrivals /\ tk0.flagsCmd = task.flagsCmd
  BY <1>2, <1>4 DEF TypeOK, Task
<1>12. CASE Len(mb.disk.uids) # old.exists
  <2>1. mb.disk.sync.uidVal # h.val
    BY <1>1, <1>12 DEF OnDisk
  <2>2. FullMboxSync(mb, tk0)
    BY <1>11, <1>12
  <2> QED
    BY <1>5, <1>11a, <2>1, <2>2 DEF Decides
<1>13. CASE /\ Len(mb.disk.uids) = old.exists
            /\ ~(IsUsableForSyncing(mb.sync) /\ IsUsableForSyncing(old)
                 /\ mb.sync.uidVal = old.uidVal)
  <2>1. mb.disk.sync.uidVal # h.val
    BY <1>1, <1>6, <1>7, <1>13 DEF IsUsableForSyncing
  <2>2. FullMboxSync(cleared, tk)
    BY <1>11, <1>13
  <2> QED
    BY <1>5, <1>9, <1>11a, <2>1, <2>2 DEF Decides
<1>14. CASE Len(mb.disk.uids) = old.exists /\ mb.sync.uidVal = old.uidVal
            /\ IsUsableForSyncing(mb.sync) /\ IsUsableForSyncing(old)
  <2>1. old.uidVal = h.val /\ mb.disk.sync.uidVal = h.val
    BY <1>1, <1>7, <1>14
  <2>2. old.uidNext <= h.next
    BY <1>1, <2>1 DEF OnDisk, Follows
  <2>3. CASE mb.sync.exists = 0
    <3>1. FullMboxSync(mb, tk)
      BY <1>5, <1>11, <1>14, <2>3
    <3> QED
      BY <1>5, <1>11a, <2>3, <3>1 DEF Decides
  <2>4. CASE SyncUids(mb, tk, "ALL", 0, 0)
    BY <1>5, <1>11a, <2>1, <2>4 DEF Decides
  <2>5. CASE mb.sync.exists # 0 /\ NoArrivals(mb, old) /\ mb.sync.exists = old.exists
    <3>1. OnlyArrivals(mb, old)
      BY <1>6, <1>7, <2>5 DEF OnlyArrivals, NoArrivals
    <3>2. SyncNoNewNoDeletions(mb, tk)
      BY <1>5, <1>11, <1>14, <2>5
    <3>3. mb.sync.exists > 0
      BY <1>6, <1>7, <2>5
    <3> QED
      BY <1>1, <1>5, <1>11a, <2>1, <2>5, <3>1, <3>2, <3>3 DEF Decides
  <2>6. CASE /\ mb.sync.exists # 0 /\ ~NoArrivals(mb, old) /\ OnlyArrivals(mb, old)
             /\ SyncUids(mb, tk, "NEW", old.uidNext, old.exists)
    BY <1>1, <1>5, <1>11a, <2>1, <2>6 DEF Decides
  <2>7. ~(mb.sync.uidNext < old.uidNext)
    BY <1>6, <1>7, <2>2
  <2> QED
    BY <1>5, <1>11, <1>14, <2>3, <2>4, <2>5, <2>6, <2>7
<1> QED
  BY <1>11, <1>12, <1>13, <1>14

\* finalizeSelect: whatever it finds, the client goes on in the right way.
LEMMA FinalizeSelectFollows ==
    ASSUME Plain, TypeOK, NEW h, Sane(h), SyncIs(mb, h), OnDisk(mb, h.val, h), mb.st = "LOADING",
           ~task.qresync, FinalizeSelect(mb)
    PROVE  Chosen(h)
<1>1. PICK tk \in Task : ~tk.qresync /\ Decides(tk, h)
  BY FinalizeSelectDecides
<1>2. PICK old \in SyncState : old = mb.disk.sync
  BY MailboxFields DEF TypeOK
<1>3. /\ mb \in Mailbox /\ h.next \in Nat /\ Len(h.msgs) \in Nat /\ h.val \in Nat
      /\ Len(mb.list) \in Nat /\ old.exists \in Nat /\ old.uidNext \in Nat
  <2>1. h.next \in Nat /\ Len(h.msgs) \in Nat /\ h.val \in 1..2
    BY SaneFields
  <2>2. mb \in Mailbox /\ Len(mb.list) \in Nat
    BY MailboxFields DEF TypeOK
  <2>3. old.exists \in Nat /\ old.uidNext \in Nat
    BY DEF SyncState
  <2> QED
    BY <2>1, <2>2, <2>3
<1>4. PICK cleared : cleared = ClearAllMessages(mb)
  OBVIOUS
<1>5. /\ cleared \in Mailbox /\ cleared.list = mb.list /\ cleared.sync = mb.sync
      /\ cleared.st = mb.st /\ cleared.disk.sync = mb.disk.sync
  BY <1>3, <1>4, ClearAllMessagesType, ClearAllMessagesDoes
<1>6. CASE /\ FullMboxSync(mb, tk) \/ FullMboxSync(ClearAllMessages(mb), tk)
           /\ mb.disk.sync.uidVal # h.val \/ mb.sync.exists = 0
  <2>1. PICK w : w \in {mb, cleared} /\ FullMboxSync(w, tk)
    BY <1>4, <1>6
  <2>2. /\ w \in Mailbox /\ SyncIs(w, h) /\ w.st = "LOADING"
        /\ w.disk.sync = mb.disk.sync /\ w.sync = mb.sync
    BY <1>3, <1>5, <2>1 DEF SyncIs
  <2>3. w.disk.sync.uidVal <= h.val
    BY <2>2 DEF OnDisk
  <2> QED
    BY <1>1, <1>6, <2>1, <2>2, <2>3, FullFollows
<1>7. CASE SyncUids(mb, tk, "ALL", 0, 0) /\ mb.disk.sync.uidVal = h.val
  <2>1. KnownBelow(mb.list, h.next)
    BY <1>7 DEF OnDisk
  <2> QED
    BY <1>1, <1>3, <1>7, <2>1, SearchAllFollows
<1>8. CASE /\ mb.disk.sync.uidVal = h.val /\ OnlyArrivals(mb, mb.disk.sync)
           /\ tk.old = mb.disk.sync
           /\ \/ /\ SyncNoNewNoDeletions(mb, tk) /\ mb.sync.exists > 0
                 /\ mb.sync.exists = mb.disk.sync.exists
              \/ SyncUids(mb, tk, "NEW", mb.disk.sync.uidNext, mb.disk.sync.exists)
  <2>1. KnownBelow(mb.list, h.next) /\ old.uidNext <= h.next
    BY <1>2, <1>8 DEF OnDisk, Follows
  <2>2. /\ old.exists <= Len(mb.list) /\ Len(mb.list) <= Len(h.msgs)
        /\ FitsTo(mb.list, Len(mb.list), h) /\ Splits(h, old.uidNext, old.exists)
    BY <1>2, <1>3, <1>8, NothingExpunged
  <2>3. CASE SyncNoNewNoDeletions(mb, tk) /\ mb.sync.exists > 0 /\ mb.sync.exists = old.exists
    <3>1. Reflects(mb.list, h)
      BY <1>3, <2>2, <2>3 DEF Reflects, SyncIs
    <3> QED
      BY <1>1, <1>3, <2>3, <3>1, NoNewFollows
  <2>4. CASE SyncUids(mb, tk, "NEW", old.uidNext, old.exists)
    <3>1. FitsTo(mb.list, old.exists, h) /\ old.exists <= Len(h.msgs)
      BY <1>3, <2>2 DEF FitsTo
    <3> QED
      BY <1>1, <1>2, <1>3, <1>8, <2>1, <2>2, <2>4, <3>1, SearchFollows
  <2> QED
    BY <1>2, <1>8, <2>3, <2>4
<1> QED
  BY <1>1, <1>6, <1>7, <1>8 DEF Decides

\* The OK of SELECT finds the counters that the server has told.
LEMMA SelectOkDecides ==
    ASSUME Plain, TypeOK, NEW hs, FollowsServer(hs), SelectOk, task.status = "SELECTING", Handled,
           FinalizeSelect(mb)
    PROVE  /\ hs[1].val = srv.val /\ hs[2] = hs[1] /\ Sane(hs[1]) /\ SyncIs(mb, hs[1])
           /\ OnDisk(mb, hs[1].val, hs[1]) /\ mb.st = "LOADING"
           /\ \E tk \in Task : /\ ~tk.qresync /\ tk.arrivals = task.arrivals
                               /\ tk.flagsCmd = task.flagsCmd /\ Decides(tk, hs[1])
<1>1. /\ net # <<>> /\ Head(net).t = "OK" /\ Head(net).cmd = "SELECT" /\ IsSelect(Head(net))
  BY DEF SelectOk, Ok, Next1, Resp, IsSelect
<1>2. PICK h : h = hs[1]
  OBVIOUS
<1>3. /\ hs[2] = h /\ Sane(h) /\ Client(mb, task, srv.val, h)
      /\ OnDisk(mb, h.val, h) /\ srv.val = h.val
  BY <1>1, <1>2, TaggedTells
<1>4. mb.st = "LOADING" /\ ~task.qresync
  BY <1>3 DEF Client
<1>5. SyncIs(mb, h)
  <2>1. Len(net) >= 1 /\ Len(net) \in Nat /\ Head(net) = net[1] /\ Stream(hs)
    BY <1>1, Remaining
  <2>2. 1 \in 1..Len(net) /\ IsSelect(net[1])
    BY <1>1, <2>1
  <2> QED
    BY <1>2, <2>1, <2>2 DEF Stream, SelectInOrder
<1>6. PICK tk \in Task : /\ ~tk.qresync /\ tk.arrivals = task.arrivals
                         /\ tk.flagsCmd = task.flagsCmd /\ Decides(tk, h)
  BY <1>3, <1>4, <1>5, FinalizeSelectDecides
<1> QED
  BY <1>2, <1>3, <1>4, <1>5, <1>6

\* The OK of SELECT.
LEMMA SelectOkKeepsUp ==
    ASSUME Plain, TypeOK, TypeOK', NEW hs, FollowsServer(hs), SelectOk
    PROVE  Onwards(hs)
<1>1. /\ net # <<>> /\ Head(net).t = "OK" /\ Head(net).cmd = "SELECT" /\ IsSelect(Head(net))
  BY DEF SelectOk, Ok, Next1, Resp, IsSelect
<1>2. CASE Abort
  BY <1>2, StopKeepsUp DEF Abort
<1>3. CASE Throw("WrongChildren")
  BY <1>3, ThrowKeepsUp
<1>4. CASE task.status = "SELECTING" /\ Handled /\ FinalizeSelect(mb)
  <2>1. /\ hs[2] = hs[1] /\ Sane(hs[2]) /\ Client(mb, task, srv.val, hs[2])
        /\ OnDisk(mb, srv.val, hs[2]) /\ mb \in Mailbox /\ srv.val = hs[2].val
    BY <1>1, <1>4, TaggedTells
  <2>2. mb.st = "LOADING" /\ ~task.qresync
    BY <1>4, <2>1 DEF Client
  <2>3. /\ Len(net) >= 1 /\ Len(net) \in Nat /\ Head(net) = net[1] /\ Stream(hs)
        /\ History(Tail(hs), net', srv') /\ Tail(hs)[1] = hs[2]
    BY <1>1, <1>4, Remaining
  <2>4. SyncIs(mb, hs[1])
    <3>1. 1 \in 1..Len(net) /\ IsSelect(net[1])
      BY <1>1, <2>3
    <3> QED
      BY <2>3, <3>1 DEF Stream, SelectInOrder
  <2>5. PICK s : s = hs[2]
    OBVIOUS
  <2>6. Sane(s) /\ SyncIs(mb, s) /\ OnDisk(mb, s.val, s) /\ srv.val = s.val
    BY <2>1, <2>4, <2>5
  <2>7. Chosen(s)
    BY <1>4, <2>2, <2>6, FinalizeSelectFollows
  <2>8. PICK h : h = Tail(hs)
    OBVIOUS
  <2>9. Stream(h)'
    BY <1>1, <1>4, <2>7, StreamAfterSelect
  <2>10. History(h, net', srv')
    BY <2>3, <2>8, Zenon
  <2>11. h[1] = s
    BY <2>3, <2>5, <2>8, Zenon
  <2>12. srv'.val = s.val
    BY <1>4, <2>6 DEF Handled
  <2>13. Client(mb', task', srv'.val, h[1]) /\ mb'.st # "NONE"
    BY <2>7, <2>11, <2>12 DEF Chosen
  <2>14. Continues(hs, h)
    BY <1>1, <1>4, <2>8 DEF Handled, Continues
  <2> QED
    BY <2>9, <2>10, <2>13, <2>14, Concluded
<1> QED
  BY <1>2, <1>3, <1>4 DEF SelectOk

----------------------------------------------------------------------------
(* The invariant. *)

\* Nothing is under way before the first connection.
LEMMA InitKeepsUp ==
    ASSUME Plain, Init
    PROVE  KeepsUp
<1>1. PICK k \in 0..MaxUid :
        srv = [msgs |-> UidsOf(k), flag |-> [u \in Uid |-> IF u <= k THEN 1 ELSE 0],
               hms |-> 1, next |-> k + 1, val |-> 1]
  BY DEF Init
<1>2. srv \in Server /\ k \in Nat /\ MaxUid \in Nat
  BY InitType, MaxUidAssumption DEF TypeOK
<1>3. UidsOf(k) \in [1..k -> Nat] /\ \A i \in 1..k : UidsOf(k)[i] = i
  BY <1>2 DEF UidsOf
<1>4. Len(UidsOf(k)) = k
  BY <1>2, <1>3, FiniteFunctionIsSeq
<1>5. srv.msgs = UidsOf(k) /\ srv.next = k + 1 /\ srv.val = 1
  BY <1>1
<1>6. Sane(srv)
  BY <1>2, <1>3, <1>4, <1>5 DEF Sane
<1>7. PICK hs : hs = <<srv>>
  OBVIOUS
<1>8. hs \in Seq(Server) /\ hs[1] = srv /\ Len(hs) = 1
  BY <1>2, <1>7
<1>9. /\ net = <<>> /\ cmds = <<>> /\ ~up /\ ~selected /\ ~answered
      /\ task = NoTask /\ mb = [list |-> <<>>, st |-> "NONE", sync |-> NoSync, disk |-> EmptyDisk]
  BY DEF Init
<1>10. History(hs, net, srv)
  <2>1. History(<<srv>>, <<>>, srv)
    BY <1>6, HistoryNow
  <2>2. hs = <<srv>> /\ net = <<>>
    BY <1>7, <1>9
  <2> QED
    BY <2>1, <2>2, Zenon
<1>11. task.status = "OFF" /\ ~task.qresync
  BY <1>9 DEF NoTask
<1>12. Stream(hs)
  <2>1. Len(net) = 0 /\ Len(cmds) = 0
    BY <1>9
  <2>2. ~SelectAnswered
    BY <1>9 DEF SelectAnswered
  <2>3. CodesInOrder(hs) /\ SelectInOrder(hs) /\ SelectIsLast
    BY <2>1, <2>2 DEF CodesInOrder, SelectInOrder, SelectIsLast
  <2>4. ArgsPlain /\ TagsFit /\ SearchFits(hs)
    BY <1>11, <2>1 DEF ArgsPlain, TagsFit, SearchFits
  <2>5. Connected
    BY <1>9, <1>11 DEF Connected
  <2> QED
    BY <2>3, <2>4, <2>5 DEF Stream
<1>13. mb.st = "NONE" /\ mb.list = <<>> /\ mb.disk.sync.uidVal = 0
  BY <1>9 DEF EmptyDisk, NoSync
<1>14. OnDisk(mb, srv.val, hs[1])
  BY <1>5, <1>13 DEF OnDisk
<1>15. Client(mb, task, srv.val, hs[1])
  BY <1>11, <1>13, <1>14 DEF Client, UidsAreKnown
<1> QED
  BY <1>8, <1>9, <1>10, <1>12, <1>15 DEF KeepsUp, FollowsServer

\* A response that the client handles.
LEMMA HandleResponseKeepsUp ==
    ASSUME Plain, TypeOK, TypeOK', SyncInv, NEW hs, FollowsServer(hs), HandleResponse
    PROVE  Onwards(hs)
<1>1. ~Vanished /\ ~VanishedEarlier
  BY NoneVanished
<1>2. CASE HandleCodes
  BY <1>2, HandleCodesKeepsUp
<1>3. CASE ObtainExists
  BY <1>3, ObtainExistsKeepsUp
<1>4. CASE KeepExists
  BY <1>4, KeepExistsKeepsUp
<1>5. CASE ObtainExpunge
  BY <1>5, ObtainExpungeKeepsUp
<1>6. CASE KeepExpunge
  BY <1>6, KeepExpungeKeepsUp
<1>7. CASE HandleFetch
  BY <1>7, HandleFetchKeepsUp
<1>8. CASE HandleSearch
  BY <1>8, HandleSearchKeepsUp
<1>9. CASE SelectOk
  BY <1>9, SelectOkKeepsUp
<1>10. CASE SearchOk
  BY <1>10, SearchOkKeepsUp
<1>11. CASE FlagsOk
  BY <1>11, FlagsOkKeepsUp
<1>12. CASE ObtainArrivalsOk
  BY <1>12, ObtainArrivalsOkKeepsUp
<1>13. CASE ObtainNo
  BY <1>13, ObtainNoKeepsUp
<1>14. CASE KeepArrivalsFinished
  BY <1>14, KeepArrivalsFinishedKeepsUp
<1>15. CASE Unhandled
  BY <1>15, UnhandledKeepsUp
<1> QED
  BY <1>1, <1>2, <1>3, <1>4, <1>5, <1>6, <1>7, <1>8, <1>9, <1>10, <1>11, <1>12, <1>13, <1>14,
     <1>15 DEF HandleResponse

\* A step that changes nothing.
LEMMA StutterKeepsUp ==
    ASSUME TypeOK, NEW hs, FollowsServer(hs), UNCHANGED vars
    PROVE  Onwards(hs)
<1> USE DEF vars
<1>1. FollowsServer(hs)' <=> FollowsServer(hs)
  BY DEF FollowsServer, Stream, CodesInOrder, SelectInOrder, SelectIsLast, ArgsPlain, TagsFit,
         Connected, SearchFits, SelectAnswered
<1>2. hs \in Seq(Server) /\ Len(hs) \in Nat
  BY SaneServer
<1>3. Continues(hs, hs)
  BY <1>2 DEF Continues
<1> QED
  BY <1>1, <1>2, <1>3 DEF Onwards

\* Every step of the system.
LEMMA NextFollows ==
    ASSUME Plain, TypeOK, TypeOK', SyncInv, NEW hs, FollowsServer(hs), [Next]_vars
    PROVE  Onwards(hs)
<1>2. CASE Arrive
  BY <1>2, ArriveKeepsUp
<1>3. ASSUME NEW i \in 1..Len(srv.msgs), ServerExpunge(i) PROVE Onwards(hs)
  BY <1>3, ServerExpungeKeepsUp
<1>4. ASSUME NEW i \in 1..Len(srv.msgs), ServerFlag(i) PROVE Onwards(hs)
  BY <1>4, ServerFlagKeepsUp
<1>5. CASE Recreate
  BY <1>5, RecreateKeepsUp
<1>6. CASE SendData
  BY <1>6, SendDataKeepsUp
<1>7. CASE SendTagged
  BY <1>7, SendTaggedKeepsUp
<1>8. CASE Perform
  BY <1>8, PerformKeepsUp
<1>9. CASE HandleResponse
  BY <1>9, HandleResponseKeepsUp
<1>10. CASE Drop
  BY <1>10, DropKeepsUp
<1>11. CASE Restart
  BY <1>11, StopKeepsUp DEF Restart
<1>12. CASE UNCHANGED vars
  BY <1>12, StutterKeepsUp
<1> QED
  BY <1>2, <1>3, <1>4, <1>5, <1>6, <1>7, <1>8, <1>9, <1>10, <1>11, <1>12 DEF Next, ServerChange

\* A step leaves the client behind by what is then under way.
LEMMA NextKeepsUp ==
    ASSUME Plain, TypeOK, TypeOK', SyncInv, KeepsUp, [Next]_vars
    PROVE  KeepsUp'
<1>1. PICK hs \in Seq(Server) : FollowsServer(hs)
  BY DEF KeepsUp
<1>2. Onwards(hs)
  BY <1>1, NextFollows
<1> QED
  BY <1>2 DEF Onwards, KeepsUp

\* The inductive invariant: whatever is sent, handled, refused or lost, the responses under way
\* take the client through states of the mailbox to the one that it has now.
THEOREM ClientKeepsUp ==
    ASSUME Plain
    PROVE  Spec => []KeepsUp
<1>1. Init => TypeOK /\ SyncInv /\ KeepsUp
  BY InitType, InitKeepsUp
<1>2. TypeOK /\ SyncInv /\ KeepsUp /\ [Next]_vars => TypeOK' /\ SyncInv' /\ KeepsUp'
  BY NextType, NextKeepsUp
<1> QED
  BY <1>1, <1>2, PTL DEF Spec

\* Quiet: nothing is under way, so hs[1] is the server's mailbox.
LEMMA QuietIsServers ==
    ASSUME TypeOK, KeepsUp
    PROVE  KnownAreServers
<1> SUFFICES ASSUME Quiet
             PROVE  /\ Len(mb.list) = Len(srv.msgs)
                    /\ \A i \in 1..Len(mb.list) : mb.list[i].uid \in {0, srv.msgs[i]}
  BY DEF KnownAreServers
<1>1. PICK hs \in Seq(Server) : FollowsServer(hs)
  BY DEF KeepsUp
<1>2. hs[1] = srv /\ Client(mb, task, srv.val, hs[1])
  BY <1>1, SaneServer DEF Quiet, FollowsServer
<1>3. Synced(mb, srv.val, srv)
  BY <1>2 DEF Client, Quiet, UidsAreKnown
<1> QED
  BY <1>3 DEF Synced, Reflects, FitsTo

\* What is on disk was the mailbox and is below its UIDNEXT ever since.
LEMMA DiskIsBelow ==
    ASSUME TypeOK, KeepsUp
    PROVE  UidNextAbove
<1> SUFFICES ASSUME mb.disk.sync.uidVal = srv.val
             PROVE  /\ mb.disk.sync.uidNext <= srv.next
                    /\ \A i \in 1..Len(mb.disk.uids) : mb.disk.uids[i] < mb.disk.sync.uidNext
  BY DEF UidNextAbove
<1>1. PICK hs \in Seq(Server) : FollowsServer(hs)
  BY DEF KeepsUp
<1>2. PICK h : h = hs[1]
  OBVIOUS
<1>3. /\ Sane(h) /\ Sane(srv) /\ Later(h, srv) /\ mb \in Mailbox /\ OnDisk(mb, srv.val, h)
  BY <1>1, <1>2, SaneServer DEF FollowsServer, Client
<1>4. mb.disk.sync.uidNext <= h.next /\ h.next <= srv.next
  BY <1>3 DEF OnDisk, Follows, Later
<1>5. h.next \in Nat /\ srv.next \in Nat
  BY <1>3, SaneFields
<1>6. mb.disk.sync.uidNext \in Nat
  BY <1>3, MailboxFields DEF SyncState
<1>7. mb.disk.sync.uidNext <= srv.next
  BY <1>4, <1>5, <1>6
<1>8. \A i \in 1..Len(mb.disk.uids) : mb.disk.uids[i] < mb.disk.sync.uidNext
  BY <1>3 DEF OnDisk
<1> QED
  BY <1>7, <1>8

\* When everything sent has been handled, the list is as long as the server's mailbox, and each
\* UID known in it is that of the message in its place there: nothing was applied out of order,
\* twice, or to the wrong message.
THEOREM OpenMailboxIsServers ==
    ASSUME Plain
    PROVE  Spec => []KnownAreServers
<1>1. TypeOK /\ KeepsUp => KnownAreServers
  BY QuietIsServers
<1> QED
  BY <1>1, TypeCorrect, ClientKeepsUp, PTL

\* The UIDNEXT on disk is above every UID there, and not above the one of the server: a
\* synchronization that searches from it on misses no message.
THEOREM CacheMissesNothing ==
    ASSUME Plain
    PROVE  Spec => []UidNextAbove
<1>1. TypeOK /\ KeepsUp => UidNextAbove
  BY DiskIsBelow
<1> QED
  BY <1>1, TypeCorrect, ClientKeepsUp, PTL

----------------------------------------------------------------------------
(* Counting what is under way. *)

LineKind(r) == IF r.t = "OK" THEN r.cmd ELSE "NONE"
LineKinds(q) == [i \in 1..Len(q) |-> LineKind(q[i])]
OpenKinds(cs) == [i \in 1..Len(cs) |-> cs[i].t]
Kinds == CommandKind \cup {"NONE"}

\* Sequences with the same elements are the same.
LEMMA SameElements ==
    ASSUME NEW S, NEW s \in Seq(S), NEW t \in Seq(S), NEW n, Len(s) = n, Len(t) = n,
           \A i \in 1..n : s[i] = t[i]
    PROVE  s = t
BY SeqEqual

\* A tagged line names the kind of its command.
LEMMA LineKindType ==
    ASSUME NEW r \in Response
    PROVE  LineKind(r) \in Kinds
<1>1. r.t = "OK" => r \in [t: {"OK", "NO"}, cmd: CommandKind, tag: Nat]
  BY DEF Response
<1> QED
  BY <1>1 DEF LineKind, Kinds

\* The numbers of tagged lines and of open commands, as counts.
LEMMA LinesCounted ==
    ASSUME NEW q \in Seq(Response), NEW c \in CommandKind
    PROVE  /\ LineKinds(q) \in Seq(Kinds) /\ Len(LineKinds(q)) = Len(q)
           /\ Cardinality(LinesOf(q, c)) = Count(LineKinds(q), c)
           /\ Cardinality(LinesOf(q, c)) \in Nat
<1>1. Len(q) \in Nat /\ \A i \in 1..Len(q) : q[i] \in Response
  BY ElementOfSeq, LenProperties
<1>2. LineKinds(q) \in [1..Len(q) -> Kinds]
  BY <1>1, LineKindType DEF LineKinds
<1>3. LineKinds(q) \in Seq(Kinds) /\ Len(LineKinds(q)) = Len(q)
  BY <1>1, <1>2, FiniteFunctionIsSeq
<1>4. LinesOf(q, c) = {i \in DOMAIN LineKinds(q) : LineKinds(q)[i] = c}
  <2>1. c # "NONE"
    BY DEF CommandKind
  <2>2. \A i \in 1..Len(q) : q[i].t = "OK" /\ q[i].cmd = c <=> LineKinds(q)[i] = c
    BY <2>1 DEF LineKinds, LineKind
  <2> QED
    BY <1>2, <2>2 DEF LinesOf
<1>5. Count(LineKinds(q), c) \in Nat
  BY <1>3, CountNat
<1> QED
  BY <1>3, <1>4, <1>5 DEF Count

LEMMA OpenCounted ==
    ASSUME NEW cs \in Seq(Commands), NEW c \in CommandKind
    PROVE  /\ OpenKinds(cs) \in Seq(CommandKind) /\ Len(OpenKinds(cs)) = Len(cs)
           /\ Cardinality(OpenOf(cs, c)) = Count(OpenKinds(cs), c)
           /\ Cardinality(OpenOf(cs, c)) \in Nat
<1>1. Len(cs) \in Nat /\ \A i \in 1..Len(cs) : cs[i].t \in CommandKind
  <2>1. Len(cs) \in Nat /\ \A i \in 1..Len(cs) : cs[i] \in Commands
    BY ElementOfSeq, LenProperties
  <2> QED
    BY <2>1 DEF Commands
<1>2. OpenKinds(cs) \in [1..Len(cs) -> CommandKind]
  BY <1>1 DEF OpenKinds
<1>3. OpenKinds(cs) \in Seq(CommandKind) /\ Len(OpenKinds(cs)) = Len(cs)
  BY <1>1, <1>2, FiniteFunctionIsSeq
<1>4. OpenOf(cs, c) = {i \in DOMAIN OpenKinds(cs) : OpenKinds(cs)[i] = c}
  BY <1>2 DEF OpenOf, OpenKinds
<1>5. Count(OpenKinds(cs), c) \in Nat
  BY <1>3, CountNat
<1> QED
  BY <1>3, <1>4, <1>5 DEF Count

\* None is counted where there is none.
LEMMA NoLines ==
    ASSUME NEW q \in Seq(Response), NEW c \in CommandKind
    PROVE  Cardinality(LinesOf(q, c)) = 0 <=> LinesOf(q, c) = {}
<1>1. LineKinds(q) \in [1..Len(q) -> Kinds]
  BY LinesCounted, LenProperties DEF LineKinds
<1>2. Count(LineKinds(q), c) = 0 <=> \A i \in 1..Len(q) : LineKinds(q)[i] # c
  BY <1>1, LinesCounted, CountNat
<1>3. c # "NONE"
  BY DEF CommandKind
<1>4. \A i \in 1..Len(q) : q[i].t = "OK" /\ q[i].cmd = c <=> LineKinds(q)[i] = c
  BY <1>3 DEF LineKinds, LineKind
<1> QED
  BY <1>2, <1>4, LinesCounted DEF LinesOf

LEMMA NoneOpen ==
    ASSUME NEW cs \in Seq(Commands), NEW c \in CommandKind
    PROVE  Cardinality(OpenOf(cs, c)) = 0 <=> OpenOf(cs, c) = {}
<1>1. OpenKinds(cs) \in [1..Len(cs) -> CommandKind]
  BY OpenCounted, LenProperties DEF OpenKinds
<1>2. Count(OpenKinds(cs), c) = 0 <=> \A i \in 1..Len(cs) : OpenKinds(cs)[i] # c
  BY <1>1, OpenCounted, CountNat
<1> QED
  BY <1>1, <1>2, OpenCounted DEF OpenOf, OpenKinds

\* What the server appends, what the client takes.
LEMMA LinesConcat ==
    ASSUME NEW q \in Seq(Response), NEW d \in Seq(Response), NEW c \in CommandKind
    PROVE  Cardinality(LinesOf(q \o d, c)) = Cardinality(LinesOf(q, c)) + Cardinality(LinesOf(d, c))
<1> DEFINE k == Len(q)
           n == Len(d)
<1>1. /\ q \o d \in Seq(Response) /\ Len(q \o d) = k + n /\ k \in Nat /\ n \in Nat
      /\ \A i \in 1..(k + n) : (q \o d)[i] = IF i <= k THEN q[i] ELSE d[i - k]
  BY ConcatProperties, LenProperties
<1>2. /\ LineKinds(q) \in Seq(Kinds) /\ Len(LineKinds(q)) = k
      /\ LineKinds(d) \in Seq(Kinds) /\ Len(LineKinds(d)) = n
  BY LinesCounted
<1> HIDE DEF k, n
<1>2a. PICK a \in Seq(Kinds), b \in Seq(Kinds) : a = LineKinds(q) /\ b = LineKinds(d)
  BY <1>2
<1>3. /\ a \o b \in Seq(Kinds) /\ Len(a \o b) = k + n /\ Len(a) = k /\ Len(b) = n
      /\ \A i \in 1..(k + n) : (a \o b)[i] = IF i <= k THEN a[i] ELSE b[i - k]
  BY <1>2, <1>2a, ConcatProperties
<1>4. LineKinds(q \o d) = a \o b
  <2>1. LineKinds(q \o d) \in Seq(Kinds) /\ Len(LineKinds(q \o d)) = k + n
    BY <1>1, LinesCounted
  <2>2. ASSUME NEW i \in 1..(k + n)
        PROVE  LineKinds(q \o d)[i] = (a \o b)[i]
    <3>1. LineKinds(q \o d)[i] = LineKind((q \o d)[i])
      BY <1>1 DEF LineKinds
    <3>2. CASE i <= k
      <4>1. i \in 1..k
        BY <1>1, <3>2
      <4> QED
        BY <1>1, <1>2a, <1>3, <3>1, <3>2, <4>1 DEF LineKinds, k
    <3>3. CASE ~(i <= k)
      <4>1. i - k \in 1..n
        BY <1>1, <3>3
      <4> QED
        BY <1>1, <1>2a, <1>3, <3>1, <3>3, <4>1 DEF LineKinds, n
    <3> QED
      BY <3>2, <3>3
  <2> QED
    BY <1>3, <2>1, <2>2, SameElements
<1> QED
  <2>1. Count(a \o b, c) = Count(a, c) + Count(b, c)
    BY <1>2a, CountConcat
  <2>2. /\ Cardinality(LinesOf(q \o d, c)) = Count(LineKinds(q \o d), c)
        /\ Cardinality(LinesOf(q, c)) = Count(LineKinds(q), c)
        /\ Cardinality(LinesOf(d, c)) = Count(LineKinds(d), c)
    BY <1>1, LinesCounted
  <2> QED
    BY <1>2a, <1>4, <2>1, <2>2

LEMMA LinesTail ==
    ASSUME NEW q \in Seq(Response), q # <<>>, NEW c \in CommandKind
    PROVE  Cardinality(LinesOf(q, c)) = Cardinality(LinesOf(Tail(q), c))
                                        + (IF LineKind(Head(q)) = c THEN 1 ELSE 0)
<1>1. /\ Len(q) \in Nat /\ Len(q) >= 1 /\ Head(q) = q[1] /\ Tail(q) \in Seq(Response)
      /\ Len(Tail(q)) = Len(q) - 1 /\ \A i \in 1..(Len(q) - 1) : Tail(q)[i] = q[i + 1]
  BY TailElements
<1>2. LineKinds(q) \in Seq(Kinds) /\ Len(LineKinds(q)) = Len(q)
  BY LinesCounted
<1>3. LineKinds(q) # <<>>
  BY <1>1, <1>2
<1>3a. PICK a \in Seq(Kinds) : a = LineKinds(q)
  BY <1>2
<1>4. /\ Head(a) = a[1] /\ Tail(a) \in Seq(Kinds) /\ Len(Tail(a)) = Len(q) - 1
      /\ \A i \in 1..(Len(q) - 1) : Tail(a)[i] = a[i + 1]
  BY <1>2, <1>3, <1>3a, TailElements
<1>5. Head(a) = LineKind(Head(q))
  BY <1>1, <1>3a, <1>4 DEF LineKinds
<1>6. LineKinds(Tail(q)) = Tail(a)
  <2>0. PICK t \in Seq(Response) : t = Tail(q)
    <3>1. Tail(q) \in Seq(Response)
      BY <1>1
    <3> QED
      BY <3>1
  <2>0a. /\ LineKinds(t) \in Seq(Kinds) /\ Len(LineKinds(t)) = Len(t)
         /\ Cardinality(LinesOf(t, c)) \in Nat
    BY LinesCounted, Zenon
  <2>1. LineKinds(Tail(q)) \in Seq(Kinds) /\ Len(LineKinds(Tail(q))) = Len(q) - 1
    BY <1>1, <2>0, <2>0a, Zenon
  <2>2. ASSUME NEW i \in 1..(Len(q) - 1) PROVE LineKinds(Tail(q))[i] = Tail(a)[i]
    <3>1. i + 1 \in 1..Len(q) /\ i \in 1..Len(Tail(q))
      BY <1>1
    <3> QED
      BY <1>1, <1>3a, <1>4, <3>1 DEF LineKinds
  <2> QED
    BY <1>4, <2>1, <2>2, SameElements
<1> QED
  <2>1. Count(a, c) = Count(Tail(a), c) + (IF Head(a) = c THEN 1 ELSE 0)
    BY <1>3, <1>3a, CountTail
  <2>2. /\ Cardinality(LinesOf(q, c)) = Count(LineKinds(q), c)
        /\ Cardinality(LinesOf(Tail(q), c)) = Count(LineKinds(Tail(q)), c)
    BY <1>1, LinesCounted
  <2> QED
    BY <1>3a, <1>5, <1>6, <2>1, <2>2

LEMMA OpenAppend ==
    ASSUME NEW cs \in Seq(Commands), NEW x \in Commands, NEW c \in CommandKind
    PROVE  Cardinality(OpenOf(Append(cs, x), c)) = Cardinality(OpenOf(cs, c))
                                                   + (IF x.t = c THEN 1 ELSE 0)
<1>1. /\ Append(cs, x) \in Seq(Commands) /\ Len(Append(cs, x)) = Len(cs) + 1 /\ Len(cs) \in Nat
      /\ \A i \in 1..Len(cs) : Append(cs, x)[i] = cs[i]
      /\ Append(cs, x)[Len(cs) + 1] = x
  BY AppendElements
<1>2. OpenKinds(cs) \in Seq(CommandKind) /\ Len(OpenKinds(cs)) = Len(cs)
  BY OpenCounted
<1>3. x.t \in CommandKind
  BY DEF Commands
<1>3a. PICK a \in Seq(CommandKind), k \in CommandKind : a = OpenKinds(cs) /\ k = x.t
  BY <1>2, <1>3
<1>4. /\ Append(a, k) \in Seq(CommandKind) /\ Len(Append(a, k)) = Len(cs) + 1
      /\ \A i \in 1..Len(cs) : Append(a, k)[i] = a[i]
      /\ Append(a, k)[Len(cs) + 1] = k
  BY <1>2, <1>3a, AppendElements
<1>5. OpenKinds(Append(cs, x)) = Append(a, k)
  <2>1. OpenKinds(Append(cs, x)) \in Seq(CommandKind) /\ Len(OpenKinds(Append(cs, x))) = Len(cs) + 1
    BY <1>1, OpenCounted
  <2>2. ASSUME NEW i \in 1..(Len(cs) + 1)
        PROVE  OpenKinds(Append(cs, x))[i] = Append(a, k)[i]
    <3>1. OpenKinds(Append(cs, x))[i] = Append(cs, x)[i].t
      BY <1>1 DEF OpenKinds
    <3>2. i \in 1..Len(cs) \/ i = Len(cs) + 1
      BY <1>1
    <3> QED
      BY <1>1, <1>3a, <1>4, <3>1, <3>2 DEF OpenKinds
  <2> QED
    BY <1>4, <2>1, <2>2, SameElements
<1> QED
  <2>1. Count(Append(a, k), c) = Count(a, c) + (IF k = c THEN 1 ELSE 0)
    BY <1>3a, CountAppend
  <2>2. /\ Cardinality(OpenOf(cs, c)) = Count(OpenKinds(cs), c)
        /\ Cardinality(OpenOf(Append(cs, x), c)) = Count(OpenKinds(Append(cs, x)), c)
    BY <1>1, OpenCounted
  <2> QED
    BY <1>3a, <1>5, <2>1, <2>2

LEMMA OpenTail ==
    ASSUME NEW cs \in Seq(Commands), cs # <<>>, NEW c \in CommandKind
    PROVE  Cardinality(OpenOf(cs, c)) = Cardinality(OpenOf(Tail(cs), c))
                                        + (IF Head(cs).t = c THEN 1 ELSE 0)
<1>1. /\ Len(cs) \in Nat /\ Len(cs) >= 1 /\ Head(cs) = cs[1] /\ Tail(cs) \in Seq(Commands)
      /\ Len(Tail(cs)) = Len(cs) - 1 /\ \A i \in 1..(Len(cs) - 1) : Tail(cs)[i] = cs[i + 1]
  BY TailElements
<1>2. OpenKinds(cs) \in Seq(CommandKind) /\ Len(OpenKinds(cs)) = Len(cs)
  BY OpenCounted
<1>3. OpenKinds(cs) # <<>>
  BY <1>1, <1>2
<1>3a. PICK a \in Seq(CommandKind) : a = OpenKinds(cs)
  BY <1>2
<1>4. /\ Head(a) = a[1] /\ Tail(a) \in Seq(CommandKind) /\ Len(Tail(a)) = Len(cs) - 1
      /\ \A i \in 1..(Len(cs) - 1) : Tail(a)[i] = a[i + 1]
  BY <1>2, <1>3, <1>3a, TailElements
<1>5. Head(a) = Head(cs).t
  BY <1>1, <1>3a, <1>4 DEF OpenKinds
<1>6. OpenKinds(Tail(cs)) = Tail(a)
  <2>0. PICK t \in Seq(Commands) : t = Tail(cs)
    <3>1. Tail(cs) \in Seq(Commands)
      BY <1>1
    <3> QED
      BY <3>1
  <2>0a. /\ OpenKinds(t) \in Seq(CommandKind) /\ Len(OpenKinds(t)) = Len(t)
         /\ Cardinality(OpenOf(t, c)) \in Nat
    BY OpenCounted, Zenon
  <2>1. OpenKinds(Tail(cs)) \in Seq(CommandKind) /\ Len(OpenKinds(Tail(cs))) = Len(cs) - 1
    BY <1>1, <2>0, <2>0a, Zenon
  <2>2. ASSUME NEW i \in 1..(Len(cs) - 1) PROVE OpenKinds(Tail(cs))[i] = Tail(a)[i]
    <3>1. i + 1 \in 1..Len(cs) /\ i \in 1..Len(Tail(cs))
      BY <1>1
    <3> QED
      BY <1>1, <1>3a, <1>4, <3>1 DEF OpenKinds
  <2> QED
    BY <1>4, <2>1, <2>2, SameElements
<1> QED
  <2>1. Count(a, c) = Count(Tail(a), c) + (IF Head(a) = c THEN 1 ELSE 0)
    BY <1>3, <1>3a, CountTail
  <2>2. /\ Cardinality(OpenOf(cs, c)) = Count(OpenKinds(cs), c)
        /\ Cardinality(OpenOf(Tail(cs), c)) = Count(OpenKinds(Tail(cs)), c)
    BY <1>1, OpenCounted
  <2> QED
    BY <1>3a, <1>5, <1>6, <2>1, <2>2

----------------------------------------------------------------------------
(* What Pending says of the first response. *)

\* What is waited for is counted by a number.
LEMMA WaitingType ==
    ASSUME TypeOK, NEW c \in CommandKind
    PROVE  /\ Cardinality(LinesOf(net, c)) \in Nat /\ Cardinality(OpenOf(cmds, c)) \in Nat
           /\ Awaited(c) \in Nat
<1>1. net \in Seq(Response) /\ cmds \in Seq(Commands) /\ task.arrivals \in Nat
  BY TaskFields DEF TypeOK
<1>2. Awaited(c) \in Nat
  BY <1>1 DEF Awaited
<1> QED
  BY <1>1, <1>2, LinesCounted, OpenCounted

\* Nothing is under way of a kind that the task does not wait for.
LEMMA NothingAwaited ==
    ASSUME TypeOK, Pending, NEW c \in CommandKind, Awaited(c) = 0
    PROVE  LinesOf(net, c) = {} /\ OpenOf(cmds, c) = {}
<1>1. Waiting(c) = 0
  BY DEF Pending, Counted
<1>2. Cardinality(LinesOf(net, c)) = 0 /\ Cardinality(OpenOf(cmds, c)) = 0
  BY <1>1, WaitingType DEF Waiting
<1> QED
  BY <1>2, NoLines, NoneOpen DEF TypeOK

\* The task waits for every tagged line.
LEMMA ExpectedLine ==
    ASSUME TypeOK, Pending, net # <<>>, Head(net).t = "OK"
    PROVE  /\ Head(net).cmd \in CommandKind /\ Head(net).tag = selects
           /\ Awaited(Head(net).cmd) \in Nat /\ Awaited(Head(net).cmd) >= 1
<1>1. net \in Seq(Response) /\ Head(net) \in Response /\ 1 \in 1..Len(net) /\ Head(net) = net[1]
  <2>1. net \in Seq(Response)
    BY DEF TypeOK
  <2>2. Len(net) \in Nat /\ Len(net) >= 1 /\ Head(net) = net[1]
    BY <2>1, TailElements
  <2>3. 1 \in 1..Len(net)
    BY <2>2
  <2> QED
    BY <2>1, <2>2, <2>3, ElementOfSeq
<1>2. Head(net).cmd \in CommandKind
  BY <1>1 DEF Response
<1>3. Head(net).tag = selects
  BY <1>1 DEF Pending, OneTask
<1>4. LinesOf(net, Head(net).cmd) # {}
  BY <1>1 DEF LinesOf
<1>5. Awaited(Head(net).cmd) # 0
  BY <1>2, <1>4, NothingAwaited
<1> QED
  BY <1>2, <1>3, <1>5, WaitingType

\* A FETCH that tells a UID is the answer to a UID FETCH of the task.
LEMMA UidsWanted ==
    ASSUME TypeOK, Pending, NEW i \in 1..Len(net), net[i].t = "FETCH", net[i].uid # 0
    PROVE  task.arrivals > 0 /\ task.status \in UidsAreKnown
<1>1. InAnswer("ARRIVALS") \/ LinesOf(net, "ARRIVALS") # {}
  BY DEF Pending, UidsInAnswer, LineAfter
<1>2. InAnswer("ARRIVALS") => OpenOf(cmds, "ARRIVALS") # {}
  <2>1. cmds # <<>> => 1 \in 1..Len(cmds) /\ Head(cmds) = cmds[1]
    <3>1. cmds \in Seq(Commands)
      BY DEF TypeOK
    <3>2. cmds # <<>> => Len(cmds) \in Nat /\ Len(cmds) >= 1 /\ Head(cmds) = cmds[1]
      BY <3>1, TailElements
    <3> QED
      BY <3>2
  <2> QED
    BY <2>1 DEF InAnswer, OpenOf
<1>3. "ARRIVALS" \in CommandKind
  BY DEF CommandKind
<1>4. Awaited("ARRIVALS") # 0
  BY <1>1, <1>2, <1>3, NothingAwaited
<1>5. Awaited("ARRIVALS") = task.arrivals /\ task.arrivals \in Nat
  BY TaskFields DEF Awaited, TypeOK
<1>6. task.arrivals > 0
  BY <1>4, <1>5
<1> QED
  BY <1>6 DEF Pending, OneTask

----------------------------------------------------------------------------
(* What is sent. *)

\* Untagged responses, and data in answer to the first command.
LEMMA DataPending ==
    ASSUME TypeOK, Pending, NEW d \in Seq(Response), net' = net \o d,
           \A k \in 1..Len(d) : /\ d[k].t \notin {"OK", "NO"}
                                /\ d[k].t = "FETCH" /\ d[k].uid # 0 => InAnswer("ARRIVALS")',
           InAnswer("ARRIVALS") => InAnswer("ARRIVALS")',
           InAnswer("SEARCH")' => InAnswer("SEARCH") \/ \E k \in 1..Len(d) : d[k].t = "SEARCH",
           UNCHANGED <<cmds, up, task, selects>>
    PROVE  Pending'
<1> DEFINE n == Len(net)
           e == Len(d)
<1>1. /\ net \in Seq(Response) /\ n \in Nat /\ e \in Nat
      /\ Len(net') = n + e
      /\ \A i \in 1..(n + e) : net'[i] = IF i <= n THEN net[i] ELSE d[i - n]
  BY ConcatProperties, LenProperties DEF TypeOK
<1>1a. Len(net) = n /\ Len(d) = e
  OBVIOUS
<1> HIDE DEF n, e
<1>2. \A i \in 1..n : i \in 1..Len(net') /\ net'[i] = net[i]
  BY <1>1
<1>3. \A i \in 1..Len(net') : \/ i \in 1..n /\ net'[i] = net[i]
                              \/ i > n /\ i - n \in 1..e /\ net'[i] = d[i - n]
  <2> SUFFICES ASSUME NEW i \in 1..(n + e)
               PROVE  \/ i \in 1..n /\ net'[i] = net[i]
                      \/ i > n /\ i - n \in 1..e /\ net'[i] = d[i - n]
    BY <1>1
  <2>0. n \in Nat /\ e \in Nat
    BY <1>1
  <2>1. i \in 1..n \/ (~(i <= n) /\ i > n /\ i - n \in 1..e)
    BY <2>0
  <2>2. net'[i] = IF i <= n THEN net[i] ELSE d[i - n]
    BY <1>1
  <2>3. i \in 1..n => i <= n
    BY <2>0
  <2> QED
    BY <2>1, <2>2, <2>3
<1>4. ASSUME NEW c \in CommandKind PROVE Waiting(c)' = Awaited(c)'
  <2>1. Cardinality(LinesOf(net \o d, c)) = Cardinality(LinesOf(net, c)) + Cardinality(LinesOf(d, c))
    BY <1>1, LinesConcat
  <2>2. LinesOf(d, c) = {}
    BY <1>1a DEF LinesOf
  <2>3. Cardinality(LinesOf(d, c)) = 0
    BY <2>2, NoLines
  <2>4. Cardinality(LinesOf(net', c)) = Cardinality(LinesOf(net, c))
    BY <2>1, <2>3, WaitingType
  <2>5. Waiting(c)' = Waiting(c)
    BY <2>4 DEF Waiting
  <2>6. Awaited(c)' = Awaited(c)
    BY DEF Awaited, AwaitsSearch
  <2> QED
    BY <2>5, <2>6 DEF Pending, Counted
<1>5. OneTask'
  <2>1. OneTask
    BY DEF Pending
  <2>2. ASSUME NEW i \in 1..Len(net')
        PROVE  net'[i].t # "NO" /\ (net'[i].t = "OK" => net'[i].tag = selects)
    <3>1. CASE i \in 1..n /\ net'[i] = net[i]
      BY <1>1a, <2>1, <3>1 DEF OneTask
    <3>2. CASE i > n /\ i - n \in 1..e /\ net'[i] = d[i - n]
      BY <1>1a, <3>2
    <3> QED
      BY <1>3, <3>1, <3>2
  <2> QED
    BY <2>1, <2>2 DEF OneTask, UidsAreKnown
<1>6. UidsInAnswer'
  <2> SUFFICES ASSUME NEW i \in 1..Len(net'), net'[i].t = "FETCH", net'[i].uid # 0
               PROVE  InAnswer("ARRIVALS")' \/ \E k \in LinesOf(net', "ARRIVALS") : k > i
    BY DEF UidsInAnswer, LineAfter
  <2>1. CASE i \in 1..n /\ net'[i] = net[i]
    <3>1. InAnswer("ARRIVALS") \/ \E k \in LinesOf(net, "ARRIVALS") : k > i
      BY <1>1a, <2>1 DEF Pending, UidsInAnswer, LineAfter
    <3>2. LinesOf(net, "ARRIVALS") \subseteq LinesOf(net', "ARRIVALS")
      BY <1>1a, <1>2 DEF LinesOf
    <3> QED
      BY <3>1, <3>2
  <2>2. CASE i > n /\ i - n \in 1..e /\ net'[i] = d[i - n]
    BY <1>1a, <2>2
  <2> QED
    BY <1>3, <2>1, <2>2
<1>7. SearchInAnswer'
  <2> SUFFICES ASSUME task.status = "SYNCING_UIDS"
               PROVE  /\ \A k \in LinesOf(net', "SEARCH") : SearchBefore(k)'
                      /\ InAnswer("SEARCH")' => SearchBefore(Len(net) + 1)'
    BY DEF SearchInAnswer
  <2>1. /\ \A k \in LinesOf(net, "SEARCH") : SearchBefore(k)
        /\ InAnswer("SEARCH") => SearchBefore(n + 1)
    BY <1>1a DEF Pending, SearchInAnswer
  <2>2. ASSUME NEW k \in LinesOf(net', "SEARCH") PROVE SearchBefore(k)'
    <3>1. k \in 1..Len(net') /\ net'[k].t = "OK" /\ net'[k].cmd = "SEARCH"
      BY DEF LinesOf
    <3>2. k \in 1..n /\ net'[k] = net[k]
      BY <1>1a, <1>3, <3>1
    <3>3. k \in LinesOf(net, "SEARCH")
      BY <1>1a, <3>1, <3>2 DEF LinesOf
    <3>4. PICK i \in 1..n : i < k /\ net[i].t = "SEARCH"
      BY <1>1a, <2>1, <3>3 DEF SearchBefore
    <3> QED
      BY <1>2, <3>4 DEF SearchBefore
  <2>3. ASSUME InAnswer("SEARCH")' PROVE SearchBefore(Len(net) + 1)'
    <3>1. CASE InAnswer("SEARCH")
      <4>1. PICK i \in 1..n : net[i].t = "SEARCH"
        BY <1>1a, <2>1, <3>1 DEF SearchBefore
      <4>2. i \in 1..Len(net') /\ net'[i].t = "SEARCH" /\ i < Len(net') + 1
        BY <1>1, <1>2, <4>1
      <4> QED
        BY <4>2 DEF SearchBefore
    <3>2. ASSUME NEW k \in 1..e, d[k].t = "SEARCH" PROVE SearchBefore(Len(net) + 1)'
      <4>1. n + k \in 1..Len(net') /\ ~(n + k <= n) /\ (n + k) - n = k /\ n + k < Len(net') + 1
        BY <1>1
      <4>2. net'[n + k] = d[k]
        BY <1>1, <4>1
      <4> QED
        BY <3>2, <4>1, <4>2 DEF SearchBefore
    <3> QED
      BY <1>1a, <2>3, <3>1, <3>2
  <2> QED
    BY <2>2, <2>3
<1> QED
  BY <1>4, <1>5, <1>6, <1>7 DEF Pending, Counted

\* A sequence of one element.
LEMMA OneElement ==
    ASSUME NEW S, NEW a \in S
    PROVE  <<a>> \in Seq(S) /\ Len(<<a>>) = 1 /\ <<a>>[1] = a
OBVIOUS

\* A change of the mailbox is announced or not.
LEMMA ChangeIs ==
    ASSUME Plain, TypeOK, TypeOK', ServerChange \/ Recreate
    PROVE  /\ UNCHANGED <<cmds, answered, up, task, mb, selects>>
           /\ \E d \in Seq(Response) : /\ net' = net \o d
                                      /\ \A k \in 1..Len(d) : Announcement(d[k])
<1>1. /\ UNCHANGED <<cmds, answered, up, task, mb, selects>> /\ net \in Seq(Response)
      /\ \/ net' = net
         \/ \E r \in Response : Announcement(r) /\ net' = Append(net, r)
  <2>1. /\ UNCHANGED <<cmds, answered, up, task, mb, selects>> /\ net \in Seq(Response)
        /\ net' \in Seq(Response)
    BY DEF ServerChange, Arrive, ServerExpunge, ServerFlag, Recreate, TypeOK
  <2>2. \/ net' = net
        \/ \E r : Announcement(r) /\ net' = Append(net, r)
    <3>1. ASSUME NEW r, Announcement(r), Announce(r) PROVE <2>2
      BY <3>1 DEF Announce
    <3>2. CASE Recreate
      BY <3>2 DEF Recreate
    <3>3. CASE Arrive
      <4>1. PICK r : r = Exists(Len(srv.msgs) + 1)
        OBVIOUS
      <4>2. Announcement(r)
        BY <4>1 DEF Exists, Announcement
      <4> QED
        BY <3>1, <3>3, <4>1, <4>2 DEF Arrive
    <3>4. ASSUME NEW i \in 1..Len(srv.msgs), ServerExpunge(i) PROVE <2>2
      <4>1. PICK r : r = [t |-> "EXPUNGE", n |-> i]
        OBVIOUS
      <4>2. Announcement(r)
        BY <4>1 DEF Announcement
      <4>3. Announce(r)
        BY <3>4, <4>1, ExtensionsAssumption DEF ServerExpunge, Plain
      <4> QED
        BY <3>1, <4>2, <4>3
    <3>5. ASSUME NEW i \in 1..Len(srv.msgs), ServerFlag(i) PROVE <2>2
      <4>1. PICK r : r = [t |-> "FETCH", n |-> i, uid |-> 0, fl |-> srv.hms + 1, mod |-> 0]
        OBVIOUS
      <4>2. Announcement(r)
        BY <4>1 DEF Announcement
      <4>3. Announce(r)
        BY <3>5, <4>1, ExtensionsAssumption DEF ServerFlag, Plain
      <4> QED
        BY <3>1, <4>2, <4>3
    <3> QED
      BY <3>2, <3>3, <3>4, <3>5 DEF ServerChange
  <2>3. ASSUME NEW r, net' = Append(net, r) PROVE r \in Response
    <3>1. net' # <<>> /\ Len(net') \in Nat /\ Len(net') >= 1 /\ net'[Len(net')] = r
      BY <2>1, <2>3
    <3> QED
      BY <2>1, <3>1, ElementOfSeq
  <2> QED
    BY <2>1, <2>2, <2>3
<1>2. CASE net' = net
  <2>1. PICK d \in Seq(Response) : d = <<>>
    BY EmptySeq
  <2>2. net \o <<>> = net
    BY <1>1, ConcatEmptySeq
  <2>3. net' = net \o d /\ Len(d) = 0
    BY <1>2, <2>1, <2>2
  <2>4. \A k \in 1..Len(d) : Announcement(d[k])
    BY <2>3
  <2> QED
    BY <1>1, <2>3, <2>4
<1>3. ASSUME NEW r \in Response, Announcement(r), net' = Append(net, r)
      PROVE  \E d \in Seq(Response) : /\ net' = net \o d
                                     /\ \A k \in 1..Len(d) : Announcement(d[k])
  <2>1. /\ <<r>> \in Seq(Response) /\ Len(<<r>>) = 1 /\ <<r>>[1] = r
        /\ Append(net, r) = net \o <<r>>
    BY <1>1, <1>3, OneElement, AppendIsConcat
  <2>2. PICK d \in Seq(Response) : d = <<r>>
    BY <2>1
  <2>3. net' = net \o d /\ Len(d) = 1 /\ d[1] = r
    BY <1>3, <2>1, <2>2
  <2>4. \A k \in 1..Len(d) : Announcement(d[k])
    BY <1>3, <2>3
  <2> QED
    BY <2>3, <2>4
<1> QED
  BY <1>1, <1>2, <1>3

LEMMA ChangePending ==
    ASSUME Plain, TypeOK, TypeOK', Pending, ServerChange \/ Recreate
    PROVE  Pending'
<1>1. UNCHANGED <<cmds, answered, up, task, selects>>
  BY ChangeIs
<1>2. /\ InAnswer("ARRIVALS") => InAnswer("ARRIVALS")'
      /\ InAnswer("SEARCH")' => InAnswer("SEARCH")
  BY <1>1 DEF InAnswer
<1>3. PICK d \in Seq(Response) : net' = net \o d /\ \A k \in 1..Len(d) : Announcement(d[k])
  BY ChangeIs
<1>4. \A k \in 1..Len(d) : /\ d[k].t \notin {"OK", "NO"}
                           /\ d[k].t = "FETCH" /\ d[k].uid # 0 => InAnswer("ARRIVALS")'
  BY <1>3 DEF Announcement
<1> QED
  BY <1>1, <1>2, <1>3, <1>4, DataPending

\* FETCH responses for the messages in order, with their UIDs or without.
Fetched(order, d) ==
    /\ Len(d) = Len(order)
    /\ \A k \in 1..Len(d) : /\ d[k].t = "FETCH" /\ d[k].n = order[k]
                            /\ order[k] \in 1..Len(srv.msgs)
                            /\ d[k].fl = srv.flag[srv.msgs[order[k]]]
WithUids(order, d) == \A k \in 1..Len(d) : d[k].uid = srv.msgs[order[k]]
WithoutUids(d) == \A k \in 1..Len(d) : d[k].uid = 0

LEMMA FetchesAre ==
    ASSUME TypeOK, NEW order \in Seq(1..Len(srv.msgs)), NEW withUid \in BOOLEAN,
           NEW d, d = Fetches(order, withUid, FALSE)
    PROVE  /\ Fetched(order, d)
           /\ withUid => WithUids(order, d)
           /\ ~withUid => WithoutUids(d)
<1>1. Len(order) \in Nat /\ \A k \in 1..Len(order) : order[k] \in 1..Len(srv.msgs)
  BY ElementOfSeq, LenProperties
<1> DEFINE S == {Fetch(order[i], srv.msgs[order[i]], withUid, FALSE) : i \in 1..Len(order)}
<1>2. d \in [1..Len(order) -> S]
  BY DEF Fetches
<1>3. \A k \in 1..Len(order) : d[k] = Fetch(order[k], srv.msgs[order[k]], withUid, FALSE)
  BY DEF Fetches
<1> HIDE DEF S
<1>4. Len(d) = Len(order)
  BY <1>1, <1>2, FiniteFunctionIsSeq
<1>5. ASSUME NEW k \in 1..Len(d)
      PROVE  /\ d[k].t = "FETCH" /\ d[k].n = order[k] /\ order[k] \in 1..Len(srv.msgs)
             /\ withUid => d[k].uid = srv.msgs[order[k]]
             /\ ~withUid => d[k].uid = 0
             /\ d[k].fl = srv.flag[srv.msgs[order[k]]]
  <2>1. d[k] = Fetch(order[k], srv.msgs[order[k]], withUid, FALSE)
    BY <1>3, <1>4
  <2>2. order[k] \in 1..Len(srv.msgs)
    BY <1>1, <1>4
  <2> DEFINE n == order[k]
             u == srv.msgs[n]
             r == Fetch(n, u, withUid, FALSE)
  <2>3. r.t = "FETCH" /\ r.n = n /\ r.fl = srv.flag[u]
    BY DEF Fetch
  <2>4. (withUid => r.uid = u) /\ (~withUid => r.uid = 0)
    BY DEF Fetch
  <2> QED
    BY <2>1, <2>2, <2>3, <2>4
<1> QED
  BY <1>4, <1>5 DEF Fetched, WithUids, WithoutUids

LEMMA FetchesWithout ==
    ASSUME TypeOK, NEW order \in Seq(1..Len(srv.msgs)), NEW d, d = Fetches(order, FALSE, FALSE)
    PROVE  Fetched(order, d) /\ WithoutUids(d)
<1>1. PICK withUid \in BOOLEAN : ~withUid /\ d = Fetches(order, withUid, FALSE)
  OBVIOUS
<1> QED
  BY <1>1, FetchesAre

LEMMA FetchesWith ==
    ASSUME TypeOK, NEW order \in Seq(1..Len(srv.msgs)), NEW d, d = Fetches(order, TRUE, FALSE)
    PROVE  Fetched(order, d) /\ WithUids(order, d)
<1>1. PICK withUid \in BOOLEAN : withUid /\ d = Fetches(order, withUid, FALSE)
  OBVIOUS
<1> QED
  BY <1>1, FetchesAre

\* The answer d to the command c tells of the messages in order.
Answer(c, order, d) ==
    /\ order \in Orders(Wanted(c))
    /\ c.t = "SELECT" => Len(d) = 2 /\ d[1].t = "EXISTS" /\ d[2].t = "CODES"
    /\ c.t = "SEARCH" => Len(d) = 1 /\ d[1].t = "SEARCH"
    /\ c.t = "FLAGS" => Fetched(order, d) /\ WithoutUids(d)
    /\ c.t = "ARRIVALS" => Fetched(order, d) /\ WithUids(order, d)

\* Each kind of command is answered like that.
LEMMA AnswerIs ==
    ASSUME Plain, TypeOK, NEW hs, FollowsServer(hs), SendData
    PROVE  \E d \in Seq(Response), order \in Seq(1..Len(srv.msgs)) :
              net' = net \o d /\ Answer(Head(cmds), order, d)
<1> DEFINE c == Head(cmds)
<1>0. ~Condstore /\ ~Qresync
  BY ExtensionsAssumption DEF Plain
<1>1. cmds # <<>>
  BY DEF SendData
<1>2. PICK order \in Orders(Wanted(c)) : net' = net \o Data(c, order)
  BY DEF SendData
<1>3. c \in Commands /\ c = cmds[1] /\ 1 \in 1..Len(cmds)
  BY <1>1, TailElements, ElementOfSeq DEF TypeOK
<1>4. order \in Seq(1..Len(srv.msgs))
  <2>1. Wanted(c) \in SUBSET (1..Len(srv.msgs))
    BY WantedType
  <2>2. Len(srv.msgs) \in Nat
    BY ServerFields
  <2>3. order \in Seq(Wanted(c))
    BY <2>1, <2>2, OrdersType
  <2> QED
    BY <2>1, <2>3, SeqMonotonic
<1>5. PICK d : d = Data(c, order)
  OBVIOUS
<1>6. d \in Seq(Response)
  BY <1>3, <1>4, <1>5, DataType
<1>7. c.t \in {"SELECT", "FLAGS"} => c.arg = 0
  BY <1>3 DEF FollowsServer, Stream, ArgsPlain
<1> HIDE DEF c
<1>8. ASSUME c.t = "SELECT" PROVE Len(d) = 2 /\ d[1].t = "EXISTS" /\ d[2].t = "CODES"
  <2> DEFINE e == Exists(Len(srv.msgs))
             o == [t |-> "CODES", uidNext |-> srv.next, uidVal |-> srv.val, modSeq |-> 0]
  <2>1. ~Resync(c)
    BY <1>7, <1>8 DEF Resync
  <2>2. d = <<e, o>> \o <<>>
    BY <1>0, <1>5, <1>8, <2>1 DEF Data, SelectData
  <2>3. e.t = "EXISTS" /\ o.t = "CODES"
    BY DEF Exists
  <2>4. e \in {e, o} /\ o \in {e, o}
    OBVIOUS
  <2> HIDE DEF e, o
  <2>5. d = <<e, o>>
    BY <2>2, <2>4
  <2> QED
    BY <2>3, <2>5
<1>9. ASSUME c.t = "SEARCH" PROVE Len(d) = 1 /\ d[1].t = "SEARCH"
  <2> DEFINE uids == [k \in 1..Len(order) |-> srv.msgs[order[k]]]
             r == [t |-> "SEARCH", uids |-> uids]
  <2>1. d = <<r>>
    BY <1>5, <1>9 DEF Data
  <2> HIDE DEF uids
  <2>2. r.t = "SEARCH"
    OBVIOUS
  <2> HIDE DEF r
  <2> QED
    BY <2>1, <2>2
<1>10. ASSUME c.t = "FLAGS" PROVE Fetched(order, d) /\ WithoutUids(d)
  <2>1. (c.arg > 0) = FALSE /\ Qresync = FALSE
    BY <1>0, <1>7, <1>10, ExtensionsAssumption
  <2>2. Data(c, order) = Fetches(order, Qresync, c.arg > 0)
    BY <1>10 DEF Data
  <2>3. Data(c, order) = Fetches(order, FALSE, FALSE)
    BY <2>1, <2>2
  <2> QED
    BY <1>4, <1>5, <2>3, FetchesWithout
<1>11. ASSUME c.t = "ARRIVALS" PROVE Fetched(order, d) /\ WithUids(order, d)
  <2>1. Data(c, order) = Fetches(order, TRUE, FALSE)
    BY <1>11 DEF Data
  <2> QED
    BY <1>4, <1>5, <2>1, FetchesWith
<1>12. Head(cmds) = c /\ net' = net \o d /\ order \in Orders(Wanted(c))
  BY <1>2, <1>5 DEF c
<1>13. Answer(Head(cmds), order, d)
  BY <1>8, <1>9, <1>10, <1>11, <1>12 DEF Answer
<1> QED
  BY <1>4, <1>6, <1>12, <1>13

\* The data of the first command.
LEMMA SendDataPending ==
    ASSUME Plain, TypeOK, NEW hs, FollowsServer(hs), Pending, SendData
    PROVE  Pending'
<1>1. /\ cmds # <<>> /\ ~answered /\ answered' = TRUE
      /\ UNCHANGED <<srv, cmds, up, task, mb, threw, selects>>
  BY DEF SendData
<1>2. PICK d \in Seq(Response), order \in Seq(1..Len(srv.msgs)) :
              net' = net \o d /\ Answer(Head(cmds), order, d)
  BY AnswerIs
<1>3. Head(cmds).t \in CommandKind
  <2>1. Head(cmds) \in Commands
    BY <1>1, TailElements, ElementOfSeq DEF TypeOK
  <2> QED
    BY <2>1 DEF Commands
<1>4. InAnswer("ARRIVALS") => InAnswer("ARRIVALS")'
  BY <1>1 DEF InAnswer
<1>5. InAnswer("SEARCH")' => InAnswer("SEARCH") \/ \E k \in 1..Len(d) : d[k].t = "SEARCH"
  <2> HAVE InAnswer("SEARCH")'
  <2>1. Head(cmds).t = "SEARCH"
    BY <1>1 DEF InAnswer
  <2>2. Len(d) = 1 /\ d[1].t = "SEARCH"
    BY <1>2, <2>1 DEF Answer
  <2>3. 1 \in 1..Len(d)
    BY <2>2
  <2> QED
    BY <2>2, <2>3
<1>6. ASSUME NEW k \in 1..Len(d)
      PROVE  /\ d[k].t \notin {"OK", "NO"}
             /\ d[k].t = "FETCH" /\ d[k].uid # 0 => InAnswer("ARRIVALS")'
  <2>1. CASE Head(cmds).t = "SELECT"
    <3>1. Len(d) = 2 /\ d[1].t = "EXISTS" /\ d[2].t = "CODES"
      BY <1>2, <2>1 DEF Answer
    <3>2. k = 1 \/ k = 2
      BY <3>1
    <3> QED
      BY <3>1, <3>2
  <2>2. CASE Head(cmds).t = "SEARCH"
    <3>1. Len(d) = 1 /\ d[1].t = "SEARCH"
      BY <1>2, <2>2 DEF Answer
    <3>2. k = 1
      BY <3>1
    <3> QED
      BY <3>1, <3>2
  <2>3. CASE Head(cmds).t = "FLAGS"
    <3>1. Fetched(order, d) /\ WithoutUids(d)
      BY <1>2, <2>3 DEF Answer
    <3>2. d[k].t = "FETCH" /\ d[k].uid = 0
      BY <3>1 DEF Fetched, WithoutUids
    <3> QED
      BY <3>2
  <2>4. CASE Head(cmds).t = "ARRIVALS"
    <3>1. Fetched(order, d)
      BY <1>2, <2>4 DEF Answer
    <3>1a. d[k].t = "FETCH"
      BY <3>1 DEF Fetched
    <3>2. InAnswer("ARRIVALS")'
      BY <1>1, <2>4 DEF InAnswer
    <3> QED
      BY <3>1a, <3>2
  <2> QED
    BY <1>3, <2>1, <2>2, <2>3, <2>4 DEF CommandKind
<1> QED
  BY <1>1, <1>2, <1>4, <1>5, <1>6, DataPending

\* A response more.
LEMMA LinesAppend ==
    ASSUME NEW q \in Seq(Response), NEW r \in Response, NEW c \in CommandKind
    PROVE  Cardinality(LinesOf(Append(q, r), c)) = Cardinality(LinesOf(q, c))
                                                   + (IF LineKind(r) = c THEN 1 ELSE 0)
<1>1. /\ Append(q, r) \in Seq(Response) /\ Len(Append(q, r)) = Len(q) + 1 /\ Len(q) \in Nat
      /\ \A i \in 1..Len(q) : Append(q, r)[i] = q[i]
      /\ Append(q, r)[Len(q) + 1] = r
  BY AppendElements
<1>2. LineKinds(q) \in Seq(Kinds) /\ Len(LineKinds(q)) = Len(q)
  BY LinesCounted
<1>3. LineKind(r) \in Kinds
  BY LineKindType
<1>3a. PICK a \in Seq(Kinds), k \in Kinds : a = LineKinds(q) /\ k = LineKind(r)
  BY <1>2, <1>3
<1>4. /\ Append(a, k) \in Seq(Kinds) /\ Len(Append(a, k)) = Len(q) + 1
      /\ \A i \in 1..Len(q) : Append(a, k)[i] = a[i]
      /\ Append(a, k)[Len(q) + 1] = k
  BY <1>2, <1>3a, AppendElements
<1>5. LineKinds(Append(q, r)) = Append(a, k)
  <2>1. LineKinds(Append(q, r)) \in Seq(Kinds) /\ Len(LineKinds(Append(q, r))) = Len(q) + 1
    BY <1>1, LinesCounted
  <2>2. ASSUME NEW i \in 1..(Len(q) + 1) PROVE LineKinds(Append(q, r))[i] = Append(a, k)[i]
    <3>1. LineKinds(Append(q, r))[i] = LineKind(Append(q, r)[i])
      BY <1>1 DEF LineKinds
    <3>2. i \in 1..Len(q) \/ i = Len(q) + 1
      BY <1>1
    <3> QED
      BY <1>1, <1>3a, <1>4, <3>1, <3>2 DEF LineKinds
  <2> QED
    BY <1>4, <2>1, <2>2, SameElements
<1> QED
  <2>1. Count(Append(a, k), c) = Count(a, c) + (IF k = c THEN 1 ELSE 0)
    BY <1>3a, CountAppend
  <2>2. /\ Cardinality(LinesOf(q, c)) = Count(LineKinds(q), c)
        /\ Cardinality(LinesOf(Append(q, r), c)) = Count(LineKinds(Append(q, r)), c)
    BY <1>1, LinesCounted
  <2> QED
    BY <1>3a, <1>5, <2>1, <2>2

\* The tagged line of the first command, whose data has been sent.
LEMMA SendTaggedPending ==
    ASSUME Reliable, TypeOK, TypeOK', Pending, SendTagged
    PROVE  Pending'
<1> DEFINE n == Len(net)
           r == Tagged("OK")
           c == Head(cmds)
<1>1. /\ cmds # <<>> /\ answered /\ net' = Append(net, r)
      /\ cmds' = Tail(cmds) /\ answered' = FALSE /\ UNCHANGED <<up, task, selects>>
  BY DEF SendTagged, Reliable
<1>2. /\ cmds \in Seq(Commands) /\ Len(cmds) \in Nat /\ Len(cmds) >= 1 /\ c = cmds[1]
      /\ Tail(cmds) \in Seq(Commands) /\ Len(Tail(cmds)) = Len(cmds) - 1
      /\ \A i \in 1..(Len(cmds) - 1) : Tail(cmds)[i] = cmds[i + 1]
  BY <1>1, TailElements DEF TypeOK
<1>2a. 1 \in 1..Len(cmds)
  BY <1>2
<1>3. c \in Commands
  BY <1>2, <1>2a, ElementOfSeq
<1>4. c.t \in CommandKind /\ c.tag \in Nat /\ c.tag = selects
  <2>1. c.t \in CommandKind /\ c.tag \in Nat
    BY <1>3 DEF Commands
  <2>2. cmds[1].tag = selects
    BY <1>2a DEF Pending, OneTask
  <2> QED
    BY <1>2, <2>1, <2>2
<1>5. r.t = "OK" /\ r.cmd = c.t /\ r.tag = c.tag
  BY DEF Tagged
<1>6. r \in Response
  <2>1. r \in [t: {"OK", "NO"}, cmd: CommandKind, tag: Nat]
    BY <1>4 DEF Tagged
  <2> QED
    BY <2>1 DEF Response
<1> HIDE DEF r, c
<1>7. /\ net \in Seq(Response) /\ n \in Nat /\ Len(net') = n + 1
      /\ \A i \in 1..n : net'[i] = net[i]
      /\ net'[n + 1] = r
  BY <1>1, <1>6, AppendElements DEF TypeOK
<1>7a. Len(net) = n
  OBVIOUS
<1> HIDE DEF n
<1>8. \A i \in 1..Len(net') : (i \in 1..n /\ net'[i] = net[i]) \/ (i = n + 1 /\ net'[i] = r)
  BY <1>7
<1>8a. n + 1 \in 1..Len(net') /\ \A i \in 1..n : i \in 1..Len(net') /\ i < n + 1
  BY <1>7
<1>9. LineKind(r) = c.t
  BY <1>5 DEF LineKind
<1>10. ASSUME NEW k \in CommandKind PROVE Waiting(k)' = Awaited(k)'
  <2>1. Cardinality(LinesOf(Append(net, r), k)) = Cardinality(LinesOf(net, k))
                                                  + (IF LineKind(r) = k THEN 1 ELSE 0)
    BY <1>6, <1>7, LinesAppend
  <2>2. Cardinality(OpenOf(cmds, k)) = Cardinality(OpenOf(Tail(cmds), k))
                                       + (IF Head(cmds).t = k THEN 1 ELSE 0)
    BY <1>1, <1>2, OpenTail
  <2>3. /\ Cardinality(OpenOf(Tail(cmds), k)) \in Nat /\ Cardinality(OpenOf(cmds, k)) \in Nat
        /\ Cardinality(LinesOf(net, k)) \in Nat
    BY <1>2, OpenCounted, WaitingType
  <2>4. Cardinality(LinesOf(net', k)) = Cardinality(LinesOf(net, k)) + (IF c.t = k THEN 1 ELSE 0)
    BY <1>1, <1>9, <2>1
  <2>5. Cardinality(OpenOf(cmds, k)) = Cardinality(OpenOf(cmds', k)) + (IF c.t = k THEN 1 ELSE 0)
    BY <1>1, <2>2 DEF c
  <2>6. Cardinality(OpenOf(cmds', k)) \in Nat
    BY <1>1, <2>3
  <2>7. Waiting(k)' = Waiting(k)
    BY <2>3, <2>4, <2>5, <2>6 DEF Waiting
  <2>8. Awaited(k)' = Awaited(k)
    BY <1>1 DEF Awaited, AwaitsSearch
  <2> QED
    BY <2>7, <2>8 DEF Pending, Counted
<1>11. OneTask'
  <2>1. OneTask
    BY DEF Pending
  <2>2. \A i \in 1..Len(net') : net'[i].t # "NO" /\ (net'[i].t = "OK" => net'[i].tag = selects)
    BY <1>4, <1>5, <1>7a, <1>8, <2>1 DEF OneTask
  <2>3. \A i \in 1..Len(cmds') : cmds'[i].tag = selects
    <3>1. \A i \in 1..(Len(cmds) - 1) : i + 1 \in 1..Len(cmds)
      BY <1>2
    <3> QED
      BY <1>1, <1>2, <2>1, <3>1 DEF OneTask
  <2> QED
    BY <1>1, <2>1, <2>2, <2>3 DEF OneTask, UidsAreKnown
<1>12. \A k \in CommandKind : \A i \in LinesOf(net, k) : i \in LinesOf(net', k)
  BY <1>7, <1>7a, <1>8a DEF LinesOf
<1>13. n + 1 \in LinesOf(net', c.t)
  BY <1>5, <1>7, <1>8a DEF LinesOf
<1>14. UidsInAnswer'
  <2> SUFFICES ASSUME NEW i \in 1..Len(net'), net'[i].t = "FETCH", net'[i].uid # 0
               PROVE  \E k \in LinesOf(net', "ARRIVALS") : k > i
    BY DEF UidsInAnswer, LineAfter
  <2>1. i \in 1..n /\ net'[i] = net[i]
    BY <1>5, <1>8
  <2>2. InAnswer("ARRIVALS") \/ \E k \in LinesOf(net, "ARRIVALS") : k > i
    BY <1>7a, <2>1 DEF Pending, UidsInAnswer, LineAfter
  <2>3. CASE InAnswer("ARRIVALS")
    <3>1. c.t = "ARRIVALS"
      BY <2>3 DEF InAnswer, c
    <3>2. n + 1 > i
      BY <1>7, <2>1
    <3> QED
      BY <1>13, <3>1, <3>2
  <2>4. CASE \E k \in LinesOf(net, "ARRIVALS") : k > i
    BY <1>12, <2>4 DEF CommandKind
  <2> QED
    BY <2>2, <2>3, <2>4
<1>15. SearchInAnswer'
  <2> SUFFICES ASSUME task.status = "SYNCING_UIDS", NEW k \in LinesOf(net', "SEARCH")
               PROVE  SearchBefore(k)'
    BY <1>1 DEF SearchInAnswer, InAnswer
  <2>1. /\ \A j \in LinesOf(net, "SEARCH") : SearchBefore(j)
        /\ InAnswer("SEARCH") => SearchBefore(n + 1)
    BY <1>7a DEF Pending, SearchInAnswer
  <2>2. k \in 1..Len(net') /\ net'[k].t = "OK" /\ net'[k].cmd = "SEARCH"
    BY DEF LinesOf
  <2>3. SearchBefore(k)
    <3>1. CASE k \in 1..n /\ net'[k] = net[k]
      <4>1. k \in LinesOf(net, "SEARCH")
        BY <1>7a, <2>2, <3>1 DEF LinesOf
      <4> QED
        BY <2>1, <4>1
    <3>2. CASE k = n + 1 /\ net'[k] = r
      <4>1. c.t = "SEARCH"
        BY <1>5, <2>2, <3>2
      <4>2. InAnswer("SEARCH")
        BY <1>1, <4>1 DEF InAnswer, c
      <4> QED
        BY <2>1, <3>2, <4>2
    <3> QED
      BY <1>8, <2>2, <3>1, <3>2
  <2>4. PICK i \in 1..n : i < k /\ net[i].t = "SEARCH"
    BY <1>7a, <2>3 DEF SearchBefore
  <2> QED
    BY <1>7, <1>8a, <2>4 DEF SearchBefore
<1> QED
  BY <1>10, <1>11, <1>14, <1>15 DEF Pending, Counted

----------------------------------------------------------------------------
(* What is handled. *)

\* A command of kind x is issued, none if x is "NONE".
Issues(x) == \/ x = "NONE" /\ cmds' = cmds
             \/ \E c \in Commands : c.t = x /\ c.tag = selects /\ cmds' = Append(cmds, c)
\* The task waits for it, and no longer for the line that it handles.
Balanced(x) ==
    \A k \in CommandKind : Awaited(k)' + (IF LineKind(Head(net)) = k THEN 1 ELSE 0)
                           = Awaited(k) + (IF x = k THEN 1 ELSE 0)
\* The task may wait for what it waits for.
Waits == /\ task'.status # "OFF"
         /\ task'.flagsCmd => task'.status = "SYNCING_FLAGS"
         /\ task'.arrivals > 0 => task'.status \in UidsAreKnown

\* A command more to wait for.
LEMMA OpenIssued ==
    ASSUME TypeOK, OneTask, NEW x, Issues(x)
    PROVE  /\ \A k \in CommandKind : Cardinality(OpenOf(cmds', k)) = Cardinality(OpenOf(cmds, k))
                                                                  + (IF x = k THEN 1 ELSE 0)
           /\ \A i \in 1..Len(cmds') : cmds'[i].tag = selects
           /\ cmds # <<>> => cmds' # <<>> /\ Head(cmds') = Head(cmds)
<1>1. cmds \in Seq(Commands) /\ Len(cmds) \in Nat
  BY DEF TypeOK
<1>2. \A k \in CommandKind : Cardinality(OpenOf(cmds, k)) \in Nat
  BY <1>1, OpenCounted
<1>3. CASE x = "NONE" /\ cmds' = cmds
  <2>1. \A k \in CommandKind : k # "NONE"
    BY DEF CommandKind
  <2>2. \A k \in CommandKind : Cardinality(OpenOf(cmds', k)) = Cardinality(OpenOf(cmds, k))
                                                               + (IF x = k THEN 1 ELSE 0)
    BY <1>2, <1>3, <2>1
  <2> QED
    BY <1>3, <2>2 DEF OneTask
<1>4. ASSUME NEW c \in Commands, c.t = x, c.tag = selects, cmds' = Append(cmds, c)
      PROVE  /\ \A k \in CommandKind : Cardinality(OpenOf(cmds', k))
                                       = Cardinality(OpenOf(cmds, k)) + (IF x = k THEN 1 ELSE 0)
             /\ \A i \in 1..Len(cmds') : cmds'[i].tag = selects
             /\ cmds # <<>> => cmds' # <<>> /\ Head(cmds') = Head(cmds)
  <2>1. ASSUME NEW k \in CommandKind
        PROVE  Cardinality(OpenOf(cmds', k)) = Cardinality(OpenOf(cmds, k))
                                               + (IF x = k THEN 1 ELSE 0)
    <3>1. Cardinality(OpenOf(Append(cmds, c), k)) = Cardinality(OpenOf(cmds, k))
                                                    + (IF c.t = k THEN 1 ELSE 0)
      BY <1>1, OpenAppend
    <3> QED
      BY <1>4, <3>1
  <2>2. /\ Len(cmds') = Len(cmds) + 1 /\ \A i \in 1..Len(cmds) : cmds'[i] = cmds[i]
        /\ cmds'[Len(cmds) + 1] = c /\ cmds' \in Seq(Commands)
    BY <1>1, <1>4, AppendElements
  <2>3. \A i \in 1..Len(cmds') : i \in 1..Len(cmds) \/ i = Len(cmds) + 1
    BY <1>1, <2>2
  <2>4. \A i \in 1..Len(cmds') : cmds'[i].tag = selects
    BY <1>4, <2>2, <2>3 DEF OneTask
  <2>5. ASSUME cmds # <<>> PROVE cmds' # <<>> /\ Head(cmds') = Head(cmds)
    <3>1. Len(cmds) >= 1 /\ Head(cmds) = cmds[1]
      BY <1>1, <2>5, TailElements
    <3>2. cmds' # <<>>
      BY <1>1, <2>2
    <3>3. Head(cmds') = cmds'[1]
      BY <2>2, <3>2, TailElements
    <3>4. 1 \in 1..Len(cmds)
      BY <1>1, <3>1
    <3> QED
      BY <2>2, <3>1, <3>2, <3>3, <3>4
  <2> QED
    BY <2>1, <2>4, <2>5
<1> QED
  BY <1>3, <1>4 DEF Issues

LEMMA HandledPending ==
    ASSUME TypeOK, TypeOK', NEW hs, FollowsServer(hs), Pending, net # <<>>, Handled,
           NEW x, Issues(x), Balanced(x), Waits,
           task'.status = "SYNCING_UIDS" =>
              \/ task.status = "SYNCING_UIDS" /\ Head(net).t # "SEARCH"
              \/ task.status = "SELECTING" /\ cmds = <<>>
    PROVE  Pending'
<1> DEFINE n == Len(net)
<1>1. /\ net \in Seq(Response) /\ n \in Nat /\ n >= 1 /\ Head(net) = net[1]
      /\ Tail(net) \in Seq(Response) /\ Len(Tail(net)) = n - 1
      /\ \A i \in 1..(n - 1) : Tail(net)[i] = net[i + 1]
  BY TailElements DEF TypeOK
<1>2. net' = Tail(net) /\ UNCHANGED <<srv, selected, answered, up, threw, selects>>
  BY DEF Handled
<1>3. Len(net) = n /\ Len(net') = n - 1
  BY <1>1, <1>2
<1> HIDE DEF n
<1>4. \A i \in 1..(n - 1) : net'[i] = net[i + 1]
  BY <1>1, <1>2
<1>4a. \A i \in 1..(n - 1) : i + 1 \in 1..n
  BY <1>1
<1>4b. \A j \in 1..n : j > 1 => j - 1 \in 1..(n - 1) /\ (j - 1) + 1 = j
  BY <1>1
<1>5. cmds = <<>> => ~answered
  BY DEF FollowsServer, Stream, Connected
<1>6. OneTask /\ Counted
  BY DEF Pending
<1>7. \A c : InAnswer(c)' <=> InAnswer(c)
  <2> SUFFICES ASSUME NEW c PROVE InAnswer(c)' <=> InAnswer(c)
    OBVIOUS
  <2>1. CASE cmds = <<>>
    BY <1>2, <1>5, <2>1 DEF InAnswer
  <2>2. CASE cmds # <<>>
    BY <1>2, <1>6, <2>2, OpenIssued DEF InAnswer
  <2> QED
    BY <2>1, <2>2
<1>8. ASSUME NEW k \in CommandKind PROVE Waiting(k)' = Awaited(k)'
  <2>1. Cardinality(LinesOf(net, k)) = Cardinality(LinesOf(Tail(net), k))
                                       + (IF LineKind(Head(net)) = k THEN 1 ELSE 0)
    BY <1>1, LinesTail
  <2>2. Cardinality(LinesOf(net, k)) = Cardinality(LinesOf(net', k))
                                       + (IF LineKind(Head(net)) = k THEN 1 ELSE 0)
    BY <1>2, <2>1
  <2>3. Cardinality(OpenOf(cmds', k)) = Cardinality(OpenOf(cmds, k)) + (IF x = k THEN 1 ELSE 0)
    BY <1>6, OpenIssued
  <2>4. Awaited(k)' + (IF LineKind(Head(net)) = k THEN 1 ELSE 0)
           = Awaited(k) + (IF x = k THEN 1 ELSE 0)
    BY DEF Balanced
  <2>5. Waiting(k) = Awaited(k)
    BY <1>6 DEF Counted
  <2>6. /\ Cardinality(LinesOf(net, k)) \in Nat /\ Cardinality(OpenOf(cmds, k)) \in Nat
        /\ Awaited(k) \in Nat
    BY WaitingType
  <2>7. /\ Cardinality(LinesOf(net', k)) \in Nat /\ Cardinality(OpenOf(cmds', k)) \in Nat
        /\ Awaited(k)' \in Nat
    <3>1. net' \in Seq(Response) /\ cmds' \in Seq(Commands) /\ task' \in Task
      BY DEF TypeOK
    <3>2. task'.arrivals \in Nat
      BY <3>1 DEF Task
    <3>3. Awaited(k)' \in Nat
      BY <3>2 DEF Awaited
    <3> QED
      BY <3>1, <3>3, LinesCounted, OpenCounted
  <2>8. PICK y \in Nat, z \in Nat : /\ y = (IF LineKind(Head(net)) = k THEN 1 ELSE 0)
                                    /\ z = (IF x = k THEN 1 ELSE 0)
    OBVIOUS
  <2>9. /\ Cardinality(LinesOf(net, k)) = Cardinality(LinesOf(net', k)) + y
        /\ Cardinality(OpenOf(cmds', k)) = Cardinality(OpenOf(cmds, k)) + z
        /\ Awaited(k)' + y = Awaited(k) + z
    BY <2>2, <2>3, <2>4, <2>8
  <2>10. Cardinality(LinesOf(net, k)) + Cardinality(OpenOf(cmds, k)) = Awaited(k)
    BY <2>5 DEF Waiting
  <2>11. Cardinality(LinesOf(net', k)) + Cardinality(OpenOf(cmds', k)) = Awaited(k)'
    <3>1. PICK l \in Nat, o \in Nat : /\ l = Cardinality(LinesOf(net', k))
                                      /\ o = Cardinality(OpenOf(cmds, k))
      BY <2>6, <2>7
    <3>2. PICK a \in Nat, b \in Nat : a = Awaited(k) /\ b = Awaited(k)'
      BY <2>6, <2>7
    <3>3. Cardinality(LinesOf(net, k)) = l + y /\ Cardinality(OpenOf(cmds', k)) = o + z
      BY <2>9, <3>1
    <3>4. b + y = a + z
      BY <2>9, <3>2
    <3>5. (l + y) + o = a
      BY <2>10, <3>1, <3>2, <3>3
    <3>6. l + (o + z) = b
      BY <3>4, <3>5
    <3> QED
      BY <3>1, <3>2, <3>3, <3>6
  <2> QED
    BY <2>11 DEF Waiting
<1>9. OneTask'
  <2>1. \A i \in 1..Len(net') : net'[i].t # "NO" /\ (net'[i].t = "OK" => net'[i].tag = selects)
    BY <1>3, <1>4, <1>4a, <1>6 DEF OneTask
  <2>2. \A i \in 1..Len(cmds') : cmds'[i].tag = selects
    BY <1>6, OpenIssued
  <2> QED
    BY <1>2, <2>1, <2>2 DEF OneTask, Waits, UidsAreKnown
<1>10. \A c \in CommandKind : \A j \in LinesOf(net, c) : j > 1 => j - 1 \in LinesOf(net', c)
  BY <1>3, <1>4, <1>4b DEF LinesOf
<1>11. UidsInAnswer'
  <2> SUFFICES ASSUME NEW i \in 1..Len(net'), net'[i].t = "FETCH", net'[i].uid # 0
               PROVE  InAnswer("ARRIVALS")' \/ \E k \in LinesOf(net', "ARRIVALS") : k > i
    BY DEF UidsInAnswer, LineAfter
  <2>1. i + 1 \in 1..n /\ net'[i] = net[i + 1]
    BY <1>3, <1>4, <1>4a
  <2>2. InAnswer("ARRIVALS") \/ \E k \in LinesOf(net, "ARRIVALS") : k > i + 1
    BY <1>3, <2>1 DEF Pending, UidsInAnswer, LineAfter
  <2>3. ASSUME NEW k \in LinesOf(net, "ARRIVALS"), k > i + 1
        PROVE  \E j \in LinesOf(net', "ARRIVALS") : j > i
    <3>1. k \in 1..n /\ i \in Nat
      BY <1>3 DEF LinesOf
    <3>2. k > 1 /\ k - 1 > i
      BY <1>1, <2>3, <3>1
    <3> QED
      BY <1>10, <3>2 DEF CommandKind
  <2> QED
    BY <1>7, <2>2, <2>3
<1>12. SearchInAnswer'
  <2> SUFFICES ASSUME task'.status = "SYNCING_UIDS"
               PROVE  /\ \A k \in LinesOf(net', "SEARCH") : SearchBefore(k)'
                      /\ InAnswer("SEARCH")' => SearchBefore(Len(net) + 1)'
    BY DEF SearchInAnswer
  <2>1. CASE task.status = "SYNCING_UIDS" /\ Head(net).t # "SEARCH"
    <3>1. /\ \A k \in LinesOf(net, "SEARCH") : SearchBefore(k)
          /\ InAnswer("SEARCH") => SearchBefore(n + 1)
      BY <1>3, <2>1 DEF Pending, SearchInAnswer
    <3>2. ASSUME NEW k \in Nat, SearchBefore(k + 1) PROVE SearchBefore(k)'
      <4>1. PICK i \in 1..n : i < k + 1 /\ net[i].t = "SEARCH"
        BY <1>3, <3>2 DEF SearchBefore
      <4>2. i > 1
        BY <1>1, <2>1, <4>1
      <4>3. i - 1 \in 1..(n - 1) /\ net'[i - 1] = net[i] /\ i - 1 < k
        BY <1>4, <1>4b, <4>1, <4>2
      <4>4. PICK j \in 1..(n - 1) : net'[j] = net[i] /\ j < k
        BY <4>3
      <4>5. net'[j].t = "SEARCH" /\ j \in 1..Len(net')
        BY <1>3, <4>1, <4>4
      <4>6. \E m \in 1..Len(net') : m < k /\ net'[m].t = "SEARCH"
        BY <4>4, <4>5
      <4> QED
        BY <4>6 DEF SearchBefore
    <3>3. ASSUME NEW k \in LinesOf(net', "SEARCH") PROVE SearchBefore(k)'
      <4>1. k \in 1..(n - 1) /\ net'[k].t = "OK" /\ net'[k].cmd = "SEARCH"
        BY <1>3 DEF LinesOf
      <4>2. k + 1 \in LinesOf(net, "SEARCH")
        BY <1>3, <1>4, <1>4a, <4>1 DEF LinesOf
      <4>3. k \in Nat
        BY <4>1
      <4> QED
        BY <3>1, <3>2, <4>2, <4>3
    <3>4. ASSUME InAnswer("SEARCH")' PROVE SearchBefore(Len(net) + 1)'
      <4>1. PICK p \in Nat : p = n
        BY <1>1
      <4>2. SearchBefore(n + 1)
        BY <1>7, <3>1, <3>4
      <4>3. SearchBefore(p + 1)
        BY <4>1, <4>2
      <4>4. SearchBefore(p)'
        BY <3>2, <4>3
      <4>5. Len(net') + 1 = p
        BY <1>1, <1>3, <4>1
      <4> QED
        BY <4>4, <4>5 DEF SearchBefore
    <3> QED
      BY <3>3, <3>4
  <2>2. CASE task.status = "SELECTING" /\ cmds = <<>>
    <3>1. Awaited("SEARCH") = 0 /\ "SEARCH" \in CommandKind
      BY <2>2 DEF Awaited, AwaitsSearch, CommandKind
    <3>2. LinesOf(net, "SEARCH") = {}
      BY <3>1, NothingAwaited
    <3>3. ASSUME NEW k \in LinesOf(net', "SEARCH") PROVE FALSE
      <4>1. k \in 1..(n - 1) /\ net'[k].t = "OK" /\ net'[k].cmd = "SEARCH"
        BY <1>3 DEF LinesOf
      <4>2. k + 1 \in LinesOf(net, "SEARCH")
        BY <1>3, <1>4, <1>4a, <4>1 DEF LinesOf
      <4> QED
        BY <3>2, <4>2
    <3>4. ~InAnswer("SEARCH")'
      BY <1>7, <2>2 DEF InAnswer
    <3> QED
      BY <3>3, <3>4
  <2> QED
    BY <2>1, <2>2
<1> QED
  BY <1>8, <1>9, <1>11, <1>12 DEF Pending, Counted

\* The task that handles a response.
LEMMA AtWork ==
    ASSUME TypeOK, NEW hs, FollowsServer(hs), Pending, net # <<>>
    PROVE  /\ up /\ task.status # "OFF" /\ task.status \in Syncing \cup {"KEEP"}
           /\ task.arrivals \in Nat /\ task.flagsCmd \in BOOLEAN /\ task.firstUnknown \in Nat
           /\ task.flagsCmd => task.status = "SYNCING_FLAGS"
           /\ task.arrivals > 0 => task.status \in UidsAreKnown
           /\ Head(net).t # "NO" /\ Head(net) \in Response
           /\ LineKind(Head(net)) \in Kinds
<1>1. up
  BY DEF FollowsServer, Stream, Connected
<1>2. OneTask
  BY DEF Pending
<1>3. task \in Task /\ net \in Seq(Response)
  BY DEF TypeOK
<1>4. /\ task.arrivals \in Nat /\ task.flagsCmd \in BOOLEAN /\ task.firstUnknown \in Nat
      /\ task.status \in Syncing \cup {"OFF", "KEEP"}
  BY <1>3 DEF Task
<1>5. Len(net) \in Nat /\ Len(net) >= 1 /\ Head(net) = net[1]
  BY <1>3, TailElements
<1>6. 1 \in 1..Len(net)
  BY <1>5
<1>7. Head(net) \in Response
  BY <1>3, <1>5, <1>6, ElementOfSeq
<1>8. Head(net).t # "NO"
  BY <1>2, <1>5, <1>6 DEF OneTask
<1>9. LineKind(Head(net)) \in Kinds
  BY <1>7, LineKindType
<1> QED
  BY <1>1, <1>2, <1>4, <1>7, <1>8, <1>9 DEF OneTask

\* An untagged response, after which the task waits for the same.
LEMMA UntaggedPending ==
    ASSUME TypeOK, TypeOK', NEW hs, FollowsServer(hs), Pending, net # <<>>, Handled,
           Head(net).t \notin {"OK", "SEARCH"}, cmds' = cmds,
           task'.status = task.status, task'.flagsCmd = task.flagsCmd,
           task'.arrivals = task.arrivals
    PROVE  Pending'
<1>1. /\ task.status # "OFF" /\ (task.flagsCmd => task.status = "SYNCING_FLAGS")
      /\ task.arrivals > 0 => task.status \in UidsAreKnown
  BY AtWork
<1>2. \A k \in CommandKind : LineKind(Head(net)) # k
  BY DEF LineKind, CommandKind
<1>3. PICK x : x = "NONE"
  OBVIOUS
<1>4. \A k \in CommandKind : x # k
  BY <1>3 DEF CommandKind
<1>5. Balanced(x)
  <2> SUFFICES ASSUME NEW k \in CommandKind PROVE Awaited(k)' = Awaited(k)
    BY <1>2, <1>4 DEF Balanced
  <2> QED
    BY DEF Awaited, AwaitsSearch
<1>6. Issues(x)
  BY <1>3 DEF Issues
<1>7. Waits
  BY <1>1 DEF Waits
<1> QED
  BY <1>5, <1>6, <1>7, HandledPending

\* An untagged response after which the UIDs of new messages are asked for.
LEMMA AskPending ==
    ASSUME TypeOK, TypeOK', NEW hs, FollowsServer(hs), Pending, net # <<>>, Handled,
           Head(net).t \notin {"OK", "SEARCH"}, task.status \in UidsAreKnown,
           NEW m, NEW from \in Nat, AskForArrivals(m, from)
    PROVE  Pending'
<1>1. /\ task.status # "OFF" /\ (task.flagsCmd => task.status = "SYNCING_FLAGS")
      /\ task.arrivals \in Nat
  BY AtWork
<1>2. /\ task'.status = task.status /\ task'.flagsCmd = task.flagsCmd
      /\ task'.arrivals = task.arrivals + 1
  BY TaskFields DEF AskForArrivals, Task, TypeOK
<1>3. PICK c : c = Command("ARRIVALS", IF from > 1 THEN from ELSE 1) /\ cmds' = Append(cmds, c)
  BY DEF AskForArrivals, Issue
<1>4. c \in Commands /\ c.t = "ARRIVALS" /\ c.tag = selects
  <2>1. selects \in Nat
    BY BoundsAssumption DEF TypeOK
  <2> QED
    BY <1>3, <2>1 DEF Command, Commands, CommandKind
<1>5. \A k \in CommandKind : LineKind(Head(net)) # k
  BY DEF LineKind, CommandKind
<1>6. PICK x : x = "ARRIVALS"
  OBVIOUS
<1>7. Balanced(x)
  <2> SUFFICES ASSUME NEW k \in CommandKind
               PROVE  Awaited(k)' = Awaited(k) + (IF x = k THEN 1 ELSE 0)
    BY <1>5, WaitingType DEF Balanced, Awaited, AwaitsSearch
  <2>1. CASE k = "ARRIVALS"
    BY <1>1, <1>2, <1>6, <2>1 DEF Awaited
  <2>2. CASE k # "ARRIVALS"
    <3>1. Awaited(k)' = Awaited(k)
      BY <1>2, <2>2 DEF Awaited, AwaitsSearch, CommandKind
    <3> QED
      BY <1>6, <2>2, <3>1, WaitingType
  <2> QED
    BY <2>1, <2>2
<1>8. Issues(x)
  BY <1>3, <1>4, <1>6 DEF Issues
<1>9. Waits /\ task'.status # "SYNCING_UIDS"
  BY <1>1, <1>2 DEF Waits, UidsAreKnown
<1> QED
  BY <1>7, <1>8, <1>9, HandledPending

\* Nothing is under way on no connection.
LEMMA LostPending ==
    ASSUME Disconnected, TypeOK'
    PROVE  Pending'
<1>1. /\ up' = FALSE /\ cmds' = <<>> /\ answered' = FALSE /\ net' = <<>> /\ task' = NoTask
      /\ net' \in Seq(Response) /\ cmds' \in Seq(Commands)
  BY DEF Disconnected, TypeOK
<1>2. Len(net') = 0 /\ Len(cmds') = 0
  BY <1>1
<1>3. task'.status = "OFF" /\ task'.flagsCmd = FALSE /\ task'.arrivals = 0
  BY <1>1 DEF NoTask
<1>4. ASSUME NEW k \in CommandKind PROVE Waiting(k)' = Awaited(k)'
  <2>1. LinesOf(net', k) = {} /\ OpenOf(cmds', k) = {}
    BY <1>2 DEF LinesOf, OpenOf
  <2>2. Cardinality(LinesOf(net', k)) = 0 /\ Cardinality(OpenOf(cmds', k)) = 0
    BY <1>1, <2>1, NoLines, NoneOpen
  <2>3. Awaited(k)' = 0
    BY <1>3 DEF Awaited, AwaitsSearch
  <2> QED
    BY <2>2, <2>3 DEF Waiting
<1>5. OneTask'
  BY <1>1, <1>2, <1>3 DEF OneTask
<1>6. UidsInAnswer' /\ SearchInAnswer'
  BY <1>2, <1>3 DEF UidsInAnswer, SearchInAnswer
<1> QED
  BY <1>4, <1>5, <1>6 DEF Pending, Counted

LEMMA HandleCodesPending ==
    ASSUME TypeOK, TypeOK', NEW hs, FollowsServer(hs), Pending, HandleCodes
    PROVE  Pending'
<1>1. net # <<>> /\ Handled /\ Head(net).t = "CODES" /\ UNCHANGED <<task, cmds>>
  BY DEF HandleCodes, Next1, Resp, Update
<1> QED
  BY <1>1, UntaggedPending

LEMMA ObtainExistsPending ==
    ASSUME TypeOK, TypeOK', NEW hs, FollowsServer(hs), Pending, ObtainExists
    PROVE  Pending'
<1>1. net # <<>> /\ Head(net).t = "EXISTS" /\ Head(net) \in Response
  BY AtWork DEF ObtainExists, Next1, Resp
<1>2. CASE Throw("ExistsDecreased")
  BY <1>2, LostPending DEF Throw
<1>3. ASSUME Handled, NEW m, Update(m) PROVE Pending'
  BY <1>1, <1>3, UntaggedPending DEF Update
<1>4. ASSUME Handled, task.status \in {"SYNCING_FLAGS", "DONE"}, NEW m, m \in Mailbox,
             AskForArrivals(m, m.sync.uidNext)
      PROVE  Pending'
  <2>1. PICK from \in Nat : from = m.sync.uidNext
    BY <1>4, MailboxFields
  <2> QED
    BY <1>1, <1>4, <2>1, AskPending DEF UidsAreKnown
<1>5. Head(net).n \in Nat /\ mb \in Mailbox
  BY <1>1 DEF Response, TypeOK
<1>6. CASE task.status = "SELECTING"
  BY <1>3, <1>6 DEF ObtainExists
<1>7. CASE task.status = "SYNCING_UIDS"
  BY <1>2, <1>3, <1>7 DEF ObtainExists
<1>8. CASE task.status \in {"SYNCING_FLAGS", "DONE"}
  <2>1. \/ (Handled /\ Update(mb)) \/ Throw("ExistsDecreased")
        \/ /\ ~ExistsThrows(mb, Head(net).n) /\ Handled
           /\ \E m : /\ m = UpdateHighestKnownUid(HandleExists(mb, Head(net).n))
                     /\ AskForArrivals(m, m.sync.uidNext)
    BY <1>8 DEF ObtainExists, Resp
  <2>2. ASSUME ~ExistsThrows(mb, Head(net).n), Handled, NEW m,
               m = UpdateHighestKnownUid(HandleExists(mb, Head(net).n)),
               AskForArrivals(m, m.sync.uidNext)
        PROVE  Pending'
    <3>1. HandleExists(mb, Head(net).n) \in Mailbox
      BY <1>5, <2>2, HandleExistsType
    <3>2. m \in Mailbox
      BY <2>2, <3>1, UpdateHighestKnownUidType
    <3> QED
      BY <1>4, <1>8, <2>2, <3>2
  <2> QED
    BY <1>2, <1>3, <2>1, <2>2
<1> QED
  BY <1>6, <1>7, <1>8 DEF ObtainExists

LEMMA KeepExistsPending ==
    ASSUME TypeOK, TypeOK', NEW hs, FollowsServer(hs), Pending, KeepExists
    PROVE  Pending'
<1>1. /\ net # <<>> /\ Head(net).t = "EXISTS" /\ Head(net) \in Response
      /\ task.status \in UidsAreKnown
  BY AtWork DEF KeepExists, Next1, Resp, UidsAreKnown
<1>2. Head(net).n \in Nat /\ mb \in Mailbox
  BY <1>1 DEF Response, TypeOK
<1>3. \/ (Handled /\ Update(mb)) \/ Throw("ExistsDecreased")
      \/ /\ ~ExistsThrows(mb, Head(net).n) /\ Handled
         /\ \E m : /\ m = HandleExists(mb, Head(net).n)
                   /\ AskForArrivals(m, UpdateHighestKnownUid(m).sync.uidNext)
  BY DEF KeepExists, Resp
<1>4. CASE Handled /\ Update(mb)
  BY <1>1, <1>4, UntaggedPending DEF Update
<1>5. CASE Throw("ExistsDecreased")
  BY <1>5, LostPending DEF Throw
<1>6. ASSUME ~ExistsThrows(mb, Head(net).n), Handled, NEW m, m = HandleExists(mb, Head(net).n),
             AskForArrivals(m, UpdateHighestKnownUid(m).sync.uidNext)
      PROVE  Pending'
  <2>1. m \in Mailbox
    BY <1>2, <1>6, HandleExistsType
  <2>2. UpdateHighestKnownUid(m) \in Mailbox
    BY <2>1, UpdateHighestKnownUidType
  <2>3. PICK from \in Nat : from = UpdateHighestKnownUid(m).sync.uidNext
    BY <2>2, MailboxFields
  <2> QED
    BY <1>1, <1>6, <2>3, AskPending
<1> QED
  BY <1>3, <1>4, <1>5, <1>6

LEMMA ObtainExpungePending ==
    ASSUME TypeOK, TypeOK', NEW hs, FollowsServer(hs), Pending, ObtainExpunge
    PROVE  Pending'
<1>1. net # <<>> /\ Head(net).t = "EXPUNGE" /\ task \in Task
  BY DEF ObtainExpunge, Next1, Resp, TypeOK
<1>2. CASE Throw("UnknownMessageIndex")
  BY <1>2, LostPending DEF Throw
<1>3. CASE ~Throw("UnknownMessageIndex")
  <2>1. /\ Handled /\ cmds' = cmds
        /\ (task' = task \/ task' = [task EXCEPT !.firstUnknown = @ - 1])
    BY <1>3 DEF ObtainExpunge
  <2>2. /\ task'.status = task.status /\ task'.flagsCmd = task.flagsCmd
        /\ task'.arrivals = task.arrivals
    BY <1>1, <2>1 DEF Task
  <2> QED
    BY <1>1, <2>1, <2>2, UntaggedPending
<1> QED
  BY <1>2, <1>3

LEMMA KeepExpungePending ==
    ASSUME TypeOK, TypeOK', NEW hs, FollowsServer(hs), Pending, KeepExpunge
    PROVE  Pending'
<1>1. net # <<>> /\ Head(net).t = "EXPUNGE"
  BY DEF KeepExpunge, Next1, Resp
<1>2. CASE Throw("UnknownMessageIndex")
  BY <1>2, LostPending DEF Throw
<1>3. CASE ~Throw("UnknownMessageIndex")
  BY <1>1, <1>3, UntaggedPending DEF KeepExpunge, Update
<1> QED
  BY <1>2, <1>3

LEMMA HandleFetchPending ==
    ASSUME TypeOK, TypeOK', NEW hs, FollowsServer(hs), Pending, HandleFetch
    PROVE  Pending'
<1>1. net # <<>> /\ Head(net).t = "FETCH"
  BY DEF HandleFetch, Next1, Resp
<1>2. Disconnected \/ (Handled /\ UNCHANGED <<task, cmds>>)
  BY DEF HandleFetch, Throw, Update
<1> QED
  BY <1>1, <1>2, LostPending, UntaggedPending

LEMMA HandleSearchPending ==
    ASSUME TypeOK, TypeOK', NEW hs, FollowsServer(hs), Pending, HandleSearch
    PROVE  Pending'
<1>1. net # <<>> /\ Head(net).t = "SEARCH" /\ task.status = "SYNCING_UIDS" /\ task \in Task
  BY DEF HandleSearch, Next1, Resp, TypeOK
<1>2. CASE Disconnected
  BY <1>2, LostPending
<1>3. CASE Handled /\ FinalizeSearch(Resp.uids)
  <2>1. task'.status = "SYNCING_FLAGS" /\ task'.flagsCmd = task.flagsCmd
        /\ task'.arrivals = task.arrivals /\ cmds' = cmds
    BY <1>1, <1>3 DEF FinalizeSearch, Task
  <2>2. ~task.flagsCmd
    BY <1>1, AtWork
  <2>3. \A k \in CommandKind : LineKind(Head(net)) # k
    BY <1>1 DEF LineKind, CommandKind
  <2>4. PICK x : x = "NONE"
    OBVIOUS
  <2>5. \A k \in CommandKind : x # k
    BY <2>4 DEF CommandKind
  <2>6. Balanced(x)
    <3> SUFFICES ASSUME NEW k \in CommandKind PROVE Awaited(k)' = Awaited(k)
      BY <2>3, <2>5 DEF Balanced
    <3> QED
      BY <1>1, <2>1, <2>2 DEF Awaited, AwaitsSearch
  <2>7. Issues(x) /\ Waits
    BY <2>1, <2>4 DEF Issues, Waits, UidsAreKnown
  <2> QED
    BY <1>1, <1>3, <2>1, <2>6, <2>7, HandledPending
<1> QED
  BY <1>2, <1>3 DEF HandleSearch, Throw, Abort, Stop
=============================================================================
