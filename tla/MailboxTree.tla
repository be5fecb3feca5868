---------------------------- MODULE MailboxTree ----------------------------
(***************************************************************************)
(* The message list of one mailbox and its persistent cache, and the       *)
(* handlers of Imap/Model/MailboxTree.cpp (TreeItemMailbox) that change    *)
(* them.  A mailbox is a record mb:                                        *)
(*   list  the TreeItemMessages in sequence-number order: uid (0: not yet  *)
(*         known) and fl, the flags.  A value of the flags is the number   *)
(*         of the change that set it, 0 for "no flags", so a stale value   *)
(*         is told from a fresh one;                                       *)
(*   st    the fetch status of the TreeItemMsgList;                        *)
(*   sync  the SyncState in memory;  0 stands for "never set";             *)
(*   disk  what AbstractCache keeps: sync state, UID map and flags by UID. *)
(* Every handler is a function from a mailbox to a mailbox; the exceptions *)
(* it may throw are predicates, evaluated before the handler is used.      *)
(***************************************************************************)
EXTENDS Integers, Sequences, FiniteSets, SequencesExt

CONSTANT MaxUid     \* bound: the highest UID the server ever assigns

ASSUME MaxUidAssumption == MaxUid \in Nat \ {0}

Uid == 1..MaxUid
Message == [uid: 0..MaxUid, fl: Nat]
SyncState == [exists: Nat, uidNext: Nat, uidVal: Nat, modSeq: Nat]
FetchStatus == {"NONE", "LOADING", "DONE"}
Disk == [sync: SyncState, uids: Seq(0..MaxUid), flags: [Uid -> Nat]]
Mailbox == [list: Seq(Message), st: FetchStatus, sync: SyncState, disk: Disk]

NoSync == [exists |-> 0, uidNext |-> 0, uidVal |-> 0, modSeq |-> 0]
EmptyDisk == [sync |-> NoSync, uids |-> <<>>, flags |-> [u \in Uid |-> 0]]

IsUsableForSyncing(s) == s.uidVal # 0
IsUsableForCondstore(s) == s.modSeq > 0 /\ IsUsableForSyncing(s)

Uids(list) == [i \in 1..Len(list) |-> list[i].uid]
Unknown(n) == [i \in 1..(IF n > 0 THEN n ELSE 0) |-> [uid |-> 0, fl |-> 0]]
FlagsOf(m, u) == IF u \in Uid THEN m.disk.flags[u] ELSE 0

\* The one function that lists the positions in S in ascending order.
Orders(S) == {order \in [1..Cardinality(S) -> S] :
                 \A i, j \in 1..Cardinality(S) : i < j => order[i] < order[j]}

----------------------------------------------------------------------------
(* The cache. *)

ClearMessages(m, us) ==
    [m EXCEPT !.disk.flags = [u \in Uid |-> IF u \in us THEN 0 ELSE m.disk.flags[u]]]

ClearAllMessages(m) ==
    [m EXCEPT !.disk.flags = [u \in Uid |-> 0], !.disk.uids = <<>>]

SaveSyncStateAndUids(m) ==
    [m EXCEPT !.disk.sync = m.sync, !.disk.uids = Uids(m.list), !.st = "DONE"]

SaveIfDone(m) == IF m.st = "DONE" THEN SaveSyncStateAndUids(m) ELSE m

\* Model::askForMessagesInMailbox: the list is pre-populated from the cache.
Populate(m) ==
    IF m.st = "NONE" /\ IsUsableForSyncing(m.disk.sync)
    THEN [m EXCEPT !.list = [i \in 1..Len(m.disk.uids) |->
                               [uid |-> m.disk.uids[i], fl |-> FlagsOf(m, m.disk.uids[i])]],
                   !.sync = m.disk.sync,
                   !.st = "DONE"]
    ELSE m

----------------------------------------------------------------------------
(* Untagged responses. *)

ExistsThrows(m, n) == n < Len(m.list)

HandleExists(m, n) ==
    [m EXCEPT !.list = @ \o Unknown(n - Len(m.list)),
              !.sync.exists = n,
              !.st = IF n = Len(m.list) THEN @ ELSE "LOADING"]

ExpungeThrows(m, n) == n \notin 1..Len(m.list)

HandleExpungeNext(m, n) ==    \* mutant
    LET at == IF n < Len(m.list) THEN n + 1 ELSE n
    IN SaveIfDone(ClearMessages([m EXCEPT !.list = RemoveAt(@, at)], {m.list[at].uid}))
HandleExpunge(m, n) ==
    SaveIfDone(ClearMessages([m EXCEPT !.list = RemoveAt(@, n)], {m.list[n].uid}))

\* Common::lowerBoundWithUnknownElements: where uid is or belongs, the
\* messages with no UID skipped (Len + 1: past the end).
MessageOrNextOne(list, u) ==
    CHOOSE i \in 1..(Len(list) + 1) :
        /\ i = Len(list) + 1 \/ list[i].uid >= u
        /\ \A j \in 1..(i - 1) : list[j].uid < u

VanishedAtLast(list, u) == IF list = <<>> THEN {} ELSE {Len(list)}    \* mutant
\* The positions a live VANISHED of one UID removes: none or one.
VanishedAt(list, u) ==
    LET found == MessageOrNextOne(list, u)
        at == IF found > Len(list) THEN Len(list) ELSE found
    IN IF list = <<>> THEN {}
       ELSE IF list[at].uid \in {0, u} THEN {at}
       ELSE IF at > 1 /\ list[at - 1].uid = 0 THEN {at - 1}
       ELSE {}

AfterVanishedUncounted(m) == SaveIfDone(m)    \* mutant
\* exists follows the list, and a synced mailbox is saved at once
AfterVanished(m) == SaveIfDone([m EXCEPT !.sync.exists = Len(m.list)])

HandleVanished(m, u) ==
    AfterVanished(
        IF VanishedAt(m.list, u) = {} THEN m
        ELSE ClearMessages([m EXCEPT
                 !.list = RemoveAt(@, CHOOSE at \in VanishedAt(m.list, u) : TRUE),
                 !.sync.uidNext = IF @ <= u THEN u + 1 ELSE @], {u}))

\* VANISHED (EARLIER): only known UIDs are removed, order lists the positions
\* that stay; messages that EXISTS announced too early are added back with an
\* unknown UID.
Surviving(m, us) == {i \in 1..Len(m.list) : m.list[i].uid \notin us}

Missing(m, order) == m.sync.exists - Len(order)

HandleVanishedEarlier(m, us, order) ==
    LET kept == [k \in 1..Len(order) |-> m.list[order[k]]]
        gone == {m.list[i].uid : i \in 1..Len(m.list)} \cap us
        bump == {u \in gone : m.sync.uidNext <= u}
    IN AfterVanished(ClearMessages(
          [m EXCEPT !.list = kept \o Unknown(Missing(m, order)),
                    !.sync.uidNext = IF bump = {} THEN @
                                     ELSE 1 + CHOOSE u \in bump : \A v \in bump : v <= u],
          gone))

\* A FETCH r: sequence number n, uid (0: no UID item), flags fl, mod
\* (0: no MODSEQ item).
FetchThrows(m, r) ==
    \/ r.n \notin 1..Len(m.list)
    \/ r.uid # 0 /\ m.list[r.n].uid \notin {0, r.uid}

UidLearnt(m, r) == m.list[r.n].uid = 0 /\ r.uid # 0
MessageChanged(m, r) == UidLearnt(m, r) \/ m.list[r.n].fl # r.fl

HandleFetchResponse(m, r) ==
    LET uid == IF UidLearnt(m, r) THEN r.uid ELSE m.list[r.n].uid
        guess == UidLearnt(m, r) /\ m.sync.uidNext <= r.uid
        raise == r.mod > m.sync.modSeq
        st == IF guess THEN "LOADING" ELSE m.st
        sync == [m.sync EXCEPT !.uidNext = IF guess THEN r.uid + 1 ELSE @,
                               !.modSeq = IF raise THEN r.mod ELSE @]
    IN [m EXCEPT
          !.list = [@ EXCEPT ![r.n] = [uid |-> uid, fl |-> r.fl]],
          !.st = st,
          !.sync = sync,
          !.disk.sync = IF raise /\ st = "DONE" THEN sync ELSE @,
          !.disk.flags = [u \in Uid |-> IF u = uid /\ m.list[r.n].fl # r.fl
                                        THEN r.fl ELSE m.disk.flags[u]]]

----------------------------------------------------------------------------
(* ObtainSynchronizedMailboxTask::applyUids: the messages from position    *)
(* first + 1 on get the (sorted) uids.                                     *)

\* The position after p that message u takes over: the next one that holds u
\* or no UID; past the end when a new message has to be added.
NextSlot(list, p, u) ==
    IF \E q \in (p + 1)..Len(list) : list[q].uid \in {0, u}
    THEN CHOOSE q \in (p + 1)..Len(list) :
            /\ list[q].uid \in {0, u}
            /\ \A s \in (p + 1)..(q - 1) : list[s].uid \notin {0, u}
    ELSE Len(list) + 1

\* Slots[k]: the position in the old list that the k-th UID takes over
Slots(list, first, uids) ==
    LET slot[k \in 0..Len(uids)] ==
          IF k = 0 THEN first ELSE NextSlot(list, slot[k - 1], uids[k])
    IN slot

ApplyUids(m, first, uids) ==
    LET slot == Slots(m.list, first, uids)
        At(k) == slot[k - first]
        Reused(k) == IF At(k) \in 1..Len(m.list) THEN m.list[At(k)].fl ELSE 0
        last == slot[Len(uids)]
        taken == {slot[k] : k \in 1..Len(uids)}
        skipped == {p \in (first + 1)..Len(m.list) : p < last /\ p \notin taken}
    IN ClearMessages(
         [m EXCEPT
            !.list = [k \in 1..(first + Len(uids)) |->
                        IF k <= first THEN m.list[k]
                        ELSE [uid |-> uids[k - first], fl |-> Reused(k)]],
            !.st = "DONE"],
         {m.list[p].uid : p \in skipped})

\* updateHighestKnownUid: UIDNEXT is above every UID already seen
UpdateHighestKnownUidShort(m) ==    \* mutant
    LET known == {i \in 1..Len(m.list) : m.list[i].uid # 0}
        top == m.list[CHOOSE i \in known : \A j \in known : j <= i].uid
    IN IF known = {} \/ top < m.sync.uidNext THEN m ELSE [m EXCEPT !.sync.uidNext = top]
UpdateHighestKnownUid(m) ==
    LET known == {i \in 1..Len(m.list) : m.list[i].uid # 0}
        top == m.list[CHOOSE i \in known : \A j \in known : j <= i].uid
    IN IF known = {} \/ top < m.sync.uidNext THEN m
       ELSE [m EXCEPT !.sync.uidNext = top + 1]
=============================================================================
