------------------------------- MODULE Cache -------------------------------
(***************************************************************************)
(* The persistent cache: SQLCache, with its delayed commits, DiskPartCache *)
(* and the CombinedCache that writes into both, under the writes that the  *)
(* Model's handlers make for one mailbox.  A handler is one turn of the    *)
(* event loop: a sequence of statements, executed one by one, with a crash *)
(* possible after each; timers fire between handlers only.  The value of   *)
(* a row is the number of the handler that wrote it, 0: no such row.       *)
(* SQLite is external: a transaction is atomic; a commit or a statement    *)
(* may fail, and then the transaction stays open or is rolled back.        *)
(***************************************************************************)
EXTENDS Integers, Sequences, FiniteSets

CONSTANTS
    Uid,            \* the UIDs of the mailbox
    Delay,          \* trojita-sqlcache-commit-delay, in ticks
    Period,         \* trojita-sqlcache-commit-period, in ticks
    MaxHandlers,    \* bound: how many handlers run
    MaxChanges,     \* bound: how often the server changes UIDVALIDITY
    MaxFaults       \* bound: how many commits and statements fail

ASSUME TimerAssumption ==
    Delay \in Nat \ {0} /\ Period \in Nat /\ Delay < Period
ASSUME BoundAssumption == MaxHandlers \in Nat \ {0} /\ MaxChanges \in Nat /\ MaxFaults \in Nat

VARIABLES
    tables,         \* the rows as the open database shows them
    committed,      \* the rows that a crash leaves
    todo,           \* the statements that the running handler still has to execute
    inTransaction,  \* SQLCache::inTransaction
    txn,            \* SQLite has a transaction open
    delay, period,  \* delayedCommit and tooMuchTimeWithoutCommit: ticks left, or Off
    files,          \* the parts that DiskPartCache keeps in files of their own
    session,        \* what the program does, see Sessions
    n,              \* handlers so far
    since,          \* the first handler that saw the current UIDVALIDITY
    changes,        \* how often UIDVALIDITY has changed
    faults,         \* how many commits and statements have failed
    age,            \* ticks since the oldest write that is not committed
    commitFailed,   \* a commit has failed since the program was started
    refused,        \* a statement has failed
    skipped         \* a sync took the cache over without looking at UIDVALIDITY

sql == <<tables, committed, todo, inTransaction, txn, delay, period, refused>>
world == <<n, since, changes>>
faulty == <<faults, commitFailed>>
vars == <<sql, files, session, world, age, faulty, skipped>>

Off == -1
Nothing == {0}
Row == ({"children", "sync", "uids", "threading"} \X Nothing)
          \cup ({"metadata", "flags", "part"} \X Uid)
File == {"file"} \X Uid
Rows == [Row -> Nat]
Empty == [r \in Row |-> 0]

SyncRow == <<"sync", 0>>
UidsRow == <<"uids", 0>>
PartRow(u) == <<"part", u>>
FileOf(u) == <<"file", u>>

\* "off": not running; "offline", "syncing", "synced": the mailbox is not
\* selected, being synchronized, synchronized; "replaced": the Model has got a
\* MemoryCache after an error; "memory": and this cache is destroyed.
Sessions == {"off", "offline", "syncing", "synced", "replaced", "memory"}
Opened == {"offline", "syncing", "synced"}

\* One statement: the method call it belongs to, the rows or files it
\* writes, the value.
Statement == [call: 1..3, rows: (SUBSET Row) \cup (SUBSET File), value: Nat]

Written(content, s) == [r \in Row |-> IF r \in s.rows THEN s.value ELSE content[r]]
WrittenFiles(s) == [f \in File |-> IF f \in s.rows THEN s.value ELSE files[f]]

\* The cache is new, or an earlier run of the program, as handler 1, has filled
\* it, or has cleared the messages and was gone before they were saved again.
Full == [r \in Row |-> 1]
Cleared == [r \in Row |-> IF r = <<"sync", 0>> THEN 1 ELSE 0]

Init ==
    /\ tables \in {Empty, Full, Cleared} /\ committed = tables /\ todo = <<>>
    /\ inTransaction = FALSE /\ txn = FALSE /\ delay = Off /\ period = Off
    /\ files \in [File -> {0, 1}] /\ (tables = Empty => \A f \in File : files[f] = 0)
    /\ session = "offline" /\ n = 1 /\ since = 1 /\ changes = 0 /\ age = 0
    /\ faults = 0 /\ commitFailed = FALSE /\ refused = FALSE /\ skipped = FALSE

----------------------------------------------------------------------------
(* The methods of the cache, as the statements they execute. *)

Put(call, row, value) == <<[call |-> call, rows |-> {row}, value |-> value]>>
Delete(call, rows) == <<[call |-> call, rows |-> rows, value |-> 0]>>

ClearAllMessagesSqlOnly ==    \* mutant
    Delete(1, {"metadata"} \X Uid) \o Delete(1, {"flags"} \X Uid) \o Delete(1, {"part"} \X Uid)
    \o Delete(1, {<<"threading", 0>>}) \o Delete(1, {UidsRow})
ClearAllMessages ==
    Delete(1, {"metadata"} \X Uid) \o Delete(1, {"flags"} \X Uid) \o Delete(1, {"part"} \X Uid)
    \o Delete(1, {<<"threading", 0>>}) \o Delete(1, {UidsRow}) \o Delete(1, File)

ClearMessage(u) ==
    Delete(1, {<<"metadata", u>>}) \o Delete(1, {<<"flags", u>>}) \o Delete(1, {PartRow(u)})
    \o Delete(1, {FileOf(u)})

\* TreeItemMailbox::saveSyncStateAndUids, as the calls numbered from call on
SaveSyncStateAndUids(call, v) == Put(call, SyncRow, v) \o Put(call + 1, UidsRow, v)

\* A failing DELETE leaves the method, so the INSERT is as good as another call.
SetChildMailboxes(v) == Delete(1, {<<"children", 0>>}) \o Put(2, <<"children", 0>>, v)

----------------------------------------------------------------------------
(* Handlers. *)

Handle(statements) ==
    /\ todo = <<>> /\ n < MaxHandlers
    /\ n' = n + 1 /\ todo' = statements
    /\ UNCHANGED <<tables, committed, inTransaction, txn, delay, period, refused, files,
                   since, changes, age, faulty>>

Connected == session \in {"syncing", "synced"}
Unchanged(states) == session \in states /\ UNCHANGED <<session, skipped>>

SameUidValidity == tables[SyncRow] >= since
\* The UID map and EXISTS of the sync state disagree (the mailbox is not empty).
Inconsistent == tables[UidsRow] = 0 /\ tables[SyncRow] # 0

\* finalizeSelect: whether the messages in the cache can be used.
Select ==
    /\ session = "offline" /\ session' = "syncing"
    /\ skipped' = IF SameUidValidity THEN skipped ELSE Inconsistent
    /\ Handle(IF Inconsistent \/ SameUidValidity THEN <<>> ELSE ClearAllMessages)

Synced == session = "syncing" /\ session' = "synced" /\ UNCHANGED skipped
          /\ Handle(SaveSyncStateAndUids(1, n + 1))

\* Flags arrive, with a HIGHESTMODSEQ as soon as all UIDs are in the list, be they saved or not.
Flags(u) ==
    /\ Unchanged({"syncing", "synced"})
    /\ \/ Handle(Put(1, <<"flags", u>>, n + 1))
       \/ Handle(Put(1, SyncRow, n + 1) \o Put(2, <<"flags", u>>, n + 1))

\* The list is saved when it is complete, which it also is before the flags are synchronized.
Expunge(u) ==
    /\ Unchanged({"syncing", "synced"})
    /\ \/ session = "syncing" /\ Handle(ClearMessage(u))
       \/ Handle(ClearMessage(u) \o SaveSyncStateAndUids(2, n + 1))

Metadata(u) == Unchanged({"synced"}) /\ Handle(Put(1, <<"metadata", u>>, n + 1))
Threading == Unchanged({"synced"}) /\ Handle(Put(1, <<"threading", 0>>, n + 1))
Children == Unchanged({"syncing", "synced"}) /\ Handle(SetChildMailboxes(n + 1))

\* CombinedCache::messagePart
MessagePart(u) == IF tables[PartRow(u)] # 0 THEN tables[PartRow(u)] ELSE files[FileOf(u)]

\* A part that the cache does not have is fetched; a large one gets a file.
Part(u) ==
    /\ Unchanged({"synced"}) /\ MessagePart(u) = 0
    /\ \E place \in {PartRow(u), FileOf(u)} : Handle(Put(1, place, n + 1))

----------------------------------------------------------------------------
(* SQLCache. *)

\* touchingDB
TouchedRestarting ==    \* mutant
    delay' = Delay /\ period' = Period /\ inTransaction' = TRUE
Touched ==
    /\ delay' = Delay
    /\ period' = IF inTransaction THEN period ELSE Period
    /\ inTransaction' = TRUE

Step == session # "off" /\ todo # <<>>

ExecuteCommitting ==    \* mutant
    /\ Step /\ Head(todo).rows \subseteq Row
    /\ tables' = Written(tables, Head(todo))
    /\ committed' = IF period = 0 THEN tables' ELSE committed
    /\ todo' = Tail(todo) /\ Touched /\ txn' = (txn \/ ~inTransaction)
    /\ UNCHANGED <<refused, files, session, world, age, faulty, skipped>>
\* Without a transaction a statement is committed at once.
Execute ==
    /\ Step /\ Head(todo).rows \subseteq Row
    /\ tables' = Written(tables, Head(todo))
    /\ committed' = IF inTransaction /\ ~txn THEN Written(committed, Head(todo)) ELSE committed
    /\ todo' = Tail(todo) /\ Touched /\ txn' = (txn \/ ~inTransaction)
    /\ UNCHANGED <<refused, files, session, world, age, faulty, skipped>>

WriteFile ==
    /\ Step /\ Head(todo).rows \subseteq File
    /\ files' = WrittenFiles(Head(todo)) /\ todo' = Tail(todo)
    /\ UNCHANGED <<tables, committed, inTransaction, txn, delay, period, refused,
                   session, world, age, faulty, skipped>>

\* A statement fails: the error replaces the cache of the Model, so only the
\* rest of this very method still gets here.
StatementFails ==
    /\ Step /\ Head(todo).rows \subseteq Row
    /\ faults < MaxFaults /\ faults' = faults + 1
    /\ \E k \in DOMAIN todo :
          /\ \A i \in 1..k : todo[i].call = Head(todo).call
          /\ k < Len(todo) => todo[k + 1].call # Head(todo).call
          /\ todo' = SubSeq(todo, 2, k)
    /\ session' = "replaced" /\ refused' = TRUE
    /\ Touched
    /\ \/ tables' = tables /\ txn' = (txn \/ ~inTransaction)
       \/ tables' = committed /\ txn' = FALSE    \* rolled back by SQLite
    /\ UNCHANGED <<committed, files, world, age, commitFailed, skipped>>

\* db.commit(), its result ignored, and how it may end
CommitEnds(result) ==
    IF ~inTransaction \/ result = "open"
    THEN UNCHANGED <<tables, committed, txn>>
    ELSE /\ txn' = FALSE
         /\ IF result = "done" THEN committed' = tables /\ UNCHANGED tables
            ELSE tables' = committed /\ UNCHANGED committed
Commit(result) ==
    /\ CommitEnds(result) /\ inTransaction' = FALSE
    /\ commitFailed' = (commitFailed \/ result # "done")
    /\ faults' = faults + (IF result = "done" THEN 0 ELSE 1)
    /\ age' = IF inTransaction /\ result # "open" THEN 0 ELSE age
Results == {"done"} \cup (IF faults < MaxFaults /\ inTransaction THEN {"open", "undone"} ELSE {})

TimeToCommit ==
    /\ todo = <<>>
    /\ \/ delay = 0 /\ delay' = Delay /\ UNCHANGED period
       \/ period = 0 /\ period' = Period /\ UNCHANGED delay
    /\ \E result \in Results : Commit(result)
    /\ UNCHANGED <<todo, refused, files, session, world, skipped>>

\* ~SQLCache: commit and close; what was not committed is gone.
Destroy(result) ==
    /\ todo = <<>> /\ UNCHANGED todo
    /\ committed' = IF inTransaction /\ result = "done" THEN tables ELSE committed
    /\ tables' = committed'
    /\ inTransaction' = FALSE /\ txn' = FALSE /\ delay' = Off /\ period' = Off
    /\ faults' = faults + (IF result = "done" THEN 0 ELSE 1)
    /\ age' = 0 /\ UNCHANGED <<refused, files, world, skipped>>

Replaced ==
    /\ session = "replaced" /\ session' = "memory"
    /\ \E result \in Results : Destroy(result)
    /\ UNCHANGED commitFailed

Quit ==
    /\ session \in Opened /\ session' = "off"
    /\ \E result \in Results : Destroy(result)
    /\ UNCHANGED commitFailed

----------------------------------------------------------------------------
(* The rest of the world. *)

Disconnect ==
    /\ Connected /\ todo = <<>> /\ session' = "offline"
    /\ UNCHANGED <<sql, files, world, age, faulty, skipped>>

UidValidityChanges ==
    /\ ~Connected /\ changes < MaxChanges
    /\ changes' = changes + 1 /\ since' = n + 1
    /\ UNCHANGED <<sql, files, session, n, age, faulty, skipped>>

\* At any time, in the middle of a handler too.
Crash ==
    /\ session # "off" /\ session' = "off"
    /\ tables' = committed /\ todo' = <<>>
    /\ inTransaction' = FALSE /\ txn' = FALSE /\ delay' = Off /\ period' = Off /\ age' = 0
    /\ UNCHANGED <<committed, refused, files, world, faulty, skipped>>

Start ==
    /\ session = "off" /\ session' = "offline" /\ commitFailed' = FALSE
    /\ UNCHANGED <<sql, files, world, age, faults, skipped>>

TickLate ==    \* mutant
    /\ session \in Opened /\ todo = <<>> /\ delay # 0
    /\ delay # Off
    /\ delay' = delay - 1 /\ period' = period - 1
    /\ age' = IF tables # committed /\ age <= Period THEN age + 1 ELSE age
    /\ UNCHANGED <<tables, committed, todo, inTransaction, txn, refused, files, session,
                   world, faulty, skipped>>
\* Time goes on when the event loop has nothing left to do.
Tick ==
    /\ session \in Opened /\ todo = <<>> /\ delay # 0 /\ period # 0
    /\ delay # Off
    /\ delay' = delay - 1 /\ period' = period - 1
    /\ age' = IF tables # committed /\ age <= Period THEN age + 1 ELSE age
    /\ UNCHANGED <<tables, committed, todo, inTransaction, txn, refused, files, session,
                   world, faulty, skipped>>

----------------------------------------------------------------------------
Handler ==
    \/ Select \/ Synced \/ Threading \/ Children
    \/ \E u \in Uid : Flags(u) \/ Expunge(u) \/ Metadata(u) \/ Part(u)

Next ==
    \/ Handler \/ Execute \/ WriteFile \/ StatementFails
    \/ TimeToCommit \/ Replaced \/ Quit
    \/ Disconnect \/ UidValidityChanges \/ Crash \/ Start \/ Tick

Spec == Init /\ [][Next]_vars

----------------------------------------------------------------------------
(* Properties. *)

\* Types of the whole state.
TypeOK ==
    /\ tables \in Rows /\ committed \in Rows /\ todo \in Seq(Statement)
    /\ inTransaction \in BOOLEAN /\ txn \in BOOLEAN
    /\ delay \in Off..Delay /\ period \in Off..Period
    /\ files \in [File -> Nat] /\ session \in Sessions
    /\ n \in 0..MaxHandlers /\ since \in Nat /\ changes \in 0..MaxChanges
    /\ age \in 0..(Period + 1)
    /\ faults \in 0..MaxFaults /\ commitFailed \in BOOLEAN /\ refused \in BOOLEAN /\ skipped \in BOOLEAN

\* The rows after the statements in list: the last one that writes a row counts.
IsLast(list, r, i) ==
    i \in DOMAIN list /\ r \in list[i].rows /\ \A j \in DOMAIN list : j > i => r \notin list[j].rows
After(content, list) ==
    [r \in Row |-> IF \E i \in DOMAIN list : r \in list[i].rows
                  THEN list[CHOOSE i \in DOMAIN list : IsLast(list, r, i)].value
                  ELSE content[r]]

\* The tables implement the abstract store: whatever is on the disk was the
\* content between two handlers, whenever a timer fires, a commit fails, the
\* program quits or crashes (touchingDB, timeToCommit, ~SQLCache).
Promised == INSTANCE Store WITH content <- After(tables, todo), saved <- committed, whole <- ~refused
ImplementsStore == Promised!Spec

\* A crash loses at most the last Period of writes, however busy the cache is
\* kept: the period starts with the transaction, not with the last write.
BoundedLoss == tables # committed /\ ~commitFailed => age <= Period

\* Once a mailbox is synchronized, a part that the cache returns belongs to the
\* messages of the current UIDVALIDITY, although files and tables do not
\* survive a crash alike (finalizeSelect, CombinedCache).
PartsMatch ==
    session = "synced" /\ todo = <<>> /\ ~skipped /\ faults = 0 =>
        \A u \in Uid : MessagePart(u) # 0 => MessagePart(u) >= since
=============================================================================
