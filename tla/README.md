# A verification project for Trojitá's IMAP core (qmlTrojita)

qmlTrojita is a QML mail client for Ubuntu Touch around the library of Trojitá,
an IMAP client in C++ and Qt. This directory holds TLA+ specifications of the
library's core, the TLC configurations that check them on small instances, and
theorems that TLAPS proves for instances of every size. Paths below are relative
to `src/src/trojita/src/` unless they start with `src/`.

Contents: [inventory](#inventory) · [modules](#modules-and-how-they-correspond-to-the-code) ·
[runs](#runs-bounds-and-what-they-show) · [fairness](#fairness) ·
[findings](#findings) · [proofs](#proofs) · [not modelled](#abstractions-and-what-is-not-modelled) ·
[plan](#plan)

## Inventory

The program has one thread and an event loop. Everything interesting is
concurrency all the same: with the server, which numbers messages and announces
changes whenever the protocol lets it; between tasks that share a connection; and
between calls posted to the event loop, timers, user actions and responses.
What the program knows about a mailbox survives restarts in a cache.

| Component | State | Operations | Talks to | Hard because | Correct if |
|---|---|---|---|---|---|
| **ObtainSynchronizedMailboxTask** (`Imap/Tasks`) | status, old sync state, pending tags, UID map, offset of unknown UIDs | SELECT, choice of the synchronization, UID SEARCH, FETCH FLAGS, VANISHED (EARLIER) | Parser, tree, cache; wakes KeepMailboxOpenTask | untagged responses between every command and its OK; drops half-way | the tree is the server's mailbox at the end, and so is the cache |
| **TreeItemMailbox, TreeItemMsgList, SyncState** (`Imap/Model`) | list of messages, EXISTS, UIDNEXT, UIDVALIDITY, HIGHESTMODSEQ, fetch status | EXISTS, EXPUNGE, VANISHED, FETCH, save | cache, views | sequence numbers mean something only for the list the server has in mind; UIDs are unknown for a while | EXISTS and the list agree; nothing that the server has is removed |
| **KeepMailboxOpenTask, IdleLauncher** (`Imap/Tasks`) | waiting and running tasks, requested data, pending arrivals, IDLE, timers | add task, activate, fetch requested data, new arrivals, enter/break/renew IDLE, terminate | Parser, tasks, the next mailbox's Obtain | timers, posted calls and answers in any order; the server ends or refuses IDLE | no command in the middle of IDLE; IDLE comes back; the connection is handed over, cleanly |
| **Model::responseReceived, ImapTask** | connections, their active tasks | dispatch, delete finished tasks, kill a connection after an exception | all tasks | handlers add and finish tasks | each response has one owner |
| **Parser** (`Imap/Parser`) | command queue, response queue, idling, waiting for continuations | queue, execute, read line, parse | socket, Model | literals, IDLE, STARTTLS and COMPRESS each stop the queue | commands in order, DONE only in IDLE |
| **findMessagesByUids, lowerBoundWithUnknownElements** (`Common/FindWithUnknown.h`) | iterators | search in a list with unknown UIDs | tree, COPY/MOVE, threading | bisection over a list with holes | lower bound; nothing lost |
| **SQLCache, CombinedCache, DiskPartCache** (`Imap/Model`) | tables, open transaction, two commit timers, files of large parts | get, set, clear, commit | tree, tasks | commits are delayed: a crash loses the last writes, but not the files; statements and commits fail | a restart finds a content the cache once had; no part of another message |
| **OpenConnectionTask, GetAnyConnectionTask** with the Parser's gates and the socket | state of the connection, capabilities, pending tags, gates, dialogs | greeting, TLS, CAPABILITY, LOGIN, COMPRESS, give up | Parser, socket, user | answers, the socket's signals and the user's decisions in any order; going offline at any time | each command in the phase that allows it; no state without a way on |
| **ImapTask, the tree of tasks and its roots in the Model**; other tasks (`Imap/Tasks`) | parent, dependents, finished, dead, aborted; one or two tags each | add dependent, activate, complete, fail, die; FETCH, STORE, COPY, LIST, SORT, ... | Model, Keep, connection | every callback may create, finish or kill tasks that others point to; mailboxes wait for one connection | one owner for each task and answer; each ends, completed or failed; commands reach their own mailbox |
| **ThreadingMsgListModel, SortTask, ThreadTask** (`Imap/Model`) | nodes with parents, children and offsets, UIDs still unknown, result of the last search, requests in flight | rows inserted and removed, delayed pruning, threading, incremental threading, search, sort | Model, views | messages come and go while THREAD and SORT are in flight, whose answers are of other messages then | a tree that shows each message once, and what was asked for |
| **NetworkWatcher** (`Imap/Model`) | wish of the user, state of the system and of the session | go online, offline, reconnect | Model | the system changes while the user does | offline is offline |
| **Composer::Submission, MSA, qwwsmtpclient** | state of the submission, APPEND UID, URLAUTH; SMTP's command queue | save, build, send, cancel, mark answered | tasks, SMTP server, sendmail, user | failure in the middle, a second attempt, late dialogs | sent once, and what was composed; "sent" means accepted |
| Encoders, message grammar, MessageComposer | none | conversions of strings | | | |
| Views, Gui, Harmattan, QML, plugins, XtConnect, vendored code | | presentation, storage of settings and passwords | Model | | |

`PROJECT.json` lists every component with its sources and status, and the hazards
of the code, each at its line with the properties that would catch it.

## Modules and how they correspond to the code

Every operator has the name of the method it models; `PROJECT.json`, "map", gives
the lines. Operators marked `\* mutant` are plausible bugs: substituted for the
definition below them, they break the property that PROJECT.json pairs them
with, which shows that the property can fail.

**MailboxTree** - the pure part: a mailbox is a record of the list of messages
(`list`, UID 0 = not known yet), the `SyncState` (`sync`), the fetch status of the
list (`st`) and what the cache holds (`disk`: sync state, UID map, flags).
`HandleExists`, `HandleExpunge`, `HandleVanished`, `HandleVanishedEarlier`,
`HandleFetchResponse`, `ApplyUids`, `Populate`, `SaveSyncStateAndUids` take a
mailbox and return one, with every save that the method makes. Exceptions are
separate predicates (`ExistsThrows`, ...).

**MailboxSync** - the client and the server around it. Client: `task` is
ObtainSynchronizedMailboxTask (`status` as in the code) and then
KeepMailboxOpenTask (`"KEEP"`); `mb` is the mailbox; `threw` is the exception or
failed assertion. `HandleResponse` is Model::responseReceived for the next
response in `net`, with one disjunct per response and owner. `Perform` starts a
synchronization: of a new connection, or of one that the previous Keep has
freed. `Drop`, `Restart`: the connection or the process ends at any moment; the
tree survives a drop, only `disk` survives a restart. Server (external): it
numbers messages, performs the commands in order, sends the data of a command and
its tagged line in two steps with changes in between, announces EXPUNGE only when
RFC 3501 allows it, and with `Condstore`/`Qresync` keeps modification sequences
and answers SELECT (QRESYNC) with VANISHED (EARLIER). With `EarlyChanges` changes
are announced between the data of SELECT and its OK, with `MayFail` it refuses
SEARCH and FETCH.

**KeepMailboxOpen** - the same Keep from the side of the connection. The record
`c` holds the fields of KeepMailboxOpenTask, IdleLauncher and Parser under their
names and the zero-timeout calls in the event loop (`posted`). Each action is one
call of the event loop: a timer (`DelayedEnter`, `Renewal`, `FetchTimer`), a posted
call (`Posted`: slotActivateTasks and terminate), the Parser (`ExecuteCommands`,
`ReadLine`), a response (`HandleResponse`), a destroyed task (`TaskDestroyed`), the
user (`Request`, `OtherMailbox`). MailboxSync lets the next synchronization start
as soon as nothing is pending; this module models the gap between the decision and
the posted call, and that a finished Keep still gets one more response. The server
(external) answers in order; `ServerEndsIdle` and `MayRefuse` give it its freedoms.

**TaskTree** - the tasks of one connection from its first command to its end. `m.task`
holds the fields of ImapTask, KeepMailboxOpenTask and ObtainSynchronizedMailboxTask for
each task, `m` the rest of the Model: the active tasks, the maintaining task, commands
not yet answered (`sent`), zero timers (`posted`) and deleteLater (`dying`). A method is
an operator on `m` (`AddDependent`, `MarkAsActive`, `ActivateTasks`, `Terminate`, `Die`,
`SlotTaskDeleted`, `NewKeep`, ...), with the calls that it makes; an action is one call of
the event loop: a request (`SwitchToMailbox`, `ResyncMailbox`, `WorkIn`, `WorkAnywhere`),
a zero timer (`Posted`), a deletion (`Destroyed`), an answer (`Answer`, with
responseReceived and runReadyTasks around it), `GoOffline`, `LogoutAnswered`,
`SocketDisconnected`. Opening the connection and synchronizing a mailbox are one
command each here: Connection and MailboxSync say what is in them, KeepMailboxOpen
what a Keep does with IDLE and data. A task that has been deleted and is used, and a
Q_ASSERT that fails, end the run and show in `m.failed`, the use of a freed synchronizeConn
(`LookAtSync`) under a name of its own.

**FindMessages** - findMessagesByUids with the searches below it, one step per
iteration. MailboxTree uses the result of the same search (`MessageOrNextOne`) as
one operator; this module is why it may.

**Store, Cache** - *Store* is what a persistent cache promises: handlers change the
content, somewhen it is saved, a crash leaves what was saved last, whole. *Cache* is
the code: the tables of one mailbox as rows that hold the number of the handler
that wrote them, SQLite's transaction and committed rows, both timers of SQLCache
(`delay`, `period`), the handlers as the statements they execute one after the
other (`Select`, `Synced`, `Flags`, `Expunge`, `Part`, ...), a statement or a commit
that fails, the replacement of the cache by MailBackend, `Quit`, `Crash` and `Start`;
and the files of DiskPartCache, which know no transaction. `ImplementsStore` is the
refinement. It is what lets MailboxTree write its `disk` at once: what a crash
throws back is a whole state of an earlier moment, and MailboxSync's Restart
synchronizes from whatever the disk holds.

**Connection** - setting up connections, from the socket to AUTHENTICATED, in one
record per connection: the socket (`socket`, `signals`), the Parser (`queue`, `gates`:
the flags that stop executeCommands, `unread`, responses waiting to be handled),
OpenConnectionTask (`state` of the connection, tags), what the Model knows of
capabilities (`caps`, with the phase they are from). One action per callback: the
socket's state changes, a line read, finishStartTls, a command written, a response
handled (`HandleState`, `SocketEncrypted`, `Capability`, ...), the two dialogs, and
NetworkWatcher with its session (`SetDesired`, `SessionOpened`, `SystemOffline`, ...)
above setNetworkPolicy. The server (external) greets, answers or refuses and may
break the connection at each step; the connection method is any of three.

**SmtpClient, Submission, MCSubmission** - *Submission* is Composer::Submission with
the compose window on top, its tasks (APPEND, GENURLAUTH, UID SUBMIT, STORE) and the
MSAs of all attempts below: SMTP, sendmail and IMAP. *SmtpClient* is one SMTP object
with the command queue of qwwsmtpclient: `Enqueue`, `ProcessNext`, `Received`,
`OnDisconnected`. Servers, the sendmail process and the user (external) succeed, fail
or refuse when they like; the user may send again after a failure, cancel, and
answer password dialogs late.

**ThreadTree, Threading, MCThreading** - *ThreadTree* is ThreadingMsgListModel's tree:
nodes by internal id, as in the code's QHash, with parent, children, offset, UID and
pointer, and the pure operations on it (`Flat`, `Inserted`, `Removed`, `Prune`,
`Threaded`, `Merged`, `Sorted`). *Threading* is the protocol above it: arrivals,
UIDs that become known, expunges with their delayed pruning, THREAD, INCTHREAD, SORT
and SEARCH in flight with answers computed when the server answers, refusals, and
the requests of the main window.

**MailboxHistory** - no part of the program: the definitions of the invariants by which the
client keeps up with the server (`KeepsUp`), is waiting for every tagged line (`Pending`) and
finds out all UIDs and flags (`LearnsUids`, `LearnsFlags`), with the states of the mailbox that
the responses under way lead through.

**ProofFacts, MailboxSync_proofs, MailboxHistory_proofs, KeepMailboxOpen_proofs,
FindMessages_proofs, Cache_proofs, Connection_proofs, Submission_proofs** - see
[proofs](#proofs).

## Runs, bounds and what they show

| Run | Configuration | Shows |
|---|---|---|
| `sync_plain` | no extensions | `ViewIsServers`, `CacheIsServers`: when everything is handled, tree with flags and cache are the server's. `OnlyGoneLeave`: no EXPUNGE hits the wrong message. `ResponsesFit`: no assertion, wrong UID or orphan on the way. `ListAscending`: the search for UIDs works. `UidNextAbove`: a restart asks for enough. `TypeOK`. |
| `sync_qresync` | QRESYNC, commands refused | `SyncInv` (below, [proofs](#proofs)) with VANISHED and VANISHED (EARLIER); fair: `SyncEnds`, also when the Obtain waits for the UIDs of arrivals. |
| `keep_open` | server refuses and ends IDLE | `IdleInOrder`, `LauncherKnows` (what the launcher believes is what the server does or will be told), `CleanHandOver`; fair: `HandOver`, `IdleResumes`, `TasksRun`. `IdleInOrder` includes the types: no counter of tasks below zero. |
| `find_sorted` | ascending UIDs | `TypeOK` (no iterator out of the list), `SearchRight`, `AllFound`, `Ends`. |
| `cache` | crashes, failures | `ImplementsStore`, `BoundedLoss` (a crash loses at most the last period), `PartsMatch` (a part is of the message it is read for). `TypeOK`. |
| `connection` | refusals, a loss | `OfflineIsOffline`, `CommandsInPhase`, `CapsOfPhase`, `DecisionExpected`; fair: `Settles`. |
| `submission` | all configurations | `OncePerAttempt` (a cancelled attempt not at all), `SentIsDelivered`; fair: `Ends`. |
| `threading` | INCTHREAD, refusals | `TreeConsistent`, `NoDangling`, `PruneInAnyOrder`, `ShownAsAsked`; fair: `Settles`. |
| `task_tree` | a refusal, moves, logout, loss | `RightMailbox` (no command reaches the server in a foreign mailbox), `TreeConsistent` (parents and dependents agree, no answer is left over, nothing deleted is used, but for the synchronizeConn of a Keep whose SELECT was refused, see [findings](#findings)); fair: `AllServed`. |
| `found_*` | see [findings](#findings) | one property each that the code breaks. |

Bounds. *MailboxSync*: UIDs up to 3, 3 modifications after the first (two in
`sync_qresync`, where liveness is checked), two synchronizations, no new announcement while 4 responses wait
(`found_stale`: three synchronizations, with 2 responses). Three
messages are the fewest with a first, a middle and a last one, so that an EXPUNGE
can hit below, at and above an unknown UID; the second synchronization is what
makes the cache matter; a change needs one modification, and the shortest error
found needs three. *KeepMailboxOpen*: limit of active tasks 2 (the Keep and one
task, so that a second one has to wait), two requests, one announcement (IDLE is
broken, resumed and broken again). *FindMessages*: 5 messages, so that bisection
goes both ways twice and meets unknown UIDs on either side; two UIDs, so that the
second search starts where the first ended. *Cache*: one
UID (a part and its message), five handlers (a mailbox synchronized, written to and
synchronized again after a restart) on a cache that is new, filled, or was cleared and
not filled again, one change of UIDVALIDITY, one statement or commit that fails, crashes at any time; the delay and the period are 1 and 2 ticks, so that writing can
postpone one commit and not the other.
*Connection*: one connection, opened twice, one refusal and one loss: with two
connections at a time the states are too many for a run (more than 14 million), and
what two share - dialogs, policy, capabilities - is shared by one and its successor
too. *Submission*: two attempts, so that everything of the first can disturb the
second. *Threading*: three messages and one more, two expunges, two requests of
the user and one refusal, four events in all: a message, its parent and its
grandparent can go, and an arrival fall in each gap. *TaskTree*:
two mailboxes, so that one waits for the other or for itself after a resynchronization;
seven tasks, which are a connection, two mailboxes with their Obtains and two tasks in
them, three Keeps in a row, or a whole move with one task beside it; a limit of three active
tasks makes the third wait; one refusal. A move that meets a second mailbox, or a LIST, needs
an eighth task, which is too much for a run with liveness: that UID EXPUNGE then hits the
wrong mailbox was found with eight (*findings*). `found_toes` has eight. Deadlock is not checked: with all
changes used up the systems may stop, and the liveness properties say that they
do not stop too early.

The safety runs include drops, restarts and refusals wherever their cfg allows
them; `Quiet` (everything handled) are reached with each kind of
synchronization, as the mutants of the properties about them show.

## Fairness

*MailboxSync* (`FairSpec`): weak fairness of the server's data and tagged
responses and of HandleResponse - a server that answers, a socket and an event
loop that deliver. Changes, drops, restarts and new synchronizations need not
happen. *KeepMailboxOpen*: weak fairness of each callback of the event loop, of
the timer that enters IDLE and of the server's answers; not of the user, of the
29 minutes' renewal, of announcements or of the server's own end of IDLE. Weak
fairness is enough because a posted call, a line read or a timer that runs stays
where it is until it is served. *FindMessages*: the loop goes on. *Connection*: the
socket, the Parser and the event loop deliver, the server answers or breaks the
connection, and a dialog that is open is answered: OpenConnectionTask has no timeout,
so that without the last two nothing could be said. *Submission*: the same for MSAs,
tasks and dialogs; not that the user presses anything else. *Threading*: the tasks
are answered and the posted pruning is done; messages and requests need not come. *TaskTree*: posted calls, deletions, the server's
answers and that to LOGOUT; users, networks and untagged responses need not do anything.
There ENABLED is written out, and `AllServed` excuses what findings describe: a refused
SELECT whose dead Keep still holds the connection. Each
is weak fairness, or says that something answered happens again and again, of
callbacks that stay enabled until they run. *Cache* has no liveness.

## Findings

Each is a run whose property, quoted from the code's own comment, fails;
PROJECT.json has the quotations.

- `found_empty`: the message is to be sent by BURL, so it is never built locally; the
  server's OK of APPEND carries no UID, slotAppendSucceeded turns BURL off and sends
  what was built: an empty mail, reported as sent.
- `found_stale`: with CONDSTORE, applyUids declares the list fetched
  (`Imap/Tasks/ObtainSynchronizedMailboxTask.cpp:1094`) before anything is saved. The FETCH
  FLAGS that follows brings new MODSEQs, and each saves the sync state, with the new EXISTS and
  UIDNEXT, without the UID map (`Imap/Model/MailboxTree.cpp:433`). If the program ends before
  the task does, the cache has a sync state of today with a UID map of yesterday. When an
  arrival and an EXPUNGE have left the length of the map right, the next start finds nothing
  to do and shows messages under UIDs that they do not have; what the user does to one of
  them is done to another. It takes three synchronizations, a restart in the middle of the
  second, and changes before it. The same save is why `UidNextAbove` is false with CONDSTORE after a change of UIDVALIDITY.
- `found_toes`: a mailbox is opened while the connection is still being set up for
  something else, a LIST for instance. Its Keep waits for the OpenConnectionTask and
  never becomes the maintaining task of the parser. The next mailbox believes that the
  connection is free and selects itself over the first one, whose tasks go on sending
  commands: they hit the messages with the same UIDs in the other mailbox. It does not come
  to light in a test that waits for the login first.

Also met while modelling, each a violation that the modules can show with the
property named here added to a cfg (or visible in the excuses that a property
names), but without a run of its own:

*Mailboxes*

- With CONDSTORE handleExpunge saves the new HIGHESTMODSEQ while the flags are still
  under way; after a drop they stay wrong for good
  (`ObtainSynchronizedMailboxTask.cpp:758`; `ViewIsServers` with `Condstore`).
- With QRESYNC an arrival whose UID never became known is taken for a message by the
  next VANISHED (EARLIER), and stays (`MailboxTree.cpp:718`; `ViewIsServers` with `Qresync`).
  A FETCH that gives it a UID then can put the same UID into the list twice (`ListAscending`
  with `Qresync`, four UIDs and six modifications).
- EXPUNGEs skipped during UID synchronization make a correct EXISTS look like a
  decrease; the connection is killed (`MailboxTree.cpp:741`,
  `ObtainSynchronizedMailboxTask.cpp:795`; `threw # "ExistsDecreased"`).
- With CONDSTORE and changes during SELECT the OK of FETCH FLAGS finds STATE_DONE, the
  Q_ASSERT wants STATE_SYNCING_FLAGS (`:172`; `ResponsesFit` with `EarlyChanges`).
- terminate() is posted and does not check again; an EXISTS in between starts a UID
  FETCH whose OK nobody owns, which kills the connection
  (`KeepMailboxOpenTask.cpp:196`, `Model.cpp:331`; `c.failed # "unhandled"`).
- A NO to the UID FETCH for arrivals counts as success, a message keeps UID 0
  (`Imap/Tasks/KeepMailboxOpenTask.cpp:515`; `ViewIsServers` with `MayFail`; what is
  known remains right, `KnownAreServers`).
- An arrival and an EXPUNGE between the data of SELECT and its OK cancel out
  (`ObtainSynchronizedMailboxTask.cpp:340`; `ViewIsServers` with `EarlyChanges`).
- UID SEARCH UIDNEXT:* always names the last message, so that finalizeSearch
  refuses a correct result after an EXPUNGE (`:937`; `threw # "SearchMismatch"`).
- A map with a 0 in it is saved (`MailboxTree.cpp:554`).
- IDLE refused after DONE was queued fails the assertion at `IdleLauncher.cpp:139`
  (`c.failed # "idleFailed"` with `MayRefuse`), in a release build DONE is sent
  outside of IDLE; a request between the posting of terminate() and its call fails
  the assertions at `KeepMailboxOpenTask.cpp:269` (`c.failed # "terminate"`); a DONE
  that crosses with the server's own end of IDLE is answered with BAD, which kills
  the connection (`Model.cpp:331`; `c.failed # "unhandled"` with `ServerEndsIdle`).

*Tasks*

- A move on a server with UIDPLUS and without MOVE is COPY, STORE and UID EXPUNGE. When
  the COPY is done its task leaves the Keep's running tasks, the other two never were among
  them: the Keep may terminate in between, the next mailbox is selected, and UID EXPUNGE
  goes there (`CopyMoveMessagesTask.cpp:111`, "we just want to finish in an "atomic"
  manner"; `InMailbox({"expunge"})` with `MaxTasks = 8`).
- After a refused SELECT the dead Keep remains the maintaining task of the parser
  (`ObtainSynchronizedMailboxTask.cpp:150`). Its synchronizeConn is never reset, and is deleted
  with the next response: the next mailbox that is opened asks the freed task whether it is
  finished (`KeepMailboxOpenTask.cpp:196`, the raw pointer of `KeepMailboxOpenTask.h:243`;
  `m.failed # "synchronizeConn"`). A LIST that is added to the dead Keep hangs for ever, and a
  mailbox behind it (`AllServed` without `Stuck`); when the other mailbox is opened before the
  deletion, the assertion at `KeepMailboxOpenTask.cpp:162` fails (`m.failed # "perform"`).
  `TreeConsistent` allows both in this situation only, `Stuck`.
- A task that is requested between the posting of terminate() and its call fails the
  assertions at `KeepMailboxOpenTask.cpp:269` (`m.failed # "terminate"`). When the
  connection is lost in that interval, terminate() and slotPerformConnection() look for
  a parser that is gone (`m.failed # "noParser"`).

*The cache*

- A cached UID map of the wrong length makes finalizeSelect skip clearAllMessages
  (`ObtainSynchronizedMailboxTask.cpp:234`); after a crash and two changes of
  UIDVALIDITY a stale large part can be served, and because the new sync state is saved
  with it, in later sessions too. `PartsMatch` excuses it until the next clearAllMessages
  (`skipped`); that it needs no other excuse is proved.
- saveSyncStateAndUids is two writes; when the second fails, SQLCache's destructor
  commits the first (`SQLCache.cpp:95`). The result of commit() is ignored (`:853`).
- MemoryCache::clearAllMessages leaves the UID map.

*Connections*

- finishStartTls begins TLS even when the server refused STARTTLS (`Parser.cpp:733`).
- The LOGOUT that a rejected certificate or BAD greeting calls for is queued behind a
  gate that never opens, or never sent.
- A new password is discarded when an older LOGIN fails after it was entered.
- Two TLS dialogs can be open; a decision then reaches a task that does not wait for
  it, `Q_ASSERT(false)` at `OpenConnectionTask.cpp:484`: only after a loss or
  going offline with the dialog open, says `DecisionExpected`.
- Lines 323 to 327 of OpenConnectionTask.cpp and 107 to 113 of Parser.cpp are unreachable.

*Submission*

- APPENDUID and URLAUTH of an earlier attempt are reset only when the message is
  saved (`Submission.cpp:207`), and the URL that GENURLAUTH returns is not matched.
- When GENURLAUTH fails after it had delivered the URL, the attempt has both sent and
  failed, and a retry delivers once more (`:367`).
- After 421 qwwsmtpclient reports done(true) and then done(false); a crashed sendmail
  has the exit code 0. `SentIsDelivered` excuses both.
- The fallback to HELO never proceeds (`state==2` compares the wrong variable), a
  greeting other than 220 or refused AUTH waits until the server closes, and cancel
  of a waiting SMTP leaves `quit` at the head of the queue (`qwwsmtpclient.cpp`).

*Threading*

- With three search tasks outstanding slotSortingAvailable follows a null pointer
  (`ThreadingMsgListModel.cpp:800`); with two, the result of the older is taken for
  that of the new conditions.
- With threading on, leaving a search brings back nothing that the search had hidden
  (`ThreadingMsgListModel.cpp:964`), though the comment at `:1302` says that this "will
  immediately restore the original shape of the mailbox" (`ShownAsAsked` excuses it: "sorted").
- A message that arrives while a search is in flight is hidden by its "fresh" result;
  an unknown UID that is expunged last leaves the tree unthreaded ("early").
- A refused THREAD drops the active search filter (`slotThreadingFailed`).
- INCTHREAD: in flight is never reset, UIDs are compared with internal ids (`:704`),
  `Q_ASSERT` at `:689` can fail, merging duplicates messages ("incremental").

## Proofs

All proofs are checked by TLAPS (SMT, Zenon and, for the temporal steps, PTL) from
the named assumptions of the modules: the bounds are natural numbers, the switches
Booleans, QRESYNC implies CONDSTORE. They hold for every number of messages,
modifications and synchronizations, and every combination of server behaviours.

**EXISTS and the tree.** `CountsStayInStep`: once UIDs are known, EXISTS is the
number of messages in the tree. It is not inductive alone: whether it holds after
the SEARCH result depends on where the search started. `SyncInv` adds that a full
search starts at the first message, and `TypeOK` that the numbers are numbers; the
three together are preserved. The argument in *MailboxSync_proofs* has three layers:
what each handler of the tree returns (its type, and how list and EXISTS change),
a lemma per action, and `NextType`, which joins them. EXPUNGE of
an unknown message during the UID synchronization is the interesting case: list
and EXISTS do disagree then, and applyUids brings them together again. Results:
`TypeCorrect`, `SyncInvariant`, `CountsStayInStep`. *ProofFacts* holds least and
greatest elements of bounded sets, RemoveAt, and how often an element occurs in a
sequence (`Count`).

**The client and the server's mailbox.** `OpenMailboxIsServers` (`KnownAreServers`) and
`CacheMissesNothing` (`UidNextAbove`) for a server without extensions that announces no change
while it answers SELECT (`Plain`) and may refuse anything else: that is RFC 3501, and where the
code has no known flaw - with CONDSTORE or early changes both are refuted (*findings*). What
the client believes is of a moment that is past for the server; the responses under way lead
from the one to the other. The invariant says that such a path exists (`KeepsUp`: there is
`hs`, the states of the mailbox from what the client has been told, `hs[1]`, to the server's,
each the next by one response, `History`). Of `hs[1]` it says what the client knows in
each phase of its task (`Client`): while SELECT is under way nothing of the list, but that
the cache can be trusted if as many messages as UIDs have been added since it was saved (`OnDisk`:
finalizeSelect's comparison of EXISTS and UIDNEXT, `OnlyArrivals`, is right because an EXPUNGE
can only make the number of messages fall behind, `Surplus`); while UIDs are searched that the
list is right up to the first unknown UID, also when an EXPUNGE moves it (`UidsAsked`); after
that all of the list (`Synced`). `Stream` says what is under way: nothing but
announcements after the OK of SELECT, its parts in order, the SEARCH result of the mailbox as it
then was (`Finds`). A lemma for each handler, what the operators of MailboxTree do to UIDs and
cache below them, `NextKeepsUp` above. This is the larger part of *MailboxSync_proofs*: histories,
the operators, the server's steps, a new SELECT, the responses, the two theorems. Its last
sections count the commands and lines under way, for what follows.

*MailboxHistory_proofs* is about a server that also refuses nothing (`Reliable`):
`EveryResponseFits` (`ResponsesFit`), `ListStaysOrdered` (`ListAscending`),
`NothingPresentLeaves` (`OnlyGoneLeave`), `CacheStaysServers` (`CacheIsServers`) and
`ViewStaysServers` (`ViewIsServers`).
`Pending` counts: for each kind of command, the tagged lines and open commands under way
are as many as the task waits for, all bear its tag, a FETCH with a UID comes before the line
of a UID FETCH, a SEARCH result before that of the UID SEARCH. So no assertion on the
status can fail - a status is left only by the line that it waits for (`ReliableKeepsUp`:
`KeepsUp` and `Pending` are kept). `ListAscending` follows from `KeepsUp` only where the UIDs
are known; elsewhere from how a step may change the list (`ListStep`: longer by unknown
messages, a UID learnt, a message removed that is not asked for, replaced by the UID SEARCH,
emptied, filled from the cache - whose UIDs therefore ascend too, `Ordered`). `OnlyGoneLeave`
goes through the same cases: an EXPUNGE removes the message that `hs[1]` has at that number
and `hs[2]` has not, and a UID that was assigned once is not assigned again
(`NoneReturns`); a UID SEARCH drops what `hs[1]` has not either, provided that nothing older than
its first UID stands in the part that it replaces (`RestAsked`, by finalizeSelect's comparison again).

`CacheIsServers` and `ViewIsServers` say that the client finds out everything, so the
invariants have to say of each message who will tell the client what it does not know.
`LearnsUids`: the UID of each message of `hs[1]` is in the list, or a FETCH under way tells it,
or a UID FETCH is open or being answered that asks for it (`UidsPromised`). A position may be
ahead: `Found` is about a message and the moment at which the response under way will
be handled, and an EXPUNGE in between does no harm, for the message is gone then or has moved
with its UID. The client asks for new UIDs only from UIDNEXT on, which each FETCH of a UID
raises; hence `InTurn`: UIDs become known in ascending order, across all UID FETCHes under way.
`RestAsked` starts it (the UID SEARCH asks for all that is unknown), `CacheKnown` gives
what was loaded from the cache, and `Saved` holds as soon as nothing is asked for. `LearnsFlags`
is the same for flags, from when all of them are asked for, after the UID SEARCH, before the
mailbox is open: the flags of a message are those of `hs[1]`, or a FETCH under way is of the
message, or a command is open or being answered that covers it (`FlagsPromised`). `FETCH 1:*`
and a change announced at the same time may come in either order (`Fresh`: what comes last is
at least as new). When everything is handled nothing is promised, so all is known
(`ReliableLearnsUids`, `ReliableLearnsFlags`).

**IDLE and the hand-over.** `IdleInOrderHolds`, `LauncherKnowsHolds` and
`CleanHandOverHolds`, for every limit on active tasks, any number of requests and
announcements, and with or without a server that refuses or ends IDLE. The properties speak
of what is under way in two queues in each direction; the inductive invariant `IInv`
counts it. `Balanced`: an IDLE is queued, sent, with the server, or answered, exactly once
while the launcher has a tag and else not at all; the Parser waits exactly for an IDLE,
continuation or refusal that is under way; active tasks and arrivals are the commands and
answers under way. `Fits`: in the queue of the Parser DONE stands exactly after each IDLE,
or in front if the Parser idles - with it goes that the launcher idles if and only if the
Parser will when the queue is sent. `Knows`, `InTurn` and `ServerFits` say what of this the
server will find, and `Handed` what is left after SELECT. An assertion that fails ends the
client but not the server, so `IInv` keeps `ServerFits` and `Handed` also then. A lemma
per method of the client (its result is in order if its argument is) and one per line of
the server; `NextIInv` joins them.

**Finding messages.** `SearchIsLowerBound` and `IteratorsInRange` for every list:
the loop invariant `SearchInv` says that everything between the start and `begin`
is unknown or too low, and that the position after the range is the end or a
known UID that is not too low - the second half is what makes it right to search
linearly in the range only. `AllAreFound`, for ascending requests: `ResultInv` adds
that all messages before the next start are below every UID still to come.

**The cache.** `CacheImplementsStore`: for every set of UIDs, every delay and period and
however many handlers, faults and sessions, Cache implements Store. The refinement
maps the content to the tables as they will be once the handler's remaining
statements are executed (`After`), the saved content to the committed rows. The
inductive invariant `Inv` says what makes each step map: rows and statements carry
numbers of handlers that have run, the timers run together, and SQLCache and SQLite
agree about the transaction until a statement fails. A lemma per action shows that
it maps to a step of Store or a stutter. `CacheTypes` and `CrashLosesLittle` follow
from the same invariant, the latter with the age of the oldest write that is not
committed against the period timer. `CachedPartsMatch` adds `Parts`, which looks at two
contents, the one the program goes on with and the one a crash leaves: if its sync state is
of the current UIDVALIDITY, all its parts are, and all files, which no transaction undoes.
It is kept because the sync state is never removed and what is committed is never ahead of
the tables: when finalizeSelect decides to clear, a crash before the end finds a sync state
that makes it clear again.

**Connections.** `OfflineStaysOffline`, for any number of connections and any bounds.
A step either leaves the policy alone, and then no connection that is out comes back
while the policy is offline, or it takes the policy offline and logs out all of them
(`Safe`). The difficult steps are those of the socket and of the dialogs, which reach a
connection after it was logged out: the order of the states (`Rank`, LOGOUT being the
last) and the comparison with it keep such a connection out. The invariant adds only
that each connection has a state.

`CommandsAreInPhase`, `CapsAreOfPhase` and `DecisionsAreExpected` are about what the client
knows of a server whose words are still under way, and rest on `IInv`
(`ConnectionsAreSound`). Its core, `Sound`, says that besides LOGOUT at most one command x
of a connection is under way, and in which one place p: in the Parser's queue, with the
server, in an answer not yet read, in the answer to STARTTLS that the Parser acts on, or in
the Model's queue of responses. The rest is stated by p and x. `Talk`: each queue holds x
exactly if p says so, the gates "starttls" and "compress" are up while x is STARTTLS or
COMPRESS, and the server is in a phase that allows x until it has seen it - the property
itself, extended to commands not yet sent. `Secured`: a TLS handshake comes only after the
answer to STARTTLS, and nothing is read between a handshake and the decision about the
certificates; so no word said in the clear can be taken for one said under TLS. `Fits`, for a
connection that is not out: the state of the task determines x (`Asks`) and in which phases
the server may be (`Serves`), and capabilities, those in use and those that an unread line
brings, are of a phase in which they will be used. Each part needs the others: capabilities
that count as fresh are of the present phase only because no capability line from before
the handshake or the login can still be unread. `OnlyOne`,
`OnlineHasSession` and `DialogFits` relate the connections, the session and the open dialog;
the last is needed for decisions only. The layers: a lemma per method on one connection
(`...Sound`), per action of socket, Parser and server (`...Replaces`), per handler of the
Model and of the task (`...Handled`), and per actor on all connections (`...Preserves`),
where `Steady` says that the other connections stay and none comes back; `IInvStep` joins
them. The bounds on openings, refusals and losses need only be natural numbers.

**Sending.** `AttemptsDeliverOnce` and `SentMeansDelivered`, for every set of accounts and
any number of attempts. *Submission_proofs* begins with one client and every queue. `Orderly`:
the message is in the queue at most once, in front of QUIT once there is a socket, and a
client that waits for the password holds nothing but the QUITs of a cancellation. `Sound`:
an accepted message has left the queue, or the answer that takes it away is the next to be
read. `Honest`: nothing says "sent" before, and only a failure loses a message from the queue;
a 421 breaks it, which is why `SentIsDelivered` excuses that. To it is added what
relates the clients: `Stopped` (what was cancelled has a QUIT that is never sent in front of
everything that is queued later - this keeps the password given to another attempt from
sending it), `Room` (each task that may create an MSA has its attempt), `Assigned` (each UID
SUBMIT has an MSA of its own) and `Claims` (who says "sent", or has started to update the
flags, has delivered). Signals are handled one after another: `HandlingAll` says what any
number of them can do, by a least counterexample.

Only model-checked: in MailboxSync everything but EXISTS and the types with CONDSTORE
and QRESYNC; TaskTree and Threading; and all liveness.
Liveness under fairness, ENABLED and induction over data are out of the prover's
reach.

## Abstractions and what is not modelled

- A failed Q_ASSERT ends the program (as in a debug build); an ImapException ends
  the connection, as Model::responseReceived does.
- Flags are one number per message; a change of flags, an arrival and an EXPUNGE
  each take the next modification sequence. NOMODSEQ, message bodies, unread
  counts and row signals are left out. FETCH 1:0, which the code sends for the flags when
  everything has been expunged since the search, is answered with OK. VANISHED names one UID at a time, VANISHED
  (EARLIER) a set; in whichever order it lists them.
- Without a command in progress, the server sends EXPUNGE only in IDLE, that is
  while the Keep runs with no arrivals pending.
- After a synchronization has failed, another one may start. The debug-only loop
  of finalizeSearch, with a FIXME that it may fail, is left out.
- UIDVALIDITY changes at most once (`Recreate`).
- In MailboxTree cache writes are on disk at once; Cache models their commits.
- Cache: one mailbox; a read is of what was written last, as SQLite promises; renewal
  of parts by age, the upgrade of old schemas and MemoryCache are left out.
- Connection: one task per connection, the commands of other tasks are one command
  ("other"); capabilities are three sets that the decisions tell apart. Bytes,
  compression and processes as sockets are left out.
- Submission: a message is the attempt it was composed for; strings, progress and
  drafts are left out. The flags of the answered message are one task. The server keeps to
  RFC 4467: one GENURLAUTH comes before the OK. Without one GenUrlAuthTask completes and the
  attempt would never go on (`GenUrlAuthTask.cpp:65`).
- Threading: one mailbox; conversations are given by the constant `Conversation`,
  what a search finds by `Matches`. CONTEXT searches are left out.
- TaskTree: one connection, which is not opened again; a task's work is one command,
  GetAnyConnectionTask carries a LIST. Abortable tasks, NOOP polling, UnSelectTask and
  mailboxes that disappear, OfflineConnectionTask are left out. The server's effect of
  a command is at its answer. A Keep that has been passed over by another (`early`) is
  excused in `RightMailbox`: that is the finding.
- KeepMailboxOpen starts after perform(). A task is the one command it sends and
  needs the mailbox; one request timer stands for two, and one task fetches all
  that was requested. Another mailbox is asked for once. NOOP polling, abortable
  tasks, logout, drops and deleted mailboxes are left out. The delays of 6 seconds
  and 29 minutes end only when no zero timeout is left.
- Strings, grammar, views and user interfaces: see "components" in PROJECT.json.

## Plan

Done: MailboxTree, MailboxSync, KeepMailboxOpen, FindMessages, Store and Cache,
Connection, Submission, Threading, TaskTree with their runs; the theorems above. What is
left, in this order:

1. **An abstract mailbox** (a set of messages that grows and shrinks, with a view that
   catches up), refined by MailboxSync through the tree.
2. More proofs: what MailboxSync keeps with CONDSTORE and QRESYNC apart from the findings;
   `RightMailbox` in TaskTree; `TreeConsistent` in Threading.
