---------------------------- MODULE MailboxSync ----------------------------
(***************************************************************************)
(* One mailbox of the client against one IMAP server: the initial and      *)
(* repeated synchronization (ObtainSynchronizedMailboxTask), the updates   *)
(* that arrive while the mailbox stays open (KeepMailboxOpenTask) and the  *)
(* persistent cache that the next synchronization starts from.  The        *)
(* server is external: it keeps to RFC 3501 (no EXPUNGE unless a command   *)
(* that allows it is in progress), and with Condstore or Qresync to        *)
(* RFC 4551/5162.  Responses arrive in the order they were sent; the       *)
(* connection may drop and the program may be restarted at any moment.     *)
(***************************************************************************)
EXTENDS MailboxTree

CONSTANTS
    Condstore,      \* the server and the client use CONDSTORE
    Qresync,        \* ... and QRESYNC
    EarlyChanges,   \* the server may announce changes before it completes SELECT
    MayFail,        \* the server may answer a command with NO
    MaxModSeq,      \* bound: on the number of changes of the mailbox
    MaxSelects,     \* bound: on the number of synchronizations
    MaxNet          \* bound: no change is announced while so many responses wait

ASSUME ExtensionsAssumption ==
    /\ Condstore \in BOOLEAN /\ Qresync \in BOOLEAN /\ MayFail \in BOOLEAN
    /\ EarlyChanges \in BOOLEAN
    /\ Qresync => Condstore
ASSUME BoundsAssumption == MaxModSeq \in Nat /\ MaxSelects \in Nat /\ MaxNet \in Nat

VARIABLES
    srv,        \* the server's mailbox
    selected,   \* the server has the mailbox selected on this connection
    cmds,       \* commands the server has not finished, oldest first
    answered,   \* the data of Head(cmds) has been sent, its tagged line has not
    up,         \* the client has a connection
    net,        \* responses on their way to the client
    task,       \* ObtainSynchronizedMailboxTask, then KeepMailboxOpenTask
    mb,         \* the client's mailbox and cache
    threw,      \* the exception that killed the connection last
    selects     \* synchronizations started so far

vars == <<srv, selected, cmds, answered, up, net, task, mb, threw, selects>>

Syncing == {"SELECTING", "SYNCING_UIDS", "SYNCING_FLAGS", "DONE"}
Exceptions == {"none", "UnknownMessageIndex", "UidMismatch", "ExistsDecreased",
               "SearchMismatch", "WrongChildren", "Unhandled", "Assertion"}

\* No task.  "KEEP" is KeepMailboxOpenTask once it runs.
NoTask == [status |-> "OFF", old |-> NoSync, qresync |-> FALSE, mode |-> "ALL",
           firstUnknown |-> 0, arrivals |-> 0, flagsCmd |-> FALSE]
KeepTask == [NoTask EXCEPT !.status = "KEEP"]

UidsOf(k) == [i \in 1..k |-> i]

\* Any number of messages, nothing cached: the first run of the program.
Init ==
    /\ \E k \in 0..MaxUid :
          srv = [msgs |-> UidsOf(k), flag |-> [u \in Uid |-> IF u <= k THEN 1 ELSE 0],
                 hms |-> 1, next |-> k + 1, val |-> 1]
    /\ selected = FALSE /\ cmds = <<>> /\ answered = FALSE
    /\ up = FALSE /\ net = <<>>
    /\ task = NoTask
    /\ mb = [list |-> <<>>, st |-> "NONE", sync |-> NoSync, disk |-> EmptyDisk]
    /\ threw = "none" /\ selects = 0

----------------------------------------------------------------------------
(* The server. *)

Exists(n) == [t |-> "EXISTS", n |-> n]
Fetch(n, u, withUid, withMod) ==
    [t |-> "FETCH", n |-> n, uid |-> IF withUid THEN u ELSE 0, fl |-> srv.flag[u],
     mod |-> IF withMod THEN srv.flag[u] ELSE 0]

\* FETCH responses for the messages at the positions in order
Fetches(order, withUid, withMod) ==
    [k \in 1..Len(order) |-> Fetch(order[k], srv.msgs[order[k]], withUid, withMod)]

\* n:* names the messages from UID n on, and always the last one (RFC 3501).
FromUid(n) == {i \in 1..Len(srv.msgs) : srv.msgs[i] >= n \/ i = Len(srv.msgs)}
ChangedSince(m) == {i \in 1..Len(srv.msgs) : srv.flag[srv.msgs[i]] > m}

\* SELECT ... (QRESYNC ...) reports what changed while the client was away.
Resync(c) == c.arg > 0 /\ c.val = srv.val /\ c.arg < srv.hms

\* The positions of the messages that the answer to c contains.
Wanted(c) ==
    CASE c.t = "SELECT" -> IF Resync(c) THEN ChangedSince(c.arg) ELSE {}
      [] c.t = "FLAGS" -> ChangedSince(c.arg)
      [] OTHER -> FromUid(c.arg)

SelectData(c, order) ==
    LET hms == IF Condstore THEN srv.hms ELSE 0
        gone == {u \in Uid : u < srv.next /\ \A i \in 1..Len(srv.msgs) : srv.msgs[i] # u}
    IN <<Exists(Len(srv.msgs)),
         [t |-> "CODES", uidNext |-> srv.next, uidVal |-> srv.val, modSeq |-> hms]>>
       \o IF Resync(c) THEN <<[t |-> "EARLIER", uids |-> gone]>> \o Fetches(order, TRUE, TRUE)
          ELSE <<>>

Data(c, order) ==
    CASE c.t = "SELECT" -> SelectData(c, order)
      [] c.t = "SEARCH" -> <<[t |-> "SEARCH",
                              uids |-> [k \in 1..Len(order) |-> srv.msgs[order[k]]]]>>
      [] c.t = "FLAGS" -> Fetches(order, Qresync, c.arg > 0)
      [] OTHER -> Fetches(order, TRUE, FALSE)

SendData ==
    /\ cmds # <<>> /\ ~answered
    /\ answered' = TRUE
    /\ \E order \in Orders(Wanted(Head(cmds))) : net' = net \o Data(Head(cmds), order)
    /\ selected' = (selected \/ Head(cmds).t = "SELECT")
    /\ UNCHANGED <<srv, cmds, up, task, mb, threw, selects>>

Tagged(kind) == [t |-> kind, cmd |-> Head(cmds).t, tag |-> Head(cmds).tag]

SendTagged ==
    /\ cmds # <<>>
    /\ \/ answered /\ net' = Append(net, Tagged("OK"))
       \/ MayFail /\ ~answered /\ Head(cmds).t # "SELECT" /\ net' = Append(net, Tagged("NO"))
    /\ cmds' = Tail(cmds) /\ answered' = FALSE
    /\ UNCHANGED <<srv, selected, up, task, mb, threw, selects>>

\* Changes, by another client or a delivery; announced at once when selected.
Announce(r) == net' = IF selected THEN Append(net, r) ELSE net
MayChange ==
    /\ srv.hms < MaxModSeq /\ Len(net) < MaxNet
    /\ cmds # <<>> /\ ~EarlyChanges => Head(cmds).t # "SELECT"

Arrive ==
    /\ MayChange /\ srv.next <= MaxUid
    /\ srv' = [srv EXCEPT !.msgs = Append(@, srv.next), !.next = @ + 1, !.hms = @ + 1,
                          !.flag[srv.next] = srv.hms + 1]
    /\ Announce(Exists(Len(srv.msgs) + 1))
    /\ UNCHANGED <<selected, cmds, answered, up, task, mb, threw, selects>>

\* EXPUNGE is allowed during UID commands, SELECT and IDLE, never during FETCH
ExpungeAllowed ==
    IF cmds = <<>> THEN task.status = "KEEP" /\ task.arrivals = 0 ELSE Head(cmds).t # "FLAGS"

ServerExpunge(i) ==
    /\ MayChange /\ (selected => ExpungeAllowed)
    /\ srv' = [srv EXCEPT !.msgs = RemoveAt(@, i), !.hms = @ + 1]
    /\ Announce(IF Qresync THEN [t |-> "VANISHED", uid |-> srv.msgs[i]]
                ELSE [t |-> "EXPUNGE", n |-> i])
    /\ UNCHANGED <<selected, cmds, answered, up, task, mb, threw, selects>>

ServerFlag(i) ==
    /\ MayChange
    /\ srv' = [srv EXCEPT !.flag[srv.msgs[i]] = srv.hms + 1, !.hms = @ + 1]
    /\ Announce([t |-> "FETCH", n |-> i, uid |-> IF Qresync THEN srv.msgs[i] ELSE 0,
                 fl |-> srv.hms + 1, mod |-> IF Condstore THEN srv.hms + 1 ELSE 0])
    /\ UNCHANGED <<selected, cmds, answered, up, task, mb, threw, selects>>

ServerChange == Arrive \/ \E i \in 1..Len(srv.msgs) : ServerExpunge(i) \/ ServerFlag(i)

\* The mailbox is deleted and created again while no one has it open.
Recreate ==
    /\ MayChange /\ ~up /\ srv.val = 1
    /\ srv' = [msgs |-> <<1>>, flag |-> [u \in Uid |-> IF u = 1 THEN srv.hms + 1 ELSE 0],
               hms |-> srv.hms + 1, next |-> 2, val |-> 2]
    /\ UNCHANGED <<selected, cmds, answered, up, net, task, mb, threw, selects>>

----------------------------------------------------------------------------
(* Losing the connection. *)

Disconnected ==
    /\ up' = FALSE /\ selected' = FALSE /\ cmds' = <<>> /\ answered' = FALSE /\ net' = <<>>
    /\ task' = NoTask

\* Model::killParser: every task on the connection dies; list and cache stay.
Drop == up /\ Disconnected /\ UNCHANGED <<srv, mb, threw, selects>>

\* The program ends and starts again: only the cache is left.
Stop ==
    /\ Disconnected
    /\ mb' = [list |-> <<>>, st |-> "NONE", sync |-> NoSync, disk |-> mb.disk]
    /\ UNCHANGED <<srv, selects>>

Restart == mb.st # "NONE" /\ Stop /\ UNCHANGED threw

\* A Q_ASSERT that fails ends the program.
Abort == threw' = "Assertion" /\ Stop

\* Model::responseReceived catches an ImapException and kills the connection.
Throw(e) == threw' = e /\ Disconnected /\ UNCHANGED <<srv, mb, selects>>

----------------------------------------------------------------------------
(* ObtainSynchronizedMailboxTask: its steps, each ending a handler.  m is  *)
(* the mailbox and tk the task so far.                                     *)

Command(t, arg) == [t |-> t, arg |-> arg, val |-> 0, tag |-> selects]
Issue(c) == cmds' = Append(cmds, c)

\* save, CONN_STATE_SELECTED and _completed(): KeepMailboxOpenTask takes over
Complete(m) ==
    /\ mb' = SaveSyncStateAndUids(m)
    /\ task' = KeepTask
    /\ UNCHANGED cmds

\* _failed(): the tasks that depend on this one, Keep among them, die with it
Failed(m) == mb' = m /\ task' = NoTask /\ UNCHANGED cmds

SyncUids(m, tk, mode, from, firstUnknown) ==
    /\ mb' = m
    /\ task' = [tk EXCEPT !.status = "SYNCING_UIDS", !.mode = mode,
                          !.firstUnknown = firstUnknown]
    /\ Issue(Command("SEARCH", from))

FullMboxSync(m, tk) ==
    LET fresh == [m EXCEPT !.list = Unknown(m.sync.exists)]
    IN IF m.sync.exists > 0 THEN SyncUids(fresh, tk, "ALL", 0, 0) ELSE Complete(fresh)

\* HIGHESTMODSEQ can tell what has changed since old was saved.
CanUseModSeqAnyway(m, old) == old.uidVal = m.sync.uidVal    \* mutant
CanUseModSeq(m, old) ==
    /\ Condstore /\ old.modSeq > 0
    /\ IsUsableForCondstore(m.sync) /\ old.uidVal = m.sync.uidVal

\* A mailbox that CONDSTORE says has not changed since the cache was saved.
NothingChanged(m, old) ==
    /\ old.modSeq = m.sync.modSeq
    /\ old.exists <= m.sync.exists
    /\ old.uidNext = m.sync.uidNext

\* The method returns at once only when no UID FETCH is pending: otherwise it
\* asks for all flags although its status is DONE.
SyncFlags(m, tk) ==
    LET usable == CanUseModSeq(m, tk.old)
        same == usable /\ NothingChanged(m, tk.old)
        since == IF usable /\ tk.old.modSeq < m.sync.modSeq THEN tk.old.modSeq ELSE 0
    IN IF same /\ tk.arrivals = 0 THEN Complete(m)
       ELSE /\ mb' = m
            /\ task' = [tk EXCEPT !.status = IF same THEN "DONE" ELSE "SYNCING_FLAGS",
                                  !.flagsCmd = TRUE]
            /\ Issue(Command("FLAGS", since))

\* (Its debug-only loop over the UIDs, with a FIXME saying that it may fail, is
\* left out.)
SyncNoNewNoDeletions(m, tk) ==
    LET filled == IF m.list = <<>>
                  THEN [m EXCEPT !.list = [i \in 1..Len(m.disk.uids) |->
                                             [uid |-> m.disk.uids[i], fl |-> 0]]]
                  ELSE m
    IN SyncFlags([filled EXCEPT !.st = "DONE"], tk)

\* The branch of finalizeSelect that relies on what QRESYNC reported.
FinalizeQresync(m, tk) ==
    LET distrust == [ClearAllMessages(m) EXCEPT !.sync.modSeq = 0]
        without == [tk EXCEPT !.qresync = FALSE]
        done == [m EXCEPT !.st = "DONE"]
        unknown == \E i \in 1..Len(m.list) : m.list[i].uid = 0
        wrong == \/ tk.old.modSeq > m.sync.modSeq
                 \/ /\ tk.old.modSeq = m.sync.modSeq
                    /\ tk.old.exists # m.sync.exists \/ tk.old.uidNext # m.sync.uidNext
                 \/ Len(m.list) # m.sync.exists
    IN IF wrong THEN FullMboxSync(distrust, without)
       ELSE IF tk.old.modSeq < m.sync.modSeq /\ tk.old.uidNext < m.sync.uidNext /\ unknown
       THEN /\ mb' = done
            /\ task' = [tk EXCEPT !.status = "DONE", !.arrivals = @ + 1]
            /\ Issue(Command("ARRIVALS", IF tk.old.uidNext > 1 THEN tk.old.uidNext ELSE 1))
       ELSE Complete(done)

\* finalizeSelect() compares what SELECT said with the cache.
SelectThrows(m) ==
    /\ Len(m.disk.uids) = m.disk.sync.exists
    /\ IsUsableForSyncing(m.sync) /\ m.sync.uidVal = m.disk.sync.uidVal
    /\ ~(task.qresync /\ IsUsableForCondstore(m.disk.sync) /\ IsUsableForCondstore(m.sync))
    /\ m.sync.exists = m.disk.sync.exists /\ m.sync.exists > 0
    /\ m.sync.uidNext = m.disk.sync.uidNext
    /\ Len(m.list) \notin {0, m.sync.exists}

NoArrivals(m, old) == m.sync.uidNext = old.uidNext
OnlyArrivals(m, old) == m.sync.uidNext - old.uidNext = m.sync.exists - old.exists

FinalizeSelect(m) ==
    LET old == m.disk.sync
        tk == [task EXCEPT !.old = old]
    IN IF Len(m.disk.uids) # old.exists
       THEN FullMboxSync(m, [tk EXCEPT !.old.modSeq = 0])
       ELSE IF ~(IsUsableForSyncing(m.sync) /\ IsUsableForSyncing(old)
                 /\ m.sync.uidVal = old.uidVal)
       THEN FullMboxSync(ClearAllMessages(m), tk)
       ELSE IF tk.qresync /\ IsUsableForCondstore(old) /\ IsUsableForCondstore(m.sync)
       THEN FinalizeQresync(m, tk)
       ELSE IF m.sync.exists = 0 THEN FullMboxSync(m, tk)
       ELSE IF NoArrivals(m, old)
       THEN IF m.sync.exists = old.exists THEN SyncNoNewNoDeletions(m, tk)
            ELSE SyncUids(m, tk, "ALL", 0, 0)
       ELSE IF m.sync.uidNext < old.uidNext THEN FullMboxSync(ClearAllMessages(m), tk)
       ELSE IF OnlyArrivals(m, old)
       THEN SyncUids(m, tk, "NEW", old.uidNext, old.exists)
       ELSE SyncUids(m, tk, "ALL", 0, 0)

\* finalizeSearch(): the SEARCH response must have as many UIDs as expected.
Expected == mb.sync.exists - (IF task.mode = "NEW" THEN task.firstUnknown ELSE 0)
SearchThrowsTooFew(uids) == Len(uids) < Expected    \* mutant
SearchThrows(uids) == Len(uids) # Expected

FinalizeSearch(uids) ==
    /\ mb' = UpdateHighestKnownUid(ApplyUids(mb, task.firstUnknown, uids))
    /\ task' = [task EXCEPT !.status = "SYNCING_FLAGS"]
    /\ UNCHANGED cmds

\* Keep lets go of the connection only when no UID FETCH of its own is pending.
Free == task.status = "OFF" \/ (task.status = "KEEP" /\ task.arrivals = 0)

\* perform(): SELECT, after the list was filled from the cache.
Perform ==
    /\ Free
    /\ selects < MaxSelects /\ selects' = selects + 1
    /\ LET m == Populate(mb)
           qresync == Qresync /\ IsUsableForCondstore(m.disk.sync)
       IN /\ mb' = [m EXCEPT !.st = "LOADING", !.sync = NoSync]
          /\ task' = [NoTask EXCEPT !.status = "SELECTING", !.qresync = qresync]
          /\ Issue([t |-> "SELECT", arg |-> IF qresync THEN m.disk.sync.modSeq ELSE 0,
                    val |-> m.disk.sync.uidVal, tag |-> selects + 1])
    /\ up' = TRUE
    /\ UNCHANGED <<srv, selected, answered, net, threw>>

----------------------------------------------------------------------------
(* The responses.  Model::responseReceived offers each to the task.        *)

Next1(t) == up /\ net # <<>> /\ Head(net).t = t
Resp == Head(net)
\* What a handled response leaves alone
Handled == net' = Tail(net) /\ UNCHANGED <<srv, selected, answered, up, threw, selects>>
Update(m) == mb' = m /\ UNCHANGED <<task, cmds>>

AskForArrivals(m, from) ==
    /\ mb' = m
    /\ task' = [task EXCEPT !.arrivals = @ + 1]
    /\ Issue(Command("ARRIVALS", IF from > 1 THEN from ELSE 1))

\* Nobody wants it: no task is there, or the command is not one of this task's.
Unhandled ==
    /\ up /\ net # <<>>
    /\ \/ task.status = "OFF" /\ Resp.t # "CODES"
       \/ /\ task.status # "OFF" /\ Resp.t \in {"OK", "NO"}
          /\ Resp.tag # selects \/ (Resp.cmd = "ARRIVALS" /\ task.arrivals = 0)
    /\ Throw("Unhandled")

\* UIDNEXT, UIDVALIDITY, HIGHESTMODSEQ (or NOMODSEQ) inside untagged OKs
HandleCodes ==
    /\ Next1("CODES") /\ Handled
    /\ Update(IF task.status = "OFF" THEN mb
              ELSE [mb EXCEPT !.sync.uidNext = Resp.uidNext, !.sync.uidVal = Resp.uidVal,
                              !.sync.modSeq = Resp.modSeq])

ObtainExists ==
    /\ Next1("EXISTS")
    /\ \/ /\ task.status = "SELECTING" /\ Handled
          /\ Update([mb EXCEPT !.sync.exists = Resp.n,
                               !.list = IF task.qresync THEN @ \o Unknown(Resp.n - Len(@))
                                        ELSE @])
       \/ /\ task.status = "SYNCING_UIDS"
          /\ IF ExistsThrows(mb, Resp.n) THEN Throw("ExistsDecreased")
             ELSE Handled /\ Update(UpdateHighestKnownUid(HandleExists(mb, Resp.n)))
       \/ /\ task.status \in {"SYNCING_FLAGS", "DONE"}
          /\ IF Resp.n = Len(mb.list) THEN Handled /\ Update(mb)
             ELSE IF ExistsThrows(mb, Resp.n) THEN Throw("ExistsDecreased")
             ELSE LET m == UpdateHighestKnownUid(HandleExists(mb, Resp.n))
                  IN Handled /\ AskForArrivals(m, m.sync.uidNext)

KeepExists ==
    /\ Next1("EXISTS") /\ task.status = "KEEP"
    /\ IF Resp.n = Len(mb.list) THEN Handled /\ Update(mb)
       ELSE IF ExistsThrows(mb, Resp.n) THEN Throw("ExistsDecreased")
       ELSE LET m == HandleExists(mb, Resp.n)
            IN Handled /\ AskForArrivals(m, UpdateHighestKnownUid(m).sync.uidNext)

OneLessWraps(n) == n - 1    \* mutant
OneLess(n) == IF n > 0 THEN n - 1 ELSE 0

\* The UID of message n is known: it is not among those asked for.
IsKnownUnlessDone(n) == task.status = "SYNCING_FLAGS" \/ n <= task.firstUnknown    \* mutant
IsKnown(n) == task.status \in {"SYNCING_FLAGS", "DONE"} \/ n <= task.firstUnknown

\* EXISTS goes down first; then only messages whose UID is known leave the list
ObtainExpunge ==
    LET m == [mb EXCEPT !.sync.exists = OneLess(@)]
        known == IsKnown(Resp.n)
    IN /\ Next1("EXPUNGE") /\ task.status \in Syncing
       /\ IF known /\ ExpungeThrows(mb, Resp.n) THEN Throw("UnknownMessageIndex")
          ELSE /\ Handled /\ UNCHANGED cmds
               /\ mb' = CASE ~known -> m
                          [] task.status = "DONE" ->
                               SaveSyncStateAndUids(HandleExpunge(m, Resp.n))
                          [] OTHER -> HandleExpunge(m, Resp.n)
               /\ task' = IF known /\ task.status \in {"SELECTING", "SYNCING_UIDS"}
                          THEN [task EXCEPT !.firstUnknown = @ - 1] ELSE task

SaveLater(m) == [m EXCEPT !.st = "LOADING"]    \* mutant
SaveSyncStateNowOrLater(m) ==
    IF m.st = "DONE" THEN SaveSyncStateAndUids(m) ELSE [m EXCEPT !.st = "LOADING"]

KeepExpunge ==
    /\ Next1("EXPUNGE") /\ task.status = "KEEP"
    /\ IF ExpungeThrows(mb, Resp.n) THEN Throw("UnknownMessageIndex")
       ELSE Handled /\ Update(SaveSyncStateNowOrLater(
                [HandleExpunge(mb, Resp.n) EXCEPT !.sync.exists = @ - 1]))

Vanished ==
    /\ Next1("VANISHED") /\ task.status # "OFF" /\ Handled
    /\ LET m == HandleVanished(mb, Resp.uid)
       IN Update(IF task.status = "KEEP" THEN SaveSyncStateNowOrLater(m) ELSE m)

VanishedEarlier ==
    /\ Next1("EARLIER") /\ task.status \in Syncing /\ Handled
    /\ \E order \in Orders(Surviving(mb, Resp.uids)) :
          Update(HandleVanishedEarlier(mb, Resp.uids, order))

\* Obtain also raises UIDNEXT past a changed message; Keep does not.
HandleFetch ==
    /\ Next1("FETCH") /\ task.status # "OFF"
    /\ IF FetchThrows(mb, Resp)
       THEN Throw(IF Resp.n \in 1..Len(mb.list) THEN "UidMismatch" ELSE "UnknownMessageIndex")
       ELSE LET m == HandleFetchResponse(mb, Resp)
                uid == m.list[Resp.n].uid
            IN /\ Handled
               /\ Update(IF /\ task.status \in Syncing /\ MessageChanged(mb, Resp)
                            /\ m.sync.uidNext <= uid
                         THEN [m EXCEPT !.sync.uidNext = uid + 1] ELSE m)

HandleSearch ==
    /\ Next1("SEARCH") /\ task.status = "SYNCING_UIDS"
    /\ IF SearchThrows(Resp.uids) THEN Throw("SearchMismatch")
       ELSE IF task.firstUnknown > Len(mb.list) THEN Abort
       ELSE Handled /\ FinalizeSearch(Resp.uids)

Ok(c) == Next1("OK") /\ Resp.cmd = c /\ Resp.tag = selects /\ task.status # "OFF"

SelectOk ==
    /\ Ok("SELECT")
    /\ IF task.status # "SELECTING" THEN Abort
       ELSE IF SelectThrows(mb) THEN Throw("WrongChildren")
       ELSE Handled /\ FinalizeSelect(mb)

SearchOk ==
    /\ Ok("SEARCH")
    /\ IF task.status # "SYNCING_FLAGS" THEN Abort ELSE Handled /\ SyncFlags(mb, task)

FlagsOk ==
    /\ Ok("FLAGS")
    /\ IF task.status # "SYNCING_FLAGS" THEN Abort
       ELSE IF task.arrivals = 0 THEN Handled /\ Complete(mb)
       ELSE /\ Handled
            /\ task' = [task EXCEPT !.status = "DONE", !.flagsCmd = FALSE]
            /\ UNCHANGED <<mb, cmds>>

ArrivalsForgotten == task    \* mutant
ArrivalsDone == [task EXCEPT !.arrivals = @ - 1]

ObtainArrivalsOk ==
    /\ Ok("ARRIVALS") /\ task.status \in Syncing /\ task.arrivals > 0 /\ Handled
    /\ IF task.arrivals = 1 /\ task.status = "DONE" /\ ~task.flagsCmd THEN Complete(mb)
       ELSE task' = ArrivalsDone /\ UNCHANGED <<mb, cmds>>

ObtainNo ==
    /\ Next1("NO") /\ Resp.tag = selects /\ task.status \in Syncing /\ Handled
    /\ Resp.cmd = "ARRIVALS" => task.arrivals > 0
    /\ Failed(mb)

\* Keep saves once no UID FETCH is pending, whether the last one was OK or NO
KeepArrivalsFinished ==
    /\ up /\ net # <<>> /\ Resp.t \in {"OK", "NO"} /\ Resp.cmd = "ARRIVALS"
    /\ Resp.tag = selects /\ task.status = "KEEP" /\ task.arrivals > 0 /\ Handled
    /\ task' = ArrivalsDone
    /\ mb' = IF task.arrivals = 1 THEN SaveSyncStateAndUids(mb) ELSE mb
    /\ UNCHANGED cmds

----------------------------------------------------------------------------
HandleResponse ==
    \/ HandleCodes \/ ObtainExists \/ KeepExists \/ ObtainExpunge \/ KeepExpunge
    \/ Vanished \/ VanishedEarlier \/ HandleFetch \/ HandleSearch
    \/ SelectOk \/ SearchOk \/ FlagsOk \/ ObtainArrivalsOk \/ ObtainNo
    \/ KeepArrivalsFinished \/ Unhandled

Next ==
    \/ ServerChange \/ Recreate \/ SendData \/ SendTagged
    \/ Perform \/ HandleResponse
    \/ Drop \/ Restart

Spec == Init /\ [][Next]_vars

\* The server answers, and the event loop delivers what arrived; nothing forces
\* a change, a synchronization, a disconnection or a restart.
Fairness == WF_vars(SendData) /\ WF_vars(SendTagged) /\ WF_vars(HandleResponse)
FairSpec == Spec /\ Fairness

----------------------------------------------------------------------------
(* Types. *)

CommandKind == {"SELECT", "SEARCH", "FLAGS", "ARRIVALS"}
Commands == [t: CommandKind, arg: Nat, val: Nat, tag: Nat]
Task == [status: Syncing \cup {"OFF", "KEEP"}, old: SyncState, qresync: BOOLEAN,
         mode: {"ALL", "NEW"}, firstUnknown: Nat, arrivals: Nat, flagsCmd: BOOLEAN]
Response ==
    [t: {"EXISTS"}, n: Nat] \cup [t: {"EXPUNGE"}, n: Nat \ {0}]
    \cup [t: {"CODES"}, uidNext: Nat, uidVal: Nat, modSeq: Nat]
    \cup [t: {"EARLIER"}, uids: SUBSET Uid] \cup [t: {"VANISHED"}, uid: Uid]
    \cup [t: {"FETCH"}, n: Nat, uid: 0..MaxUid, fl: Nat, mod: Nat]
    \cup [t: {"SEARCH"}, uids: Seq(Uid)]
    \cup [t: {"OK", "NO"}, cmd: CommandKind, tag: Nat]
Server == [msgs: Seq(Uid), flag: [Uid -> Nat], hms: Nat, next: 1..(MaxUid + 1), val: 1..2]

\* Types of the whole state; UIDs on the wire and in the list stay in bounds.
TypeOK ==
    /\ srv \in Server
    /\ selected \in BOOLEAN /\ answered \in BOOLEAN /\ up \in BOOLEAN
    /\ cmds \in Seq(Commands)
    /\ net \in Seq(Response)
    /\ task \in Task
    /\ mb \in Mailbox
    /\ threw \in Exceptions
    /\ selects \in 0..MaxSelects

----------------------------------------------------------------------------
(* Safety. *)

\* Once the UIDs are known, EXISTS and the number of messages in the tree are
\* the same number, whichever of EXISTS, EXPUNGE, VANISHED and the SEARCH result
\* came in which order: finalizeSearch, handleExists, handleExpunge and
\* handleVanished each keep the two in step by their own arithmetic.
CountsAgree ==
    task.status \in {"SYNCING_FLAGS", "DONE", "KEEP"} => mb.sync.exists = Len(mb.list)

\* CountsAgree with what makes it inductive: a full UID SEARCH starts at the
\* first message, however many EXPUNGEs arrive before its result.
SyncInv ==
    /\ CountsAgree
    /\ task.mode = "ALL" => task.firstUnknown = 0

\* Everything sent has been handled and nothing is pending.
Quiet == up /\ task.status = "KEEP" /\ task.arrivals = 0 /\ net = <<>> /\ cmds = <<>>

\* When a mailbox is open and everything has been handled, the tree holds the
\* server's messages in the server's order, each with the flags that it has there,
\* whatever happened while the client was away, during the synchronization and since.
ViewIsServers ==
    Quiet => /\ Uids(mb.list) = srv.msgs
             /\ \A i \in 1..Len(mb.list) : mb.list[i].fl = srv.flag[mb.list[i].uid]

\* ... or, when the server has refused the client's questions, a part of it: as
\* many messages, and those whose UID is known are the server's at their place.
KnownAreServers ==
    Quiet => /\ Len(mb.list) = Len(srv.msgs)
             /\ \A i \in 1..Len(mb.list) : mb.list[i].uid \in {0, srv.msgs[i]}

\* ... and a restart would find exactly that in the cache: Keep's UID FETCH that
\* ends last, the EXPUNGE handlers and the end of Obtain each save in time.
CacheIsServers ==
    Quiet => /\ mb.disk.uids = srv.msgs
             /\ mb.disk.sync.exists = Len(srv.msgs) /\ mb.disk.sync.uidVal = srv.val

Present(u) == \E i \in 1..Len(srv.msgs) : srv.msgs[i] = u
InList(list, u) == \E i \in 1..Len(list) : list[i].uid = u
Rebuilt == \A i \in 1..Len(mb'.list) : mb'.list[i].uid = 0

\* A message whose UID is known leaves the tree only when the server no longer
\* has it (or all leave at once, in fullMboxSync or by a restart): a sequence
\* number in an EXPUNGE is never applied to the wrong list.
OnlyGoneLeave ==
    [][mb.sync.uidVal = srv.val /\ ~Rebuilt =>
          \A u \in Uid : InList(mb.list, u) /\ ~InList(mb'.list, u) => ~Present(u)]_vars

Ascending(q) == \A i, j \in 1..Len(q) : i < j /\ q[i] # 0 /\ q[j] # 0 => q[i] < q[j]

\* The known UIDs in the tree are strictly ascending, with any number of unknown
\* ones between them: what the binary search of findMessagesByUids and applyUids
\* rely on.
ListAscending == Ascending(Uids(mb.list))

\* The cached UIDNEXT, guessed from FETCH, EXISTS and VANISHED, is above every
\* cached UID and never above the server's: a client that asks for UIDNEXT:*
\* at the next synchronization misses nothing.
UidNextAbove ==
    mb.disk.sync.uidVal # 0 /\ mb.disk.sync.uidVal = srv.val =>
        /\ mb.disk.sync.uidNext <= srv.next
        /\ \A i \in 1..Len(mb.disk.uids) : mb.disk.uids[i] < mb.disk.sync.uidNext

\* A response finds what it is for.  The UID that a FETCH reports is never that of another
\* message (the MailboxException of handleFetchResponse); each tagged OK finds the status
\* that the untagged responses before it left (the Q_ASSERTs of ObtainSynchronizedMailboxTask,
\* on its status and on the list in applyUids); and each finds a task that wants it
\* ("extremely weird" otherwise, in the handlers of the Model).
ResponsesFit == threw \notin {"UidMismatch", "Assertion", "Unhandled"}

----------------------------------------------------------------------------
(* Liveness. *)

\* A synchronization comes to an end: the mailbox is open or the task is dead.  And so
\* does the search for the UIDs of new arrivals: they are found out, or asking for them failed.
SyncEnds ==
    /\ task.status \in Syncing ~> task.status \in {"KEEP", "OFF"}
    /\ task.arrivals > 0 ~> task.arrivals = 0
=============================================================================
