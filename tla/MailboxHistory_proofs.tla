----------------------- MODULE MailboxHistory_proofs -----------------------
(***************************************************************************)
(* What MailboxSync promises about the mailbox of a server that has no     *)
(* extensions and refuses nothing, for every value of the constants.  The  *)
(* inductive invariants are, with KeepsUp of MailboxSync_proofs: Pending   *)
(* (every tagged line is waited for), LearnsUids (every message that the   *)
(* client was told of gets its UID, and is saved) and LearnsFlags (and the *)
(* flags that it has on the server).                                       *)
(***************************************************************************)
EXTENDS MailboxSync_proofs

----------------------------------------------------------------------------
(* The tagged lines. *)

\* What finalizeSelect goes on with.
Proceeds ==
    /\ task'.arrivals = 0
    /\ \/ Issues("SEARCH") /\ task'.status = "SYNCING_UIDS" /\ task'.flagsCmd = FALSE
       \/ Issues("FLAGS") /\ task'.status = "SYNCING_FLAGS" /\ task'.flagsCmd = TRUE
       \/ Issues("NONE") /\ task'.status = "KEEP" /\ task'.flagsCmd = FALSE

LEMMA CompleteProceeds ==
    ASSUME NEW m, Complete(m)
    PROVE  Proceeds
BY DEF Complete, KeepTask, NoTask, Proceeds, Issues

LEMMA CommandType ==
    ASSUME TypeOK, NEW t \in CommandKind, NEW arg \in Nat
    PROVE  Command(t, arg) \in Commands /\ Command(t, arg).t = t /\ Command(t, arg).tag = selects
<1>1. selects \in Nat
  BY BoundsAssumption DEF TypeOK
<1> QED
  BY <1>1 DEF Command, Commands

LEMMA SyncUidsProceeds ==
    ASSUME TypeOK, NEW m, NEW tk \in Task, tk.arrivals = 0, tk.flagsCmd = FALSE, NEW mode,
           NEW from \in Nat, NEW first, SyncUids(m, tk, mode, from, first)
    PROVE  Proceeds
<1>1. task'.status = "SYNCING_UIDS" /\ task'.arrivals = 0 /\ task'.flagsCmd = FALSE
  BY DEF SyncUids, Task
<1>2. cmds' = Append(cmds, Command("SEARCH", from))
  BY DEF SyncUids, Issue
<1>3. "SEARCH" \in CommandKind
  BY DEF CommandKind
<1>4. Issues("SEARCH")
  BY <1>2, <1>3, CommandType DEF Issues
<1> QED
  BY <1>1, <1>4 DEF Proceeds

LEMMA FullProceeds ==
    ASSUME TypeOK, NEW m, NEW tk \in Task, tk.arrivals = 0, tk.flagsCmd = FALSE,
           FullMboxSync(m, tk)
    PROVE  Proceeds
<1>1. PICK fresh : fresh = [m EXCEPT !.list = Unknown(m.sync.exists)]
  OBVIOUS
<1>2. SyncUids(fresh, tk, "ALL", 0, 0) \/ Complete(fresh)
  BY <1>1 DEF FullMboxSync
<1>3. PICK mode : mode = "ALL"
  OBVIOUS
<1>3a. PICK from \in Nat : from = 0
  OBVIOUS
<1>3b. PICK first : first = 0
  OBVIOUS
<1>4. SyncUids(fresh, tk, mode, from, first) => Proceeds
  BY SyncUidsProceeds
<1>5. Complete(fresh) => Proceeds
  BY CompleteProceeds
<1> QED
  BY <1>2, <1>3, <1>3a, <1>3b, <1>4, <1>5

LEMMA SyncFlagsProceeds ==
    ASSUME Plain, TypeOK, NEW m, NEW tk \in Task, SyncFlags(m, tk)
    PROVE  /\ Issues("FLAGS") /\ task'.status = "SYNCING_FLAGS" /\ task'.flagsCmd = TRUE
           /\ task'.arrivals = tk.arrivals
<1>1. CanUseModSeq(m, tk.old) = FALSE
  BY ExtensionsAssumption DEF Plain, CanUseModSeq
<1>2. /\ task' = [tk EXCEPT !.status = "SYNCING_FLAGS", !.flagsCmd = TRUE]
      /\ Issue(Command("FLAGS", 0))
  BY <1>1 DEF SyncFlags
<1>3. task'.status = "SYNCING_FLAGS" /\ task'.flagsCmd = TRUE /\ task'.arrivals = tk.arrivals
  BY <1>2 DEF Task
<1>4. "FLAGS" \in CommandKind /\ 0 \in Nat
  BY DEF CommandKind
<1>5. Issues("FLAGS")
  BY <1>2, <1>4, CommandType DEF Issues, Issue
<1> QED
  BY <1>3, <1>5

LEMMA FinalizeSelectProceeds ==
    ASSUME Plain, TypeOK, NEW h, NEW tk \in Task, tk.arrivals = 0, tk.flagsCmd = FALSE,
           Decides(tk, h)
    PROVE  Proceeds
<1>1. mb \in Mailbox /\ mb.disk.sync.uidNext \in Nat
  <2>1. mb \in Mailbox /\ mb.disk.sync \in SyncState
    BY MailboxFields DEF TypeOK
  <2> QED
    BY <2>1 DEF SyncState
<1>2. CASE FullMboxSync(mb, tk) \/ FullMboxSync(ClearAllMessages(mb), tk)
  BY <1>2, FullProceeds
<1>3. ASSUME NEW mode, NEW from \in Nat, NEW first, SyncUids(mb, tk, mode, from, first)
      PROVE  Proceeds
  BY <1>3, SyncUidsProceeds
<1>4. CASE SyncUids(mb, tk, "ALL", 0, 0)
  <2>1. PICK mode : mode = "ALL"
    OBVIOUS
  <2>2. PICK zero \in Nat : zero = 0
    OBVIOUS
  <2>3. SyncUids(mb, tk, mode, zero, zero)
    BY <1>4, <2>1, <2>2
  <2> QED
    BY <1>3, <2>3
<1>5. CASE SyncUids(mb, tk, "NEW", mb.disk.sync.uidNext, mb.disk.sync.exists)
  <2>1. PICK mode : mode = "NEW"
    OBVIOUS
  <2>2. SyncUids(mb, tk, mode, mb.disk.sync.uidNext, mb.disk.sync.exists)
    BY <1>5, <2>1
  <2> QED
    BY <1>1, <1>3, <2>2
<1>6. CASE SyncNoNewNoDeletions(mb, tk)
  <2>1. PICK m : SyncFlags(m, tk)
    BY <1>6 DEF SyncNoNewNoDeletions
  <2> QED
    BY <2>1, SyncFlagsProceeds DEF Proceeds
<1> QED
  BY <1>2, <1>4, <1>5, <1>6 DEF Decides

\* The line of a command of kind y, after which one of kind x is waited for.
LEMMA LineBalanced ==
    ASSUME NEW x, NEW y \in CommandKind, Head(net).t = "OK", Head(net).cmd = y,
           \A k \in CommandKind : Awaited(k)' + (IF y = k THEN 1 ELSE 0)
                                  = Awaited(k) + (IF x = k THEN 1 ELSE 0)
    PROVE  Balanced(x)
<1>1. LineKind(Head(net)) = y
  BY DEF LineKind
<1> QED
  BY <1>1 DEF Balanced

LEMMA SelectOkPending ==
    ASSUME Plain, TypeOK, TypeOK', NEW hs, FollowsServer(hs), Pending, SelectOk
    PROVE  Pending'
<1>1. /\ net # <<>> /\ Head(net).t = "OK" /\ Head(net).cmd = "SELECT" /\ IsSelect(Head(net))
  BY DEF SelectOk, Ok, Next1, Resp, IsSelect
<1>2. CASE Disconnected
  BY <1>2, LostPending
<1>3. CASE task.status = "SELECTING" /\ Handled /\ FinalizeSelect(mb)
  <2>1. /\ Len(net) >= 1 /\ Len(net) \in Nat /\ Head(net) = net[1] /\ Stream(hs)
        /\ Client(mb, task, srv.val, hs[1])
    BY <1>1, <1>3, Remaining
  <2>2. cmds = <<>>
    <3>1. 1 \in 1..Len(net) /\ IsSelect(net[1])
      BY <1>1, <2>1
    <3> QED
      BY <2>1, <3>1 DEF Stream, SelectIsLast
  <2>3. /\ task.arrivals \in Nat /\ task.flagsCmd \in BOOLEAN
        /\ task.flagsCmd => task.status = "SYNCING_FLAGS"
        /\ task.arrivals > 0 => task.status \in UidsAreKnown
    BY <1>1, AtWork
  <2>4. task.arrivals = 0 /\ task.flagsCmd = FALSE /\ ~task.qresync
    BY <1>3, <2>1, <2>3 DEF UidsAreKnown, Client
  <2>5. Proceeds
    <3>1. \E tk \in Task : /\ tk.arrivals = task.arrivals /\ tk.flagsCmd = task.flagsCmd
                          /\ Decides(tk, hs[1])
      BY <1>3, SelectOkDecides
    <3> QED
      BY <2>4, <3>1, FinalizeSelectProceeds
  <2>6. PICK y \in CommandKind : y = "SELECT"
    BY DEF CommandKind
  <2>7. ASSUME NEW x, x = "SEARCH", Issues(x), task'.status = "SYNCING_UIDS",
               task'.flagsCmd = FALSE
        PROVE  Pending'
    <3>1. \A k \in CommandKind : Awaited(k)' + (IF y = k THEN 1 ELSE 0)
                                 = Awaited(k) + (IF x = k THEN 1 ELSE 0)
      BY <1>3, <2>4, <2>5, <2>6, <2>7 DEF Proceeds, Awaited, AwaitsSearch, CommandKind
    <3>2. Balanced(x)
      BY <1>1, <2>6, <3>1, LineBalanced
    <3>3. Waits
      BY <2>5, <2>7 DEF Waits, Proceeds
    <3> QED
      BY <1>1, <1>3, <2>2, <2>7, <3>2, <3>3, HandledPending
  <2>8. ASSUME NEW x, x = "FLAGS", Issues(x), task'.status = "SYNCING_FLAGS",
               task'.flagsCmd = TRUE
        PROVE  Pending'
    <3>1. \A k \in CommandKind : Awaited(k)' + (IF y = k THEN 1 ELSE 0)
                                 = Awaited(k) + (IF x = k THEN 1 ELSE 0)
      BY <1>3, <2>4, <2>5, <2>6, <2>8 DEF Proceeds, Awaited, AwaitsSearch, CommandKind
    <3>2. Balanced(x)
      BY <1>1, <2>6, <3>1, LineBalanced
    <3>3. Waits
      BY <2>5, <2>8 DEF Waits, Proceeds
    <3> QED
      BY <1>1, <1>3, <2>2, <2>8, <3>2, <3>3, HandledPending
  <2>9. ASSUME NEW x, x = "NONE", Issues(x), task'.status = "KEEP", task'.flagsCmd = FALSE
        PROVE  Pending'
    <3>1. \A k \in CommandKind : Awaited(k)' + (IF y = k THEN 1 ELSE 0)
                                 = Awaited(k) + (IF x = k THEN 1 ELSE 0)
      BY <1>3, <2>4, <2>5, <2>6, <2>9 DEF Proceeds, Awaited, AwaitsSearch, CommandKind
    <3>2. Balanced(x)
      BY <1>1, <2>6, <3>1, LineBalanced
    <3>3. Waits
      BY <2>5, <2>9 DEF Waits, Proceeds
    <3> QED
      BY <1>1, <1>3, <2>2, <2>9, <3>2, <3>3, HandledPending
  <2> QED
    BY <2>5, <2>7, <2>8, <2>9 DEF Proceeds
<1> QED
  BY <1>2, <1>3 DEF SelectOk, Throw, Abort, Stop

\* The OK of UID SEARCH finds the UIDs applied.
LEMMA SearchOkFits ==
    ASSUME TypeOK, Pending, SearchOk
    PROVE  task.status = "SYNCING_FLAGS" /\ ~task.flagsCmd
<1>1. net # <<>> /\ Head(net).t = "OK" /\ Head(net).cmd = "SEARCH"
  BY DEF SearchOk, Ok, Next1, Resp
<1>2. Awaited("SEARCH") >= 1
  BY <1>1, ExpectedLine
<1>3. AwaitsSearch
  BY <1>2 DEF Awaited
<1>4. task.status # "SYNCING_UIDS"
  <2> SUFFICES ASSUME task.status = "SYNCING_UIDS" PROVE FALSE
    OBVIOUS
  <2>1. Len(net) \in Nat /\ Len(net) >= 1 /\ Head(net) = net[1]
    BY <1>1, TailElements DEF TypeOK
  <2>2. 1 \in LinesOf(net, "SEARCH")
    BY <1>1, <2>1 DEF LinesOf
  <2>3. SearchBefore(1)
    BY <2>2 DEF Pending, SearchInAnswer
  <2>4. \A i \in 1..Len(net) : ~(i < 1)
    OBVIOUS
  <2> QED
    BY <2>3, <2>4 DEF SearchBefore
<1> QED
  BY <1>3, <1>4 DEF AwaitsSearch

LEMMA SearchOkPending ==
    ASSUME Plain, TypeOK, TypeOK', NEW hs, FollowsServer(hs), Pending, SearchOk
    PROVE  Pending'
<1>1. net # <<>> /\ Head(net).t = "OK" /\ Head(net).cmd = "SEARCH"
  BY DEF SearchOk, Ok, Next1, Resp
<1>2. task.status = "SYNCING_FLAGS" /\ task.flagsCmd = FALSE
  BY <1>1, SearchOkFits, AtWork
<1>3. Handled /\ SyncFlags(mb, task) /\ task \in Task
  BY <1>2 DEF SearchOk, TypeOK
<1>4. PICK x : x = "FLAGS"
  OBVIOUS
<1>5. /\ Issues(x) /\ task'.status = "SYNCING_FLAGS" /\ task'.flagsCmd = TRUE
      /\ task'.arrivals = task.arrivals
  BY <1>3, <1>4, SyncFlagsProceeds
<1>6. PICK y \in CommandKind : y = "SEARCH"
  BY DEF CommandKind
<1>7. \A k \in CommandKind : Awaited(k)' + (IF y = k THEN 1 ELSE 0)
                             = Awaited(k) + (IF x = k THEN 1 ELSE 0)
  BY <1>2, <1>4, <1>5, <1>6, WaitingType DEF Awaited, AwaitsSearch, CommandKind
<1>8. Balanced(x)
  BY <1>1, <1>6, <1>7, LineBalanced
<1>9. Waits
  BY <1>5 DEF Waits, UidsAreKnown
<1> QED
  BY <1>1, <1>3, <1>5, <1>8, <1>9, HandledPending

\* The OK of the FETCH of all flags finds that it is the one waited for.
LEMMA FlagsOkFits ==
    ASSUME TypeOK, Pending, FlagsOk
    PROVE  task.status = "SYNCING_FLAGS" /\ task.flagsCmd
<1>1. net # <<>> /\ Head(net).t = "OK" /\ Head(net).cmd = "FLAGS"
  BY DEF FlagsOk, Ok, Next1, Resp
<1>2. Awaited("FLAGS") >= 1
  BY <1>1, ExpectedLine
<1> QED
  BY <1>2 DEF Awaited, Pending, OneTask

LEMMA FlagsOkPending ==
    ASSUME TypeOK, TypeOK', NEW hs, FollowsServer(hs), Pending, FlagsOk
    PROVE  Pending'
<1>1. net # <<>> /\ Head(net).t = "OK" /\ Head(net).cmd = "FLAGS"
  BY DEF FlagsOk, Ok, Next1, Resp
<1>2. task.status = "SYNCING_FLAGS" /\ task.flagsCmd = TRUE /\ task.arrivals \in Nat
  BY <1>1, FlagsOkFits, AtWork
<1>3. /\ Handled /\ cmds' = cmds /\ task'.flagsCmd = FALSE
      /\ task'.arrivals = task.arrivals /\ task'.status \in {"DONE", "KEEP"}
  <2>1. task \in Task
    BY DEF TypeOK
  <2>2. CASE task.arrivals = 0
    BY <1>2, <2>2 DEF FlagsOk, Complete, KeepTask, NoTask
  <2>3. CASE task.arrivals # 0
    BY <1>2, <2>1, <2>3 DEF FlagsOk, Task
  <2> QED
    BY <2>2, <2>3
<1>4. PICK x : x = "NONE"
  OBVIOUS
<1>5. PICK y \in CommandKind : y = "FLAGS"
  BY DEF CommandKind
<1>6. \A k \in CommandKind : Awaited(k)' + (IF y = k THEN 1 ELSE 0)
                             = Awaited(k) + (IF x = k THEN 1 ELSE 0)
  BY <1>2, <1>3, <1>4, <1>5 DEF Awaited, AwaitsSearch, CommandKind
<1>7. Balanced(x)
  BY <1>1, <1>5, <1>6, LineBalanced
<1>8. Waits /\ Issues(x) /\ task'.status # "SYNCING_UIDS"
  BY <1>3, <1>4 DEF Waits, UidsAreKnown, Issues
<1> QED
  BY <1>1, <1>3, <1>7, <1>8, HandledPending

\* One UID FETCH less.
LEMMA OneArrivalLess ==
    ASSUME TypeOK, TypeOK', NEW hs, FollowsServer(hs), Pending, net # <<>>, Handled,
           Head(net).t = "OK", Head(net).cmd = "ARRIVALS", cmds' = cmds,
           \/ task' = ArrivalsDone
           \/ task' = KeepTask /\ task.arrivals = 1 /\ task.status = "DONE" /\ ~task.flagsCmd
    PROVE  Pending'
<1>1. /\ task.arrivals \in Nat /\ task.flagsCmd \in BOOLEAN /\ task \in Task
      /\ task.flagsCmd => task.status = "SYNCING_FLAGS"
      /\ task.arrivals > 0 => task.status \in UidsAreKnown
  BY AtWork DEF TypeOK
<1>2. Awaited("ARRIVALS") >= 1
  BY ExpectedLine
<1>3. task.arrivals >= 1
  BY <1>2 DEF Awaited
<1>4. task.status \in UidsAreKnown
  BY <1>1, <1>3
<1>5. /\ task'.flagsCmd = task.flagsCmd /\ task'.arrivals = task.arrivals - 1
      /\ (task'.status = task.status \/ (task'.status = "KEEP" /\ task.status = "DONE"))
  <2>1. CASE task' = ArrivalsDone
    BY <1>1, <2>1 DEF ArrivalsDone, Task
  <2>2. CASE task' = KeepTask /\ task.arrivals = 1 /\ task.status = "DONE" /\ ~task.flagsCmd
    <3>1. task'.flagsCmd = FALSE /\ task'.arrivals = 0 /\ task'.status = "KEEP"
      BY <2>2 DEF KeepTask, NoTask
    <3>2. task.flagsCmd = FALSE /\ task.arrivals - 1 = 0
      BY <1>1, <2>2
    <3>3. task'.flagsCmd = task.flagsCmd
      BY <3>1, <3>2, Zenon
    <3> QED
      BY <2>2, <3>1, <3>2, <3>3
  <2> QED
    BY <2>1, <2>2
<1>6. PICK x : x = "NONE"
  OBVIOUS
<1>7. PICK y \in CommandKind : y = "ARRIVALS"
  BY DEF CommandKind
<1>8. ASSUME NEW k \in CommandKind
      PROVE  Awaited(k)' + (IF y = k THEN 1 ELSE 0) = Awaited(k) + (IF x = k THEN 1 ELSE 0)
  <2>1. CASE k = "ARRIVALS"
    BY <1>1, <1>3, <1>5, <1>6, <1>7, <2>1 DEF Awaited
  <2>2. CASE k \in {"SELECT", "SEARCH", "FLAGS"}
    <3>1. Awaited(k)' = Awaited(k)
      BY <1>4, <1>5, <2>2 DEF Awaited, AwaitsSearch, UidsAreKnown
    <3> QED
      BY <1>6, <1>7, <2>2, <3>1, WaitingType
  <2> QED
    BY <2>1, <2>2 DEF CommandKind
<1>9. Balanced(x)
  BY <1>7, <1>8, LineBalanced
<1>10. Waits /\ Issues(x) /\ task'.status # "SYNCING_UIDS"
  BY <1>1, <1>4, <1>5, <1>6 DEF Waits, UidsAreKnown, Issues
<1> QED
  BY <1>9, <1>10, HandledPending

LEMMA ObtainArrivalsOkPending ==
    ASSUME TypeOK, TypeOK', NEW hs, FollowsServer(hs), Pending, ObtainArrivalsOk
    PROVE  Pending'
<1>1. net # <<>> /\ Head(net).t = "OK" /\ Head(net).cmd = "ARRIVALS" /\ Handled
  BY DEF ObtainArrivalsOk, Ok, Next1, Resp
<1>2. /\ cmds' = cmds
      /\ \/ task' = ArrivalsDone
         \/ task' = KeepTask /\ task.arrivals = 1 /\ task.status = "DONE" /\ ~task.flagsCmd
  BY DEF ObtainArrivalsOk, Complete
<1> QED
  BY <1>1, <1>2, OneArrivalLess

LEMMA KeepArrivalsFinishedPending ==
    ASSUME TypeOK, TypeOK', NEW hs, FollowsServer(hs), Pending, KeepArrivalsFinished
    PROVE  Pending'
<1>1. /\ net # <<>> /\ Head(net).t = "OK" /\ Head(net).cmd = "ARRIVALS" /\ Handled
      /\ cmds' = cmds /\ task' = ArrivalsDone
  BY AtWork DEF KeepArrivalsFinished, Resp
<1> QED
  BY <1>1, OneArrivalLess

\* Nothing is refused and nothing is unexpected.
LEMMA AllWanted ==
    ASSUME TypeOK, NEW hs, FollowsServer(hs), Pending
    PROVE  ~ObtainNo /\ ~Unhandled
<1>1. ASSUME ObtainNo PROVE FALSE
  BY <1>1, AtWork DEF ObtainNo, Next1, Resp
<1>2. ASSUME Unhandled PROVE FALSE
  <2>1. net # <<>>
    BY <1>2 DEF Unhandled
  <2>2. task.status # "OFF" /\ Head(net).t # "NO"
    BY <2>1, AtWork
  <2>3. /\ Head(net).t = "OK"
        /\ Head(net).tag # selects \/ (Head(net).cmd = "ARRIVALS" /\ task.arrivals = 0)
    BY <1>2, <2>2 DEF Unhandled, Resp
  <2>4. Head(net).tag = selects /\ Awaited(Head(net).cmd) >= 1
    BY <2>1, <2>3, ExpectedLine
  <2>5. Head(net).cmd = "ARRIVALS" /\ task.arrivals = 0
    BY <2>3, <2>4
  <2>6. Awaited("ARRIVALS") = 0
    BY <2>5 DEF Awaited
  <2> QED
    BY <2>4, <2>5, <2>6
<1> QED
  BY <1>1, <1>2

----------------------------------------------------------------------------
(* A new synchronization, and all of it. *)

\* When a synchronization may begin, nothing is under way.
LEMMA NothingUnderWay ==
    ASSUME TypeOK, NEW hs, FollowsServer(hs), Pending, Free
    PROVE  /\ cmds = <<>> /\ \A i \in 1..Len(net) : net[i].t # "OK" /\ net[i].t # "NO"
           /\ \A i \in 1..Len(net) : net[i].t = "FETCH" => net[i].uid = 0
           /\ \A c \in CommandKind : LinesOf(net, c) = {}
<1>1. /\ task \in Task /\ net \in Seq(Response) /\ cmds \in Seq(Commands) /\ OneTask
  BY DEF TypeOK, Pending
<1>2. task.arrivals \in Nat /\ task.flagsCmd \in BOOLEAN
  BY <1>1 DEF Task
<1>3. /\ task.flagsCmd = FALSE /\ task.arrivals = 0 /\ task.status \in {"OFF", "KEEP"}
  BY <1>1, <1>2 DEF Free, OneTask, UidsAreKnown
<1>4. \A c \in CommandKind : Awaited(c) = 0
  BY <1>3 DEF Awaited, AwaitsSearch
<1>5. \A c \in CommandKind : LinesOf(net, c) = {} /\ OpenOf(cmds, c) = {}
  BY <1>4, NothingAwaited
<1>6. cmds = <<>>
  <2> SUFFICES ASSUME cmds # <<>> PROVE FALSE
    OBVIOUS
  <2>1. Len(cmds) \in Nat /\ Len(cmds) >= 1
    BY <1>1, TailElements
  <2>2. 1 \in 1..Len(cmds)
    BY <2>1
  <2>3. cmds[1] \in Commands
    BY <1>1, <2>2, ElementOfSeq
  <2>4. cmds[1].t \in CommandKind
    BY <2>3 DEF Commands
  <2>5. 1 \in OpenOf(cmds, cmds[1].t)
    BY <2>2 DEF OpenOf
  <2> QED
    BY <1>5, <2>4, <2>5
<1>7. ASSUME NEW i \in 1..Len(net) PROVE net[i].t # "OK" /\ net[i].t # "NO"
  <2>1. net[i].t # "NO"
    BY <1>1 DEF OneTask
  <2>2. net[i] \in Response
    BY <1>1, ElementOfSeq
  <2>3. ASSUME net[i].t = "OK" PROVE FALSE
    <3>1. net[i].cmd \in CommandKind
      BY <2>2, <2>3 DEF Response
    <3>2. i \in LinesOf(net, net[i].cmd)
      BY <2>3 DEF LinesOf
    <3> QED
      BY <1>5, <3>1, <3>2
  <2> QED
    BY <2>1, <2>3
<1>8. ASSUME NEW i \in 1..Len(net), net[i].t = "FETCH" PROVE net[i].uid = 0
  <2> SUFFICES ASSUME net[i].uid # 0 PROVE FALSE
    OBVIOUS
  <2>1. task.arrivals > 0
    BY <1>8, UidsWanted
  <2> QED
    BY <1>3, <2>1
<1> QED
  BY <1>5, <1>6, <1>7, <1>8

LEMMA PerformPending ==
    ASSUME TypeOK, TypeOK', NEW hs, FollowsServer(hs), Pending, Perform
    PROVE  Pending'
<1>1. /\ cmds = <<>> /\ \A i \in 1..Len(net) : net[i].t # "OK" /\ net[i].t # "NO"
      /\ \A i \in 1..Len(net) : net[i].t = "FETCH" => net[i].uid = 0
      /\ \A c \in CommandKind : LinesOf(net, c) = {}
  BY NothingUnderWay DEF Perform
<1>2. /\ net' = net /\ selects' = selects + 1 /\ up' = TRUE
      /\ net \in Seq(Response) /\ cmds \in Seq(Commands) /\ cmds' \in Seq(Commands)
  BY DEF Perform, TypeOK
<1>3. PICK c : c.t = "SELECT" /\ c.tag = selects + 1 /\ cmds' = Append(cmds, c)
  <2> DEFINE m == Populate(mb)
             qresync == Qresync /\ IsUsableForCondstore(m.disk.sync)
             c == [t |-> "SELECT", arg |-> IF qresync THEN m.disk.sync.modSeq ELSE 0,
                    val |-> m.disk.sync.uidVal, tag |-> selects + 1]
  <2>1. cmds' = Append(cmds, c)
    BY DEF Perform, Issue
  <2>2. c.t = "SELECT" /\ c.tag = selects + 1
    OBVIOUS
  <2> QED
    BY <2>1, <2>2
<1>4. task'.status = "SELECTING" /\ task'.flagsCmd = FALSE /\ task'.arrivals = 0
  <2>1. \E q : task' = [NoTask EXCEPT !.status = "SELECTING", !.qresync = q]
    BY DEF Perform
  <2> QED
    BY <2>1 DEF NoTask
<1>5. Len(cmds') = 1 /\ cmds'[1] = c
  BY <1>1, <1>3
<1>6. c \in Commands
  <2>1. 1 \in 1..Len(cmds')
    BY <1>5
  <2> QED
    BY <1>2, <1>5, <2>1, ElementOfSeq
<1>7. ASSUME NEW k \in CommandKind PROVE Waiting(k)' = Awaited(k)'
  <2>1. Cardinality(LinesOf(net', k)) = 0
    BY <1>1, <1>2, NoLines
  <2>2. Cardinality(OpenOf(Append(cmds, c), k)) = Cardinality(OpenOf(cmds, k))
                                                  + (IF c.t = k THEN 1 ELSE 0)
    BY <1>2, <1>6, OpenAppend
  <2>3. OpenOf(cmds, k) = {}
    BY <1>1 DEF OpenOf
  <2>4. Cardinality(OpenOf(cmds, k)) = 0
    BY <1>2, <2>3, NoneOpen
  <2>5. Cardinality(OpenOf(cmds', k)) = IF k = "SELECT" THEN 1 ELSE 0
    BY <1>3, <2>2, <2>4
  <2>6. Awaited(k)' = IF k = "SELECT" THEN 1 ELSE 0
    BY <1>4 DEF Awaited, AwaitsSearch, CommandKind
  <2> QED
    BY <2>1, <2>5, <2>6 DEF Waiting
<1>8. OneTask'
  <2>1. \A i \in 1..Len(cmds') : i = 1
    BY <1>5
  <2> QED
    BY <1>1, <1>2, <1>3, <1>4, <1>5, <2>1 DEF OneTask
<1>9. UidsInAnswer'
  BY <1>1, <1>2 DEF UidsInAnswer
<1>10. SearchInAnswer'
  BY <1>4 DEF SearchInAnswer
<1> QED
  BY <1>7, <1>8, <1>9, <1>10 DEF Pending, Counted

LEMMA InitPending ==
    ASSUME Init, TypeOK
    PROVE  Pending
<1>1. net = <<>> /\ cmds = <<>> /\ ~up /\ task = NoTask
  BY DEF Init
<1>2. Len(net) = 0 /\ Len(cmds) = 0 /\ net \in Seq(Response) /\ cmds \in Seq(Commands)
  BY <1>1 DEF TypeOK
<1>3. task.status = "OFF" /\ task.flagsCmd = FALSE /\ task.arrivals = 0
  BY <1>1 DEF NoTask
<1>4. ASSUME NEW k \in CommandKind PROVE Waiting(k) = Awaited(k)
  <2>1. LinesOf(net, k) = {} /\ OpenOf(cmds, k) = {}
    BY <1>2 DEF LinesOf, OpenOf
  <2>2. Cardinality(LinesOf(net, k)) = 0 /\ Cardinality(OpenOf(cmds, k)) = 0
    BY <1>2, <2>1, NoLines, NoneOpen
  <2>3. Awaited(k) = 0
    BY <1>3 DEF Awaited, AwaitsSearch
  <2> QED
    BY <2>2, <2>3 DEF Waiting
<1> QED
  BY <1>1, <1>2, <1>3, <1>4 DEF Pending, Counted, OneTask, UidsInAnswer, SearchInAnswer

LEMMA StutterPending ==
    ASSUME Pending, UNCHANGED vars
    PROVE  Pending'
<1>1. UNCHANGED <<cmds, answered, up, net, task, selects>>
  BY DEF vars
<1>2. Counted' /\ OneTask'
  BY <1>1 DEF Pending, Counted, Waiting, LinesOf, OpenOf, Awaited, AwaitsSearch, OneTask,
              UidsAreKnown
<1>3. UidsInAnswer' /\ SearchInAnswer'
  BY <1>1 DEF Pending, UidsInAnswer, SearchInAnswer, LineAfter, InAnswer, LinesOf, SearchBefore
<1> QED
  BY <1>2, <1>3 DEF Pending

LEMMA HandleResponsePending ==
    ASSUME Plain, TypeOK, TypeOK', NEW hs, FollowsServer(hs), Pending, HandleResponse
    PROVE  Pending'
<1>1. ~Vanished /\ ~VanishedEarlier /\ ~ObtainNo /\ ~Unhandled
  BY NoneVanished, AllWanted
<1> QED
  BY <1>1, HandleCodesPending, ObtainExistsPending, KeepExistsPending, ObtainExpungePending,
     KeepExpungePending, HandleFetchPending, HandleSearchPending, SelectOkPending,
     SearchOkPending, FlagsOkPending, ObtainArrivalsOkPending, KeepArrivalsFinishedPending
     DEF HandleResponse

LEMMA NextPending ==
    ASSUME Reliable, TypeOK, TypeOK', KeepsUp, Pending, [Next]_vars
    PROVE  Pending'
<1>1. PICK hs \in Seq(Server) : FollowsServer(hs)
  BY DEF KeepsUp
<1>2. Plain
  BY DEF Reliable
<1>3. CASE ServerChange \/ Recreate
  BY <1>2, <1>3, ChangePending
<1>4. CASE SendData
  BY <1>1, <1>2, <1>4, SendDataPending
<1>5. CASE SendTagged
  BY <1>5, SendTaggedPending
<1>6. CASE Perform
  BY <1>1, <1>6, PerformPending
<1>7. CASE HandleResponse
  BY <1>1, <1>2, <1>7, HandleResponsePending
<1>8. CASE Drop \/ Restart
  BY <1>8, LostPending DEF Drop, Restart, Stop
<1>9. CASE UNCHANGED vars
  BY <1>9, StutterPending
<1> QED
  BY <1>3, <1>4, <1>5, <1>6, <1>7, <1>8, <1>9 DEF Next

\* The inductive invariant of a client whose server refuses nothing: it keeps up with the
\* server's mailbox, and every tagged line is one that its task waits for.
THEOREM ReliableKeepsUp ==
    ASSUME Reliable
    PROVE  Spec => [](TypeOK /\ SyncInv /\ KeepsUp /\ Pending)
<1>1. Init => TypeOK /\ SyncInv /\ KeepsUp /\ Pending
  BY InitType, InitKeepsUp, InitPending DEF Reliable
<1>2. /\ TypeOK /\ SyncInv /\ KeepsUp /\ Pending
      /\ [Next]_vars
      => TypeOK' /\ SyncInv' /\ KeepsUp' /\ Pending'
  BY NextType, NextKeepsUp, NextPending DEF Reliable
<1> QED
  BY <1>1, <1>2, PTL DEF Spec

----------------------------------------------------------------------------
(* Responses find what they are for. *)

\* A FETCH that tells a UID tells that of its message.
LEMMA FetchFits ==
    ASSUME TypeOK, NEW hs, FollowsServer(hs), Pending, HandleFetch
    PROVE  ~Throw("UidMismatch")
<1> SUFFICES ASSUME Throw("UidMismatch") PROVE FALSE
  OBVIOUS
<1>1. net # <<>> /\ Head(net).t = "FETCH"
  BY DEF HandleFetch, Next1, Resp
<1>2. /\ Len(net) \in Nat /\ Len(net) >= 1 /\ Head(net) = net[1]
  BY <1>1, TailElements DEF TypeOK
<1>3. 1 \in 1..Len(net)
  BY <1>2
<1>4. FetchThrows(mb, Head(net)) /\ Head(net).n \in 1..Len(mb.list)
  <2>1. threw' = "UidMismatch" /\ up' = FALSE
    BY DEF Throw, Disconnected
  <2>2. up
    BY DEF HandleFetch, Next1
  <2> QED
    BY <2>1, <2>2 DEF HandleFetch, Resp, Handled, Throw
<1>5. Head(net).uid # 0 /\ mb.list[Head(net).n].uid \notin {0, Head(net).uid}
  BY <1>4 DEF FetchThrows
<1>6. task.status \in UidsAreKnown
  BY <1>1, <1>2, <1>3, <1>5, UidsWanted
<1>7. /\ Client(mb, task, srv.val, hs[1]) /\ Tells(net[1], hs[1], hs[1 + 1])
  BY <1>3 DEF FollowsServer, History
<1>8. Reflects(mb.list, hs[1])
  BY <1>6, <1>7 DEF Client, Synced
<1>9. Head(net).uid \in {0, hs[1].msgs[Head(net).n]}
  BY <1>1, <1>2, <1>7 DEF Tells
<1>10. mb.list[Head(net).n].uid \in {0, hs[1].msgs[Head(net).n]}
  BY <1>4, <1>8 DEF Reflects, FitsTo
<1> QED
  BY <1>5, <1>9, <1>10

\* No assertion of the synchronization fails.
LEMMA NoAbort ==
    ASSUME TypeOK, NEW hs, FollowsServer(hs), Pending,
           HandleSearch \/ SelectOk \/ SearchOk \/ FlagsOk
    PROVE  threw' # "Assertion" \/ threw' = threw
<1>1. CASE HandleSearch
  <2>1. Client(mb, task, srv.val, hs[1]) /\ task.status = "SYNCING_UIDS"
    BY <1>1 DEF FollowsServer, HandleSearch
  <2>2. task.firstUnknown <= Len(mb.list)
    BY <2>1 DEF Client, UidsAsked
  <2>3. task.firstUnknown \in Nat /\ Len(mb.list) \in Nat
    BY TaskFields, MailboxFields DEF TypeOK
  <2>4. ~(task.firstUnknown > Len(mb.list))
    BY <2>2, <2>3
  <2> QED
    BY <1>1, <2>4 DEF HandleSearch, Throw, Handled
<1>2. CASE SelectOk
  <2>1. net # <<>> /\ Head(net).t = "OK" /\ Head(net).cmd = "SELECT"
    BY <1>2 DEF SelectOk, Ok, Next1, Resp
  <2>2. Awaited("SELECT") >= 1
    BY <2>1, ExpectedLine
  <2>3. task.status = "SELECTING"
    BY <2>2 DEF Awaited
  <2> QED
    BY <1>2, <2>3 DEF SelectOk, Throw, Handled
<1>3. CASE SearchOk
  BY <1>3, SearchOkFits DEF SearchOk, Handled
<1>4. CASE FlagsOk
  BY <1>4, FlagsOkFits DEF FlagsOk, Handled
<1> QED
  BY <1>1, <1>2, <1>3, <1>4

\* Which exceptions each action may throw.
LEMMA NextFits ==
    ASSUME Reliable, TypeOK, KeepsUp, Pending, ResponsesFit, [Next]_vars
    PROVE  ResponsesFit'
<1>1. PICK hs \in Seq(Server) : FollowsServer(hs)
  BY DEF KeepsUp
<1>2. CASE UNCHANGED threw
  BY <1>2 DEF ResponsesFit
<1>3. ASSUME threw' \in {"ExistsDecreased", "UnknownMessageIndex", "SearchMismatch",
                         "WrongChildren"}
      PROVE  ResponsesFit'
  BY <1>3 DEF ResponsesFit
<1>4. CASE HandleResponse
  <2>1. ~Vanished /\ ~VanishedEarlier /\ ~ObtainNo /\ ~Unhandled
    BY <1>1, NoneVanished, AllWanted DEF Reliable
  <2>2. CASE HandleCodes
    BY <1>2, <2>2 DEF HandleCodes, Handled
  <2>3. CASE ObtainExists
    BY <1>2, <1>3, <2>3 DEF ObtainExists, Handled, Throw
  <2>4. CASE KeepExists
    BY <1>2, <1>3, <2>4 DEF KeepExists, Handled, Throw
  <2>5. CASE ObtainExpunge
    BY <1>2, <1>3, <2>5 DEF ObtainExpunge, Handled, Throw
  <2>6. CASE KeepExpunge
    BY <1>2, <1>3, <2>6 DEF KeepExpunge, Handled, Throw
  <2>7. CASE HandleFetch
    <3>1. ~Throw("UidMismatch")
      BY <1>1, <2>7, FetchFits
    <3>2. Handled \/ Throw("UnknownMessageIndex")
      BY <2>7, <3>1 DEF HandleFetch
    <3> QED
      BY <1>2, <1>3, <3>2 DEF Handled, Throw
  <2>8. CASE HandleSearch
    <3>1. threw' # "Assertion" \/ threw' = threw
      BY <1>1, <2>8, NoAbort
    <3> QED
      BY <1>2, <1>3, <2>8, <3>1 DEF HandleSearch, Throw, Abort, Handled
  <2>9. CASE SelectOk
    <3>1. threw' # "Assertion" \/ threw' = threw
      BY <1>1, <2>9, NoAbort
    <3> QED
      BY <1>2, <1>3, <2>9, <3>1 DEF SelectOk, Throw, Abort, Handled
  <2>10. CASE SearchOk \/ FlagsOk
    <3>1. threw' # "Assertion" \/ threw' = threw
      BY <1>1, <2>10, NoAbort
    <3> QED
      BY <1>2, <2>10, <3>1 DEF SearchOk, FlagsOk, Abort, Handled
  <2>11. CASE ObtainArrivalsOk \/ KeepArrivalsFinished
    BY <1>2, <2>11 DEF ObtainArrivalsOk, KeepArrivalsFinished, Handled
  <2> QED
    BY <1>4, <2>1, <2>2, <2>3, <2>4, <2>5, <2>6, <2>7, <2>8, <2>9, <2>10, <2>11
       DEF HandleResponse
<1>5. CASE ~HandleResponse
  <2>1. UNCHANGED threw
    BY <1>5 DEF Next, ServerChange, Arrive, ServerExpunge, ServerFlag, Recreate, SendData,
                SendTagged, Perform, Drop, Restart, vars
  <2> QED
    BY <1>2, <2>1
<1> QED
  BY <1>4, <1>5

\* No response of a server that refuses nothing is one too many: the UID that a FETCH tells is
\* that of its message, each tagged OK finds the status that its task expects there, and a
\* task that waits for it (handleFetchResponse, the assertions of Obtain, the Model's handlers).
THEOREM EveryResponseFits ==
    ASSUME Reliable
    PROVE  Spec => []ResponsesFit
<1>1. Init => ResponsesFit
  BY DEF Init, ResponsesFit
<1>2. /\ TypeOK /\ KeepsUp /\ Pending /\ ResponsesFit
      /\ [Next]_vars
      => ResponsesFit'
  BY NextFits
<1> QED
  BY <1>1, <1>2, ReliableKeepsUp, PTL DEF Spec

----------------------------------------------------------------------------
(* The list from one step to the next. *)

\* The list b has the UIDs of the list a, and messages of unknown UID after them.
Longer(a, b) ==
    /\ Len(a) <= Len(b)
    /\ \A j \in 1..Len(b) : b[j].uid = IF j <= Len(a) THEN a[j].uid ELSE 0
\* The known UIDs of a are at their places in b.
Learns(a, b) ==
    Len(a) <= Len(b) /\ \A j \in 1..Len(a) : a[j].uid # 0 => b[j].uid = a[j].uid

\* Message n, whose UID is not asked for, leaves the list by an EXPUNGE.
Removes(n) ==
    /\ net # <<>> /\ Handled /\ Head(net).t = "EXPUNGE" /\ Head(net).n = n
    /\ n \in 1..Len(mb.list) /\ mb'.list = RemoveAt(mb.list, n)
    /\ \/ task.status \in UidsAreKnown
       \/ task.status = "SYNCING_UIDS" /\ n <= task.firstUnknown

\* The list is filled from the cache.
FromDisk ==
    /\ Len(mb'.list) = Len(mb.disk.uids)
    /\ \A j \in 1..Len(mb.disk.uids) : mb'.list[j].uid = mb.disk.uids[j]

\* The list is lost, or it is of no use.
Forgets == \/ mb'.st = "NONE" /\ task'.status = "OFF"
           \/ /\ task.status = "SELECTING"
              /\ mb'.disk.uids = <<>> \/ mb'.disk.sync.uidVal # srv.val

ListStep ==
    \/ Longer(mb.list, mb'.list)
    \/ Learns(mb.list, mb'.list) /\ task'.status \in UidsAreKnown
    \/ \E n \in Nat : Removes(n)
    \/ HandleSearch /\ Handled /\ task'.status = "SYNCING_FLAGS"
    \/ Rebuilt /\ Forgets
    \/ mb.list = <<>> /\ FromDisk /\ task'.status \in {"SELECTING", "SYNCING_FLAGS"}
DiskStep == \/ SameDisk(mb, mb') \/ mb'.disk.uids = <<>>
            \/ IsSaved(mb') /\ task'.status \in UidsAreKnown

LEMMA SameIsLonger ==
    ASSUME NEW a \in Seq(Message), NEW b, b = a
    PROVE  Longer(a, b)
<1>1. Len(a) \in Nat
  BY LenProperties
<1> QED
  BY <1>1 DEF Longer

LEMMA LongerInOrder ==
    ASSUME NEW a \in Seq(Message), NEW b \in Seq(Message), Longer(a, b), InOrder(a)
    PROVE  InOrder(b)
<1>1. Len(a) \in Nat /\ Len(b) \in Nat
  BY LenProperties
<1> SUFFICES ASSUME NEW i \in 1..Len(b), NEW j \in 1..Len(b), i < j, b[i].uid # 0, b[j].uid # 0
             PROVE  b[i].uid < b[j].uid
  BY DEF InOrder
<1>2. i <= Len(a) /\ j <= Len(a)
  BY <1>1 DEF Longer
<1>3. i \in 1..Len(a) /\ j \in 1..Len(a) /\ b[i].uid = a[i].uid /\ b[j].uid = a[j].uid
  BY <1>1, <1>2 DEF Longer
<1> QED
  BY <1>3 DEF InOrder

LEMMA RemovedInOrder ==
    ASSUME NEW a \in Seq(Message), NEW n \in 1..Len(a), InOrder(a)
    PROVE  InOrder(RemoveAt(a, n))
<1>1. /\ RemoveAt(a, n) \in Seq(Message) /\ Len(RemoveAt(a, n)) = Len(a) - 1 /\ Len(a) \in Nat
      /\ \A j \in 1..(Len(a) - 1) : RemoveAt(a, n)[j] = IF j < n THEN a[j] ELSE a[j + 1]
  BY RemoveAtElements, LenProperties
<1>2. PICK b : b = RemoveAt(a, n)
  OBVIOUS
<1>3. PICK l \in Nat : l = Len(a)
  BY <1>1
<1>4. /\ Len(b) = l - 1
      /\ \A j \in 1..(l - 1) : b[j] = a[IF j < n THEN j ELSE j + 1]
  BY <1>1, <1>2, <1>3
<1>5. n \in 1..l
  BY <1>3
<1>6. \A p, q \in 1..l : p < q /\ a[p].uid # 0 /\ a[q].uid # 0 => a[p].uid < a[q].uid
  BY <1>3 DEF InOrder
<1>7. ASSUME NEW i \in 1..(l - 1), NEW j \in 1..(l - 1), i < j, b[i].uid # 0, b[j].uid # 0
      PROVE  b[i].uid < b[j].uid
  <2>1. PICK p \in 1..l : b[i] = a[p] /\ p = IF i < n THEN i ELSE i + 1
    BY <1>4, <1>5
  <2>2. PICK q \in 1..l : b[j] = a[q] /\ q = IF j < n THEN j ELSE j + 1
    BY <1>4, <1>5
  <2>3. p < q
    BY <1>7, <2>1, <2>2
  <2> QED
    BY <1>6, <1>7, <2>1, <2>2, <2>3
<1>8. InOrder(b)
  BY <1>4, <1>7 DEF InOrder
<1> QED
  BY <1>2, <1>8

\* The UIDs of a list ascend when the list is in order.
LEMMA UidsAscend ==
    ASSUME NEW list \in Seq(Message)
    PROVE  Ascending(Uids(list)) <=> InOrder(list)
<1>1. Len(Uids(list)) = Len(list)
  BY UidsType
<1>2. \A i \in 1..Len(list) : Uids(list)[i] = list[i].uid
  BY DEF Uids
<1> QED
  BY <1>1, <1>2 DEF Ascending, InOrder

LEMMA FilledInOrder ==
    ASSUME NEW uids \in Seq(0..MaxUid), Ascending(uids), NEW list \in Seq(Message),
           Len(list) = Len(uids), \A j \in 1..Len(uids) : list[j].uid = uids[j]
    PROVE  InOrder(list)
BY DEF InOrder, Ascending

\* A list whose UIDs are known is the server's, so it is in order.
LEMMA KnownInOrder ==
    ASSUME TypeOK', KeepsUp', task'.status \in UidsAreKnown
    PROVE  InOrder(mb'.list)
<1>1. PICK hs \in Seq(Server) : FollowsServer(hs)'
  BY DEF KeepsUp
<1>2. /\ History(hs, net', srv') /\ Client(mb', task', srv'.val, hs[1])
  BY <1>1 DEF FollowsServer
<1>3. net' \in Seq(Response) /\ mb' \in Mailbox
  BY DEF TypeOK
<1>4. Sane(hs[1])
  BY <1>2, <1>3, HistoryEnds
<1>5. Reflects(mb'.list, hs[1])
  BY <1>2 DEF Client, Synced
<1>6. mb'.list \in Seq(Message) /\ Len(mb'.list) \in Nat
  BY <1>3, MailboxFields
<1> QED
  BY <1>4, <1>5, <1>6, FitsInOrder DEF Reflects

\* The order is kept by every step that changes the list like that.
LEMMA StepOrdered ==
    ASSUME TypeOK, TypeOK', KeepsUp', Ordered, ListStep, DiskStep
    PROVE  Ordered'
<1>1. /\ mb.list \in Seq(Message) /\ mb'.list \in Seq(Message)
      /\ mb.disk.uids \in Seq(0..MaxUid)
  BY MailboxFields DEF TypeOK
<1>2. InOrder(mb.list) /\ Ascending(mb.disk.uids)
  BY <1>1, UidsAscend DEF Ordered, ListAscending
<1>3. InOrder(mb'.list)
  <2>1. CASE task'.status \in UidsAreKnown
    BY <2>1, KnownInOrder
  <2>2. CASE Longer(mb.list, mb'.list)
    BY <1>1, <1>2, <2>2, LongerInOrder
  <2>3. ASSUME NEW n \in Nat, Removes(n) PROVE InOrder(mb'.list)
    BY <1>1, <1>2, <2>3, RemovedInOrder DEF Removes
  <2>4. CASE Rebuilt
    BY <2>4 DEF Rebuilt, InOrder
  <2>5. CASE FromDisk
    BY <1>1, <1>2, <2>5, FilledInOrder DEF FromDisk
  <2> QED
    BY <2>1, <2>2, <2>3, <2>4, <2>5 DEF ListStep, UidsAreKnown
<1>4. Ascending(Uids(mb'.list))
  BY <1>1, <1>3, UidsAscend
<1>5. Ascending(mb'.disk.uids)
  <2>1. Ascending(<<>>)
    BY DEF Ascending
  <2> QED
    BY <1>2, <1>4, <2>1 DEF DiskStep, SameDisk, IsSaved
<1> QED
  BY <1>4, <1>5 DEF Ordered, ListAscending

----------------------------------------------------------------------------
(* Every step of the client changes the list like that.                    *)

Moves == ListStep /\ DiskStep

LEMMA SameMoves ==
    ASSUME TypeOK, mb'.list = mb.list, DiskStep
    PROVE  Moves
<1>1. Longer(mb.list, mb'.list)
  BY MailboxFields, SameIsLonger DEF TypeOK
<1> QED
  BY <1>1 DEF Moves, ListStep

\* The client's mailbox stays, or only its list is lost.
LEMMA LostMoves ==
    ASSUME TypeOK,
           mb' = mb \/ (mb'.list = <<>> /\ mb'.disk = mb.disk /\ mb'.st = "NONE"
                        /\ task'.status = "OFF")
    PROVE  Moves
<1>1. CASE mb' = mb
  BY <1>1, SameMoves DEF DiskStep, SameDisk
<1>2. CASE mb'.list = <<>> /\ mb'.disk = mb.disk /\ mb'.st = "NONE" /\ task'.status = "OFF"
  <2>1. Rebuilt
    <3>1. Len(mb'.list) = 0
      BY <1>2, EmptySeq
    <3> QED
      BY <3>1 DEF Rebuilt
  <2> QED
    BY <1>2, <2>1 DEF Moves, ListStep, DiskStep, SameDisk, Forgets
<1> QED
  BY <1>1, <1>2

LEMMA ThrowMoves ==
    ASSUME TypeOK, NEW e, Throw(e)
    PROVE  Moves
BY LostMoves DEF Throw

LEMMA StopMoves ==
    ASSUME TypeOK, Stop
    PROVE  Moves
BY LostMoves DEF Stop, Disconnected, NoTask

LEMMA HandleCodesMoves ==
    ASSUME TypeOK, HandleCodes
    PROVE  Moves
<1>1. mb \in Mailbox
  BY DEF TypeOK
<1>2. \/ mb' = mb
      \/ mb' = [mb EXCEPT !.sync.uidNext = Resp.uidNext, !.sync.uidVal = Resp.uidVal,
                          !.sync.modSeq = Resp.modSeq]
  BY DEF HandleCodes, Update
<1>3. mb'.list = mb.list /\ mb'.disk = mb.disk
  BY <1>1, <1>2 DEF Mailbox
<1> QED
  BY <1>3, SameMoves DEF DiskStep, SameDisk

\* EXISTS adds messages of unknown UID.
LEMMA ExistsMoves ==
    ASSUME TypeOK, NEW n \in Nat, ~ExistsThrows(mb, n),
           mb' = HandleExists(mb, n) \/ mb' = UpdateHighestKnownUid(HandleExists(mb, n))
    PROVE  Moves
<1>1. mb \in Mailbox
  BY DEF TypeOK
<1>2. PICK w : w = HandleExists(mb, n)
  OBVIOUS
<1>3. w \in Mailbox /\ Len(w.list) = n
  BY <1>1, <1>2, HandleExistsType
<1>4. /\ SameDisk(mb, w) /\ Len(mb.list) <= n
      /\ \A j \in 1..n : w.list[j].uid = IF j <= Len(mb.list) THEN mb.list[j].uid ELSE 0
  BY <1>1, <1>2, HandleExistsDoes
<1>5. mb'.list = w.list /\ SameDisk(w, mb')
  <2>1. CASE mb' = w
    BY <2>1 DEF SameDisk
  <2>2. CASE mb' = UpdateHighestKnownUid(w)
    BY <1>3, <2>2, UpdateHighestKnownUidType, UpdateHighestKnownUidDoes
  <2> QED
    BY <1>2, <2>1, <2>2
<1>6. Longer(mb.list, mb'.list)
  BY <1>3, <1>4, <1>5 DEF Longer
<1>7. SameDisk(mb, mb')
  BY <1>4, <1>5 DEF SameDisk
<1> QED
  BY <1>6, <1>7 DEF Moves, ListStep, DiskStep

LEMMA ObtainExistsMoves ==
    ASSUME TypeOK, NEW hs, FollowsServer(hs), ObtainExists
    PROVE  Moves
<1>1. net # <<>> /\ Head(net).t = "EXISTS" /\ mb \in Mailbox /\ Head(net) \in Response
  BY HeadType DEF ObtainExists, Next1, TypeOK, Resp
<1>2. Head(net).n \in Nat
  BY <1>1, ResponseFields
<1>3. CASE \E e : Throw(e)
  BY <1>3, ThrowMoves
<1>4. CASE /\ task.status = "SELECTING" /\ Handled
           /\ Update([mb EXCEPT !.sync.exists = Resp.n,
                                !.list = IF task.qresync THEN @ \o Unknown(Resp.n - Len(@))
                                         ELSE @])
  <2>1. ~task.qresync
    BY DEF FollowsServer, Client
  <2>2. mb' = [mb EXCEPT !.sync.exists = Resp.n,
                         !.list = IF task.qresync THEN @ \o Unknown(Resp.n - Len(@)) ELSE @]
    BY <1>4 DEF Update
  <2>3. mb'.list = mb.list /\ mb'.disk = mb.disk
    BY <1>1, <2>1, <2>2 DEF Mailbox
  <2> QED
    BY <2>3, SameMoves DEF DiskStep, SameDisk
<1>5. CASE mb' = mb
  BY <1>5, LostMoves
<1>6. CASE ~ExistsThrows(mb, Head(net).n) /\ mb' = UpdateHighestKnownUid(HandleExists(mb, Head(net).n))
  BY <1>2, <1>6, ExistsMoves
<1> QED
  BY <1>3, <1>4, <1>5, <1>6 DEF ObtainExists, Resp, Update, AskForArrivals

LEMMA KeepExistsMoves ==
    ASSUME TypeOK, KeepExists
    PROVE  Moves
<1>1. net # <<>> /\ Head(net).t = "EXISTS" /\ mb \in Mailbox /\ Head(net) \in Response
  BY HeadType DEF KeepExists, Next1, TypeOK, Resp
<1>2. Head(net).n \in Nat
  BY <1>1, ResponseFields
<1>3. CASE \E e : Throw(e)
  BY <1>3, ThrowMoves
<1>4. CASE mb' = mb
  BY <1>4, LostMoves
<1>5. CASE ~ExistsThrows(mb, Head(net).n) /\ mb' = HandleExists(mb, Head(net).n)
  BY <1>2, <1>5, ExistsMoves
<1> QED
  BY <1>3, <1>4, <1>5 DEF KeepExists, Resp, Update, AskForArrivals

\* EXPUNGE removes a message whose UID is not asked for.
LEMMA ExpungeMoves ==
    ASSUME TypeOK, net # <<>>, Handled, Head(net).t = "EXPUNGE",
           NEW n, n = Head(net).n, n \in 1..Len(mb.list),
           mb'.list = RemoveAt(mb.list, n),
           task.status \in UidsAreKnown \/ (task.status = "SYNCING_UIDS" /\ n <= task.firstUnknown),
           DiskStep
    PROVE  Moves
<1>1. n \in Nat /\ Removes(n)
  BY DEF Removes
<1> QED
  BY <1>1 DEF Moves, ListStep

LEMMA ObtainExpungeMoves ==
    ASSUME TypeOK, TypeOK', SyncInv, NEW hs, FollowsServer(hs), ObtainExpunge
    PROVE  Moves
<1>1. /\ net # <<>> /\ Head(net).t = "EXPUNGE" /\ mb \in Mailbox /\ Head(net) \in Response
      /\ task.status \in Syncing
  BY HeadType DEF ObtainExpunge, Next1, TypeOK, Resp
<1>2. PICK n : n = Head(net).n
  OBVIOUS
<1>3. n \in Nat /\ n # 0
  BY <1>1, <1>2, ResponseFields
<1>4. PICK m : m = [mb EXCEPT !.sync.exists = OneLess(@)]
  OBVIOUS
<1>5. m.list = mb.list /\ m.disk = mb.disk /\ m \in Mailbox
  <2>1. OneLess(mb.sync.exists) \in Nat
    BY <1>1, MailboxFields DEF OneLess
  <2>2. m.list = mb.list /\ m.disk = mb.disk
    BY <1>1, <1>4 DEF Mailbox
  <2>3. m \in Mailbox
    BY <1>1, <1>4, <2>1 DEF Mailbox, SyncState
  <2> QED
    BY <2>2, <2>3
<1>6. CASE Throw("UnknownMessageIndex")
  BY <1>6, ThrowMoves
<1>7. CASE ~IsKnown(n) /\ mb' = m
  BY <1>5, <1>7, SameMoves DEF DiskStep, SameDisk
<1>8. CASE /\ IsKnown(n) /\ ~ExpungeThrows(mb, n) /\ Handled
           /\ \/ mb' = HandleExpunge(m, n)
              \/ mb' = SaveSyncStateAndUids(HandleExpunge(m, n)) /\ task.status = "DONE"
  <2>1. PICK x : x = HandleExpunge(m, n)
    OBVIOUS
  <2>2. ~ExpungeThrows(m, n)
    BY <1>5, <1>8 DEF ExpungeThrows
  <2>3. /\ x \in Mailbox /\ x.list = RemoveAt(mb.list, n) /\ n \in 1..Len(mb.list)
        /\ IF mb.st = "DONE" THEN IsSaved(x) ELSE SameDisk(m, x)
    <3>1. m.st = mb.st
      BY <1>1, <1>4 DEF Mailbox
    <3> QED
      BY <1>3, <1>5, <2>1, <2>2, <3>1, HandleExpungeDoes, HandleExpungeType
  <2>4. mb'.list = x.list /\ (mb' = x \/ (IsSaved(mb') /\ task.status = "DONE"))
    BY <1>8, <2>1, <2>3, SaveType, SaveDoes
  <2>5. DiskStep
    <3>1. task.status \in UidsAreKnown => task'.status \in UidsAreKnown
      BY <1>2, <1>8 DEF ObtainExpunge, UidsAreKnown, Resp
    <3>2. task.status = "SYNCING_UIDS" \/ task.status = "SELECTING" => mb.st = "LOADING"
      BY DEF FollowsServer, Client, UidsAsked
    <3>3. CASE task.status \in UidsAreKnown
      BY <1>5, <2>3, <2>4, <3>1, <3>3 DEF DiskStep, SameDisk
    <3>4. CASE task.status \notin UidsAreKnown
      BY <1>1, <1>5, <2>3, <2>4, <3>2, <3>4 DEF DiskStep, SameDisk, UidsAreKnown, Syncing
    <3> QED
      BY <3>3, <3>4
  <2>6. task.status \in UidsAreKnown \/ (task.status = "SYNCING_UIDS" /\ n <= task.firstUnknown)
    <3>1. task.status = "SELECTING" => task.firstUnknown = 0
      BY DEF FollowsServer, Client
    <3> QED
      BY <1>1, <1>3, <1>8, <3>1 DEF IsKnown, UidsAreKnown, Syncing
  <2> QED
    BY <1>1, <1>2, <1>8, <2>3, <2>4, <2>5, <2>6, ExpungeMoves
<1>9. /\ ~(IsKnown(n) /\ ExpungeThrows(mb, n)) => Handled
      /\ IsKnown(n) /\ ExpungeThrows(mb, n) => Throw("UnknownMessageIndex")
  BY <1>2 DEF ObtainExpunge, Resp
<1>10. ~(IsKnown(n) /\ ExpungeThrows(mb, n)) =>
          mb' = CASE ~IsKnown(n) -> m
                  [] task.status = "DONE" -> SaveSyncStateAndUids(HandleExpunge(m, n))
                  [] OTHER -> HandleExpunge(m, n)
  BY <1>2, <1>4 DEF ObtainExpunge, Resp
<1>11. ~IsKnown(n) => task.status # "DONE"
  BY DEF IsKnown
<1>12. /\ ~IsKnown(n) => mb' = m
       /\ IsKnown(n) /\ ~ExpungeThrows(mb, n) /\ task.status = "DONE"
             => mb' = SaveSyncStateAndUids(HandleExpunge(m, n))
       /\ IsKnown(n) /\ ~ExpungeThrows(mb, n) /\ task.status # "DONE"
             => mb' = HandleExpunge(m, n)
  BY <1>10, <1>11
<1> QED
  BY <1>6, <1>7, <1>8, <1>9, <1>12

LEMMA KeepExpungeMoves ==
    ASSUME TypeOK, TypeOK', SyncInv, KeepExpunge
    PROVE  Moves
<1>1. /\ net # <<>> /\ Head(net).t = "EXPUNGE" /\ mb \in Mailbox /\ Head(net) \in Response
      /\ task.status = "KEEP"
  BY HeadType DEF KeepExpunge, Next1, TypeOK, Resp
<1>2. PICK n : n = Head(net).n
  OBVIOUS
<1>3. n \in Nat
  BY <1>1, <1>2, ResponseFields
<1>4. CASE Throw("UnknownMessageIndex")
  BY <1>4, ThrowMoves
<1>5. CASE ~ExpungeThrows(mb, n) /\ Handled
           /\ Update(SaveSyncStateNowOrLater([HandleExpunge(mb, n) EXCEPT !.sync.exists = @ - 1]))
  <2>1. PICK x : x = HandleExpunge(mb, n)
    OBVIOUS
  <2>2. /\ x \in Mailbox /\ x.list = RemoveAt(mb.list, n) /\ n \in 1..Len(mb.list)
        /\ x.st = "DONE" \/ SameDisk(mb, x)
    BY <1>1, <1>3, <1>5, <2>1, HandleExpungeDoes, HandleExpungeType
  <2>3. PICK m : m = [x EXCEPT !.sync.exists = @ - 1]
    OBVIOUS
  <2>4. m.list = x.list /\ m.disk = x.disk /\ m.st = x.st
    BY <2>2, <2>3 DEF Mailbox
  <2>5. mb' = SaveSyncStateNowOrLater(m)
    BY <1>5, <2>1, <2>3 DEF Update
  <2>6. m \in [list: Seq(Message), st: FetchStatus, sync: [exists: Int, uidNext: Nat, uidVal: Nat, modSeq: Nat], disk: Disk]
    BY <2>2, <2>3 DEF Mailbox, SyncState
  <2>7. mb'.list = m.list /\ (IsSaved(mb') \/ (mb'.disk = m.disk /\ m.st # "DONE"))
    <3>1. CASE m.st = "DONE"
      <4>1. mb' = [m EXCEPT !.disk.sync = m.sync, !.disk.uids = Uids(m.list), !.st = "DONE"]
        BY <2>5, <3>1 DEF SaveSyncStateNowOrLater, SaveSyncStateAndUids
      <4>2. mb'.list = m.list /\ mb'.sync = m.sync
        BY <2>6, <4>1
      <4>3. mb'.disk.uids = Uids(m.list)
        BY <2>6, <4>1 DEF Disk
      <4>4. mb'.disk.sync = m.sync
        BY <2>6, <4>1 DEF Disk
      <4> QED
        BY <4>2, <4>3, <4>4 DEF IsSaved
    <3>2. CASE m.st # "DONE"
      BY <2>5, <2>6, <3>2 DEF SaveSyncStateNowOrLater
    <3> QED
      BY <3>1, <3>2
  <2>8. DiskStep
    <3>1. task' = task
      BY <1>5 DEF Update
    <3> QED
      BY <1>1, <2>2, <2>4, <2>7, <3>1 DEF DiskStep, SameDisk, UidsAreKnown
  <2> QED
    BY <1>1, <1>2, <1>5, <2>2, <2>4, <2>7, <2>8, ExpungeMoves DEF UidsAreKnown
<1> QED
  BY <1>2, <1>4, <1>5 DEF KeepExpunge, Resp

\* A FETCH changes no UID but, when it tells one, that of a new message.
LEMMA HandleFetchMoves ==
    ASSUME TypeOK, NEW hs, FollowsServer(hs), Pending, HandleFetch
    PROVE  Moves
<1>1. PICK r : r = Head(net)
  OBVIOUS
<1>2. net # <<>> /\ r.t = "FETCH" /\ mb \in Mailbox /\ r \in Response
  BY <1>1, HeadType DEF HandleFetch, Next1, TypeOK, Resp
<1>3. r \in [t: {"FETCH"}, n: Nat, uid: 0..MaxUid, fl: Nat, mod: Nat]
  BY <1>2, ResponseFields
<1>4. /\ Len(net) \in Nat /\ Len(net) >= 1 /\ r = net[1]
  BY <1>1, <1>2, TailElements DEF TypeOK
<1>5. 1 \in 1..Len(net)
  BY <1>4
<1>6. Tells(r, hs[1], hs[1 + 1])
  BY <1>4, <1>5 DEF FollowsServer, History
<1>7. r.mod = 0
  BY <1>2, <1>6 DEF Tells
<1>8. CASE \E e : Throw(e)
  BY <1>8, ThrowMoves
<1>9. ASSUME NEW m, m = HandleFetchResponse(mb, r), ~FetchThrows(mb, r), Handled,
             UNCHANGED <<task, cmds>>,
             mb' = m \/ mb' = [m EXCEPT !.sync.uidNext = m.list[r.n].uid + 1]
      PROVE  Moves
  <2>1. m \in Mailbox /\ Len(m.list) = Len(mb.list)
    BY <1>2, <1>3, <1>9, HandleFetchResponseType
  <2>2. /\ SameDisk(mb, m) /\ r.n \in 1..Len(mb.list)
        /\ \A j \in 1..Len(mb.list) :
              m.list[j].uid = IF j = r.n /\ UidLearnt(mb, r) THEN r.uid ELSE mb.list[j].uid
    BY <1>2, <1>3, <1>7, <1>9, HandleFetchDoes
  <2>3. mb'.list = m.list /\ mb'.disk = m.disk
    BY <1>9, <2>1 DEF Mailbox
  <2>4. mb.list \in Seq(Message) /\ Len(mb.list) \in Nat
    BY <1>2, MailboxFields
  <2>5. CASE r.uid = 0
    <3>1. ~UidLearnt(mb, r)
      BY <2>5 DEF UidLearnt
    <3>2. Longer(mb.list, mb'.list)
      BY <2>1, <2>2, <2>3, <2>4, <3>1 DEF Longer
    <3> QED
      BY <2>2, <2>3, <3>2 DEF Moves, ListStep, DiskStep, SameDisk
  <2>6. CASE r.uid # 0
    <3>1. task.status \in UidsAreKnown
      BY <1>2, <1>4, <1>5, <2>6, UidsWanted
    <3>2. \A j \in 1..Len(mb.list) : mb.list[j].uid # 0 => mb'.list[j].uid = mb.list[j].uid
      BY <2>2, <2>3 DEF UidLearnt
    <3>3. Learns(mb.list, mb'.list) /\ task'.status \in UidsAreKnown
      BY <1>9, <2>1, <2>3, <2>4, <3>1, <3>2 DEF Learns
    <3> QED
      BY <2>2, <2>3, <3>3 DEF Moves, ListStep, DiskStep, SameDisk
  <2> QED
    BY <2>5, <2>6
<1>10. PICK m : m = HandleFetchResponse(mb, r)
  OBVIOUS
<1>11. CASE /\ ~FetchThrows(mb, r) /\ Handled /\ UNCHANGED <<task, cmds>>
            /\ mb' = m \/ mb' = [m EXCEPT !.sync.uidNext = m.list[r.n].uid + 1]
  BY <1>9, <1>10, <1>11
<1> QED
  BY <1>1, <1>8, <1>10, <1>11 DEF HandleFetch, Resp, Update

\* The UID SEARCH replaces what it asked for.
LEMMA HandleSearchMoves ==
    ASSUME TypeOK, NEW hs, FollowsServer(hs), HandleSearch
    PROVE  Moves
<1>1. net # <<>> /\ Head(net).t = "SEARCH" /\ mb \in Mailbox /\ Head(net) \in Response /\ task \in Task
  BY HeadType DEF HandleSearch, Next1, TypeOK, Resp
<1>2. CASE \E e : Throw(e)
  BY <1>2, ThrowMoves
<1>3. CASE Abort
  BY <1>3, StopMoves DEF Abort
<1>4. CASE ~(task.firstUnknown > Len(mb.list)) /\ Handled /\ FinalizeSearch(Head(net).uids)
  <2>1. PICK uids \in Seq(Uid) : uids = Head(net).uids
    BY <1>1, ResponseFields
  <2>2. PICK f \in Nat : f = task.firstUnknown
    BY <1>1, TaskFields
  <2>3. f \in 0..Len(mb.list)
    BY <1>1, <1>4, <2>2, MailboxFields
  <2>4. PICK m : m = ApplyUids(mb, f, uids)
    OBVIOUS
  <2>5. m \in Mailbox /\ SameDisk(mb, m)
    BY <1>1, <2>3, <2>4, ApplyUidsType, ApplyUidsDoes
  <2>6. mb' = UpdateHighestKnownUid(m) /\ task' = [task EXCEPT !.status = "SYNCING_FLAGS"]
    BY <1>4, <2>1, <2>2, <2>4 DEF FinalizeSearch
  <2>7. SameDisk(m, mb')
    BY <2>5, <2>6, UpdateHighestKnownUidDoes
  <2>8. task'.status = "SYNCING_FLAGS"
    BY <1>1, <2>6 DEF Task
  <2> QED
    BY <1>4, <2>5, <2>7, <2>8 DEF Moves, ListStep, DiskStep, SameDisk
<1> QED
  BY <1>2, <1>3, <1>4 DEF HandleSearch, Resp

LEMMA CompleteMoves ==
    ASSUME TypeOK, NEW m \in Mailbox, Complete(m), m.list = mb.list
    PROVE  Moves
<1>1. mb' = SaveSyncStateAndUids(m)
  BY DEF Complete
<1>2. mb'.list = m.list /\ IsSaved(mb') /\ task'.status = "KEEP"
  BY <1>1, SaveType, SaveDoes DEF Complete, KeepTask
<1> QED
  BY <1>2, SameMoves DEF DiskStep, UidsAreKnown

\* FullMboxSync forgets every UID.
LEMMA FullMoves ==
    ASSUME TypeOK, NEW m \in Mailbox, NEW tk, FullMboxSync(m, tk), task.status = "SELECTING",
           m.disk.sync.uidVal # srv.val \/ m.sync.exists = 0,
           m.disk = mb.disk \/ m.disk.uids = <<>>
    PROVE  Moves
<1>1. PICK n \in Nat : n = m.sync.exists
  BY MailboxFields
<1>2. PICK fresh : fresh = [m EXCEPT !.list = Unknown(n)]
  OBVIOUS
<1>3. Unknown(n) \in Seq(Message) /\ Len(Unknown(n)) = n
  BY UnknownType
<1>4. fresh \in Mailbox /\ fresh.list = Unknown(n) /\ fresh.disk = m.disk
  BY <1>2, <1>3 DEF Mailbox
<1>5. IF n > 0 THEN SyncUids(fresh, tk, "ALL", 0, 0) ELSE Complete(fresh)
  BY <1>1, <1>2 DEF FullMboxSync
<1>6. \/ n > 0 /\ mb' = fresh
      \/ n = 0 /\ mb'.list = fresh.list /\ IsSaved(mb') /\ task'.status = "KEEP"
  <2>1. CASE n > 0
    BY <1>5, <2>1 DEF SyncUids
  <2>2. CASE n = 0
    <3>1. Complete(fresh)
      BY <1>5, <2>2
    <3>2. mb' = SaveSyncStateAndUids(fresh) /\ task'.status = "KEEP"
      BY <3>1 DEF Complete, KeepTask
    <3> QED
      BY <1>4, <2>2, <3>2, SaveType, SaveDoes
  <2> QED
    BY <2>1, <2>2
<1>7. Rebuilt
  <2>1. \A j \in 1..n : Unknown(n)[j].uid = 0
    BY UnknownUids
  <2> QED
    BY <1>3, <1>4, <1>6, <2>1 DEF Rebuilt
<1>8. CASE n > 0
  <2>1. mb'.disk = m.disk /\ m.disk.sync.uidVal # srv.val
    BY <1>1, <1>4, <1>6, <1>8
  <2> QED
    BY <1>7, <2>1 DEF Moves, ListStep, DiskStep, SameDisk, Forgets
<1>9. CASE n = 0
  <2>1. Uids(mb'.list) = <<>>
    <3>1. mb'.list \in Seq(Message) /\ Len(mb'.list) = 0
      BY <1>3, <1>4, <1>6, <1>9
    <3>2. Uids(mb'.list) \in Seq(0..MaxUid) /\ Len(Uids(mb'.list)) = 0
      BY <3>1, UidsType
    <3> QED
      BY <3>2, EmptySeq
  <2>2. mb'.disk.uids = <<>>
    BY <1>6, <1>9, <2>1 DEF IsSaved
  <2> QED
    BY <1>7, <2>2 DEF Moves, ListStep, DiskStep, Forgets
<1> QED
  BY <1>8, <1>9

\* When nothing has changed the list comes from the cache, if it is not there already.
LEMMA NoNewMoves ==
    ASSUME Plain, TypeOK, NEW tk \in Task, SyncNoNewNoDeletions(mb, tk)
    PROVE  /\ Moves /\ SameDisk(mb, mb') /\ mb'.st = "DONE" /\ task'.status = "SYNCING_FLAGS"
           /\ mb'.list = mb.list \/ (mb.list = <<>> /\ FromDisk)
<1>1. PICK filled : filled = IF mb.list = <<>>
                            THEN [mb EXCEPT !.list = [i \in 1..Len(mb.disk.uids) |->
                                                       [uid |-> mb.disk.uids[i], fl |-> 0]]]
                            ELSE mb
  OBVIOUS
<1>2. PICK m : m = [filled EXCEPT !.st = "DONE"]
  OBVIOUS
<1>3. SyncFlags(m, tk)
  BY <1>1, <1>2 DEF SyncNoNewNoDeletions
<1>4. mb' = m /\ task'.status = "SYNCING_FLAGS"
  BY <1>3, SyncFlagsPlain
<1>5. mb \in Mailbox /\ Len(mb.disk.uids) \in Nat
  BY MailboxFields DEF TypeOK
<1>6. mb'.disk = mb.disk /\ mb'.st = "DONE"
  <2>1. filled.disk = mb.disk /\ DOMAIN filled = DOMAIN mb
    BY <1>1, <1>5 DEF Mailbox
  <2> QED
    BY <1>2, <1>4, <1>5, <2>1 DEF Mailbox
<1>7. CASE mb.list # <<>>
  <2>1. mb'.list = mb.list
    BY <1>1, <1>2, <1>4, <1>5, <1>7 DEF Mailbox
  <2> QED
    BY <1>4, <1>6, <2>1, SameMoves DEF DiskStep, SameDisk
<1>8. CASE mb.list = <<>>
  <2>1. PICK n \in Nat : n = Len(mb.disk.uids)
    BY <1>5
  <2>2. filled = [mb EXCEPT !.list = [i \in 1..n |-> [uid |-> mb.disk.uids[i], fl |-> 0]]]
    BY <1>1, <1>8, <2>1
  <2>3. mb'.list = [i \in 1..n |-> [uid |-> mb.disk.uids[i], fl |-> 0]]
    BY <1>2, <1>4, <1>5, <2>2 DEF Mailbox
  <2>4. Len(mb'.list) = n
    BY <2>3
  <2>5. FromDisk
    BY <2>1, <2>3, <2>4 DEF FromDisk
  <2> QED
    BY <1>4, <1>6, <1>8, <2>5 DEF Moves, ListStep, DiskStep, SameDisk
<1> QED
  BY <1>7, <1>8

LEMMA FinalizeSelectMoves ==
    ASSUME Plain, TypeOK, task.status = "SELECTING", NEW h, h.val = srv.val, NEW tk \in Task,
           Decides(tk, h)
    PROVE  Moves
<1>1. PICK cleared : cleared = ClearAllMessages(mb)
  OBVIOUS
<1>2. mb \in Mailbox /\ cleared \in Mailbox
  BY <1>1, ClearAllMessagesType DEF TypeOK
<1>3. cleared.disk.uids = <<>> /\ cleared.disk.sync = mb.disk.sync /\ cleared.sync = mb.sync
  <2>1. cleared.disk.uids = <<>>
    BY <1>1, <1>2 DEF ClearAllMessages, Mailbox, Disk
  <2>2. cleared.disk.sync = mb.disk.sync /\ cleared.sync = mb.sync
    BY <1>1, <1>2, ClearAllMessagesDoes, ClearAllMessagesType
  <2> QED
    BY <2>1, <2>2
<1>4. CASE /\ FullMboxSync(mb, tk) \/ FullMboxSync(cleared, tk)
           /\ mb.disk.sync.uidVal # h.val \/ mb.sync.exists = 0
  <2>1. PICK w : w \in {mb, cleared} /\ FullMboxSync(w, tk)
    BY <1>4
  <2>2. /\ w \in Mailbox /\ (w.disk = mb.disk \/ w.disk.uids = <<>>)
        /\ w.disk.sync.uidVal # srv.val \/ w.sync.exists = 0
    BY <1>2, <1>3, <1>4, <2>1
  <2> QED
    BY <2>1, <2>2, FullMoves
<1>5. CASE SyncNoNewNoDeletions(mb, tk)
  BY <1>5, NoNewMoves
<1>6. CASE mb' = mb
  BY <1>6, LostMoves
<1> QED
  BY <1>1, <1>4, <1>5, <1>6 DEF Decides, SyncUids

LEMMA SelectOkMoves ==
    ASSUME Plain, TypeOK, NEW hs, FollowsServer(hs), SelectOk
    PROVE  Moves
<1>1. CASE \E e : Throw(e)
  BY <1>1, ThrowMoves
<1>2. CASE Abort
  BY <1>2, StopMoves DEF Abort
<1>3. CASE task.status = "SELECTING" /\ Handled /\ FinalizeSelect(mb)
  <2>1. hs[1].val = srv.val /\ \E tk \in Task : Decides(tk, hs[1])
    BY <1>3, SelectOkDecides
  <2>2. PICK tk \in Task : Decides(tk, hs[1])
    BY <2>1
  <2> QED
    BY <1>3, <2>1, <2>2, FinalizeSelectMoves
<1> QED
  BY <1>1, <1>2, <1>3 DEF SelectOk

LEMMA LinesMove ==
    ASSUME Plain, TypeOK,
           SearchOk \/ FlagsOk \/ ObtainArrivalsOk \/ ObtainNo \/ KeepArrivalsFinished \/ Unhandled
    PROVE  Moves
<1>1. mb \in Mailbox /\ task \in Task
  BY DEF TypeOK
<1>2. CASE mb' = mb
  BY <1>2, LostMoves
<1>3. CASE \E e : Throw(e)
  BY <1>3, ThrowMoves
<1>4. CASE Abort
  BY <1>4, StopMoves DEF Abort
<1>5. CASE Complete(mb)
  BY <1>1, <1>5, CompleteMoves
<1>6. CASE SyncFlags(mb, task)
  BY <1>1, <1>2, <1>6, SyncFlagsPlain
<1>7. CASE KeepArrivalsFinished
  <2>1. mb' = mb \/ mb' = SaveSyncStateAndUids(mb)
    BY <1>7 DEF KeepArrivalsFinished
  <2>2. CASE mb' = SaveSyncStateAndUids(mb)
    <3>1. mb'.list = mb.list /\ IsSaved(mb')
      BY <1>1, <2>2, SaveType, SaveDoes
    <3>2. task'.status = "KEEP"
      BY <1>1, <1>7 DEF KeepArrivalsFinished, ArrivalsDone, Task
    <3> QED
      BY <3>1, <3>2, SameMoves DEF DiskStep, UidsAreKnown
  <2> QED
    BY <1>2, <2>1, <2>2
<1>8. CASE SearchOk \/ FlagsOk
  BY <1>2, <1>4, <1>5, <1>6, <1>8 DEF SearchOk, FlagsOk
<1>9. CASE ObtainArrivalsOk
  BY <1>2, <1>5, <1>9 DEF ObtainArrivalsOk
<1>10. CASE ObtainNo \/ Unhandled
  BY <1>2, <1>3, <1>10 DEF ObtainNo, Failed, Unhandled
<1> QED
  BY <1>7, <1>8, <1>9, <1>10

LEMMA PerformMoves ==
    ASSUME TypeOK, NEW hs, FollowsServer(hs), Perform
    PROVE  Moves
<1>1. mb \in Mailbox
  BY DEF TypeOK
<1>2. PICK m : m = Populate(mb)
  OBVIOUS
<1>3. m \in Mailbox
  BY <1>1, <1>2, PopulateType
<1>4. mb' = [m EXCEPT !.st = "LOADING", !.sync = NoSync]
  BY <1>2 DEF Perform
<1>5. mb'.list = m.list /\ mb'.disk = m.disk
  BY <1>3, <1>4 DEF Mailbox
<1>6. /\ SameDisk(mb, m)
      /\ \/ m = mb
         \/ /\ mb.st = "NONE" /\ Len(m.list) = Len(mb.disk.uids)
            /\ \A j \in 1..Len(mb.disk.uids) : m.list[j].uid = mb.disk.uids[j]
  BY <1>1, <1>2, PopulateDoes
<1>7. DiskStep
  BY <1>5, <1>6 DEF DiskStep, SameDisk
<1>8. CASE m = mb
  BY <1>5, <1>7, <1>8, SameMoves
<1>9. CASE /\ mb.st = "NONE" /\ Len(m.list) = Len(mb.disk.uids)
           /\ \A j \in 1..Len(mb.disk.uids) : m.list[j].uid = mb.disk.uids[j]
  <2>1. mb.list = <<>>
    BY <1>9 DEF FollowsServer, Client
  <2>2. task'.status = "SELECTING"
    BY DEF Perform, NoTask
  <2>3. FromDisk
    BY <1>5, <1>9 DEF FromDisk
  <2> QED
    BY <1>7, <2>1, <2>2, <2>3 DEF Moves, ListStep
<1> QED
  BY <1>6, <1>8, <1>9

\* Every step of a program whose server refuses nothing.
LEMMA NextMoves ==
    ASSUME Reliable, TypeOK, TypeOK', SyncInv, NEW hs, FollowsServer(hs), Pending, [Next]_vars
    PROVE  Moves
<1>1. Plain
  BY DEF Reliable
<1>2. CASE mb' = mb
  BY <1>2, LostMoves
<1>3. CASE ServerChange \/ Recreate \/ SendData \/ SendTagged \/ Drop \/ UNCHANGED vars
  BY <1>2, <1>3 DEF ServerChange, Arrive, ServerExpunge, ServerFlag, Recreate, SendData,
     SendTagged, Drop, vars
<1>4. CASE Restart
  BY <1>4, StopMoves DEF Restart
<1>5. CASE Perform
  BY <1>5, PerformMoves
<1>6. CASE HandleResponse
  <2>1. ~Vanished /\ ~VanishedEarlier
    BY NoneVanished
  <2>2. CASE HandleCodes \/ ObtainExists \/ KeepExists \/ ObtainExpunge \/ KeepExpunge
    BY <2>2, HandleCodesMoves, ObtainExistsMoves, KeepExistsMoves, ObtainExpungeMoves,
       KeepExpungeMoves
  <2>3. CASE HandleFetch \/ HandleSearch \/ SelectOk
    BY <1>1, <2>3, HandleFetchMoves, HandleSearchMoves, SelectOkMoves
  <2>4. CASE \/ SearchOk \/ FlagsOk \/ ObtainArrivalsOk \/ ObtainNo
             \/ KeepArrivalsFinished \/ Unhandled
    BY <1>1, <2>4, LinesMove
  <2> QED
    BY <1>6, <2>1, <2>2, <2>3, <2>4 DEF HandleResponse
<1> QED
  BY <1>3, <1>4, <1>5, <1>6 DEF Next

\* The messages of the list whose UIDs are known are in the order of their UIDs, whatever
\* the order in which EXISTS, EXPUNGE, FETCH and the UID SEARCH of a server that refuses
\* nothing come: findMessagesByUids and applyUids search the list by bisection.
THEOREM ListStaysOrdered ==
    ASSUME Reliable
    PROVE  Spec => []ListAscending
<1>1. Init => Ordered
  <2>1. ASSUME NEW uids, uids = <<>> PROVE Ascending(uids)
    <3>1. Len(uids) = 0
      BY <2>1, EmptySeq
    <3> QED
      BY <3>1 DEF Ascending
  <2>2. ASSUME Init PROVE Uids(mb.list) = <<>> /\ mb.disk.uids = <<>>
    <3>1. mb.list = <<>> /\ mb.disk = EmptyDisk
      BY <2>2 DEF Init
    <3>2. Len(<<>>) = 0
      BY EmptySeq
    <3>3. Uids(mb.list) \in Seq(0..MaxUid) /\ Len(Uids(mb.list)) = 0
      <4>1. <<>> \in Seq(Message)
        BY EmptySeq
      <4> QED
        BY <3>1, <3>2, <4>1, UidsType
    <3> QED
      BY <3>1, <3>3, EmptySeq DEF EmptyDisk
  <2> QED
    BY <2>1, <2>2 DEF Ordered, ListAscending
<1>2. TypeOK /\ SyncInv /\ KeepsUp /\ Pending /\ Ordered /\ TypeOK' /\ KeepsUp' /\ [Next]_vars
      => Ordered'
  <2> SUFFICES ASSUME TypeOK, SyncInv, KeepsUp, Pending, Ordered, TypeOK', KeepsUp', [Next]_vars
               PROVE  Ordered'
    OBVIOUS
  <2>1. PICK hs \in Seq(Server) : FollowsServer(hs)
    BY DEF KeepsUp
  <2>2. Moves
    BY <2>1, NextMoves
  <2> QED
    BY <2>2, StepOrdered DEF Moves
<1>3. Spec => [](TypeOK /\ SyncInv /\ KeepsUp /\ Pending)
  BY ReliableKeepsUp
<1>4. Ordered => ListAscending
  BY DEF Ordered
<1> QED
  BY <1>1, <1>2, <1>3, <1>4, PTL DEF Spec

----------------------------------------------------------------------------
(* What leaves the list has left the mailbox.                              *)

LEMMA RestElsewhere ==
    ASSUME task'.status # "SYNCING_UIDS"
    PROVE  RestAsked'
BY DEF RestAsked

LEMMA RestSame ==
    ASSUME RestAsked, mb'.list = mb.list, task'.status = task.status,
           task'.firstUnknown = task.firstUnknown, SearchArg(task') = SearchArg(task)
    PROVE  RestAsked'
BY DEF RestAsked

\* Nothing is kept by a UID SEARCH for all messages.
LEMMA MayReplaceAll ==
    ASSUME TypeOK', task'.mode = "ALL", task'.firstUnknown = 0
    PROVE  RestAsked'
<1>1. SearchArg(task') = 0
  BY DEF SearchArg
<1>2. \A p \in 1..Len(mb'.list) : mb'.list[p].uid \in Nat
  BY MailboxFields, ListUids DEF TypeOK
<1>3. \A p \in 1..Len(mb'.list) : mb'.list[p].uid >= 0 /\ ~(p <= 0)
  BY <1>2
<1> QED
  BY <1>1, <1>3 DEF RestAsked

\* EXISTS and FETCH change no known UID while the UID SEARCH is under way.
LEMMA RestMoved ==
    ASSUME TypeOK, TypeOK', NEW hs, FollowsServer(hs), RestAsked, Moves, task' = task, net # <<>>,
           Head(net).t \in {"EXISTS", "FETCH"}
    PROVE  RestAsked'
<1>1. CASE task.status # "SYNCING_UIDS"
  BY <1>1, RestElsewhere
<1>2. CASE task.status = "SYNCING_UIDS"
  <2>1. Longer(mb.list, mb'.list)
    <3>1. \A n : ~Removes(n)
      BY DEF Removes
    <3> QED
      BY <1>2, <3>1 DEF Moves, ListStep, UidsAreKnown, Forgets
  <2>2. task.firstUnknown <= Len(mb.list)
    BY <1>2 DEF FollowsServer, Client, UidsAsked
  <2>3. Len(mb.list) \in Nat /\ Len(mb'.list) \in Nat /\ task.firstUnknown \in Nat
    BY MailboxFields, TaskFields DEF TypeOK
  <2>4. ASSUME NEW p \in 1..Len(mb'.list)
        PROVE  IF p <= task.firstUnknown THEN mb'.list[p].uid # 0
               ELSE mb'.list[p].uid = 0 \/ mb'.list[p].uid >= SearchArg(task)
    <3>1. mb'.list[p].uid = IF p <= Len(mb.list) THEN mb.list[p].uid ELSE 0
      BY <2>1 DEF Longer
    <3>2. p <= Len(mb.list) => p \in 1..Len(mb.list)
      BY <2>3
    <3>3. p <= task.firstUnknown => p <= Len(mb.list)
      BY <2>2, <2>3
    <3> QED
      BY <1>2, <3>1, <3>2, <3>3 DEF RestAsked
  <2> QED
    BY <2>4 DEF RestAsked
<1> QED
  BY <1>1, <1>2

LEMMA RemovedIsNew ==
    ASSUME NEW a \in Seq(Message), NEW n \in 1..Len(a), NEW f \in Nat, n <= f, NEW first,
           \A p \in 1..Len(a) : IF p <= f THEN a[p].uid # 0
                                ELSE a[p].uid = 0 \/ a[p].uid >= first,
           NEW p \in 1..Len(RemoveAt(a, n))
    PROVE  IF p <= f - 1 THEN RemoveAt(a, n)[p].uid # 0
           ELSE RemoveAt(a, n)[p].uid = 0 \/ RemoveAt(a, n)[p].uid >= first
<1>1. /\ Len(RemoveAt(a, n)) = Len(a) - 1 /\ Len(a) \in Nat
      /\ \A j \in 1..(Len(a) - 1) : RemoveAt(a, n)[j] = IF j < n THEN a[j] ELSE a[j + 1]
  BY RemoveAtElements, LenProperties
<1>2. p \in 1..(Len(a) - 1) /\ p \in 1..Len(a) /\ p + 1 \in 1..Len(a)
  BY <1>1
<1>3. PICK q \in 1..Len(a) : RemoveAt(a, n)[p] = a[q] /\ q = IF p < n THEN p ELSE p + 1
  BY <1>1, <1>2
<1>4. (p <= f - 1 => q <= f) /\ (~(p <= f - 1) => ~(q <= f))
  BY <1>2, <1>3
<1> QED
  BY <1>3, <1>4

LEMMA ObtainExpungeRest ==
    ASSUME TypeOK, TypeOK', SyncInv, NEW hs, FollowsServer(hs), RestAsked, ObtainExpunge
    PROVE  RestAsked'
<1>1. /\ mb \in Mailbox /\ Head(net) \in Response /\ task \in Task /\ Head(net).t = "EXPUNGE"
  BY HeadType DEF ObtainExpunge, Next1, TypeOK, Resp
<1>2. PICK n : n = Head(net).n
  OBVIOUS
<1>3. n \in Nat /\ mb.list \in Seq(Message) /\ task.firstUnknown \in Nat
  BY <1>1, <1>2, ResponseFields, MailboxFields, TaskFields
<1>4. PICK m : m = [mb EXCEPT !.sync.exists = OneLess(@)]
  OBVIOUS
<1>5. m.list = mb.list /\ m \in Mailbox
  <2>1. OneLess(mb.sync.exists) \in Nat
    BY <1>1, MailboxFields DEF OneLess
  <2>2. m.list = mb.list
    BY <1>1, <1>4 DEF Mailbox
  <2>3. m \in Mailbox
    BY <1>1, <1>4, <2>1 DEF Mailbox, SyncState
  <2> QED
    BY <2>2, <2>3
<1>6. CASE IsKnown(n) /\ ExpungeThrows(mb, n)
  <2>1. Throw("UnknownMessageIndex")
    BY <1>2, <1>6 DEF ObtainExpunge, Resp
  <2>2. task'.status = "OFF"
    BY <2>1 DEF Throw, Disconnected, NoTask
  <2> QED
    BY <2>2, RestElsewhere
<1>7. CASE ~IsKnown(n)
  <2>1. task' = task
    BY <1>2, <1>7 DEF ObtainExpunge, Resp
  <2>2. mb' = m
    BY <1>2, <1>4, <1>7 DEF ObtainExpunge, Resp, IsKnown
  <2> QED
    BY <1>5, <2>1, <2>2, RestSame
<1>8. CASE IsKnown(n) /\ ~ExpungeThrows(mb, n) /\ task.status # "SYNCING_UIDS"
  <2>1. task' = IF task.status \in {"SELECTING", "SYNCING_UIDS"}
                THEN [task EXCEPT !.firstUnknown = @ - 1] ELSE task
    BY <1>2, <1>8 DEF ObtainExpunge, Resp
  <2>2. task'.status = task.status
    BY <1>1, <2>1 DEF Task
  <2> QED
    BY <1>8, <2>2, RestElsewhere
<1>9. CASE IsKnown(n) /\ ~ExpungeThrows(mb, n) /\ task.status = "SYNCING_UIDS"
  <2>1. task' = [task EXCEPT !.firstUnknown = @ - 1]
    BY <1>2, <1>9 DEF ObtainExpunge, Resp
  <2>2. mb' = HandleExpunge(m, n)
    BY <1>2, <1>4, <1>9 DEF ObtainExpunge, Resp
  <2>3. ~ExpungeThrows(m, n)
    BY <1>5, <1>9 DEF ExpungeThrows
  <2>4. n \in 1..Len(mb.list) /\ mb'.list = RemoveAt(mb.list, n)
    BY <1>3, <1>5, <2>2, <2>3, HandleExpungeDoes
  <2>5. /\ task'.firstUnknown = task.firstUnknown - 1 /\ task'.mode = task.mode
        /\ task'.old = task.old
    BY <1>1, <2>1 DEF Task
  <2>6. SearchArg(task') = SearchArg(task)
    BY <2>5 DEF SearchArg
  <2>7. n <= task.firstUnknown
    BY <1>9 DEF IsKnown
  <2>8. \A p \in 1..Len(mb.list) :
           IF p <= task.firstUnknown THEN mb.list[p].uid # 0
           ELSE mb.list[p].uid = 0 \/ mb.list[p].uid >= SearchArg(task)
    BY <1>9 DEF RestAsked
  <2>9. PICK f \in Nat : f = task.firstUnknown
    BY <1>3
  <2>10. PICK first : first = SearchArg(task)
    OBVIOUS
  <2>11. PICK a \in Seq(Message) : a = mb.list
    BY <1>3
  <2>12. \A p \in 1..Len(a) : IF p <= f THEN a[p].uid # 0
                              ELSE a[p].uid = 0 \/ a[p].uid >= first
    BY <2>8, <2>9, <2>10, <2>11
  <2>13. \A p \in 1..Len(RemoveAt(a, n)) :
            IF p <= f - 1 THEN RemoveAt(a, n)[p].uid # 0
            ELSE RemoveAt(a, n)[p].uid = 0 \/ RemoveAt(a, n)[p].uid >= first
    BY <2>4, <2>7, <2>9, <2>11, <2>12, RemovedIsNew
  <2> QED
    BY <2>4, <2>5, <2>6, <2>9, <2>10, <2>11, <2>13 DEF RestAsked
<1> QED
  BY <1>6, <1>7, <1>8, <1>9

\* A UID SEARCH for new messages starts where the cached UIDs end.
LEMMA SelectOkRest ==
    ASSUME Plain, TypeOK, TypeOK', NEW hs, FollowsServer(hs), CacheKnown(mb, srv.val, hs[1]), SelectOk
    PROVE  RestAsked'
<1>1. CASE \E e : Throw(e)
  BY <1>1, RestElsewhere DEF Throw, Disconnected, NoTask
<1>2. CASE Abort
  BY <1>2, RestElsewhere DEF Abort, Stop, Disconnected, NoTask
<1>3. CASE task.status = "SELECTING" /\ Handled /\ FinalizeSelect(mb)
  <2>1. PICK h : h = hs[1]
    OBVIOUS
  <2>2. /\ Sane(h) /\ OnDisk(mb, h.val, h) /\ mb \in Mailbox /\ srv.val = h.val
        /\ mb.st # "NONE" /\ SyncIs(mb, h)
    BY <1>3, <2>1, SelectOkDecides DEF TypeOK
  <2>3. PICK tk \in Task : Decides(tk, h)
    BY <1>3, <2>1, SelectOkDecides
  <2>4. PICK old : old = mb.disk.sync
    OBVIOUS
  <2>5. old \in SyncState
    BY <2>2, <2>4, MailboxFields
  <2>6. ASSUME NEW m, FullMboxSync(m, tk) PROVE RestAsked'
    <3>1. PICK fresh : fresh = [m EXCEPT !.list = Unknown(m.sync.exists)]
      OBVIOUS
    <3>2. SyncUids(fresh, tk, "ALL", 0, 0) \/ Complete(fresh)
      BY <2>6, <3>1 DEF FullMboxSync
    <3>3. task' = [tk EXCEPT !.status = "SYNCING_UIDS", !.mode = "ALL", !.firstUnknown = 0]
          \/ task' = KeepTask
      BY <3>2 DEF SyncUids, Complete
    <3>4. task'.mode = "ALL" /\ task'.firstUnknown = 0
      BY <3>3 DEF Task, KeepTask, NoTask
    <3> QED
      BY <3>4, MayReplaceAll
  <2>7. CASE SyncNoNewNoDeletions(mb, tk)
    <3>1. PICK m : SyncFlags(m, tk)
      BY <2>7 DEF SyncNoNewNoDeletions
    <3>2. task'.status = "SYNCING_FLAGS"
      BY <3>1, SyncFlagsPlain
    <3> QED
      BY <3>2, RestElsewhere
  <2>8. CASE SyncUids(mb, tk, "ALL", 0, 0)
    <3>1. task'.mode = "ALL" /\ task'.firstUnknown = 0
      BY <2>8 DEF SyncUids, Task
    <3> QED
      BY <3>1, MayReplaceAll
  <2>9. CASE /\ SyncUids(mb, tk, "NEW", old.uidNext, old.exists)
             /\ OnlyArrivals(mb, old) /\ old.uidVal = h.val /\ tk.old = old
    <3>1. /\ old.exists = Len(mb.disk.uids) /\ Len(mb.list) <= Len(h.msgs)
          /\ FitsTo(mb.list, Len(mb.list), h) /\ Splits(h, old.uidNext, old.exists)
          /\ Surplus(mb.disk.uids, old.uidNext, h) = 0
      BY <2>2, <2>4, <2>9, NothingExpunged
    <3>2. task' = [tk EXCEPT !.status = "SYNCING_UIDS", !.mode = "NEW", !.firstUnknown = old.exists]
          /\ mb' = mb
      BY <2>9 DEF SyncUids
    <3>3. task'.mode = "NEW" /\ task'.old = old /\ task'.firstUnknown = old.exists
      BY <2>9, <3>2 DEF Task
    <3>4. SearchArg(task') = old.uidNext
      BY <3>3 DEF SearchArg
    <3>5. /\ Len(mb.list) \in Nat /\ Len(h.msgs) \in Nat /\ h.next \in Nat
          /\ old.exists \in Nat /\ old.uidNext \in Nat
      BY <2>2, <2>5, MailboxFields, SaneFields DEF SyncState
    <3>7. ASSUME NEW p \in 1..Len(mb.list), p > old.exists
          PROVE  mb.list[p].uid = 0 \/ mb.list[p].uid >= old.uidNext
      <4>1. mb.list[p].uid \in {0, h.msgs[p]} /\ p \in 1..Len(h.msgs)
        BY <3>1, <3>5 DEF FitsTo
      <4>2. h.msgs[p] >= old.uidNext
        BY <3>1, <3>7, <4>1 DEF Splits
      <4> QED
        BY <4>1, <4>2
    <3>8. ASSUME NEW p \in 1..Len(mb.list), p <= old.exists
          PROVE  mb.list[p].uid # 0
      <4>1. p \in 1..Len(mb.disk.uids)
        BY <3>1, <3>5, <3>8
      <4> QED
        BY <2>1, <2>2, <2>4, <2>9, <3>1, <4>1 DEF CacheKnown
    <3> QED
      BY <3>2, <3>3, <3>4, <3>5, <3>7, <3>8 DEF RestAsked
  <2> QED
    BY <2>3, <2>4, <2>6, <2>7, <2>8, <2>9 DEF Decides
<1> QED
  BY <1>1, <1>2, <1>3 DEF SelectOk

LEMMA LostRest ==
    ASSUME Disconnected
    PROVE  RestAsked'
BY RestElsewhere DEF Disconnected, NoTask

LEMMA ExistsRest ==
    ASSUME TypeOK, TypeOK', NEW hs, FollowsServer(hs), RestAsked, ObtainExists \/ KeepExists
    PROVE  RestAsked'
<1>1. net # <<>> /\ Head(net).t = "EXISTS" /\ Moves /\ task \in Task
  BY ObtainExistsMoves, KeepExistsMoves DEF ObtainExists, KeepExists, Next1, TypeOK
<1>2. CASE \E e : Throw(e)
  BY <1>2, LostRest DEF Throw
<1>3. CASE task' = task
  BY <1>1, <1>3, RestMoved
<1>4. CASE /\ task.status \in {"SYNCING_FLAGS", "DONE", "KEEP"}
           /\ task' = [task EXCEPT !.arrivals = @ + 1]
  <2>1. task'.status = task.status
    BY <1>1, <1>4 DEF Task
  <2> QED
    BY <1>4, <2>1, RestElsewhere
<1> QED
  BY <1>2, <1>3, <1>4 DEF ObtainExists, KeepExists, Update, AskForArrivals

LEMMA HandleFetchRest ==
    ASSUME TypeOK, TypeOK', NEW hs, FollowsServer(hs), Pending, RestAsked, HandleFetch
    PROVE  RestAsked'
<1>1. net # <<>> /\ Head(net).t = "FETCH" /\ Moves
  BY HandleFetchMoves DEF HandleFetch, Next1
<1>2. CASE \E e : Throw(e)
  BY <1>2, LostRest DEF Throw
<1>3. CASE task' = task
  BY <1>1, <1>3, RestMoved
<1> QED
  BY <1>2, <1>3 DEF HandleFetch, Update

LEMMA LinesRest ==
    ASSUME Plain, TypeOK, TypeOK', Pending, RestAsked,
           HandleSearch \/ SearchOk \/ FlagsOk \/ ObtainArrivalsOk \/ KeepArrivalsFinished
    PROVE  RestAsked'
<1>1. task \in Task
  BY DEF TypeOK
<1>2. CASE \E e : Throw(e)
  BY <1>2, LostRest DEF Throw
<1>3. CASE Abort
  BY <1>3, LostRest DEF Abort, Stop
<1>4. CASE task' = KeepTask
  BY <1>4, RestElsewhere DEF KeepTask, NoTask
<1>5. CASE task' = [task EXCEPT !.status = "SYNCING_FLAGS"]
  <2>1. task'.status = "SYNCING_FLAGS"
    BY <1>1, <1>5 DEF Task
  <2> QED
    BY <2>1, RestElsewhere
<1>6. CASE SyncFlags(mb, task)
  BY <1>1, <1>6, SyncFlagsPlain, RestElsewhere
<1>7. CASE task' = [task EXCEPT !.status = "DONE", !.flagsCmd = FALSE]
  <2>1. task'.status = "DONE"
    BY <1>1, <1>7 DEF Task
  <2> QED
    BY <2>1, RestElsewhere
<1>8. CASE task' = ArrivalsDone /\ task.arrivals > 0
  <2>1. task'.status = task.status
    BY <1>1, <1>8 DEF ArrivalsDone, Task
  <2>2. task.status \in UidsAreKnown
    BY <1>8 DEF Pending, OneTask
  <2> QED
    BY <2>1, <2>2, RestElsewhere DEF UidsAreKnown
<1>9. CASE HandleSearch
  BY <1>2, <1>3, <1>5, <1>9 DEF HandleSearch, FinalizeSearch
<1>10. CASE SearchOk
  BY <1>3, <1>6, <1>10 DEF SearchOk
<1>11. CASE FlagsOk
  BY <1>3, <1>4, <1>7, <1>11 DEF FlagsOk, Complete
<1>12. CASE ObtainArrivalsOk \/ KeepArrivalsFinished
  BY <1>4, <1>8, <1>12 DEF ObtainArrivalsOk, KeepArrivalsFinished, Complete
<1> QED
  BY <1>9, <1>10, <1>11, <1>12

LEMMA NextRest ==
    ASSUME Reliable, TypeOK, TypeOK', SyncInv, NEW hs, FollowsServer(hs), Pending, RestAsked,
           CacheKnown(mb, srv.val, hs[1]), [Next]_vars
    PROVE  RestAsked'
<1>1. Plain
  BY DEF Reliable
<1>2. CASE UNCHANGED <<task, mb>>
  BY <1>2, RestSame
<1>3. CASE ServerChange \/ Recreate \/ SendData \/ SendTagged \/ UNCHANGED vars
  BY <1>2, <1>3 DEF ServerChange, Arrive, ServerExpunge, ServerFlag, Recreate, SendData,
     SendTagged, vars
<1>4. CASE Drop \/ Restart
  BY <1>4, LostRest DEF Drop, Restart, Stop
<1>5. CASE Perform
  BY <1>5, RestElsewhere DEF Perform, NoTask
<1>6. CASE HandleCodes
  <2>1. mb'.list = mb.list
    BY <1>6 DEF HandleCodes, Update, TypeOK, Mailbox
  <2> QED
    BY <1>6, <2>1, RestSame DEF HandleCodes, Update
<1>7. CASE KeepExpunge
  <2>1. CASE Throw("UnknownMessageIndex")
    BY <2>1, LostRest DEF Throw
  <2>2. CASE task' = task
    BY <1>7, <2>2, RestElsewhere DEF KeepExpunge
  <2> QED
    BY <1>7, <2>1, <2>2 DEF KeepExpunge, Update
<1>8. CASE HandleResponse
  <2>1. ~Vanished /\ ~VanishedEarlier /\ ~ObtainNo /\ ~Unhandled
    BY NoneVanished, AllWanted
  <2>2. CASE ObtainExists \/ KeepExists
    BY <2>2, ExistsRest
  <2>3. CASE \/ HandleSearch \/ SearchOk \/ FlagsOk \/ ObtainArrivalsOk
             \/ KeepArrivalsFinished
    BY <1>1, <2>3, LinesRest
  <2>4. CASE ObtainExpunge
    BY <2>4, ObtainExpungeRest
  <2>5. CASE HandleFetch
    BY <2>5, HandleFetchRest
  <2>6. CASE SelectOk
    BY <1>1, <2>6, SelectOkRest
  <2> QED
    BY <1>6, <1>7, <1>8, <2>1, <2>2, <2>3, <2>4, <2>5, <2>6 DEF HandleResponse
<1> QED
  BY <1>3, <1>4, <1>5, <1>8 DEF Next

\* Message u has left the list.
Leaves(u) == InList(mb.list, u) /\ ~InList(mb'.list, u)

\* A UID that the state h knew of, and that is not in it, is not the server's either.
LEMMA NotAgain ==
    ASSUME NEW h, Sane(h), TypeOK, h = srv \/ Later(h, srv), NEW u \in Uid, u < h.next, ~Has(h, u)
    PROVE  ~Present(u)
<1>1. Present(u) <=> Has(srv, u)
  BY DEF Present, Has
<1> QED
  BY <1>1 DEF Later, NoneReturns

\* The message that an EXPUNGE removes is the one that it is about.
LEMMA RemovedIsExpunged ==
    ASSUME TypeOK, NEW hs, FollowsServer(hs), NEW n \in Nat, Removes(n),
           NEW u \in Uid, Leaves(u)
    PROVE  u < hs[2].next /\ ~Has(hs[2], u)
<1>1. PICK a : a = hs[1]
  OBVIOUS
<1>2. PICK b : b = hs[2]
  OBVIOUS
<1>3. /\ net # <<>> /\ Handled /\ Head(net).t = "EXPUNGE" /\ Head(net).n = n
      /\ n \in 1..Len(mb.list) /\ mb'.list = RemoveAt(mb.list, n)
  BY DEF Removes
<1>4. /\ n \in 1..Len(a.msgs) /\ b.msgs = RemoveAt(a.msgs, n) /\ b.next = a.next
      /\ Sane(a) /\ Sane(b) /\ Client(mb, task, srv.val, a)
  BY <1>1, <1>2, <1>3, ExpungeTells
<1>5. mb.list[n].uid \in {0, a.msgs[n]}
  <2>1. CASE task.status \in UidsAreKnown
    BY <1>3, <1>4, <2>1 DEF Client, Synced, Reflects, FitsTo
  <2>2. CASE task.status = "SYNCING_UIDS" /\ n <= task.firstUnknown
    <3>1. FitsTo(mb.list, task.firstUnknown, a)
      BY <1>4, <2>2 DEF Client, UidsAsked
    <3>2. n \in 1..task.firstUnknown
      BY <1>3, <2>2, TaskFields, MailboxFields DEF TypeOK
    <3> QED
      BY <3>1, <3>2 DEF FitsTo
  <2> QED
    BY <2>1, <2>2 DEF Removes
<1>6. mb.list[n].uid = u
  <2>1. PICK p \in 1..Len(mb.list) : mb.list[p].uid = u
    BY DEF Leaves, InList
  <2>2. PICK l \in Nat : l = Len(mb.list)
    BY MailboxFields DEF TypeOK
  <2>3. /\ Len(mb'.list) = l - 1
        /\ \A j \in 1..(l - 1) : mb'.list[j] = IF j < n THEN mb.list[j] ELSE mb.list[j + 1]
    <3>1. PICK q \in Seq(Message) : q = mb.list
      BY MailboxFields DEF TypeOK
    <3>2. n \in 1..Len(q) /\ mb'.list = RemoveAt(q, n)
      BY <1>3, <3>1
    <3>3. /\ Len(RemoveAt(q, n)) = Len(q) - 1
          /\ \A j \in 1..(Len(q) - 1) : RemoveAt(q, n)[j] = IF j < n THEN q[j] ELSE q[j + 1]
      BY <3>2, RemoveAtElements
    <3> QED
      BY <2>2, <3>1, <3>2, <3>3
  <2>4. n \in 1..l /\ p \in 1..l
    BY <1>3, <2>1, <2>2
  <2>5. ~(p < n)
    <3>1. p < n => p \in 1..(l - 1)
      BY <2>4
    <3> QED
      BY <2>1, <2>3, <3>1 DEF Leaves, InList
  <2>6. ~(p > n)
    <3>1. p > n => p - 1 \in 1..(l - 1) /\ ~(p - 1 < n) /\ (p - 1) + 1 = p
      BY <2>4
    <3> QED
      BY <2>1, <2>3, <3>1 DEF Leaves, InList
  <2>7. p = n
    BY <2>4, <2>5, <2>6
  <2> QED
    BY <2>1, <2>7
<1>7. u = a.msgs[n] /\ u < a.next
  <2>1. u # 0
    BY DEF Uid
  <2>2. u = a.msgs[n]
    BY <1>5, <1>6, <2>1
  <2> QED
    BY <1>4, <2>2 DEF Sane
<1>8. ~Has(b, u)
  <2>1. PICK l \in Nat : l = Len(a.msgs)
    BY <1>4, SaneFields
  <2>2. /\ Len(b.msgs) = l - 1
        /\ \A j \in 1..(l - 1) : b.msgs[j] = IF j < n THEN a.msgs[j] ELSE a.msgs[j + 1]
    <3>1. PICK q \in Seq(Uid) : q = a.msgs
      BY <1>4, SaneFields
    <3>2. n \in 1..Len(q) /\ b.msgs = RemoveAt(q, n)
      BY <1>4, <3>1
    <3>3. /\ Len(RemoveAt(q, n)) = Len(q) - 1
          /\ \A j \in 1..(Len(q) - 1) : RemoveAt(q, n)[j] = IF j < n THEN q[j] ELSE q[j + 1]
      BY <3>2, RemoveAtElements
    <3> QED
      BY <2>1, <3>1, <3>2, <3>3
  <2>3. \A i, j \in 1..l : i < j => a.msgs[i] < a.msgs[j]
    BY <1>4, <2>1 DEF Sane
  <2>4. \A i \in 1..l : a.msgs[i] \in Nat
    BY <1>4, <2>1, SaneFields
  <2>5. \A i \in 1..l : i # n => a.msgs[i] # a.msgs[n]
    BY <1>4, <2>1, <2>3, <2>4
  <2>6. ASSUME NEW j \in 1..(l - 1) PROVE b.msgs[j] # u
    <3>1. j \in 1..l /\ j + 1 \in 1..l /\ n \in 1..l
      BY <1>4, <2>1
    <3>2. CASE j < n
      BY <1>7, <2>2, <2>5, <3>1, <3>2
    <3>3. CASE ~(j < n)
      BY <1>7, <2>2, <2>5, <3>1, <3>3
    <3> QED
      BY <3>2, <3>3
  <2> QED
    BY <2>2, <2>6 DEF Has
<1> QED
  BY <1>2, <1>4, <1>7, <1>8

LEMMA RemovedIsGone ==
    ASSUME TypeOK, NEW hs, FollowsServer(hs), NEW n \in Nat, Removes(n),
           NEW u \in Uid, Leaves(u)
    PROVE  ~Present(u)
<1>1. PICK b : b = hs[2]
  OBVIOUS
<1>2. net # <<>> /\ Handled /\ Head(net).t = "EXPUNGE" /\ Sane(b)
  BY <1>1, ExpungeTells DEF Removes
<1>3. b = srv \/ Later(b, srv)
  <2>1. History(Tail(hs), net', srv') /\ Tail(hs)[1] = b
    BY <1>1, <1>2, Remaining
  <2>2. net' \in Seq(Response) /\ srv' = srv
    BY <1>2, TailElements DEF Handled, TypeOK
  <2> QED
    BY <2>1, <2>2, HistoryEnds
<1>4. u < b.next /\ ~Has(b, u)
  BY <1>1, RemovedIsExpunged
<1> QED
  BY <1>2, <1>3, <1>4, NotAgain

\* What the UID SEARCH no longer names is not there.
LEMMA NotFoundIsGone ==
    ASSUME TypeOK, SyncInv, RestAsked, NEW hs, FollowsServer(hs), HandleSearch, Handled,
           task'.status = "SYNCING_FLAGS", NEW u \in Uid, Leaves(u)
    PROVE  ~Present(u)
<1>1. PICK a : a = hs[1]
  OBVIOUS
<1>2. PICK first : first = SearchArg(task)
  OBVIOUS
<1>3. PICK f \in Nat : f = task.firstUnknown
  BY TaskFields DEF TypeOK
<1>4. /\ net # <<>> /\ Head(net).t = "SEARCH" /\ task.status = "SYNCING_UIDS" /\ up
  BY DEF HandleSearch, Next1
<1>5. /\ Head(net) = net[1] /\ Len(net) >= 1 /\ Len(net) \in Nat /\ Head(net) \in Response
      /\ Sane(a) /\ Stream(hs) /\ Client(mb, task, srv.val, a) /\ mb \in Mailbox
  BY <1>1, <1>4, Remaining
<1>6. PICK uids \in Seq(Uid) : uids = Head(net).uids
  BY <1>4, <1>5, ResponseFields
<1>7. ~SearchThrows(uids) /\ ~(f > Len(mb.list)) /\ FinalizeSearch(uids)
  BY <1>3, <1>4, <1>6 DEF HandleSearch, Resp, Handled, Throw, Abort, Stop, Disconnected
<1>8. /\ mb.sync.exists = Len(a.msgs) /\ f <= Len(a.msgs) /\ f <= Len(mb.list)
      /\ Splits(a, first, f) /\ KnownBelow(mb.list, a.next)
  BY <1>2, <1>3, <1>4, <1>5 DEF Client, UidsAsked
<1>9. PICK l \in Nat : l = Len(mb.list)
  BY <1>5, MailboxFields
<1>10. PICK k \in Nat : k = Len(a.msgs)
  BY <1>5, SaneFields
<1>11. Len(uids) = k - f /\ f \in 0..k /\ f \in 0..l
  <2>1. task.mode = "ALL" => f = 0
    BY <1>3 DEF SyncInv
  <2>2. Len(uids) = k - (IF task.mode = "NEW" THEN f ELSE 0)
    BY <1>3, <1>7, <1>8, <1>10 DEF SearchThrows, Expected
  <2>3. task.mode \in {"ALL", "NEW"}
    BY TaskFields DEF TypeOK
  <2> QED
    <3>1. f <= k /\ f <= l
      BY <1>8, <1>9, <1>10
    <3>2. Len(uids) = k - f
      BY <2>1, <2>2, <2>3
    <3> QED
      BY <3>1, <3>2
<1>12. Finds(uids, a, first)
  <2>1. 1 \in 1..Len(net)
    BY <1>5
  <2>2. \A i \in 1..Len(net) : net[i].t = "SEARCH" => Finds(net[i].uids, hs[i], SearchArg(task))
    BY <1>4, <1>5 DEF Stream, SearchFits
  <2> QED
    BY <1>1, <1>2, <1>4, <1>5, <1>6, <2>1, <2>2
<1>13. \A j \in 1..(k - f) : uids[j] = a.msgs[f + j]
  BY <1>8, <1>10, <1>11, <1>12 DEF Finds
<1>14. /\ Len(mb'.list) = k
       /\ \A j \in 1..k : mb'.list[j].uid = IF j <= f THEN mb.list[j].uid ELSE uids[j - f]
  <2>1. PICK m : m = ApplyUids(mb, f, uids)
    OBVIOUS
  <2>2. f \in 0..Len(mb.list)
    BY <1>9, <1>11
  <2>3. /\ m \in Mailbox /\ Len(m.list) = f + Len(uids)
        /\ \A j \in 1..(f + Len(uids)) :
              m.list[j].uid = IF j <= f THEN mb.list[j].uid ELSE uids[j - f]
    BY <1>5, <2>1, <2>2, ApplyUidsType, ApplyUidsDoes
  <2>4. mb' = UpdateHighestKnownUid(m)
    BY <1>3, <1>7, <2>1 DEF FinalizeSearch
  <2>5. mb'.list = m.list
    BY <2>3, <2>4, UpdateHighestKnownUidType
  <2>6. f + Len(uids) = k
    BY <1>11
  <2> QED
    BY <2>3, <2>5, <2>6
<1>15. \A j \in 1..k : mb'.list[j].uid # u
  BY <1>14 DEF Leaves, InList
<1>16. PICK p \in 1..l : mb.list[p].uid = u
  BY <1>9 DEF Leaves, InList
<1>17. p > f
  <2>1. p <= f => p \in 1..k
    BY <1>11
  <2> QED
    BY <1>14, <1>15, <1>16, <2>1
<1>18. u >= first /\ u < a.next /\ u # 0
  <2>1. u # 0
    BY DEF Uid
  <2>2. u >= first
    BY <1>2, <1>3, <1>4, <1>9, <1>16, <1>17, <2>1 DEF RestAsked
  <2> QED
    BY <1>8, <1>9, <1>16, <2>1, <2>2 DEF KnownBelow
<1>19. ~Has(a, u)
  <2> SUFFICES ASSUME NEW j \in 1..k, a.msgs[j] = u PROVE FALSE
    BY <1>10 DEF Has
  <2>1. j > f
    BY <1>8, <1>10, <1>18 DEF Splits
  <2>2. j - f \in 1..(k - f) /\ f + (j - f) = j /\ ~(j <= f)
    BY <1>11, <2>1
  <2>3. uids[j - f] = u
    BY <1>13, <2>2
  <2> QED
    BY <1>14, <1>15, <2>2, <2>3
<1>20. a = srv \/ Later(a, srv)
  BY <1>1, SaneServer
<1> QED
  BY <1>5, <1>18, <1>19, <1>20, NotAgain

\* A known message leaves the list by an EXPUNGE, by a UID SEARCH, or with all the others.
LEMMA HowItLeaves ==
    ASSUME TypeOK, Moves, NEW u \in Uid, Leaves(u)
    PROVE  \/ \E n \in Nat : Removes(n)
           \/ HandleSearch /\ Handled /\ task'.status = "SYNCING_FLAGS"
           \/ Rebuilt /\ Forgets
<1>1. Len(mb.list) \in Nat /\ u # 0
  BY MailboxFields DEF TypeOK, Uid
<1>2. PICK p \in 1..Len(mb.list) : mb.list[p].uid = u
  BY DEF Leaves, InList
<1>3. \A j \in 1..Len(mb'.list) : mb'.list[j].uid # u
  BY DEF Leaves, InList
<1>4. ~Longer(mb.list, mb'.list)
  <2> SUFFICES ASSUME Longer(mb.list, mb'.list) PROVE FALSE
    OBVIOUS
  <2>1. PICK k : k = Len(mb'.list)
    OBVIOUS
  <2>2. p \in 1..Len(mb'.list)
    BY <1>1 DEF Longer
  <2>3. mb'.list[p].uid = mb.list[p].uid
    BY <1>1, <2>2 DEF Longer
  <2> QED
    BY <1>2, <1>3, <2>2, <2>3
<1>5. ~Learns(mb.list, mb'.list)
  <2> SUFFICES ASSUME Learns(mb.list, mb'.list) PROVE FALSE
    OBVIOUS
  <2>1. p \in 1..Len(mb'.list)
    BY <1>1 DEF Learns
  <2>2. mb'.list[p].uid = mb.list[p].uid
    BY <1>1, <1>2 DEF Learns
  <2> QED
    BY <1>2, <1>3, <2>1, <2>2
<1>6. mb.list # <<>>
  <2>1. Len(<<>>) = 0
    BY EmptySeq
  <2> QED
    BY <1>1, <2>1
<1> QED
  BY <1>4, <1>5, <1>6 DEF Moves, ListStep

\* No step takes a message off the list that the server still has.
LEMMA StepKeepsPresent ==
    ASSUME TypeOK, SyncInv, RestAsked, NEW hs, FollowsServer(hs), Moves, ~Rebuilt,
           NEW u \in Uid, Leaves(u)
    PROVE  ~Present(u)
<1>1. CASE \E n \in Nat : Removes(n)
  BY <1>1, RemovedIsGone
<1>2. CASE HandleSearch /\ Handled /\ task'.status = "SYNCING_FLAGS"
  BY <1>2, NotFoundIsGone
<1> QED
  BY <1>1, <1>2, HowItLeaves

----------------------------------------------------------------------------
(* The client finds out everything: what the server sends. *)

\* Who is found before one state is found before every later one.
LEMMA FoundLater ==
    ASSUME NEW list, NEW q \in Seq(Response), NEW s, NEW hs, History(hs, q, s),
           NEW i \in 1..Len(hs), NEW k \in 1..Len(hs), i <= k,
           NEW u \in Uid, u < hs[i].next, Found(list, q, hs, u, i)
    PROVE  Found(list, q, hs, u, k)
<1>1. Len(q) \in Nat /\ Len(hs) \in Nat
  BY DEF History
<1>2. Has(hs[k], u) => Has(hs[i], u)
  <2>1. CASE i < k
    <3>1. Later(hs[i], hs[k])
      BY <2>1 DEF History
    <3> QED
      BY <3>1 DEF Later, NoneReturns
  <2>2. CASE i = k
    BY <2>2
  <2> QED
    BY <1>1, <2>1, <2>2
<1>3. ASSUME NEW j \in 1..Len(q), j < i PROVE j < k
  BY <1>1, <1>3
<1> QED
  BY <1>2, <1>3 DEF Found

\* What the server has sent since makes no difference.
LEMMA FoundStill ==
    ASSUME NEW list, NEW q \in Seq(Response), NEW d \in Seq(Response), NEW hs, NEW g,
           NEW k \in 1..(Len(q) + 1), g[k] = hs[k], NEW u, Found(list, q, hs, u, k)
    PROVE  Found(list, q \o d, g, u, k)
<1>1. /\ Len(q) \in Nat /\ Len(d) \in Nat /\ Len(q \o d) = Len(q) + Len(d)
      /\ \A j \in 1..Len(q) : (q \o d)[j] = q[j]
  BY ConcatProperties, LenProperties
<1>2. ASSUME NEW j \in 1..Len(q) PROVE j \in 1..Len(q \o d) /\ (q \o d)[j] = q[j]
  BY <1>1
<1> QED
  BY <1>2 DEF Found

\* FoundNow after the step.
FoundThen(hs, u, k) == Found(mb'.list, net', hs, u, k)

\* The server has sent d, and hs goes on as g.
GoesOnAs(hs, g) ==
    /\ FollowsServer(g)' /\ Len(g) >= Len(hs) /\ \A i \in 1..Len(hs) : g[i] = hs[i]
    /\ \A i \in 1..Len(g) : i > Len(hs) => g[i] = srv'
Sent(hs, g, d) == GoesOnAs(hs, g) /\ net' = net \o d /\ mb' = mb

\* The states that hs and g have in common, and those that are new.
LEMMA SentStates ==
    ASSUME TypeOK, TypeOK', NEW hs, FollowsServer(hs), NEW d \in Seq(Response), NEW g, Sent(hs, g, d)
    PROVE  /\ net \in Seq(Response) /\ net' \in Seq(Response)
           /\ Len(net) \in Nat /\ Len(d) \in Nat /\ Len(net') = Len(net) + Len(d)
           /\ \A i \in 1..Len(net) : net'[i] = net[i]
           /\ \A i \in 1..Len(d) : net'[Len(net) + i] = d[i]
           /\ Len(hs) = Len(net) + 1 /\ Len(g) = Len(net') + 1 /\ History(g, net', srv')
           /\ \A i \in 1..(Len(net) + 1) : g[i] = hs[i]
           /\ g[Len(net) + 1] = srv /\ srv.next <= srv'.next /\ srv.next \in Nat /\ srv'.next \in Nat
           /\ hs[1].next <= srv.next /\ hs[1].next \in Nat
<1>1. /\ net \in Seq(Response) /\ net' \in Seq(Response)
      /\ Len(net) \in Nat /\ Len(d) \in Nat /\ Len(net') = Len(net) + Len(d)
      /\ \A i \in 1..Len(net) : net'[i] = net[i]
      /\ \A i \in 1..Len(d) : net'[Len(net) + i] = d[i]
  BY ConcatProperties, LenProperties DEF TypeOK, Sent
<1>2. History(hs, net, srv) /\ History(g, net', srv')
  BY DEF Sent, GoesOnAs, FollowsServer
<1>3. /\ Len(hs) = Len(net) + 1 /\ Len(g) = Len(net') + 1
      /\ \A i \in 1..(Len(net) + 1) : g[i] = hs[i]
  BY <1>2 DEF History, Sent, GoesOnAs
<1>4. hs[Len(net) + 1] = srv /\ g[Len(net') + 1] = srv'
  BY <1>2, <1>3 DEF History
<1>5. g[Len(net) + 1] = srv
  BY <1>1, <1>3, <1>4
<1>6. Sane(srv) /\ Sane(srv') /\ Sane(hs[1]) /\ Later(hs[1], srv)
  <2>1. Sane(srv) /\ Sane(hs[1]) /\ Later(hs[1], srv)
    BY <1>1, <1>2, HistoryEnds
  <2>2. Len(net') + 1 \in 1..Len(g)
    BY <1>1, <1>3
  <2> QED
    BY <1>2, <1>4, <2>1, <2>2 DEF History
<1>7. srv.next \in Nat /\ srv'.next \in Nat /\ hs[1].next \in Nat
  BY <1>6, SaneFields
<1>8. srv.next <= srv'.next
  <2>1. CASE Len(d) = 0
    <3>1. srv' = srv
      BY <1>1, <1>4, <1>5, <2>1
    <3> QED
      BY <1>7, <3>1
  <2>2. CASE Len(d) # 0
    <3>1. /\ Len(net) + 1 \in 1..Len(g) /\ Len(net') + 1 \in 1..Len(g)
          /\ Len(net) + 1 < Len(net') + 1
      BY <1>1, <1>3, <2>2
    <3>2. Later(srv, srv')
      BY <1>2, <1>4, <1>5, <3>1 DEF History
    <3> QED
      BY <3>2 DEF Later, Follows
  <2> QED
    BY <2>1, <2>2
<1>9. hs[1].next <= srv.next
  BY <1>6 DEF Later, Follows
<1> QED
  BY <1>1, <1>2, <1>3, <1>5, <1>7, <1>8, <1>9

\* Who would be found will be found: before what was under way ...
LEMMA SentFound ==
    ASSUME TypeOK, TypeOK', NEW hs, FollowsServer(hs), NEW d \in Seq(Response), NEW g, Sent(hs, g, d),
           NEW u \in Uid, NEW k \in 1..(Len(net) + 1), FoundNow(hs, u, k)
    PROVE  FoundThen(g, u, k)
<1>1. net \in Seq(Response) /\ g[k] = hs[k] /\ net' = net \o d /\ mb' = mb
  BY SentStates DEF Sent
<1>2. Found(mb.list, net \o d, g, u, k)
  BY <1>1, FoundStill DEF FoundNow
<1> QED
  BY <1>1, <1>2 DEF FoundThen

\* ... and before what comes after d.
LEMMA SentFoundLast ==
    ASSUME TypeOK, TypeOK', NEW hs, FollowsServer(hs), NEW d \in Seq(Response), NEW g, Sent(hs, g, d),
           NEW u \in Uid, u < srv.next, FoundNow(hs, u, Len(net) + 1), NEW k \in 1..(Len(net') + 1),
           k >= Len(net) + 1
    PROVE  FoundThen(g, u, k)
<1>1. /\ Len(net) \in Nat /\ Len(net') \in Nat /\ Len(net') >= Len(net) /\ net' \in Seq(Response)
      /\ Len(g) = Len(net') + 1 /\ History(g, net', srv') /\ g[Len(net) + 1] = srv
  BY SentStates
<1>2. Len(net) + 1 \in 1..(Len(net) + 1) /\ Len(net) + 1 \in 1..Len(g) /\ k \in 1..Len(g)
  BY <1>1
<1>3. Found(mb'.list, net', g, u, Len(net) + 1)
  BY <1>2, SentFound DEF FoundThen
<1>4. Found(mb'.list, net', g, u, k)
  BY <1>1, <1>2, <1>3, FoundLater
<1> QED
  BY <1>4 DEF FoundThen

\* UIDs that are told come in turn.
LEMMA SentInTurn ==
    ASSUME TypeOK, TypeOK', NEW hs, FollowsServer(hs), NEW d \in Seq(Response), NEW g, Sent(hs, g, d),
           InTurn(hs),
           \A k \in 1..Len(d) : d[k].t = "FETCH" =>
              \A u \in Uid : u < d[k].uid => FoundThen(g, u, Len(net) + k),
           \A i \in OpenOf(cmds', "ARRIVALS") : \E j \in OpenOf(cmds, "ARRIVALS") :
              cmds'[i].arg = cmds[j].arg
    PROVE  InTurn(g)'
<1>1. /\ Len(net) \in Nat /\ Len(d) \in Nat /\ Len(net') = Len(net) + Len(d)
      /\ \A i \in 1..Len(net) : net'[i] = net[i]
      /\ \A i \in 1..Len(d) : net'[Len(net) + i] = d[i]
      /\ srv.next <= srv'.next /\ srv.next \in Nat /\ srv'.next \in Nat
  BY SentStates
<1>2. \A u \in Uid : u < mb'.sync.uidNext => FoundThen(g, u, 1)
  <2>1. 1 \in 1..(Len(net) + 1) /\ mb' = mb
    BY <1>1 DEF Sent
  <2>2. ASSUME NEW u \in Uid, u < mb.sync.uidNext PROVE FoundThen(g, u, 1)
    <3>1. FoundNow(hs, u, 1)
      BY <2>2 DEF InTurn
    <3>2. PICK k \in 1..(Len(net) + 1) : k = 1
      BY <2>1
    <3> QED
      BY <3>1, <3>2, SentFound
  <2> QED
    BY <2>1, <2>2
<1>3. ASSUME NEW i \in 1..Len(net'), net'[i].t = "FETCH", NEW u \in Uid, u < net'[i].uid
      PROVE  FoundThen(g, u, i)
  <2>1. CASE i <= Len(net)
    <3>1. i \in 1..Len(net) /\ i \in 1..(Len(net) + 1) /\ net[i] = net'[i]
      BY <1>1, <2>1
    <3>2. FoundNow(hs, u, i)
      BY <1>3, <3>1 DEF InTurn
    <3> QED
      BY <3>1, <3>2, SentFound
  <2>2. CASE ~(i <= Len(net))
    <3>1. PICK k \in 1..Len(d) : i = Len(net) + k
      <4>1. i - Len(net) \in 1..Len(d) /\ i = Len(net) + (i - Len(net))
        BY <1>1, <2>2
      <4> QED
        BY <4>1
    <3>2. d[k] = net'[i]
      BY <1>1, <3>1
    <3> QED
      BY <1>3, <3>1, <3>2
  <2> QED
    BY <2>1, <2>2
<1>4. ASSUME NEW i \in OpenOf(cmds', "ARRIVALS")
      PROVE  /\ cmds'[i].arg <= srv'.next
             /\ \A u \in Uid : u < cmds'[i].arg => FoundThen(g, u, Len(net') + 1)
  <2>1. PICK j \in OpenOf(cmds, "ARRIVALS") : cmds'[i].arg = cmds[j].arg
    OBVIOUS
  <2>2. j \in 1..Len(cmds) /\ cmds[j] \in Commands
    BY ElementOfSeq DEF OpenOf, TypeOK
  <2>3. PICK arg \in Nat : arg = cmds[j].arg
    BY <2>2 DEF Commands
  <2>4. arg <= srv.next /\ \A u \in Uid : u < arg => FoundNow(hs, u, Len(net) + 1)
    BY <2>3 DEF InTurn
  <2>5. arg <= srv'.next
    BY <1>1, <2>4
  <2>6. Len(net') + 1 \in 1..(Len(net') + 1) /\ Len(net') + 1 >= Len(net) + 1
    BY <1>1
  <2>7. ASSUME NEW u \in Uid, u < arg PROVE FoundThen(g, u, Len(net') + 1)
    <3>1. u < srv.next
      BY <1>1, <2>4, <2>7 DEF Uid
    <3>2. FoundNow(hs, u, Len(net) + 1)
      BY <2>4, <2>7
    <3>3. PICK k \in 1..(Len(net') + 1) : k = Len(net') + 1 /\ k >= Len(net) + 1
      BY <2>6
    <3> QED
      BY <3>1, <3>2, <3>3, SentFoundLast
  <2> QED
    BY <2>1, <2>3, <2>5, <2>7
<1>5. \A i \in 1..Len(net') : net'[i].t = "FETCH" =>
         \A u \in Uid : u < net'[i].uid => FoundThen(g, u, i)
  BY <1>3
<1> QED
  BY <1>2, <1>4, <1>5 DEF InTurn, FoundNow, FoundThen

\* What was promised still is: a command goes on to be asked, to be answered or to end.
Kept(g, i) ==
    \/ i = 1 /\ answered /\ Len(net) + 1 \in LinesOf(net', "ARRIVALS")
    \/ \E j \in OpenOf(cmds', "ARRIVALS") :
          /\ cmds'[j].arg = cmds[i].arg
          /\ j = 1 /\ answered' <=> i = 1 /\ answered
    \/ /\ ~(i = 1 /\ answered) /\ 1 \in OpenOf(cmds', "ARRIVALS") /\ answered'
       /\ \A u \in Uid : cmds[i].arg <= u => FoundThen(g, u, Len(net') + 1)

\* ... so that no UID is promised in vain.
LEMMA SentPromised ==
    ASSUME TypeOK, TypeOK', NEW hs, FollowsServer(hs), NEW d \in Seq(Response), NEW g, Sent(hs, g, d),
           UidsPromised(hs), \A i \in OpenOf(cmds, "ARRIVALS") : Kept(g, i)
    PROVE  UidsPromised(g)'
<1>1. /\ Len(net) \in Nat /\ Len(d) \in Nat /\ Len(net') = Len(net) + Len(d)
      /\ \A i \in 1..Len(net) : net'[i] = net[i]
      /\ g[1] = hs[1] /\ hs[1].next <= srv.next /\ hs[1].next \in Nat /\ srv.next \in Nat
      /\ Sane(hs[1])
  <2>1. /\ Len(net) \in Nat /\ Len(d) \in Nat /\ Len(net') = Len(net) + Len(d)
        /\ \A i \in 1..Len(net) : net'[i] = net[i]
        /\ \A i \in 1..(Len(net) + 1) : g[i] = hs[i]
        /\ hs[1].next <= srv.next /\ hs[1].next \in Nat /\ srv.next \in Nat
    BY SentStates
  <2>2. 1 \in 1..(Len(net) + 1) /\ net \in Seq(Response) /\ History(hs, net, srv)
    BY <2>1 DEF FollowsServer, TypeOK
  <2>3. Sane(hs[1])
    BY <2>2, HistoryEnds
  <2> QED
    BY <2>1, <2>2, <2>3
<1>2. SUFFICES ASSUME NEW u \in Uid, Has(hs[1], u)
               PROVE  \/ FoundThen(g, u, 1)
                      \/ \E k \in LinesOf(net', "ARRIVALS") : FoundThen(g, u, k)
                      \/ \E i \in OpenOf(cmds', "ARRIVALS") :
                            IF i = 1 /\ answered' THEN FoundThen(g, u, Len(net') + 1)
                            ELSE cmds'[i].arg <= u
  BY <1>1 DEF UidsPromised, UidPromised, FoundNow, FoundThen
<1>3. u < srv.next
  <2>1. u < hs[1].next /\ u \in Nat
    BY <1>1, <1>2 DEF Has, Sane, Uid
  <2> QED
    BY <1>1, <2>1
<1>4. FoundNow(hs, u, 1) \/ UidPromised(hs, u)
  BY <1>2 DEF UidsPromised
<1>5. CASE FoundNow(hs, u, 1)
  <2>1. PICK k \in 1..(Len(net) + 1) : k = 1
    BY <1>1
  <2>2. FoundThen(g, u, k)
    BY <1>5, <2>1, SentFound
  <2> QED
    BY <2>1, <2>2
<1>6. ASSUME NEW k \in LinesOf(net, "ARRIVALS"), FoundNow(hs, u, k)
      PROVE  \E l \in LinesOf(net', "ARRIVALS") : FoundThen(g, u, l)
  <2>1. k \in 1..Len(net) /\ k \in 1..(Len(net) + 1) /\ k \in 1..Len(net') /\ net'[k] = net[k]
    BY <1>1 DEF LinesOf
  <2>2. FoundThen(g, u, k)
    BY <1>6, <2>1, SentFound
  <2>3. k \in LinesOf(net', "ARRIVALS")
    BY <2>1 DEF LinesOf
  <2> QED
    BY <2>2, <2>3
<1>7. ASSUME NEW i \in OpenOf(cmds, "ARRIVALS"),
             IF i = 1 /\ answered THEN FoundNow(hs, u, Len(net) + 1) ELSE cmds[i].arg <= u
      PROVE  \/ \E k \in LinesOf(net', "ARRIVALS") : FoundThen(g, u, k)
             \/ \E j \in OpenOf(cmds', "ARRIVALS") :
                   IF j = 1 /\ answered' THEN FoundThen(g, u, Len(net') + 1)
                   ELSE cmds'[j].arg <= u
  <2>1. PICK last : last = Len(net) + 1
    OBVIOUS
  <2>2. last \in 1..(Len(net) + 1) /\ last \in 1..(Len(net') + 1) /\ last >= Len(net) + 1
    BY <1>1, <2>1
  <2>3. CASE i = 1 /\ answered
    <3>1. FoundNow(hs, u, last)
      BY <1>7, <2>1, <2>3
    <3>2. CASE Len(net) + 1 \in LinesOf(net', "ARRIVALS")
      <4>1. FoundThen(g, u, last)
        BY <2>2, <3>1, SentFound
      <4> QED
        BY <2>1, <3>2, <4>1
    <3>3. CASE \E j \in OpenOf(cmds', "ARRIVALS") : j = 1 /\ answered'
      <4>1. PICK k \in 1..(Len(net') + 1) : k = Len(net') + 1 /\ k >= Len(net) + 1
        BY <1>1
      <4>2. FoundNow(hs, u, Len(net) + 1)
        BY <2>1, <3>1
      <4>3. FoundThen(g, u, k)
        BY <1>3, <4>1, <4>2, SentFoundLast
      <4> QED
        BY <3>3, <4>1, <4>3
    <3> QED
      BY <2>3, <3>2, <3>3 DEF Kept
  <2>4. CASE ~(i = 1 /\ answered)
    <3>1. cmds[i].arg <= u
      BY <1>7, <2>4
    <3>2. CASE \E j \in OpenOf(cmds', "ARRIVALS") : cmds'[j].arg = cmds[i].arg /\ ~(j = 1 /\ answered')
      BY <3>1, <3>2
    <3>3. CASE /\ 1 \in OpenOf(cmds', "ARRIVALS") /\ answered'
               /\ \A v \in Uid : cmds[i].arg <= v => FoundThen(g, v, Len(net') + 1)
      <4>1. FoundThen(g, u, Len(net') + 1)
        BY <3>1, <3>3
      <4> QED
        BY <3>3, <4>1
    <3> QED
      BY <2>4, <3>2, <3>3 DEF Kept
  <2> QED
    BY <2>3, <2>4
<1> QED
  BY <1>4, <1>5, <1>6, <1>7 DEF UidPromised

\* What happens to the mailbox is announced ...
LEMMA AnnouncedKeepsUids ==
    ASSUME TypeOK, TypeOK', NEW hs, FollowsServer(hs), NEW d \in Seq(Response), NEW g, Sent(hs, g, d),
           InTurn(hs), UidsPromised(hs), UNCHANGED <<cmds, answered>>,
           \A k \in 1..Len(d) : Announcement(d[k])
    PROVE  InTurn(g)' /\ UidsPromised(g)'
<1>1. ASSUME NEW k \in 1..Len(d), d[k].t = "FETCH", NEW u \in Uid PROVE ~(u < d[k].uid)
  <2>1. d[k].uid = 0
    BY <1>1 DEF Announcement
  <2> QED
    BY <2>1 DEF Uid
<1>2. \A i \in OpenOf(cmds', "ARRIVALS") : \E j \in OpenOf(cmds, "ARRIVALS") :
         cmds'[i].arg = cmds[j].arg
  OBVIOUS
<1>3. \A i \in OpenOf(cmds, "ARRIVALS") : Kept(g, i)
  BY DEF Kept
<1>4. InTurn(g)'
  BY <1>1, <1>2, SentInTurn
<1> QED
  BY <1>3, <1>4, SentPromised

\* ... and announcements tell no UIDs.
LEMMA ChangeKeepsUids ==
    ASSUME Reliable, TypeOK, TypeOK', NEW hs, FollowsServer(hs), NEW g, GoesOnAs(hs, g),
           InTurn(hs), UidsPromised(hs), ServerChange \/ Recreate
    PROVE  InTurn(g)' /\ UidsPromised(g)'
<1>1. UNCHANGED <<cmds, answered, mb>>
  BY ChangeIs DEF Reliable
<1>2. PICK d \in Seq(Response) : net' = net \o d /\ \A k \in 1..Len(d) : Announcement(d[k])
  BY ChangeIs DEF Reliable
<1> QED
  BY <1>1, <1>2, AnnouncedKeepsUids DEF Sent

\* ... the answers to UID FETCH come in the order of the messages, for all of those asked for ...
LEMMA OrdersAll ==
    ASSUME NEW n \in Nat, NEW S \in SUBSET (1..n), NEW order \in Orders(S)
    PROVE  /\ order \in Seq(S) /\ Len(order) \in Nat
           /\ \A i, j \in 1..Len(order) : i < j => order[i] < order[j]
           /\ \A p \in S : \E k \in 1..Len(order) : order[k] = p
<1>1. IsFiniteSet(S) /\ \A p \in S : p \in Nat
  <2>1. IsFiniteSet(1..n)
    BY FS_Interval
  <2>2. IsFiniteSet(S)
    BY <2>1, FS_Subset
  <2> QED
    BY <2>2
<1>2. PICK c \in Nat : c = Cardinality(S)
  BY <1>1, FS_CardinalityType
<1>3. /\ order \in [1..c -> S] /\ order \in Seq(S) /\ Len(order) = c
      /\ \A i, j \in 1..c : i < j => order[i] < order[j]
  BY <1>2, OrdersType DEF Orders
<1>4. order \in Injection(1..c, S)
  <2>1. ASSUME NEW i \in 1..c, NEW j \in 1..c, order[i] = order[j] PROVE i = j
    <3>1. order[i] \in Nat /\ order[j] \in Nat
      BY <1>1, <1>3
    <3>2. ~(i < j) /\ ~(j < i)
      BY <1>3, <2>1, <3>1
    <3> QED
      BY <1>2, <3>2
  <2> QED
    BY <1>3, <2>1 DEF Injection, IsInjective
<1>5. Cardinality(1..c) = c
  BY <1>2, FS_Interval
<1>6. order \in Surjection(1..c, S)
  BY <1>1, <1>2, <1>4, <1>5, FS_Injection
<1> QED
  BY <1>2, <1>3, <1>6 DEF Surjection

\* Only the answer to UID FETCH tells UIDs.
LEMMA AnswerTells ==
    ASSUME Head(cmds).t \in CommandKind, NEW order, NEW d \in Seq(Response),
           Answer(Head(cmds), order, d), NEW k \in 1..Len(d), d[k].t = "FETCH", d[k].uid # 0
    PROVE  Head(cmds).t = "ARRIVALS"
<1>1. CASE Head(cmds).t = "SELECT"
  <2>1. Len(d) = 2 /\ d[1].t = "EXISTS" /\ d[2].t = "CODES"
    BY <1>1 DEF Answer
  <2>2. k = 1 \/ k = 2
    BY <2>1
  <2> QED
    BY <2>1, <2>2
<1>2. CASE Head(cmds).t = "SEARCH"
  <2>1. Len(d) = 1 /\ d[1].t = "SEARCH"
    BY <1>2 DEF Answer
  <2>2. k = 1
    BY <2>1
  <2> QED
    BY <2>1, <2>2
<1>3. CASE Head(cmds).t = "FLAGS"
  BY <1>3 DEF Answer, WithoutUids
<1> QED
  BY <1>1, <1>2, <1>3 DEF CommandKind

\* What the answer to UID FETCH arg:* has in it.
LEMMA AllFetched ==
    ASSUME TypeOK, Sane(srv), Head(cmds) \in Commands, Head(cmds).t = "ARRIVALS",
           NEW d \in Seq(Response), NEW order, Answer(Head(cmds), order, d)
    PROVE  /\ \A k \in 1..Len(d) : d[k].t = "FETCH" /\ d[k].uid \in Uid
           /\ \A u \in Uid : Has(srv, u) /\ u >= Head(cmds).arg =>
                 \E k \in 1..Len(d) : d[k].uid = u
           /\ \A k \in 1..Len(d), u \in Uid : Has(srv, u) /\ u >= Head(cmds).arg /\ u < d[k].uid =>
                 \E j \in 1..Len(d) : j < k /\ d[j].uid = u
<1>1. PICK n \in Nat : n = Len(srv.msgs)
  BY SaneFields
<1>2. PICK S \in SUBSET (1..n) : S = Wanted(Head(cmds))
  BY <1>1, WantedType
<1>3. /\ order \in Seq(S) /\ Len(order) \in Nat
      /\ \A i, j \in 1..Len(order) : i < j => order[i] < order[j]
      /\ \A p \in S : \E k \in 1..Len(order) : order[k] = p
  BY <1>2, OrdersAll DEF Answer
<1>4. /\ Len(d) = Len(order)
      /\ \A k \in 1..Len(d) : /\ d[k].t = "FETCH" /\ order[k] \in 1..n
                              /\ d[k].uid = srv.msgs[order[k]]
  BY <1>1 DEF Answer, Fetched, WithUids
<1>5. \A i, j \in 1..n : i < j => srv.msgs[i] < srv.msgs[j]
  BY <1>1 DEF Sane
<1>6. \A i \in 1..n : srv.msgs[i] \in Uid /\ srv.msgs[i] \in Nat
  BY <1>1, SaneFields
<1>7. ASSUME NEW p \in 1..n, srv.msgs[p] >= Head(cmds).arg
      PROVE  \E k \in 1..Len(d) : order[k] = p
  <2>1. p \in S
    BY <1>1, <1>2, <1>7 DEF Wanted, FromUid
  <2> QED
    BY <1>3, <1>4, <2>1
<1>8. ASSUME NEW u \in Uid, Has(srv, u), u >= Head(cmds).arg
      PROVE  \E k \in 1..Len(d), p \in 1..n : order[k] = p /\ srv.msgs[p] = u
  <2>1. PICK p \in 1..n : srv.msgs[p] = u
    BY <1>1, <1>8 DEF Has
  <2> QED
    BY <1>7, <1>8, <2>1
<1>9. ASSUME NEW k \in 1..Len(d), NEW u \in Uid, Has(srv, u), u >= Head(cmds).arg, u < d[k].uid
      PROVE  \E j \in 1..Len(d) : j < k /\ d[j].uid = u
  <2>1. PICK j \in 1..Len(d), p \in 1..n : order[j] = p /\ srv.msgs[p] = u
    BY <1>8, <1>9
  <2>2. PICK q \in 1..n : q = order[k] /\ srv.msgs[q] = d[k].uid
    BY <1>4
  <2>3. ~(k < j) /\ j # k
    <3>1. k < j => q < p
      BY <1>3, <1>4, <2>1, <2>2
    <3>2. ~(q < p)
      BY <1>5, <1>6, <1>9, <2>1, <2>2
    <3>3. srv.msgs[q] # u
      BY <1>6, <1>9, <2>2
    <3> QED
      BY <2>1, <2>2, <3>1, <3>2, <3>3
  <2>4. Len(d) \in Nat
    BY <1>3, <1>4
  <2> QED
    BY <1>4, <2>1, <2>3, <2>4
<1>10. \A u \in Uid : Has(srv, u) /\ u >= Head(cmds).arg => \E k \in 1..Len(d) : d[k].uid = u
  BY <1>4, <1>8
<1> QED
  BY <1>4, <1>6, <1>9, <1>10

\* The answer to the oldest command.
LEMMA SendDataKeepsUids ==
    ASSUME Reliable, TypeOK, TypeOK', NEW hs, FollowsServer(hs), NEW g, GoesOnAs(hs, g),
           InTurn(hs), UidsPromised(hs), SendData
    PROVE  InTurn(g)' /\ UidsPromised(g)'
<1>1. /\ cmds # <<>> /\ ~answered /\ answered' = TRUE
      /\ UNCHANGED <<srv, cmds, up, task, mb, threw, selects>>
  BY DEF SendData
<1>2. PICK d \in Seq(Response), order \in Seq(1..Len(srv.msgs)) :
              net' = net \o d /\ Answer(Head(cmds), order, d)
  BY AnswerIs DEF Reliable
<1>3. Sent(hs, g, d)
  BY <1>1, <1>2 DEF Sent
<1>4. Head(cmds) \in Commands /\ Head(cmds).t \in CommandKind /\ Head(cmds) = cmds[1] /\ 1 \in 1..Len(cmds)
  <2>1. Head(cmds) \in Commands /\ Head(cmds) = cmds[1] /\ 1 \in 1..Len(cmds)
    BY <1>1, TailElements, ElementOfSeq DEF TypeOK
  <2> QED
    BY <2>1 DEF Commands
<1>5. /\ Len(net) \in Nat /\ Len(d) \in Nat /\ Len(net') = Len(net) + Len(d)
      /\ \A i \in 1..Len(d) : net'[Len(net) + i] = d[i]
      /\ Len(g) = Len(net') + 1 /\ History(g, net', srv) /\ net' \in Seq(Response)
      /\ g[Len(net) + 1] = srv /\ srv.next \in Nat
  BY <1>1, <1>3, SentStates
<1>6. \A i \in OpenOf(cmds', "ARRIVALS") : \E j \in OpenOf(cmds, "ARRIVALS") :
         cmds'[i].arg = cmds[j].arg
  BY <1>1
<1>7. CASE Head(cmds).t # "ARRIVALS"
  <2>1. ASSUME NEW k \in 1..Len(d), d[k].t = "FETCH", NEW u \in Uid PROVE ~(u < d[k].uid)
    <3>1. d[k].uid = 0
      BY <1>2, <1>4, <1>7, <2>1, AnswerTells
    <3> QED
      BY <3>1 DEF Uid
  <2>2. ~(1 \in OpenOf(cmds, "ARRIVALS"))
    BY <1>4, <1>7 DEF OpenOf
  <2>3. \A i \in OpenOf(cmds, "ARRIVALS") : Kept(g, i)
    BY <1>1, <2>2 DEF Kept
  <2>4. InTurn(g)'
    BY <1>3, <1>6, <2>1, SentInTurn
  <2> QED
    BY <1>3, <2>3, <2>4, SentPromised
<1>8. CASE Head(cmds).t = "ARRIVALS"
  <2>1. PICK arg \in Nat : arg = Head(cmds).arg
    BY <1>4 DEF Commands
  <2>2. 1 \in OpenOf(cmds, "ARRIVALS") /\ cmds[1].arg = arg
    BY <1>4, <1>8, <2>1 DEF OpenOf
  <2>3. Sane(srv) /\ \A i \in 1..Len(g) : Sane(g[i])
    <3>1. Len(net') + 1 \in 1..Len(g)
      BY <1>5
    <3> QED
      BY <1>5, <3>1 DEF History
  <2>4. /\ \A k \in 1..Len(d) : d[k].t = "FETCH" /\ d[k].uid \in Uid
        /\ \A u \in Uid : Has(srv, u) /\ u >= arg => \E k \in 1..Len(d) : d[k].uid = u
        /\ \A k \in 1..Len(d), u \in Uid : Has(srv, u) /\ u >= arg /\ u < d[k].uid =>
              \E j \in 1..Len(d) : j < k /\ d[j].uid = u
    BY <1>2, <1>4, <1>8, <2>1, <2>3, AllFetched
  <2>5. ASSUME NEW k \in 1..(Len(d) + 1)
        PROVE  /\ Len(net) + k \in 1..Len(g) /\ Len(net) + k \in 1..(Len(net') + 1)
               /\ Len(net) + k >= Len(net) + 1
    BY <1>5
  <2>6. \A u \in Uid : u < arg => FoundNow(hs, u, Len(net) + 1) /\ u < srv.next
    <3>1. arg <= srv.next /\ \A u \in Uid : u < arg => FoundNow(hs, u, Len(net) + 1)
      BY <2>2 DEF InTurn
    <3> QED
      BY <1>5, <3>1 DEF Uid
  <2>7. ASSUME NEW u \in Uid, u < arg, NEW k \in 1..(Len(d) + 1)
        PROVE  FoundThen(g, u, Len(net) + k)
    <3>1. PICK p \in 1..(Len(net') + 1) : p = Len(net) + k /\ p >= Len(net) + 1
      BY <2>5
    <3>2. FoundThen(g, u, p)
      BY <1>3, <2>6, <2>7, <3>1, SentFoundLast
    <3> QED
      BY <3>1, <3>2
  <2>9. \A k \in 1..(Len(d) + 1) : g[Len(net) + k] = srv
    <3> SUFFICES ASSUME NEW k \in 1..(Len(d) + 1), k # 1 PROVE g[Len(net) + k] = srv
      BY <1>5
    <3>1. Len(net) + k \in 1..Len(g) /\ Len(net) + k > Len(net) + 1
      BY <1>5
    <3>2. Len(hs) = Len(net) + 1
      BY <1>3, SentStates
    <3> QED
      BY <1>1, <1>3, <3>1, <3>2 DEF Sent, GoesOnAs
  <2>10. ASSUME NEW k \in 1..Len(d), d[k].t = "FETCH", NEW u \in Uid, u < d[k].uid
         PROVE  FoundThen(g, u, Len(net) + k)
    <3>1. k \in 1..(Len(d) + 1)
      BY <1>5
    <3>2. CASE u < arg
      BY <2>7, <3>1, <3>2
    <3>3. CASE u >= arg
      <4>1. SUFFICES ASSUME Has(g[Len(net) + k], u)
                     PROVE  \E i \in 1..Len(net') : /\ i < Len(net) + k /\ net'[i].t = "FETCH"
                                                    /\ net'[i].uid = u
        BY DEF FoundThen, Found
      <4>2. Has(srv, u)
        BY <2>9, <3>1, <4>1
      <4>3. PICK j \in 1..Len(d) : j < k /\ d[j].uid = u
        BY <2>4, <2>10, <3>3, <4>2
      <4>4. Len(net) + j \in 1..Len(net') /\ Len(net) + j < Len(net) + k
        BY <1>5, <4>3
      <4>5. net'[Len(net) + j] = d[j]
        BY <1>5
      <4> QED
        BY <2>4, <4>3, <4>4, <4>5
    <3> QED
      BY <2>1, <3>2, <3>3 DEF Uid
  <2>11. ASSUME NEW u \in Uid, u >= arg PROVE FoundThen(g, u, Len(net') + 1)
    <3>1. Len(d) + 1 \in 1..(Len(d) + 1) /\ Len(net) + (Len(d) + 1) = Len(net') + 1
      BY <1>5
    <3>2. SUFFICES ASSUME Has(g[Len(net') + 1], u)
                   PROVE  \E i \in 1..Len(net') : /\ i < Len(net') + 1 /\ net'[i].t = "FETCH"
                                                  /\ net'[i].uid = u
      BY DEF FoundThen, Found
    <3>3. Has(srv, u)
      BY <2>9, <3>1, <3>2
    <3>4. PICK j \in 1..Len(d) : d[j].uid = u
      BY <2>4, <2>11, <3>3
    <3>5. Len(net) + j \in 1..Len(net') /\ Len(net) + j < Len(net') + 1
      BY <1>5
    <3>6. net'[Len(net) + j] = d[j]
      BY <1>5
    <3> QED
      BY <2>4, <3>4, <3>5, <3>6
  <2>12. \A i \in OpenOf(cmds, "ARRIVALS") : Kept(g, i)
    <3> SUFFICES ASSUME NEW i \in OpenOf(cmds, "ARRIVALS") PROVE Kept(g, i)
      OBVIOUS
    <3>1. CASE i = 1
      <4>1. \A u \in Uid : arg <= u => FoundThen(g, u, Len(net') + 1)
        BY <2>11
      <4> QED
        BY <1>1, <2>2, <3>1, <4>1 DEF Kept
    <3>2. CASE i # 1
      BY <1>1, <3>2 DEF Kept
    <3> QED
      BY <3>1, <3>2
  <2>13. InTurn(g)'
    BY <1>3, <1>6, <2>10, SentInTurn
  <2> QED
    BY <1>3, <2>12, <2>13, SentPromised
<1> QED
  BY <1>7, <1>8

\* ... and the tagged line comes after them.
LEMMA SendTaggedKeepsUids ==
    ASSUME Reliable, TypeOK, TypeOK', NEW hs, FollowsServer(hs), NEW g, GoesOnAs(hs, g),
           InTurn(hs), UidsPromised(hs), SendTagged
    PROVE  InTurn(g)' /\ UidsPromised(g)'
<1>1. /\ cmds # <<>> /\ answered /\ net' = Append(net, Tagged("OK")) /\ cmds' = Tail(cmds)
      /\ answered' = FALSE /\ mb' = mb
  BY DEF SendTagged, Reliable
<1>2. PICK r : r = Tagged("OK")
  OBVIOUS
<1>3. net \in Seq(Response) /\ net' \in Seq(Response) /\ cmds \in Seq(Commands)
  BY DEF TypeOK
<1>4. r \in Response
  <2>1. net' # <<>> /\ Len(net') \in Nat /\ Len(net') >= 1 /\ net'[Len(net')] = r
    BY <1>1, <1>2, <1>3
  <2> QED
    BY <1>3, <2>1, ElementOfSeq
<1>5. /\ <<r>> \in Seq(Response) /\ Len(<<r>>) = 1 /\ <<r>>[1] = r
      /\ Append(net, r) = net \o <<r>>
  BY <1>3, <1>4, OneElement, AppendIsConcat
<1>6. PICK d \in Seq(Response) : d = <<r>>
  BY <1>5
<1>7. Len(d) = 1 /\ d[1] = r /\ Sent(hs, g, d)
  BY <1>1, <1>2, <1>5, <1>6 DEF Sent
<1>8. r.t = "OK" /\ r.cmd = cmds[1].t
  <2>1. Head(cmds) = cmds[1]
    BY <1>1, <1>3, TailElements
  <2> QED
    BY <1>2, <2>1 DEF Tagged
<1>9. /\ Len(cmds) \in Nat /\ Len(cmds') = Len(cmds) - 1
      /\ \A i \in 1..(Len(cmds) - 1) : cmds'[i] = cmds[i + 1]
  BY <1>1, <1>3, TailElements
<1>10. ASSUME NEW k \in 1..Len(d) PROVE d[k].t # "FETCH"
  <2>1. k = 1
    BY <1>7
  <2> QED
    BY <1>7, <1>8, <2>1
<1>11. ASSUME NEW i \in OpenOf(cmds', "ARRIVALS")
       PROVE  \E j \in OpenOf(cmds, "ARRIVALS") : cmds'[i].arg = cmds[j].arg
  <2>1. i + 1 \in 1..Len(cmds) /\ cmds'[i] = cmds[i + 1] /\ cmds'[i].t = "ARRIVALS"
    BY <1>9 DEF OpenOf
  <2>2. i + 1 \in OpenOf(cmds, "ARRIVALS")
    BY <2>1 DEF OpenOf
  <2> QED
    BY <2>1, <2>2
<1>12. ASSUME NEW i \in OpenOf(cmds, "ARRIVALS") PROVE Kept(g, i)
  <2>1. i \in 1..Len(cmds) /\ cmds[i].t = "ARRIVALS"
    BY DEF OpenOf
  <2>2. CASE i = 1
    <3>1. /\ Len(net) \in Nat /\ Len(net') = Len(net) + 1 /\ net'[Len(net) + 1] = r
      BY <1>3, <1>1, <1>2
    <3>2. Len(net) + 1 \in LinesOf(net', "ARRIVALS")
      BY <1>8, <2>1, <2>2, <3>1 DEF LinesOf
    <3> QED
      BY <1>1, <2>2, <3>2 DEF Kept
  <2>3. CASE i # 1
    <3>1. i - 1 \in 1..Len(cmds') /\ cmds'[i - 1] = cmds[i]
      BY <1>9, <2>1, <2>3
    <3>2. i - 1 \in OpenOf(cmds', "ARRIVALS")
      BY <2>1, <3>1 DEF OpenOf
    <3> QED
      BY <1>1, <2>3, <3>1, <3>2 DEF Kept
  <2> QED
    BY <2>2, <2>3
<1>13. InTurn(g)'
  BY <1>7, <1>10, <1>11, SentInTurn
<1> QED
  BY <1>7, <1>12, <1>13, SentPromised

\* Whatever the server does.
LEMMA ServerKeepsUids ==
    ASSUME Reliable, TypeOK, TypeOK', NEW hs, FollowsServer(hs), NEW g, FollowsServer(g)',
           Continues(hs, g), task.status \in UidsAreKnown, InTurn(hs), UidsPromised(hs),
           ServerChange \/ Recreate \/ SendData \/ SendTagged \/ UNCHANGED vars
    PROVE  InTurn(g)' /\ UidsPromised(g)'
<1>1. up /\ net \in Seq(Response) /\ net' \in Seq(Response)
  <2>1. Connected
    BY DEF FollowsServer, Stream
  <2> QED
    BY <2>1 DEF Connected, UidsAreKnown, TypeOK
<1>2. UNCHANGED <<up, mb>> /\ \E d \in Seq(Response) : net' = net \o d
  <2>1. CASE ServerChange \/ Recreate
    BY <2>1, ChangeIs DEF Reliable
  <2>2. CASE SendData
    <3>1. \E d \in Seq(Response), order \in Seq(1..Len(srv.msgs)) :
              net' = net \o d /\ Answer(Head(cmds), order, d)
      BY <2>2, AnswerIs DEF Reliable
    <3> QED
      BY <2>2, <3>1 DEF SendData
  <2>3. CASE SendTagged
    <3>1. PICK r : net' = Append(net, r)
      BY <2>3 DEF SendTagged
    <3>2. net' # <<>> /\ Len(net') \in Nat /\ Len(net') >= 1 /\ net'[Len(net')] = r
      BY <1>1, <3>1
    <3>3. r \in Response
      BY <1>1, <3>2, ElementOfSeq
    <3>4. <<r>> \in Seq(Response) /\ Append(net, r) = net \o <<r>>
      BY <1>1, <3>3, OneElement, AppendIsConcat
    <3> QED
      BY <2>3, <3>1, <3>4 DEF SendTagged
  <2>4. CASE UNCHANGED vars
    <3>1. <<>> \in Seq(Response) /\ net \o <<>> = net
      BY <1>1, EmptySeq, ConcatEmptySeq
    <3> QED
      BY <2>4, <3>1 DEF vars
  <2> QED
    BY <2>1, <2>2, <2>3, <2>4
<1>3. PICK d \in Seq(Response) : net' = net \o d
  BY <1>2
<1>4. ~(net # <<>> /\ net' = Tail(net))
  <2>1. Len(net') = Len(net) + Len(d) /\ Len(net) \in Nat /\ Len(d) \in Nat
    BY <1>1, <1>3, ConcatProperties, LenProperties
  <2>2. net # <<>> => Len(Tail(net)) = Len(net) - 1
    BY <1>1, TailElements
  <2> QED
    BY <2>1, <2>2
<1>5. GoesOnAs(hs, g)
  BY <1>1, <1>2, <1>4 DEF Continues, GoesOnAs
<1>6. CASE UNCHANGED vars
  <2>1. PICK e \in Seq(Response) : e = <<>> /\ net \o e = net /\ Len(e) = 0
    BY <1>1, EmptySeq, ConcatEmptySeq
  <2>2. UNCHANGED <<cmds, answered>> /\ Sent(hs, g, e) /\ \A k \in 1..Len(e) : Announcement(e[k])
    BY <1>5, <1>6, <2>1 DEF Sent, vars
  <2> QED
    BY <2>2, AnnouncedKeepsUids
<1> QED
  BY <1>5, <1>6, ChangeKeepsUids, SendDataKeepsUids, SendTaggedKeepsUids

----------------------------------------------------------------------------
(* What the client learns from a response when the UIDs are known. *)

\* The client has handled the first response, and hs goes on as g.
Took(hs, g) == net # <<>> /\ Handled /\ g = Tail(hs)

\* What the response says, and the states before and after it.
LEMMA TookStates ==
    ASSUME TypeOK, NEW hs, FollowsServer(hs), NEW g, Took(hs, g)
    PROVE  /\ net \in Seq(Response) /\ Len(net) \in Nat /\ Len(net) >= 1 /\ Head(net) = net[1]
           /\ Len(net') = Len(net) - 1
           /\ \A i \in 1..Len(net') : net'[i] = net[i + 1] /\ i + 1 \in 1..Len(net)
           /\ Len(hs) = Len(net) + 1 /\ History(hs, net, srv)
           /\ \A i \in 1..Len(net) : g[i] = hs[i + 1]
           /\ Tells(Head(net), hs[1], hs[2]) /\ Sane(hs[1]) /\ Sane(hs[2]) /\ Later(hs[1], hs[2])
           /\ g[1] = hs[2] /\ srv' = srv /\ answered' = answered
           /\ hs[1].next \in Nat /\ hs[2].next \in Nat /\ srv.next \in Nat
           /\ hs[1].next <= hs[2].next /\ hs[1].next <= srv.next
           /\ Client(mb, task, srv.val, hs[1]) /\ Stream(hs)
<1>1. net # <<>> /\ Handled /\ g = Tail(hs)
  BY DEF Took
<1>2. /\ net \in Seq(Response) /\ Len(net) \in Nat /\ Len(net) >= 1 /\ Head(net) = net[1]
      /\ Len(net') = Len(net) - 1
      /\ \A i \in 1..Len(net') : net'[i] = net[i + 1] /\ i + 1 \in 1..Len(net)
      /\ Len(hs) = Len(net) + 1
      /\ \A i \in 1..Len(net) : Tail(hs)[i] = hs[i + 1]
      /\ Tells(Head(net), hs[1], hs[2]) /\ Sane(hs[1]) /\ Sane(hs[2]) /\ Later(hs[1], hs[2])
      /\ Tail(hs)[1] = hs[2]
      /\ Client(mb, task, srv.val, hs[1]) /\ Stream(hs)
  BY <1>1, Remaining
<1>3. History(hs, net, srv) /\ Sane(srv) /\ Later(hs[1], srv)
  BY SaneServer
<1>4. /\ hs[1].next \in Nat /\ hs[2].next \in Nat /\ srv.next \in Nat
  BY <1>2, <1>3, SaneFields
<1>5. hs[1].next <= hs[2].next /\ hs[1].next <= srv.next
  BY <1>2, <1>3 DEF Later, Follows
<1>6. srv' = srv /\ answered' = answered
  BY <1>1 DEF Handled
<1> QED
  BY <1>1, <1>2, <1>3, <1>4, <1>5, <1>6

\* No message of a known UID leaves the list that the server says is there.
KeepsKnown(hs) == \A u \in Uid : Leaves(u) => u < hs[2].next /\ ~Has(hs[2], u)
\* A FETCH that tells a UID, and that it has been noted.
TellsUid == Head(net).t = "FETCH" /\ Head(net).uid # 0
LearnsUid == TellsUid => InList(mb'.list, Head(net).uid)

\* While the UIDs are known only an EXPUNGE takes a message off the list.
LEMMA KnownStays ==
    ASSUME TypeOK, NEW hs, FollowsServer(hs), Moves, task.status \in UidsAreKnown,
           task'.status # "OFF"
    PROVE  KeepsKnown(hs)
<1>1. SUFFICES ASSUME NEW u \in Uid, Leaves(u) PROVE u < hs[2].next /\ ~Has(hs[2], u)
  BY DEF KeepsKnown
<1>2. ~Forgets /\ ~HandleSearch
  BY DEF Forgets, HandleSearch, UidsAreKnown
<1>3. PICK n \in Nat : Removes(n)
  BY <1>1, <1>2, HowItLeaves
<1> QED
  BY <1>1, <1>3, RemovedIsExpunged

\* Who would be found before the next response is found.
LEMMA TookFound ==
    ASSUME TypeOK, NEW hs, FollowsServer(hs), NEW g, Took(hs, g), KeepsKnown(hs), LearnsUid,
           NEW u \in Uid, NEW k \in 1..Len(net), NEW next, next = k + 1, FoundNow(hs, u, next)
    PROVE  FoundThen(g, u, k)
<1>1. /\ Len(net) \in Nat /\ Len(net) >= 1 /\ Head(net) = net[1] /\ Len(net') = Len(net) - 1
      /\ \A i \in 1..Len(net') : net'[i] = net[i + 1]
      /\ History(hs, net, srv) /\ g[k] = hs[next] /\ Len(hs) = Len(net) + 1
  BY TookStates
<1>2. u # 0
  BY DEF Uid
<1>3. SUFFICES ASSUME Has(hs[next], u)
               PROVE  \/ InList(mb'.list, u)
                      \/ \E i \in 1..Len(net') : i < k /\ net'[i].t = "FETCH" /\ net'[i].uid = u
  BY <1>1 DEF FoundThen, Found
<1>4. CASE InList(mb.list, u)
  <2> SUFFICES ASSUME Leaves(u) PROVE FALSE
    BY <1>4 DEF Leaves
  <2>1. u < hs[2].next /\ ~Has(hs[2], u)
    BY DEF KeepsKnown
  <2>2. next # 2
    BY <1>3, <2>1
  <2>3. 2 \in 1..Len(hs) /\ next \in 1..Len(hs) /\ 2 < next
    BY <1>1, <2>2
  <2>4. Later(hs[2], hs[next])
    BY <1>1, <2>3 DEF History
  <2> QED
    BY <1>3, <2>1, <2>4 DEF Later, NoneReturns
<1>5. CASE ~InList(mb.list, u)
  <2>1. PICK i \in 1..Len(net) : i < next /\ net[i].t = "FETCH" /\ net[i].uid = u
    BY <1>3, <1>5 DEF FoundNow, Found
  <2>2. CASE i = 1
    BY <1>1, <1>2, <2>1, <2>2 DEF LearnsUid, TellsUid
  <2>3. CASE i # 1
    <3>1. PICK j \in Nat : j = i - 1
      BY <2>1
    <3>2. j \in 1..Len(net') /\ j < k /\ i = j + 1
      BY <1>1, <2>1, <2>3, <3>1
    <3>3. net'[j] = net[i]
      BY <1>1, <3>2
    <3> QED
      BY <2>1, <3>2, <3>3
  <2> QED
    BY <2>2, <2>3
<1> QED
  BY <1>4, <1>5

\* What is asked for: the UIDs from the first unknown one on, or none.
Asks == \E c \in Commands : c.t = "ARRIVALS" /\ c.arg = mb'.sync.uidNext /\ cmds' = Append(cmds, c)
AsksNone == cmds' = cmds \/ \E c \in Commands : c.t # "ARRIVALS" /\ cmds' = Append(cmds, c)
\* A response does not disturb what the client knows; new messages are asked for.
KnownStep(hs) ==
    /\ KeepsKnown(hs) /\ LearnsUid
    /\ (Asks /\ ~TellsUid) \/ (AsksNone /\ hs[2].next = hs[1].next)
    /\ \/ mb'.sync.uidNext = mb.sync.uidNext
       \/ TellsUid /\ mb'.sync.uidNext = Head(net).uid + 1
    /\ mb.sync.uidNext \in Nat /\ mb.sync.uidNext <= hs[1].next

\* The commands after the step.
LEMMA AskedOpen ==
    ASSUME TypeOK, Asks \/ AsksNone
    PROVE  /\ cmds \in Seq(Commands) /\ Len(cmds) \in Nat
           /\ \A i \in OpenOf(cmds, "ARRIVALS") : i \in OpenOf(cmds', "ARRIVALS") /\ cmds'[i] = cmds[i]
           /\ \A i \in OpenOf(cmds', "ARRIVALS") :
                 \/ i \in OpenOf(cmds, "ARRIVALS") /\ cmds'[i] = cmds[i]
                 \/ Asks /\ cmds'[i].arg = mb'.sync.uidNext
           /\ AsksNone => \A i \in OpenOf(cmds', "ARRIVALS") :
                             i \in OpenOf(cmds, "ARRIVALS") /\ cmds'[i] = cmds[i]
           /\ Asks => \E i \in OpenOf(cmds', "ARRIVALS") :
                         i = Len(cmds) + 1 /\ cmds'[i].arg = mb'.sync.uidNext
<1>1. cmds \in Seq(Commands) /\ Len(cmds) \in Nat
  BY DEF TypeOK
<1>2. CASE cmds' = cmds
  BY <1>1, <1>2 DEF Asks, OpenOf
<1>3. ASSUME NEW c \in Commands, cmds' = Append(cmds, c)
      PROVE  /\ Len(cmds') = Len(cmds) + 1 /\ cmds'[Len(cmds) + 1] = c
             /\ \A i \in 1..Len(cmds) : cmds'[i] = cmds[i] /\ i \in 1..Len(cmds')
  BY <1>1, <1>3, AppendElements
<1>4. ASSUME NEW c \in Commands, cmds' = Append(cmds, c)
      PROVE  /\ \A i \in OpenOf(cmds, "ARRIVALS") : i \in OpenOf(cmds', "ARRIVALS") /\ cmds'[i] = cmds[i]
             /\ \A i \in OpenOf(cmds', "ARRIVALS") :
                   (i \in OpenOf(cmds, "ARRIVALS") /\ cmds'[i] = cmds[i]) \/ i = Len(cmds) + 1
  BY <1>1, <1>3, <1>4 DEF OpenOf
<1>5. ASSUME NEW c \in Commands, c.t = "ARRIVALS", c.arg = mb'.sync.uidNext, cmds' = Append(cmds, c)
      PROVE  /\ ~AsksNone
             /\ \E i \in OpenOf(cmds', "ARRIVALS") : i = Len(cmds) + 1 /\ cmds'[i].arg = mb'.sync.uidNext
  <2>1. PICK i : i = Len(cmds) + 1
    OBVIOUS
  <2>2. i \in OpenOf(cmds', "ARRIVALS") /\ cmds'[i].arg = mb'.sync.uidNext
    BY <1>1, <1>3, <1>5, <2>1 DEF OpenOf
  <2>3. ASSUME NEW d \in Commands, cmds' = Append(cmds, d) PROVE d = c
    BY <1>3, <1>5, <2>3
  <2>4. cmds' # cmds
    BY <1>1, <1>3, <1>5
  <2> QED
    BY <1>5, <2>1, <2>2, <2>3, <2>4 DEF AsksNone
<1>6. ASSUME NEW c \in Commands, c.t # "ARRIVALS", cmds' = Append(cmds, c)
      PROVE  ~Asks /\ \A i \in OpenOf(cmds', "ARRIVALS") : i # Len(cmds) + 1
  <2>1. \A i \in OpenOf(cmds', "ARRIVALS") : i # Len(cmds) + 1
    BY <1>1, <1>3, <1>6 DEF OpenOf
  <2> QED
    BY <1>5, <2>1 DEF Asks
<1>7. CASE Asks
  <2>1. PICK c \in Commands : c.t = "ARRIVALS" /\ c.arg = mb'.sync.uidNext /\ cmds' = Append(cmds, c)
    BY <1>7 DEF Asks
  <2>2. /\ ~AsksNone
        /\ \E i \in OpenOf(cmds', "ARRIVALS") : i = Len(cmds) + 1 /\ cmds'[i].arg = mb'.sync.uidNext
    BY <1>5, <2>1
  <2> QED
    BY <1>1, <1>4, <1>7, <2>1, <2>2
<1>8. CASE AsksNone /\ cmds' # cmds
  <2>1. PICK c \in Commands : c.t # "ARRIVALS" /\ cmds' = Append(cmds, c)
    BY <1>8 DEF AsksNone
  <2>2. ~Asks /\ \A i \in OpenOf(cmds', "ARRIVALS") : i # Len(cmds) + 1
    BY <1>6, <2>1
  <2> QED
    BY <1>1, <1>4, <1>8, <2>1, <2>2
<1> QED
  BY <1>2, <1>7, <1>8

\* UIDs come in turn still.
LEMMA TookInTurn ==
    ASSUME TypeOK, NEW hs, FollowsServer(hs), NEW g, Took(hs, g), KnownStep(hs), InTurn(hs)
    PROVE  InTurn(g)'
<1>1. /\ net \in Seq(Response) /\ Len(net) \in Nat /\ Len(net) >= 1 /\ Head(net) = net[1]
      /\ Len(net') = Len(net) - 1
      /\ \A i \in 1..Len(net') : net'[i] = net[i + 1] /\ i + 1 \in 1..Len(net)
      /\ Len(hs) = Len(net) + 1 /\ History(hs, net, srv) /\ srv' = srv
      /\ hs[1].next \in Nat /\ srv.next \in Nat /\ hs[1].next <= srv.next
      /\ Tells(Head(net), hs[1], hs[2]) /\ Sane(hs[1])
  BY TookStates
<1>2. KeepsKnown(hs) /\ LearnsUid /\ (Asks \/ AsksNone)
  BY DEF KnownStep
<1>3. ASSUME NEW u \in Uid, u < hs[1].next, FoundNow(hs, u, 1), NEW k \in 1..Len(net)
      PROVE  FoundThen(g, u, k)
  <2>1. PICK i \in 1..Len(hs) : i = 1
    BY <1>1
  <2>2. PICK next \in 1..Len(hs) : next = k + 1
    BY <1>1
  <2>3. i <= next /\ u < hs[i].next /\ Found(mb.list, net, hs, u, i)
    BY <1>3, <2>1, <2>2 DEF FoundNow
  <2>4. Found(mb.list, net, hs, u, next)
    BY <1>1, <2>3, FoundLater
  <2>5. FoundNow(hs, u, next)
    BY <2>4 DEF FoundNow
  <2> QED
    BY <1>2, <2>2, <2>5, TookFound
<1>4. PICK one \in 1..Len(net) : one = 1
  BY <1>1
<1>5. ASSUME NEW u \in Uid, u < mb.sync.uidNext, NEW k \in 1..Len(net)
      PROVE  FoundThen(g, u, k)
  <2>1. FoundNow(hs, u, 1)
    BY <1>5 DEF InTurn
  <2>2. u < hs[1].next
    BY <1>1, <1>5 DEF KnownStep, Uid
  <2> QED
    BY <1>3, <2>1, <2>2
<1>6. ASSUME NEW u \in Uid, u < mb'.sync.uidNext PROVE FoundThen(g, u, 1)
  <2>1. CASE mb'.sync.uidNext = mb.sync.uidNext
    BY <1>4, <1>5, <1>6, <2>1
  <2>2. CASE TellsUid /\ mb'.sync.uidNext = Head(net).uid + 1
    <3>1. PICK r : r = Head(net)
      OBVIOUS
    <3>2. r.t = "FETCH" /\ r.uid # 0 /\ r.n \in 1..Len(hs[1].msgs) /\ r.uid = hs[1].msgs[r.n]
      BY <1>1, <2>2, <3>1 DEF TellsUid, Tells
    <3>3. r.uid < hs[1].next /\ r.uid \in Uid
      BY <1>1, <3>2, SaneFields DEF Sane
    <3>4. CASE u = r.uid
      <4>1. InList(mb'.list, u)
        BY <1>2, <2>2, <3>1, <3>4 DEF LearnsUid
      <4> QED
        BY <4>1 DEF FoundThen, Found
    <3>5. CASE u < r.uid
      <4>1. one \in 1..Len(net) /\ net[one] = r
        BY <1>1, <1>4, <3>1
      <4>2. FoundNow(hs, u, one)
        BY <3>2, <3>5, <4>1 DEF InTurn
      <4>3. u < hs[1].next
        BY <1>1, <3>3, <3>5 DEF Uid
      <4> QED
        BY <1>3, <1>4, <4>2, <4>3
    <3> QED
      BY <1>6, <2>2, <3>1, <3>3, <3>4, <3>5 DEF Uid
  <2> QED
    BY <2>1, <2>2 DEF KnownStep
<1>7. ASSUME NEW i \in 1..Len(net'), net'[i].t = "FETCH", NEW u \in Uid, u < net'[i].uid
      PROVE  FoundThen(g, u, i)
  <2>1. PICK next \in 1..Len(net) : next = i + 1
    BY <1>1
  <2>2. net[next] = net'[i] /\ i \in 1..Len(net)
    BY <1>1, <2>1
  <2>3. FoundNow(hs, u, next)
    BY <1>7, <2>2 DEF InTurn
  <2> QED
    BY <1>2, <2>1, <2>2, <2>3, TookFound
<1>8. PICK last \in 1..Len(net) : last = Len(net)
  BY <1>1
<1>9. PICK over : over = Len(net) + 1
  OBVIOUS
<1>10. ASSUME NEW i \in OpenOf(cmds', "ARRIVALS")
      PROVE  cmds'[i].arg <= srv.next /\ \A u \in Uid : u < cmds'[i].arg => FoundThen(g, u, last)
  <2>1. CASE i \in OpenOf(cmds, "ARRIVALS") /\ cmds'[i] = cmds[i]
    <3>1. cmds[i].arg <= srv.next /\ \A u \in Uid : u < cmds[i].arg => FoundNow(hs, u, over)
      BY <1>9, <2>1 DEF InTurn
    <3>2. ASSUME NEW u \in Uid, u < cmds[i].arg PROVE FoundThen(g, u, last)
      <4>1. over = last + 1 /\ FoundNow(hs, u, over)
        BY <1>8, <1>9, <3>1, <3>2
      <4> QED
        BY <1>2, <4>1, TookFound
    <3> QED
      BY <2>1, <3>1, <3>2
  <2>2. CASE Asks /\ cmds'[i].arg = mb'.sync.uidNext
    <3>1. mb'.sync.uidNext <= srv.next /\ \A u \in Uid : u < mb'.sync.uidNext => FoundThen(g, u, last)
      <4>1. CASE mb'.sync.uidNext = mb.sync.uidNext
        BY <1>1, <1>5, <4>1 DEF KnownStep
      <4>2. CASE TellsUid /\ mb'.sync.uidNext = Head(net).uid + 1
        <5>1. AsksNone
          BY <4>2 DEF KnownStep
        <5>2. i \in OpenOf(cmds, "ARRIVALS") /\ cmds'[i] = cmds[i]
          BY <5>1, AskedOpen
        <5>3. cmds[i].arg <= srv.next /\ \A u \in Uid : u < cmds[i].arg => FoundNow(hs, u, over)
          BY <1>9, <5>2 DEF InTurn
        <5>4. ASSUME NEW u \in Uid, u < cmds[i].arg PROVE FoundThen(g, u, last)
          <6>1. over = last + 1 /\ FoundNow(hs, u, over)
            BY <1>8, <1>9, <5>3, <5>4
          <6> QED
            BY <1>2, <6>1, TookFound
        <5>5. cmds[i].arg = mb'.sync.uidNext
          BY <2>2, <5>2
        <5> QED
          BY <5>3, <5>4, <5>5
      <4> QED
        BY <4>1, <4>2 DEF KnownStep
    <3> QED
      BY <2>2, <3>1
  <2> QED
    BY <1>2, <2>1, <2>2, AskedOpen
<1>11. last = Len(net') + 1
  BY <1>1, <1>8
<1>12. \A i \in 1..Len(net') : net'[i].t = "FETCH" =>
          \A u \in Uid : u < net'[i].uid => FoundThen(g, u, i)
  BY <1>7
<1>13. \A i \in OpenOf(cmds', "ARRIVALS") :
          cmds'[i].arg <= srv'.next /\ \A u \in Uid : u < cmds'[i].arg => FoundThen(g, u, Len(net') + 1)
  BY <1>1, <1>10, <1>11
<1>14. \A u \in Uid : u < mb'.sync.uidNext => FoundThen(g, u, 1)
  BY <1>6
<1> QED
  BY <1>12, <1>13, <1>14 DEF InTurn, FoundNow, FoundThen

\* Every message that the server says is there is known, or its UID is asked for still.
LEMMA TookPromised ==
    ASSUME TypeOK, NEW hs, FollowsServer(hs), NEW g, Took(hs, g), KnownStep(hs), UidsPromised(hs)
    PROVE  UidsPromised(g)'
<1>1. /\ net \in Seq(Response) /\ Len(net) \in Nat /\ Len(net) >= 1 /\ Head(net) = net[1]
      /\ Len(net') = Len(net) - 1
      /\ \A i \in 1..Len(net') : net'[i] = net[i + 1]
      /\ Len(hs) = Len(net) + 1 /\ History(hs, net, srv) /\ answered' = answered
      /\ hs[1].next \in Nat /\ hs[2].next \in Nat
      /\ Later(hs[1], hs[2]) /\ Sane(hs[1]) /\ Sane(hs[2]) /\ g[1] = hs[2] /\ Stream(hs)
  BY TookStates
<1>2. KeepsKnown(hs) /\ LearnsUid /\ (Asks \/ AsksNone)
  BY DEF KnownStep
<1>3. SUFFICES ASSUME NEW u \in Uid, Has(hs[2], u)
               PROVE  \/ FoundThen(g, u, 1)
                      \/ \E k \in LinesOf(net', "ARRIVALS") : FoundThen(g, u, k)
                      \/ \E i \in OpenOf(cmds', "ARRIVALS") :
                            IF i = 1 /\ answered' THEN FoundThen(g, u, Len(net') + 1)
                            ELSE cmds'[i].arg <= u
  BY <1>1 DEF UidsPromised, UidPromised, FoundNow, FoundThen
<1>4. PICK one \in 1..Len(net) : one = 1
  BY <1>1
<1>5. CASE Has(hs[1], u)
  <2>1. u < hs[1].next
    BY <1>1, <1>5 DEF Has, Sane
  <2>2. ASSUME FoundNow(hs, u, 1) PROVE FoundThen(g, u, 1)
    <3>1. PICK i \in 1..Len(hs) : i = 1
      BY <1>1
    <3>2. PICK next \in 1..Len(hs) : next = one + 1
      BY <1>1, <1>4
    <3>3. i <= next /\ u < hs[i].next /\ Found(mb.list, net, hs, u, i)
      BY <1>4, <2>1, <2>2, <3>1, <3>2 DEF FoundNow
    <3>4. Found(mb.list, net, hs, u, next)
      BY <1>1, <3>3, FoundLater
    <3>5. FoundNow(hs, u, next)
      BY <3>4 DEF FoundNow
    <3> QED
      BY <1>2, <1>4, <3>2, <3>5, TookFound
  <2>3. ASSUME NEW k \in LinesOf(net, "ARRIVALS"), FoundNow(hs, u, k)
        PROVE  FoundThen(g, u, 1) \/ \E l \in LinesOf(net', "ARRIVALS") : FoundThen(g, u, l)
    <3>1. k \in 1..Len(net)
      BY DEF LinesOf
    <3>2. CASE k = 1
      BY <2>2, <2>3, <3>2
    <3>3. CASE k # 1
      <4>1. PICK l \in Nat : l = k - 1
        BY <3>1
      <4>2. l \in 1..Len(net') /\ l \in 1..Len(net) /\ k = l + 1
        BY <1>1, <3>1, <3>3, <4>1
      <4>3. net'[l] = net[k]
        BY <1>1, <4>2
      <4>4. l \in LinesOf(net', "ARRIVALS")
        BY <4>2, <4>3 DEF LinesOf
      <4>5. FoundThen(g, u, l)
        BY <1>2, <2>3, <4>2, TookFound
      <4> QED
        BY <4>4, <4>5
    <3> QED
      BY <3>2, <3>3
  <2>4. ASSUME NEW i \in OpenOf(cmds, "ARRIVALS"),
               IF i = 1 /\ answered THEN FoundNow(hs, u, Len(net) + 1) ELSE cmds[i].arg <= u
        PROVE  \E j \in OpenOf(cmds', "ARRIVALS") :
                  IF j = 1 /\ answered' THEN FoundThen(g, u, Len(net') + 1) ELSE cmds'[j].arg <= u
    <3>1. i \in OpenOf(cmds', "ARRIVALS") /\ cmds'[i] = cmds[i]
      BY <1>2, AskedOpen
    <3>2. ASSUME i = 1 /\ answered PROVE FoundThen(g, u, Len(net') + 1)
      <4>1. PICK last \in 1..Len(net) : last = Len(net)
        BY <1>1
      <4>2. PICK over : over = last + 1
        OBVIOUS
      <4>3. FoundNow(hs, u, over)
        BY <2>4, <3>2, <4>1, <4>2
      <4>4. FoundThen(g, u, last)
        BY <1>2, <4>2, <4>3, TookFound
      <4> QED
        BY <1>1, <4>1, <4>4
    <3> QED
      BY <1>1, <2>4, <3>1, <3>2
  <2>5. FoundNow(hs, u, 1) \/ UidPromised(hs, u)
    BY <1>5 DEF UidsPromised
  <2> QED
    BY <2>2, <2>3, <2>4, <2>5 DEF UidPromised
<1>6. CASE ~Has(hs[1], u)
  <2>1. hs[1].next <= u
    BY <1>1, <1>3, <1>6 DEF Later, NoneReturns, Uid
  <2>2. u < hs[2].next
    BY <1>1, <1>3 DEF Has, Sane
  <2>3. Asks /\ ~TellsUid
    BY <1>1, <2>1, <2>2 DEF KnownStep, Uid
  <2>4. mb'.sync.uidNext <= u
    BY <1>1, <2>1, <2>3 DEF KnownStep, Uid
  <2>5. PICK i \in OpenOf(cmds', "ARRIVALS") : i = Len(cmds) + 1 /\ cmds'[i].arg = mb'.sync.uidNext
    BY <2>3, AskedOpen
  <2>6. i = 1 => ~answered
    <3>1. cmds \in Seq(Commands) /\ (cmds = <<>> => ~answered)
      BY <1>1 DEF TypeOK, Stream, Connected
    <3>2. i = 1 => cmds = <<>>
      BY <2>5, <3>1, EmptySeq
    <3> QED
      BY <3>1, <3>2
  <2> QED
    BY <1>1, <2>4, <2>5, <2>6
<1> QED
  BY <1>5, <1>6

\* UIDNEXT is above every known UID, so it stays.
LEMMA RaisedStays ==
    ASSUME NEW m \in Mailbox, KnownBelow(m.list, m.sync.uidNext)
    PROVE  UpdateHighestKnownUid(m).sync.uidNext = m.sync.uidNext
<1>1. PICK w : w = UpdateHighestKnownUid(m)
  OBVIOUS
<1>2. w \in Mailbox
  BY <1>1, UpdateHighestKnownUidType
<1>3. PICK a \in Nat : a = m.sync.uidNext
  BY MailboxFields
<1>4. PICK b \in Nat : b = w.sync.uidNext
  BY <1>2, MailboxFields
<1>5. b >= a /\ (b = a \/ \E i \in 1..Len(m.list) : b = m.list[i].uid + 1)
  BY <1>1, <1>3, <1>4, UpdateHighestKnownUidDoes
<1>6. \A i \in 1..Len(m.list) : m.list[i].uid \in Nat /\ m.list[i].uid < a
  BY <1>3, MailboxFields, ListUids DEF KnownBelow
<1> QED
  BY <1>1, <1>3, <1>4, <1>5, <1>6

\* What holds of the list while its UIDs are known.
LEMMA InSync ==
    ASSUME TypeOK, NEW hs, FollowsServer(hs), task.status \in UidsAreKnown
    PROVE  /\ mb \in Mailbox /\ mb.list \in Seq(Message) /\ Len(mb.list) \in Nat
           /\ Synced(mb, srv.val, hs[1]) /\ Sane(hs[1]) /\ hs[1].next \in Nat
           /\ mb.sync.uidNext \in Nat /\ mb.sync.uidNext >= 1 /\ mb.sync.uidNext <= hs[1].next
           /\ KnownBelow(mb.list, mb.sync.uidNext)
<1>1. mb \in Mailbox /\ Sane(hs[1])
  BY SaneServer
<1>2. Synced(mb, srv.val, hs[1])
  BY DEF FollowsServer, Client
<1>3. mb.list \in Seq(Message) /\ Len(mb.list) \in Nat /\ mb.sync.uidNext \in Nat
  BY <1>1, MailboxFields
<1>4. PICK n \in Nat : n = hs[1].next
  BY <1>1, SaneFields
<1>5. mb.sync.uidNext \in 1..n
  BY <1>2, <1>4 DEF Synced
<1> QED
  BY <1>1, <1>2, <1>3, <1>4, <1>5 DEF Synced

\* Only EXISTS tells of new messages.
LEMMA NextStays ==
    ASSUME TypeOK, NEW hs, FollowsServer(hs), net # <<>>, Handled, Head(net).t # "EXISTS"
    PROVE  hs[2].next = hs[1].next
<1>1. Tells(Head(net), hs[1], hs[2])
  BY Remaining
<1> QED
  BY <1>1 DEF Tells

\* A response that tells no UID and leaves UIDNEXT.
LEMMA UntoldStep ==
    ASSUME TypeOK, NEW hs, FollowsServer(hs), net # <<>>, Handled, task.status \in UidsAreKnown,
           KeepsKnown(hs), Head(net).t \notin {"EXISTS", "FETCH"}, AsksNone,
           mb'.sync.uidNext = mb.sync.uidNext
    PROVE  KnownStep(hs)
<1>1. mb.sync.uidNext \in Nat /\ mb.sync.uidNext <= hs[1].next
  BY InSync
<1>2. hs[2].next = hs[1].next
  BY NextStays
<1> QED
  BY <1>1, <1>2 DEF KnownStep, LearnsUid, TellsUid

\* EXISTS: the UIDs of new messages are asked for.
LEMMA AskStep ==
    ASSUME TypeOK, NEW hs, FollowsServer(hs), net # <<>>, Handled, task.status \in UidsAreKnown,
           KeepsKnown(hs), Head(net).t = "EXISTS", ~ExistsThrows(mb, Head(net).n),
           NEW w, w = HandleExists(mb, Head(net).n), NEW m, m = w \/ m = UpdateHighestKnownUid(w),
           NEW from, from = UpdateHighestKnownUid(w).sync.uidNext, AskForArrivals(m, from)
    PROVE  KnownStep(hs)
<1>1. /\ mb \in Mailbox /\ mb.sync.uidNext \in Nat /\ mb.sync.uidNext >= 1
      /\ mb.sync.uidNext <= hs[1].next /\ KnownBelow(mb.list, mb.sync.uidNext)
      /\ mb.list \in Seq(Message) /\ Len(mb.list) \in Nat
  BY InSync
<1>2. PICK n \in Nat : n = Head(net).n
  BY ExistsTells
<1>3. w \in Mailbox /\ Len(w.list) = n /\ w.sync.uidNext = mb.sync.uidNext
  BY <1>1, <1>2, HandleExistsType
<1>4. \A j \in 1..n : w.list[j].uid = IF j <= Len(mb.list) THEN mb.list[j].uid ELSE 0
  BY <1>1, <1>2, HandleExistsDoes
<1>5. KnownBelow(w.list, w.sync.uidNext)
  BY <1>1, <1>3, <1>4 DEF KnownBelow
<1>6. from = w.sync.uidNext
  BY <1>3, <1>5, RaisedStays
<1>7. m.sync.uidNext = mb.sync.uidNext
  BY <1>3, <1>6
<1>8. PICK c : c = Command("ARRIVALS", IF from > 1 THEN from ELSE 1)
  OBVIOUS
<1>9. mb' = m /\ cmds' = Append(cmds, c)
  BY <1>8 DEF AskForArrivals, Issue
<1>10. PICK arg \in Nat : arg = from
  BY <1>1, <1>3, <1>6
<1>11. (IF from > 1 THEN from ELSE 1) = arg
  BY <1>1, <1>3, <1>6, <1>10
<1>12. c \in Commands /\ c.t = "ARRIVALS"
  <2>1. "ARRIVALS" \in CommandKind
    BY DEF CommandKind
  <2> QED
    BY <1>8, <1>10, <1>11, <2>1, CommandType
<1>13. c.arg = arg
  BY <1>8, <1>11 DEF Command
<1>14. Asks
  BY <1>3, <1>6, <1>7, <1>9, <1>10, <1>12, <1>13 DEF Asks
<1> QED
  BY <1>1, <1>7, <1>9, <1>14 DEF KnownStep, LearnsUid, TellsUid

\* The same number once more.
LEMMA NoneArrivedStep ==
    ASSUME TypeOK, NEW hs, FollowsServer(hs), net # <<>>, Handled, task.status \in UidsAreKnown,
           KeepsKnown(hs), Head(net).t = "EXISTS", Head(net).n = Len(mb.list), Update(mb)
    PROVE  KnownStep(hs)
<1>1. /\ Synced(mb, srv.val, hs[1]) /\ mb.sync.uidNext \in Nat /\ mb.sync.uidNext <= hs[1].next
      /\ Sane(hs[1])
  BY InSync
<1>2. /\ Head(net).n = Len(hs[2].msgs) /\ (hs[2] = hs[1] \/ Grown(hs[1], hs[2])) /\ Sane(hs[2])
  BY ExistsTells
<1>3. Len(mb.list) = Len(hs[1].msgs) /\ Len(hs[1].msgs) \in Nat
  BY <1>1, SaneFields DEF Synced, Reflects
<1>4. ~Grown(hs[1], hs[2])
  BY <1>1, <1>2, <1>3, GrownKeeps
<1>5. hs[2].next = hs[1].next /\ mb' = mb /\ AsksNone
  BY <1>2, <1>4 DEF Update, AsksNone
<1> QED
  BY <1>1, <1>5 DEF KnownStep, LearnsUid, TellsUid

\* EXISTS, either way.
LEMMA ExistsStep ==
    ASSUME TypeOK, NEW hs, FollowsServer(hs), task.status \in UidsAreKnown, KeepsKnown(hs),
           task'.status # "OFF", ObtainExists \/ KeepExists
    PROVE  net # <<>> /\ Handled /\ KnownStep(hs)
<1>1. PICK w : w = HandleExists(mb, Head(net).n)
  OBVIOUS
<1>2. net # <<>> /\ Head(net).t = "EXISTS" /\ ~\E e : Throw(e)
  BY DEF ObtainExists, KeepExists, Next1, Throw, Disconnected, NoTask
<1>3. PICK x : x = UpdateHighestKnownUid(w)
  OBVIOUS
<1>4. /\ Handled
      /\ \/ Head(net).n = Len(mb.list) /\ Update(mb)
         \/ /\ ~ExistsThrows(mb, Head(net).n)
            /\ AskForArrivals(w, x.sync.uidNext) \/ AskForArrivals(x, x.sync.uidNext)
  <2>1. CASE KeepExists
    BY <1>1, <1>2, <1>3, <2>1 DEF KeepExists, Resp
  <2>2. CASE ObtainExists
    <3>1. task.status \notin {"SELECTING", "SYNCING_UIDS"}
      BY DEF UidsAreKnown
    <3> QED
      BY <1>1, <1>2, <1>3, <2>2, <3>1 DEF ObtainExists, Resp
  <2> QED
    BY <2>1, <2>2
<1>5. CASE Head(net).n = Len(mb.list) /\ Update(mb)
  BY <1>2, <1>4, <1>5, NoneArrivedStep
<1>6. ASSUME ~ExistsThrows(mb, Head(net).n), NEW m, m = w \/ m = x, AskForArrivals(m, x.sync.uidNext)
      PROVE  KnownStep(hs)
  <2>1. PICK from : from = x.sync.uidNext
    OBVIOUS
  <2>2. m = w \/ m = UpdateHighestKnownUid(w)
    BY <1>3, <1>6
  <2> QED
    BY <1>1, <1>2, <1>3, <1>4, <1>6, <2>1, <2>2, AskStep
<1> QED
  BY <1>2, <1>4, <1>5, <1>6

\* EXPUNGE leaves UIDNEXT.
LEMMA ExpungeStep ==
    ASSUME TypeOK, NEW hs, FollowsServer(hs), task.status \in UidsAreKnown, KeepsKnown(hs),
           task'.status # "OFF", ObtainExpunge \/ KeepExpunge
    PROVE  net # <<>> /\ Handled /\ KnownStep(hs)
<1>1. /\ net # <<>> /\ Head(net).t = "EXPUNGE" /\ mb \in Mailbox /\ Head(net) \in Response
      /\ ~\E e : Throw(e)
  BY HeadType DEF ObtainExpunge, KeepExpunge, Next1, TypeOK, Resp, Throw, Disconnected, NoTask
<1>2. PICK n : n = Head(net).n
  OBVIOUS
<1>3. n \in Nat
  BY <1>1, <1>2, ResponseFields
<1>4. CASE KeepExpunge
  <2>1. PICK x : x = HandleExpunge(mb, n)
    OBVIOUS
  <2>2. PICK m : m = [x EXCEPT !.sync.exists = @ - 1]
    OBVIOUS
  <2>3. ~ExpungeThrows(mb, n) /\ Handled /\ Update(SaveSyncStateNowOrLater(m))
    BY <1>1, <1>2, <1>4, <2>1, <2>2 DEF KeepExpunge, Resp
  <2>4. x \in Mailbox /\ x.sync = mb.sync
    BY <1>1, <1>3, <2>1, <2>3, HandleExpungeType
  <2>5. m.sync.uidNext = mb.sync.uidNext
    BY <2>2, <2>4 DEF Mailbox, SyncState
  <2>6. m \in [list: Seq(Message), st: FetchStatus, sync: [exists: Int, uidNext: Nat, uidVal: Nat, modSeq: Nat], disk: Disk]
    BY <2>2, <2>4 DEF Mailbox, SyncState
  <2>7. SaveSyncStateNowOrLater(m).sync = m.sync
    BY <2>6 DEF SaveSyncStateNowOrLater, SaveSyncStateAndUids
  <2>8. mb'.sync.uidNext = mb.sync.uidNext /\ AsksNone
    BY <2>3, <2>5, <2>7 DEF Update, AsksNone
  <2> QED
    BY <1>1, <2>3, <2>8, UntoldStep
<1>5. CASE ObtainExpunge
  <2>1. PICK m : m = [mb EXCEPT !.sync.exists = OneLess(@)]
    OBVIOUS
  <2>2. m.list = mb.list /\ m.sync.uidNext = mb.sync.uidNext /\ m \in Mailbox
    <3>1. OneLess(mb.sync.exists) \in Nat
      BY <1>1, MailboxFields DEF OneLess
    <3>2. m.list = mb.list
      BY <1>1, <2>1 DEF Mailbox
    <3>3. m.sync.uidNext = mb.sync.uidNext
      BY <1>1, <2>1 DEF Mailbox, SyncState
    <3>4. m \in Mailbox
      BY <1>1, <2>1, <3>1 DEF Mailbox, SyncState
    <3> QED
      BY <3>2, <3>3, <3>4
  <2>3. IsKnown(n) /\ task.status # "KEEP"
    BY <1>5 DEF ObtainExpunge, IsKnown, UidsAreKnown, Syncing
  <2>4. ~ExpungeThrows(mb, n) /\ Handled /\ cmds' = cmds
    BY <1>1, <1>2, <1>5, <2>3 DEF ObtainExpunge, Resp
  <2>5. mb' = CASE ~IsKnown(n) -> m
                [] task.status = "DONE" -> SaveSyncStateAndUids(HandleExpunge(m, n))
                [] OTHER -> HandleExpunge(m, n)
    BY <1>2, <1>5, <2>1, <2>4 DEF ObtainExpunge, Resp
  <2>6. PICK x : x = HandleExpunge(m, n)
    OBVIOUS
  <2>7. mb' = x \/ mb' = SaveSyncStateAndUids(x)
    BY <2>3, <2>5, <2>6
  <2>8. x \in Mailbox /\ x.sync = m.sync
    <3>1. ~ExpungeThrows(m, n)
      BY <2>2, <2>4 DEF ExpungeThrows
    <3> QED
      BY <1>3, <2>2, <2>6, <3>1, HandleExpungeType
  <2>9. mb'.sync.uidNext = mb.sync.uidNext /\ AsksNone
    BY <2>2, <2>4, <2>7, <2>8, SaveType DEF AsksNone
  <2> QED
    BY <1>1, <2>4, <2>9, UntoldStep
<1> QED
  BY <1>4, <1>5

\* FETCH tells the UID of a message, and it is noted.
LEMMA FetchStep ==
    ASSUME TypeOK, NEW hs, FollowsServer(hs), task.status \in UidsAreKnown, KeepsKnown(hs),
           task'.status # "OFF", HandleFetch
    PROVE  net # <<>> /\ Handled /\ KnownStep(hs)
<1>1. PICK r : r = Head(net)
  OBVIOUS
<1>2. net # <<>> /\ r.t = "FETCH" /\ r \in Response /\ ~\E e : Throw(e)
  BY <1>1, HeadType DEF HandleFetch, Next1, TypeOK, Resp, Throw, Disconnected, NoTask
<1>3. r \in [t: {"FETCH"}, n: Nat, uid: 0..MaxUid, fl: Nat, mod: Nat]
  BY <1>2, ResponseFields
<1>4. PICK m : m = HandleFetchResponse(mb, r)
  OBVIOUS
<1>5. /\ ~FetchThrows(mb, r) /\ Handled
      /\ Update(IF /\ task.status \in Syncing /\ MessageChanged(mb, r)
                   /\ m.sync.uidNext <= m.list[r.n].uid
                THEN [m EXCEPT !.sync.uidNext = m.list[r.n].uid + 1] ELSE m)
  BY <1>1, <1>2, <1>4 DEF HandleFetch, Resp
<1>6. /\ mb \in Mailbox /\ mb.sync.uidNext \in Nat /\ mb.sync.uidNext >= 1
      /\ mb.sync.uidNext <= hs[1].next /\ KnownBelow(mb.list, mb.sync.uidNext)
      /\ mb.list \in Seq(Message) /\ Len(mb.list) \in Nat
  BY InSync
<1>7. Tells(r, hs[1], hs[2]) /\ hs[2].next = hs[1].next
  BY <1>1, <1>2, <1>5, Remaining, NextStays
<1>8. r.mod = 0
  BY <1>2, <1>7 DEF Tells
<1>9. /\ r.n \in 1..Len(mb.list)
      /\ \A j \in 1..Len(mb.list) :
            m.list[j].uid = IF j = r.n /\ UidLearnt(mb, r) THEN r.uid ELSE mb.list[j].uid
      /\ m.sync.uidNext = IF UidLearnt(mb, r) /\ mb.sync.uidNext <= r.uid THEN r.uid + 1
                          ELSE mb.sync.uidNext
  BY <1>3, <1>4, <1>5, <1>6, <1>8, HandleFetchDoes
<1>10. m \in Mailbox /\ Len(m.list) = Len(mb.list)
  BY <1>3, <1>4, <1>5, <1>6, HandleFetchResponseType
<1>11. ~(m.sync.uidNext <= m.list[r.n].uid)
  <2>1. PICK old \in Nat : old = mb.list[r.n].uid
    BY <1>6, <1>9, ListUids
  <2>2. old < mb.sync.uidNext
    BY <1>6, <1>9, <2>1 DEF KnownBelow
  <2>3. PICK uid \in Nat : uid = r.uid
    BY <1>3
  <2>4. PICK next \in Nat : next = mb.sync.uidNext
    BY <1>6
  <2>5. m.list[r.n].uid = IF UidLearnt(mb, r) THEN uid ELSE old
    BY <1>9, <2>1, <2>3
  <2>6. m.sync.uidNext = IF UidLearnt(mb, r) /\ next <= uid THEN uid + 1 ELSE next
    BY <1>9, <2>3, <2>4
  <2> QED
    BY <2>2, <2>4, <2>5, <2>6
<1>12. mb' = m /\ cmds' = cmds
  BY <1>5, <1>11 DEF Update
<1>13. ASSUME r.uid # 0 PROVE mb'.list[r.n].uid = r.uid
  BY <1>5, <1>9, <1>12, <1>13 DEF FetchThrows, UidLearnt
<1>14. LearnsUid
  <2>1. r.n \in 1..Len(mb'.list)
    BY <1>9, <1>10, <1>12
  <2> QED
    BY <1>1, <1>13, <2>1 DEF LearnsUid, TellsUid, InList
<1>15. mb'.sync.uidNext = mb.sync.uidNext \/ (TellsUid /\ mb'.sync.uidNext = r.uid + 1)
  BY <1>1, <1>2, <1>9, <1>12 DEF TellsUid, UidLearnt
<1> QED
  BY <1>1, <1>2, <1>5, <1>6, <1>7, <1>12, <1>14, <1>15 DEF KnownStep, AsksNone

\* The tagged lines leave UIDNEXT; at most the flags are asked for.
LEMMA LineStep ==
    ASSUME Plain, TypeOK, NEW hs, FollowsServer(hs), task.status \in UidsAreKnown, KeepsKnown(hs),
           task'.status # "OFF", SearchOk \/ FlagsOk \/ ObtainArrivalsOk \/ KeepArrivalsFinished
    PROVE  net # <<>> /\ Handled /\ KnownStep(hs)
<1>1. net # <<>> /\ Head(net).t \notin {"EXISTS", "FETCH"} /\ ~Abort
  BY DEF SearchOk, FlagsOk, ObtainArrivalsOk, KeepArrivalsFinished, Ok, Next1, Resp, Abort, Stop,
         Disconnected, NoTask
<1>2. mb \in Mailbox /\ task \in Task
  BY DEF TypeOK
<1>3. SaveSyncStateAndUids(mb).sync = mb.sync
  BY <1>2, SaveType
<1>4. CASE SearchOk
  <2>1. Handled /\ SyncFlags(mb, task)
    BY <1>1, <1>4 DEF SearchOk
  <2>2. mb' = mb /\ \E c \in Commands : Further(c) /\ c.t = "FLAGS" /\ cmds' = Append(cmds, c)
    BY <1>2, <2>1, SyncFlagsPlain
  <2>3. AsksNone
    BY <2>2 DEF AsksNone
  <2> QED
    BY <1>1, <2>1, <2>2, <2>3, UntoldStep
<1>5. CASE FlagsOk \/ ObtainArrivalsOk \/ KeepArrivalsFinished
  <2>1. Handled /\ cmds' = cmds /\ (mb' = mb \/ mb' = SaveSyncStateAndUids(mb))
    <3>1. CASE FlagsOk
      BY <1>1, <3>1 DEF FlagsOk, Complete
    <3>2. CASE ObtainArrivalsOk
      BY <3>2 DEF ObtainArrivalsOk, Complete
    <3>3. CASE KeepArrivalsFinished
      BY <3>3 DEF KeepArrivalsFinished
    <3> QED
      BY <1>5, <3>1, <3>2, <3>3
  <2>2. AsksNone /\ mb'.sync.uidNext = mb.sync.uidNext
    BY <1>3, <2>1 DEF AsksNone
  <2> QED
    BY <1>1, <2>1, <2>2, UntoldStep
<1> QED
  BY <1>4, <1>5

\* Every response that is handled while the UIDs are known.
LEMMA HandledKeepsUids ==
    ASSUME Reliable, TypeOK, TypeOK', NEW hs, FollowsServer(hs), Pending, Moves, NEW g,
           FollowsServer(g)', Continues(hs, g), task.status \in UidsAreKnown,
           task'.status \in UidsAreKnown, InTurn(hs), UidsPromised(hs), HandleResponse
    PROVE  InTurn(g)' /\ UidsPromised(g)'
<1>1. Plain /\ Stream(hs) /\ task'.status # "OFF" /\ task.status \notin {"SELECTING", "SYNCING_UIDS"}
  BY DEF Reliable, FollowsServer, UidsAreKnown
<1>2. KeepsKnown(hs)
  BY <1>1, KnownStays
<1>3. ~Vanished /\ ~VanishedEarlier /\ ~ObtainNo /\ ~Unhandled
  BY NoneVanished, AllWanted
<1>4. ~HandleCodes /\ ~SelectOk /\ ~HandleSearch
  <2>1. \A i \in 1..Len(net) : net[i].t # "CODES" /\ ~IsSelect(net[i])
    BY <1>1, NoSelect
  <2>2. net # <<>> => 1 \in 1..Len(net) /\ Head(net) = net[1]
    BY TailElements DEF TypeOK
  <2>3. net # <<>> => Head(net).t # "CODES" /\ ~IsSelect(Head(net))
    BY <2>1, <2>2
  <2> QED
    BY <1>1, <2>3 DEF HandleCodes, SelectOk, HandleSearch, Ok, Next1, Resp, IsSelect
<1>5. net # <<>> /\ Handled /\ KnownStep(hs)
  <2>1. CASE ObtainExists \/ KeepExists
    BY <1>1, <1>2, <2>1, ExistsStep
  <2>2. CASE ObtainExpunge \/ KeepExpunge
    BY <1>1, <1>2, <2>2, ExpungeStep
  <2>3. CASE HandleFetch
    BY <1>1, <1>2, <2>3, FetchStep
  <2>4. CASE SearchOk \/ FlagsOk \/ ObtainArrivalsOk \/ KeepArrivalsFinished
    BY <1>1, <1>2, <2>4, LineStep
  <2> QED
    BY <1>3, <1>4, <2>1, <2>2, <2>3, <2>4 DEF HandleResponse
<1>6. g = Tail(hs)
  <2>1. /\ Len(net) \in Nat /\ Len(net') = Len(net) - 1 /\ Len(hs) = Len(net) + 1 /\ up
    BY <1>5, Remaining
  <2>2. up' /\ Len(g) = Len(net') + 1
    <3>1. History(g, net', srv')
      BY DEF FollowsServer
    <3> QED
      BY <1>5, <2>1, <3>1 DEF Handled, History
  <2> QED
    BY <2>1, <2>2 DEF Continues
<1>7. Took(hs, g)
  BY <1>5, <1>6 DEF Took
<1> QED
  BY <1>5, <1>7, TookInTurn, TookPromised

\* No step disturbs what the client knows, or has been promised.
LEMMA KnownKeepsUids ==
    ASSUME Reliable, TypeOK, TypeOK', NEW hs, FollowsServer(hs), Pending, Moves, NEW g,
           FollowsServer(g)', Continues(hs, g), task.status \in UidsAreKnown,
           task'.status \in UidsAreKnown, InTurn(hs), UidsPromised(hs), [Next]_vars
    PROVE  InTurn(g)' /\ UidsPromised(g)'
<1>1. CASE ServerChange \/ Recreate \/ SendData \/ SendTagged \/ UNCHANGED vars
  BY <1>1, ServerKeepsUids
<1>2. CASE HandleResponse
  BY <1>2, HandledKeepsUids
<1>3. ~Perform /\ ~Drop /\ ~Restart
  <2>1. Perform => task'.status = "SELECTING"
    BY DEF Perform, NoTask
  <2>2. Drop \/ Restart => task'.status = "OFF"
    BY DEF Drop, Restart, Stop, Disconnected, NoTask
  <2> QED
    BY <2>1, <2>2 DEF UidsAreKnown
<1> QED
  BY <1>1, <1>2, <1>3 DEF Next

\* A client that knows all UIDs, and asks for none, has nothing to find out.
AllKnown(m) == \A j \in 1..Len(m.list) : m.list[j].uid # 0

\* Nothing is under way then that could tell a UID.
LEMMA NothingToLearn ==
    ASSUME TypeOK, NEW hs, FollowsServer(hs), Pending, task.status \in UidsAreKnown,
           task.arrivals = 0, AllKnown(mb)
    PROVE  InTurn(hs) /\ UidsPromised(hs)
<1>1. /\ net \in Seq(Response) /\ Len(net) \in Nat /\ Len(hs) = Len(net) + 1
      /\ History(hs, net, srv) /\ mb \in Mailbox
  BY SaneServer
<1>2. /\ Synced(mb, srv.val, hs[1]) /\ Sane(hs[1]) /\ Len(mb.list) \in Nat
  BY InSync
<1>3. ASSUME NEW u \in Uid PROVE FoundNow(hs, u, 1)
  <2>1. SUFFICES ASSUME Has(hs[1], u) PROVE InList(mb.list, u)
    BY DEF FoundNow, Found
  <2>2. PICK j \in 1..Len(hs[1].msgs) : hs[1].msgs[j] = u
    BY <2>1 DEF Has
  <2>3. j \in 1..Len(mb.list) /\ mb.list[j].uid \in {0, u}
    BY <1>2, <2>2 DEF Synced, Reflects, FitsTo
  <2> QED
    BY <2>3 DEF AllKnown, InList
<1>4. \A i \in 1..Len(net) : net[i].t = "FETCH" => net[i].uid = 0
  BY UidsWanted
<1>5. OpenOf(cmds, "ARRIVALS") = {}
  <2>1. "ARRIVALS" \in CommandKind /\ Awaited("ARRIVALS") = 0
    BY DEF CommandKind, Awaited
  <2>2. PICK c \in CommandKind : c = "ARRIVALS"
    BY <2>1
  <2>3. OpenOf(cmds, c) = {}
    BY <2>1, <2>2, NothingAwaited
  <2> QED
    BY <2>2, <2>3
<1>6. ASSUME NEW i \in 1..Len(net), net[i].t = "FETCH", NEW u \in Uid PROVE ~(u < net[i].uid)
  BY <1>4, <1>6 DEF Uid
<1>7. InTurn(hs)
  BY <1>3, <1>5, <1>6 DEF InTurn
<1>8. UidsPromised(hs)
  BY <1>3 DEF UidsPromised
<1> QED
  BY <1>7, <1>8

\* The same of every history ...
LEMMA NothingToLearnAtAll ==
    \A hs : TypeOK /\ FollowsServer(hs) /\ Pending /\ task.status \in UidsAreKnown
            /\ task.arrivals = 0 /\ AllKnown(mb) => InTurn(hs) /\ UidsPromised(hs)
BY NothingToLearn

\* ... and so after a step.
LEMMA NothingToLearnThen ==
    ASSUME TypeOK', NEW g, FollowsServer(g)', Pending', task'.status \in UidsAreKnown,
           task'.arrivals = 0, AllKnown(mb')
    PROVE  InTurn(g)' /\ UidsPromised(g)'
<1>1. (\A hs : TypeOK /\ FollowsServer(hs) /\ Pending /\ task.status \in UidsAreKnown
               /\ task.arrivals = 0 /\ AllKnown(mb) => InTurn(hs) /\ UidsPromised(hs))'
  BY NothingToLearnAtAll, PTL
<1>2. AllKnown(mb)'
  BY DEF AllKnown
<1> QED
  BY <1>1, <1>2

\* The UID SEARCH asked for all that was unknown.
LEMMA SearchKnowsAll ==
    ASSUME TypeOK, RestAsked, HandleSearch, task'.status \in UidsAreKnown
    PROVE  AllKnown(mb') /\ task'.arrivals = task.arrivals
<1>1. /\ net # <<>> /\ Head(net).t = "SEARCH" /\ mb \in Mailbox /\ Head(net) \in Response
      /\ task \in Task /\ task.status = "SYNCING_UIDS"
  BY HeadType DEF HandleSearch, Next1, TypeOK, Resp
<1>2. ~\E e : Throw(e)
  BY DEF Throw, Disconnected, NoTask, UidsAreKnown
<1>3. ~Abort
  BY DEF Abort, Stop, Disconnected, NoTask, UidsAreKnown
<1>4. ~(task.firstUnknown > Len(mb.list)) /\ FinalizeSearch(Head(net).uids)
  BY <1>2, <1>3 DEF HandleSearch, Resp
<1>5. PICK uids \in Seq(Uid) : uids = Head(net).uids
  BY <1>1, ResponseFields
<1>6. PICK f \in Nat : f = task.firstUnknown
  BY <1>1, TaskFields
<1>7. f \in 0..Len(mb.list) /\ Len(mb.list) \in Nat
  BY <1>1, <1>4, <1>6, MailboxFields
<1>8. PICK m : m = ApplyUids(mb, f, uids)
  OBVIOUS
<1>9. /\ m \in Mailbox /\ Len(m.list) = f + Len(uids)
      /\ \A k \in 1..(f + Len(uids)) : m.list[k].uid = IF k <= f THEN mb.list[k].uid ELSE uids[k - f]
  BY <1>1, <1>7, <1>8, ApplyUidsType, ApplyUidsDoes
<1>10. mb' = UpdateHighestKnownUid(m) /\ task' = [task EXCEPT !.status = "SYNCING_FLAGS"]
  BY <1>4, <1>5, <1>6, <1>8 DEF FinalizeSearch
<1>11. mb'.list = m.list
  BY <1>9, <1>10, UpdateHighestKnownUidType
<1>12. task'.arrivals = task.arrivals
  BY <1>1, <1>10 DEF Task
<1>13. ASSUME NEW k \in 1..(f + Len(uids)) PROVE m.list[k].uid # 0
  <2>1. Len(uids) \in Nat
    OBVIOUS
  <2>2. CASE k <= f
    <3>1. k \in 1..Len(mb.list) /\ k <= task.firstUnknown
      BY <1>6, <1>7, <2>1, <2>2
    <3>2. mb.list[k].uid # 0
      BY <1>1, <3>1 DEF RestAsked
    <3> QED
      BY <1>9, <2>2, <3>2
  <2>3. CASE ~(k <= f)
    <3>1. PICK i \in 1..Len(uids) : i = k - f
      BY <2>1, <2>3
    <3>2. uids[i] \in Uid
      BY <3>1, ElementOfSeq
    <3> QED
      BY <1>9, <2>3, <3>1, <3>2 DEF Uid
  <2> QED
    BY <2>2, <2>3
<1> QED
  BY <1>9, <1>11, <1>12, <1>13 DEF AllKnown

\* After SELECT all UIDs are known when nothing has changed, or there are none.
LEMMA SelectKnowsAll ==
    ASSUME Plain, TypeOK, TypeOK', NEW hs, FollowsServer(hs), CacheKnown(mb, srv.val, hs[1]),
           SelectOk, task'.status \in UidsAreKnown
    PROVE  AllKnown(mb') /\ task'.arrivals \in {0, task.arrivals}
<1>1. ~\E e : Throw(e)
  BY DEF Throw, Disconnected, NoTask, UidsAreKnown
<1>2. ~Abort
  BY DEF Abort, Stop, Disconnected, NoTask, UidsAreKnown
<1>3. task.status = "SELECTING" /\ Handled /\ FinalizeSelect(mb)
  BY <1>1, <1>2 DEF SelectOk
<1>4. PICK h : h = hs[1]
  OBVIOUS
<1>5. /\ Sane(h) /\ OnDisk(mb, h.val, h) /\ mb \in Mailbox /\ srv.val = h.val
      /\ mb.st # "NONE" /\ SyncIs(mb, h)
  BY <1>3, <1>4, SelectOkDecides DEF TypeOK
<1>6. PICK tk \in Task : tk.arrivals = task.arrivals /\ Decides(tk, h)
  BY <1>3, <1>4, SelectOkDecides
<1>7. ASSUME NEW m \in Mailbox, FullMboxSync(m, tk) PROVE AllKnown(mb') /\ task'.arrivals = 0
  <2>1. PICK n \in Nat : n = m.sync.exists
    BY <1>7, MailboxFields
  <2>2. PICK fresh : fresh = [m EXCEPT !.list = Unknown(n)]
    OBVIOUS
  <2>3. IF n > 0 THEN SyncUids(fresh, tk, "ALL", 0, 0) ELSE Complete(fresh)
    BY <1>7, <2>1, <2>2 DEF FullMboxSync
  <2>4. ~SyncUids(fresh, tk, "ALL", 0, 0)
    BY <1>6 DEF SyncUids, Task, UidsAreKnown
  <2>5. n = 0 /\ Complete(fresh)
    BY <2>1, <2>3, <2>4
  <2>6. Unknown(n) \in Seq(Message) /\ Len(Unknown(n)) = n
    BY <2>1, UnknownType
  <2>7. fresh \in Mailbox /\ fresh.list = Unknown(n)
    BY <1>7, <2>2, <2>6 DEF Mailbox
  <2>8. mb'.list = Unknown(n) /\ task'.arrivals = 0
    BY <2>5, <2>7, SaveType DEF Complete, KeepTask, NoTask
  <2> QED
    BY <2>5, <2>6, <2>8 DEF AllKnown
<1>8. ClearAllMessages(mb) \in Mailbox
  BY <1>5, ClearAllMessagesType
<1>9. ASSUME NEW mode, NEW from, NEW first PROVE ~SyncUids(mb, tk, mode, from, first)
  BY <1>6 DEF SyncUids, Task, UidsAreKnown
<1>10. CASE /\ mb.disk.sync.uidVal = h.val /\ OnlyArrivals(mb, mb.disk.sync)
            /\ SyncNoNewNoDeletions(mb, tk) /\ mb.sync.exists = mb.disk.sync.exists
  <2>1. /\ mb.disk.sync.exists = Len(mb.disk.uids) /\ mb.disk.sync.exists <= Len(mb.list)
        /\ Len(mb.list) <= Len(h.msgs) /\ Surplus(mb.disk.uids, mb.disk.sync.uidNext, h) = 0
    BY <1>5, <1>10, NothingExpunged
  <2>2. mb'.list = mb.list \/ FromDisk
    BY <1>6, <1>10, NoNewMoves
  <2>3. \A j \in 1..Len(mb.disk.uids) : mb.disk.uids[j] # 0 /\ mb.list[j].uid # 0
    BY <1>4, <1>5, <1>10, <2>1 DEF CacheKnown
  <2>4. Len(mb.list) \in Nat /\ Len(h.msgs) \in Nat /\ Len(mb.disk.uids) \in Nat
    BY <1>5, MailboxFields, SaneFields
  <2>5. Len(mb.list) = Len(mb.disk.uids)
    BY <1>5, <1>10, <2>1, <2>4 DEF SyncIs
  <2>6. AllKnown(mb')
    BY <2>2, <2>3, <2>5 DEF AllKnown, FromDisk
  <2>7. PICK m : SyncFlags(m, tk)
    BY <1>10 DEF SyncNoNewNoDeletions
  <2>8. task'.arrivals = task.arrivals
    BY <1>6, <2>7, SyncFlagsProceeds
  <2> QED
    BY <2>6, <2>8
<1> QED
  BY <1>5, <1>6, <1>7, <1>8, <1>9, <1>10 DEF Decides

\* A step after which the UIDs are known, as they were not before.
LEMMA EntersKnown ==
    ASSUME Plain, TypeOK, TypeOK', NEW hs, FollowsServer(hs), Pending, RestAsked,
           CacheKnown(mb, srv.val, hs[1]), [Next]_vars, task.status \notin UidsAreKnown,
           task'.status \in UidsAreKnown
    PROVE  AllKnown(mb') /\ task'.arrivals = 0
<1>1. task.arrivals = 0 /\ task \in Task
  <2>1. task.arrivals \in Nat /\ task \in Task
    BY TaskFields DEF TypeOK
  <2> QED
    BY <2>1 DEF Pending, OneTask
<1>2. task' # task
  OBVIOUS
<1>3. CASE HandleSearch
  BY <1>1, <1>3, SearchKnowsAll
<1>4. CASE SelectOk
  BY <1>1, <1>4, SelectKnowsAll
<1>5. ~ServerChange /\ ~Recreate /\ ~SendData /\ ~SendTagged /\ ~UNCHANGED vars
  <2>1. ~ServerChange /\ ~Recreate
    BY <1>2, ChangeIs
  <2> QED
    BY <1>2, <2>1 DEF SendData, SendTagged, vars
<1>6. ~Perform /\ ~Drop /\ ~Restart
  <2>1. Perform => task'.status = "SELECTING"
    BY DEF Perform, NoTask
  <2>2. Drop \/ Restart => task'.status = "OFF"
    BY DEF Drop, Restart, Stop, Disconnected, NoTask
  <2> QED
    BY <2>1, <2>2 DEF UidsAreKnown
<1>7. task'.status # "OFF"
  BY DEF UidsAreKnown
<1>8. ~Unhandled /\ ~ObtainNo
  BY AllWanted
<1>9. ~\E e : Throw(e)
  BY <1>7 DEF Throw, Disconnected, NoTask
<1>10. ~Abort
  BY <1>7 DEF Abort, Stop, Disconnected, NoTask
<1>11. ~HandleCodes /\ ~HandleFetch /\ ~Vanished /\ ~VanishedEarlier /\ ~KeepExists /\ ~KeepExpunge
       /\ ~KeepArrivalsFinished /\ ~ObtainExists
  <2>1. ~HandleCodes /\ ~Vanished /\ ~VanishedEarlier
    BY <1>2 DEF HandleCodes, Vanished, VanishedEarlier, Update
  <2>2. ~HandleFetch
    BY <1>2, <1>9 DEF HandleFetch, Update
  <2>3. ~KeepExists /\ ~KeepExpunge /\ ~KeepArrivalsFinished
    BY DEF KeepExists, KeepExpunge, KeepArrivalsFinished, UidsAreKnown
  <2>4. ~ObtainExists
    BY <1>2, <1>9 DEF ObtainExists, Update, UidsAreKnown
  <2> QED
    BY <2>1, <2>2, <2>3, <2>4
<1>12. ~ObtainExpunge
  <2>1. ObtainExpunge => task' = task \/ task' = [task EXCEPT !.firstUnknown = @ - 1]
    BY <1>9 DEF ObtainExpunge
  <2> QED
    BY <1>1, <2>1 DEF Task
<1>13. ~SearchOk /\ ~FlagsOk
  BY <1>10 DEF SearchOk, FlagsOk, UidsAreKnown
<1>14. ~ObtainArrivalsOk
  <2>1. ObtainArrivalsOk => task.status = "DONE" \/ task' = ArrivalsDone
    BY DEF ObtainArrivalsOk
  <2>2. ArrivalsDone.status = task.status
    BY <1>1 DEF ArrivalsDone, Task
  <2> QED
    BY <2>1, <2>2 DEF UidsAreKnown
<1> QED
  BY <1>3, <1>4, <1>5, <1>6, <1>8, <1>11, <1>12, <1>13, <1>14 DEF Next, HandleResponse

(* What is in the cache. *)

\* Whose messages are all found has their UIDs.
LEMMA AllFoundIsAll ==
    ASSUME NEW list \in Seq(Message), NEW h, Sane(h), Reflects(list, h),
           \A u \in Uid : Has(h, u) => InList(list, u), NEW j \in 1..Len(list)
    PROVE  list[j].uid = h.msgs[j] /\ list[j].uid # 0
<1>1. Len(list) = Len(h.msgs) /\ h.msgs[j] \in Uid /\ h.msgs[j] # 0
  BY SaneFields DEF Reflects, Uid
<1>2. Has(h, h.msgs[j])
  BY <1>1 DEF Has
<1>3. PICK i \in 1..Len(list) : list[i].uid = h.msgs[j]
  BY <1>1, <1>2 DEF InList
<1>4. h.msgs[i] = h.msgs[j]
  BY <1>1, <1>3 DEF Reflects, FitsTo
<1>5. h.msgs[i] \in Nat /\ h.msgs[j] \in Nat /\ i \in Nat /\ j \in Nat
  BY <1>1, SaneFields
<1>6. i = j
  <2>1. i < j => h.msgs[i] < h.msgs[j]
    BY <1>1 DEF Sane
  <2>2. j < i => h.msgs[j] < h.msgs[i]
    BY <1>1 DEF Sane
  <2> QED
    BY <1>4, <1>5, <2>1, <2>2
<1> QED
  BY <1>1, <1>3, <1>6

\* The first unknown UID is UIDNEXT at the least: when UIDNEXT is the server's, all are known.
LEMMA SavedInTurn ==
    ASSUME NEW m \in Mailbox, NEW val, NEW h, Sane(h), Synced(m, val, h), IsSaved(m),
           \A u \in Uid : u < m.sync.uidNext /\ Has(h, u) => InList(m.list, u)
    PROVE  CacheKnown(m, val, h)
<1>1. m.list \in Seq(Message) /\ Len(m.list) \in Nat /\ m.sync.uidNext \in Nat
  BY MailboxFields
<1>2. Reflects(m.list, h) /\ Len(m.list) = Len(h.msgs) /\ h.next \in Nat /\ Len(h.msgs) \in Nat
  BY SaneFields DEF Synced, Reflects
<1>3. m.disk.uids = Uids(m.list) /\ m.disk.sync.uidNext = m.sync.uidNext
      /\ Len(m.disk.uids) = Len(m.list)
  BY <1>1, UidsType DEF IsSaved
<1> SUFFICES ASSUME Surplus(m.disk.uids, m.disk.sync.uidNext, h) = 0, NEW j \in 1..Len(m.list)
             PROVE  m.disk.uids[j] # 0 /\ m.list[j].uid # 0
  BY <1>3 DEF CacheKnown
<1>4. m.sync.uidNext = h.next
  <2>1. (Len(h.msgs) - Len(m.disk.uids)) - (h.next - m.disk.sync.uidNext) = 0
    BY DEF Surplus
  <2>2. (Len(h.msgs) - Len(h.msgs)) - (h.next - m.sync.uidNext) = 0
    BY <1>2, <1>3, <2>1
  <2> QED
    BY <1>1, <1>2, <2>2
<1>5. \A u \in Uid : Has(h, u) => u < h.next
  BY SaneFields DEF Has
<1>6. m.list[j].uid # 0
  BY <1>1, <1>2, <1>4, <1>5, AllFoundIsAll
<1>7. m.disk.uids[j] = m.list[j].uid
  BY <1>3 DEF Uids
<1> QED
  BY <1>6, <1>7

\* Later is transitive.
LEMMA LaterTrans ==
    ASSUME NEW a, NEW b, NEW c, Sane(a), Sane(b), Sane(c), Later(a, b), Later(b, c)
    PROVE  Later(a, c)
<1>1. Follows(a.msgs, a.next, c)
  <2>1. a.msgs \in Seq(0..MaxUid)
    <3>1. a.msgs \in Seq(Uid)
      BY SaneFields
    <3>2. Uid \subseteq 0..MaxUid
      BY MaxUidAssumption DEF Uid
    <3> QED
      BY <3>1, <3>2, SeqMonotonic
  <2> QED
    BY <2>1, SaneFields, FollowsTrans DEF Later
<1>2. NoneReturns(a, c)
  <2>1. a.next <= b.next /\ a.next \in Nat /\ b.next \in Nat
    BY SaneFields DEF Later, Follows
  <2> QED
    BY <2>1 DEF Later, NoneReturns, Uid
<1> QED
  BY <1>1, <1>2 DEF Later

\* The mailbox has not been created anew, and what the client has been told of it goes on.
SameVal == srv'.val = srv.val
\* The state that the client has been told of is a later one, or the same.
LEMMA ToldGoesOn ==
    ASSUME TypeOK, TypeOK', NEW hs, FollowsServer(hs), NEW g, FollowsServer(g)', Continues(hs, g)
    PROVE  /\ Sane(hs[1]) /\ Sane(g[1])
           /\ SameVal => g[1] = hs[1] \/ Later(hs[1], g[1])
<1>1. /\ History(hs, net, srv) /\ Len(net) \in Nat /\ Len(hs) = Len(net) + 1 /\ Sane(hs[1])
      /\ Sane(srv) /\ Later(hs[1], srv) /\ (net = <<>> => hs[1] = srv)
  BY SaneServer
<1>2. /\ net' \in Seq(Response) /\ History(g, net', srv') /\ Len(net') \in Nat
      /\ Len(g) = Len(net') + 1 /\ g[Len(g)] = srv'
  BY DEF TypeOK, FollowsServer, History
<1>3. Sane(g[1])
  BY <1>2 DEF History
<1>4. ASSUME SameVal PROVE g[1] = hs[1] \/ Later(hs[1], g[1])
  <2>4. CASE net # <<>> /\ net' = Tail(net) /\ g = Tail(hs)
    <3>1. Len(net) >= 1 /\ 1 \in 1..Len(hs) /\ 2 \in 1..Len(hs) /\ hs \in Seq(Server)
      <4>1. Len(net) >= 1
        BY <2>4, TailElements DEF TypeOK
      <4> QED
        BY <1>1, <4>1 DEF History
    <3>2. g[1] = hs[2]
      BY <1>1, <2>4, <3>1, TailElements
    <3>3. Later(hs[1], hs[2])
      BY <1>1, <3>1 DEF History
    <3> QED
      BY <1>1, <1>3, <3>2, <3>3
  <2>5. CASE /\ Len(g) >= Len(hs) /\ \A i \in 1..Len(hs) : g[i] = hs[i]
             /\ \A i \in 1..Len(g) : i > Len(hs) => g[i] = srv'
    BY <1>1, <1>3, <2>5
  <2>6. CASE ~up' /\ (srv'.val = srv.val => srv' = srv \/ Later(srv, srv'))
    <3>1. net' = <<>>
      BY <2>6 DEF FollowsServer, Stream, Connected
    <3>2. g[1] = srv'
      BY <1>2, <3>1
    <3>3. srv' = srv \/ Later(srv, srv')
      BY <1>4, <2>6 DEF SameVal
    <3>4. hs[1] = srv => g[1] = hs[1] \/ Later(hs[1], g[1])
      BY <3>2, <3>3
    <3>5. CASE Later(srv, srv')
      <4>1. Later(hs[1], srv')
        BY <1>1, <1>3, <3>2, <3>5, LaterTrans
      <4> QED
        BY <1>1, <1>3, <3>2, <4>1
    <3>6. CASE srv' = srv
      BY <1>1, <1>3, <3>2, <3>6
    <3> QED
      BY <3>3, <3>5, <3>6
  <2> QED
    BY <2>4, <2>5, <2>6 DEF Continues
<1>5. Sane(hs[1])
  BY <1>1
<1>6. SameVal => g[1] = hs[1] \/ Later(hs[1], g[1])
  BY <1>4
<1> QED
  BY <1>3, <1>5, <1>6

\* The client does not change the server's mailbox.
LEMMA HandledServer ==
    ASSUME HandleResponse
    PROVE  srv' = srv
<1>1. Handled \/ Abort \/ (\E e : Throw(e)) => srv' = srv
  BY DEF Handled, Abort, Stop, Throw
<1>2. HandleCodes \/ ObtainExists \/ KeepExists \/ ObtainExpunge \/ KeepExpunge => srv' = srv
  BY <1>1 DEF HandleCodes, ObtainExists, KeepExists, ObtainExpunge, KeepExpunge
<1>3. Vanished \/ VanishedEarlier \/ HandleFetch \/ HandleSearch \/ SelectOk => srv' = srv
  BY <1>1 DEF Vanished, VanishedEarlier, HandleFetch, HandleSearch, SelectOk
<1>4. SearchOk \/ FlagsOk \/ ObtainArrivalsOk \/ ObtainNo \/ KeepArrivalsFinished => srv' = srv
  BY <1>1 DEF SearchOk, FlagsOk, ObtainArrivalsOk, ObtainNo, KeepArrivalsFinished
<1>5. Unhandled => srv' = srv
  BY <1>1 DEF Unhandled
<1> QED
  BY <1>2, <1>3, <1>4, <1>5 DEF HandleResponse

\* The mailbox keeps its UIDVALIDITY unless it is created anew.
LEMMA KeepsVal ==
    ASSUME TypeOK, [Next]_vars, ~Recreate
    PROVE  SameVal
<1>1. CASE ServerChange
  <2>1. srv \in Server
    BY DEF TypeOK
  <2> QED
    BY <1>1, <2>1 DEF ServerChange, Arrive, ServerExpunge, ServerFlag, SameVal, Server
<1>2. ASSUME ~ServerChange PROVE srv' = srv
  BY <1>2, HandledServer DEF Next, SendData, SendTagged, Perform, Drop, Restart, Stop, vars
<1> QED
  BY <1>1, <1>2 DEF SameVal

\* A cache of another UIDVALIDITY is of no use.
LEMMA CacheOfOld ==
    ASSUME TypeOK, TypeOK', NEW hs, FollowsServer(hs), [Next]_vars
    PROVE  SameVal \/ mb'.disk.sync.uidVal # srv'.val
<1>1. mb.disk.sync.uidVal <= srv.val /\ mb.disk.sync.uidVal \in Nat /\ srv.val \in 1..2
  <2>1. OnDisk(mb, srv.val, hs[1]) /\ mb \in Mailbox /\ srv \in Server
    BY DEF FollowsServer, Client, TypeOK
  <2>2. mb.disk.sync.uidVal \in Nat
    BY <2>1, MailboxFields DEF SyncState
  <2> QED
    BY <2>1, <2>2 DEF OnDisk, Server
<1>2. CASE Recreate
  <2>1. srv.val = 1 /\ srv'.val = 2 /\ mb' = mb
    BY <1>2 DEF Recreate
  <2> QED
    BY <1>1, <2>1
<1>3. ASSUME ~Recreate PROVE SameVal
  BY <1>3, KeepsVal
<1> QED
  BY <1>2, <1>3

\* The cache, when it is left alone, and the UIDs at the places that it has.
LEMMA SameDiskKnown ==
    ASSUME TypeOK, TypeOK', NEW hs, FollowsServer(hs), NEW g, FollowsServer(g)', Continues(hs, g),
           CacheKnown(mb, srv.val, hs[1]), SameVal, SameDisk(mb, mb'),
           Surplus(mb'.disk.uids, mb'.disk.sync.uidNext, g[1]) = 0, mb'.disk.sync.uidVal = srv'.val
    PROVE  /\ mb.disk.sync.uidVal = srv.val /\ Surplus(hs[1].msgs, hs[1].next, g[1]) = 0
           /\ mb'.disk.uids = mb.disk.uids
           /\ \A j \in 1..Len(mb.disk.uids) : mb.disk.uids[j] # 0
           /\ mb.st # "NONE" => \A j \in 1..Len(mb.disk.uids) :
                 j \in 1..Len(mb.list) /\ mb.list[j].uid # 0
           /\ mb'.st # "NONE" => Len(mb.disk.uids) <= Len(mb'.list)
<1>1. PICK a : a = hs[1]
  OBVIOUS
<1>2. PICK b : b = g[1]
  OBVIOUS
<1>3. Sane(a) /\ Sane(b) /\ (b = a \/ Later(a, b))
  BY <1>1, <1>2, ToldGoesOn
<1>4. /\ mb \in Mailbox /\ mb' \in Mailbox /\ OnDisk(mb, srv.val, a)
  BY <1>1 DEF TypeOK, FollowsServer, Client
<1>5. OnDisk(mb', srv'.val, b)
  BY <1>2 DEF FollowsServer, Client
<1>6. /\ mb.disk.uids \in Seq(0..MaxUid) /\ Len(mb.disk.uids) \in Nat
      /\ Len(mb.list) \in Nat /\ Len(mb'.list) \in Nat
      /\ mb.disk.sync.uidNext \in Nat /\ mb.disk.sync.uidVal \in Nat
  BY <1>4, MailboxFields DEF SyncState
<1>7. mb'.disk.uids = mb.disk.uids /\ mb'.disk.sync = mb.disk.sync
  BY DEF SameDisk
<1>8. mb.disk.sync.uidVal = srv.val /\ Surplus(mb.disk.uids, mb.disk.sync.uidNext, b) = 0
  BY <1>2, <1>7 DEF SameVal
<1>9. Surplus(mb.disk.uids, mb.disk.sync.uidNext, a) = 0 /\ Surplus(a.msgs, a.next, b) = 0
  <2>1. Follows(mb.disk.uids, mb.disk.sync.uidNext, a)
    BY <1>4, <1>8 DEF OnDisk
  <2>2. CASE b = a
    <3>1. Surplus(a.msgs, a.next, a) = 0
      BY <1>3, SaneFields DEF Surplus
    <3> QED
      BY <1>8, <2>2, <3>1
  <2>3. CASE Later(a, b)
    BY <1>3, <1>6, <1>8, <2>1, <2>3, FollowsTrans DEF Later
  <2> QED
    BY <1>3, <2>2, <2>3
<1>10. \A j \in 1..Len(mb.disk.uids) : mb.disk.uids[j] # 0 /\ (mb.st # "NONE" => mb.list[j].uid # 0)
  BY <1>1, <1>8, <1>9 DEF CacheKnown
<1>11. mb.st # "NONE" => Len(mb.disk.uids) <= Len(mb.list)
  BY <1>4, <1>8, <1>9 DEF OnDisk
<1>12. mb'.st # "NONE" => Len(mb'.disk.uids) <= Len(mb'.list)
  BY <1>2, <1>5 DEF OnDisk
<1> QED
  BY <1>1, <1>2, <1>6, <1>7, <1>8, <1>9, <1>10, <1>11, <1>12

\* The program starts, and fills the list from the cache.
LEMMA OpensFromDisk ==
    ASSUME TypeOK, TypeOK', NEW hs, FollowsServer(hs), [Next]_vars, mb.st = "NONE", mb'.st # "NONE"
    PROVE  FromDisk \/ mb.disk.sync.uidVal = 0
<1>1. ~up /\ net = <<>> /\ cmds = <<>> /\ mb \in Mailbox
  BY DEF FollowsServer, Stream, Connected, TypeOK
<1>2. mb' # mb
  OBVIOUS
<1>3. ~HandleResponse
  BY <1>1 DEF HandleResponse, HandleCodes, ObtainExists, KeepExists, ObtainExpunge, KeepExpunge,
     Vanished, VanishedEarlier, HandleFetch, HandleSearch, SelectOk, SearchOk, FlagsOk,
     ObtainArrivalsOk, ObtainNo, KeepArrivalsFinished, Unhandled, Ok, Next1
<1>4. ~Drop /\ ~Restart /\ ~UNCHANGED vars
  BY <1>1, <1>2 DEF Drop, Restart, vars
<1>5. ~ServerChange /\ ~Recreate /\ ~SendData /\ ~SendTagged
  BY <1>2 DEF ServerChange, Arrive, ServerExpunge, ServerFlag, Recreate, SendData, SendTagged
<1>6. Perform
  BY <1>3, <1>4, <1>5 DEF Next
<1>7. PICK m : m = Populate(mb) /\ mb' = [m EXCEPT !.st = "LOADING", !.sync = NoSync]
  BY <1>6 DEF Perform
<1>8. /\ m = mb /\ ~(mb.st = "NONE" /\ IsUsableForSyncing(mb.disk.sync))
      \/ /\ Len(m.list) = Len(mb.disk.uids)
         /\ \A j \in 1..Len(mb.disk.uids) : m.list[j].uid = mb.disk.uids[j]
  BY <1>1, <1>7, PopulateDoes
<1>9. m \in Mailbox => mb'.list = m.list
  BY <1>7 DEF Mailbox
<1>10. m \in Mailbox
  BY <1>1, <1>7, PopulateType
<1> QED
  BY <1>8, <1>9, <1>10 DEF FromDisk, IsUsableForSyncing

\* After an EXPUNGE the mailbox is not what it was with additions.
LEMMA RemovesNotAdds ==
    ASSUME TypeOK, TypeOK', NEW hs, FollowsServer(hs), NEW g, FollowsServer(g)', Continues(hs, g),
           NEW n \in Nat, Removes(n)
    PROVE  Surplus(hs[1].msgs, hs[1].next, g[1]) # 0
<1>1. /\ net # <<>> /\ Handled /\ Head(net).t = "EXPUNGE"
  BY DEF Removes
<1>2. Surplus(hs[1].msgs, hs[1].next, hs[2]) # 0
  BY <1>1, ExpungeTells
<1>3. g = Tail(hs)
  <2>1. /\ Len(net) \in Nat /\ Len(net') = Len(net) - 1 /\ Len(hs) = Len(net) + 1 /\ up
    BY <1>1, Remaining
  <2>2. up' /\ Len(g) = Len(net') + 1
    <3>1. History(g, net', srv')
      BY DEF FollowsServer
    <3> QED
      BY <1>1, <2>1, <3>1 DEF Handled, History
  <2> QED
    BY <2>1, <2>2 DEF Continues
<1>4. Took(hs, g)
  BY <1>1, <1>3 DEF Took
<1>5. g[1] = hs[2]
  BY <1>4, TookStates
<1> QED
  BY <1>2, <1>5

\* A list that goes on keeps the UIDs at the places that the cache has.
LEMMA ListStaysKnown ==
    ASSUME TypeOK, TypeOK', NEW hs, FollowsServer(hs), NEW g, FollowsServer(g)', Continues(hs, g),
           ListStep, HandleSearch /\ Handled /\ task'.status = "SYNCING_FLAGS" => AllKnown(mb'),
           SameVal, mb'.disk.sync.uidVal = srv'.val,
           Surplus(hs[1].msgs, hs[1].next, g[1]) = 0,
           NEW uids \in Seq(0..MaxUid), uids = mb.disk.uids, mb'.disk.uids = uids,
           \A j \in 1..Len(uids) : uids[j] # 0,
           \A j \in 1..Len(uids) : j \in 1..Len(mb.list) /\ mb.list[j].uid # 0,
           Len(uids) <= Len(mb'.list), mb'.st # "NONE", NEW k \in 1..Len(uids)
    PROVE  mb'.list[k].uid # 0
<1>1. /\ Len(mb.list) \in Nat /\ Len(mb'.list) \in Nat /\ Len(uids) \in Nat
      /\ k \in 1..Len(mb.list) /\ k \in 1..Len(mb'.list) /\ mb.list[k].uid # 0
  <2>1. Len(mb.list) \in Nat /\ Len(mb'.list) \in Nat /\ Len(uids) \in Nat
    BY MailboxFields DEF TypeOK
  <2> QED
    BY <2>1
<1>2. CASE Longer(mb.list, mb'.list)
  <2>1. mb'.list[k].uid = mb.list[k].uid
    BY <1>1, <1>2 DEF Longer
  <2> QED
    BY <1>1, <2>1
<1>3. CASE Learns(mb.list, mb'.list)
  BY <1>1, <1>3 DEF Learns
<1>4. CASE HandleSearch /\ Handled /\ task'.status = "SYNCING_FLAGS"
  BY <1>1, <1>4 DEF AllKnown
<1>5. ASSUME NEW n \in Nat, Removes(n) PROVE FALSE
  BY <1>5, RemovesNotAdds
<1>6. ~(Rebuilt /\ Forgets)
  <2>1. uids # <<>>
    <3>1. Len(uids) # 0
      BY <1>1
    <3> QED
      BY <3>1, EmptySeq
  <2> QED
    BY <2>1 DEF Forgets, SameVal
<1>7. CASE mb.list = <<>> /\ FromDisk /\ task'.status \in {"SELECTING", "SYNCING_FLAGS"}
  BY <1>7 DEF FromDisk
<1> QED
  BY <1>2, <1>3, <1>4, <1>5, <1>6, <1>7 DEF ListStep

\* A cache to which only additions were made since has no unknown UID, nor has the list there.
LEMMA CacheStaysKnown ==
    ASSUME TypeOK, TypeOK', NEW hs, FollowsServer(hs), NEW g, FollowsServer(g)', Continues(hs, g),
           CacheKnown(mb, srv.val, hs[1]), Moves, [Next]_vars,
           HandleSearch /\ Handled /\ task'.status = "SYNCING_FLAGS" => AllKnown(mb'),
           task'.status \in UidsAreKnown => InTurn(g)'
    PROVE  CacheKnown(mb', srv'.val, g[1])
<1>1. PICK b : b = g[1]
  OBVIOUS
<1>2. SameVal \/ mb'.disk.sync.uidVal # srv'.val
  BY CacheOfOld
<1>3. CASE ~SameVal
  BY <1>2, <1>3 DEF CacheKnown
<1>4. mb' \in Mailbox /\ Sane(b) /\ (mb'.list \in Seq(Message)) /\ Len(mb'.list) \in Nat
      /\ mb \in Mailbox /\ mb.disk.uids \in Seq(0..MaxUid)
  BY <1>1, ToldGoesOn, MailboxFields DEF TypeOK
<1>5. CASE mb'.disk.uids = <<>>
  <2>1. Len(mb'.disk.uids) = 0
    BY <1>5
  <2> QED
    BY <2>1 DEF CacheKnown
<1>6. CASE IsSaved(mb') /\ task'.status \in UidsAreKnown
  <2>1. Synced(mb', srv'.val, b)
    BY <1>1, <1>6 DEF FollowsServer, Client
  <2>2. InTurn(g)'
    BY <1>6
  <2>3. ASSUME NEW u \in Uid, u < mb'.sync.uidNext, Has(b, u) PROVE InList(mb'.list, u)
    <3>1. FoundNow(g, u, 1)'
      BY <2>2, <2>3 DEF InTurn
    <3>2. Found(mb'.list, net', g, u, 1)
      BY <3>1 DEF FoundNow
    <3>3. \A i \in 1..Len(net') : ~(i < 1)
      <4>1. Len(net') \in Nat
        BY DEF TypeOK
      <4> QED
        BY <4>1
    <3> QED
      BY <1>1, <2>3, <3>2, <3>3 DEF Found
  <2>4. CacheKnown(mb', srv'.val, b)
    BY <1>4, <1>6, <2>1, <2>3, SavedInTurn
  <2> QED
    BY <1>1, <2>4
<1>7. CASE SameDisk(mb, mb') /\ SameVal
  <2> SUFFICES ASSUME Surplus(mb'.disk.uids, mb'.disk.sync.uidNext, g[1]) = 0,
                      mb'.disk.sync.uidVal = srv'.val
               PROVE  \A j \in 1..Len(mb'.disk.uids) : /\ mb'.disk.uids[j] # 0
                                                       /\ mb'.st # "NONE" => mb'.list[j].uid # 0
    BY DEF CacheKnown
  <2>1. PICK uids \in Seq(0..MaxUid) : uids = mb.disk.uids
    BY <1>4
  <2>2. /\ mb.disk.sync.uidVal = srv.val /\ Surplus(hs[1].msgs, hs[1].next, g[1]) = 0
        /\ mb'.disk.uids = uids /\ \A j \in 1..Len(uids) : uids[j] # 0
        /\ mb.st # "NONE" => \A j \in 1..Len(uids) : j \in 1..Len(mb.list) /\ mb.list[j].uid # 0
        /\ mb'.st # "NONE" => Len(uids) <= Len(mb'.list)
    BY <1>7, <2>1, SameDiskKnown
  <2>3. ASSUME mb'.st # "NONE", NEW k \in 1..Len(uids) PROVE mb'.list[k].uid # 0
    <3>1. CASE mb.st = "NONE"
      <4>1. mb.disk.sync.uidVal # 0
        BY <2>2 DEF TypeOK, Server
      <4>2. FromDisk
        BY <2>3, <3>1, <4>1, OpensFromDisk
      <4> QED
        BY <2>1, <2>2, <4>2 DEF FromDisk
    <3>2. CASE mb.st # "NONE"
      <4>1. ListStep
        BY DEF Moves
      <4> QED
        BY <1>7, <2>1, <2>2, <2>3, <3>2, <4>1, ListStaysKnown
    <3> QED
      BY <3>1, <3>2
  <2> QED
    BY <2>2, <2>3
<1> QED
  BY <1>3, <1>5, <1>6, <1>7 DEF Moves, DiskStep

\* What has been saved is what is counted and of the UIDVALIDITY that was read.
LEMMA SavedThen ==
    ASSUME SyncInv', NEW g, FollowsServer(g)', task'.status = "KEEP", IsSaved(mb'), mb'.st = "DONE"
    PROVE  Saved'
<1>1. mb'.sync.exists = Len(mb'.list)
  BY DEF SyncInv, CountsAgree
<1>2. mb'.sync.uidVal = srv'.val
  BY DEF FollowsServer, Client, Synced, UidsAreKnown
<1> QED
  BY <1>1, <1>2 DEF Saved, IsSaved

\* KeepMailboxOpenTask takes over ...
LEMMA CompletesSaved ==
    ASSUME NEW m \in Mailbox, Complete(m)
    PROVE  IsSaved(mb') /\ mb'.st = "DONE"
BY SaveDoes DEF Complete

\* ... having saved everything.
LEMMA KeepStarts ==
    ASSUME Plain, TypeOK, TypeOK', SyncInv', NEW hs, FollowsServer(hs), Pending, NEW g,
           FollowsServer(g)', HandleResponse, task.status # "KEEP", task'.status = "KEEP"
    PROVE  Saved'
<1>1. task \in Task /\ mb \in Mailbox
  BY DEF TypeOK
<1>2. ~Unhandled /\ ~ObtainNo
  BY AllWanted
<1>3. (~\E e : Throw(e)) /\ ~Abort
  BY DEF Throw, Abort, Stop, Disconnected, NoTask
<1>4. ~HandleCodes /\ ~HandleFetch /\ ~Vanished /\ ~VanishedEarlier /\ ~ObtainExists
  <2>1. ~HandleCodes /\ ~Vanished /\ ~VanishedEarlier
    BY DEF HandleCodes, Vanished, VanishedEarlier, Update
  <2>2. ~HandleFetch
    BY <1>3 DEF HandleFetch, Update
  <2>3. ASSUME NEW m, NEW from, AskForArrivals(m, from) PROVE task'.status = task.status
    BY <1>1, <2>3 DEF AskForArrivals, Task
  <2>4. ~ObtainExists
    BY <1>3, <2>3 DEF ObtainExists, Update
  <2> QED
    BY <2>1, <2>2, <2>4
<1>5. ~KeepExists /\ ~KeepExpunge /\ ~KeepArrivalsFinished
  BY DEF KeepExists, KeepExpunge, KeepArrivalsFinished
<1>6. ~ObtainExpunge
  <2>1. ObtainExpunge => task' = task \/ task' = [task EXCEPT !.firstUnknown = @ - 1]
    BY <1>3 DEF ObtainExpunge
  <2> QED
    BY <1>1, <2>1 DEF Task
<1>7. ~HandleSearch
  BY <1>1, <1>3 DEF HandleSearch, FinalizeSearch, Task
<1>8. CASE SearchOk
  <2>1. SyncFlags(mb, task)
    BY <1>3, <1>8 DEF SearchOk
  <2> QED
    BY <1>1, <2>1, SyncFlagsPlain
<1>9. CASE FlagsOk
  <2>1. Complete(mb)
    <3>1. task' = [task EXCEPT !.status = "DONE", !.flagsCmd = FALSE] => task'.status = "DONE"
      BY <1>1 DEF Task
    <3> QED
      BY <1>3, <1>9, <3>1 DEF FlagsOk
  <2> QED
    BY <1>1, <2>1, CompletesSaved, SavedThen
<1>10. CASE ObtainArrivalsOk
  <2>1. Complete(mb)
    <3>1. ArrivalsDone.status = task.status
      BY <1>1 DEF ArrivalsDone, Task
    <3> QED
      BY <1>10, <3>1 DEF ObtainArrivalsOk
  <2> QED
    BY <1>1, <2>1, CompletesSaved, SavedThen
<1>11. CASE SelectOk
  <2>1. task.status = "SELECTING" /\ Handled /\ FinalizeSelect(mb)
    BY <1>3, <1>11 DEF SelectOk
  <2>2. PICK h : h = hs[1]
    OBVIOUS
  <2>3. PICK tk \in Task : Decides(tk, h)
    BY <1>11, <2>1, <2>2, SelectOkDecides
  <2>4. ASSUME NEW mode, NEW from, NEW first PROVE ~SyncUids(mb, tk, mode, from, first)
    BY <2>3 DEF SyncUids, Task
  <2>5. ~SyncNoNewNoDeletions(mb, tk)
    <3>1. ASSUME NEW m, SyncFlags(m, tk) PROVE FALSE
      BY <3>1, SyncFlagsPlain
    <3> QED
      BY <3>1 DEF SyncNoNewNoDeletions
  <2>6. ASSUME NEW m \in Mailbox, FullMboxSync(m, tk) PROVE Saved'
    <3>1. PICK n \in Nat : n = m.sync.exists
      BY <2>6, MailboxFields
    <3>2. PICK fresh : fresh = [m EXCEPT !.list = Unknown(n)]
      OBVIOUS
    <3>3. IF n > 0 THEN SyncUids(fresh, tk, "ALL", 0, 0) ELSE Complete(fresh)
      BY <2>6, <3>1, <3>2 DEF FullMboxSync
    <3>4. ~SyncUids(fresh, tk, "ALL", 0, 0)
      BY <2>3 DEF SyncUids, Task
    <3>5. Complete(fresh)
      BY <3>3, <3>4
    <3>6. Unknown(n) \in Seq(Message)
      BY <3>1, UnknownType
    <3>7. fresh \in Mailbox
      BY <2>6, <3>2, <3>6 DEF Mailbox
    <3> QED
      BY <3>5, <3>7, CompletesSaved, SavedThen
  <2>7. ClearAllMessages(mb) \in Mailbox
    BY <1>1, ClearAllMessagesType
  <2> QED
    BY <1>1, <2>3, <2>4, <2>5, <2>6, <2>7 DEF Decides
<1> QED
  BY <1>2, <1>4, <1>5, <1>6, <1>7, <1>8, <1>9, <1>10, <1>11 DEF HandleResponse

\* ... and saves again whenever nothing is asked for any more; meanwhile nothing is learnt.
SavedStill == /\ SameDisk(mb, mb') /\ mb'.st = mb.st /\ Len(mb'.list) = Len(mb.list)
              /\ \A j \in 1..Len(mb.list) : mb'.list[j].uid = mb.list[j].uid

\* A FETCH that was not asked for tells flags only.
LEMMA FlagsOnly ==
    ASSUME TypeOK, NEW hs, FollowsServer(hs), Pending, task.arrivals = 0, task.status = "KEEP",
           task'.status # "OFF", HandleFetch
    PROVE  SavedStill
<1>1. PICK r : r = Head(net)
  OBVIOUS
<1>2. net # <<>> /\ r.t = "FETCH" /\ r \in Response /\ ~\E e : Throw(e)
  BY <1>1, HeadType DEF HandleFetch, Next1, TypeOK, Resp, Throw, Disconnected, NoTask
<1>3. r \in [t: {"FETCH"}, n: Nat, uid: 0..MaxUid, fl: Nat, mod: Nat]
  BY <1>2, ResponseFields
<1>4. PICK m : m = HandleFetchResponse(mb, r)
  OBVIOUS
<1>5. ~FetchThrows(mb, r) /\ Handled /\ mb' = m
  BY <1>1, <1>2, <1>4 DEF HandleFetch, Resp, Update, Syncing
<1>6. mb \in Mailbox
  BY DEF TypeOK
<1>7. r.mod = 0 /\ r.uid = 0
  <2>1. Tells(r, hs[1], hs[2])
    BY <1>1, <1>2, <1>5, Remaining
  <2>2. 1 \in 1..Len(net) /\ net[1] = r
    BY <1>1, <1>2, TailElements DEF TypeOK
  <2>3. \A i \in 1..Len(net) : net[i].t = "FETCH" => net[i].uid = 0
    <3>1. ~(task.arrivals > 0)
      OBVIOUS
    <3> QED
      BY <3>1, UidsWanted
  <2> QED
    BY <1>2, <2>1, <2>2, <2>3 DEF Tells
<1>8. ~UidLearnt(mb, r)
  BY <1>7 DEF UidLearnt
<1>9. SameDisk(mb, m) /\ \A j \in 1..Len(mb.list) : m.list[j].uid = mb.list[j].uid
  BY <1>3, <1>4, <1>5, <1>6, <1>7, <1>8, HandleFetchDoes
<1>10. Len(m.list) = Len(mb.list)
  BY <1>3, <1>4, <1>5, <1>6, HandleFetchResponseType
<1>11. m.st = mb.st
  BY <1>4, <1>6, <1>8 DEF HandleFetchResponse, Mailbox
<1> QED
  BY <1>5, <1>9, <1>10, <1>11 DEF SavedStill

\* An open mailbox that is saved stays saved.
LEMMA SavedStays ==
    ASSUME TypeOK, TypeOK', Saved, SavedStill, SameVal
    PROVE  Saved'
<1>1. mb'.list \in Seq(Message) /\ mb.list \in Seq(Message)
  BY MailboxFields DEF TypeOK
<1>2. Uids(mb'.list) = Uids(mb.list)
  BY DEF Uids, SavedStill
<1> QED
  BY <1>2 DEF Saved, SavedStill, SameDisk, SameVal

\* Whatever an open mailbox is told is saved, at the latest when no UID FETCH is pending.
LEMMA KeepSaves ==
    ASSUME TypeOK, TypeOK', SyncInv', NEW hs, FollowsServer(hs), Pending, NEW g,
           FollowsServer(g)', task.arrivals = 0 => Saved, HandleResponse, SameVal,
           task.status = "KEEP", task'.status = "KEEP", task'.arrivals = 0
    PROVE  Saved'
<1>1. task \in Task /\ mb \in Mailbox /\ task.arrivals \in Nat
  BY TaskFields DEF TypeOK
<1>2. ~Unhandled /\ ~ObtainNo /\ ~Vanished /\ ~VanishedEarlier
  BY AllWanted, NoneVanished
<1>3. (~\E e : Throw(e)) /\ ~Abort
  BY DEF Throw, Abort, Stop, Disconnected, NoTask
<1>4. ~ObtainExists /\ ~ObtainExpunge /\ ~HandleSearch /\ ~SelectOk /\ ~SearchOk /\ ~FlagsOk
      /\ ~ObtainArrivalsOk
  BY <1>3 DEF ObtainExists, ObtainExpunge, HandleSearch, SelectOk, SearchOk, FlagsOk,
     ObtainArrivalsOk, Syncing
<1>5. CASE HandleCodes
  <2>1. mb' = [mb EXCEPT !.sync.uidNext = Head(net).uidNext, !.sync.uidVal = Head(net).uidVal,
                         !.sync.modSeq = Head(net).modSeq] /\ task' = task
    BY <1>5 DEF HandleCodes, Update, Resp
  <2>2. SavedStill
    BY <1>1, <2>1 DEF SavedStill, SameDisk, Mailbox
  <2> QED
    BY <2>1, <2>2, SavedStays
<1>6. CASE KeepExists
  <2>1. ASSUME NEW m, NEW from, AskForArrivals(m, from) PROVE FALSE
    <3>1. task'.arrivals = task.arrivals + 1
      BY <1>1, <2>1 DEF AskForArrivals, Task
    <3> QED
      BY <1>1, <3>1
  <2>2. Update(mb)
    BY <1>3, <1>6, <2>1 DEF KeepExists
  <2>3. mb' = mb /\ task' = task
    BY <2>2 DEF Update
  <2>4. SavedStill
    BY <2>3 DEF SavedStill, SameDisk
  <2> QED
    BY <2>3, <2>4, SavedStays
<1>7. CASE KeepExpunge
  <2>1. net # <<>> /\ Head(net) \in Response /\ Head(net).t = "EXPUNGE"
    BY <1>7, HeadType DEF KeepExpunge, Next1, TypeOK, Resp
  <2>2. PICK n \in Nat : n = Head(net).n
    BY <2>1, ResponseFields
  <2>3. PICK x : x = HandleExpunge(mb, n)
    OBVIOUS
  <2>4. PICK m : m = [x EXCEPT !.sync.exists = @ - 1]
    OBVIOUS
  <2>5. ~ExpungeThrows(mb, n) /\ Update(SaveSyncStateNowOrLater(m))
    BY <1>3, <1>7, <2>2, <2>3, <2>4 DEF KeepExpunge, Resp
  <2>6. task' = task /\ mb' = SaveSyncStateNowOrLater(m)
    BY <2>5 DEF Update
  <2>7. mb.st = "DONE"
    BY <2>6 DEF Saved
  <2>8. x \in Mailbox /\ x.st = "DONE"
    BY <1>1, <2>2, <2>3, <2>5, <2>7, HandleExpungeDoes, HandleExpungeType
  <2>9. m.st = "DONE"
    BY <2>4, <2>8 DEF Mailbox
  <2>10. mb' = SaveSyncStateAndUids(m)
    BY <2>6, <2>9 DEF SaveSyncStateNowOrLater
  <2>11. /\ m \in [list: Seq(Message), st: FetchStatus, disk: Disk,
                   sync: [exists: Int, uidNext: Nat, uidVal: Nat, modSeq: Nat]]
    BY <2>4, <2>8 DEF Mailbox, SyncState
  <2>12. mb'.st = "DONE" /\ mb'.list = m.list /\ mb'.sync = m.sync
    BY <2>10, <2>11 DEF SaveSyncStateAndUids
  <2>13. mb'.disk.sync = m.sync /\ mb'.disk.uids = Uids(m.list)
    BY <2>10, <2>11 DEF SaveSyncStateAndUids, Disk
  <2> QED
    BY <2>12, <2>13, SavedThen DEF IsSaved
<1>8. CASE HandleFetch
  <2>1. task' = task
    BY <1>3, <1>8 DEF HandleFetch, Update
  <2>2. SavedStill
    BY <1>8, <2>1, FlagsOnly
  <2> QED
    BY <2>1, <2>2, SavedStays
<1>9. CASE KeepArrivalsFinished
  <2>1. task'.arrivals = task.arrivals - 1 /\ task.arrivals > 0
    BY <1>1, <1>9 DEF KeepArrivalsFinished, ArrivalsDone, Task
  <2>2. task.arrivals = 1
    BY <1>1, <2>1
  <2>3. mb' = SaveSyncStateAndUids(mb)
    BY <1>9, <2>2 DEF KeepArrivalsFinished
  <2> QED
    BY <1>1, <2>3, SaveDoes, SavedThen
<1> QED
  BY <1>2, <1>4, <1>5, <1>6, <1>7, <1>8, <1>9 DEF HandleResponse

\* Every step leaves an open mailbox saved.
LEMMA NextSaved ==
    ASSUME Plain, TypeOK, TypeOK', SyncInv', NEW hs, FollowsServer(hs), Pending, NEW g,
           FollowsServer(g)', task.status = "KEEP" /\ task.arrivals = 0 => Saved, [Next]_vars,
           task'.status = "KEEP", task'.arrivals = 0
    PROVE  Saved'
<1>1. ~Perform /\ ~Drop /\ ~Restart
  <2>1. Perform => task'.status = "SELECTING"
    BY DEF Perform, NoTask
  <2>2. Drop \/ Restart => task'.status = "OFF"
    BY DEF Drop, Restart, Stop, Disconnected, NoTask
  <2> QED
    BY <2>1, <2>2
<1>2. ~Recreate
  BY DEF Recreate, FollowsServer, Stream, Connected
<1>3. SameVal
  BY <1>2, KeepsVal
<1>4. CASE HandleResponse
  <2>1. CASE task.status = "KEEP"
    BY <1>3, <1>4, <2>1, KeepSaves
  <2>2. CASE task.status # "KEEP"
    BY <1>4, <2>2, KeepStarts
  <2> QED
    BY <2>1, <2>2
<1>5. ASSUME ~HandleResponse PROVE Saved'
  <2>1. mb' = mb /\ task' = task
    BY <1>1, <1>2, <1>5 DEF Next, ServerChange, Arrive, ServerExpunge, ServerFlag, SendData,
       SendTagged, vars
  <2>2. SavedStill
    BY <2>1 DEF SavedStill, SameDisk
  <2> QED
    BY <1>3, <2>1, <2>2, SavedStays
<1> QED
  BY <1>4, <1>5

\* The inductive step: the client learns what it can learn.
LEMMA NextCurrent ==
    ASSUME Reliable, TypeOK, TypeOK', SyncInv, SyncInv', LearnsUids, Pending, Pending', [Next]_vars
    PROVE  LearnsUids'
<1>1. PICK hs \in Seq(Server) : FollowsServer(hs) /\ UidsCurrent(hs)
  BY DEF LearnsUids
<1>2. Plain
  BY DEF Reliable
<1>3. PICK g \in Seq(Server) : FollowsServer(g)' /\ Continues(hs, g)
  <2>1. Onwards(hs)
    BY <1>1, <1>2, NextFollows
  <2> QED
    BY <2>1 DEF Onwards
<1>4. /\ task.status \in UidsAreKnown => InTurn(hs) /\ UidsPromised(hs)
      /\ RestAsked /\ CacheKnown(mb, srv.val, hs[1])
      /\ task.status = "KEEP" /\ task.arrivals = 0 => Saved
  BY <1>1 DEF UidsCurrent
<1>5. Moves
  BY <1>1, NextMoves
<1>6. RestAsked'
  BY <1>1, <1>4, NextRest
<1>7. ASSUME task'.status \in UidsAreKnown PROVE InTurn(g)' /\ UidsPromised(g)'
  <2>1. CASE task.status \in UidsAreKnown
    BY <1>1, <1>3, <1>4, <1>5, <1>7, <2>1, KnownKeepsUids
  <2>2. CASE task.status \notin UidsAreKnown
    <3>1. AllKnown(mb') /\ task'.arrivals = 0
      BY <1>1, <1>2, <1>4, <1>7, <2>2, EntersKnown
    <3> QED
      BY <1>3, <1>7, <3>1, NothingToLearnThen
  <2> QED
    BY <2>1, <2>2
<1>8. CacheKnown(mb', srv'.val, g[1])
  <2>1. HandleSearch /\ Handled /\ task'.status = "SYNCING_FLAGS" => AllKnown(mb')
    BY <1>4, SearchKnowsAll DEF UidsAreKnown
  <2> QED
    BY <1>1, <1>3, <1>4, <1>5, <1>7, <2>1, CacheStaysKnown
<1>9. task'.status = "KEEP" /\ task'.arrivals = 0 => Saved'
  BY <1>1, <1>2, <1>3, <1>4, NextSaved
<1>10. UidsCurrent(g)'
  BY <1>6, <1>7, <1>8, <1>9 DEF UidsCurrent
<1> QED
  BY <1>3, <1>10 DEF LearnsUids

\* At first nothing is known, and nothing is there to be known.
LEMMA InitCurrent ==
    ASSUME Plain, Init
    PROVE  LearnsUids
<1>1. PICK hs \in Seq(Server) : FollowsServer(hs)
  BY InitKeepsUp DEF KeepsUp
<1>2. task.status = "OFF" /\ mb.disk.uids = <<>>
  BY DEF Init, NoTask, EmptyDisk
<1>3. RestAsked
  BY <1>2 DEF RestAsked
<1>4. CacheKnown(mb, srv.val, hs[1])
  <2>1. Len(mb.disk.uids) = 0
    BY <1>2
  <2> QED
    BY <2>1 DEF CacheKnown
<1>5. UidsCurrent(hs)
  BY <1>2, <1>3, <1>4 DEF UidsCurrent, UidsAreKnown
<1> QED
  BY <1>1, <1>5 DEF LearnsUids

\* The inductive invariant of a client whose server refuses nothing and that learns all UIDs:
\* with ReliableKeepsUp, every message that the client has been told of is in its list by
\* its UID, or the UID is asked for or on its way.
THEOREM ReliableLearnsUids ==
    ASSUME Reliable
    PROVE  Spec => [](TypeOK /\ SyncInv /\ Pending /\ LearnsUids)
<1>1. Init => LearnsUids
  BY InitCurrent DEF Reliable
<1>2. /\ TypeOK /\ SyncInv /\ Pending /\ LearnsUids
      /\ TypeOK' /\ SyncInv' /\ Pending' /\ [Next]_vars
      => LearnsUids'
  BY NextCurrent
<1>3. Spec => [](TypeOK /\ SyncInv /\ KeepsUp /\ Pending)
  BY ReliableKeepsUp
<1> QED
  BY <1>1, <1>2, <1>3, PTL DEF Spec

----------------------------------------------------------------------------
(* What the invariant is for. *)

\* A message leaves the list only when the server no longer has it, or with all the others
\* when the client starts anew: an EXPUNGE names the right message although the list and the
\* server differ while its responses are under way, and a UID SEARCH that replaces the end
\* of the list names all that is there.
THEOREM NothingPresentLeaves ==
    ASSUME Reliable
    PROVE  Spec => OnlyGoneLeave
<1>1. TypeOK /\ SyncInv /\ LearnsUids /\ Pending /\ TypeOK' /\ [Next]_vars
      => (mb.sync.uidVal = srv.val /\ ~Rebuilt =>
            \A u \in Uid : InList(mb.list, u) /\ ~InList(mb'.list, u) => ~Present(u))
  <2> SUFFICES ASSUME TypeOK, SyncInv, LearnsUids, Pending, TypeOK', [Next]_vars,
                      ~Rebuilt, NEW u \in Uid, InList(mb.list, u), ~InList(mb'.list, u)
               PROVE  ~Present(u)
    OBVIOUS
  <2>1. PICK hs \in Seq(Server) : FollowsServer(hs) /\ UidsCurrent(hs)
    BY DEF LearnsUids
  <2>2. Moves
    BY <2>1, NextMoves
  <2>3. Leaves(u) /\ RestAsked
    BY <2>1 DEF Leaves, UidsCurrent
  <2> QED
    BY <2>1, <2>2, <2>3, StepKeepsPresent
<1>2. Spec => [](TypeOK /\ SyncInv /\ Pending /\ LearnsUids)
  BY ReliableLearnsUids
<1> QED
  BY <1>1, <1>2, PTL DEF Spec, OnlyGoneLeave

\* When nothing is under way nothing is left to be learnt.
LEMMA QuietIsKnown ==
    ASSUME TypeOK, NEW hs, FollowsServer(hs), UidsCurrent(hs), Quiet
    PROVE  hs[1] = srv /\ Uids(mb.list) = srv.msgs
<1>1. hs[1] = srv /\ Sane(srv) /\ srv.msgs \in Seq(Uid)
  BY SaneServer, SaneFields DEF Quiet
<1>2. mb.list \in Seq(Message) /\ Len(mb.list) \in Nat
  BY MailboxFields DEF TypeOK
<1>3. Reflects(mb.list, srv)
  BY <1>1 DEF Quiet, FollowsServer, Client, Synced, UidsAreKnown
<1>4. UidsPromised(hs)
  BY DEF Quiet, UidsCurrent, UidsAreKnown
<1>5. Len(net) = 0 /\ Len(cmds) = 0
  BY DEF Quiet
<1>6. ASSUME NEW u \in Uid, Has(srv, u) PROVE InList(mb.list, u)
  <2>1. FoundNow(hs, u, 1) \/ UidPromised(hs, u)
    BY <1>1, <1>4, <1>6 DEF UidsPromised
  <2>2. ~UidPromised(hs, u)
    BY <1>5 DEF UidPromised, LinesOf, OpenOf
  <2>3. Found(mb.list, net, hs, u, 1)
    BY <2>1, <2>2 DEF FoundNow
  <2>4. ~\E i \in 1..Len(net) : i < 1
    BY <1>5
  <2> QED
    BY <1>1, <1>6, <2>3, <2>4 DEF Found
<1>7. \A j \in 1..Len(mb.list) : mb.list[j].uid = srv.msgs[j]
  BY <1>1, <1>2, <1>3, <1>6, AllFoundIsAll
<1>8. Uids(mb.list) = srv.msgs
  <2>1. Len(mb.list) = Len(srv.msgs)
    BY <1>3 DEF Reflects
  <2>2. Uids(mb.list) \in Seq(0..MaxUid) /\ Len(Uids(mb.list)) = Len(srv.msgs)
    BY <1>2, <2>1, UidsType
  <2>3. \A j \in 1..Len(srv.msgs) : Uids(mb.list)[j] = srv.msgs[j]
    BY <1>7, <2>1 DEF Uids
  <2>4. srv.msgs \in Seq(0..MaxUid)
    <3>1. Uid \subseteq 0..MaxUid
      BY MaxUidAssumption DEF Uid
    <3> QED
      BY <1>1, <3>1, SeqMonotonic
  <2> QED
    BY <2>2, <2>3, <2>4, SameElements
<1> QED
  BY <1>1, <1>8

\* When everything sent has been handled the cache is the server's mailbox: whichever response
\* was the last, what it told has been saved.
THEOREM CacheStaysServers ==
    ASSUME Reliable
    PROVE  Spec => []CacheIsServers
<1>1. TypeOK /\ LearnsUids => CacheIsServers
  <2> SUFFICES ASSUME TypeOK, LearnsUids, Quiet
               PROVE  /\ mb.disk.uids = srv.msgs /\ mb.disk.sync.exists = Len(srv.msgs)
                      /\ mb.disk.sync.uidVal = srv.val
    BY DEF CacheIsServers
  <2>1. PICK hs \in Seq(Server) : FollowsServer(hs) /\ UidsCurrent(hs)
    BY DEF LearnsUids
  <2>2. Uids(mb.list) = srv.msgs
    BY <2>1, QuietIsKnown
  <2>3. Saved
    BY <2>1 DEF UidsCurrent, Quiet
  <2>4. Len(mb.list) = Len(srv.msgs)
    <3>1. mb.list \in Seq(Message)
      BY MailboxFields DEF TypeOK
    <3> QED
      BY <2>2, <3>1, UidsType
  <2> QED
    BY <2>2, <2>3, <2>4 DEF Saved
<1>2. Spec => [](TypeOK /\ SyncInv /\ Pending /\ LearnsUids)
  BY ReliableLearnsUids
<1> QED
  BY <1>1, <1>2, PTL

----------------------------------------------------------------------------
(* The client finds out all flags: what the server sends. *)

\* Whose flags are right before one state, its flags are so before every later one.
LEMMA FreshLater ==
    ASSUME NEW list, NEW q \in Seq(Response), NEW s, NEW hs, History(hs, q, s),
           NEW i \in 1..Len(hs), NEW k \in 1..Len(hs), i <= k,
           NEW u \in Uid, u < hs[i].next, Fresh(list, q, hs, u, i)
    PROVE  Fresh(list, q, hs, u, k)
<1>1. Len(q) \in Nat /\ Len(hs) \in Nat
  BY DEF History
<1>2. Has(hs[k], u) => Has(hs[i], u)
  <2>1. CASE i < k
    <3>1. Later(hs[i], hs[k])
      BY <2>1 DEF History
    <3> QED
      BY <3>1 DEF Later, NoneReturns
  <2>2. CASE i = k
    BY <2>2
  <2> QED
    BY <1>1, <2>1, <2>2
<1>3. ASSUME NEW j \in 1..Len(q), j < i PROVE j < k
  BY <1>1, <1>3
<1> QED
  BY <1>2, <1>3 DEF Fresh

\* FreshNow after the step.
FreshThen(hs, u, k) == Fresh(mb'.list, net', hs, u, k)

\* What the server has sent since makes no difference.
LEMMA SentFresh ==
    ASSUME TypeOK, TypeOK', NEW hs, FollowsServer(hs), NEW d \in Seq(Response), NEW g, Sent(hs, g, d),
           NEW u \in Uid, NEW k \in 1..(Len(net) + 1), FreshNow(hs, u, k)
    PROVE  FreshThen(g, u, k)
<1>1. /\ Len(net) \in Nat /\ Len(d) \in Nat /\ Len(net') = Len(net) + Len(d)
      /\ \A i \in 1..Len(net) : net'[i] = net[i]
      /\ \A i \in 1..(Len(net) + 1) : g[i] = hs[i]
  BY SentStates
<1>2. g[k] = hs[k] /\ g[1] = hs[1] /\ mb' = mb
  BY <1>1 DEF Sent
<1>3. ASSUME NEW i \in 1..Len(net)
      PROVE  i \in 1..Len(net') /\ net'[i] = net[i] /\ g[i] = hs[i]
  BY <1>1
<1> QED
  BY <1>2, <1>3 DEF FreshNow, FreshThen, Fresh

\* ... and before what comes after d.
LEMMA SentFreshLast ==
    ASSUME TypeOK, TypeOK', NEW hs, FollowsServer(hs), NEW d \in Seq(Response), NEW g, Sent(hs, g, d),
           NEW u \in Uid, u < srv.next, FreshNow(hs, u, Len(net) + 1), NEW k \in 1..(Len(net') + 1),
           k >= Len(net) + 1
    PROVE  FreshThen(g, u, k)
<1>1. /\ Len(net) \in Nat /\ Len(net') \in Nat /\ Len(net') >= Len(net) /\ net' \in Seq(Response)
      /\ Len(g) = Len(net') + 1 /\ History(g, net', srv') /\ g[Len(net) + 1] = srv
  BY SentStates
<1>2. Len(net) + 1 \in 1..(Len(net) + 1) /\ Len(net) + 1 \in 1..Len(g) /\ k \in 1..Len(g)
  BY <1>1
<1>3. Fresh(mb'.list, net', g, u, Len(net) + 1)
  BY <1>2, SentFresh DEF FreshThen
<1>4. Fresh(mb'.list, net', g, u, k)
  BY <1>1, <1>2, <1>3, FreshLater
<1> QED
  BY <1>4 DEF FreshThen

\* What was promised still is: a command goes on to be asked, to be answered or to end.
KeptFlags(g, i) ==
    \/ i = 1 /\ answered /\ Len(net) + 1 \in FlagLines(net')
    \/ \E j \in FlagsOpen(cmds') :
          /\ cmds'[j].arg = cmds[i].arg
          /\ j = 1 /\ answered' <=> i = 1 /\ answered
    \/ /\ ~(i = 1 /\ answered) /\ 1 \in FlagsOpen(cmds') /\ answered'
       /\ \A u \in Uid : cmds[i].arg <= u => FreshThen(g, u, Len(net') + 1)

\* What the server sends keeps its promise if what is sent for each FETCH of all flags does.
LEMMA SentFlagsPromised ==
    ASSUME TypeOK, TypeOK', NEW hs, FollowsServer(hs), NEW d \in Seq(Response), NEW g, Sent(hs, g, d),
           FlagsPromised(hs), \A i \in FlagsOpen(cmds) : KeptFlags(g, i)
    PROVE  FlagsPromised(g)'
<1>1. /\ Len(net) \in Nat /\ Len(d) \in Nat /\ Len(net') = Len(net) + Len(d)
      /\ \A i \in 1..Len(net) : net'[i] = net[i]
      /\ g[1] = hs[1] /\ hs[1].next <= srv.next /\ hs[1].next \in Nat /\ srv.next \in Nat
      /\ Sane(hs[1])
  <2>1. /\ Len(net) \in Nat /\ Len(d) \in Nat /\ Len(net') = Len(net) + Len(d)
        /\ \A i \in 1..Len(net) : net'[i] = net[i]
        /\ \A i \in 1..(Len(net) + 1) : g[i] = hs[i]
        /\ hs[1].next <= srv.next /\ hs[1].next \in Nat /\ srv.next \in Nat
    BY SentStates
  <2>2. 1 \in 1..(Len(net) + 1) /\ net \in Seq(Response) /\ History(hs, net, srv)
    BY <2>1 DEF FollowsServer, TypeOK
  <2>3. Sane(hs[1])
    BY <2>2, HistoryEnds
  <2> QED
    BY <2>1, <2>2, <2>3
<1>2. SUFFICES ASSUME NEW u \in Uid, Has(hs[1], u)
               PROVE  \/ FreshThen(g, u, 1)
                      \/ \E k \in FlagLines(net') : FreshThen(g, u, k)
                      \/ \E i \in FlagsOpen(cmds') :
                            IF i = 1 /\ answered' THEN FreshThen(g, u, Len(net') + 1)
                            ELSE cmds'[i].arg <= u
  BY <1>1 DEF FlagsPromised, FlagPromised, FreshNow, FreshThen
<1>3. u < srv.next
  <2>1. u < hs[1].next /\ u \in Nat
    BY <1>1, <1>2 DEF Has, Sane, Uid
  <2> QED
    BY <1>1, <2>1
<1>4. FreshNow(hs, u, 1) \/ FlagPromised(hs, u)
  BY <1>2 DEF FlagsPromised
<1>5. CASE FreshNow(hs, u, 1)
  <2>1. PICK k \in 1..(Len(net) + 1) : k = 1
    BY <1>1
  <2>2. FreshThen(g, u, k)
    BY <1>5, <2>1, SentFresh
  <2> QED
    BY <2>1, <2>2
<1>6. ASSUME NEW k \in FlagLines(net), FreshNow(hs, u, k)
      PROVE  \E l \in FlagLines(net') : FreshThen(g, u, l)
  <2>1. k \in 1..Len(net) /\ k \in 1..(Len(net) + 1) /\ k \in 1..Len(net') /\ net'[k] = net[k]
    BY <1>1 DEF FlagLines
  <2>2. FreshThen(g, u, k)
    BY <1>6, <2>1, SentFresh
  <2>3. k \in FlagLines(net')
    BY <2>1 DEF FlagLines
  <2> QED
    BY <2>2, <2>3
<1>7. ASSUME NEW i \in FlagsOpen(cmds),
             IF i = 1 /\ answered THEN FreshNow(hs, u, Len(net) + 1) ELSE cmds[i].arg <= u
      PROVE  \/ \E k \in FlagLines(net') : FreshThen(g, u, k)
             \/ \E j \in FlagsOpen(cmds') :
                   IF j = 1 /\ answered' THEN FreshThen(g, u, Len(net') + 1)
                   ELSE cmds'[j].arg <= u
  <2>1. PICK last : last = Len(net) + 1
    OBVIOUS
  <2>2. last \in 1..(Len(net) + 1) /\ last \in 1..(Len(net') + 1) /\ last >= Len(net) + 1
    BY <1>1, <2>1
  <2>3. CASE i = 1 /\ answered
    <3>1. FreshNow(hs, u, last)
      BY <1>7, <2>1, <2>3
    <3>2. CASE Len(net) + 1 \in FlagLines(net')
      <4>1. FreshThen(g, u, last)
        BY <2>2, <3>1, SentFresh
      <4> QED
        BY <2>1, <3>2, <4>1
    <3>3. CASE \E j \in FlagsOpen(cmds') : j = 1 /\ answered'
      <4>1. PICK k \in 1..(Len(net') + 1) : k = Len(net') + 1 /\ k >= Len(net) + 1
        BY <1>1
      <4>2. FreshNow(hs, u, Len(net) + 1)
        BY <2>1, <3>1
      <4>3. FreshThen(g, u, k)
        BY <1>3, <4>1, <4>2, SentFreshLast
      <4> QED
        BY <3>3, <4>1, <4>3
    <3> QED
      BY <2>3, <3>2, <3>3 DEF KeptFlags
  <2>4. CASE ~(i = 1 /\ answered)
    <3>1. cmds[i].arg <= u
      BY <1>7, <2>4
    <3>2. CASE \E j \in FlagsOpen(cmds') : cmds'[j].arg = cmds[i].arg /\ ~(j = 1 /\ answered')
      BY <3>1, <3>2
    <3>3. CASE /\ 1 \in FlagsOpen(cmds') /\ answered'
               /\ \A v \in Uid : cmds[i].arg <= v => FreshThen(g, v, Len(net') + 1)
      <4>1. FreshThen(g, u, Len(net') + 1)
        BY <3>1, <3>3
      <4> QED
        BY <3>3, <4>1
    <3> QED
      BY <2>4, <3>2, <3>3 DEF KeptFlags
  <2> QED
    BY <2>3, <2>4
<1> QED
  BY <1>4, <1>5, <1>6, <1>7 DEF FlagPromised


\* What happens to the mailbox is announced ...
LEMMA AnnouncedKeepsFlags ==
    ASSUME TypeOK, TypeOK', NEW hs, FollowsServer(hs), NEW d \in Seq(Response), NEW g, Sent(hs, g, d),
           FlagsPromised(hs), UNCHANGED <<cmds, answered>>
    PROVE  FlagsPromised(g)'
<1>1. \A i \in FlagsOpen(cmds) : KeptFlags(g, i)
  BY DEF KeptFlags
<1> QED
  BY <1>1, SentFlagsPromised

\* A change of the mailbox: the responses that tell it say which flags changed.
LEMMA ChangeKeepsFlags ==
    ASSUME Reliable, TypeOK, TypeOK', NEW hs, FollowsServer(hs), NEW g, GoesOnAs(hs, g),
           FlagsPromised(hs), ServerChange \/ Recreate
    PROVE  FlagsPromised(g)'
<1>1. UNCHANGED <<cmds, answered, mb>>
  BY ChangeIs DEF Reliable
<1>2. PICK d \in Seq(Response) : net' = net \o d
  BY ChangeIs DEF Reliable
<1> QED
  BY <1>1, <1>2, AnnouncedKeepsFlags DEF Sent

\* ... and every message has flags ...
LEMMA NextFlagged ==
    ASSUME TypeOK, TypeOK', AllFlagged, [Next]_vars
    PROVE  AllFlagged'
<1>1. PICK n \in Nat : n = Len(srv.msgs)
  BY ServerFields
<1>2. /\ srv \in Server /\ srv.msgs \in Seq(Uid) /\ srv.hms \in Nat /\ srv.next \in Nat
      /\ srv.flag \in [Uid -> Nat] /\ \A i \in 1..n : srv.msgs[i] \in Uid
  BY <1>1, ElementOfSeq DEF TypeOK, Server
<1>3. CASE Arrive
  <2>1. /\ srv.next \in Uid
        /\ srv' = [srv EXCEPT !.msgs = Append(@, srv.next), !.next = @ + 1, !.hms = @ + 1,
                              !.flag[srv.next] = srv.hms + 1]
    BY <1>2, <1>3 DEF Arrive, Uid, TypeOK, Server
  <2>2. /\ srv'.msgs = Append(srv.msgs, srv.next)
        /\ srv'.flag = [srv.flag EXCEPT ![srv.next] = srv.hms + 1]
    BY <1>2, <2>1 DEF Server
  <2>3. /\ Len(srv'.msgs) = n + 1 /\ srv'.msgs[n + 1] = srv.next
        /\ \A i \in 1..n : srv'.msgs[i] = srv.msgs[i]
    BY <1>1, <1>2, <2>2, AppendElements
  <2>4. ASSUME NEW i \in 1..(n + 1) PROVE srv'.flag[srv'.msgs[i]] > 0
    <3>1. CASE srv'.msgs[i] = srv.next
      <4>1. srv'.flag[srv.next] = srv.hms + 1 /\ srv.hms + 1 > 0
        BY <1>2, <2>1, <2>2
      <4> QED
        BY <3>1, <4>1
    <3>2. CASE srv'.msgs[i] # srv.next
      <4>1. i \in 1..n
        BY <1>1, <2>3, <3>2
      <4> QED
        BY <1>1, <1>2, <2>2, <2>3, <3>2, <4>1 DEF AllFlagged
    <3> QED
      BY <3>1, <3>2
  <2> QED
    BY <2>3, <2>4 DEF AllFlagged
<1>4. ASSUME NEW p \in 1..Len(srv.msgs), ServerExpunge(p) PROVE AllFlagged'
  <2>1. srv' = [srv EXCEPT !.msgs = RemoveAt(@, p), !.hms = @ + 1]
    BY <1>4 DEF ServerExpunge
  <2>2. srv'.msgs = RemoveAt(srv.msgs, p) /\ srv'.flag = srv.flag
    BY <1>2, <2>1 DEF Server
  <2>3. /\ Len(srv'.msgs) = n - 1
        /\ \A i \in 1..(n - 1) : srv'.msgs[i] = IF i < p THEN srv.msgs[i] ELSE srv.msgs[i + 1]
    BY <1>1, <1>2, <2>2, RemoveAtElements
  <2>4. ASSUME NEW i \in 1..(n - 1) PROVE srv'.flag[srv'.msgs[i]] > 0
    <3>1. PICK j \in 1..n : srv'.msgs[i] = srv.msgs[j]
      BY <1>1, <2>3
    <3> QED
      BY <1>1, <2>2, <3>1 DEF AllFlagged
  <2> QED
    BY <2>3, <2>4 DEF AllFlagged
<1>5. ASSUME NEW p \in 1..Len(srv.msgs), ServerFlag(p) PROVE AllFlagged'
  <2>1. srv' = [srv EXCEPT !.flag[srv.msgs[p]] = srv.hms + 1, !.hms = @ + 1]
    BY <1>5 DEF ServerFlag
  <2>2. srv'.msgs = srv.msgs /\ srv'.flag = [srv.flag EXCEPT ![srv.msgs[p]] = srv.hms + 1]
    BY <1>2, <2>1 DEF Server
  <2> QED
    BY <1>1, <1>2, <2>2 DEF AllFlagged
<1>6. CASE Recreate
  <2>1. /\ srv'.msgs = <<1>> /\ 1 \in Uid
        /\ srv'.flag = [u \in Uid |-> IF u = 1 THEN srv.hms + 1 ELSE 0]
    BY <1>6, MaxUidAssumption DEF Recreate, Uid
  <2>2. Len(srv'.msgs) = 1 /\ srv'.msgs[1] = 1 /\ srv'.flag[1] > 0
    BY <1>2, <2>1
  <2> QED
    BY <2>2 DEF AllFlagged
<1>7. CASE srv' = srv
  BY <1>7 DEF AllFlagged
<1>8. ASSUME [Next]_vars, ~(ServerChange \/ Recreate) PROVE srv' = srv
  BY <1>8, HandledServer DEF Next, SendData, SendTagged, Perform, Drop, Restart, Stop, vars
<1> QED
  BY <1>3, <1>4, <1>5, <1>6, <1>7, <1>8 DEF ServerChange

\* ... and all that were asked for are told.
LEMMA AllAnswered ==
    ASSUME TypeOK, Sane(srv), Head(cmds) \in Commands, Head(cmds).t \in AsksFlags,
           Head(cmds).t = "FLAGS" => Head(cmds).arg = 0, AllFlagged,
           NEW d \in Seq(Response), NEW order, Answer(Head(cmds), order, d)
    PROVE  \A u \in Uid : Has(srv, u) /\ u >= Head(cmds).arg =>
              \E k \in 1..Len(d) : d[k].t = "FETCH" /\ srv.msgs[d[k].n] = u
<1>1. PICK n \in Nat : n = Len(srv.msgs)
  BY SaneFields
<1>2. PICK S \in SUBSET (1..n) : S = Wanted(Head(cmds))
  BY <1>1, WantedType
<1>3. \A p \in S : \E k \in 1..Len(order) : order[k] = p
  BY <1>2, OrdersAll DEF Answer
<1>4. /\ Len(d) = Len(order)
      /\ \A k \in 1..Len(d) : d[k].t = "FETCH" /\ d[k].n = order[k]
  BY DEF Answer, Fetched, AsksFlags
<1>5. ASSUME NEW p \in 1..n, srv.msgs[p] >= Head(cmds).arg PROVE p \in S
  <2>1. CASE Head(cmds).t = "FLAGS"
    <3>1. srv.flag[srv.msgs[p]] > 0 /\ Head(cmds).arg = 0
      BY <1>1, <2>1 DEF AllFlagged
    <3> QED
      BY <1>1, <1>2, <2>1, <3>1 DEF Wanted, ChangedSince
  <2>2. CASE Head(cmds).t = "ARRIVALS"
    BY <1>1, <1>2, <1>5, <2>2 DEF Wanted, FromUid
  <2> QED
    BY <2>1, <2>2 DEF AsksFlags
<1> SUFFICES ASSUME NEW u \in Uid, Has(srv, u), u >= Head(cmds).arg
             PROVE  \E k \in 1..Len(d) : d[k].t = "FETCH" /\ srv.msgs[d[k].n] = u
  OBVIOUS
<1>6. PICK p \in 1..n : srv.msgs[p] = u
  BY <1>1 DEF Has
<1>7. PICK k \in 1..Len(order) : order[k] = p
  BY <1>3, <1>5, <1>6
<1> QED
  BY <1>4, <1>6, <1>7

\* The data of an answer: FETCH tells the flags of every message that it is for.
LEMMA SendDataKeepsFlags ==
    ASSUME Reliable, TypeOK, TypeOK', NEW hs, FollowsServer(hs), NEW g, GoesOnAs(hs, g),
           AllFlagged, FlagsPromised(hs), SendData
    PROVE  FlagsPromised(g)'
<1>1. /\ cmds # <<>> /\ ~answered /\ answered' = TRUE
      /\ UNCHANGED <<srv, cmds, up, task, mb, threw, selects>>
  BY DEF SendData
<1>2. PICK d \in Seq(Response), order \in Seq(1..Len(srv.msgs)) :
              net' = net \o d /\ Answer(Head(cmds), order, d)
  BY AnswerIs DEF Reliable
<1>3. Sent(hs, g, d)
  BY <1>1, <1>2 DEF Sent
<1>4. Head(cmds) \in Commands /\ Head(cmds) = cmds[1] /\ 1 \in 1..Len(cmds)
  BY <1>1, TailElements, ElementOfSeq DEF TypeOK
<1>5. /\ Len(net) \in Nat /\ Len(d) \in Nat /\ Len(net') = Len(net) + Len(d)
      /\ \A i \in 1..Len(d) : net'[Len(net) + i] = d[i]
      /\ Len(g) = Len(net') + 1 /\ History(g, net', srv) /\ Len(hs) = Len(net) + 1
      /\ g[Len(net) + 1] = srv
  BY <1>1, <1>3, SentStates
<1>6. \A k \in 1..(Len(d) + 1) : g[Len(net) + k] = srv
  <2> SUFFICES ASSUME NEW k \in 1..(Len(d) + 1), k # 1 PROVE g[Len(net) + k] = srv
    BY <1>5
  <2>1. Len(net) + k \in 1..Len(g) /\ Len(net) + k > Len(net) + 1
    BY <1>5
  <2> QED
    BY <1>1, <1>3, <1>5, <2>1 DEF Sent, GoesOnAs
<1>7. CASE Head(cmds).t \notin AsksFlags
  <2>1. 1 \notin FlagsOpen(cmds)
    BY <1>4, <1>7 DEF FlagsOpen
  <2>2. \A i \in FlagsOpen(cmds) : KeptFlags(g, i)
    BY <1>1, <2>1 DEF KeptFlags
  <2> QED
    BY <1>3, <2>2, SentFlagsPromised
<1>8. CASE Head(cmds).t \in AsksFlags
  <2>1. PICK arg \in Nat : arg = Head(cmds).arg
    BY <1>4 DEF Commands
  <2>2. 1 \in FlagsOpen(cmds) /\ cmds[1].arg = arg
    BY <1>4, <1>8, <2>1 DEF FlagsOpen
  <2>3. Sane(srv)
    <3>1. Len(net) + 1 \in 1..Len(g)
      BY <1>5
    <3> QED
      BY <1>5, <3>1 DEF History
  <2>4. Head(cmds).t = "FLAGS" => arg = 0
    BY <1>4, <2>1 DEF FollowsServer, Stream, ArgsPlain
  <2>5. \A u \in Uid : Has(srv, u) /\ u >= arg =>
           \E k \in 1..Len(d) : d[k].t = "FETCH" /\ srv.msgs[d[k].n] = u
    BY <1>2, <1>4, <1>8, <2>1, <2>3, <2>4, AllAnswered
  <2>6. ASSUME NEW u \in Uid, u >= arg PROVE FreshThen(g, u, Len(net') + 1)
    <3>1. Len(d) + 1 \in 1..(Len(d) + 1) /\ Len(net) + (Len(d) + 1) = Len(net') + 1
      BY <1>5
    <3>2. SUFFICES ASSUME Has(g[Len(net') + 1], u)
                   PROVE  \E i \in 1..Len(net') : /\ i < Len(net') + 1 /\ net'[i].t = "FETCH"
                                                  /\ g[i].msgs[net'[i].n] = u
      BY DEF FreshThen, Fresh
    <3>3. Has(srv, u)
      BY <1>6, <3>1, <3>2
    <3>4. PICK j \in 1..Len(d) : d[j].t = "FETCH" /\ srv.msgs[d[j].n] = u
      BY <2>5, <2>6, <3>3
    <3>5. PICK i : i = Len(net) + j
      OBVIOUS
    <3>6. i \in 1..Len(net') /\ i < Len(net') + 1 /\ j \in 1..(Len(d) + 1)
      BY <1>5, <3>5
    <3>7. net'[i] = d[j] /\ g[i] = srv
      BY <1>5, <1>6, <3>5, <3>6
    <3> QED
      BY <3>4, <3>6, <3>7
  <2>7. ASSUME NEW i \in FlagsOpen(cmds) PROVE KeptFlags(g, i)
    <3>1. CASE i = 1
      <4>1. \A u \in Uid : arg <= u => FreshThen(g, u, Len(net') + 1)
        BY <2>1, <2>6 DEF Uid
      <4> QED
        BY <1>1, <2>2, <3>1, <4>1 DEF KeptFlags
    <3>2. CASE i # 1
      BY <1>1, <3>2 DEF KeptFlags
    <3> QED
      BY <3>1, <3>2
  <2> QED
    BY <1>3, <2>7, SentFlagsPromised
<1> QED
  BY <1>7, <1>8

\* ... and the tagged line comes after them.
LEMMA SendTaggedKeepsFlags ==
    ASSUME Reliable, TypeOK, TypeOK', NEW hs, FollowsServer(hs), NEW g, GoesOnAs(hs, g),
           FlagsPromised(hs), SendTagged
    PROVE  FlagsPromised(g)'
<1>1. /\ cmds # <<>> /\ answered /\ net' = Append(net, Tagged("OK")) /\ cmds' = Tail(cmds)
      /\ answered' = FALSE /\ mb' = mb
  BY DEF SendTagged, Reliable
<1>2. PICK r : r = Tagged("OK")
  OBVIOUS
<1>3. net \in Seq(Response) /\ net' \in Seq(Response) /\ cmds \in Seq(Commands)
  BY DEF TypeOK
<1>4. r \in Response
  <2>1. net' # <<>> /\ Len(net') \in Nat /\ Len(net') >= 1 /\ net'[Len(net')] = r
    BY <1>1, <1>2, <1>3
  <2> QED
    BY <1>3, <2>1, ElementOfSeq
<1>5. /\ <<r>> \in Seq(Response) /\ Len(<<r>>) = 1 /\ <<r>>[1] = r
      /\ Append(net, r) = net \o <<r>>
  BY <1>3, <1>4, OneElement, AppendIsConcat
<1>6. PICK d \in Seq(Response) : d = <<r>>
  BY <1>5
<1>7. Len(d) = 1 /\ d[1] = r /\ Sent(hs, g, d)
  BY <1>1, <1>2, <1>5, <1>6 DEF Sent
<1>8. r.t = "OK" /\ r.cmd = cmds[1].t
  <2>1. Head(cmds) = cmds[1]
    BY <1>1, <1>3, TailElements
  <2> QED
    BY <1>2, <2>1 DEF Tagged
<1>9. /\ Len(cmds) \in Nat /\ Len(cmds') = Len(cmds) - 1
      /\ \A i \in 1..(Len(cmds) - 1) : cmds'[i] = cmds[i + 1]
  BY <1>1, <1>3, TailElements
<1>12. ASSUME NEW i \in FlagsOpen(cmds) PROVE KeptFlags(g, i)
  <2>1. i \in 1..Len(cmds) /\ cmds[i].t \in AsksFlags
    BY DEF FlagsOpen
  <2>2. CASE i = 1
    <3>1. /\ Len(net) \in Nat /\ Len(net') = Len(net) + 1 /\ net'[Len(net) + 1] = r
      BY <1>3, <1>1, <1>2
    <3>2. Len(net) + 1 \in FlagLines(net')
      BY <1>8, <2>1, <2>2, <3>1 DEF FlagLines
    <3> QED
      BY <1>1, <2>2, <3>2 DEF KeptFlags
  <2>3. CASE i # 1
    <3>1. i - 1 \in 1..Len(cmds') /\ cmds'[i - 1] = cmds[i]
      BY <1>9, <2>1, <2>3
    <3>2. i - 1 \in FlagsOpen(cmds')
      BY <2>1, <3>1 DEF FlagsOpen
    <3> QED
      BY <1>1, <2>3, <3>1, <3>2 DEF KeptFlags
  <2> QED
    BY <2>2, <2>3
<1> QED
  BY <1>7, <1>12, SentFlagsPromised

\* Whatever the server does.
LEMMA ServerKeepsFlags ==
    ASSUME Reliable, TypeOK, TypeOK', NEW hs, FollowsServer(hs), NEW g, FollowsServer(g)',
           Continues(hs, g), task.status \in UidsAreKnown, AllFlagged, FlagsPromised(hs),
           ServerChange \/ Recreate \/ SendData \/ SendTagged \/ UNCHANGED vars
    PROVE  FlagsPromised(g)'
<1>1. up /\ net \in Seq(Response) /\ net' \in Seq(Response)
  <2>1. Connected
    BY DEF FollowsServer, Stream
  <2> QED
    BY <2>1 DEF Connected, UidsAreKnown, TypeOK
<1>2. UNCHANGED <<up, mb>> /\ \E d \in Seq(Response) : net' = net \o d
  <2>1. CASE ServerChange \/ Recreate
    BY <2>1, ChangeIs DEF Reliable
  <2>2. CASE SendData
    <3>1. \E d \in Seq(Response), order \in Seq(1..Len(srv.msgs)) :
              net' = net \o d /\ Answer(Head(cmds), order, d)
      BY <2>2, AnswerIs DEF Reliable
    <3> QED
      BY <2>2, <3>1 DEF SendData
  <2>3. CASE SendTagged
    <3>1. PICK r : net' = Append(net, r)
      BY <2>3 DEF SendTagged
    <3>2. net' # <<>> /\ Len(net') \in Nat /\ Len(net') >= 1 /\ net'[Len(net')] = r
      BY <1>1, <3>1
    <3>3. r \in Response
      BY <1>1, <3>2, ElementOfSeq
    <3>4. <<r>> \in Seq(Response) /\ Append(net, r) = net \o <<r>>
      BY <1>1, <3>3, OneElement, AppendIsConcat
    <3> QED
      BY <2>3, <3>1, <3>4 DEF SendTagged
  <2>4. CASE UNCHANGED vars
    <3>1. <<>> \in Seq(Response) /\ net \o <<>> = net
      BY <1>1, EmptySeq, ConcatEmptySeq
    <3> QED
      BY <2>4, <3>1 DEF vars
  <2> QED
    BY <2>1, <2>2, <2>3, <2>4
<1>3. PICK d \in Seq(Response) : net' = net \o d
  BY <1>2
<1>4. ~(net # <<>> /\ net' = Tail(net))
  <2>1. Len(net') = Len(net) + Len(d) /\ Len(net) \in Nat /\ Len(d) \in Nat
    BY <1>1, <1>3, ConcatProperties, LenProperties
  <2>2. net # <<>> => Len(Tail(net)) = Len(net) - 1
    BY <1>1, TailElements
  <2> QED
    BY <2>1, <2>2
<1>5. GoesOnAs(hs, g)
  BY <1>1, <1>2, <1>4 DEF Continues, GoesOnAs
<1>6. CASE UNCHANGED vars
  <2>1. PICK e \in Seq(Response) : e = <<>> /\ net \o e = net /\ Len(e) = 0
    BY <1>1, EmptySeq, ConcatEmptySeq
  <2>2. UNCHANGED <<cmds, answered>> /\ Sent(hs, g, e)
    BY <1>5, <1>6, <2>1 DEF Sent, vars
  <2> QED
    BY <2>2, AnnouncedKeepsFlags
<1> QED
  BY <1>5, <1>6, ChangeKeepsFlags, SendDataKeepsFlags, SendTaggedKeepsFlags

----------------------------------------------------------------------------
(* What a response does to the flags in the list when the UIDs are known. *)

\* The flags that are right stay right, and those that a FETCH tells are noted.
KeepsFlags(hs) ==
    \A u \in Uid : FlagRight(mb.list, hs[1], u) /\ Has(hs[2], u) => FlagRight(mb'.list, hs[2], u)
TellsFlags(hs) ==
    Head(net).t = "FETCH" => FlagRight(mb'.list, hs[2], hs[1].msgs[Head(net).n])

\* The new messages that EXISTS tells of come after those that are there.
LEMMA ExistsKeepsFlags ==
    ASSUME TypeOK, NEW hs, FollowsServer(hs), task.status \in UidsAreKnown,
           task'.status # "OFF", ObtainExists \/ KeepExists
    PROVE  KeepsFlags(hs) /\ TellsFlags(hs)
<1>1. net # <<>> /\ Head(net).t = "EXISTS" /\ ~\E e : Throw(e)
  BY DEF ObtainExists, KeepExists, Next1, Throw, Disconnected, NoTask
<1>2. PICK w : w = HandleExists(mb, Head(net).n)
  OBVIOUS
<1>3. PICK x : x = UpdateHighestKnownUid(w)
  OBVIOUS
<1>4. /\ Handled
      /\ mb' = mb \/ (~ExistsThrows(mb, Head(net).n) /\ (mb' = w \/ mb' = x))
  <2>1. CASE KeepExists
    BY <1>1, <1>2, <1>3, <2>1 DEF KeepExists, Resp, Update, AskForArrivals
  <2>2. CASE ObtainExists
    <3>1. task.status \notin {"SELECTING", "SYNCING_UIDS"}
      BY DEF UidsAreKnown
    <3> QED
      BY <1>1, <1>2, <1>3, <2>2, <3>1 DEF ObtainExists, Resp, Update, AskForArrivals
  <2> QED
    BY <2>1, <2>2
<1>5. /\ mb \in Mailbox /\ mb.list \in Seq(Message) /\ Sane(hs[1])
      /\ Len(mb.list) = Len(hs[1].msgs) /\ Len(mb.list) \in Nat
  BY InSync DEF Synced, Reflects
<1>6. PICK n \in Nat : n = Head(net).n
  BY <1>1, <1>4, ExistsTells
<1>7. /\ Len(mb'.list) \in Nat /\ Len(mb'.list) >= Len(mb.list)
      /\ \A j \in 1..Len(mb.list) : mb'.list[j] = mb.list[j]
  <2>1. CASE mb' = mb
    BY <1>5, <2>1
  <2>2. CASE ~ExistsThrows(mb, n) /\ (mb' = w \/ mb' = x)
    <3>1. w \in Mailbox
      BY <1>2, <1>5, <1>6, <2>2, HandleExistsType
    <3>2. mb'.list = w.list
      BY <1>3, <2>2, <3>1, UpdateHighestKnownUidType
    <3>3. PICK k \in Nat : k = n - Len(mb.list)
      BY <1>5, <1>6, <2>2 DEF ExistsThrows
    <3>4. Unknown(k) \in Seq(Message)
      BY <3>3, UnknownType
    <3>5. w.list = mb.list \o Unknown(k)
      BY <1>2, <1>5, <1>6, <3>3 DEF HandleExists, Mailbox
    <3> QED
      BY <1>5, <3>2, <3>4, <3>5, ConcatProperties, LenProperties
  <2> QED
    BY <1>4, <1>6, <2>1, <2>2
<1>8. /\ \A j \in 1..Len(hs[1].msgs) : hs[2].msgs[j] = hs[1].msgs[j]
      /\ \A u \in Uid : u < hs[1].next => hs[2].flag[u] = hs[1].flag[u]
  <2>1. hs[2] = hs[1] \/ Grown(hs[1], hs[2])
    BY <1>1, <1>4, ExistsTells
  <2>2. CASE Grown(hs[1], hs[2])
    <3>1. Sane(hs[2])
      BY <1>1, <1>4, ExistsTells
    <3>2. hs[1].next \in Nat
      BY <1>5, SaneFields
    <3>3. \A u \in Uid : u < hs[1].next => u # hs[1].next
      BY <3>2 DEF Uid
    <3> QED
      BY <1>5, <2>2, <3>1, <3>3, GrownKeeps DEF Grown, OthersKeepFlags
  <2> QED
    BY <2>1, <2>2
<1>9. ASSUME NEW u \in Uid, FlagRight(mb.list, hs[1], u) PROVE FlagRight(mb'.list, hs[2], u)
  <2>1. PICK p \in 1..Len(mb.list) : hs[1].msgs[p] = u /\ mb.list[p].fl = hs[1].flag[u]
    BY <1>9 DEF FlagRight
  <2>2. u < hs[1].next
    BY <1>5, <2>1 DEF Sane
  <2>3. p \in 1..Len(mb'.list) /\ mb'.list[p] = mb.list[p]
    BY <1>7
  <2>4. hs[2].msgs[p] = u /\ hs[2].flag[u] = hs[1].flag[u]
    BY <1>5, <1>8, <2>1, <2>2
  <2> QED
    BY <2>1, <2>3, <2>4 DEF FlagRight
<1> QED
  BY <1>1, <1>9 DEF KeepsFlags, TellsFlags

\* EXPUNGE takes the same one from both.
LEMMA RemovedKeepsFlags ==
    ASSUME TypeOK, NEW hs, FollowsServer(hs), net # <<>>, Handled, Head(net).t = "EXPUNGE",
           task.status \in UidsAreKnown, mb'.list = RemoveAt(mb.list, Head(net).n)
    PROVE  KeepsFlags(hs) /\ TellsFlags(hs)
<1>1. PICK n : n = Head(net).n
  OBVIOUS
<1>2. /\ n \in 1..Len(hs[1].msgs) /\ hs[2].msgs = RemoveAt(hs[1].msgs, n)
      /\ Tells(Head(net), hs[1], hs[2]) /\ Sane(hs[1]) /\ Sane(hs[2])
  BY <1>1, ExpungeTells, Remaining
<1>3. hs[2].flag = hs[1].flag
  BY <1>2 DEF Tells
<1>4. PICK k \in Nat : k = Len(mb.list) /\ k = Len(hs[1].msgs)
  BY InSync DEF Synced, Reflects
<1>5. /\ Len(mb'.list) = k - 1
      /\ \A j \in 1..(k - 1) : mb'.list[j] = IF j < n THEN mb.list[j] ELSE mb.list[j + 1]
  <2>1. mb.list \in Seq(Message) /\ n \in 1..Len(mb.list)
    BY <1>2, <1>4, InSync
  <2>2. /\ Len(RemoveAt(mb.list, n)) = Len(mb.list) - 1
        /\ \A j \in 1..(Len(mb.list) - 1) :
              RemoveAt(mb.list, n)[j] = IF j < n THEN mb.list[j] ELSE mb.list[j + 1]
    BY <2>1, RemoveAtElements
  <2>3. mb'.list = RemoveAt(mb.list, n) /\ Len(mb.list) = k
    BY <1>1, <1>4
  <2> QED
    BY <2>2, <2>3
<1>6. /\ Len(hs[2].msgs) = k - 1
      /\ \A j \in 1..(k - 1) : hs[2].msgs[j] = IF j < n THEN hs[1].msgs[j] ELSE hs[1].msgs[j + 1]
  <2>1. hs[1].msgs \in Seq(Uid) /\ n \in 1..Len(hs[1].msgs)
    BY <1>2, SaneFields
  <2>2. /\ Len(RemoveAt(hs[1].msgs, n)) = Len(hs[1].msgs) - 1
        /\ \A j \in 1..(Len(hs[1].msgs) - 1) :
              RemoveAt(hs[1].msgs, n)[j] = IF j < n THEN hs[1].msgs[j] ELSE hs[1].msgs[j + 1]
    BY <2>1, RemoveAtElements
  <2> QED
    BY <1>2, <1>4, <2>2
<1>7. \A i, j \in 1..k : hs[1].msgs[i] = hs[1].msgs[j] => i = j
  <2>1. \A i, j \in 1..k : i < j => hs[1].msgs[i] < hs[1].msgs[j]
    BY <1>2, <1>4 DEF Sane
  <2>2. \A i \in 1..k : hs[1].msgs[i] \in Nat
    BY <1>2, <1>4, SaneFields
  <2>3. SUFFICES ASSUME NEW i \in 1..k, NEW j \in 1..k, hs[1].msgs[i] = hs[1].msgs[j], i < j
                 PROVE  FALSE
    BY <1>4
  <2> QED
    BY <2>1, <2>2, <2>3
<1>8. ASSUME NEW u \in Uid, FlagRight(mb.list, hs[1], u), Has(hs[2], u)
      PROVE  FlagRight(mb'.list, hs[2], u)
  <2>1. PICK p \in 1..k : hs[1].msgs[p] = u /\ mb.list[p].fl = hs[1].flag[u]
    BY <1>4, <1>8 DEF FlagRight
  <2>2. PICK j \in 1..(k - 1) : hs[2].msgs[j] = u
    BY <1>6, <1>8 DEF Has
  <2>3. PICK q \in 1..k : q = IF j < n THEN j ELSE j + 1
    BY <1>2, <1>4
  <2>4. hs[1].msgs[q] = u /\ mb'.list[j] = mb.list[q]
    BY <1>5, <1>6, <2>2, <2>3
  <2>5. q = p
    BY <1>7, <2>1, <2>4
  <2> QED
    BY <1>3, <1>5, <2>1, <2>2, <2>4, <2>5 DEF FlagRight
<1> QED
  BY <1>8 DEF KeepsFlags, TellsFlags

\* EXPUNGE: the flags of the other messages move up with them.
LEMMA ExpungeKeepsFlags ==
    ASSUME TypeOK, NEW hs, FollowsServer(hs), task.status \in UidsAreKnown,
           task'.status # "OFF", ObtainExpunge \/ KeepExpunge
    PROVE  KeepsFlags(hs) /\ TellsFlags(hs)
<1>1. /\ net # <<>> /\ Head(net).t = "EXPUNGE" /\ mb \in Mailbox /\ Head(net) \in Response
      /\ ~\E e : Throw(e)
  BY HeadType DEF ObtainExpunge, KeepExpunge, Next1, TypeOK, Resp, Throw, Disconnected, NoTask
<1>2. PICK n : n = Head(net).n
  OBVIOUS
<1>3. n \in Nat
  BY <1>1, <1>2, ResponseFields
<1>4. CASE KeepExpunge
  <2>1. PICK x : x = HandleExpunge(mb, n)
    OBVIOUS
  <2>2. PICK m : m = [x EXCEPT !.sync.exists = @ - 1]
    OBVIOUS
  <2>3. ~ExpungeThrows(mb, n) /\ Handled /\ Update(SaveSyncStateNowOrLater(m))
    BY <1>1, <1>2, <1>4, <2>1, <2>2 DEF KeepExpunge, Resp
  <2>4. x \in Mailbox /\ x.list = RemoveAt(mb.list, n)
    BY <1>1, <1>3, <2>1, <2>3, HandleExpungeType, HandleExpungeDoes
  <2>5. m.list = x.list
    BY <2>2, <2>4 DEF Mailbox
  <2>6. m \in [list: Seq(Message), st: FetchStatus, sync: [exists: Int, uidNext: Nat, uidVal: Nat, modSeq: Nat], disk: Disk]
    BY <2>2, <2>4 DEF Mailbox, SyncState
  <2>7. SaveSyncStateNowOrLater(m).list = m.list
    BY <2>6 DEF SaveSyncStateNowOrLater, SaveSyncStateAndUids
  <2>8. mb'.list = RemoveAt(mb.list, n)
    BY <2>3, <2>4, <2>5, <2>7 DEF Update
  <2> QED
    BY <1>1, <1>2, <2>3, <2>8, RemovedKeepsFlags
<1>5. CASE ObtainExpunge
  <2>1. PICK m : m = [mb EXCEPT !.sync.exists = OneLess(@)]
    OBVIOUS
  <2>2. m.list = mb.list /\ m \in Mailbox
    <3>1. OneLess(mb.sync.exists) \in Nat
      BY <1>1, MailboxFields DEF OneLess
    <3>2. m.list = mb.list
      BY <1>1, <2>1 DEF Mailbox
    <3>3. m \in Mailbox
      BY <1>1, <2>1, <3>1 DEF Mailbox, SyncState
    <3> QED
      BY <3>2, <3>3
  <2>3. IsKnown(n) /\ task.status # "KEEP"
    BY <1>5 DEF ObtainExpunge, IsKnown, UidsAreKnown, Syncing
  <2>4. ~ExpungeThrows(mb, n) /\ Handled
    BY <1>1, <1>2, <1>5, <2>3 DEF ObtainExpunge, Resp
  <2>5. mb' = CASE ~IsKnown(n) -> m
                [] task.status = "DONE" -> SaveSyncStateAndUids(HandleExpunge(m, n))
                [] OTHER -> HandleExpunge(m, n)
    BY <1>2, <1>5, <2>1, <2>4 DEF ObtainExpunge, Resp
  <2>6. PICK x : x = HandleExpunge(m, n)
    OBVIOUS
  <2>7. mb' = x \/ mb' = SaveSyncStateAndUids(x)
    BY <2>3, <2>5, <2>6
  <2>8. x \in Mailbox /\ x.list = RemoveAt(mb.list, n)
    <3>1. ~ExpungeThrows(m, n)
      BY <2>2, <2>4 DEF ExpungeThrows
    <3> QED
      BY <1>3, <2>2, <2>6, <3>1, HandleExpungeType, HandleExpungeDoes
  <2>9. mb'.list = RemoveAt(mb.list, n)
    BY <2>7, <2>8, SaveType
  <2> QED
    BY <1>1, <1>2, <2>4, <2>9, RemovedKeepsFlags
<1> QED
  BY <1>4, <1>5

\* FETCH brings the flags of one message, as they are then.
LEMMA FetchKeepsFlags ==
    ASSUME TypeOK, NEW hs, FollowsServer(hs), task.status \in UidsAreKnown,
           task'.status # "OFF", HandleFetch
    PROVE  KeepsFlags(hs) /\ TellsFlags(hs)
<1>1. PICK r : r = Head(net)
  OBVIOUS
<1>2. net # <<>> /\ r.t = "FETCH" /\ r \in Response /\ ~\E e : Throw(e)
  BY <1>1, HeadType DEF HandleFetch, Next1, TypeOK, Resp, Throw, Disconnected, NoTask
<1>3. r \in [t: {"FETCH"}, n: Nat, uid: 0..MaxUid, fl: Nat, mod: Nat]
  BY <1>2, ResponseFields
<1>4. PICK m : m = HandleFetchResponse(mb, r)
  OBVIOUS
<1>5. /\ ~FetchThrows(mb, r) /\ Handled
      /\ Update(IF /\ task.status \in Syncing /\ MessageChanged(mb, r)
                   /\ m.sync.uidNext <= m.list[r.n].uid
                THEN [m EXCEPT !.sync.uidNext = m.list[r.n].uid + 1] ELSE m)
  BY <1>1, <1>2, <1>4 DEF HandleFetch, Resp
<1>6. mb \in Mailbox /\ mb.list \in Seq(Message)
  BY InSync
<1>7. m \in Mailbox /\ Len(m.list) = Len(mb.list)
  BY <1>3, <1>4, <1>5, <1>6, HandleFetchResponseType
<1>8. mb'.list = m.list
  <2>1. PICK next : next = m.list[r.n].uid + 1
    OBVIOUS
  <2>2. [m EXCEPT !.sync.uidNext = next].list = m.list
    BY <1>7 DEF Mailbox
  <2> QED
    BY <1>5, <2>1, <2>2 DEF Update
<1>9. PICK uid : m.list = [mb.list EXCEPT ![r.n] = [uid |-> uid, fl |-> r.fl]]
  BY <1>4, <1>6 DEF HandleFetchResponse, Mailbox
<1>10. PICK k \in Nat : k = Len(mb.list) /\ k = Len(hs[1].msgs)
  BY InSync DEF Synced, Reflects
<1>11. r.n \in 1..k /\ Len(mb'.list) = k
  BY <1>5, <1>7, <1>8, <1>10 DEF FetchThrows
<1>12. /\ mb'.list[r.n].fl = r.fl
       /\ \A j \in 1..k : j # r.n => mb'.list[j] = mb.list[j]
  <2>1. \A j \in 1..k : j \in DOMAIN mb.list
    BY <1>6, <1>10, LenProperties
  <2> QED
    BY <1>8, <1>9, <1>11, <2>1
<1>13. /\ hs[2].msgs = hs[1].msgs /\ r.fl = hs[2].flag[hs[1].msgs[r.n]]
       /\ OthersKeepFlags(hs[1], hs[2], hs[1].msgs[r.n])
  <2>1. Tells(r, hs[1], hs[2])
    BY <1>1, <1>2, <1>5, Remaining
  <2> QED
    BY <1>2, <2>1 DEF Tells
<1>14. FlagRight(mb'.list, hs[2], hs[1].msgs[r.n])
  BY <1>11, <1>12, <1>13 DEF FlagRight
<1>15. ASSUME NEW u \in Uid, FlagRight(mb.list, hs[1], u) PROVE FlagRight(mb'.list, hs[2], u)
  <2>1. PICK p \in 1..k : hs[1].msgs[p] = u /\ mb.list[p].fl = hs[1].flag[u]
    BY <1>10, <1>15 DEF FlagRight
  <2>2. CASE u = hs[1].msgs[r.n]
    BY <1>14, <2>2
  <2>3. CASE u # hs[1].msgs[r.n]
    <3>1. p # r.n
      BY <2>1, <2>3
    <3>2. hs[2].flag[u] = hs[1].flag[u]
      BY <1>13, <2>3 DEF OthersKeepFlags
    <3> QED
      BY <1>11, <1>12, <1>13, <2>1, <3>1, <3>2 DEF FlagRight
  <2> QED
    BY <2>2, <2>3
<1> QED
  BY <1>1, <1>14, <1>15 DEF KeepsFlags, TellsFlags

\* The tagged lines change neither.
LEMMA LineKeepsFlags ==
    ASSUME Plain, TypeOK, NEW hs, FollowsServer(hs), task.status \in UidsAreKnown,
           task'.status # "OFF", SearchOk \/ FlagsOk \/ ObtainArrivalsOk \/ KeepArrivalsFinished
    PROVE  KeepsFlags(hs) /\ TellsFlags(hs)
<1>1. net # <<>> /\ Head(net).t \in {"OK", "NO"} /\ ~Abort
  BY DEF SearchOk, FlagsOk, ObtainArrivalsOk, KeepArrivalsFinished, Ok, Next1, Resp, Abort, Stop,
         Disconnected, NoTask
<1>2. mb \in Mailbox /\ task \in Task
  BY DEF TypeOK
<1>3. SaveSyncStateAndUids(mb).list = mb.list
  BY <1>2, SaveType
<1>4. Handled /\ (mb' = mb \/ mb' = SaveSyncStateAndUids(mb))
  <2>1. CASE SearchOk
    <3>1. Handled /\ SyncFlags(mb, task)
      BY <1>1, <2>1 DEF SearchOk
    <3> QED
      BY <1>2, <3>1, SyncFlagsPlain
  <2>2. CASE FlagsOk
    BY <1>1, <2>2 DEF FlagsOk, Complete
  <2>3. CASE ObtainArrivalsOk
    BY <2>3 DEF ObtainArrivalsOk, Complete
  <2>4. CASE KeepArrivalsFinished
    BY <2>4 DEF KeepArrivalsFinished
  <2> QED
    BY <2>1, <2>2, <2>3, <2>4
<1>5. mb'.list = mb.list
  BY <1>3, <1>4
<1>6. hs[2] = hs[1]
  <2>1. Tells(Head(net), hs[1], hs[2])
    BY <1>1, <1>4, Remaining
  <2> QED
    BY <1>1, <2>1 DEF Tells
<1> QED
  BY <1>1, <1>5, <1>6 DEF KeepsFlags, TellsFlags

\* Whose flags would be right before the next response, its flags are so now.
LEMMA TookFresh ==
    ASSUME TypeOK, NEW hs, FollowsServer(hs), NEW g, Took(hs, g), task.status \in UidsAreKnown,
           KeepsFlags(hs), TellsFlags(hs),
           NEW u \in Uid, NEW k \in 1..Len(net), NEW next, next = k + 1, FreshNow(hs, u, next)
    PROVE  FreshThen(g, u, k)
<1>1. /\ Len(net) \in Nat /\ Len(net) >= 1 /\ Head(net) = net[1] /\ Len(net') = Len(net) - 1
      /\ \A i \in 1..Len(net') : net'[i] = net[i + 1]
      /\ History(hs, net, srv) /\ g[k] = hs[next] /\ Len(hs) = Len(net) + 1 /\ g[1] = hs[2]
      /\ \A i \in 1..Len(net) : g[i] = hs[i + 1]
      /\ hs[1].next \in Nat /\ hs[2].next \in Nat /\ hs[1].next <= hs[2].next /\ Sane(hs[1])
  BY TookStates
<1>2. SUFFICES ASSUME Has(hs[next], u)
               PROVE  \/ FlagRight(mb'.list, hs[2], u)
                      \/ \E i \in 1..Len(net') : /\ i < k /\ net'[i].t = "FETCH"
                                                 /\ g[i].msgs[net'[i].n] = u
  BY <1>1 DEF FreshThen, Fresh
<1>3. CASE FlagRight(mb.list, hs[1], u)
  <2>1. Len(mb.list) = Len(hs[1].msgs)
    BY InSync DEF Synced, Reflects
  <2>2. u < hs[2].next
    <3>1. PICK p \in 1..Len(hs[1].msgs) : hs[1].msgs[p] = u
      BY <1>3, <2>1 DEF FlagRight
    <3>2. u < hs[1].next
      BY <1>1, <3>1 DEF Sane
    <3> QED
      BY <1>1, <3>2 DEF Uid
  <2>3. Has(hs[2], u)
    <3>1. CASE next = 2
      BY <1>2, <3>1
    <3>2. CASE next # 2
      <4>1. 2 \in 1..Len(hs) /\ next \in 1..Len(hs) /\ 2 < next
        BY <1>1, <3>2
      <4>2. Later(hs[2], hs[next])
        BY <1>1, <4>1 DEF History
      <4> QED
        BY <1>2, <2>2, <4>2 DEF Later, NoneReturns
    <3> QED
      BY <3>1, <3>2
  <2> QED
    BY <1>3, <2>3 DEF KeepsFlags
<1>4. CASE ~FlagRight(mb.list, hs[1], u)
  <2>1. PICK i \in 1..Len(net) : i < next /\ net[i].t = "FETCH" /\ hs[i].msgs[net[i].n] = u
    BY <1>2, <1>4 DEF FreshNow, Fresh
  <2>2. CASE i = 1
    BY <1>1, <2>1, <2>2 DEF TellsFlags
  <2>3. CASE i # 1
    <3>1. PICK j \in Nat : j = i - 1
      BY <2>1
    <3>2. j \in 1..Len(net') /\ j \in 1..Len(net) /\ j < k /\ i = j + 1
      BY <1>1, <2>1, <2>3, <3>1
    <3>3. net'[j] = net[i] /\ g[j] = hs[i]
      BY <1>1, <3>2
    <3> QED
      BY <2>1, <3>2, <3>3
  <2> QED
    BY <2>2, <2>3
<1> QED
  BY <1>3, <1>4

\* What was asked is still being asked; so are the flags, with the UIDs, of what is new.
LEMMA AskedFlags ==
    ASSUME TypeOK, Asks \/ AsksNone
    PROVE  /\ cmds \in Seq(Commands) /\ Len(cmds) \in Nat
           /\ \A i \in FlagsOpen(cmds) : i \in FlagsOpen(cmds') /\ cmds'[i] = cmds[i]
           /\ Asks => \E i \in FlagsOpen(cmds') :
                         i = Len(cmds) + 1 /\ cmds'[i].arg = mb'.sync.uidNext
<1>1. cmds \in Seq(Commands) /\ Len(cmds) \in Nat
  BY DEF TypeOK
<1>2. ASSUME NEW c \in Commands, cmds' = Append(cmds, c)
      PROVE  \A i \in FlagsOpen(cmds) : i \in FlagsOpen(cmds') /\ cmds'[i] = cmds[i]
  <2>1. /\ Len(cmds') = Len(cmds) + 1
        /\ \A i \in 1..Len(cmds) : cmds'[i] = cmds[i] /\ i \in 1..Len(cmds')
    BY <1>1, <1>2, AppendElements
  <2> QED
    BY <2>1 DEF FlagsOpen
<1>3. \A i \in FlagsOpen(cmds) : i \in FlagsOpen(cmds') /\ cmds'[i] = cmds[i]
  <2>1. CASE cmds' = cmds
    BY <2>1
  <2>2. CASE \E c \in Commands : cmds' = Append(cmds, c)
    BY <1>2, <2>2
  <2> QED
    BY <2>1, <2>2 DEF Asks, AsksNone
<1>4. ASSUME Asks
      PROVE  \E i \in FlagsOpen(cmds') : i = Len(cmds) + 1 /\ cmds'[i].arg = mb'.sync.uidNext
  <2>1. PICK i \in OpenOf(cmds', "ARRIVALS") : i = Len(cmds) + 1 /\ cmds'[i].arg = mb'.sync.uidNext
    BY <1>4, AskedOpen
  <2>2. i \in FlagsOpen(cmds')
    BY DEF OpenOf, FlagsOpen, AsksFlags
  <2> QED
    BY <2>1, <2>2
<1> QED
  BY <1>1, <1>3, <1>4

\* Every message's flags are right, or are asked for still.
LEMMA TookFlagsPromised ==
    ASSUME TypeOK, NEW hs, FollowsServer(hs), NEW g, Took(hs, g), KnownStep(hs), FlagsPromised(hs),
           task.status \in UidsAreKnown, KeepsFlags(hs), TellsFlags(hs)
    PROVE  FlagsPromised(g)'
<1>1. /\ net \in Seq(Response) /\ Len(net) \in Nat /\ Len(net) >= 1 /\ Head(net) = net[1]
      /\ Len(net') = Len(net) - 1
      /\ \A i \in 1..Len(net') : net'[i] = net[i + 1]
      /\ Len(hs) = Len(net) + 1 /\ History(hs, net, srv) /\ answered' = answered
      /\ hs[1].next \in Nat /\ hs[2].next \in Nat
      /\ Later(hs[1], hs[2]) /\ Sane(hs[1]) /\ Sane(hs[2]) /\ g[1] = hs[2] /\ Stream(hs)
  BY TookStates
<1>2. Asks \/ AsksNone
  BY DEF KnownStep
<1>3. SUFFICES ASSUME NEW u \in Uid, Has(hs[2], u)
               PROVE  \/ FreshThen(g, u, 1)
                      \/ \E k \in FlagLines(net') : FreshThen(g, u, k)
                      \/ \E i \in FlagsOpen(cmds') :
                            IF i = 1 /\ answered' THEN FreshThen(g, u, Len(net') + 1)
                            ELSE cmds'[i].arg <= u
  BY <1>1 DEF FlagsPromised, FlagPromised, FreshNow, FreshThen
<1>4. PICK one \in 1..Len(net) : one = 1
  BY <1>1
<1>5. CASE Has(hs[1], u)
  <2>1. u < hs[1].next
    BY <1>1, <1>5 DEF Has, Sane
  <2>2. ASSUME FreshNow(hs, u, 1) PROVE FreshThen(g, u, 1)
    <3>1. PICK i \in 1..Len(hs) : i = 1
      BY <1>1
    <3>2. PICK next \in 1..Len(hs) : next = one + 1
      BY <1>1, <1>4
    <3>3. i <= next /\ u < hs[i].next /\ Fresh(mb.list, net, hs, u, i)
      BY <1>4, <2>1, <2>2, <3>1, <3>2 DEF FreshNow
    <3>4. Fresh(mb.list, net, hs, u, next)
      BY <1>1, <3>3, FreshLater
    <3>5. FreshNow(hs, u, next)
      BY <3>4 DEF FreshNow
    <3> QED
      BY <1>2, <1>4, <3>2, <3>5, TookFresh
  <2>3. ASSUME NEW k \in FlagLines(net), FreshNow(hs, u, k)
        PROVE  FreshThen(g, u, 1) \/ \E l \in FlagLines(net') : FreshThen(g, u, l)
    <3>1. k \in 1..Len(net)
      BY DEF FlagLines
    <3>2. CASE k = 1
      BY <2>2, <2>3, <3>2
    <3>3. CASE k # 1
      <4>1. PICK l \in Nat : l = k - 1
        BY <3>1
      <4>2. l \in 1..Len(net') /\ l \in 1..Len(net) /\ k = l + 1
        BY <1>1, <3>1, <3>3, <4>1
      <4>3. net'[l] = net[k]
        BY <1>1, <4>2
      <4>4. l \in FlagLines(net')
        BY <4>2, <4>3 DEF FlagLines
      <4>5. FreshThen(g, u, l)
        BY <1>2, <2>3, <4>2, TookFresh
      <4> QED
        BY <4>4, <4>5
    <3> QED
      BY <3>2, <3>3
  <2>4. ASSUME NEW i \in FlagsOpen(cmds),
               IF i = 1 /\ answered THEN FreshNow(hs, u, Len(net) + 1) ELSE cmds[i].arg <= u
        PROVE  \E j \in FlagsOpen(cmds') :
                  IF j = 1 /\ answered' THEN FreshThen(g, u, Len(net') + 1) ELSE cmds'[j].arg <= u
    <3>1. i \in FlagsOpen(cmds') /\ cmds'[i] = cmds[i]
      BY <1>2, AskedFlags
    <3>2. ASSUME i = 1 /\ answered PROVE FreshThen(g, u, Len(net') + 1)
      <4>1. PICK last \in 1..Len(net) : last = Len(net)
        BY <1>1
      <4>2. PICK over : over = last + 1
        OBVIOUS
      <4>3. FreshNow(hs, u, over)
        BY <2>4, <3>2, <4>1, <4>2
      <4>4. FreshThen(g, u, last)
        BY <1>2, <4>2, <4>3, TookFresh
      <4> QED
        BY <1>1, <4>1, <4>4
    <3> QED
      BY <1>1, <2>4, <3>1, <3>2
  <2>5. FreshNow(hs, u, 1) \/ FlagPromised(hs, u)
    BY <1>5 DEF FlagsPromised
  <2> QED
    BY <2>2, <2>3, <2>4, <2>5 DEF FlagPromised
<1>6. CASE ~Has(hs[1], u)
  <2>1. hs[1].next <= u
    BY <1>1, <1>3, <1>6 DEF Later, NoneReturns, Uid
  <2>2. u < hs[2].next
    BY <1>1, <1>3 DEF Has, Sane
  <2>3. Asks /\ ~TellsUid
    BY <1>1, <2>1, <2>2 DEF KnownStep, Uid
  <2>4. mb'.sync.uidNext <= u
    BY <1>1, <2>1, <2>3 DEF KnownStep, Uid
  <2>5. PICK i \in FlagsOpen(cmds') : i = Len(cmds) + 1 /\ cmds'[i].arg = mb'.sync.uidNext
    BY <2>3, AskedFlags
  <2>6. i = 1 => ~answered
    <3>1. cmds \in Seq(Commands) /\ (cmds = <<>> => ~answered)
      BY <1>1 DEF TypeOK, Stream, Connected
    <3>2. i = 1 => cmds = <<>>
      BY <2>5, <3>1, EmptySeq
    <3> QED
      BY <3>1, <3>2
  <2> QED
    BY <1>1, <2>4, <2>5, <2>6
<1> QED
  BY <1>5, <1>6

\* Every response that is handled while the UIDs are known leaves it so.
LEMMA HandledKeepsFlags ==
    ASSUME Reliable, TypeOK, TypeOK', NEW hs, FollowsServer(hs), Pending, Moves, NEW g,
           FollowsServer(g)', Continues(hs, g), task.status \in UidsAreKnown,
           task'.status \in UidsAreKnown, FlagsPromised(hs), HandleResponse
    PROVE  FlagsPromised(g)'
<1>1. Plain /\ Stream(hs) /\ task'.status # "OFF" /\ task.status \notin {"SELECTING", "SYNCING_UIDS"}
  BY DEF Reliable, FollowsServer, UidsAreKnown
<1>2. KeepsKnown(hs)
  BY <1>1, KnownStays
<1>3. ~Vanished /\ ~VanishedEarlier /\ ~ObtainNo /\ ~Unhandled
  BY NoneVanished, AllWanted
<1>4. ~HandleCodes /\ ~SelectOk /\ ~HandleSearch
  <2>1. \A i \in 1..Len(net) : net[i].t # "CODES" /\ ~IsSelect(net[i])
    BY <1>1, NoSelect
  <2>2. net # <<>> => 1 \in 1..Len(net) /\ Head(net) = net[1]
    BY TailElements DEF TypeOK
  <2>3. net # <<>> => Head(net).t # "CODES" /\ ~IsSelect(Head(net))
    BY <2>1, <2>2
  <2> QED
    BY <1>1, <2>3 DEF HandleCodes, SelectOk, HandleSearch, Ok, Next1, Resp, IsSelect
<1>5. net # <<>> /\ Handled /\ KnownStep(hs) /\ KeepsFlags(hs) /\ TellsFlags(hs)
  <2>1. CASE ObtainExists \/ KeepExists
    BY <1>1, <1>2, <2>1, ExistsStep, ExistsKeepsFlags
  <2>2. CASE ObtainExpunge \/ KeepExpunge
    BY <1>1, <1>2, <2>2, ExpungeStep, ExpungeKeepsFlags
  <2>3. CASE HandleFetch
    BY <1>1, <1>2, <2>3, FetchStep, FetchKeepsFlags
  <2>4. CASE SearchOk \/ FlagsOk \/ ObtainArrivalsOk \/ KeepArrivalsFinished
    BY <1>1, <1>2, <2>4, LineStep, LineKeepsFlags
  <2> QED
    BY <1>3, <1>4, <2>1, <2>2, <2>3, <2>4 DEF HandleResponse
<1>6. g = Tail(hs)
  <2>1. /\ Len(net) \in Nat /\ Len(net') = Len(net) - 1 /\ Len(hs) = Len(net) + 1 /\ up
    BY <1>5, Remaining
  <2>2. up' /\ Len(g) = Len(net') + 1
    <3>1. History(g, net', srv')
      BY DEF FollowsServer
    <3> QED
      BY <1>5, <2>1, <3>1 DEF Handled, History
  <2> QED
    BY <2>1, <2>2 DEF Continues
<1>7. Took(hs, g)
  BY <1>5, <1>6 DEF Took
<1> QED
  BY <1>5, <1>7, TookFlagsPromised

\* No step disturbs the flags that the client has been promised.
LEMMA KnownKeepsFlags ==
    ASSUME Reliable, TypeOK, TypeOK', NEW hs, FollowsServer(hs), Pending, Moves, NEW g,
           FollowsServer(g)', Continues(hs, g), task.status \in UidsAreKnown,
           task'.status \in UidsAreKnown, AllFlagged, FlagsPromised(hs), [Next]_vars
    PROVE  FlagsPromised(g)'
<1>1. CASE ServerChange \/ Recreate \/ SendData \/ SendTagged \/ UNCHANGED vars
  BY <1>1, ServerKeepsFlags
<1>2. CASE HandleResponse
  BY <1>2, HandledKeepsFlags
<1>3. ~Perform /\ ~Drop /\ ~Restart
  <2>1. Perform => task'.status = "SELECTING"
    BY DEF Perform, NoTask
  <2>2. Drop \/ Restart => task'.status = "OFF"
    BY DEF Drop, Restart, Stop, Disconnected, NoTask
  <2> QED
    BY <2>1, <2>2 DEF UidsAreKnown
<1> QED
  BY <1>1, <1>2, <1>3 DEF Next

----------------------------------------------------------------------------
(* All flags are asked for before the mailbox is open. *)

AsksAllFlags == \E c \in Commands : c.t = "FLAGS" /\ c.arg = 0 /\ cmds' = Append(cmds, c)

\* The response that ends the search for UIDs asks for them, unless no message is there.
LEMMA StartsAsking ==
    ASSUME Plain, TypeOK, TypeOK', NEW hs, FollowsServer(hs), Pending, HandleResponse,
           ~FlagsAsked, FlagsAsked'
    PROVE  Handled /\ (AsksAllFlags \/ (task'.status = "KEEP" /\ Len(mb'.list) = 0))
<1>1. task \in Task /\ mb \in Mailbox
  BY DEF TypeOK
<1>2. ~Unhandled /\ ~ObtainNo
  BY AllWanted
<1>3. (~\E e : Throw(e)) /\ ~Abort
  BY DEF Throw, Abort, Stop, Disconnected, NoTask, FlagsAsked
<1>4. task' # task /\ task.status \notin {"DONE", "KEEP"} /\ ~task.flagsCmd
  BY DEF FlagsAsked
<1>5. ~(task'.status = task.status /\ task'.flagsCmd = task.flagsCmd)
  BY DEF FlagsAsked
<1>6. ~HandleCodes /\ ~HandleFetch /\ ~Vanished /\ ~VanishedEarlier /\ ~ObtainExists
  <2>1. ~HandleCodes /\ ~Vanished /\ ~VanishedEarlier
    BY <1>4 DEF HandleCodes, Vanished, VanishedEarlier, Update
  <2>2. ~HandleFetch
    BY <1>3, <1>4 DEF HandleFetch, Update
  <2>3. ASSUME NEW m, NEW from, AskForArrivals(m, from)
        PROVE  task'.status = task.status /\ task'.flagsCmd = task.flagsCmd
    BY <1>1, <2>3 DEF AskForArrivals, Task
  <2>4. ~ObtainExists
    BY <1>3, <1>4, <1>5, <2>3 DEF ObtainExists, Update
  <2> QED
    BY <2>1, <2>2, <2>4
<1>7. ~KeepExists /\ ~KeepExpunge /\ ~KeepArrivalsFinished
  BY <1>4 DEF KeepExists, KeepExpunge, KeepArrivalsFinished
<1>8. ~ObtainExpunge
  <2>1. ObtainExpunge => task' = task \/ task' = [task EXCEPT !.firstUnknown = @ - 1]
    BY <1>3 DEF ObtainExpunge
  <2> QED
    BY <1>1, <1>5, <2>1 DEF Task
<1>9. ~HandleSearch
  <2>1. HandleSearch => task' = [task EXCEPT !.status = "SYNCING_FLAGS"]
    BY <1>3 DEF HandleSearch, FinalizeSearch
  <2>2. HandleSearch => task'.status = "SYNCING_FLAGS" /\ task'.flagsCmd = task.flagsCmd
    BY <1>1, <2>1 DEF Task
  <2> QED
    BY <1>4, <2>2 DEF FlagsAsked
<1>10. ~FlagsOk
  BY <1>4, FlagsOkFits
<1>11. ~ObtainArrivalsOk
  <2>1. ObtainArrivalsOk => task' = ArrivalsDone
    BY <1>4 DEF ObtainArrivalsOk
  <2>2. ArrivalsDone.status = task.status /\ ArrivalsDone.flagsCmd = task.flagsCmd
    BY <1>1 DEF ArrivalsDone, Task
  <2> QED
    BY <1>5, <2>1, <2>2
<1>12. ASSUME NEW m, NEW tk \in Task, SyncFlags(m, tk) PROVE AsksAllFlags
  BY <1>12, SyncFlagsPlain DEF AsksAllFlags, Further
<1>13. CASE SearchOk
  <2>1. SyncFlags(mb, task) /\ Handled
    BY <1>3, <1>13 DEF SearchOk
  <2> QED
    BY <1>1, <1>12, <2>1
<1>14. CASE SelectOk
  <2>1. task.status = "SELECTING" /\ Handled /\ FinalizeSelect(mb)
    BY <1>3, <1>14 DEF SelectOk
  <2>2. PICK h : h = hs[1]
    OBVIOUS
  <2>3. PICK tk \in Task : tk.flagsCmd = task.flagsCmd /\ Decides(tk, h)
    BY <1>14, <2>1, <2>2, SelectOkDecides
  <2>4. ASSUME NEW m, NEW mode, NEW from, NEW first PROVE ~SyncUids(m, tk, mode, from, first)
    <3>1. SyncUids(m, tk, mode, from, first) =>
             task'.status = "SYNCING_UIDS" /\ task'.flagsCmd = tk.flagsCmd
      BY DEF SyncUids, Task
    <3> QED
      BY <1>4, <2>3, <3>1 DEF FlagsAsked
  <2>5. SyncNoNewNoDeletions(mb, tk) => AsksAllFlags
    <3>1. SyncNoNewNoDeletions(mb, tk) => \E m : SyncFlags(m, tk)
      BY DEF SyncNoNewNoDeletions
    <3> QED
      BY <1>12, <3>1
  <2>6. ASSUME NEW m \in Mailbox, FullMboxSync(m, tk)
        PROVE  task'.status = "KEEP" /\ Len(mb'.list) = 0
    <3>1. PICK n \in Nat : n = m.sync.exists
      BY <2>6, MailboxFields
    <3>2. PICK fresh : fresh = [m EXCEPT !.list = Unknown(n)]
      OBVIOUS
    <3>3. IF n > 0 THEN SyncUids(fresh, tk, "ALL", 0, 0) ELSE Complete(fresh)
      BY <2>6, <3>1, <3>2 DEF FullMboxSync
    <3>4. Complete(fresh) /\ n = 0
      BY <2>4, <3>1, <3>3
    <3>5. Unknown(n) \in Seq(Message) /\ Len(Unknown(n)) = n
      BY <3>1, UnknownType
    <3>6. fresh \in Mailbox /\ fresh.list = Unknown(n)
      BY <2>6, <3>2, <3>5 DEF Mailbox
    <3>7. mb' = SaveSyncStateAndUids(fresh) /\ task'.status = "KEEP"
      BY <3>4 DEF Complete, KeepTask, NoTask
    <3> QED
      BY <3>4, <3>5, <3>6, <3>7, SaveType
  <2>7. ClearAllMessages(mb) \in Mailbox
    BY <1>1, ClearAllMessagesType
  <2> QED
    BY <1>1, <2>1, <2>3, <2>4, <2>5, <2>6, <2>7 DEF Decides
<1> QED
  BY <1>2, <1>6, <1>7, <1>8, <1>9, <1>10, <1>11, <1>13, <1>14 DEF HandleResponse

\* What is asked for has been promised.
LEMMA AskedIsPromised ==
    ASSUME TypeOK, NEW hs, FollowsServer(hs), AsksAllFlags, UNCHANGED answered, NEW g
    PROVE  FlagsPromised(g)'
<1>1. PICK c \in Commands : c.t = "FLAGS" /\ c.arg = 0 /\ cmds' = Append(cmds, c)
  BY DEF AsksAllFlags
<1>2. cmds \in Seq(Commands) /\ Len(cmds) \in Nat
  BY DEF TypeOK
<1>3. PICK i \in Nat : i = Len(cmds) + 1
  BY <1>2
<1>4. i \in 1..Len(cmds') /\ cmds'[i] = c
  BY <1>1, <1>2, <1>3, AppendElements
<1>5. i \in FlagsOpen(cmds')
  BY <1>1, <1>4 DEF FlagsOpen, AsksFlags
<1>6. i = 1 => ~answered'
  <2>1. Connected
    BY DEF FollowsServer, Stream
  <2>2. i = 1 => cmds = <<>>
    BY <1>2, <1>3, EmptySeq
  <2> QED
    BY <2>1, <2>2 DEF Connected
<1>7. ASSUME NEW u \in Uid PROVE FlagPromised(g, u)'
  <2>1. cmds'[i].arg <= u
    BY <1>1, <1>4 DEF Uid
  <2> QED
    BY <1>5, <1>6, <2>1 DEF FlagPromised
<1> QED
  BY <1>7 DEF FlagsPromised

\* In an empty mailbox there is nothing to promise.
LEMMA NoneToFlag ==
    ASSUME TypeOK', NEW g, FollowsServer(g)', task'.status = "KEEP", Len(mb'.list) = 0
    PROVE  FlagsPromised(g)'
<1>1. Len(g[1].msgs) = 0
  BY DEF FollowsServer, Client, Synced, Reflects, UidsAreKnown
<1>2. ASSUME NEW u \in Uid PROVE ~Has(g[1], u)
  BY <1>1 DEF Has
<1> QED
  BY <1>2 DEF FlagsPromised

\* Whoever has asked for the flags knows the UIDs.
LEMMA AskedKnows ==
    ASSUME Pending, FlagsAsked
    PROVE  task.status \in UidsAreKnown
BY DEF Pending, OneTask, FlagsAsked, UidsAreKnown

\* A step of the system.
LEMMA NextLearnsFlags ==
    ASSUME Reliable, TypeOK, TypeOK', SyncInv, LearnsFlags, Pending, Pending', [Next]_vars
    PROVE  LearnsFlags'
<1>1. PICK hs \in Seq(Server) : FollowsServer(hs) /\ FlagsCurrent(hs)
  BY DEF LearnsFlags
<1>2. Plain
  BY DEF Reliable
<1>3. PICK g \in Seq(Server) : FollowsServer(g)' /\ Continues(hs, g)
  <2>1. Onwards(hs)
    BY <1>1, <1>2, NextFollows
  <2> QED
    BY <2>1 DEF Onwards
<1>4. AllFlagged /\ (FlagsAsked => FlagsPromised(hs))
  BY <1>1 DEF FlagsCurrent
<1>5. AllFlagged'
  BY <1>4, NextFlagged
<1>6. ASSUME FlagsAsked' PROVE FlagsPromised(g)'
  <2>1. task'.status \in UidsAreKnown
    <3>1. Pending /\ FlagsAsked => task.status \in UidsAreKnown
      BY AskedKnows
    <3>2. (Pending /\ FlagsAsked => task.status \in UidsAreKnown)'
      BY <3>1, AskedKnows, PTL
    <3> QED
      BY <1>6, <3>2
  <2>2. CASE FlagsAsked
    <3>1. task.status \in UidsAreKnown
      BY <2>2, AskedKnows
    <3>2. Moves
      BY <1>1, NextMoves
    <3> QED
      BY <1>1, <1>3, <1>4, <2>1, <2>2, <3>1, <3>2, KnownKeepsFlags
  <2>3. CASE ~FlagsAsked
    <3>1. task' # task
      BY <1>6, <2>3 DEF FlagsAsked
    <3>2. ~ServerChange /\ ~Recreate /\ ~SendData /\ ~SendTagged /\ ~UNCHANGED vars
      BY <3>1 DEF ServerChange, Arrive, ServerExpunge, ServerFlag, Recreate, SendData, SendTagged,
                  vars
    <3>3. ~Perform /\ ~Drop /\ ~Restart
      <4>1. Perform => task'.status = "SELECTING"
        BY DEF Perform, NoTask
      <4>2. Drop \/ Restart => task'.status = "OFF"
        BY DEF Drop, Restart, Stop, Disconnected, NoTask
      <4> QED
        BY <2>1, <4>1, <4>2 DEF UidsAreKnown
    <3>4. HandleResponse
      BY <3>2, <3>3 DEF Next
    <3>5. Handled /\ (AsksAllFlags \/ (task'.status = "KEEP" /\ Len(mb'.list) = 0))
      BY <1>1, <1>2, <1>6, <2>3, <3>4, StartsAsking
    <3>6. UNCHANGED answered
      BY <3>5 DEF Handled
    <3> QED
      BY <1>1, <1>3, <3>5, <3>6, AskedIsPromised, NoneToFlag
  <2> QED
    BY <2>2, <2>3
<1>7. FlagsCurrent(g)'
  BY <1>5, <1>6 DEF FlagsCurrent
<1> QED
  BY <1>3, <1>7 DEF LearnsFlags

\* Nothing has been asked for at first.
LEMMA InitLearnsFlags ==
    ASSUME Plain, Init
    PROVE  LearnsFlags
<1>1. PICK hs \in Seq(Server) : FollowsServer(hs)
  BY InitKeepsUp DEF KeepsUp
<1>2. ~FlagsAsked
  BY DEF Init, NoTask, FlagsAsked
<1>3. AllFlagged
  <2>1. PICK k \in 0..MaxUid :
           srv = [msgs |-> UidsOf(k), flag |-> [u \in Uid |-> IF u <= k THEN 1 ELSE 0],
                  hms |-> 1, next |-> k + 1, val |-> 1]
    BY DEF Init
  <2>2. k \in Nat /\ k <= MaxUid
    BY MaxUidAssumption
  <2>3. Len(UidsOf(k)) = k /\ \A i \in 1..k : UidsOf(k)[i] = i
    BY <2>2 DEF UidsOf
  <2>4. ASSUME NEW i \in 1..k PROVE srv.flag[i] = 1
    <3>1. i \in Uid /\ i <= k
      BY <2>2, MaxUidAssumption DEF Uid
    <3> QED
      BY <2>1, <3>1
  <2> QED
    BY <2>1, <2>3, <2>4 DEF AllFlagged
<1> QED
  BY <1>1, <1>2, <1>3 DEF LearnsFlags, FlagsCurrent

\* From the start of the task that opens a mailbox on, every flag that the client does not have
\* is one that it has asked for: a FETCH of all of them comes before the mailbox is open, and a
\* change that is announced meanwhile is applied to the same list.
THEOREM ReliableLearnsFlags ==
    ASSUME Reliable
    PROVE  Spec => [](TypeOK /\ SyncInv /\ Pending /\ LearnsFlags)
<1>1. Init => TypeOK /\ SyncInv /\ Pending /\ LearnsFlags
  BY InitType, InitPending, InitLearnsFlags DEF Reliable
<1>2. /\ TypeOK /\ SyncInv /\ Pending /\ LearnsFlags
      /\ [Next]_vars
      => TypeOK' /\ SyncInv' /\ Pending' /\ LearnsFlags'
  <2> SUFFICES ASSUME TypeOK, SyncInv, Pending, LearnsFlags, [Next]_vars
               PROVE  TypeOK' /\ SyncInv' /\ Pending' /\ LearnsFlags'
    OBVIOUS
  <2>1. TypeOK' /\ SyncInv'
    BY NextType
  <2>2. KeepsUp
    BY DEF LearnsFlags, KeepsUp
  <2>3. Pending'
    BY <2>1, <2>2, NextPending
  <2> QED
    BY <2>1, <2>3, NextLearnsFlags
<1> QED
  BY <1>1, <1>2, PTL DEF Spec

\* ... so when nothing is under way all flags are right.
LEMMA QuietIsFlagged ==
    ASSUME TypeOK, NEW hs, FollowsServer(hs), FlagsCurrent(hs), Quiet
    PROVE  \A u \in Uid : Has(srv, u) => FlagRight(mb.list, srv, u)
<1>1. net = <<>> /\ cmds = <<>> /\ task.status = "KEEP"
  BY DEF Quiet
<1>2. hs[1] = srv
  BY <1>1, SaneServer
<1>3. Len(net) = 0 /\ Len(cmds) = 0
  BY <1>1
<1>4. SUFFICES ASSUME NEW u \in Uid, Has(srv, u) PROVE FlagRight(mb.list, srv, u)
  OBVIOUS
<1>5. ~FlagPromised(hs, u)
  BY <1>3 DEF FlagPromised, FlagLines, FlagsOpen
<1>6. FreshNow(hs, u, 1)
  BY <1>1, <1>2, <1>4, <1>5 DEF FlagsCurrent, FlagsAsked, FlagsPromised
<1> QED
  BY <1>2, <1>3, <1>4, <1>6 DEF FreshNow, Fresh

\* When everything sent has been handled the message list is the server's mailbox, message by
\* message, with the flags that each has there: whatever changed while the client was away,
\* while it synchronized and since, and in whichever order it was told.
THEOREM ViewStaysServers ==
    ASSUME Reliable
    PROVE  Spec => []ViewIsServers
<1>1. TypeOK /\ LearnsUids /\ LearnsFlags => ViewIsServers
  <2> SUFFICES ASSUME TypeOK, LearnsUids, LearnsFlags, Quiet
               PROVE  /\ Uids(mb.list) = srv.msgs
                      /\ \A i \in 1..Len(mb.list) : mb.list[i].fl = srv.flag[mb.list[i].uid]
    BY DEF ViewIsServers
  <2>1. Uids(mb.list) = srv.msgs
    <3>1. PICK hs \in Seq(Server) : FollowsServer(hs) /\ UidsCurrent(hs)
      BY DEF LearnsUids
    <3> QED
      BY <3>1, QuietIsKnown
  <2>2. PICK hs \in Seq(Server) : FollowsServer(hs) /\ FlagsCurrent(hs)
    BY DEF LearnsFlags
  <2>3. \A u \in Uid : Has(srv, u) => FlagRight(mb.list, srv, u)
    BY <2>2, QuietIsFlagged
  <2>4. PICK n \in Nat : n = Len(mb.list)
    BY MailboxFields DEF TypeOK
  <2>5. Len(srv.msgs) = n /\ \A i \in 1..n : srv.msgs[i] = mb.list[i].uid
    <3>1. mb.list \in Seq(Message)
      BY MailboxFields DEF TypeOK
    <3>2. Len(srv.msgs) = n
      BY <2>1, <2>4, <3>1, UidsType
    <3> QED
      BY <2>1, <2>4, <3>2 DEF Uids
  <2>6. Sane(srv)
    BY <2>2, SaneServer
  <2>7. ASSUME NEW i \in 1..n PROVE mb.list[i].fl = srv.flag[mb.list[i].uid]
    <3>1. PICK u \in Uid : u = srv.msgs[i]
      BY <2>5, <2>6, SaneFields
    <3>2. FlagRight(mb.list, srv, u)
      BY <2>3, <2>5, <3>1 DEF Has
    <3>3. PICK p \in 1..n : srv.msgs[p] = u /\ mb.list[p].fl = srv.flag[u]
      BY <2>4, <3>2 DEF FlagRight
    <3>4. ~(i < p) /\ ~(p < i)
      <4>1. \A a, b \in 1..n : a < b => srv.msgs[a] < srv.msgs[b]
        BY <2>5, <2>6 DEF Sane
      <4>2. u \in Nat
        BY DEF Uid
      <4> QED
        BY <3>1, <3>3, <4>1, <4>2
    <3>5. p = i
      BY <2>4, <3>4
    <3> QED
      BY <2>5, <3>1, <3>3, <3>5
  <2> QED
    BY <2>1, <2>4, <2>7
<1>2. Spec => [](TypeOK /\ SyncInv /\ Pending /\ LearnsUids)
  BY ReliableLearnsUids
<1>3. Spec => [](TypeOK /\ SyncInv /\ Pending /\ LearnsFlags)
  BY ReliableLearnsFlags
<1> QED
  BY <1>1, <1>2, <1>3, PTL
=============================================================================
