--------------------------- MODULE MailboxHistory ---------------------------
(***************************************************************************)
(* The inductive invariant behind what MailboxSync promises about the      *)
(* server's mailbox when the server has no extensions.  The client lags    *)
(* behind the server by the responses in net.  hs is the sequence of the   *)
(* mailbox's states that lie between: hs[1] is what the client has been    *)
(* told so far, each response of net leads from one state to the next, and *)
(* the last one is srv.  Nothing in the program holds hs; the invariant    *)
(* says that there is one.                                                 *)
(***************************************************************************)
EXTENDS MailboxSync

\* No CONDSTORE, no QRESYNC; no change is announced between the answer to SELECT and
\* its tagged OK.
Plain == ~Condstore /\ ~EarlyChanges

----------------------------------------------------------------------------
(* States of the mailbox. *)

\* The server assigns UIDs in ascending order, all of them below UIDNEXT.
Sane(s) ==
    /\ s \in Server
    /\ \A i, j \in 1..Len(s.msgs) : i < j => s.msgs[i] < s.msgs[j]
    /\ \A i \in 1..Len(s.msgs) : s.msgs[i] < s.next

\* A UID map, the UIDNEXT that goes with it, and a later state of the mailbox.  An
\* arrival adds one to the number of messages and to UIDNEXT, an EXPUNGE takes one
\* from the former only.  When both have grown alike, nothing was expunged: the map is
\* the beginning of the later state and the rest has arrived.
Surplus(uids, next, s) == (Len(s.msgs) - Len(uids)) - (s.next - next)
Begins(uids, next, s) ==
    \A j \in 1..Len(s.msgs) :
       IF j <= Len(uids) THEN uids[j] \in {0, s.msgs[j]} /\ s.msgs[j] < next
       ELSE s.msgs[j] >= next
Follows(uids, next, s) ==
    /\ next <= s.next
    /\ Surplus(uids, next, s) <= 0
    /\ Surplus(uids, next, s) = 0 => Begins(uids, next, s)

\* A UID is assigned once: a message that is gone does not come back.
Has(s, u) == \E j \in 1..Len(s.msgs) : s.msgs[j] = u
NoneReturns(a, b) == \A u \in Uid : u < a.next /\ Has(b, u) => Has(a, u)

Later(a, b) == a.val = b.val /\ Follows(a.msgs, a.next, b) /\ NoneReturns(a, b)

\* Message u is the only one whose flags may differ.
OthersKeepFlags(a, b, u) == \A v \in Uid : v # u => b.flag[v] = a.flag[v]
Grown(a, b) ==
    /\ b.msgs = Append(a.msgs, a.next) /\ b.next = a.next + 1
    /\ OthersKeepFlags(a, b, a.next)

\* The response r is true of a mailbox that goes from a to b.
Tells(r, a, b) ==
    CASE r.t = "EXISTS" -> r.n = Len(b.msgs) /\ (b = a \/ Grown(a, b))
      [] r.t = "CODES" -> b = a /\ r.uidNext = a.next /\ r.uidVal = a.val
      [] r.t = "EXPUNGE" ->
            /\ r.n \in 1..Len(a.msgs) /\ b.msgs = RemoveAt(a.msgs, r.n) /\ b.next = a.next
            /\ b.flag = a.flag
      [] r.t = "FETCH" ->
            /\ b.msgs = a.msgs /\ b.next = a.next /\ r.n \in 1..Len(a.msgs)
            /\ r.uid \in {0, a.msgs[r.n]} /\ r.mod = 0
            /\ r.fl = b.flag[a.msgs[r.n]] /\ OthersKeepFlags(a, b, a.msgs[r.n])
      [] r.t \in {"SEARCH", "OK", "NO"} -> b = a
      [] OTHER -> FALSE

\* hs leads to s by the responses q.
History(hs, q, s) ==
    /\ hs \in Seq(Server) /\ Len(hs) = Len(q) + 1 /\ hs[Len(hs)] = s
    /\ \A i \in 1..Len(hs) : Sane(hs[i])
    /\ \A i, j \in 1..Len(hs) : i < j => Later(hs[i], hs[j])
    /\ \A i \in 1..Len(q) : Tells(q[i], hs[i], hs[i + 1])

----------------------------------------------------------------------------
(* What is under way. *)

IsSelect(r) == r.t \in {"OK", "NO"} /\ r.cmd = "SELECT"
Announcement(r) == r.t \in {"EXISTS", "EXPUNGE"} \/ (r.t = "FETCH" /\ r.uid = 0)
SyncIs(m, s) == /\ m.sync.exists = Len(s.msgs) /\ m.sync.uidNext = s.next
                /\ m.sync.uidVal = s.val
SelectAnswered == cmds # <<>> /\ answered /\ Head(cmds).t = "SELECT"

\* EXISTS, the response codes and the OK of a SELECT follow one another, and the client
\* has noted those that it has handled.
CodesInOrder(hs) ==
    \A i \in 1..Len(net) : net[i].t = "CODES" =>
       /\ IF i > 1 THEN net[i - 1].t = "EXISTS" ELSE mb.sync.exists = Len(hs[1].msgs)
       /\ IF i < Len(net) THEN IsSelect(net[i + 1]) ELSE SelectAnswered
SelectInOrder(hs) ==
    /\ \A i \in 1..Len(net) : IsSelect(net[i]) =>
          IF i > 1 THEN net[i - 1].t = "CODES" ELSE SyncIs(mb, hs[1])
    /\ SelectAnswered => /\ selected
                         /\ IF net = <<>> THEN SyncIs(mb, srv) ELSE net[Len(net)].t = "CODES"

\* While a SELECT is under way the client waits for it and issues nothing; when its OK
\* has been sent, only changes are announced.
SelectIsLast ==
    /\ \A i \in 1..Len(net) : IsSelect(net[i]) =>
          /\ net[i].t = "OK" /\ task.status = "SELECTING" /\ cmds = <<>>
          /\ \A k \in 1..Len(net) : k > i => Announcement(net[k])
    /\ \A i \in 1..Len(cmds) : cmds[i].t = "SELECT" =>
          i = Len(cmds) /\ task.status = "SELECTING"

\* Without CONDSTORE nothing is asked for by modification sequence.
ArgsPlain == \A i \in 1..Len(cmds) : cmds[i].t \in {"SELECT", "FLAGS"} => cmds[i].arg = 0

\* While a task waits for its SELECT, every other command is of an earlier task.
TagsFit ==
    /\ \A i \in 1..Len(cmds) :
          /\ cmds[i].tag <= selects
          /\ task.status = "SELECTING" => cmds[i].t = "SELECT" \/ cmds[i].tag < selects
    /\ \A i \in 1..Len(net) : net[i].t \in {"OK", "NO"} =>
          /\ net[i].tag <= selects
          /\ task.status = "SELECTING" => IsSelect(net[i]) \/ net[i].tag < selects

\* Nothing is under way on no connection, nor before the server has seen SELECT.
Connected ==
    /\ ~up => task.status = "OFF" /\ net = <<>> /\ cmds = <<>> /\ ~selected
    /\ up /\ ~selected => net = <<>> /\ cmds # <<>> /\ Head(cmds).t = "SELECT" /\ ~answered
    /\ cmds = <<>> => ~answered

\* The first UID that the UID SEARCH of the task asks for.
SearchArg(tk) == IF tk.mode = "NEW" THEN tk.old.uidNext ELSE 0
\* The messages from position f + 1 on are those with a UID from first on.
Splits(s, first, f) == \A j \in 1..Len(s.msgs) : s.msgs[j] >= first <=> j > f
\* If they are as many as the UIDs found, these are their UIDs.
Finds(uids, s, first) ==
    \A f \in 0..Len(s.msgs) : Splits(s, first, f) /\ Len(uids) = Len(s.msgs) - f =>
       \A k \in 1..Len(uids) : uids[k] = s.msgs[f + k]
SearchFits(hs) ==
    task.status = "SYNCING_UIDS" =>
       /\ \A i \in 1..Len(cmds) : cmds[i].t = "SEARCH" => cmds[i].arg = SearchArg(task)
       /\ \A i \in 1..Len(net) : net[i].t = "SEARCH" => Finds(net[i].uids, hs[i], SearchArg(task))

Stream(hs) ==
    /\ CodesInOrder(hs) /\ SelectInOrder(hs) /\ SelectIsLast
    /\ ArgsPlain /\ TagsFit /\ Connected /\ SearchFits(hs)

----------------------------------------------------------------------------
(* The client's mailbox m and task tk, when it has been told of the state h of a        *)
(* mailbox of UIDVALIDITY val.                                                          *)

\* The first n messages of the list are the server's, as far as their UIDs are known.
FitsTo(list, n, h) == \A j \in 1..n : list[j].uid \in {0, h.msgs[j]}
Reflects(list, h) == Len(list) = Len(h.msgs) /\ FitsTo(list, Len(list), h)
KnownBelow(list, n) == \A j \in 1..Len(list) : list[j].uid < n

\* What is on disk was the mailbox, and if nothing was expunged since, the list grew out of it.
OnDisk(m, val, h) ==
    LET disk == m.disk
    IN /\ disk.sync.uidVal <= val
       /\ disk.sync.uidVal = val =>
             /\ Len(disk.uids) = disk.sync.exists
             /\ Follows(disk.uids, disk.sync.uidNext, h)
             /\ \A j \in 1..Len(disk.uids) : disk.uids[j] < disk.sync.uidNext
             /\ KnownBelow(m.list, h.next)
             /\ m.st # "NONE" /\ Surplus(disk.uids, disk.sync.uidNext, h) = 0 =>
                   /\ Len(disk.uids) <= Len(m.list) /\ Len(m.list) <= Len(h.msgs)
                   /\ FitsTo(m.list, Len(m.list), h)

\* During the UID SEARCH the list is right up to the first unknown UID.
UidsAsked(m, tk, val, h) ==
    /\ m.sync.exists = Len(h.msgs) /\ m.sync.uidVal = val
    /\ m.sync.uidNext \in 1..h.next /\ m.st = "LOADING"
    /\ tk.firstUnknown <= Len(h.msgs) /\ tk.firstUnknown <= Len(m.list)
    /\ FitsTo(m.list, tk.firstUnknown, h)
    /\ Splits(h, SearchArg(tk), tk.firstUnknown) /\ SearchArg(tk) <= h.next
    /\ KnownBelow(m.list, h.next)

\* After it all of the list is.
Synced(m, val, h) ==
    /\ Reflects(m.list, h)
    /\ m.sync.uidVal = val /\ m.sync.uidNext \in 1..h.next
    /\ KnownBelow(m.list, m.sync.uidNext)
    /\ m.st # "NONE"

UidsAreKnown == {"SYNCING_FLAGS", "DONE", "KEEP"}
Client(m, tk, val, h) ==
    /\ ~tk.qresync
    /\ tk.status = "SELECTING" => tk.firstUnknown = 0 /\ m.st = "LOADING"
    /\ tk.status = "SYNCING_UIDS" => UidsAsked(m, tk, val, h)
    /\ tk.status \in UidsAreKnown => Synced(m, val, h)
    /\ OnDisk(m, val, h)
    /\ m.st = "NONE" => m.list = <<>> /\ tk.status = "OFF"

\* The inductive invariant, with TypeOK and SyncInv; NONE is the state after a restart.
FollowsServer(hs) ==
    /\ History(hs, net, srv)
    /\ Stream(hs)
    /\ Client(mb, task, srv.val, hs[1])
    /\ mb.st = "NONE" => ~up
KeepsUp == \E hs \in Seq(Server) : FollowsServer(hs)

\* The history after a step: the first response has been handled, or some have been sent;
\* on no connection there is no other than the server's mailbox now.
Continues(hs, g) ==
    \/ net # <<>> /\ net' = Tail(net) /\ g = Tail(hs)
    \/ /\ Len(g) >= Len(hs) /\ \A i \in 1..Len(hs) : g[i] = hs[i]
       /\ \A i \in 1..Len(g) : i > Len(hs) => g[i] = srv'
    \/ ~up' /\ (srv'.val = srv.val => srv' = srv \/ Later(srv, srv'))
Onwards(hs) == \E g \in Seq(Server) : FollowsServer(g)' /\ Continues(hs, g)

----------------------------------------------------------------------------
(* A server that refuses nothing: the tagged lines and the data that they complete.     *)

Reliable == Plain /\ ~MayFail

\* Tagged lines among the responses q, and open commands among cs, of one kind.
LinesOf(q, c) == {i \in 1..Len(q) : q[i].t = "OK" /\ q[i].cmd = c}
OpenOf(cs, c) == {i \in 1..Len(cs) : cs[i].t = c}
Waiting(c) == Cardinality(LinesOf(net, c)) + Cardinality(OpenOf(cmds, c))

\* How many of them the task waits for.
AwaitsSearch == \/ task.status = "SYNCING_UIDS"
                \/ task.status = "SYNCING_FLAGS" /\ ~task.flagsCmd
Awaited(c) ==
    CASE c = "SELECT" -> IF task.status = "SELECTING" THEN 1 ELSE 0
      [] c = "SEARCH" -> IF AwaitsSearch THEN 1 ELSE 0
      [] c = "FLAGS" -> IF task.flagsCmd THEN 1 ELSE 0
      [] OTHER -> task.arrivals
Counted == \A c \in CommandKind : Waiting(c) = Awaited(c)

\* All of them are this task's.
OneTask ==
    /\ \A i \in 1..Len(net) : net[i].t # "NO" /\ (net[i].t = "OK" => net[i].tag = selects)
    /\ \A i \in 1..Len(cmds) : cmds[i].tag = selects
    /\ task.status = "OFF" => ~up
    /\ task.flagsCmd => task.status = "SYNCING_FLAGS"
    /\ task.arrivals > 0 => task.status \in UidsAreKnown

\* The data that a command asked for comes before its tagged line.
InAnswer(c) == cmds # <<>> /\ answered /\ Head(cmds).t = c
LineAfter(c, i) == InAnswer(c) \/ \E k \in LinesOf(net, c) : k > i
SearchBefore(k) == \E i \in 1..Len(net) : i < k /\ net[i].t = "SEARCH"
UidsInAnswer ==
    \A i \in 1..Len(net) : net[i].t = "FETCH" /\ net[i].uid # 0 => LineAfter("ARRIVALS", i)
SearchInAnswer ==
    task.status = "SYNCING_UIDS" =>
       /\ \A k \in LinesOf(net, "SEARCH") : SearchBefore(k)
       /\ InAnswer("SEARCH") => SearchBefore(Len(net) + 1)

\* Every tagged line is one that the task waits for, and finds the status it expects.
Pending == Counted /\ OneTask /\ UidsInAnswer /\ SearchInAnswer

\* What the cache says of the order of the UIDs is what the list says of it.
Ordered == ListAscending /\ Ascending(mb.disk.uids)

\* The UID SEARCH asks for all that is not known, and may replace in the list only what is no
\* older than the UIDs that it asks for.
RestAsked ==
    task.status = "SYNCING_UIDS" =>
       \A p \in 1..Len(mb.list) :
          IF p <= task.firstUnknown THEN mb.list[p].uid # 0
          ELSE mb.list[p].uid = 0 \/ mb.list[p].uid >= SearchArg(task)

----------------------------------------------------------------------------
(* ... so the client finds out everything.                                               *)

\* When the first k - 1 of the responses q have been handled, the UID of message u is in
\* the list, or u is gone.
Found(list, q, hs, u, k) ==
    Has(hs[k], u) => \/ InList(list, u)
                     \/ \E i \in 1..Len(q) : i < k /\ q[i].t = "FETCH" /\ q[i].uid = u
FoundNow(hs, u, k) == Found(mb.list, net, hs, u, k)

\* The answer to a UID FETCH of u is under way, or will be.
UidPromised(hs, u) ==
    \/ \E k \in LinesOf(net, "ARRIVALS") : FoundNow(hs, u, k)
    \/ \E i \in OpenOf(cmds, "ARRIVALS") :
          IF i = 1 /\ answered THEN FoundNow(hs, u, Len(net) + 1) ELSE cmds[i].arg <= u
UidsPromised(hs) == \A u \in Uid : Has(hs[1], u) => FoundNow(hs, u, 1) \/ UidPromised(hs, u)

\* The UIDs become known in ascending order, and nothing below those asked for is unknown.
InTurn(hs) ==
    /\ \A u \in Uid : u < mb.sync.uidNext => FoundNow(hs, u, 1)
    /\ \A i \in 1..Len(net) : net[i].t = "FETCH" =>
          \A u \in Uid : u < net[i].uid => FoundNow(hs, u, i)
    /\ \A i \in OpenOf(cmds, "ARRIVALS") :
          /\ cmds[i].arg <= srv.next
          /\ \A u \in Uid : u < cmds[i].arg => FoundNow(hs, u, Len(net) + 1)

\* A cache to which messages have only been added since has all UIDs, and so has the list.
CacheKnown(m, val, h) ==
    m.disk.sync.uidVal = val /\ Surplus(m.disk.uids, m.disk.sync.uidNext, h) = 0 =>
       \A j \in 1..Len(m.disk.uids) : /\ m.disk.uids[j] # 0
                                      /\ m.st # "NONE" => m.list[j].uid # 0

\* Nothing is asked for any more: everything is saved.
Saved == /\ mb.st = "DONE" /\ mb.disk.uids = Uids(mb.list)
         /\ mb.disk.sync.exists = Len(mb.list) /\ mb.disk.sync.uidVal = srv.val

UidsCurrent(hs) ==
    /\ task.status \in UidsAreKnown => InTurn(hs) /\ UidsPromised(hs)
    /\ RestAsked
    /\ task.status = "KEEP" /\ task.arrivals = 0 => Saved
    /\ CacheKnown(mb, srv.val, hs[1])
LearnsUids == \E hs \in Seq(Server) : FollowsServer(hs) /\ UidsCurrent(hs)

----------------------------------------------------------------------------
(* ... and all flags.                                                                     *)

\* Message u has in the list the flags that it has in h.
FlagRight(list, h, u) == \E p \in 1..Len(list) : h.msgs[p] = u /\ list[p].fl = h.flag[u]

\* So it will when the first k - 1 of the responses q have been handled, or u is gone.
Fresh(list, q, hs, u, k) ==
    Has(hs[k], u) => \/ FlagRight(list, hs[1], u)
                     \/ \E i \in 1..Len(q) : i < k /\ q[i].t = "FETCH" /\ hs[i].msgs[q[i].n] = u
FreshNow(hs, u, k) == Fresh(mb.list, net, hs, u, k)

\* The answer to a FETCH of all flags, or of those of u and of later messages, is under way,
\* or will be.
AsksFlags == {"ARRIVALS", "FLAGS"}
FlagLines(q) == {i \in 1..Len(q) : q[i].t = "OK" /\ q[i].cmd \in AsksFlags}
FlagsOpen(cs) == {i \in 1..Len(cs) : cs[i].t \in AsksFlags}
FlagPromised(hs, u) ==
    \/ \E k \in FlagLines(net) : FreshNow(hs, u, k)
    \/ \E i \in FlagsOpen(cmds) :
          IF i = 1 /\ answered THEN FreshNow(hs, u, Len(net) + 1) ELSE cmds[i].arg <= u
FlagsPromised(hs) ==
    \A u \in Uid : Has(hs[1], u) => FreshNow(hs, u, 1) \/ FlagPromised(hs, u)

\* All flags are asked for after the UID SEARCH.  The server's messages have some, which 0 is not.
FlagsAsked == task.flagsCmd \/ task.status \in {"DONE", "KEEP"}
AllFlagged == \A i \in 1..Len(srv.msgs) : srv.flag[srv.msgs[i]] > 0
FlagsCurrent(hs) == AllFlagged /\ (FlagsAsked => FlagsPromised(hs))
LearnsFlags == \E hs \in Seq(Server) : FollowsServer(hs) /\ FlagsCurrent(hs)

=============================================================================
