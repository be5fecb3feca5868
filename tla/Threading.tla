----------------------------- MODULE Threading -----------------------------
(***************************************************************************)
(* The list of messages as the user sees it: ThreadingMsgListModel over    *)
(* one open mailbox, with the tasks that ask the server for THREAD, SEARCH *)
(* and SORT.  The server, the rest of the client and the user are          *)
(* external; the server answers the commands in their order and, between   *)
(* them, reports new and expunged messages.                                *)
(***************************************************************************)
EXTENDS ThreadTree

CONSTANTS
    Initial,        \* how many messages there are at the start
    Conversation,   \* Conversation[m]: the message that m replies to, or 0
    Matches,        \* Matches[c]: the messages that the search c finds
    Incremental,    \* whether the server may support INCTHREAD
    MaxArrivals, MaxExpunges, MaxRequests, MaxRefusals,    \* bounds, and one for them
    MaxEvents                                              \* all together

Arrivals == (Initial + 1)..(Initial + MaxArrivals)
Uids == 1..(Initial + MaxArrivals)
Conditions == DOMAIN Matches
ASSUME BoundAssumption ==
    {Initial, MaxArrivals, MaxExpunges, MaxRequests, MaxRefusals, MaxEvents} \subseteq Nat
ASSUME ConversationAssumption ==
    Uids \subseteq DOMAIN Conversation /\ \A m \in Uids : Conversation[m] \in 0..(m - 1)
ASSUME MatchesAssumption == "all" \in Conditions /\ \A c \in Conditions : Matches[c] \subseteq Uids
ASSUME IncrementalAssumption == Incremental \in BOOLEAN

VARIABLES
    incremental,    \* the server supports INCTHREAD; does not change
    msgs,           \* the messages of the mailbox
    known,          \* the messages whose UID is known
    tree,           \* see NoTree
    unknown,        \* unknownUids
    shall,          \* m_shallBeThreading
    conds, crit,    \* m_currentSearchConditions ("all": none), m_currentSortingCriteria
    sort,           \* m_currentSortResult with m_searchValidity, and what it is the result of
    inFlight,       \* threadingInFlight
    cached,         \* the cache's THREAD response
    pruning,        \* m_delayedPrune is active
    tasks,          \* the commands that the server has to answer, see Commands
    excuses,        \* "sorted": the user has sorted or searched, "refused": the server has refused a command,
                    \* "early": a message was expunged before its UID was known, "incremental": an
                    \* incremental response has been merged
    failure,        \* "null": m_sortTask was used when it was null, "assertion"; or "none"
    next, expunges, requests, refusals

env == <<incremental, msgs, known, pruning, excuses, next, expunges, requests, refusals>>
vars == <<incremental, msgs, known, tree, unknown, shall, conds, crit, sort, inFlight, cached, pruning,
          tasks, excuses, failure, next, expunges, requests, refusals>>

Criteria == {"none", "subject"}
Query == [conds : Conditions, crit : Criteria]
NoQuery == [conds |-> "all", crit |-> "none"]

\* query: of a SortTask; from: the first UID to thread incrementally, or to fetch; mapping, uids:
\* what the server has said, if it is done; connected: its signals are connected to the model;
\* current: m_sortTask points to it
Command(kind) == [kind |-> kind, query |-> NoQuery, from |-> 0, done |-> FALSE, mapping |-> <<>>,
                  uids |-> <<>>, connected |-> FALSE, current |-> FALSE]

----------------------------------------------------------------------------
(* The members of the model as one record, for the functions that call one *)
(* another.                                                                *)

Now == [tree |-> tree, unknown |-> unknown, shall |-> shall, conds |-> conds, crit |-> crit, sort |-> sort,
        inFlight |-> inFlight, cached |-> cached, tasks |-> tasks, failure |-> failure]
Update(now) ==
    /\ tree' = now.tree /\ unknown' = now.unknown /\ shall' = now.shall
    /\ conds' = now.conds /\ crit' = now.crit /\ sort' = now.sort
    /\ inFlight' = now.inFlight /\ cached' = now.cached
    /\ tasks' = now.tasks /\ failure' = now.failure

\* The mailbox that a function works on
Box == [msgs |-> msgs, known |-> known]
UidIn(box, m) == IF m \in box.known THEN m ELSE 0

UpdateNoThreading(now, box) ==
    [now EXCEPT !.tree = Flat(box.msgs, [i \in DOMAIN box.msgs |-> UidIn(box, box.msgs[i])]),
                !.unknown = Elements(box.msgs) \ box.known]

\* Q_ASSERT(it != ptrToInternal.constEnd())
ApplySort(now, box) ==
    LET found == Elements(now.sort.result) \cap Elements(box.msgs) \cap box.known IN
    IF box.msgs = <<>> THEN now
    ELSE IF found \subseteq DOMAIN now.tree.ids
    THEN [now EXCEPT !.tree = Sorted(@, now.sort.result, found)]
    ELSE [now EXCEPT !.failure = "assertion"]

CalculateNullSort(now) ==
    [now EXCEPT !.sort = [result |-> NullSort(now.tree), validity |-> "fresh", query |-> NoQuery]]

\* The task of before stays connected.
CreateSortTask(now, c, k) ==
    [now EXCEPT !.tasks = Append([i \in DOMAIN @ |-> [@[i] EXCEPT !.current = FALSE]],
                    [Command("sort") EXCEPT !.query = [conds |-> c, crit |-> k],
                                            !.connected = TRUE, !.current = TRUE]),
                !.conds = c, !.crit = k, !.sort.validity = "asked"]

SearchSortPreference(now, box, c, k) ==
    IF box.msgs = <<>> THEN now
    ELSE IF k = "none" /\ c = "all"
    THEN ApplySort(CalculateNullSort([now EXCEPT !.conds = c, !.crit = k]), box)
    ELSE IF k = "none"
    THEN IF c # now.conds \/ now.sort.validity # "fresh" THEN CreateSortTask(now, c, k)
         ELSE ApplySort([now EXCEPT !.crit = k], box)
    ELSE IF now.crit = k /\ now.conds = c /\ now.sort.validity # "invalidated" THEN ApplySort(now, box)
    ELSE CreateSortTask(ApplySort(CalculateNullSort(now), box), c, k)

AutoSortSearch(now, box) == SearchSortPreference(now, box, now.conds, now.crit)

ApplyThreading(now, box, mapping) ==
    IF now.unknown # {} THEN now
    ELSE IF ~(Elements(box.msgs) \subseteq box.known) THEN [now EXCEPT !.failure = "assertion"]
    ELSE AutoSortSearch([now EXCEPT !.tree = Threaded(@, box.msgs, mapping)], box)

Highest(S) == CHOOSE m \in S \cup {0} : \A x \in S : x <= m

\* The last one that is threaded, or the next one if that is gone
AskForThreading(now, box, lastThreaded) ==
    LET rest == SelectSeq(box.msgs, LAMBDA m : m \in box.known /\ m >= lastThreaded)
        task == IF ~incremental \/ Head(rest) = Head(box.msgs) THEN Command("thread")
                ELSE [Command("inc") EXCEPT !.from = Head(rest) + 1]
    IN [now EXCEPT !.inFlight = TRUE, !.tasks = Append(@, task)]

\* Fault: a cached response is used, however old it is.
WantThreadingCached(now, box, auto) ==
    IF box.msgs = <<>> \/ ~now.shall
    THEN LET n == UpdateNoThreading(now, box) IN IF auto THEN AutoSortSearch(n, box) ELSE n
    ELSE IF now.inFlight THEN IF auto THEN AutoSortSearch(now, box) ELSE now
    ELSE IF now.cached # <<>> THEN ApplyThreading(now, box, now.cached)
    ELSE AskForThreading(now, box, 0)

WantThreading(now, box, auto) ==
    LET Sort(n) == IF auto THEN AutoSortSearch(n, box) ELSE n
        lastKnown == Highest(Elements(box.msgs) \cap box.known)
        lastThreaded == Highest({m.num : m \in Elements(now.cached)})
    IN IF box.msgs = <<>> \/ ~now.shall THEN Sort(UpdateNoThreading(now, box))
       ELSE IF now.inFlight THEN Sort(now)
       ELSE IF lastThreaded >= lastKnown THEN ApplyThreading(now, box, now.cached)
       ELSE AskForThreading(now, box, lastThreaded)

----------------------------------------------------------------------------
(* What the server sends                                                   *)

Running == failure = "none"
Eventful == Running /\ (next - Initial - 1) + expunges + requests + refusals < MaxEvents
Rest == [Now EXCEPT !.tasks = Tail(@)]
Answering(kind) == Running /\ tasks # <<>> /\ Head(tasks).kind = kind

\* "* n EXISTS": the client asks for the new message's UID and flags, and handleRowsInserted.
Arrive ==
    /\ Eventful /\ next \in Arrivals
    /\ next' = next + 1 /\ msgs' = Append(msgs, next)
    /\ LET box == [msgs |-> msgs', known |-> known]
           now == [Now EXCEPT !.tree = Inserted(@, next), !.unknown = @ \cup {next},
                              !.sort.result = <<>>,
                              !.sort.validity = IF @ = "fresh" THEN "invalidated" ELSE @,
                              !.tasks = Append(@, [Command("fetch") EXCEPT !.from = next])]
       IN Update(IF shall THEN WantThreading(now, box, TRUE) ELSE now)
    /\ UNCHANGED <<incremental, known, pruning, excuses, expunges, requests, refusals>>

\* "* n FETCH (UID ...)": handleDataChanged
FetchUid ==
    /\ Answering("fetch")
    /\ LET m == Head(tasks).from
           now == [Rest EXCEPT !.unknown = @ \ {m}]
       IN /\ known' = known \cup ({m} \cap Elements(msgs))
          /\ Update(IF m \in unknown /\ now.unknown = {}
                    THEN WantThreading(now, [msgs |-> msgs, known |-> known'], TRUE) ELSE now)
    /\ UNCHANGED <<incremental, msgs, pruning, excuses, next, expunges, requests, refusals>>

\* "* n EXPUNGE": handleRowsAboutToBeRemoved, handleRowsRemoved
Expunge(m) ==
    /\ Eventful /\ expunges < MaxExpunges /\ m \in Elements(msgs)
    /\ expunges' = expunges + 1
    /\ msgs' = RemoveFirst(msgs, m) /\ known' = known \ {m}
    /\ Update([Now EXCEPT !.tree = Removed(@, m), !.unknown = @ \ {m}])
    /\ pruning' = TRUE
    /\ excuses' = IF m \in known THEN excuses ELSE excuses \cup {"early"}
    /\ UNCHANGED <<incremental, next, requests, refusals>>

DelayedPrune ==
    /\ Running /\ pruning
    /\ pruning' = FALSE
    /\ Update([Now EXCEPT !.tree = Prune(@)])
    /\ UNCHANGED <<incremental, msgs, known, excuses, next, expunges, requests, refusals>>

\* What the server knows about the conversations of S.  dummies: it may keep a node without
\* a message above the replies to a message that is gone.
Ancestors[m \in Uids] == IF Conversation[m] = 0 THEN {} ELSE {Conversation[m]} \cup Ancestors[Conversation[m]]
RepliesTo(m, S) == {x \in S : Conversation[x] = m}
Gone(S) == {m \in 1..(next - 1) : m \notin S /\ Cardinality(RepliesTo(m, S)) > 1}
Mapping(S, dummies) ==
    LET all == SetToSortSeq(S \cup dummies, <)
        Up(m) == Highest(Ancestors[m] \cap (S \cup dummies))
    IN [i \in DOMAIN all |-> [num |-> IF all[i] \in S THEN all[i] ELSE 0,
                              up |-> IF Up(all[i]) = 0 THEN 0 ELSE Position(all, Up(all[i]))]]

\* Each thread with a message from that UID on, after the root of the thread before it
Items(S, from) ==
    LET Line(m) == ({m} \cup Ancestors[m]) \cap S
        Root(m) == CHOOSE r \in Line(m) : \A x \in Line(m) : r <= x
        changed == SetToSortSeq({Root(m) : m \in {x \in S : x >= from}}, <)
    IN [i \in DOMAIN changed |->
            [previous |-> Highest({Root(m) : m \in S} \cap 1..(changed[i] - 1)),
             thread |-> Mapping({m \in S : Root(m) = changed[i]}, {})]]

Say(task) == tasks' = <<task>> \o Tail(tasks)
ServerOnly ==
    /\ UNCHANGED env
    /\ UNCHANGED <<tree, unknown, shall, conds, crit, sort, inFlight, cached, failure>>

\* The untagged responses are stored in the task.
ThreadUntagged ==
    /\ Answering("thread") /\ ~Head(tasks).done
    /\ LET present == Elements(msgs) IN
       \E dummies \in SUBSET Gone(present) :
           Say([Head(tasks) EXCEPT !.done = TRUE, !.mapping = Mapping(present, dummies)])
    /\ ServerOnly

Found(query, S) ==
    SetToSortSeq(Matches[query.conds] \cap S, LAMBDA a, b : IF query.crit = "subject" THEN a > b ELSE a < b)

SortUntagged ==
    /\ Answering("sort") /\ ~Head(tasks).done
    /\ Say([Head(tasks) EXCEPT !.done = TRUE, !.uids = Found(Head(tasks).query, Elements(msgs))])
    /\ ServerOnly

SlotThreadingAvailable ==
    /\ Answering("thread") /\ Head(tasks).done
    /\ LET now == [Rest EXCEPT !.inFlight = FALSE] IN
       Update(IF msgs = <<>> THEN now
              ELSE IF ~shall THEN [now EXCEPT !.cached = Head(tasks).mapping]
              ELSE WantThreading([now EXCEPT !.cached = Head(tasks).mapping], Box, TRUE))
    /\ UNCHANGED env

SlotIncrementalThreadingAvailable ==
    /\ Answering("inc")
    /\ LET items == Items(Elements(msgs), Head(tasks).from)
           affected == {n.num : n \in UNION {Elements(items[i].thread) : i \in DOMAIN items}} \cap known
       IN Update(IF msgs # <<>> /\ \A m \in affected : Visible(tree, m)
                 THEN [Rest EXCEPT !.tree = Merged(@, items, known)]
                 ELSE [Rest EXCEPT !.failure = "assertion"])
    /\ excuses' = excuses \cup {"incremental"}
    /\ UNCHANGED <<incremental, msgs, known, pruning, next, expunges, requests, refusals>>

\* m_sortTask, whichever task that is by now, is disconnected.
Disconnected(now) ==
    [now EXCEPT !.tasks = [i \in DOMAIN @ |-> IF @[i].current
                              THEN [@[i] EXCEPT !.current = FALSE, !.connected = FALSE] ELSE @[i]]]

\* Fault: the result does not become a fresh one.
SlotSortingAvailableAgain ==
    /\ Answering("sort") /\ Head(tasks).done
    /\ LET task == Head(tasks)
           now == [Disconnected(Rest) EXCEPT !.sort.result = task.uids, !.sort.query = task.query,
                                             !.sort.validity = "invalidated"]
       IN Update(IF ~task.connected THEN Rest
                 ELSE IF \A i \in DOMAIN tasks : ~tasks[i].current THEN [Rest EXCEPT !.failure = "null"]
                 ELSE WantThreading(now, Box, TRUE))
    /\ UNCHANGED env

SlotSortingAvailable ==
    /\ Answering("sort") /\ Head(tasks).done
    /\ LET task == Head(tasks)
           now == [Disconnected(Rest) EXCEPT !.sort.result = task.uids, !.sort.query = task.query,
                                             !.sort.validity = IF @ = "asked" THEN "fresh" ELSE @]
       IN Update(IF ~task.connected THEN Rest
                 ELSE IF \A i \in DOMAIN tasks : ~tasks[i].current THEN [Rest EXCEPT !.failure = "null"]
                 ELSE WantThreading(now, Box, TRUE))
    /\ UNCHANGED env

\* The server answers NO.
Refuse ==
    /\ Eventful /\ tasks # <<>> /\ Head(tasks).kind # "fetch" /\ refusals < MaxRefusals
    /\ refusals' = refusals + 1 /\ excuses' = excuses \cup {"refused"}
    /\ Update(CASE Head(tasks).kind = "thread" ->
                    LET now == [Rest EXCEPT !.inFlight = FALSE] IN
                    IF msgs = <<>> THEN now ELSE UpdateNoThreading(now, Box)
                [] Head(tasks).kind = "sort" /\ Head(tasks).connected ->
                    ApplySort(CalculateNullSort(Disconnected(Rest)), Box)
                [] OTHER -> Rest)
    /\ UNCHANGED <<incremental, msgs, known, pruning, next, expunges, requests>>

----------------------------------------------------------------------------
(* What the user asks for                                                  *)

\* setUserSearchingSortingPreference
SetPreference(now, c, k) == SearchSortPreference(WantThreading(now, Box, FALSE), Box, c, k)

\* slotThreadMsgList: the sorting is reset
SetThreading(now, enable) ==
    LET unsorted == IF now.crit = "none" THEN now ELSE SetPreference(now, now.conds, "none") IN
    IF enable THEN WantThreading([unsorted EXCEPT !.shall = TRUE], Box, TRUE)
    ELSE UpdateNoThreading([unsorted EXCEPT !.shall = FALSE], Box)

Request(now) ==
    /\ Eventful /\ requests < MaxRequests
    /\ requests' = requests + 1
    /\ Update(now)
    /\ UNCHANGED <<incremental, msgs, known, pruning, next, expunges, refusals>>

ThreadMsgList == Request(SetThreading(Now, ~shall)) /\ UNCHANGED excuses
SortRequested ==
    /\ excuses' = excuses \cup {"sorted"}
    /\ \E k \in Criteria \ {crit} : Request(SetPreference(Now, conds, k))
SearchRequested ==
    /\ excuses' = excuses \cup {"sorted"}
    /\ \E c \in Conditions \ {conds} :
           LET now == IF c # "all" /\ shall THEN SetThreading(Now, FALSE) ELSE Now
           IN Request(SetPreference(now, c, now.crit))

----------------------------------------------------------------------------

Init ==
    /\ incremental \in {FALSE, Incremental}
    /\ msgs = Numbers(Initial) /\ known = 1..Initial /\ unknown = {}
    /\ tree = Flat(msgs, msgs)
    /\ shall \in BOOLEAN /\ inFlight = (shall /\ msgs # <<>>)
    /\ tasks = IF inFlight THEN <<Command("thread")>> ELSE <<>>
    /\ conds = "all" /\ crit = "none"
    /\ sort = [result |-> <<>>, validity |-> "invalidated", query |-> NoQuery]
    /\ cached = <<>> /\ pruning = FALSE /\ excuses = {} /\ failure = "none"
    /\ next = Initial + 1 /\ expunges = 0 /\ requests = 0 /\ refusals = 0

Answer ==
    \/ FetchUid \/ ThreadUntagged \/ SortUntagged
    \/ SlotThreadingAvailable \/ SlotIncrementalThreadingAvailable \/ SlotSortingAvailable

Next ==
    \/ Arrive \/ (\E m \in Uids : Expunge(m)) \/ DelayedPrune
    \/ Answer \/ Refuse
    \/ ThreadMsgList \/ SortRequested \/ SearchRequested

Spec == Init /\ [][Next]_vars

\* The server answers what is asked, weak fairness of Answer with the condition on which it is
\* enabled written out; and the event loop runs the timer, which only DelayedPrune stops.
FairSpec ==
    /\ Spec
    /\ []<>(~Running \/ tasks = <<>>) \/ []<><<Answer>>_vars
    /\ WF_pruning(Running /\ pruning /\ pruning' = FALSE)

----------------------------------------------------------------------------

Nodes == [id : Nat, uid : Uids \cup {0}, ptr : Uids \cup {0}, parent : Nat, children : Seq(Nat), offset : Nat]
Excuses == {"sorted", "refused", "early", "incremental"}

\* The members of the model and the tasks have the types that the header declares.
TypeOK ==
    /\ incremental \in BOOLEAN /\ known \subseteq Elements(msgs) /\ Elements(msgs) \subseteq Uids
    /\ \A i \in DOMAIN tree.nodes : i \in Nat /\ tree.nodes[i] \in Nodes
    /\ DOMAIN tree.ids \subseteq Uids /\ tree.roots \in Seq(Nat \ {0}) /\ tree.last \in Nat
    /\ shall \in BOOLEAN /\ conds \in Conditions /\ crit \in Criteria
    /\ sort.result \in Seq(Uids) /\ sort.validity \in {"asked", "fresh", "invalidated"}
    /\ sort.query \in Query
    /\ inFlight \in BOOLEAN /\ pruning \in BOOLEAN /\ excuses \subseteq Excuses
    /\ failure \in {"none", "null", "assertion"}
    /\ \A i \in DOMAIN tasks : tasks[i].kind \in {"fetch", "thread", "inc", "sort"}

\* Whatever arrives, is expunged, threaded, sorted and searched for in whatever order, the
\* parents, children and offsets of the nodes agree: pruneTree asserts it when its timer
\* fires, and parent() and rowCount() of the views' indexes rely on it.  Merging an
\* incremental response may break it.  Without one, applySort finds each message that it
\* looks up, too (its Q_ASSERT), and applyThreading never meets a message without a UID (its
\* exception).
TreeConsistent ==
    LET n == tree.nodes IN
    TypeOK /\ ("incremental" \notin excuses =>
        /\ \A i \in DOMAIN n :
               /\ \A k \in DOMAIN n[i].children :
                      /\ n[i].children[k] \in DOMAIN n
                      /\ n[n[i].children[k]].parent = i /\ n[n[i].children[k]].offset = k - 1
               /\ i # 0 => n[i].parent \in DOMAIN n /\ i \in Elements(n[n[i].parent].children)
        /\ failure # "assertion")

\* No node keeps the address of a message that has been deleted, though the tree may lag
\* behind and its pruning is delayed, nor do two nodes have the same message; and
\* unknownUids, which decides whether threads may be built, are exactly the messages that
\* are there and wait for their UID.
NoDangling ==
    LET n == tree.nodes IN
    /\ \A i \in DOMAIN n : n[i].ptr # 0 =>
           n[i].ptr \in Elements(msgs) /\ \A j \in DOMAIN n \ {i} : n[j].ptr # n[i].ptr
    /\ unknown = Elements(msgs) \ known

\* pruneTree goes through a QHash, in an order that differs between runs: the tree that is
\* left does not depend on it, even when a message and its parent have both been expunged.
PruneInAnyOrder ==
    LET fakes == {i \in DOMAIN tree.nodes : IsFake(tree.nodes, i)}
    IN \A order \in SetToSeqs(fakes) : PruneInOrder(tree, order) = Prune(tree)

Calm == tasks = <<>> /\ ~pruning /\ failure = "none"
Unsorted == conds = "all" /\ crit = "none"
Shown(m) == Visible(tree, m) /\ tree.nodes[tree.ids[m]].ptr = m
ParentOf(m) == tree.nodes[tree.nodes[tree.ids[m]].parent].ptr
Conversations(m) == {m} \cup Ancestors[m]
Whole(m) == \A x \in 1..(next - 1) : Conversations(x) \cap Conversations(m) # {} => x \in Elements(msgs)

\* Once the server has answered everything, the list is what the user has asked for.  When it
\* is neither threaded nor sorted nor filtered it shows each message once, in the mailbox's
\* order, whatever has been refused before.  A threaded list that was never sorted nor refused
\* shows every message, one that arrived while the threads were being asked for included, and
\* each below the message it replies to unless a message of its conversation was expunged.
ShownAsAsked ==
    Calm =>
        /\ ~shall /\ Unsorted /\ msgs # <<>> /\ excuses \cap {"early", "incremental"} = {} =>
               LET rows == tree.nodes[0].children
               IN [i \in DOMAIN rows |-> tree.nodes[rows[i]].ptr] = msgs
        /\ shall /\ excuses = {} =>
               \A m \in Elements(msgs) : Shown(m) /\ (Whole(m) => ParentOf(m) = Conversation[m])

\* The model stops asking the server: an answer never makes it ask the same again for ever.
Settles == <>[](Calm \/ failure # "none")
=============================================================================
