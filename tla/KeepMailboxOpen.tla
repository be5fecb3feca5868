-------------------------- MODULE KeepMailboxOpen --------------------------
(***************************************************************************)
(* An open mailbox, IDLE and the hand-over of the connection to another    *)
(* mailbox: KeepMailboxOpenTask from the end of perform() to terminate(),  *)
(* its IdleLauncher, and the command queue of the Parser.  Each action is  *)
(* one call from the event loop.  The server is external: it answers the   *)
(* commands in their order, announces messages whenever it likes and, with *)
(* MayRefuse, refuses IDLE; with ServerEndsIdle it also ends IDLE before   *)
(* it is asked to.  What the tasks do is left out: a task is the one       *)
(* command that it sends.                                                  *)
(***************************************************************************)
EXTENDS Integers, Sequences, FiniteSets

CONSTANTS
    LimitActiveTasks,   \* trojita-imap-limit-active-tasks; the Keep itself is one
    MayRefuse,          \* the server may answer IDLE with NO
    ServerEndsIdle,     \* the server may complete IDLE by itself
    MaxRequests,        \* bound: how often the user asks for message data
    MaxExists           \* bound: how often the server announces new messages

ASSUME LimitAssumption == LimitActiveTasks \in Nat /\ LimitActiveTasks >= 2
ASSUME ServerAssumption == MayRefuse \in BOOLEAN /\ ServerEndsIdle \in BOOLEAN
ASSUME BoundAssumption == MaxRequests \in Nat /\ MaxExists \in Nat

VARIABLES
    c,          \* the client: Keep, IdleLauncher and Parser, see Client
    toServer,   \* commands and DONE on their way to the server
    server,     \* "ready", "idle", or "confused" by a command in the middle of IDLE
    toClient,   \* lines on their way to the Parser
    respQueue,  \* responses that the Parser has read and the Model has not handled
    requests,   \* requests for message data so far
    exists      \* announcements so far

vars == <<c, toServer, server, toClient, respQueue, requests, exists>>

Commands == {"TASK", "UID_FETCH", "SELECT"}
Failures == {"none", "enterIdle", "idleCompleted", "idleFailed", "execute", "terminate",
             "continuation", "unhandled"}

\* The fields, under their names in the code: of KeepMailboxOpenTask (over is
\* _finished, lingers: it is still in activeTasks; requested stands for requestedParts and requestedEnvelopes, waiting,
\* running and arrivals for the sizes of dependingTasksForThisMailbox,
\* runningTasksForThisMailbox and newArrivalsFetch; active counts the tasks in
\* activeTasks besides the Keep), of IdleLauncher (launcher: there is one and
\* shouldRunIdle; delayedEnter, renewal: the timer runs), of Parser (parserIdling is
\* its idling), and the zero-timeout calls waiting in the event loop.
Client ==
    [shouldExit: BOOLEAN, over: BOOLEAN, lingers: BOOLEAN, requested: BOOLEAN,
     waiting: Nat, running: Nat, active: Nat, arrivals: Nat,
     launcher: BOOLEAN, idling: BOOLEAN, idleCommandRunning: BOOLEAN, tagIdle: BOOLEAN,
     delayedEnter: BOOLEAN, renewal: BOOLEAN,
     cmdQueue: Seq(Commands \cup {"IDLE", "DONE"}),
     parserIdling: BOOLEAN, waitForInitialIdle: BOOLEAN,
     posted: Seq({"slotActivateTasks", "terminate"}),
     failed: Failures]

\* perform() has just started IDLE's delay; nothing is asked for yet.
Init ==
    /\ c = [shouldExit |-> FALSE, over |-> FALSE, lingers |-> TRUE, requested |-> FALSE,
            waiting |-> 0, running |-> 0, active |-> 0, arrivals |-> 0,
            launcher |-> TRUE, idling |-> FALSE, idleCommandRunning |-> FALSE,
            tagIdle |-> FALSE, delayedEnter |-> TRUE, renewal |-> FALSE,
            cmdQueue |-> <<>>, parserIdling |-> FALSE, waitForInitialIdle |-> FALSE,
            posted |-> <<>>, failed |-> "none"]
    /\ toServer = <<>> /\ server = "ready"
    /\ toClient = <<>> /\ respQueue = <<>>
    /\ requests = 0 /\ exists = 0

----------------------------------------------------------------------------
(* What the methods do to a client k. *)

Queue(k, command) == [k EXCEPT !.cmdQueue = Append(@, command)]
Fail(k, where) == [k EXCEPT !.failed = where]

EnterIdleLater(k) == IF k.idling THEN k ELSE [k EXCEPT !.delayedEnter = TRUE]

FinishIdle(k) ==
    IF k.idling THEN Queue([k EXCEPT !.renewal = FALSE, !.idling = FALSE], "DONE")
    ELSE [k EXCEPT !.delayedEnter = FALSE]

BreakOrCancelPossibleIdle(k) == IF k.launcher THEN FinishIdle(k) ELSE k

HasPendingTasksOnly(k) ==    \* mutant
    k.waiting > 0 \/ k.running > 0 \/ k.requested \/ k.arrivals > 0
HasPendingInternalActions(k) ==
    \/ k.waiting > 0 \/ k.running > 0 \/ k.requested \/ k.arrivals > 0
    \/ k.launcher /\ k.idleCommandRunning

CanRunIdleRightNow(k) ==
    k.launcher /\ k.waiting = 0 /\ k.arrivals = 0 /\ k.active = 0

\* A task that needs the mailbox registers with the Keep.
AddDependentTask(k) ==
    LET broken == BreakOrCancelPossibleIdle(k)
    IN [broken EXCEPT !.waiting = @ + 1, !.posted = Append(@, "slotActivateTasks")]

\* slotFetchRequestedEnvelopes, slotFetchRequestedParts: one task for all of them
FetchRequested(k) ==
    IF ~k.requested THEN k
    ELSE AddDependentTask([BreakOrCancelPossibleIdle(k) EXCEPT !.requested = FALSE])

\* How many waiting tasks activateTasks starts.
FreeSlotsShort(k) == LimitActiveTasks - 2 - k.active    \* mutant
FreeSlots(k) == LimitActiveTasks - 1 - k.active
Started(k) == IF k.waiting <= FreeSlots(k) THEN k.waiting
              ELSE IF FreeSlots(k) > 0 THEN FreeSlots(k) ELSE 0

ActivateTasks(k) ==
    IF k.over \/ k.failed # "none" THEN k
    ELSE LET ready == FetchRequested(BreakOrCancelPossibleIdle(k))
             n == Started(ready)
             on == [ready EXCEPT !.waiting = @ - n, !.running = @ + n, !.active = @ + n,
                                 !.cmdQueue = @ \o [i \in 1..n |-> "TASK"]]
         IN IF CanRunIdleRightNow(on) THEN EnterIdleLater(on) ELSE on

\* The successor's ObtainSynchronizedMailboxTask sends its SELECT at once.
Terminate(k) ==
    IF k.over THEN k
    ELSE IF k.waiting > 0 \/ k.requested \/ k.running > 0 THEN Fail(k, "terminate")
    ELSE Queue([k EXCEPT !.over = TRUE, !.delayedEnter = FALSE, !.renewal = FALSE], "SELECT")

IsReadyToTerminate(k) == k.shouldExit /\ ~HasPendingInternalActions(k)

\* slotTaskDeleted, after the lists have been updated
SlotTaskDeleted(k) ==
    IF k.over THEN k
    ELSE ActivateTasks(IF IsReadyToTerminate(k) THEN Terminate(k)
                       ELSE IF CanRunIdleRightNow(k) THEN EnterIdleLater(k)
                       ELSE k)

----------------------------------------------------------------------------
(* The event loop. *)

Alive == c.failed = "none"

\* requestEnvelopeDownload, requestPartDownload: as long as the mailbox has this
\* Keep as its maintaining task.
Request ==
    /\ Alive /\ ~c.over /\ requests < MaxRequests
    /\ c' = [c EXCEPT !.requested = TRUE]
    /\ requests' = requests + 1
    /\ UNCHANGED <<toServer, server, toClient, respQueue, exists>>

FetchTimer ==
    /\ Alive /\ c.requested
    /\ c' = FetchRequested(c)
    /\ UNCHANGED <<toServer, server, toClient, respQueue, requests, exists>>

\* addDependentTask by the ObtainSynchronizedMailboxTask of another mailbox: the
\* Keep ends now, in a call of its own, or when the last answer arrives.
OtherMailbox ==
    /\ Alive /\ ~c.over /\ ~c.shouldExit
    /\ LET leaving == FetchRequested([BreakOrCancelPossibleIdle(c) EXCEPT !.shouldExit = TRUE])
       IN c' = IF HasPendingInternalActions(leaving) THEN leaving
               ELSE [leaving EXCEPT !.posted = Append(@, "terminate")]
    /\ UNCHANGED <<toServer, server, toClient, respQueue, requests, exists>>

\* The zero-timeout calls run in the order they were posted.
Posted ==
    /\ Alive /\ c.posted # <<>>
    /\ LET k == [c EXCEPT !.posted = Tail(@)]
       IN c' = IF Head(c.posted) = "terminate" THEN Terminate(k) ELSE ActivateTasks(k)
    /\ UNCHANGED <<toServer, server, toClient, respQueue, requests, exists>>

\* A finished task is destroyed by the event loop, some time after its answer.
TaskDestroyed ==
    /\ Alive /\ c.running > c.active
    /\ c' = SlotTaskDeleted([c EXCEPT !.running = @ - 1])
    /\ UNCHANGED <<toServer, server, toClient, respQueue, requests, exists>>

\* slotEnterIdleNow and slotTerminateLongIdle.  Six seconds and 29 minutes are over
\* only when no zero timeout is left.
Quiet == c.posted = <<>> /\ (c.cmdQueue = <<>> \/ c.waitForInitialIdle)
EnterIdle(k) ==
    IF k.idling \/ k.tagIdle THEN Fail(k, "enterIdle")
    ELSE Queue([k EXCEPT !.tagIdle = TRUE, !.renewal = TRUE, !.idling = TRUE,
                         !.idleCommandRunning = TRUE], "IDLE")
SlotEnterIdleAtOnce(k) ==    \* mutant
    EnterIdle([k EXCEPT !.delayedEnter = FALSE, !.renewal = FALSE])
SlotEnterIdleNow(k) ==
    LET stopped == [k EXCEPT !.delayedEnter = FALSE, !.renewal = FALSE]
    IN IF k.idleCommandRunning THEN EnterIdleLater(stopped) ELSE EnterIdle(stopped)

DelayedEnter ==
    /\ Alive /\ c.delayedEnter /\ Quiet
    /\ c' = SlotEnterIdleNow(c)
    /\ UNCHANGED <<toServer, server, toClient, respQueue, requests, exists>>

Renewal ==
    /\ Alive /\ c.renewal /\ Quiet
    /\ c' = [(IF c.idling THEN FinishIdle(c) ELSE c) EXCEPT !.renewal = FALSE]
    /\ UNCHANGED <<toServer, server, toClient, respQueue, requests, exists>>

\* Parser::executeCommands: everything up to the first IDLE, which blocks the rest.
\* DONE is for the middle of an IDLE, anything else is not.
Sendable == LET idles == {i \in 1..Len(c.cmdQueue) : c.cmdQueue[i] = "IDLE"}
            IN IF idles = {} THEN Len(c.cmdQueue)
               ELSE CHOOSE i \in idles : \A j \in idles : i <= j
IdlingBefore(i) == c.parserIdling /\ \A j \in 1..(i - 1) : c.cmdQueue[j] # "DONE"

ExecuteCommands ==
    /\ Alive /\ c.cmdQueue # <<>> /\ ~c.waitForInitialIdle
    /\ LET sent == SubSeq(c.cmdQueue, 1, Sendable)
           left == SubSeq(c.cmdQueue, Sendable + 1, Len(c.cmdQueue))
           idles == sent[Sendable] = "IDLE"
       IN IF \E i \in 1..Sendable : (sent[i] = "DONE") # IdlingBefore(i)
          THEN c' = Fail(c, "execute") /\ UNCHANGED toServer
          ELSE /\ c' = [c EXCEPT !.cmdQueue = left, !.waitForInitialIdle = idles,
                                 !.parserIdling = idles \/ IdlingBefore(Sendable + 1)]
               /\ toServer' = toServer \o sent
    /\ UNCHANGED <<server, toClient, respQueue, requests, exists>>

\* Parser::processLine: a continuation is its own business, the rest is queued
\* for the Model.
ReadLine ==
    /\ Alive /\ toClient # <<>> /\ toClient' = Tail(toClient)
    /\ IF Head(toClient) = "+"
       THEN /\ c' = IF c.waitForInitialIdle THEN [c EXCEPT !.waitForInitialIdle = FALSE]
                    ELSE Fail(c, "continuation")
            /\ UNCHANGED respQueue
       ELSE respQueue' = Append(respQueue, Head(toClient)) /\ UNCHANGED c
    /\ UNCHANGED <<toServer, server, requests, exists>>

----------------------------------------------------------------------------
(* Model::responseReceived. *)

\* EXISTS: the Keep asks for the UIDs; its successor has its own use for it.
HandleNumberResponse(k) ==
    IF k.over THEN k
    ELSE Queue([BreakOrCancelPossibleIdle(k) EXCEPT !.arrivals = @ + 1], "UID_FETCH")

\* The tagged answer to a UID FETCH for arrivals is like the end of a task.
ArrivalsQuietly(k) == [k EXCEPT !.arrivals = @ - 1]    \* mutant
ArrivalsFinished(k) ==
    SlotTaskDeleted([k EXCEPT !.arrivals = @ - 1])

\* idleCommandCompleted and idleCommandFailed, with what they tell the Parser
StillIdling(k) == k    \* mutant
EndedByServer(k) == [k EXCEPT !.idling = FALSE, !.renewal = FALSE, !.parserIdling = FALSE]
IdleCommandCompleted(k) ==
    IF ~k.idleCommandRunning \/ (k.idling /\ (k.waitForInitialIdle \/ ~k.parserIdling))
    THEN Fail(k, "idleCompleted")
    ELSE [(IF k.idling THEN EndedByServer(k) ELSE k) EXCEPT !.idleCommandRunning = FALSE]
IdleCommandFailed(k) ==
    IF ~k.idling \/ ~k.idleCommandRunning \/ ~k.waitForInitialIdle THEN Fail(k, "idleFailed")
    ELSE [k EXCEPT !.idling = FALSE, !.idleCommandRunning = FALSE, !.renewal = FALSE,
                   !.delayedEnter = FALSE, !.waitForInitialIdle = FALSE,
                   !.parserIdling = FALSE, !.launcher = FALSE]

IdleFinishedHere(k) == [k EXCEPT !.tagIdle = FALSE]    \* mutant
IdleFinished(k) ==
    LET cleared == [k EXCEPT !.tagIdle = FALSE]
    IN IF IsReadyToTerminate(cleared) THEN Terminate(cleared) ELSE cleared

HandleIdleTag(k, kind) ==
    LET ended == IF kind = "OK" THEN IdleCommandCompleted(k) ELSE IdleCommandFailed(k)
        later == IF kind = "OK" /\ CanRunIdleRightNow(ended) THEN EnterIdleLater(ended)
                 ELSE ended
    IN IF ended.failed # "none" THEN ended ELSE IdleFinished(later)

\* A Keep that is over still gets the next response; then it leaves activeTasks.
\* A tagged response that no task knows, or an untagged BAD, ends the connection.
Dispatch(k, resp) ==
    CASE resp = "EXISTS" -> HandleNumberResponse(k)
      [] resp = "FETCH" -> k
      [] resp = "OK_TASK" -> [k EXCEPT !.active = @ - 1]
      [] resp = "OK_UID_FETCH" /\ k.lingers -> ArrivalsFinished(k)
      [] resp = "OK_IDLE" /\ k.lingers -> HandleIdleTag(k, "OK")
      [] resp = "NO_IDLE" /\ k.lingers -> HandleIdleTag(k, "NO")
      [] OTHER -> Fail(k, "unhandled")

HandleResponse ==
    /\ Alive /\ respQueue # <<>> /\ respQueue' = Tail(respQueue)
    /\ LET handled == Dispatch(c, Head(respQueue))
       IN c' = [handled EXCEPT !.lingers = ~handled.over]
    /\ UNCHANGED <<toServer, server, toClient, requests, exists>>

----------------------------------------------------------------------------
(* The server. *)

Says(lines) == toClient' = toClient \o lines
Hears(command) == toServer # <<>> /\ Head(toServer) = command /\ toServer' = Tail(toServer)

Idle ==
    /\ Hears("IDLE") /\ server = "ready"
    /\ \/ Says(<<"+">>) /\ server' = "idle"
       \/ MayRefuse /\ Says(<<"NO_IDLE">>) /\ server' = "ready"

\* A DONE outside of IDLE is no command.
Done ==
    /\ Hears("DONE") /\ server # "confused"
    /\ server' = "ready"
    /\ IF server = "idle" THEN Says(<<"OK_IDLE">>) ELSE Says(<<"BAD">>)

Answer ==
    \/ Hears("TASK") /\ server = "ready" /\ Says(<<"OK_TASK">>) /\ UNCHANGED server
    \/ /\ Hears("UID_FETCH") /\ server = "ready" /\ UNCHANGED server
       /\ Says(<<"OK_UID_FETCH">>) \/ Says(<<"FETCH", "OK_UID_FETCH">>)
    \/ Hears("SELECT") /\ server = "ready" /\ UNCHANGED <<toClient, server>>
    \/ /\ \E command \in Commands \cup {"IDLE"} : Hears(command)
       /\ server = "idle" /\ server' = "confused" /\ UNCHANGED toClient

EndIdle ==
    /\ ServerEndsIdle /\ server = "idle" /\ server' = "ready" /\ Says(<<"OK_IDLE">>)
    /\ UNCHANGED toServer

ServerActs ==
    /\ Idle \/ Done \/ Answer
    /\ UNCHANGED <<c, respQueue, requests, exists>>

ServerEnds == EndIdle /\ UNCHANGED <<c, respQueue, requests, exists>>

NewMessages ==
    /\ exists < MaxExists /\ exists' = exists + 1 /\ Says(<<"EXISTS">>)
    /\ UNCHANGED <<c, toServer, server, respQueue, requests>>

----------------------------------------------------------------------------
EventLoop ==
    Posted \/ FetchTimer \/ TaskDestroyed \/ ExecuteCommands \/ ReadLine \/ HandleResponse

Next ==
    \/ Request \/ OtherMailbox \/ EventLoop \/ DelayedEnter \/ Renewal
    \/ ServerActs \/ ServerEnds \/ NewMessages

\* The event loop delivers what is ready and its timers fire; the server answers.
\* Nobody has to ask for anything, and the server need not announce anything.
Fairness ==
    /\ WF_vars(Posted) /\ WF_vars(FetchTimer) /\ WF_vars(TaskDestroyed)
    /\ WF_vars(ExecuteCommands) /\ WF_vars(ReadLine) /\ WF_vars(HandleResponse)
    /\ WF_vars(DelayedEnter) /\ WF_vars(ServerActs)

Spec == Init /\ [][Next]_vars /\ Fairness

----------------------------------------------------------------------------
(* Properties. *)

Lines == {"+", "EXISTS", "FETCH", "BAD", "OK_TASK", "OK_UID_FETCH", "OK_IDLE", "NO_IDLE"}

\* Types of the whole state; no counter of tasks goes below zero.
TypeOK ==
    /\ c \in Client
    /\ toServer \in Seq(Commands \cup {"IDLE", "DONE"})
    /\ server \in {"ready", "idle", "confused"}
    /\ toClient \in Seq(Lines) /\ respQueue \in Seq(Lines \ {"+"})
    /\ requests \in 0..MaxRequests /\ exists \in 0..MaxExists

\* The Parser writes DONE only in the middle of an IDLE and nothing else there
\* (the Q_ASSERTs of executeACommand): whoever wants to send something has
\* broken IDLE first, in whatever order timers, requests and responses came.
\* And one IDLE at a time: a new one is not queued before the tagged response of the
\* last one has been handled (the Q_ASSERTs of slotEnterIdleNow), and that response
\* and the continuation meet a launcher and a Parser that expect them
\* (idleCommandCompleted, idleMagicallyTerminatedByServer, processLine).
IdleInOrder ==
    /\ TypeOK
    /\ c.failed \notin {"execute", "enterIdle", "idleCompleted", "continuation"}
    /\ server # "confused"

\* Everything sent or about to be sent, and every response not handled yet.
Sent == toServer \o c.cmdQueue
Coming == respQueue \o toClient
Has(seq, x) == \E i \in DOMAIN seq : seq[i] = x
LastIdleWord ==
    LET words == {i \in DOMAIN Sent : Sent[i] \in {"IDLE", "DONE"}}
    IN IF words = {} THEN "none" ELSE Sent[CHOOSE i \in words : \A j \in words : j <= i]

\* When the launcher says that it idles, the server idles, will be asked to, or
\* has an answer under way that tells the launcher otherwise; and when it says
\* that it does not, a DONE or that answer is under way.
LauncherKnows ==
    Alive => /\ c.idling => \/ LastIdleWord = "IDLE"
                            \/ /\ LastIdleWord = "none"
                               /\ \/ server = "idle" \/ Has(Coming, "OK_IDLE")
                                  \/ Has(Coming, "NO_IDLE")
             /\ server = "idle" /\ ~c.idling => Has(Sent, "DONE")

\* The mailbox is handed over cleanly: from then on the server does not idle, no
\* IDLE is under way, nor a DONE unless it crossed with the server's own end of
\* IDLE, and SELECT is the last that was sent: the old Keep
\* sends nothing to a mailbox that is not its own.
CleanHandOver ==
    c.over => /\ server # "idle" /\ ~Has(Sent, "IDLE")
              /\ ServerEndsIdle \/ ~Has(Sent, "DONE")
              /\ \A i \in DOMAIN Sent : Sent[i] = "SELECT" => i = Len(Sent)

\* Another mailbox does get the connection, whether IDLE, requests or arrivals are
\* in its way, unless the connection or the program has ended.
HandOver == c.shouldExit ~> (c.over \/ ~Alive)

\* The client always comes back to IDLE, unless IDLE was refused, another mailbox
\* was opened or the connection or the program has ended: it does not stay with
\* a mailbox whose changes it never hears of.
IdleResumes == []<>(c.idling \/ ~c.launcher \/ c.shouldExit \/ ~Alive)

\* Tasks that wait for the limit on active tasks all run.
TasksRun == c.waiting > 0 ~> (c.waiting = 0 \/ ~Alive)
=============================================================================
