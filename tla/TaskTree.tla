------------------------------ MODULE TaskTree ------------------------------
(***************************************************************************)
(* The tree of tasks on one connection, from the first command to the end  *)
(* of the connection: who waits for whom (ImapTask), how mailboxes wait    *)
(* for the connection and hand it on (KeepMailboxOpenTask with its         *)
(* ObtainSynchronizedMailboxTask), how the Model finds a task for a        *)
(* mailbox, runs tasks, routes answers to them, deletes them, and goes     *)
(* offline.  Each action is one call from the event loop.  IDLE, requests  *)
(* gathered by timers and arrivals are in KeepMailboxOpen; what is said    *)
(* while a connection opens or a mailbox synchronizes is in Connection and *)
(* MailboxSync: here each of both is one command.  A Q_ASSERT that fails   *)
(* and the use of a task that has been deleted end the run in m.failed.    *)
(***************************************************************************)
EXTENDS Integers, Sequences, SequencesExt, FiniteSets

CONSTANTS
    Mailboxes,
    LimitActiveTasks,   \* trojita-imap-limit-active-tasks
    MaxTasks,           \* bound: how many tasks are created
    MaxRefusals         \* bound: how often the server says NO

ASSUME LimitAssumption == LimitActiveTasks \in Nat /\ LimitActiveTasks >= 2
ASSUME BoundsAssumption == MaxTasks \in Nat /\ MaxRefusals \in Nat

VARIABLES
    m,          \* the Model and its tasks, see Blank and Init
    selected,   \* the mailbox that the server has selected, or NoMailbox
    refusals    \* so far

vars == <<m, selected, refusals>>

Task == 1..MaxTasks
None == 0                   \* a null pointer; as a command: LOGOUT
NoMailbox == "no mailbox"

\* The classes: open stands for OpenConnectionTask, any for GetAnyConnectionTask, list
\* for the tasks on top of it, plain for those that work in a mailbox; copy, store and
\* expunge are the three steps of a move on a server without MOVE but with UIDPLUS.
Kinds == {"open", "keep", "obtain", "any", "list", "plain", "copy", "store", "expunge"}
Slots == {"slotPerformConnection", "slotActivateTasks", "terminate", "runReadyTasks"}
Failures == {"none", "addDependentTask", "perform", "terminate", "noParser", "deleted",
             "synchronizeConn", "unhandled"}

\* The fields of the classes under their names; sync is synchronizeConn, keepChild
\* keepTaskChild, obtains, waiting, noMailbox and running are waitingObtainTasks,
\* dependingTasksForThisMailbox, dependingTasksNoMailbox and runningTasksForThisMailbox,
\* newConn whether it is set; watchers: the Keeps whose slotTaskDeleted is connected;
\* early: a Keep that was created while the connection was being set up.
Blank ==
    [kind |-> "none", mailbox |-> NoMailbox, parent |-> None, deps |-> <<>>,
     finished |-> FALSE, dead |-> FALSE, aborted |-> FALSE, life |-> "none",
     sync |-> None, keepChild |-> None, shouldExit |-> FALSE, isRunning |-> FALSE,
     obtains |-> <<>>, waiting |-> <<>>, noMailbox |-> <<>>, running |-> <<>>,
     newConn |-> FALSE, watchers |-> <<>>, early |-> FALSE]

Init ==
    /\ m = [task |-> [t \in Task |-> Blank], n |-> 0,
            conn |-> "none",            \* the only parser with its connState
            active |-> <<>>,            \* activeTasks
            maintaining |-> None,       \* ParserState::maintainingTask
            of |-> [b \in Mailboxes |-> None],  \* TreeItemMailbox::maintainingTask
            sent |-> <<>>,              \* commands without an answer, each by its task
            posted |-> <<>>,            \* zero timers
            dying |-> <<>>,             \* deleteLater
            failed |-> "none"]
    /\ selected = NoMailbox /\ refusals = 0

----------------------------------------------------------------------------
(* What the methods do to a Model s. *)

Fail(s, where) == IF s.failed = "none" THEN [s EXCEPT !.failed = where] ELSE s
Require(s, condition, where) == IF condition THEN s ELSE Fail(s, where)
Exists(s, t) == s.task[t].life = "alive"
Uses(s, t) == Require(s, t = None \/ Exists(s, t), "deleted")
Post(s, slot, t) == [s EXCEPT !.posted = Append(@, <<slot, t>>)]
Send(s, t) == [s EXCEPT !.sent = Append(@, t)]

Created(s, t, kind, b) ==
    [s EXCEPT !.task[t] = [Blank EXCEPT !.kind = kind, !.mailbox = b, !.life = "alive"], !.n = @ + 1]

\* killAllPendingTasks goes to these, and on from each that has not been finished before.
Pending(s, t) ==
    LET r == s.task[t]
    IN  IF r.kind = "keep" THEN ToSet(r.waiting) \cup ToSet(r.noMailbox) \cup ToSet(r.obtains)
        ELSE ToSet(r.deps)
Doomed(s, roots) ==
    LET reached[i \in 0..MaxTasks] ==
            IF i = 0 THEN roots
            ELSE reached[i - 1] \cup UNION {Pending(s, t) : t \in {u \in reached[i - 1] : ~s.task[u].finished}}
    IN  reached[MaxTasks]
Detach(s, keeps) ==
    [s EXCEPT !.of = [b \in Mailboxes |-> IF s.of[b] \in keeps THEN None ELSE s.of[b]]]
Die(s, roots) ==
    LET doomed == Doomed(s, roots)
    IN  Detach([s EXCEPT !.task = [t \in Task |->
                    IF t \in doomed THEN [s.task[t] EXCEPT !.dead = TRUE, !.finished = TRUE]
                    ELSE s.task[t]]], doomed)
Failed(s, t) == Die([s EXCEPT !.task[t].finished = TRUE], Pending(s, t))

\* markAsActiveTask
MarkAsActive(s, t) ==
    LET parent == s.task[t].parent
        used == Require(Uses(Uses(s, parent), s.maintaining), s.conn # "gone", "noParser")
        left == IF parent = None THEN used
                ELSE [used EXCEPT !.task[parent].deps = Remove(@, t), !.task[t].parent = None]
        on == [left EXCEPT !.active = Append(@, t)]
    IN  IF s.maintaining \in {None, t} THEN on
        ELSE [on EXCEPT !.task[t].watchers = Append(@, s.maintaining)]

\* ImapTask::addDependentTask, updateParentTask
AddDependent(s, parent, t) ==
    [Require(Uses(s, parent), s.task[t].parent = None /\ ~Contains(s.active, t), "addDependentTask")
        EXCEPT !.task[parent].deps = Append(@, t), !.task[t].parent = parent]

HasPendingInternalActions(s, k) ==
    s.task[k].waiting # <<>> \/ s.task[k].noMailbox # <<>> \/ s.task[k].running # <<>>
\* synchronizeConn is not reset when it fails, and is looked at last, when the rest holds.
SyncFinished(s, k) == s.task[k].sync = None \/ s.task[s.task[k].sync].finished
LookAtSync(s, k) ==
    Require(s, \/ ~s.task[k].shouldExit \/ HasPendingInternalActions(s, k)
               \/ s.task[k].sync = None \/ Exists(s, s.task[k].sync), "synchronizeConn")
IsReadyToTerminate(s, k) ==
    s.task[k].shouldExit /\ ~HasPendingInternalActions(s, k) /\ SyncFinished(s, k)

\* Mutant of AddSuccessor: a Keep with nothing to do does not make way.
AddSuccessorLater(s, k, t) ==
    [AddDependent(s, k, t) EXCEPT !.task[k].obtains = Append(@, t), !.task[k].shouldExit = TRUE]
\* KeepMailboxOpenTask::addDependentTask, for a successor and for any other task
AddSuccessor(s, k, t) ==
    LET waits == LookAtSync([AddDependent(s, k, t) EXCEPT !.task[k].obtains = Append(@, t),
                                                          !.task[k].shouldExit = TRUE], k)
    IN  IF IsReadyToTerminate(waits, k) THEN Post(waits, "terminate", k) ELSE waits
AddToKeep(s, k, t) ==
    LET waits == [AddDependent(s, k, t) EXCEPT !.task[t].watchers = Append(@, k)]
    IN  Post(IF s.task[t].kind = "any"
             THEN [waits EXCEPT !.task[k].noMailbox = Append(@, t)]
             ELSE [waits EXCEPT !.task[k].waiting = Append(@, t)], "slotActivateTasks", k)

----------------------------------------------------------------------------
(* perform(), from the leaves of the tree upwards. *)

\* A task whose work is one command.
PerformCommand(s, t) ==
    LET on == MarkAsActive(s, t)
    IN  IF s.task[t].dead \/ s.task[t].aborted THEN Failed(on, t) ELSE Send(on, t)

\* _completed(), for a task with dependents of that sort
Complete(s, t, Perform(_, _)) ==
    FoldLeft(LAMBDA r, u : IF r.task[u].finished THEN r ELSE Perform(r, u),
             [s EXCEPT !.task[t].finished = TRUE], s.task[t].deps)

\* GetAnyConnectionTask may be active before, when there was nothing to wait for.
PerformAny(s, t) ==
    LET on == IF s.task[t].newConn THEN MarkAsActive(s, t) ELSE s
    IN  IF s.task[t].dead \/ s.task[t].aborted THEN Failed(on, t)
        ELSE Complete(on, t, PerformCommand)

\* activateTasks: one waiting task, and all of both sorts
Activate(s, k, t) ==
    IF Len(s.active) >= LimitActiveTasks THEN s
    ELSE LET freed == [s EXCEPT !.task[k].deps = Remove(@, t)]
         IN  IF s.task[t].kind = "any"
             THEN PerformAny([freed EXCEPT !.task[k].noMailbox = Tail(@)], t)
             ELSE PerformCommand([freed EXCEPT !.task[k].waiting = Tail(@),
                                               !.task[k].running = Append(@, t)], t)
\* Mutant of ActivateTasks: it does not look whether the mailbox is open.
ActivateTasksAtOnce(s, k) ==
    FoldLeft(LAMBDA r, t : Activate(r, k, t), s, s.task[k].waiting \o s.task[k].noMailbox)
ActivateTasks(s, k) ==
    IF ~s.task[k].isRunning THEN s
    ELSE FoldLeft(LAMBDA r, t : Activate(r, k, t), s, s.task[k].waiting \o s.task[k].noMailbox)

\* KeepMailboxOpenTask::perform
PerformKeep(s, k) ==
    LET sync == s.task[k].sync
        begun == [MarkAsActive(Require(s, Exists(s, sync) /\ s.task[sync].finished, "perform"), k)
                     EXCEPT !.task[k].sync = None, !.task[k].isRunning = TRUE]
    IN  ActivateTasks([begun EXCEPT !.task[k].shouldExit = @ \/ s.task[k].obtains # <<>>], k)

\* ObtainSynchronizedMailboxTask::perform and KeepMailboxOpenTask::slotPerformConnection
PerformObtain(s, t) ==
    LET on == MarkAsActive(s, t)
    IN  IF s.task[t].dead \/ s.task[t].aborted THEN Die(Failed(on, t), {t}) ELSE Send(on, t)
SlotPerformConnection(s, k) ==
    LET sync == s.task[k].sync
        ok == Require(Uses(s, sync), sync # None /\ ~s.task[sync].finished, "perform")
    IN  IF ok.failed # "none" THEN ok
        ELSE IF s.task[k].dead THEN Die(Failed(ok, k), {sync})
        ELSE PerformObtain([ok EXCEPT !.task[sync].watchers = Append(@, k)], sync)

\* OpenConnectionTask's dependents
PerformOnOpen(s, t) == IF s.task[t].kind = "any" THEN PerformAny(s, t) ELSE PerformObtain(s, t)

\* Mutant of HandOn: those behind still have the old Keep for their parent.
HandOnParent(s, k) ==
    LET first == Head(s.task[k].obtains)
        rest == Tail(s.task[k].obtains)
        next == s.task[first].keepChild
    IN  SlotPerformConnection([s EXCEPT
            !.task[k].obtains = rest,
            !.task[k].deps = SelectSeq(@, LAMBDA d : d # first /\ ~Contains(rest, d)),
            !.task[next].obtains = rest \o @, !.task[next].deps = @ \o rest,
            !.maintaining = next], next)
\* terminate(): the first of those who wait goes on with the others behind it.
HandOn(s, k) ==
    LET first == Head(s.task[k].obtains)
        rest == Tail(s.task[k].obtains)
        next == s.task[first].keepChild
        moved == [Require(s, s.conn # "gone", "noParser") EXCEPT
            !.task = [t \in Task |->
                CASE t = k -> [s.task[k] EXCEPT !.obtains = rest,
                                 !.deps = SelectSeq(@, LAMBDA d : d # first /\ ~Contains(rest, d))]
                  [] t = next -> [s.task[next] EXCEPT !.obtains = rest \o @, !.deps = @ \o rest]
                  [] Contains(rest, t) -> [s.task[t] EXCEPT !.parent = next]
                  [] OTHER -> s.task[t]],
            !.maintaining = next]
    IN  SlotPerformConnection(moved, next)
Terminate(s, k) ==
    IF s.task[k].aborted THEN s
    ELSE LET left == [Detach(s, {k}) EXCEPT !.task[k].aborted = TRUE, !.task[k].isRunning = FALSE]
             idle == Require(left, ~HasPendingInternalActions(s, k), "terminate")
             ended == IF idle.failed = "none" /\ s.task[k].obtains # <<>> THEN HandOn(idle, k)
                      ELSE Require(idle, s.task[k].deps = <<>>, "terminate")
         IN  [ended EXCEPT !.task[k].finished = TRUE]

\* slotTaskDeleted
SlotTaskDeleted(s, k, t) ==
    LET r == s.task[k]
        forgot == LookAtSync([s EXCEPT !.task[k] =
                                 [r EXCEPT !.deps = Remove(@, t), !.waiting = Remove(@, t),
                                           !.noMailbox = Remove(@, t), !.running = Remove(@, t)]], k)
    IN  IF r.finished THEN s
        ELSE IF s.conn = "gone" THEN Die(Failed(s, k), {k})
        ELSE ActivateTasks(IF IsReadyToTerminate(forgot, k) THEN Terminate(forgot, k) ELSE forgot, k)

----------------------------------------------------------------------------
(* The Model. *)

\* removeDeletedTasks and runReadyTasks: GetAnyConnectionTasks that wait for nothing run,
\* then whatever has finished leaves.
IsReadyToRun(s, t) == s.task[t].kind = "any" /\ ~s.task[t].finished /\ ~s.task[t].newConn
Sweep(s) ==
    LET ran == FoldLeft(LAMBDA r, t : IF IsReadyToRun(r, t) THEN PerformAny(r, t) ELSE r, s, s.active)
        over == SelectSeq(ran.active, LAMBDA t : ran.task[t].finished)
    IN  [ran EXCEPT !.active = SelectSeq(@, LAMBDA t : ~ran.task[t].finished),
                    !.dying = @ \o over]

Usable == m.conn \notin {"logout", "gone"} /\ m.failed = "none"
\* A connection and the two further tasks of each move fit in, too.
Copying == {t \in 1..m.n : m.task[t].kind = "copy" /\ ~m.task[t].finished}
Room(count) ==
    Usable /\ m.n + count + (IF m.conn = "none" THEN 1 ELSE 0) + 2 * Cardinality(Copying) <= MaxTasks

\* A new connection; its task is the first of the active ones.
Open(s, t) == [Created(s, t, "open", NoMailbox) EXCEPT !.conn = "connecting", !.active = <<t>>,
                                                        !.sent = <<t>>]

\* The constructors of KeepMailboxOpenTask and ObtainSynchronizedMailboxTask: tasks
\* n + 1, n + 2 and, for a new connection, n + 3.
NewKeep(s, b) ==
    LET k == s.n + 1
        t == s.n + 2
        made == [Created(Created(s, k, "keep", b), t, "obtain", b)
                    EXCEPT !.of[b] = k, !.task[k].sync = t, !.task[t].keepChild = k,
                           !.task[k].early = s.conn = "connecting" /\ s.maintaining = None]
        parented ==
            CASE s.conn = "none" ->
                    AddDependent([Open(made, s.n + 3) EXCEPT !.maintaining = k], s.n + 3, t)
              [] s.conn # "none" /\ s.maintaining # None -> AddSuccessor(made, s.maintaining, t)
              [] s.maintaining = None /\ s.conn = "connecting" -> AddDependent(made, Head(s.active), t)
              [] OTHER -> Post([made EXCEPT !.maintaining = k], "slotPerformConnection", k)
        whole == AddDependent(parented, t, k)
    IN  [whole EXCEPT !.task = [u \in Task |->
            IF Contains(s.active, u) THEN [whole.task[u] EXCEPT !.watchers = Append(@, k)]
            ELSE whole.task[u]]]

\* findTaskResponsibleFor
FindTask(s, b) == IF s.of[b] = None THEN NewKeep(s, b) ELSE s

Client(s) == m' = s /\ UNCHANGED <<selected, refusals>>

\* switchToMailbox and resyncMailbox
SwitchToMailbox(b) ==
    /\ Room(2) /\ m.of[b] = None
    /\ Client(NewKeep(m, b))
ResyncMailbox(b) ==
    /\ Room(2) /\ m.of[b] # None /\ m.task[m.of[b]].isRunning
    /\ Client(NewKeep(m, b))

\* The constructors of the tasks that work in a mailbox: FetchMsgMetadataTask,
\* UpdateFlagsTask, CopyMoveMessagesTask and so on.
WorkIn(b, kind) ==
    /\ Room((IF m.of[b] = None THEN 3 ELSE 1) + (IF kind = "copy" THEN 2 ELSE 0))
    /\ LET found == FindTask(m, b)
           t == found.n + 1
       IN  Client(AddToKeep(Created(found, t, kind, b), found.of[b], t))

\* The constructors of GetAnyConnectionTask and of a task that waits for it.
WorkAnywhere ==
    /\ Room(2)
    /\ LET any == m.n + 1
           made == Created(m, any, "any", NoMailbox)
           placed ==
             CASE m.conn = "none" -> [AddDependent(Open(made, m.n + 2), m.n + 2, any)
                                        EXCEPT !.task[any].newConn = TRUE]
               [] m.maintaining # None -> [AddToKeep(Uses(made, m.maintaining), m.maintaining, any)
                                             EXCEPT !.task[any].newConn = TRUE]
               [] m.maintaining = None /\ m.conn = "connecting" ->
                      AddDependent(made, Head(m.active), any)
               [] OTHER -> Post(MarkAsActive(made, any), "runReadyTasks", None)
           list == placed.n + 1
       IN  Client(AddDependent(Created(placed, list, "list", NoMailbox), any, list))

----------------------------------------------------------------------------
(* The event loop. *)

Alive == m.failed = "none"

\* Zero timers fire in their order, unless their object does not exist any more; what goes
\* with a connection is deleted before that (Qt sends posted events first).
TimerReady == Alive /\ m.posted # <<>> /\ (m.conn = "gone" => m.dying = <<>>)
Posted ==
    /\ TimerReady
    /\ LET s == [m EXCEPT !.posted = Tail(@)]
           slot == Head(m.posted)[1]
           k == Head(m.posted)[2]
       IN  Client(CASE slot = "runReadyTasks" -> IF m.conn = "gone" THEN s ELSE Sweep(s)
                    [] slot # "runReadyTasks" /\ ~Exists(m, k) -> s
                    [] slot = "terminate" /\ Exists(m, k) -> Terminate(s, k)
                    [] slot = "slotActivateTasks" /\ Exists(m, k) -> ActivateTasks(s, k)
                    [] slot = "slotPerformConnection" /\ Exists(m, k) -> SlotPerformConnection(s, k))

\* deleteLater: slotTaskDying and the slotTaskDeleted of whoever is connected.
DeletionReady == Alive /\ m.dying # <<>>
Destroyed ==
    /\ DeletionReady
    /\ LET t == Head(m.dying)
           told == FoldLeft(LAMBDA s, k : IF Exists(s, k) /\ k # t THEN SlotTaskDeleted(s, k, t) ELSE s,
                            [m EXCEPT !.dying = Tail(@), !.active = Remove(@, t)], m.task[t].watchers)
       IN  Client([Detach(told, {t}) EXCEPT !.task[t] = [Blank EXCEPT !.life = "deleted"]])

\* The tagged answer to a command.  What was asked of a server comes back in this order.
Handled(s, t) ==
    LET kind == s.task[t].kind
    IN  CASE kind = "open" /\ ~s.task[t].dead -> Complete([s EXCEPT !.conn = "authenticated"], t, PerformOnOpen)
          [] kind = "obtain" /\ ~s.task[t].dead -> Complete([s EXCEPT !.conn = "selected"], t, PerformKeep)
          [] kind \in {"open", "obtain", "copy"} /\ s.task[t].dead -> Failed(s, t)
          [] kind = "copy" /\ ~s.task[t].dead ->
                LET store == s.n + 1
                    expunge == s.n + 2
                    made == Created(Created(s, store, "store", s.task[t].mailbox), expunge, "expunge", s.task[t].mailbox)
                IN  Complete(AddDependent(AddDependent(made, t, store), store, expunge), t, PerformCommand)
          [] OTHER -> Complete(s, t, PerformCommand)
Refused(s, t) ==
    Failed([s EXCEPT !.conn = IF s.task[t].kind = "obtain" /\ ~s.task[t].dead THEN "authenticated"
                              ELSE @], t)

Answered(t, refused) ==
    LET s == [m EXCEPT !.sent = Tail(@)]
    IN  IF Contains(m.active, t) THEN Sweep(IF refused THEN Refused(s, t) ELSE Handled(s, t))
        ELSE Sweep(Require(s, m.conn = "logout", "unhandled"))

\* responseReceived.  What the server does with a command can wait until its answer is
\* handled: nobody else sees it.
AnswerReady == Alive /\ m.sent # <<>> /\ Head(m.sent) # None
Answer ==
    /\ AnswerReady
    /\ LET t == Head(m.sent)
           r == m.task[t]
       IN  \/ /\ m' = Answered(t, FALSE) /\ UNCHANGED refusals
              /\ selected' = IF r.kind = "obtain" THEN r.mailbox ELSE selected
           \/ /\ r.kind \notin {"open", "none"} /\ refusals < MaxRefusals
              /\ refusals' = refusals + 1 /\ m' = Answered(t, TRUE)
              /\ selected' \in IF r.kind = "obtain" THEN {NoMailbox, r.mailbox} ELSE {selected}

\* Any untagged response: finished tasks leave.
Untagged ==
    /\ Alive /\ m.conn \notin {"none", "gone"} /\ Sweep(m) # m /\ Client(Sweep(m))

\* setNetworkPolicy(NETWORK_OFFLINE), stopForLogout
StopForLogout(s, k) == Die([Detach(s, {k}) EXCEPT !.task[k].aborted = TRUE], Pending(s, k))
GoOffline ==
    /\ Alive /\ m.conn \notin {"none", "logout", "gone"}
    /\ LET stopped == IF m.maintaining = None THEN m
                      ELSE StopForLogout(Uses(m, m.maintaining), m.maintaining)
       IN  Client([Send(Die(stopped, ToSet(m.active)), None) EXCEPT !.conn = "logout"])

\* killParser, for its expected end and at the end of responseReceived
Killed(s) ==
    [Die(s, ToSet(s.active)) EXCEPT !.conn = "gone", !.sent = <<>>, !.active = <<>>,
                                    !.dying = @ \o s.active]

\* The answer to LOGOUT; LOGOUT itself is sent after all zero timers of before.
LogoutReady == Alive /\ m.sent # <<>> /\ Head(m.sent) = None /\ m.posted = <<>>
LogoutAnswered ==
    /\ LogoutReady
    /\ Client(Killed(Sweep(m)))

\* handleSocketDisconnectedResponse
SocketDisconnected ==
    /\ Alive /\ m.conn \notin {"none", "gone"} /\ Client(Killed(Sweep(m)))

User == \E b \in Mailboxes : \/ SwitchToMailbox(b) \/ ResyncMailbox(b)
                             \/ WorkIn(b, "plain") \/ WorkIn(b, "copy")
EventLoop == Posted \/ Destroyed \/ Answer \/ Untagged \/ LogoutAnswered
Next == User \/ WorkAnywhere \/ EventLoop \/ GoOffline \/ SocketDisconnected

\* Weak fairness of the event loop and of the server's answers, with ENABLED written out
\* (TLC takes hours to find it by itself).  Users and networks need not do anything.
Fairness ==
    /\ []<>~TimerReady \/ []<><<Posted>>_vars
    /\ []<>~DeletionReady \/ []<><<Destroyed>>_vars
    /\ []<>~AnswerReady \/ []<><<Answer>>_vars
    /\ []<>~LogoutReady \/ []<><<LogoutAnswered>>_vars
Spec == Init /\ [][Next]_vars
FairSpec == Spec /\ Fairness

----------------------------------------------------------------------------
(* Properties. *)

\* Types of the whole state.
TypeOK ==
    /\ m.task \in [Task ->
          [kind : Kinds \cup {"none"}, mailbox : Mailboxes \cup {NoMailbox}, parent : Task \cup {None},
           deps : Seq(Task), finished : BOOLEAN, dead : BOOLEAN, aborted : BOOLEAN,
           life : {"none", "alive", "deleted"}, sync : Task \cup {None},
           keepChild : Task \cup {None}, shouldExit : BOOLEAN, isRunning : BOOLEAN,
           obtains : Seq(Task), waiting : Seq(Task), noMailbox : Seq(Task), running : Seq(Task),
           newConn : BOOLEAN, watchers : Seq(Task), early : BOOLEAN]]
    /\ m.n \in 0..MaxTasks
    /\ m.conn \in {"none", "connecting", "authenticated", "selected", "logout", "gone"}
    /\ m.active \in Seq(Task) /\ m.maintaining \in Task \cup {None}
    /\ m.of \in [Mailboxes -> Task \cup {None}] /\ m.sent \in Seq(Task \cup {None})
    /\ m.posted \in Seq(Slots \X (Task \cup {None})) /\ m.dying \in Seq(Task)
    /\ m.failed \in Failures
    /\ selected \in Mailboxes \cup {NoMailbox} /\ refusals \in 0..MaxRefusals

\* What these kinds of tasks have sent is carried out in their own mailbox: it is the one
\* selected and no other is about to be selected before.
InMailbox(kinds) ==
    \A i \in DOMAIN m.sent :
        m.sent[i] # None /\ m.task[m.sent[i]].kind \in kinds =>
            /\ selected = m.task[m.sent[i]].mailbox
            /\ \A j \in 1..(i - 1) : m.sent[j] # None => m.task[m.sent[j]].kind # "obtain"

\* A command that names messages reaches the server while the mailbox of these messages is
\* selected, whoever wants the connection meanwhile, is refused it or leaves (isReadyToTerminate,
\* slotPerformConnection, activateTasks).  Not so after a mailbox was opened before the
\* connection was ready, and not for UID EXPUNGE, the last step of a move.
RightMailbox ==
    (\A t \in Task : ~m.task[t].early) => InMailbox({"plain", "copy", "store"})

\* SELECT was refused, and the Keep that remains responsible for the connection is dead.
Stuck == refusals > 0 /\ m.maintaining # None /\ m.task[m.maintaining].dead

\* The assertions of Model::checkTaskTreeConsistency, with the rule of KeepMailboxOpenTask.h
\* that a task has a parent exactly as long as that parent lists it: nobody waits for a
\* task that does not know of it, or that is gone.  And no answer is left to nobody, no
\* deleted task is used, and a task finds its parser and its synchronizeConn in the state
\* that it asserts.  Not so after the connection broke, or when a SELECT was refused and the
\* Keep that goes on maintaining the mailbox is dead: its synchronizeConn has been deleted.
TreeConsistent ==
    /\ TypeOK
    /\ m.failed \notin {"addDependentTask", "deleted", "unhandled"}
    /\ m.failed \in {"perform", "synchronizeConn"} => Stuck
    /\ m.failed = "noParser" => m.conn = "gone"
    /\ Alive /\ m.conn # "gone" =>
          /\ \A i, j \in DOMAIN m.active : i # j => m.active[i] # m.active[j]
          /\ \A i \in DOMAIN m.active :
                Exists(m, m.active[i]) /\ m.task[m.active[i]].parent = None
          /\ \A t \in Task : Exists(m, t) /\ ~m.task[t].finished =>
                LET parent == m.task[t].parent
                IN  /\ parent # None => Exists(m, parent) /\ Contains(m.task[parent].deps, t)
                    /\ \A d \in ToSet(m.task[t].deps) : Exists(m, d) /\ m.task[d].parent = t

\* Everybody is served in the end: each task is finished, or keeps its mailbox open with nobody
\* waiting for the connection (addDependentTask, terminate, slotTaskDeleted, killParser).
\* Not so when everybody waits for a dead Keep (Stuck).
Served(t) ==
    \/ m.task[t].life # "alive" \/ m.task[t].finished
    \/ m.task[t].isRunning /\ ~m.task[t].shouldExit
AllServed == <>[](~Alive \/ Stuck \/ \A t \in Task : Served(t))

\* "We'll also register with the model, so that all other KeepMailboxOpenTask which could get
\* constructed in future know about us and don't step on our toes."  A Keep that is created
\* while the connection is being set up does not, and the next mailbox is selected over it.
NobodyOnOurToes == InMailbox({"plain"})
=============================================================================
