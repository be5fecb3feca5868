----------------------------- MODULE SmtpClient -----------------------------
(***************************************************************************)
(* MSA::SMTP and its QwwSmtpClient: what each event does to one of them.   *)
(* A client is a record; the signals that it emits are collected in        *)
(* "signals", for Submission to handle in their order.  The replies of the *)
(* server are "ok", "no" and "later" (421).                                *)
(***************************************************************************)
EXTENDS Naturals, Sequences

SmtpCommands == {"connect", "starttls", "auth", "mail", "burl", "quit"}

\* waiting, failed: of SMTP; queue, stage (of the queue's head), inProgress: of
\* QwwSmtpClientPrivate; owes: the server has to answer; line: its answer, unread.
Clients ==
    [waiting : BOOLEAN, failed : BOOLEAN, queue : Seq(SmtpCommands), stage : 0..3,
     inProgress : BOOLEAN, socket : {"idle", "connecting", "up", "closing", "closed"},
     owes : BOOLEAN, line : {"", "ok", "no", "later"}, signals : Seq({"sent", "error"})]

NewClient ==
    [waiting |-> FALSE, failed |-> FALSE, queue |-> <<>>, stage |-> 0, inProgress |-> FALSE,
     socket |-> "idle", owes |-> FALSE, line |-> "", signals |-> <<>>]

Signal(k, s) == [k EXCEPT !.signals = Append(@, s)]

\* Mutant of HandleDone: contradicting results are passed on.
HandleDoneAgain(k, ok) == IF ok THEN Signal(k, "sent") ELSE Signal([k EXCEPT !.failed = TRUE], "error")
\* SMTP::handleDone: after a failure, further results are ignored.
HandleDone(k, ok) ==
    CASE k.failed -> k
      [] ~k.failed /\ ok -> Signal(k, "sent")
      [] OTHER -> Signal([k EXCEPT !.failed = TRUE], "error")
\* SMTP::handleError
HandleError(k) == Signal([k EXCEPT !.failed = TRUE], "error")

\* The socket is gone: onDisconnected
OnDisconnected(k) ==
    LET idle == [k EXCEPT !.inProgress = FALSE, !.socket = "closed", !.owes = FALSE, !.line = ""]
    IN  IF k.queue = <<>> \/ Head(k.queue) = "quit" THEN HandleDone(idle, TRUE)
        ELSE HandleDone([idle EXCEPT !.queue = <<>>], FALSE)
\* The result that follows, when the socket also says that it is disconnected, is ignored.
OnError(k) == OnDisconnected(HandleError(k))

\* sendQuit; with nothing left to write, the socket may be disconnected at once.
SendQuit(k, atOnce) ==
    CASE k.socket # "up" -> k
      [] k.socket = "up" /\ atOnce -> OnDisconnected(k)
      [] OTHER -> [k EXCEPT !.socket = "closing", !.owes = FALSE]

\* processNextCommand
ProcessNext(k, atOnce) ==
    LET dequeued == IF k.inProgress /\ k.queue # <<>> THEN [k EXCEPT !.queue = Tail(@)] ELSE k
        next == [dequeued EXCEPT !.stage = 0]
    IN  IF next.queue = <<>> THEN HandleDone([next EXCEPT !.inProgress = FALSE], FALSE)
        ELSE LET started == CASE Head(next.queue) = "connect" -> [next EXCEPT !.socket = "connecting"]
                              [] Head(next.queue) = "quit" -> SendQuit(next, atOnce)
                              [] OTHER -> [next EXCEPT !.owes = (next.socket = "up")]
             IN  [started EXCEPT !.inProgress = TRUE]

\* connectToHost, startTls, authenticate, sendMail, sendMailBurl, disconnectFromHost
Enqueue(k, commands) ==
    LET queued == [k EXCEPT !.queue = @ \o commands]
    IN  IF k.inProgress THEN queued ELSE ProcessNext(queued, FALSE)

\* SMTP::sendContinueGotPassword
SendContinueGotPassword(k, commands) == Enqueue([k EXCEPT !.waiting = FALSE], commands)

\* SMTP::cancel
Cancel(k) ==
    LET left == Enqueue(k, <<"quit">>)
    IN  IF left.failed THEN left ELSE HandleError(left)

\* A mail is accepted with the answer to its text or to its URL.
LastStage(command) == IF command = "burl" THEN 2 ELSE 3
Accepting(k) == k.queue # <<>> /\ Head(k.queue) \in {"mail", "burl"} /\ k.stage = LastStage(Head(k.queue))

\* _q_readFromSocket, for one reply.  What Connect does not expect is ignored, and so is
\* everything after HELO, as "state==2" compares the wrong variable there.
Received(k, atOnce) ==
    LET head == Head(k.queue)
        read == [k EXCEPT !.line = ""]
        on(stage) == [read EXCEPT !.stage = stage, !.owes = TRUE]
        done == ProcessNext(read, atOnce)
    IN  IF k.queue = <<>> THEN read
        ELSE CASE head = "connect" /\ k.stage = 0 -> IF k.line = "ok" THEN on(1) ELSE read
               [] head = "connect" /\ k.stage = 1 -> IF k.line = "ok" THEN done ELSE on(2)
               [] head = "starttls" /\ k.line = "ok" -> IF k.stage = 0 THEN on(1) ELSE done
               [] head = "auth" /\ k.line = "ok" -> done
               [] head \in {"starttls", "auth"} /\ k.line # "ok" -> HandleDone(read, FALSE)
               [] head \in {"mail", "burl"} /\ k.line = "ok" ->
                      IF Accepting(k) THEN done ELSE on(k.stage + 1)
               [] head \in {"mail", "burl"} /\ k.line = "later" /\ k.stage = 0 ->
                      ProcessNext(HandleDone(done, FALSE), atOnce)
               [] head \in {"mail", "burl"} /\ k.line # "ok" /\ ~(k.line = "later" /\ k.stage = 0) ->
                      ProcessNext(HandleDone(read, FALSE), atOnce)
               [] OTHER -> read
=============================================================================
