----------------------------- MODULE Submission -----------------------------
(***************************************************************************)
(* Sending a message: Composer::Submission with the IMAP tasks that it     *)
(* starts and the mail submission agents (MSA) that it creates, one for    *)
(* each attempt; none is deleted before the composer's window.  The user   *)
(* edits the message between attempts, so the number of an attempt stands  *)
(* for its text; a UID and a URL stand for the text that they name.        *)
(* The servers, the sendmail process and the user are external.            *)
(***************************************************************************)
EXTENDS SmtpClient, FiniteSets

CONSTANTS
    Configs,        \* the accounts and servers to choose from, see AllConfigs
    MaxAttempts     \* bound: how often the user presses "Send"

\* kind: how to send; what the IMAP server supports; for SMTP: whether to use STARTTLS and
\* the password; reply: the message replies to another one, whose flags are to be updated
AllConfigs ==
    [kind : {"smtp", "sendmail", "imap"}, catenate : BOOLEAN, urlauth : BOOLEAN,
     startTls : BOOLEAN, auth : {"none", "stored", "ask"}, reply : BOOLEAN]
ASSUME ConfigAssumption == Configs \subseteq AllConfigs
ASSUME AttemptAssumption == MaxAttempts \in Nat

VARIABLES
    config,         \* the account and what the servers support; does not change
    sub,            \* the members of Submission, see Submissions
    msas,           \* the MSAs in the order of their creation
    tasks,          \* the IMAP tasks that are running
    dialogs,        \* passwordRequested: dialogs that the user has to answer
    attempt,        \* how many attempts there were
    enabled,        \* the composer's widgets are enabled
    window,         \* the composer: "open", "closing" (sent), "closed"
    excuses         \* "later": a server has said 421, "crash": sendmail has crashed

vars == <<config, sub, msas, tasks, dialogs, attempt, enabled, window, excuses>>

States == {"INIT", "SAVING", "PREPARING_URLAUTH", "SUBMITTING", "UPDATING_FLAGS", "SENT", "FAILED"}
Ended == {"INIT", "SENT", "FAILED"}
Texts == 0..MaxAttempts     \* 0: no text at all

\* uid, url: m_appendUid with its UIDVALIDITY, m_urlauth; uidReceived, urlReceived:
\* m_appendUidReceived, m_genUrlAuthReceived; raw: m_rawMessageData
Submissions ==
    [state : States, uid : Texts, uidReceived : BOOLEAN, url : Texts, urlReceived : BOOLEAN,
     raw : Texts, burl : BOOLEAN]

\* attempt: that it is for; text, command: what it was asked to send and how; process: sendmail's; accepted: how
\* often that was accepted for delivery; cancelled: the user has closed its dialog.
Msas == [client : Clients, attempt : Texts, text : Texts, command : {"mail", "burl"},
         process : {"none", "running", "failing"}, accepted : Nat, cancelled : BOOLEAN]

\* done: the server has done it, for GENURLAUTH it has sent the URL; msa: for "submit"
Tasks == [kind : {"append", "genurlauth", "submit", "flags"}, text : Texts, done : BOOLEAN, msa : Nat]

Init ==
    /\ config \in Configs
    /\ sub = [state |-> "INIT", uid |-> 0, uidReceived |-> FALSE, url |-> 0, urlReceived |-> FALSE,
              raw |-> 0, burl |-> FALSE]
    /\ msas = <<>> /\ tasks = {} /\ dialogs = 0 /\ attempt = 0
    /\ enabled = TRUE /\ window = "open" /\ excuses = {}

ImapSubmit == config.kind = "imap"
Task(kind, text, msa) == [kind |-> kind, text |-> text, done |-> FALSE, msa |-> msa]

----------------------------------------------------------------------------
(* The slots of Submission.  A step that calls them describes the new      *)
(* values of sub, tasks, enabled and window as one record.                 *)

Now == [sub |-> sub, tasks |-> tasks, enabled |-> enabled, window |-> window]
Update(now) == sub' = now.sub /\ tasks' = now.tasks /\ enabled' = now.enabled /\ window' = now.window

\* gotError, and ComposeWidget::gotError
GotError(now) == [now EXCEPT !.sub.state = "FAILED", !.enabled = TRUE]
\* "succeeded", and ComposeWidget::sent
Succeeded(now) == [now EXCEPT !.sub.state = "SENT", !.window = "closing"]
\* Mutant of Sent: the flags of the message that was replied to make it succeed, or not.
SentForgetting(now) ==
    IF config.reply THEN [now EXCEPT !.sub.state = "UPDATING_FLAGS"] ELSE Succeeded(now)
\* sent
Sent(now) ==
    IF config.reply
    THEN [now EXCEPT !.sub.state = "UPDATING_FLAGS", !.tasks = @ \cup {Task("flags", attempt, 0)}]
    ELSE Succeeded(now)

\* What the signals of an MSA do, in their order
Handle(now, signal) == IF signal = "sent" THEN Sent(now) ELSE GotError(now)
HandleAll(now, signals) ==
    LET after[i \in 0..Len(signals)] == IF i = 0 THEN now ELSE Handle(after[i - 1], signals[i])
    IN  after[Len(signals)]
Quiet(k) == [k EXCEPT !.signals = <<>>]

\* What SMTP enqueues for one message
Dialog(command) ==
    <<"connect">> \o (IF config.startTls THEN <<"starttls">> ELSE <<>>)
    \o (IF config.auth # "none" THEN <<"auth">> ELSE <<>>) \o <<command, "quit">>

UsesBurl(s) == s.urlReceived /\ s.burl
NewMsa(s) ==
    [client |-> NewClient, attempt |-> attempt', text |-> IF UsesBurl(s) THEN s.url ELSE s.raw,
     command |-> IF UsesBurl(s) THEN "burl" ELSE "mail",
     process |-> "none", accepted |-> 0, cancelled |-> FALSE]

\* slotInvokeMsaNow, and the sendMail, sendBurl or sendImap of the new MSA
InvokeMsa(now) ==
    LET s == now.sub
        submitting == [now EXCEPT !.sub.state = "SUBMITTING"]
        msa == NewMsa(s)
        waiting == [NewClient EXCEPT !.waiting = TRUE]
    IN  CASE ImapSubmit /\ s.uidReceived ->
                 /\ msas' = Append(msas, [msa EXCEPT !.text = s.uid])
                 /\ Update([submitting EXCEPT !.tasks = @ \cup {Task("submit", s.uid, Len(msas) + 1)}])
                 /\ UNCHANGED dialogs
          [] (ImapSubmit /\ ~s.uidReceived) \/ (config.kind = "sendmail" /\ UsesBurl(s)) ->
                 msas' = Append(msas, msa) /\ Update(GotError(submitting)) /\ UNCHANGED dialogs
          [] config.kind = "sendmail" /\ ~UsesBurl(s) ->
                 /\ msas' = Append(msas, [msa EXCEPT !.process = "running"])
                 /\ Update(submitting) /\ UNCHANGED dialogs
          [] config.kind = "smtp" /\ config.auth = "ask" ->
                 /\ msas' = Append(msas, [msa EXCEPT !.client = waiting])
                 /\ Update(submitting) /\ dialogs' = dialogs + 1
          [] OTHER ->
                 /\ msas' = Append(msas, [msa EXCEPT !.client =
                                             SendContinueGotPassword(waiting, Dialog(msa.command))])
                 /\ Update(submitting) /\ UNCHANGED dialogs

\* A slot that does not create an MSA
NoMsa(now) == Update(now) /\ UNCHANGED <<msas, dialogs>>
Elsewhere == UNCHANGED <<config, attempt, excuses>>

----------------------------------------------------------------------------
(* The user. *)

\* shouldBuildMessageLocally
BuildLocally(burl) ==
    IF ImapSubmit THEN ~config.catenate ELSE ~(burl /\ config.catenate /\ config.urlauth)

\* ComposeWidget::send, setImapOptions, setSmtpOptions, send, slotMessageDataAvailable; the
\* settings dialog keeps "save" when BURL or IMAP needs it; built: no attachment has disappeared
Send == \E save, burl, built \in BOOLEAN :
    LET useBurl == burl /\ config.urlauth
        raw == IF BuildLocally(useBurl) /\ built THEN attempt + 1 ELSE 0
        started == [Now EXCEPT !.enabled = FALSE, !.sub.burl = useBurl, !.sub.raw = raw]
    IN  /\ window = "open" /\ enabled /\ attempt < MaxAttempts
        /\ ImapSubmit \/ burl => save
        /\ attempt' = attempt + 1
        /\ CASE ~built -> NoMsa(GotError(started))
             [] built /\ save ->
                    NoMsa([started EXCEPT !.sub.state = "SAVING", !.sub.uidReceived = FALSE,
                                          !.sub.urlReceived = FALSE,
                                          !.tasks = @ \cup {Task("append", attempt + 1, 0)}])
             [] OTHER -> InvokeMsa(started)
        /\ UNCHANGED <<config, excuses>>

\* setPassword: every MSA of this composer gets the password.
SetPassword ==
    /\ window # "closed" /\ dialogs > 0 /\ dialogs' = dialogs - 1
    /\ msas' = [i \in DOMAIN msas |->
                   IF msas[i].client.waiting
                   THEN [msas[i] EXCEPT !.client = SendContinueGotPassword(@, Dialog(msas[i].command))]
                   ELSE msas[i]]
    /\ UNCHANGED <<sub, tasks, enabled, window>> /\ Elsewhere

\* cancelPassword: every MSA is cancelled, those that do not wait, too.
CancelPassword ==
    /\ window # "closed" /\ dialogs > 0 /\ dialogs' = dialogs - 1
    /\ msas' = [i \in DOMAIN msas |->
                   [msas[i] EXCEPT !.client = Quiet(Cancel(@)), !.cancelled = @ \/ msas[i].client.waiting]]
    /\ Update(IF \A i \in DOMAIN msas : Cancel(msas[i].client).signals = <<>> THEN Now ELSE GotError(Now))
    /\ Elsewhere

\* The window closes because the message is sent, or because the user closes it: Submission
\* and the MSAs are deleted with it.
CloseWindow ==
    /\ window # "closed" /\ window' = "closed" /\ dialogs' = 0 /\ msas' = <<>> /\ tasks' = {}
    /\ UNCHANGED <<sub, enabled>> /\ Elsewhere

----------------------------------------------------------------------------
(* The IMAP tasks. *)

Without(t) == [Now EXCEPT !.tasks = @ \ {t}]
Done(t) == [Now EXCEPT !.tasks = (@ \ {t}) \cup {[t EXCEPT !.done = TRUE]}]
Running(t) == t \in tasks

\* Mutant of AppendSucceeded: it asks for a URL and does not wait for it.
AppendSucceededBoth(t) == \E uid \in {0, t.text} :
    LET known == [Without(t) EXCEPT !.sub.uid = IF uid = 0 THEN @ ELSE uid]
        received == [known EXCEPT !.sub.uidReceived = TRUE]
    IN  /\ Running(t) /\ t.kind = "append" /\ Elsewhere
        /\ InvokeMsa(IF known.sub.uid # 0 /\ known.sub.burl
                     THEN [received EXCEPT !.tasks = @ \cup {Task("genurlauth", known.sub.uid, 0)}]
                     ELSE received)
\* AppendTask completes, its OK with or without APPENDUID: slotAppendUidKnown and
\* slotAppendSucceeded, which takes the UID of an earlier attempt for this one's.
AppendSucceeded(t) == \E uid \in {0, t.text} :
    LET known == [Without(t) EXCEPT !.sub.uid = IF uid = 0 THEN @ ELSE uid]
        received == [known EXCEPT !.sub.uidReceived = TRUE]
    IN  /\ Running(t) /\ t.kind = "append" /\ Elsewhere
        /\ CASE known.sub.uid = 0 -> InvokeMsa([known EXCEPT !.sub.burl = FALSE])
             [] known.sub.uid # 0 /\ known.sub.burl ->
                    NoMsa([received EXCEPT !.sub.state = "PREPARING_URLAUTH",
                                           !.tasks = @ \cup {Task("genurlauth", known.sub.uid, 0)}])
             [] OTHER -> InvokeMsa(received)

\* The untagged GENURLAUTH: slotGenUrlAuthReceived; the URL may be empty.
UrlAuthReceived(t) == \E url \in {0, t.text} :
    LET got == [Done(t) EXCEPT !.sub.url = url, !.sub.urlReceived = @ \/ url # 0]
    IN  /\ Running(t) /\ t.kind = "genurlauth" /\ ~t.done /\ Elsewhere
        /\ IF url = 0 THEN NoMsa(GotError(got)) ELSE InvokeMsa(got)

UrlAuthCompleted(t) == Running(t) /\ t.kind = "genurlauth" /\ t.done /\ NoMsa(Without(t)) /\ Elsewhere

\* UidSubmitTask: the server takes the message, its OK makes the MSA emit "sent".
Submitted(t) ==
    /\ Running(t) /\ t.kind = "submit" /\ ~t.done
    /\ Update(Done(t)) /\ msas' = [msas EXCEPT ![t.msa].accepted = @ + 1]
    /\ UNCHANGED dialogs /\ Elsewhere
SubmitCompleted(t) ==
    Running(t) /\ t.kind = "submit" /\ t.done /\ NoMsa(Sent(Without(t))) /\ Elsewhere

\* UpdateFlagsTask completes or fails: onUpdatingFlagsOfReplyingToSucceded, ...Failed
FlagsUpdated(t) == Running(t) /\ t.kind = "flags" /\ NoMsa(Succeeded(Without(t))) /\ Elsewhere

\* The server refuses, or the connection is lost, even after it did what it was asked for.
TaskFails(t) == Running(t) /\ t.kind # "flags" /\ NoMsa(GotError(Without(t))) /\ Elsewhere

TaskEnds(t) == AppendSucceeded(t) \/ UrlAuthCompleted(t) \/ SubmitCompleted(t) \/ FlagsUpdated(t) \/ TaskFails(t)

----------------------------------------------------------------------------
(* The MSAs. *)

\* What becomes of MSA i's client
Becomes(i, k) ==
    /\ msas' = [msas EXCEPT ![i].client = Quiet(k)] /\ Update(HandleAll(Now, k.signals))
    /\ UNCHANGED <<dialogs, config, attempt>>

Connected(i) ==
    /\ msas[i].client.socket = "connecting"
    /\ Becomes(i, [msas[i].client EXCEPT !.socket = "up", !.owes = TRUE]) /\ UNCHANGED excuses

\* The server's answer, and its delivery
Reply(i) == \E line \in {"ok", "no", "later"} :
    LET k == msas[i].client
    IN  /\ k.socket = "up" /\ k.owes
        /\ line = "later" => Head(k.queue) \in {"mail", "burl"} /\ k.stage = 0
        /\ msas' = [msas EXCEPT ![i].client = [@ EXCEPT !.line = line, !.owes = FALSE],
                                ![i].accepted = IF line = "ok" /\ Accepting(k) THEN @ + 1 ELSE @]
        /\ UNCHANGED <<sub, tasks, enabled, window, dialogs>> /\ Elsewhere

Receive(i) == \E atOnce \in BOOLEAN :
    /\ msas[i].client.socket = "up" /\ msas[i].client.line # ""
    /\ Becomes(i, Received(msas[i].client, atOnce))
    /\ excuses' = excuses \cup {e \in {"later"} : msas[i].client.line = "later"}

\* The connection breaks or cannot be opened; an answer may be lost.
Break(i) ==
    /\ msas[i].client.socket \in {"connecting", "up", "closing"}
    /\ Becomes(i, OnError(msas[i].client)) /\ UNCHANGED excuses

\* disconnectFromHost is done.
Disconnected(i) ==
    /\ msas[i].client.socket = "closing"
    /\ Becomes(i, OnDisconnected(msas[i].client)) /\ UNCHANGED excuses

\* Sendmail::handleError and handleFinished: the process does not start, cannot be written
\* to or crashes, and ends; when it has crashed, its exit code may be 0.
ProcessError(i) == \E why \in {"start", "write", "crash"} :
    /\ msas[i].process = "running"
    /\ msas' = [msas EXCEPT ![i].process = IF why = "start" THEN "none" ELSE "failing"]
    /\ excuses' = excuses \cup {e \in {"crash"} : why = "crash"}
    /\ Update(GotError(Now)) /\ UNCHANGED <<dialogs, config, attempt>>
ProcessFinished(i) == \E sent, accepted \in BOOLEAN :
    /\ msas[i].process # "none"
    /\ sent /\ "crash" \notin excuses => accepted
    /\ msas' = [msas EXCEPT ![i].process = "none", ![i].accepted = IF accepted THEN @ + 1 ELSE @]
    /\ Update(IF sent THEN Sent(Now) ELSE GotError(Now)) /\ UNCHANGED dialogs /\ Elsewhere

MsaWorks(i) ==
    i \in DOMAIN msas /\ (Connected(i) \/ Reply(i) \/ Receive(i) \/ Break(i) \/ Disconnected(i)
                     \/ ProcessError(i) \/ ProcessFinished(i))

Next ==
    \/ Send \/ SetPassword \/ CancelPassword \/ CloseWindow
    \/ \E t \in tasks : UrlAuthReceived(t) \/ Submitted(t) \/ TaskEnds(t)
    \/ \E i \in DOMAIN msas : MsaWorks(i)

\* Every task and every MSA gets an answer or loses its connection; the user answers dialogs.
TaskWorks(text) == \E t \in tasks : t.text = text /\ (UrlAuthReceived(t) \/ Submitted(t) \/ TaskEnds(t))
Fairness ==
    /\ \A text \in Texts : WF_vars(TaskWorks(text))
    /\ \A i \in 1..MaxAttempts : WF_vars(MsaWorks(i))
    /\ WF_vars(SetPassword \/ CancelPassword)

Spec == Init /\ [][Next]_vars
FairSpec == Spec /\ Fairness

----------------------------------------------------------------------------
(* Properties. *)

\* Types of the whole state.
TypeOK ==
    /\ config \in Configs /\ sub \in Submissions /\ msas \in Seq(Msas) /\ tasks \subseteq Tasks
    /\ dialogs \in Nat /\ attempt \in Texts /\ enabled \in BOOLEAN
    /\ window \in {"open", "closing", "closed"} /\ excuses \subseteq {"later", "crash"}

\* One press of "Send" delivers the message at most once, whatever fails, and however many
\* dialogs of this and of other attempts are answered (sendContinueGotPassword, isWaitingForPassword);
\* and not at all if the user has cancelled it in time, not even when the password that another
\* attempt asks for is given to all of them (SMTP::cancel, SMTP::setPassword).
OncePerAttempt ==
    /\ TypeOK
    /\ Len(msas) <= attempt
    /\ \A i \in DOMAIN msas : msas[i].accepted <= IF msas[i].cancelled THEN 0 ELSE 1

\* "Message sent" is said of a message that somebody has accepted (handleDone, sent), unless
\* a server has said 421 or sendmail has crashed: QwwSmtpClient and QProcess contradict themselves then.
SentIsDelivered ==
    sub.state = "SENT" /\ excuses = {} /\ window # "closed" => \E i \in DOMAIN msas : msas[i].accepted > 0

\* Every attempt ends, with success or with an error, and the composer can be used again
\* (changeConnectionState, gotError): nothing waits for an answer that does not come.
Ends == sub.state \notin Ended ~> sub.state \in Ended \/ window = "closed"

\* shouldBuildMessageLocally: "Unless all of URLAUTH, CATENATE and BURL is present and enabled,
\* we will still have to download the data in the end": what is sent is the message of
\* the attempt, not that of an earlier one and not nothing at all.
SendsComposed == \A i \in DOMAIN msas : msas[i].accepted > 0 => msas[i].text = msas[i].attempt
=============================================================================
