----------------------------- MODULE Connection -----------------------------
(***************************************************************************)
(* Opening, losing and leaving connections: OpenConnectionTask, the gates  *)
(* of the Parser's command queue and of its reading, the Model's handling  *)
(* of states, capabilities, passwords, TLS decisions and of the network    *)
(* policy, which the NetworkWatcher sets.  Each action is one call from    *)
(* the event loop.  There may be several connections: those in LOGOUT and  *)
(* one that is usable.  The server, the socket, the user and the system's  *)
(* network are external; the server follows the protocol, but may refuse   *)
(* any command and may leave or be cut off at any time.                    *)
(***************************************************************************)
EXTENDS Naturals, Sequences, FiniteSets

CONSTANTS
    Conn,           \* names for the connections that exist at a time
    Methods,        \* the account's methods to choose from: "plain", "starttls", "ssl"
    CapSets,        \* the lists of capabilities that the server may announce
    MaxOpened,      \* bound: how many connections are opened
    MaxRefusals,    \* bound: how many commands the server refuses
    MaxLosses       \* bound: how often the server, the network or the user leaves

Capabilities == {"IMAP4REV1", "STARTTLS", "LOGINDISABLED", "COMPRESS=DEFLATE"}
ASSUME CapAssumption == CapSets \subseteq SUBSET Capabilities
ASSUME MethodsAssumption == Methods \subseteq {"plain", "starttls", "ssl"}
ASSUME BoundsAssumption == MaxOpened \in Nat /\ MaxRefusals \in Nat /\ MaxLosses \in Nat

VARIABLES
    method,         \* how the account connects
    conn,           \* the connections, see Connections
    policy,         \* Model::m_netPolicy: "online" (or expensive) or "offline"
    hasPassword,    \* Model::m_hasImapPassword
    asked,          \* the dialogs that the user has to answer: for the password, about TLS
    sslPolicy,      \* m_sslErrorPolicy for the server's chain: "unknown", "accept", "reject"
    desired,        \* NetworkWatcher::m_desiredPolicy
    online,         \* the system is online
    session,        \* QNetworkSession: "closed", "opening", "open"
    opened, refusals, losses,   \* so far
    failures        \* the states in which a TLS decision has come unexpected

user == <<hasPassword, asked, sslPolicy>>
network == <<desired, online, session>>
counters == <<opened, refusals, losses>>
changing == <<conn, policy, user, network, counters, failures>>
vars == <<method, changing>>

StartTls == method = "starttls"     \* Model::m_startTls
Encrypted == method = "ssl"         \* SslTlsSocket with startEncrypted

\* ConnectionState, in its order; CONN_STATE_HOST_LOOKUP is CONNECTING, "gone": not in m_parsers.
States == <<"NONE", "CONNECTING", "SSL_HANDSHAKE", "SSL_VERIFYING", "CONNECTED_PRETLS_PRECAPS",
            "CONNECTED_PRETLS", "STARTTLS_ISSUED", "STARTTLS_HANDSHAKE", "STARTTLS_VERIFYING",
            "ESTABLISHED_PRECAPS", "LOGIN", "POSTAUTH_PRECAPS", "COMPRESS_DEFLATE",
            "AUTHENTICATED", "LOGOUT">>
Rank(state) == CHOOSE i \in DOMAIN States : States[i] = state
StateNames == {States[i] : i \in DOMAIN States}
Out == {"gone", "LOGOUT"}
Deciding == {"SSL_VERIFYING", "STARTTLS_VERIFYING"}

\* A command is its own tag; "other": what the tasks send that waited for this one.
Commands == {"CAPABILITY", "STARTTLS", "LOGIN", "COMPRESS", "LOGOUT", "other"}
Untagged == "*"

Phases == {"plain", "secure", "authenticated"}
NoCaps == [set |-> {}, phase |-> "none"]
CapLists == [set : CapSets, phase : Phases] \cup {NoCaps}
\* What the Parser reads and what the Model handles.
Line(tag, kind, caps) == [tag |-> tag, kind |-> kind, caps |-> caps]
Lines == [tag : Commands \cup {Untagged},
          kind : {"OK", "NO", "BAD", "BYE", "PREAUTH", "CAPABILITY", "encrypted", "disconnected"},
          caps : CapLists]

\* Conditions of the Parser that stop its queue: waitingForConnection,
\* waitingForEncryption, waitingForSslPolicy, startTlsInProgress, compressDeflateInProgress.
Gates == {"connection", "encryption", "policy", "starttls", "compress"}

\* The fields: of ParserState (active: OpenConnectionTask is in activeTasks), of
\* OpenConnectionTask (cmd: the tag that it waits for, chain: it knows the
\* certificates), of Parser (reply: finishStartTls waits with this answer), the socket,
\* the server's phase and the commands that it has received and not answered.
Connections ==
    [state : StateNames \cup {"gone"}, active : BOOLEAN, fresh : BOOLEAN, caps : CapLists,
     logoutCmd : BOOLEAN, finished : BOOLEAN, dead : BOOLEAN, cmd : Commands \cup {""},
     chain : BOOLEAN, queue : Seq(Commands), gates : SUBSET Gates, reply : {"", "OK", "NO"},
     unread : Seq(Lines), respQueue : Seq(Lines),
     socket : {"idle", "connecting", "handshake", "garbled", "up", "down"},
     server : Phases \cup {"greeting", "leaving"}, received : Seq(Commands)]

Gone ==
    [state |-> "gone", active |-> FALSE, fresh |-> FALSE, caps |-> NoCaps, logoutCmd |-> FALSE,
     finished |-> FALSE, dead |-> FALSE, cmd |-> "", chain |-> FALSE, queue |-> <<>>,
     gates |-> {}, reply |-> "", unread |-> <<>>, respQueue |-> <<>>, socket |-> "idle",
     server |-> "greeting", received |-> <<>>]

\* OpenConnectionTask and Parser, as constructed
New == [Gone EXCEPT !.state = "NONE", !.active = TRUE,
                    !.gates = {"connection"} \cup (IF Encrypted THEN {"encryption"} ELSE {})]

Init ==
    /\ method \in Methods /\ conn = [c \in Conn |-> Gone] /\ policy = "offline"
    /\ hasPassword \in BOOLEAN /\ asked = [password |-> 0, ssl |-> 0] /\ sslPolicy \in {"unknown", "accept"}
    /\ desired = "offline" /\ online \in BOOLEAN /\ session = "closed"
    /\ opened = 0 /\ refusals = 0 /\ losses = 0 /\ failures = {}

----------------------------------------------------------------------------
(* What calls do to one connection. *)

Queue(k, command) == [k EXCEPT !.queue = Append(@, command)]
Wait(k, command) == [Queue(k, command) EXCEPT !.cmd = command]
Fail(k) == [k EXCEPT !.finished = TRUE]     \* _failed

\* setNetworkPolicy(NETWORK_OFFLINE), for each connection
LoggedOut(k) ==
    IF k.state \in Out THEN k
    ELSE [Queue(k, "LOGOUT") EXCEPT !.state = "LOGOUT", !.logoutCmd = TRUE,
                                    !.dead = k.active, !.finished = @ \/ k.active]

\* Mutant of Authenticate: the capabilities of before the login count as those of after it.
AuthenticateKeeping(k) == IF hasPassword THEN Wait(k, "LOGIN") ELSE [k EXCEPT !.cmd = ""]
\* askForAuth
Authenticate(k) == IF hasPassword THEN [Wait(k, "LOGIN") EXCEPT !.fresh = FALSE]
                   ELSE [k EXCEPT !.cmd = ""]
LoginNow(k) == [Authenticate(k) EXCEPT !.state = "LOGIN"]
AskCapability(k, state) == [Wait(k, "CAPABILITY") EXCEPT !.state = state]

\* onComplete, and the commands of the tasks that depend on this one
Complete(k) == [Queue(k, "other") EXCEPT !.state = "AUTHENTICATED", !.finished = TRUE]
CompleteOrCompress(k) ==
    IF "COMPRESS=DEFLATE" \in k.caps.set
    THEN [Wait(k, "COMPRESS") EXCEPT !.state = "COMPRESS_DEFLATE"]
    ELSE Complete(k)

\* startTlsOrLoginNow; Refuse is its "Server does not support STARTTLS"
WantsTls(k) == StartTls \/ "LOGINDISABLED" \in k.caps.set
Refuse(k) == WantsTls(k) /\ "STARTTLS" \notin k.caps.set
StartTlsOrLogin(k) ==
    IF WantsTls(k) THEN [Wait(k, "STARTTLS") EXCEPT !.state = "STARTTLS_ISSUED"] ELSE LoginNow(k)

\* Mutant of Accepted: the Parser is not unfrozen after STARTTLS.
AcceptedFrozen(k) ==
    CASE k.state = "SSL_VERIFYING" -> [k EXCEPT !.state = "CONNECTED_PRETLS_PRECAPS", !.gates = @ \ {"policy"}]
      [] k.state = "STARTTLS_VERIFYING" ->
             [AskCapability(k, "ESTABLISHED_PRECAPS") EXCEPT !.fresh = FALSE]
      [] OTHER -> k
\* sslConnectionPolicyDecided(true); a failed assertion is recorded by the caller
Accepted(k) ==
    LET decided == CASE k.state = "SSL_VERIFYING" ->
                            [k EXCEPT !.state = "CONNECTED_PRETLS_PRECAPS"]
                     [] k.state = "STARTTLS_VERIFYING" ->
                            [AskCapability(k, "ESTABLISHED_PRECAPS") EXCEPT !.fresh = FALSE]
                     [] OTHER -> k
    IN  [decided EXCEPT !.gates = @ \ {"policy"}]
\* and (false), for the first such connection: logout(), then the Parser is unfrozen
Rejected(k) == [LoggedOut(k) EXCEPT !.gates = @ \ {"policy"}]

\* Handlers leave the connections as conns; removeDeletedTasks and runReadyTasks.
Swept(conns) == [c \in Conn |-> [conns[c] EXCEPT !.active = @ /\ ~conns[c].finished]]
Becomes(c, k) == conn' = Swept([conn EXCEPT ![c] = k]) /\ UNCHANGED policy
BecomesOffline(c, k) ==
    /\ conn' = Swept([d \in Conn |-> LoggedOut(IF d = c THEN k ELSE conn[d])])
    /\ policy' = "offline"

----------------------------------------------------------------------------
(* Opening a connection; the socket. *)

\* GetAnyConnectionTask, when no connection is usable
Open(c) ==
    /\ policy = "online" /\ \A d \in Conn : conn[d].state \in Out
    /\ conn[c].state = "gone" /\ opened < MaxOpened /\ opened' = opened + 1
    /\ conn' = [conn EXCEPT ![c] = New]
    /\ UNCHANGED <<policy, user, network, refusals, losses, failures>>

Local == UNCHANGED <<policy, user, network, counters, failures>>
Update(c, k) == conn' = [conn EXCEPT ![c] = k]

\* Model::handleSocketStateChanged
Reached(k, state) == IF k.state # "gone" /\ Rank(k.state) < Rank(state)
                     THEN [k EXCEPT !.state = state] ELSE k

Start(c) ==
    /\ conn[c].state # "gone" /\ conn[c].socket = "idle"
    /\ Update(c, [Reached(conn[c], "CONNECTING") EXCEPT !.socket = "connecting"]) /\ Local

\* The peer is there; the signal that says so, Announce, may come after its first line.
Connected(c) ==
    /\ conn[c].socket = "connecting"
    /\ IF Encrypted
       THEN Update(c, [Reached(conn[c], "SSL_HANDSHAKE") EXCEPT !.socket = "handshake"])
       ELSE Update(c, [conn[c] EXCEPT !.socket = "up"])
    /\ Local

\* slotSocketStateChanged
Announce(c) ==
    /\ conn[c].socket = "up" /\ "connection" \in conn[c].gates
    /\ Update(c, [Reached(conn[c], "CONNECTED_PRETLS_PRECAPS") EXCEPT !.gates = @ \ {"connection"}])
    /\ Local

Respond(k, line) == [k EXCEPT !.respQueue = Append(@, line)]

\* handleSocketEncrypted
HandleSocketEncrypted(c) ==
    /\ conn[c].socket = "handshake"
    /\ Update(c, [Respond(conn[c], Line(Untagged, "encrypted", NoCaps)) EXCEPT
                     !.socket = "up", !.gates = (@ \ {"encryption", "connection"}) \cup {"policy"},
                     !.server = IF Encrypted THEN @ ELSE "secure"])
    /\ Local

\* The connection breaks, because the server leaves or STARTTLS was begun without it.
Disconnect(c) ==
    /\ conn[c].socket \in {"connecting", "handshake", "garbled", "up"}
    /\ IF conn[c].server = "leaving" \/ conn[c].socket = "garbled" THEN UNCHANGED losses
       ELSE losses < MaxLosses /\ losses' = losses + 1
    /\ Update(c, [Respond(conn[c], Line(Untagged, "disconnected", NoCaps)) EXCEPT !.socket = "down"])
    /\ UNCHANGED <<policy, user, network, opened, refusals, failures>>

----------------------------------------------------------------------------
(* The Parser. *)

ReadingIsOpen(k) == k.gates \cap {"encryption", "policy"} = {} /\ k.unread # <<>>

\* handleReadyRead: the answer to STARTTLS waits for finishStartTls.
Read(c) ==
    LET k == conn[c]
        line == Head(k.unread)
        rest == [k EXCEPT !.unread = Tail(@)]
    IN  /\ ReadingIsOpen(k)
        /\ IF "starttls" \in k.gates /\ line.tag = "STARTTLS"
           THEN Update(c, [rest EXCEPT !.reply = line.kind])
           ELSE Update(c, [Respond(rest, line) EXCEPT
                              !.gates = IF line.tag = "COMPRESS" THEN @ \ {"compress"} ELSE @])
        /\ Local

\* finishStartTls begins the handshake whatever the answer was.
FinishStartTls(c) ==
    /\ conn[c].reply # "" /\ conn[c].socket = "up"
    /\ Update(c, [Respond(conn[c], Line("STARTTLS", conn[c].reply, NoCaps)) EXCEPT
                     !.reply = "", !.queue = Tail(@),
                     !.gates = (@ \ {"starttls"}) \cup {"encryption"},
                     !.socket = IF conn[c].reply = "OK" THEN "handshake" ELSE "garbled"])
    /\ Local

\* Mutant of Execute: commands are sent while COMPRESS is in progress.
ExecutePipelining(c) ==
    /\ conn[c].gates \subseteq {"compress"} /\ conn[c].queue # <<>> /\ conn[c].socket = "up"
    /\ LET command == Head(conn[c].queue)
           sent == [conn[c] EXCEPT !.received = Append(@, command)]
       IN  Update(c, CASE command = "STARTTLS" -> [sent EXCEPT !.gates = {"starttls"}]
                       [] command = "COMPRESS" -> [sent EXCEPT !.gates = {"compress"}, !.queue = Tail(@)]
                       [] OTHER -> [sent EXCEPT !.queue = Tail(@)])
    /\ Local
\* executeCommands, executeACommand: STARTTLS stays in the queue until it is finished.
Execute(c) ==
    /\ conn[c].gates = {} /\ conn[c].queue # <<>> /\ conn[c].socket = "up"
    /\ LET command == Head(conn[c].queue)
           sent == [conn[c] EXCEPT !.received = Append(@, command)]
       IN  Update(c, CASE command = "STARTTLS" -> [sent EXCEPT !.gates = {"starttls"}]
                       [] command = "COMPRESS" -> [sent EXCEPT !.gates = {"compress"}, !.queue = Tail(@)]
                       [] OTHER -> [sent EXCEPT !.queue = Tail(@)])
    /\ Local

----------------------------------------------------------------------------
(* The Model and OpenConnectionTask handle a response. *)

\* The response at the head of the queue, and the connection without it.
Resp(c) == Head(conn[c].respQueue)
Taken(c) == [conn[c] EXCEPT !.respQueue = Tail(@)]
Handled == UNCHANGED <<network, counters, failures>>
Plugged(c) == conn[c].state # "gone" /\ conn[c].respQueue # <<>>
Kill(c) == Becomes(c, Gone)
KillAndLeave(c) == BecomesOffline(c, Gone)
SameUser == UNCHANGED user
Ask(dialog) == asked' = [asked EXCEPT ![dialog] = @ + 1]

\* updateCapabilities; a server without IMAP4rev1 is left at once.
Learned(k, line) ==
    IF line.caps = NoCaps THEN k ELSE [k EXCEPT !.caps = line.caps, !.fresh = TRUE]
Foreign(line) == line.caps # NoCaps /\ "IMAP4REV1" \notin line.caps.set
LeftForeign(k) == [Queue(k, "LOGOUT") EXCEPT !.state = "LOGOUT", !.logoutCmd = TRUE]

Capability(c) ==
    /\ Plugged(c) /\ Resp(c).kind = "CAPABILITY"
    /\ LET k == Learned(Taken(c), Resp(c))
       IN  IF Foreign(Resp(c)) THEN BecomesOffline(c, LeftForeign(k)) ELSE Becomes(c, k)
    /\ SameUser /\ Handled

Disconnected(c) ==
    /\ Plugged(c) /\ Resp(c).kind = "disconnected"
    /\ IF conn[c].logoutCmd \/ conn[c].state = "LOGOUT" THEN Kill(c) ELSE KillAndLeave(c)
    /\ SameUser /\ Handled

\* Mutant of Verifying: the state is not changed before the user is asked.
VerifyingStill(state) == state
Verifying(state) == IF state = "SSL_HANDSHAKE" THEN "SSL_VERIFYING" ELSE "STARTTLS_VERIFYING"

\* handleSocketEncryptedResponse and processSslErrors
SocketEncrypted(c) ==
    /\ Plugged(c) /\ Resp(c).kind = "encrypted" /\ Handled
    /\ LET k == [Taken(c) EXCEPT !.state = Verifying(@), !.chain = TRUE]
       IN  IF conn[c].active /\ conn[c].state \in {"SSL_HANDSHAKE", "STARTTLS_HANDSHAKE"}
           THEN CASE sslPolicy = "accept" -> Becomes(c, Accepted(k)) /\ SameUser
                  [] sslPolicy = "reject" -> BecomesOffline(c, Rejected(k)) /\ SameUser
                  [] OTHER -> Becomes(c, k) /\ Ask("ssl")
                              /\ UNCHANGED <<hasPassword, sslPolicy>>
           ELSE Kill(c) /\ SameUser

\* Model::handleState, for what the task does not want
ModelHandlesState(c) ==
    LET k == Taken(c)
        line == Resp(c)
    IN  /\ SameUser
        /\ CASE line.tag = "LOGOUT" -> Kill(c)
             [] line.kind = "BYE" -> IF k.logoutCmd THEN Kill(c) ELSE KillAndLeave(c)
             [] line.tag \in {Untagged, "other"} \/ k.state = "LOGOUT" -> Becomes(c, k)
             [] OTHER -> KillAndLeave(c)

IsState(line) == line.kind \in {"OK", "NO", "BAD", "BYE", "PREAUTH"}
NotMine(k, line) == Rank(k.state) > Rank("CONNECTED_PRETLS_PRECAPS") /\ line.tag = Untagged

\* The greeting, which may overtake the signal that the socket is connected
Greeting(c) ==
    LET k == Learned(Taken(c), Resp(c))
        line == Resp(c)
    IN  CASE line.kind = "PREAUTH" ->
                 Becomes(c, IF k.fresh THEN CompleteOrCompress(k)
                            ELSE AskCapability(k, "POSTAUTH_PRECAPS"))
          [] line.kind = "OK" ->
                 IF k.fresh /\ Refuse(k) THEN BecomesOffline(c, Fail(k))
                 ELSE Becomes(c, IF k.fresh THEN StartTlsOrLogin(k)
                                 ELSE AskCapability(k, "CONNECTED_PRETLS"))
          [] line.kind = "BAD" -> BecomesOffline(c, Fail([k EXCEPT !.state = "LOGOUT"]))
          [] OTHER -> BecomesOffline(c, Fail(k))

\* The answer to CAPABILITY, in three states
CapabilityResult(c) ==
    LET k == Taken(c)
        ok == k.fresh /\ Resp(c).kind = "OK"
    IN  CASE ~ok -> BecomesOffline(c, Fail(k))
          [] ok /\ k.state = "CONNECTED_PRETLS" ->
                 IF Refuse(k) THEN BecomesOffline(c, Fail(k)) ELSE Becomes(c, StartTlsOrLogin(k))
          [] ok /\ k.state = "ESTABLISHED_PRECAPS" ->
                 IF "LOGINDISABLED" \in k.caps.set THEN BecomesOffline(c, Fail(k))
                 ELSE Becomes(c, LoginNow(k))
          [] OTHER -> Becomes(c, Complete(k))

\* The answer to LOGIN
LoginResult(c) ==
    LET k == [Learned(Taken(c), Resp(c)) EXCEPT !.cmd = ""]
    IN  IF Resp(c).kind = "OK"
        THEN /\ Becomes(c, IF k.fresh THEN CompleteOrCompress(k)
                           ELSE AskCapability(k, "POSTAUTH_PRECAPS"))
             /\ SameUser
        ELSE /\ Becomes(c, k)
             /\ hasPassword' = FALSE /\ Ask("password") /\ UNCHANGED sslPolicy

\* LoginNow without a password asks the user for one.
AsksPassword(c) ==
    IF ~hasPassword /\ conn[c].state # "LOGIN" /\ conn'[c].state = "LOGIN"
    THEN Ask("password") /\ UNCHANGED <<hasPassword, sslPolicy>>
    ELSE SameUser

\* OpenConnectionTask::handleState, when the Model gives it a response
TaskHandlesState(c) ==
    LET k == Taken(c)
        line == Resp(c)
    IN  CASE k.dead -> Becomes(c, Fail(k)) /\ SameUser
          [] ~k.dead /\ NotMine(k, line) -> ModelHandlesState(c)
          [] ~k.dead /\ k.state \in {"NONE", "CONNECTING", "CONNECTED_PRETLS_PRECAPS"} ->
                 Greeting(c) /\ AsksPassword(c)
          [] ~k.dead /\ line.tag # Untagged /\ k.state \in {"CONNECTED_PRETLS", "ESTABLISHED_PRECAPS", "POSTAUTH_PRECAPS"} ->
                 CapabilityResult(c) /\ AsksPassword(c)
          [] ~k.dead /\ line.tag # Untagged /\ k.state = "STARTTLS_ISSUED" ->
                 /\ SameUser
                 /\ IF line.kind = "OK" THEN Becomes(c, [k EXCEPT !.state = "STARTTLS_HANDSHAKE"])
                    ELSE BecomesOffline(c, Fail(k))
          [] ~k.dead /\ line.tag # Untagged /\ k.state = "LOGIN" -> LoginResult(c)
          [] ~k.dead /\ line.tag # Untagged /\ k.state = "COMPRESS_DEFLATE" ->
                 Becomes(c, Complete(k)) /\ SameUser
          [] OTHER -> KillAndLeave(c) /\ SameUser

\* The response code is handled before the state, also by a task that is dead.
HandleState(c) ==
    /\ Plugged(c) /\ IsState(Resp(c)) /\ Handled
    /\ CASE ~conn[c].active -> ModelHandlesState(c)
         [] conn[c].active /\ Foreign(Resp(c)) ->
                /\ SameUser
                /\ IF conn[c].dead \/ (Resp(c).tag = Untagged /\ Resp(c).kind # "PREAUTH")
                   THEN BecomesOffline(c, LeftForeign(Learned(Taken(c), Resp(c))))
                   ELSE KillAndLeave(c)
         [] OTHER -> TaskHandlesState(c)

----------------------------------------------------------------------------
(* The user. *)

Answered(dialog) == asked[dialog] > 0 /\ asked' = [asked EXCEPT ![dialog] = @ - 1]

\* setSslPolicy informs the tasks that know the chain; one that does not wait for it hits
\* Q_ASSERT(false), which a release build passes over.
Informed == {c \in Conn : conn[c].active /\ conn[c].chain}
Surprised == {c \in Informed : conn[c].state \notin Deciding}
SetSslPolicy(decision) ==
    /\ Answered("ssl") /\ sslPolicy' = decision
    /\ failures' = failures \cup {conn[c].state : c \in Surprised}
    /\ UNCHANGED <<hasPassword, network, counters>>

Unfrozen(k) == [k EXCEPT !.gates = @ \ {"policy"}]
AcceptSsl ==
    /\ SetSslPolicy("accept") /\ UNCHANGED policy
    /\ conn' = [c \in Conn |-> IF c \in Informed THEN Accepted(conn[c]) ELSE conn[c]]
RejectSsl ==
    /\ SetSslPolicy("reject")
    /\ policy' = IF Surprised = Informed THEN policy ELSE "offline"
    /\ LET after(c) == IF Surprised = Informed THEN conn[c] ELSE LoggedOut(conn[c])
       IN  conn' = [c \in Conn |-> IF c \in Informed THEN Unfrozen(after(c)) ELSE after(c)]

\* authCredentialsNowAvailable
WaitsForPassword(k) == k.active /\ k.state = "LOGIN" /\ k.cmd = ""

SetImapPassword ==
    /\ Answered("password") /\ hasPassword' = TRUE
    /\ conn' = [c \in Conn |-> IF WaitsForPassword(conn[c])
                              THEN [Wait(conn[c], "LOGIN") EXCEPT !.fresh = FALSE] ELSE conn[c]]
    /\ UNCHANGED <<policy, sslPolicy, network, counters, failures>>

UnsetImapPassword ==
    /\ Answered("password") /\ hasPassword' = FALSE
    /\ IF \E c \in Conn : WaitsForPassword(conn[c])
       THEN conn' = [c \in Conn |-> LoggedOut(conn[c])] /\ policy' = "offline"
       ELSE UNCHANGED <<conn, policy>>
    /\ UNCHANGED <<sslPolicy, network, counters, failures>>

----------------------------------------------------------------------------
(* NetworkWatcher. *)

IsOnline == online /\ session = "open"

\* Model::setNetworkPolicy
SetNetworkPolicy(p) ==
    /\ policy' = p
    /\ IF p = "offline" THEN conn' = [c \in Conn |-> LoggedOut(conn[c])] ELSE UNCHANGED conn

\* setDesiredNetworkPolicy(p), with the system as online as isOnline says
SetDesired(p, isOnline) ==
    /\ desired' = p
    /\ CASE policy = "offline" /\ p = "online" ->
                IF isOnline THEN SetNetworkPolicy("online") /\ UNCHANGED session
                ELSE UNCHANGED <<conn, policy>> /\ session' = IF session = "closed" THEN "opening" ELSE session
         [] policy = "online" /\ p = "offline" -> SetNetworkPolicy("offline") /\ session' = "closed"
         [] OTHER -> SetNetworkPolicy(p) /\ UNCHANGED session

Bounded == losses < MaxLosses /\ losses' = losses + 1
Elsewhere == UNCHANGED <<user, opened, refusals, failures>>

UserChooses == \E p \in {"online", "offline"} :
    /\ SetDesired(p, IsOnline) /\ UNCHANGED online /\ Elsewhere
    /\ IF p = "offline" THEN Bounded ELSE UNCHANGED losses

\* onGlobalOnlineStateChanged
SystemOnline == ~online /\ online' = TRUE /\ SetDesired(desired, session = "open")
                /\ UNCHANGED losses /\ Elsewhere
SystemOffline == online /\ online' = FALSE /\ SetNetworkPolicy("offline")
                 /\ Bounded /\ UNCHANGED <<desired, session>> /\ Elsewhere

\* Mutant of SessionOpened: what the user chose in the meantime is forgotten.
SessionOpenedLate ==
    /\ session = "opening" /\ session' = "open"
    /\ SetNetworkPolicy(IF online THEN "online" ELSE "offline")
    /\ UNCHANGED <<desired, online, losses>> /\ Elsewhere
\* reconnectModelNetwork, when the session has been opened
SessionOpened ==
    /\ session = "opening" /\ session' = "open"
    /\ SetNetworkPolicy(IF online THEN desired ELSE "offline")
    /\ UNCHANGED <<desired, online, losses>> /\ Elsewhere

\* networkConfigurationChanged: the session is replaced by one of the new configuration.
ConfigurationChanged ==
    /\ session # "closed" /\ SetNetworkPolicy("offline")
    /\ session' = "opening" /\ Bounded /\ UNCHANGED <<desired, online>> /\ Elsewhere

----------------------------------------------------------------------------
(* The server (external). *)

Announced(k) == {[set |-> s, phase |-> k.server] :
                    s \in {s \in CapSets : "STARTTLS" \in s => k.server = "plain"}}
Say(k, lines) == [k EXCEPT !.unread = @ \o lines]

\* An OK or PREAUTH may carry the capabilities.
Greet(c) ==
    LET k == conn[c]
        phase == IF Encrypted THEN "secure" ELSE "plain"
    IN  /\ k.socket = "up" /\ k.server = "greeting"
        /\ \/ \E caps \in Announced([k EXCEPT !.server = phase]) \cup {NoCaps} :
                 /\ Update(c, [Say(k, <<Line(Untagged, "OK", caps)>>) EXCEPT !.server = phase])
                 /\ UNCHANGED refusals
           \/ \E caps \in Announced([k EXCEPT !.server = "authenticated"]) \cup {NoCaps} :
                 /\ Update(c, [Say(k, <<Line(Untagged, "PREAUTH", caps)>>) EXCEPT !.server = "authenticated"])
                 /\ UNCHANGED refusals
           \/ \E kind \in {"BYE", "BAD"} :
                 /\ refusals < MaxRefusals /\ refusals' = refusals + 1
                 /\ Update(c, [Say(k, <<Line(Untagged, kind, NoCaps)>>) EXCEPT !.server = "leaving"])
        /\ UNCHANGED <<policy, user, network, opened, losses, failures>>

Answering(k, command) ==
    k.socket = "up" /\ k.received # <<>> /\ Head(k.received) = command
    /\ k.server \in Phases
Replied(c, k) == Update(c, [k EXCEPT !.received = Tail(@)])
Served == UNCHANGED <<policy, user, network, counters, failures>>

ServerRefuses(c) == \E command \in {"CAPABILITY", "STARTTLS", "LOGIN", "COMPRESS"} :
    /\ Answering(conn[c], command)
    /\ refusals < MaxRefusals /\ refusals' = refusals + 1
    /\ Replied(c, Say(conn[c], <<Line(command, "NO", NoCaps)>>))
    /\ UNCHANGED <<policy, user, network, opened, losses, failures>>

AnswerCapability(c) ==
    /\ Answering(conn[c], "CAPABILITY")
    /\ \E caps \in Announced(conn[c]) :
          Replied(c, Say(conn[c], <<Line(Untagged, "CAPABILITY", caps), Line("CAPABILITY", "OK", NoCaps)>>))
    /\ Served

AnswerStartTls(c) ==
    /\ Answering(conn[c], "STARTTLS")
    /\ Replied(c, Say(conn[c], <<Line("STARTTLS", "OK", NoCaps)>>)) /\ Served

AnswerLogin(c) ==
    /\ Answering(conn[c], "LOGIN")
    /\ LET k == [conn[c] EXCEPT !.server = "authenticated"]
       IN  \E caps \in Announced(k) \cup {NoCaps} :
              Replied(c, Say(k, <<Line("LOGIN", "OK", caps)>>))
    /\ Served

AnswerOther(c) == \E command \in {"COMPRESS", "other"} :
    /\ Answering(conn[c], command)
    /\ Replied(c, Say(conn[c], <<Line(command, "OK", NoCaps)>>)) /\ Served

AnswerLogout(c) ==
    /\ Answering(conn[c], "LOGOUT")
    /\ Replied(c, [Say(conn[c], <<Line(Untagged, "BYE", NoCaps), Line("LOGOUT", "OK", NoCaps)>>)
                       EXCEPT !.server = "leaving"])
    /\ Served

ServerLeaves(c) ==
    /\ conn[c].socket = "up" /\ conn[c].server \in Phases
    /\ losses < MaxLosses /\ losses' = losses + 1
    /\ Update(c, [Say(conn[c], <<Line(Untagged, "BYE", NoCaps)>>) EXCEPT !.server = "leaving"])
    /\ UNCHANGED <<policy, user, network, opened, refusals, failures>>

----------------------------------------------------------------------------
Socket(c) == Start(c) \/ Connected(c) \/ Announce(c) \/ HandleSocketEncrypted(c)
Parser(c) == Read(c) \/ FinishStartTls(c) \/ Execute(c)
Model(c) == Capability(c) \/ Disconnected(c) \/ SocketEncrypted(c) \/ HandleState(c)
Answer(c) == Greet(c) \/ AnswerCapability(c) \/ AnswerStartTls(c) \/ AnswerLogin(c)
             \/ AnswerOther(c) \/ AnswerLogout(c)
User == AcceptSsl \/ RejectSsl \/ SetImapPassword \/ UnsetImapPassword
Watcher == UserChooses \/ SystemOnline \/ SystemOffline \/ SessionOpened \/ ConfigurationChanged

Next ==
    /\ \/ \E c \in Conn : Open(c) \/ Socket(c) \/ Parser(c) \/ Model(c) \/ Answer(c)
                          \/ Disconnect(c) \/ ServerRefuses(c) \/ ServerLeaves(c)
       \/ User \/ Watcher
    /\ UNCHANGED method

\* The event loop runs, the peer and its server answer, the user closes dialogs.
Fairness ==
    /\ \A c \in Conn : WF_changing(Socket(c)) /\ WF_changing(Parser(c)) /\ WF_changing(Model(c)) /\ WF_changing(Answer(c))
                       /\ WF_changing(conn[c].socket = "garbled" /\ Disconnect(c))
    /\ WF_changing(AcceptSsl \/ RejectSsl) /\ WF_changing(SetImapPassword \/ UnsetImapPassword)

Spec == Init /\ [][Next]_vars
FairSpec == Spec /\ Fairness

----------------------------------------------------------------------------
(* Properties. *)

\* Types of the whole state.
TypeOK ==
    /\ method \in Methods /\ conn \in [Conn -> Connections] /\ policy \in {"online", "offline"}
    /\ hasPassword \in BOOLEAN /\ asked \in [{"password", "ssl"} -> Nat]
    /\ sslPolicy \in {"unknown", "accept", "reject"}
    /\ desired \in {"online", "offline"} /\ online \in BOOLEAN
    /\ session \in {"closed", "opening", "open"}
    /\ opened \in 0..MaxOpened /\ refusals \in 0..MaxRefusals /\ losses \in 0..MaxLosses
    /\ failures \subseteq StateNames \cup {"gone"}

\* Offline is offline: no connection is used or set up then, whatever was going on when the
\* policy changed, and none is ever used against the user's choice (setNetworkPolicy,
\* setDesiredNetworkPolicy, reconnectModelNetwork).
OfflineIsOffline ==
    /\ policy = "offline" => \A c \in Conn : conn[c].state \in Out
    /\ policy = "online" => desired = "online"

\* Commands reach the server in a phase that allows them, and none follows STARTTLS or
\* COMPRESS before these are done (the gates of executeCommands).
CommandsInPhase ==
    \A c \in Conn : \A i \in DOMAIN conn[c].received :
        LET command == conn[c].received[i]
        IN  /\ command \in {"STARTTLS", "COMPRESS"} => i = Len(conn[c].received)
            /\ conn[c].server \in Phases =>
                 CASE command = "STARTTLS" -> conn[c].server = "plain"
                   [] command = "LOGIN" -> conn[c].server \in {"plain", "secure"}
                   [] command \in {"COMPRESS", "other"} -> conn[c].server = "authenticated"
                   [] OTHER -> TRUE

\* The capabilities in use are those of the phase the connection is in: what the server said
\* before TLS or before the login is not used after it (capabilitiesFresh).
CapsOfPhase ==
    TypeOK /\ \A c \in Conn :
        /\ conn[c].state \in {"COMPRESS_DEFLATE", "AUTHENTICATED"} => conn[c].caps.phase = "authenticated"
        /\ conn[c].state = "LOGIN" /\ conn[c].server \in {"plain", "secure"}
               => conn[c].caps.phase = conn[c].server

\* Setting up a connection ends: it is authenticated or given up, it never waits for an answer
\* that nobody owes it (handleStateHelper, the gates, unfreezeAfterEncryption).
Settles ==
    \A c \in Conn : conn[c].state \notin Out ~> conn[c].state \in Out \cup {"AUTHENTICATED"}

\* Q_ASSERT(false) in OpenConnectionTask::sslConnectionPolicyDecided: a decision reaches a
\* task that waits for it, unless a connection was lost while its dialog was open and another
\* has been opened or the account is offline.
DecisionExpected == failures # {} => losses > 0 \/ opened > 1
=============================================================================
