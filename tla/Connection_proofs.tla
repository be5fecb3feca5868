------------------------- MODULE Connection_proofs -------------------------
(***************************************************************************)
(* Proofs about Connection, for any number of connections, whatever the    *)
(* server announces, refuses or leaves unanswered, and however often       *)
(* connections are opened and lost.                                        *)
(*                                                                         *)
(* Offline is offline: that does not rest on the types of the connections' *)
(* fields, its invariant Inv only says that there is a state of each.  A   *)
(* step either leaves the policy alone, and then no connection that is out *)
(* comes back while the policy is offline, or it sets the policy to        *)
(* offline and logs every connection out.                                  *)
(*                                                                         *)
(* Commands, capabilities and decisions: the invariant IInv says of each   *)
(* connection where its one command under way is, between the queue and    *)
(* the handling of its answer, and what the gates, the state, the phase of *)
(* the server, all that has been said and the capabilities have to do with *)
(* it.  A lemma ...Sound takes one connection through one call, a lemma    *)
(* ...Replaces or ...Handled one action, ...Preserves all connections.     *)
(***************************************************************************)
EXTENDS Connection, TLAPS, SequenceTheorems

Stated(k) == "state" \in DOMAIN k
HaveStates == DOMAIN conn = Conn /\ \A c \in Conn : Stated(conn[c])
Inv == HaveStates /\ OfflineIsOffline

\* What a handler may do: connections that are out stay out while the policy is offline.
Stays == \A c \in Conn : policy = "offline" => conn'[c].state \in Out
Quiet == policy' = policy /\ Stays
Leaves == policy' = "offline" /\ \A c \in Conn : conn'[c].state \in Out
Safe == HaveStates' /\ (Quiet \/ Leaves)

----------------------------------------------------------------------------
(* What calls do to the state of one connection. *)

\* Queueing a command and failing leave the state alone.
LEMMA Queued ==
    ASSUME NEW k, Stated(k), NEW command
    PROVE  /\ Stated(Queue(k, command)) /\ Queue(k, command).state = k.state
           /\ Stated(Wait(k, command)) /\ Wait(k, command).state = k.state
           /\ Stated(Fail(k)) /\ Fail(k).state = k.state
BY DEF Stated, Queue, Wait, Fail

\* LOGOUT, for every state a connection is in.
LEMMA LoggingOut ==
    ASSUME NEW k, Stated(k)
    PROVE  /\ Stated(LoggedOut(k)) /\ LoggedOut(k).state \in Out
           /\ Stated(LeftForeign(k)) /\ LeftForeign(k).state \in Out
BY Queued DEF Stated, LoggedOut, LeftForeign, Queue, Out

\* The operators that take a connection to its next state.
LEMMA Asking ==
    ASSUME NEW k, Stated(k)
    PROVE  /\ Stated(LoginNow(k)) /\ Stated(Complete(k)) /\ Stated(CompleteOrCompress(k))
           /\ Stated(StartTlsOrLogin(k))
           /\ \A state : Stated(AskCapability(k, state))
<1>1. Stated(Complete(k))
  BY Queued DEF Complete, Stated
<1>2. Stated(LoginNow(k))
  BY Queued DEF LoginNow, Authenticate, Stated
<1>3. Stated(CompleteOrCompress(k))
  BY <1>1, Queued DEF CompleteOrCompress, Stated
<1>4. Stated(StartTlsOrLogin(k))
  BY <1>2, Queued DEF StartTlsOrLogin, Stated
<1>5. ASSUME NEW state PROVE Stated(AskCapability(k, state))
  BY Queued DEF AskCapability, Stated
<1> QED
  BY <1>1, <1>2, <1>3, <1>4, <1>5

\* A decision on a certificate moves only a connection that waits for it.
LEMMA Decided ==
    ASSUME NEW k, Stated(k)
    PROVE  /\ Stated(Accepted(k)) /\ (k.state \in Out => Accepted(k).state \in Out)
           /\ Stated(Rejected(k)) /\ Rejected(k).state \in Out
           /\ Stated(Unfrozen(k)) /\ Unfrozen(k).state = k.state
<1>1. Stated(AskCapability(k, "ESTABLISHED_PRECAPS"))
  BY Asking
<1>2. Stated(Accepted(k))
  BY <1>1 DEF Accepted, Stated
<1>3. k.state \in Out => Accepted(k).state \in Out
  BY DEF Accepted, Stated, Out
<1>4. Stated(Rejected(k)) /\ Rejected(k).state \in Out
  BY LoggingOut DEF Rejected, Stated
<1>5. Stated(Unfrozen(k)) /\ Unfrozen(k).state = k.state
  BY DEF Unfrozen, Stated
<1> QED
  BY <1>2, <1>3, <1>4, <1>5

\* Capabilities and responses leave the state alone.
LEMMA Learning ==
    ASSUME NEW k, Stated(k), NEW line
    PROVE  /\ Stated(Learned(k, line)) /\ Learned(k, line).state = k.state
           /\ Stated(Respond(k, line)) /\ Respond(k, line).state = k.state
BY DEF Learned, Respond, Stated

\* A late signal of the socket does not bring back a connection that is out:
\* LOGOUT is the last of the states (handleSocketStateChanged compares them).
LEMMA Reaching ==
    ASSUME NEW k, Stated(k),
           NEW state \in {"CONNECTING", "SSL_HANDSHAKE", "CONNECTED_PRETLS_PRECAPS"}
    PROVE  /\ Stated(Reached(k, state))
           /\ k.state \in Out => Reached(k, state) = k
<1>1. Stated(Reached(k, state))
  BY DEF Reached, Stated
<1>2. DOMAIN States = 1..15
  BY DEF States
<1>3. \A i \in 1..15 : States[i] = "LOGOUT" <=> i = 15
  BY DEF States
<1>4. Rank("LOGOUT") = 15
  BY <1>2, <1>3 DEF Rank
<1>5. States[2] = "CONNECTING" /\ States[3] = "SSL_HANDSHAKE" /\ States[5] = "CONNECTED_PRETLS_PRECAPS"
  BY DEF States
<1>6. \E i \in DOMAIN States : States[i] = state
  BY <1>2, <1>5
<1>7. Rank(state) \in 1..15
  BY <1>2, <1>6 DEF Rank
<1> QED
  BY <1>1, <1>4, <1>7 DEF Reached, Out

\* No connection and a new one have states.
LEMMA GoneIsOut == Stated(Gone) /\ Gone.state \in Out /\ Stated(New)
BY DEF Stated, Gone, New, Out

----------------------------------------------------------------------------
(* How a handler leaves the connections. *)

\* One connection is replaced by one that is out if the policy is offline.
LEMMA Updating ==
    ASSUME Inv, NEW c \in Conn, NEW k, Stated(k), policy = "offline" => k.state \in Out,
           Update(c, k), policy' = policy
    PROVE  Safe
<1>1. HaveStates'
  BY DEF Inv, HaveStates, Update
<1>2. Stays
  BY DEF Inv, HaveStates, OfflineIsOffline, Update, Stays
<1> QED
  BY <1>1, <1>2 DEF Safe, Quiet

\* The same, and tasks that have finished are removed.
LEMMA Becoming ==
    ASSUME Inv, NEW c \in Conn, NEW k, Stated(k), policy = "offline" => k.state \in Out,
           Becomes(c, k)
    PROVE  Safe
<1> DEFINE after == [conn EXCEPT ![c] = k]
<1>1. \A d \in Conn : Stated(after[d]) /\ (policy = "offline" => after[d].state \in Out)
  BY DEF Inv, HaveStates, OfflineIsOffline
<1>2. DOMAIN conn' = Conn /\ policy' = policy
  BY DEF Becomes, Swept
<1>3. ASSUME NEW d \in Conn PROVE Stated(conn'[d]) /\ conn'[d].state = after[d].state
  <2> HIDE DEF after
  <2>1. conn'[d] = [after[d] EXCEPT !.active = @ /\ ~after[d].finished]
    BY DEF Becomes, Swept, after
  <2> QED
    BY <1>1, <2>1 DEF Stated
<1> HIDE DEF after
<1>4. HaveStates' /\ Stays
  BY <1>1, <1>2, <1>3 DEF HaveStates, Stays
<1> QED
  BY <1>2, <1>4 DEF Safe, Quiet

\* Whatever the handler has made of its connection, they are all logged out.
LEMMA BecomingOffline ==
    ASSUME Inv, NEW c \in Conn, NEW k, Stated(k), BecomesOffline(c, k)
    PROVE  Safe
<1> DEFINE after == [d \in Conn |-> LoggedOut(IF d = c THEN k ELSE conn[d])]
<1>1. \A d \in Conn : Stated(after[d]) /\ after[d].state \in Out
  BY LoggingOut DEF Inv, HaveStates
<1>2. DOMAIN conn' = Conn /\ policy' = "offline"
  BY DEF BecomesOffline, Swept
<1>3. ASSUME NEW d \in Conn PROVE Stated(conn'[d]) /\ conn'[d].state = after[d].state
  <2> HIDE DEF after
  <2>1. conn'[d] = [after[d] EXCEPT !.active = @ /\ ~after[d].finished]
    BY DEF BecomesOffline, Swept, after
  <2> QED
    BY <1>1, <2>1 DEF Stated
<1> HIDE DEF after
<1>4. HaveStates' /\ \A d \in Conn : conn'[d].state \in Out
  BY <1>1, <1>2, <1>3 DEF HaveStates
<1> QED
  BY <1>2, <1>4 DEF Safe, Leaves

----------------------------------------------------------------------------
(* The actions. *)

\* Taking a response leaves the state alone.
LEMMA TakenIs ==
    ASSUME Inv, NEW c \in Conn
    PROVE  /\ Stated(conn[c]) /\ Stated(Taken(c)) /\ Taken(c).state = conn[c].state
           /\ policy = "offline" => conn[c].state \in Out /\ Taken(c).state \in Out
BY DEF Inv, HaveStates, OfflineIsOffline, Taken, Stated

\* What the socket and its signals do.
LEMMA SocketIsSafe ==
    ASSUME Inv, NEW c \in Conn, Socket(c) \/ Disconnect(c)
    PROVE  Safe
<1> DEFINE k == conn[c]
<1>1. Stated(k) /\ (policy = "offline" => k.state \in Out)
  BY TakenIs
<1> HIDE DEF k
<1>2. CASE Start(c)
  <2> DEFINE next == [Reached(k, "CONNECTING") EXCEPT !.socket = "connecting"]
  <2>1. Stated(next) /\ next.state = Reached(k, "CONNECTING").state
    BY <1>1, Reaching DEF Stated
  <2>2. policy = "offline" => next.state \in Out
    BY <1>1, <2>1, Reaching
  <2>3. Update(c, next) /\ policy' = policy
    BY <1>2 DEF Start, Local, k
  <2> QED
    BY <2>1, <2>2, <2>3, Updating
<1>3. CASE Connected(c)
  <2> DEFINE next == IF Encrypted THEN [Reached(k, "SSL_HANDSHAKE") EXCEPT !.socket = "handshake"]
                     ELSE [k EXCEPT !.socket = "up"]
  <2>1. Stated(next) /\ (policy = "offline" => next.state \in Out)
    <3>1. CASE Encrypted
      <4> DEFINE enc == [Reached(k, "SSL_HANDSHAKE") EXCEPT !.socket = "handshake"]
      <4>1. Stated(enc) /\ enc.state = Reached(k, "SSL_HANDSHAKE").state
        BY <1>1, Reaching DEF Stated
      <4>2. policy = "offline" => enc.state \in Out
        BY <1>1, <4>1, Reaching
      <4> QED
        BY <3>1, <4>1, <4>2
    <3>2. CASE ~Encrypted
      BY <1>1, <3>2 DEF Stated
    <3> QED
      BY <3>1, <3>2
  <2>2. Update(c, next) /\ policy' = policy
    BY <1>3 DEF Connected, Local, k, Update
  <2> HIDE DEF next
  <2> QED
    BY <2>1, <2>2, Updating
<1>4. CASE Announce(c)
  <2> DEFINE next == [Reached(k, "CONNECTED_PRETLS_PRECAPS") EXCEPT !.gates = @ \ {"connection"}]
  <2>1. Stated(next) /\ next.state = Reached(k, "CONNECTED_PRETLS_PRECAPS").state
    BY <1>1, Reaching DEF Stated
  <2>2. policy = "offline" => next.state \in Out
    BY <1>1, <2>1, Reaching
  <2>3. Update(c, next) /\ policy' = policy
    BY <1>4 DEF Announce, Local, k
  <2> QED
    BY <2>1, <2>2, <2>3, Updating
<1>5. CASE HandleSocketEncrypted(c)
  <2> DEFINE told == Respond(k, Line(Untagged, "encrypted", NoCaps))
             next == [told EXCEPT
                     !.socket = "up", !.gates = (@ \ {"encryption", "connection"}) \cup {"policy"},
                     !.server = IF Encrypted THEN @ ELSE "secure"]
  <2>1. Stated(told) /\ told.state = k.state
    BY <1>1, Learning
  <2>2. Update(c, next) /\ policy' = policy
    BY <1>5 DEF HandleSocketEncrypted, Local, k
  <2> HIDE DEF told
  <2>3. Stated(next) /\ next.state = k.state
    BY <2>1 DEF Stated
  <2> HIDE DEF next
  <2> QED
    BY <1>1, <2>2, <2>3, Updating
<1>6. CASE Disconnect(c)
  <2> DEFINE told == Respond(k, Line(Untagged, "disconnected", NoCaps))
             next == [told EXCEPT !.socket = "down"]
  <2>1. Stated(told) /\ told.state = k.state
    BY <1>1, Learning
  <2>2. Update(c, next) /\ policy' = policy
    BY <1>6 DEF Disconnect, k
  <2> HIDE DEF told
  <2>3. Stated(next) /\ next.state = k.state
    BY <2>1 DEF Stated
  <2> HIDE DEF next
  <2> QED
    BY <1>1, <2>2, <2>3, Updating
<1> QED
  BY <1>2, <1>3, <1>4, <1>5, <1>6 DEF Socket

\* What the Parser reads, finishes and sends.
LEMMA ParserIsSafe ==
    ASSUME Inv, NEW c \in Conn, Parser(c)
    PROVE  Safe
<1> DEFINE k == conn[c]
<1>1. Stated(k) /\ (policy = "offline" => k.state \in Out)
  BY TakenIs
<1>2. \E next : Stated(next) /\ next.state = k.state /\ Update(c, next) /\ policy' = policy
  <2>1. CASE Read(c)
    <3> DEFINE line == Head(k.unread)
               rest == [k EXCEPT !.unread = Tail(@)]
               held == [rest EXCEPT !.reply = line.kind]
               told == Respond(rest, line)
               given == [told EXCEPT !.gates = IF line.tag = "COMPRESS" THEN @ \ {"compress"} ELSE @]
    <3>1. Stated(rest) /\ rest.state = k.state
      BY <1>1 DEF Stated
    <3>2. Stated(held) /\ held.state = k.state
      BY <3>1 DEF Stated
    <3>3. Stated(told) /\ told.state = k.state
      BY <3>1, Learning
    <3>4. Update(c, held) \/ Update(c, given)
      BY <2>1 DEF Read
    <3>5. policy' = policy
      BY <2>1 DEF Read, Local
    <3> HIDE DEF told
    <3>6. Stated(given) /\ given.state = k.state
      BY <3>3 DEF Stated
    <3> HIDE DEF held, given
    <3> QED
      BY <3>2, <3>4, <3>5, <3>6
  <2>2. CASE FinishStartTls(c)
    <3> DEFINE told == Respond(k, Line("STARTTLS", k.reply, NoCaps))
               next == [told EXCEPT !.reply = "", !.queue = Tail(@),
                     !.gates = (@ \ {"starttls"}) \cup {"encryption"},
                     !.socket = IF k.reply = "OK" THEN "handshake" ELSE "garbled"]
    <3>1. Stated(told) /\ told.state = k.state
      BY <1>1, Learning
    <3>2. Update(c, next) /\ policy' = policy
      BY <2>2 DEF FinishStartTls, Local
    <3> HIDE DEF told
    <3>3. Stated(next) /\ next.state = k.state
      BY <3>1 DEF Stated
    <3> HIDE DEF next
    <3> QED
      BY <3>2, <3>3
  <2>3. CASE Execute(c)
    <3> DEFINE command == Head(k.queue)
               sent == [k EXCEPT !.received = Append(@, command)]
               tls == [sent EXCEPT !.gates = {"starttls"}]
               deflate == [sent EXCEPT !.gates = {"compress"}, !.queue = Tail(@)]
               plain == [sent EXCEPT !.queue = Tail(@)]
    <3>1. Stated(sent) /\ sent.state = k.state
      BY <1>1 DEF Stated
    <3>2. Update(c, tls) \/ Update(c, deflate) \/ Update(c, plain)
      BY <2>3 DEF Execute
    <3>3. policy' = policy
      BY <2>3 DEF Execute, Local
    <3> HIDE DEF sent
    <3>4. /\ Stated(tls) /\ tls.state = k.state
          /\ Stated(deflate) /\ deflate.state = k.state
          /\ Stated(plain) /\ plain.state = k.state
      BY <3>1 DEF Stated
    <3> HIDE DEF tls, deflate, plain
    <3> QED
      BY <3>2, <3>3, <3>4
  <2> QED
    BY <2>1, <2>2, <2>3 DEF Parser
<1> HIDE DEF k
<1> QED
  BY <1>1, <1>2, Updating

\* What the server does (it never touches the client's state).
LEMMA ServerIsSafe ==
    ASSUME Inv, NEW c \in Conn, Answer(c) \/ ServerRefuses(c) \/ ServerLeaves(c)
    PROVE  Safe
<1>1. ASSUME NEW k, Stated(k), NEW lines
      PROVE  Stated(Say(k, lines)) /\ Say(k, lines).state = k.state
  BY <1>1 DEF Say, Stated
<1>2. \A lines, phase : LET next == [Say(conn[c], lines) EXCEPT !.server = phase]
                       IN  Stated(next) /\ next.state = conn[c].state
  <2> TAKE lines, phase
  <2>1. Stated(Say(conn[c], lines)) /\ Say(conn[c], lines).state = conn[c].state
    BY <1>1, TakenIs
  <2> QED
    BY <2>1 DEF Stated
<1>3. ASSUME NEW lines, NEW phase, Update(c, [Say(conn[c], lines) EXCEPT !.server = phase]),
             policy' = policy
      PROVE  Safe
  <2> DEFINE next == [Say(conn[c], lines) EXCEPT !.server = phase]
  <2>1. Stated(next) /\ (policy = "offline" => next.state \in Out)
    BY <1>2, TakenIs
  <2>2. Update(c, next)
    BY <1>3
  <2> HIDE DEF next
  <2> QED
    BY <1>3, <2>1, <2>2, Updating
<1>4. ASSUME NEW k, Stated(k), k.state = conn[c].state, Replied(c, k), policy' = policy
      PROVE  Safe
  <2> DEFINE next == [k EXCEPT !.received = Tail(@)]
  <2>1. Stated(next) /\ next.state = conn[c].state
    BY <1>4 DEF Stated
  <2>2. Update(c, next)
    BY <1>4 DEF Replied
  <2> HIDE DEF next
  <2> QED
    BY <1>4, <2>1, <2>2, TakenIs, Updating
<1>5. CASE Greet(c)
  <2>1. policy' = policy
    BY <1>5 DEF Greet
  <2>2. \E lines, phase : Update(c, [Say(conn[c], lines) EXCEPT !.server = phase])
    BY <1>5 DEF Greet
  <2> QED
    BY <1>3, <2>1, <2>2
<1>6. CASE ServerLeaves(c)
  BY <1>3, <1>6 DEF ServerLeaves
<1>7. CASE ServerRefuses(c)
  BY <1>1, <1>4, <1>7, TakenIs DEF ServerRefuses
<1>8. CASE AnswerCapability(c)
  BY <1>1, <1>4, <1>8, TakenIs DEF AnswerCapability, Served
<1>9. CASE AnswerStartTls(c)
  BY <1>1, <1>4, <1>9, TakenIs DEF AnswerStartTls, Served
<1>10. CASE AnswerLogin(c)
  <2> DEFINE k == [conn[c] EXCEPT !.server = "authenticated"]
  <2>1. Stated(k) /\ k.state = conn[c].state
    BY TakenIs DEF Stated
  <2>2. \E lines : Replied(c, Say(k, lines))
    BY <1>10 DEF AnswerLogin
  <2>3. policy' = policy
    BY <1>10 DEF AnswerLogin, Served
  <2> HIDE DEF k
  <2> QED
    BY <1>1, <1>4, <2>1, <2>2, <2>3
<1>11. CASE AnswerOther(c)
  BY <1>1, <1>4, <1>11, TakenIs DEF AnswerOther, Served
<1>12. CASE AnswerLogout(c)
  BY <1>2, <1>4, <1>12 DEF AnswerLogout, Served
<1> QED
  BY <1>5, <1>6, <1>7, <1>8, <1>9, <1>10, <1>11, <1>12 DEF Answer

\* What the Model does with capabilities, a broken connection and the end of a handshake.
LEMMA SignalsAreSafe ==
    ASSUME Inv, NEW c \in Conn, Capability(c) \/ Disconnected(c) \/ SocketEncrypted(c)
    PROVE  Safe
<1>1. Kill(c) => Safe
  BY GoneIsOut, Becoming DEF Kill
<1>2. KillAndLeave(c) => Safe
  BY GoneIsOut, BecomingOffline DEF KillAndLeave
<1>3. CASE Capability(c)
  <2> DEFINE k == Learned(Taken(c), Resp(c))
  <2>1. Stated(k) /\ (policy = "offline" => k.state \in Out) /\ Stated(LeftForeign(k))
    BY TakenIs, Learning, LoggingOut
  <2>2. Becomes(c, k) \/ BecomesOffline(c, LeftForeign(k))
    BY <1>3 DEF Capability
  <2> HIDE DEF k
  <2> QED
    BY <2>1, <2>2, Becoming, BecomingOffline
<1>4. CASE Disconnected(c)
  BY <1>1, <1>2, <1>4 DEF Disconnected
<1>5. CASE SocketEncrypted(c)
  <2> DEFINE k == [Taken(c) EXCEPT !.state = Verifying(@), !.chain = TRUE]
             waiting == conn[c].active /\ conn[c].state \in {"SSL_HANDSHAKE", "STARTTLS_HANDSHAKE"}
  <2>1. Stated(k)
    BY TakenIs DEF Stated
  <2>2. waiting => Becomes(c, Accepted(k)) \/ BecomesOffline(c, Rejected(k)) \/ Becomes(c, k)
    BY <1>5 DEF SocketEncrypted
  <2>3. ~waiting => Kill(c)
    BY <1>5 DEF SocketEncrypted
  <2>4. waiting => policy # "offline"
    BY TakenIs DEF Out
  <2> HIDE DEF k, waiting
  <2>5. Stated(Accepted(k)) /\ Stated(Rejected(k))
    BY <2>1, Decided
  <2> QED
    BY <1>1, <2>1, <2>2, <2>3, <2>4, <2>5, Becoming, BecomingOffline
<1> QED
  BY <1>3, <1>4, <1>5

\* The Model's own handling of a state.
LEMMA ModelIsSafe ==
    ASSUME Inv, NEW c \in Conn, ModelHandlesState(c)
    PROVE  Safe
<1>1. Kill(c) => Safe
  BY GoneIsOut, Becoming DEF Kill
<1>2. KillAndLeave(c) => Safe
  BY GoneIsOut, BecomingOffline DEF KillAndLeave
<1>3. Becomes(c, Taken(c)) => Safe
  BY TakenIs, Becoming
<1>4. Kill(c) \/ KillAndLeave(c) \/ Becomes(c, Taken(c))
  BY DEF ModelHandlesState
<1> QED
  BY <1>1, <1>2, <1>3, <1>4

\* The answers to the commands of OpenConnectionTask: it handles them only in states that no
\* connection is in while the policy is offline.
LEMMA AnswersAreSafe ==
    ASSUME Inv, NEW c \in Conn, policy # "offline",
           Greeting(c) \/ CapabilityResult(c) \/ LoginResult(c)
    PROVE  Safe
<1>1. ASSUME NEW k, Stated(k), Becomes(c, k) \/ BecomesOffline(c, k) PROVE Safe
  BY <1>1, Becoming, BecomingOffline
<1>2. CASE Greeting(c)
  <2> DEFINE k == Learned(Taken(c), Resp(c))
             out == [k EXCEPT !.state = "LOGOUT"]
  <2>1. Stated(k)
    BY TakenIs, Learning
  <2>2. \/ Becomes(c, CompleteOrCompress(k))
        \/ Becomes(c, AskCapability(k, "POSTAUTH_PRECAPS"))
        \/ BecomesOffline(c, Fail(k))
        \/ Becomes(c, StartTlsOrLogin(k))
        \/ Becomes(c, AskCapability(k, "CONNECTED_PRETLS"))
        \/ BecomesOffline(c, Fail(out))
    BY <1>2 DEF Greeting
  <2> HIDE DEF k
  <2>3. Stated(out)
    BY <2>1 DEF Stated
  <2> HIDE DEF out
  <2>4. Stated(Fail(k)) /\ Stated(Fail(out))
    BY <2>1, <2>3, Queued
  <2> QED
    BY <1>1, <2>1, <2>2, <2>4, Asking
<1>3. CASE CapabilityResult(c)
  <2> DEFINE k == Taken(c)
  <2>1. Stated(k)
    BY TakenIs
  <2>2. \/ BecomesOffline(c, Fail(k)) \/ Becomes(c, StartTlsOrLogin(k))
        \/ Becomes(c, LoginNow(k)) \/ Becomes(c, Complete(k))
    BY <1>3 DEF CapabilityResult
  <2> HIDE DEF k
  <2> QED
    BY <1>1, <2>1, <2>2, Asking, Queued
<1>4. CASE LoginResult(c)
  <2> DEFINE known == Learned(Taken(c), Resp(c))
             k == [known EXCEPT !.cmd = ""]
  <2>1. Stated(known)
    BY TakenIs, Learning
  <2>2. \/ Becomes(c, CompleteOrCompress(k)) \/ Becomes(c, AskCapability(k, "POSTAUTH_PRECAPS"))
        \/ Becomes(c, k)
    BY <1>4 DEF LoginResult
  <2> HIDE DEF known
  <2>3. Stated(k)
    BY <2>1 DEF Stated
  <2> HIDE DEF k
  <2> QED
    BY <1>1, <2>2, <2>3, Asking
<1> QED
  BY <1>2, <1>3, <1>4

\* OpenConnectionTask's handling of a state.
LEMMA TaskIsSafe ==
    ASSUME Inv, NEW c \in Conn, TaskHandlesState(c)
    PROVE  Safe
<1> DEFINE k == Taken(c)
           answer == Greeting(c) \/ CapabilityResult(c) \/ LoginResult(c)
<1>1. Stated(k) /\ (policy = "offline" => k.state \in Out)
  BY TakenIs
<1>2. \/ Becomes(c, Fail(k))
      \/ ModelHandlesState(c)
      \/ k.state \notin Out /\ answer
      \/ /\ k.state = "STARTTLS_ISSUED"
         /\ Becomes(c, [k EXCEPT !.state = "STARTTLS_HANDSHAKE"]) \/ BecomesOffline(c, Fail(k))
      \/ k.state = "COMPRESS_DEFLATE" /\ Becomes(c, Complete(k))
      \/ KillAndLeave(c)
  BY DEF TaskHandlesState, Out
<1> HIDE DEF k, answer
<1>3. ASSUME Becomes(c, Fail(k)) PROVE Safe
  BY <1>1, <1>3, Queued, Becoming
<1>4. ASSUME k.state \notin Out, answer PROVE Safe
  BY <1>1, <1>4, AnswersAreSafe DEF answer
<1>5. ASSUME k.state = "STARTTLS_ISSUED",
             Becomes(c, [k EXCEPT !.state = "STARTTLS_HANDSHAKE"]) \/ BecomesOffline(c, Fail(k))
      PROVE  Safe
  <2> DEFINE next == [k EXCEPT !.state = "STARTTLS_HANDSHAKE"]
  <2>1. Stated(next) /\ Stated(Fail(k)) /\ policy # "offline"
    BY <1>1, <1>5, Queued DEF Stated, Out
  <2>2. Becomes(c, next) \/ BecomesOffline(c, Fail(k))
    BY <1>5
  <2> HIDE DEF next
  <2> QED
    BY <2>1, <2>2, Becoming, BecomingOffline
<1>6. ASSUME k.state = "COMPRESS_DEFLATE", Becomes(c, Complete(k)) PROVE Safe
  BY <1>1, <1>6, Asking, Becoming DEF Out
<1>7. ASSUME KillAndLeave(c) PROVE Safe
  BY <1>7, GoneIsOut, BecomingOffline DEF KillAndLeave
<1> QED
  BY <1>2, <1>3, <1>4, <1>5, <1>6, <1>7, ModelIsSafe

\* Every response.
LEMMA HandlingIsSafe ==
    ASSUME Inv, NEW c \in Conn, Model(c)
    PROVE  Safe
<1>1. CASE HandleState(c)
  <2> DEFINE k == Learned(Taken(c), Resp(c))
  <2>1. Stated(LeftForeign(k))
    BY TakenIs, Learning, LoggingOut
  <2>2. \/ ModelHandlesState(c) \/ BecomesOffline(c, LeftForeign(k))
        \/ KillAndLeave(c) \/ TaskHandlesState(c)
    BY <1>1 DEF HandleState
  <2>3. KillAndLeave(c) => Safe
    BY GoneIsOut, BecomingOffline DEF KillAndLeave
  <2> HIDE DEF k
  <2> QED
    BY <2>1, <2>2, <2>3, BecomingOffline, ModelIsSafe, TaskIsSafe
<1> QED
  BY <1>1, SignalsAreSafe DEF Model

\* A connection is opened only online.
LEMMA OpeningIsSafe ==
    ASSUME Inv, NEW c \in Conn, Open(c)
    PROVE  Safe
<1>1. Update(c, New) /\ policy' = policy /\ policy # "offline"
  BY DEF Open, Update
<1> QED
  BY <1>1, GoneIsOut, Updating

\* All connections are logged out, as setNetworkPolicy does.
LEMMA AllLoggedOut ==
    ASSUME Inv
    PROVE  LET after == [c \in Conn |-> LoggedOut(conn[c])]
           IN  DOMAIN after = Conn /\ \A c \in Conn : Stated(after[c]) /\ after[c].state \in Out
BY LoggingOut DEF Inv, HaveStates

\* The user's answers.
LEMMA UserIsSafe ==
    ASSUME Inv, User
    PROVE  Safe
<1>1. ASSUME conn' = [c \in Conn |-> LoggedOut(conn[c])], policy' = "offline" PROVE Safe
  BY <1>1, AllLoggedOut DEF Safe, HaveStates, Leaves
<1>2. ASSUME UNCHANGED <<conn, policy>> PROVE Safe
  BY <1>2 DEF Inv, HaveStates, OfflineIsOffline, Safe, Quiet, Stays
<1>3. CASE AcceptSsl
  <2>1. conn' = [c \in Conn |-> IF c \in Informed THEN Accepted(conn[c]) ELSE conn[c]]
        /\ policy' = policy
    BY <1>3 DEF AcceptSsl
  <2>2. \A c \in Conn : Stated(conn'[c]) /\ (policy = "offline" => conn'[c].state \in Out)
    BY <2>1, TakenIs, Decided
  <2> QED
    BY <2>1, <2>2 DEF Safe, HaveStates, Quiet, Stays
<1>4. CASE RejectSsl
  <2> DEFINE after(c) == IF Surprised = Informed THEN conn[c] ELSE LoggedOut(conn[c])
  <2>1. /\ conn' = [c \in Conn |-> IF c \in Informed THEN Unfrozen(after(c)) ELSE after(c)]
        /\ policy' = IF Surprised = Informed THEN policy ELSE "offline"
    BY <1>4 DEF RejectSsl
  <2>2. ASSUME NEW c \in Conn
        PROVE  /\ Stated(after(c))
               /\ Surprised # Informed \/ policy = "offline" => after(c).state \in Out
    BY TakenIs, LoggingOut
  <2> HIDE DEF after
  <2>3. ASSUME NEW c \in Conn
        PROVE  Stated(conn'[c]) /\ conn'[c].state = after(c).state
    BY <2>1, <2>2, Decided
  <2> QED
    BY <2>1, <2>2, <2>3 DEF Safe, HaveStates, Quiet, Leaves, Stays
<1>5. CASE SetImapPassword
  <2> DEFINE again(c) == [Wait(conn[c], "LOGIN") EXCEPT !.fresh = FALSE]
  <2>1. conn' = [c \in Conn |-> IF WaitsForPassword(conn[c]) THEN again(c) ELSE conn[c]]
        /\ policy' = policy
    BY <1>5 DEF SetImapPassword
  <2>2. ASSUME NEW c \in Conn PROVE Stated(again(c)) /\ again(c).state = conn[c].state
    <3>1. Stated(Wait(conn[c], "LOGIN")) /\ Wait(conn[c], "LOGIN").state = conn[c].state
      BY TakenIs, Queued
    <3> QED
      BY <3>1 DEF Stated
  <2> HIDE DEF again
  <2>3. \A c \in Conn : Stated(conn'[c]) /\ (policy = "offline" => conn'[c].state \in Out)
    BY <2>1, <2>2, TakenIs
  <2> QED
    BY <2>1, <2>3 DEF Safe, HaveStates, Quiet, Stays
<1>6. CASE UnsetImapPassword
  BY <1>1, <1>2, <1>6 DEF UnsetImapPassword
<1> QED
  BY <1>3, <1>4, <1>5, <1>6 DEF User

\* A policy that is set keeps the invariant if it is the desired one or offline.
LEMMA SettingPolicy ==
    ASSUME Inv, NEW p, SetNetworkPolicy(p), p = "online" => desired' = "online"
    PROVE  Inv'
<1>1. CASE p = "offline"
  BY <1>1, AllLoggedOut DEF Inv, HaveStates, OfflineIsOffline, SetNetworkPolicy
<1>2. CASE p # "offline"
  BY <1>2 DEF Inv, HaveStates, OfflineIsOffline, SetNetworkPolicy
<1> QED
  BY <1>1, <1>2

\* The NetworkWatcher, whatever the user, the system and the session do.
LEMMA WatcherIsSafe ==
    ASSUME Inv, Watcher
    PROVE  Inv'
<1>1. ASSUME NEW p, NEW isOnline, SetDesired(p, isOnline) PROVE Inv'
  <2>1. CASE policy = "offline" /\ p = "online" /\ ~isOnline
    BY <1>1, <2>1 DEF SetDesired, Inv, HaveStates, OfflineIsOffline
  <2>2. CASE ~(policy = "offline" /\ p = "online" /\ ~isOnline)
    <3>1. SetNetworkPolicy(p) /\ desired' = p
      BY <1>1, <2>2 DEF SetDesired
    <3> QED
      BY <3>1, SettingPolicy
  <2> QED
    BY <2>1, <2>2
<1>2. CASE UserChooses
  BY <1>1, <1>2 DEF UserChooses
<1>3. CASE SystemOnline
  BY <1>1, <1>3 DEF SystemOnline
<1>4. CASE SystemOffline
  BY <1>4, SettingPolicy DEF SystemOffline
<1>5. CASE SessionOpened
  BY <1>5, SettingPolicy DEF SessionOpened
<1>6. CASE ConfigurationChanged
  BY <1>6, SettingPolicy DEF ConfigurationChanged
<1> QED
  BY <1>2, <1>3, <1>4, <1>5, <1>6 DEF Watcher

----------------------------------------------------------------------------
(* Offline is offline. *)

\* Only the NetworkWatcher changes what the user wants.
LEMMA DesiredStays ==
    ASSUME NEW c \in Conn,
           \/ Open(c) \/ Socket(c) \/ Parser(c) \/ Model(c) \/ Answer(c)
           \/ Disconnect(c) \/ ServerRefuses(c) \/ ServerLeaves(c)
    PROVE  desired' = desired
<1>1. Open(c) \/ Disconnect(c) \/ ServerRefuses(c) \/ ServerLeaves(c) => desired' = desired
  BY DEF Open, Disconnect, ServerRefuses, ServerLeaves, network
<1>2. Socket(c) => desired' = desired
  BY DEF Socket, Start, Connected, Announce, HandleSocketEncrypted, Local, network
<1>3. Parser(c) => desired' = desired
  BY DEF Parser, Read, FinishStartTls, Execute, Local, network
<1>4. Model(c) => desired' = desired
  BY DEF Model, Capability, Disconnected, SocketEncrypted, HandleState, Handled, network
<1>5. Answer(c) => desired' = desired
  BY DEF Answer, Greet, AnswerCapability, AnswerStartTls, AnswerLogin, AnswerOther,
         AnswerLogout, Served, network
<1> QED
  BY <1>1, <1>2, <1>3, <1>4, <1>5

\* The dialogs do not change what the user wants of the network.
LEMMA UserKeepsDesired == User => desired' = desired
BY DEF User, AcceptSsl, RejectSsl, SetSslPolicy, SetImapPassword, UnsetImapPassword, network

\* No connection has been opened yet.
LEMMA InvInit == Init => Inv
BY GoneIsOut DEF Init, Inv, HaveStates, OfflineIsOffline

\* The invariant is inductive.
LEMMA InvStep == Inv /\ [Next]_vars => Inv'
<1> SUFFICES ASSUME Inv, [Next]_vars PROVE Inv'
  OBVIOUS
<1>1. ASSUME Safe, desired' = desired PROVE Inv'
  BY <1>1 DEF Inv, HaveStates, OfflineIsOffline, Safe, Quiet, Leaves, Stays
<1>2. ASSUME NEW c \in Conn,
             \/ Open(c) \/ Socket(c) \/ Parser(c) \/ Model(c) \/ Answer(c)
             \/ Disconnect(c) \/ ServerRefuses(c) \/ ServerLeaves(c)
      PROVE  Inv'
  BY <1>1, <1>2, DesiredStays, OpeningIsSafe, SocketIsSafe, ParserIsSafe, HandlingIsSafe, ServerIsSafe
<1>3. CASE User
  BY <1>1, <1>3, UserIsSafe, UserKeepsDesired
<1>4. CASE Watcher
  BY <1>4, WatcherIsSafe
<1>5. CASE UNCHANGED vars
  BY <1>5 DEF vars, changing, network, Inv, HaveStates, OfflineIsOffline
<1> QED
  BY <1>2, <1>3, <1>4, <1>5 DEF Next

\* Offline is offline, for any number of connections and any bounds: while the policy is
\* offline every connection is gone or logging out, and the policy is online only while the
\* user wants it (Model::setNetworkPolicy, NetworkWatcher).
THEOREM OfflineStaysOffline == Spec => []OfflineIsOffline
<1>1. Inv => OfflineIsOffline
  BY DEF Inv
<1> QED
  BY <1>1, InvInit, InvStep, PTL DEF Spec

----------------------------------------------------------------------------
(* Sequences of commands and of lines: what is in them and what follows.   *)

Items(s) == {s[i] : i \in DOMAIN s}

\* Only LOGOUT comes after another command.
LogoutLast(s) == \A i, j \in DOMAIN s : i < j => s[j] = "LOGOUT"

\* The commands of OpenConnectionTask and of the tasks that wait for it; their answers.
Tasks == Commands \ {"LOGOUT"}
Answers(l) == l.tag \in Tasks

\* An answer comes after the capabilities that it announces and is the only one; after the
\* handshake, which freezes the Parser, only the connection can break.
Follows(a, b) ==
    /\ Answers(a) => ~Answers(b) /\ b.kind # "CAPABILITY"
    /\ a.kind = "encrypted" => b.kind = "disconnected"
InOrder(s) == \A i, j \in DOMAIN s : i < j => Follows(s[i], s[j])

\* What appending adds.
LEMMA Appending ==
    ASSUME NEW S, NEW s \in Seq(S), NEW e \in S
    PROVE  /\ Append(s, e) \in Seq(S) /\ Append(s, e) # <<>>
           /\ Items(Append(s, e)) = Items(s) \cup {e}
           /\ Len(Append(s, e)) = Len(s) + 1
           /\ Head(Append(s, e)) = IF s = <<>> THEN e ELSE Head(s)
           /\ \A i, j \in DOMAIN Append(s, e) : i < j =>
                 /\ i \in DOMAIN s /\ Append(s, e)[i] = s[i]
                 /\ \/ j \in DOMAIN s /\ Append(s, e)[j] = s[j]
                    \/ Append(s, e)[j] = e
<1> DEFINE a == Append(s, e)
<1>1. /\ a \in Seq(S) /\ Len(a) = Len(s) + 1 /\ Len(s) \in Nat
      /\ DOMAIN a = 1..(Len(s) + 1) /\ DOMAIN s = 1..Len(s)
      /\ \A i \in 1..Len(s) : a[i] = s[i]
      /\ a[Len(s) + 1] = e
  BY AppendProperties
<1> HIDE DEF a
<1>2. Items(a) = Items(s) \cup {e}
  <2>1. ASSUME NEW i \in DOMAIN a PROVE a[i] \in Items(s) \cup {e}
    <3>1. i \in 1..Len(s) \/ i = Len(s) + 1
      BY <1>1
    <3> QED
      BY <1>1, <3>1 DEF Items
  <2>2. ASSUME NEW i \in DOMAIN s PROVE s[i] \in Items(a)
    <3>1. i \in DOMAIN a /\ a[i] = s[i]
      BY <1>1
    <3> QED
      BY <3>1 DEF Items
  <2>3. e \in Items(a)
    <3>1. Len(s) + 1 \in DOMAIN a
      BY <1>1
    <3> QED
      BY <1>1, <3>1 DEF Items
  <2> QED
    BY <2>1, <2>2, <2>3 DEF Items
<1>3. a # <<>>
  BY <1>1
<1>4. Head(a) = IF s = <<>> THEN e ELSE Head(s)
  <2>1. Head(a) = a[1] /\ (s # <<>> => Head(s) = s[1] /\ 1 \in 1..Len(s))
    BY <1>1
  <2>2. s = <<>> => Len(s) + 1 = 1
    OBVIOUS
  <2> QED
    BY <1>1, <2>1, <2>2
<1>5. \A i, j \in DOMAIN a : i < j =>
         /\ i \in DOMAIN s /\ a[i] = s[i]
         /\ (j \in DOMAIN s /\ a[j] = s[j]) \/ a[j] = e
  <2> TAKE i, j \in DOMAIN a
  <2> HAVE i < j
  <2>1. i \in 1..Len(s)
    BY <1>1
  <2>2. j \in 1..Len(s) \/ j = Len(s) + 1
    BY <1>1
  <2> QED
    BY <1>1, <2>1, <2>2
<1> QED
  BY <1>1, <1>2, <1>3, <1>4, <1>5 DEF a

\* What is left when the head has been taken.
LEMMA Taking ==
    ASSUME NEW S, NEW s \in Seq(S), s # <<>>
    PROVE  /\ Tail(s) \in Seq(S) /\ Head(s) \in S /\ Len(Tail(s)) = Len(s) - 1
           /\ Head(s) \in Items(s) /\ Items(Tail(s)) \subseteq Items(s)
           /\ \A i, j \in DOMAIN Tail(s) : i < j =>
                 \E m, n \in DOMAIN s : m < n /\ Tail(s)[i] = s[m] /\ Tail(s)[j] = s[n]
           /\ \A e \in Items(Tail(s)) : \E n \in DOMAIN s : 1 < n /\ s[n] = e
           /\ 1 \in DOMAIN s /\ s[1] = Head(s)
           /\ Items(s) \subseteq S
<1> DEFINE t == Tail(s)
<1>1. /\ t \in Seq(S) /\ Len(t) = Len(s) - 1 /\ Len(s) \in Nat /\ Len(s) >= 1
      /\ DOMAIN t = 1..(Len(s) - 1) /\ DOMAIN s = 1..Len(s)
      /\ \A i \in 1..(Len(s) - 1) : t[i] = s[i + 1]
      /\ Head(s) = s[1]
  BY HeadTailProperties, EmptySeq
<1> HIDE DEF t
<1>2. 1 \in DOMAIN s
  BY <1>1
<1>3. ASSUME NEW i \in DOMAIN t PROVE i + 1 \in DOMAIN s /\ t[i] = s[i + 1] /\ 1 < i + 1 /\ i \in Int
  BY <1>1
<1>4. Head(s) \in Items(s) /\ Items(t) \subseteq Items(s)
  BY <1>1, <1>2, <1>3 DEF Items
<1>5. \A e \in Items(t) : \E n \in DOMAIN s : 1 < n /\ s[n] = e
  BY <1>3 DEF Items
<1>6. ASSUME NEW i \in DOMAIN t, NEW j \in DOMAIN t, i < j
      PROVE  \E m, n \in DOMAIN s : m < n /\ t[i] = s[m] /\ t[j] = s[n]
  <2>1. i + 1 < j + 1
    BY <1>3, <1>6
  <2> QED
    BY <1>3, <2>1
<1>7. Items(s) \subseteq S
  BY <1>1, ElementOfSeq DEF Items
<1> QED
  BY <1>1, <1>2, <1>4, <1>5, <1>6, <1>7, ElementOfSeq DEF t

\* LOGOUT may be queued at any time, and commands are taken from the front.
LEMMA LogoutStaysLast ==
    ASSUME NEW s \in Seq(Commands), LogoutLast(s)
    PROVE  /\ LogoutLast(Append(s, "LOGOUT"))
           /\ s # <<>> => LogoutLast(Tail(s)) /\ Items(Tail(s)) \subseteq {"LOGOUT"}
           /\ s = <<>> => \A e \in Commands : LogoutLast(Append(s, e)) /\ Items(Append(s, e)) = {e}
<1>1. "LOGOUT" \in Commands
  BY DEF Commands
<1>2. LogoutLast(Append(s, "LOGOUT"))
  BY <1>1, Appending DEF LogoutLast
<1>3. ASSUME s # <<>> PROVE LogoutLast(Tail(s)) /\ Items(Tail(s)) \subseteq {"LOGOUT"}
  <2>1. LogoutLast(Tail(s))
    BY <1>3, Taking DEF LogoutLast
  <2>2. Items(Tail(s)) \subseteq {"LOGOUT"}
    BY <1>3, Taking DEF LogoutLast
  <2> QED
    BY <2>1, <2>2
<1>4. ASSUME s = <<>>, NEW e \in Commands PROVE LogoutLast(Append(s, e)) /\ Items(Append(s, e)) = {e}
  <2>1. DOMAIN s = {} /\ Items(s) = {}
    BY <1>4 DEF Items
  <2>2. /\ Items(Append(s, e)) = Items(s) \cup {e}
        /\ \A i, j \in DOMAIN Append(s, e) : i < j => i \in DOMAIN s
    BY Appending
  <2>3. LogoutLast(Append(s, e))
    BY <2>1, <2>2 DEF LogoutLast
  <2> QED
    BY <2>1, <2>2, <2>3
<1> QED
  BY <1>2, <1>3, <1>4

\* A line may be appended if it may follow each of the others.
LEMMA StaysInOrder ==
    ASSUME NEW s \in Seq(Lines), InOrder(s)
    PROVE  /\ \A l \in Lines : (\A m \in Items(s) : Follows(m, l)) => InOrder(Append(s, l))
           /\ s # <<>> => InOrder(Tail(s)) /\ \A m \in Items(Tail(s)) : Follows(Head(s), m)
<1>1. ASSUME NEW l \in Lines, \A m \in Items(s) : Follows(m, l) PROVE InOrder(Append(s, l))
  <2>1. \A i \in DOMAIN s : Follows(s[i], l)
    BY <1>1 DEF Items
  <2> DEFINE a == Append(s, l)
  <2>2. \A i, j \in DOMAIN a : i < j =>
         /\ i \in DOMAIN s /\ a[i] = s[i]
         /\ (j \in DOMAIN s /\ a[j] = s[j]) \/ a[j] = l
    BY Appending
  <2> HIDE DEF a
  <2>3. InOrder(a)
    BY <2>1, <2>2 DEF InOrder
  <2> QED
    BY <2>3 DEF a
<1>2. ASSUME s # <<>> PROVE InOrder(Tail(s)) /\ \A m \in Items(Tail(s)) : Follows(Head(s), m)
  <2> DEFINE t == Tail(s)
             h == Head(s)
  <2>1. /\ \A i, j \in DOMAIN t : i < j =>
             \E m, n \in DOMAIN s : m < n /\ t[i] = s[m] /\ t[j] = s[n]
        /\ \A e \in Items(t) : \E n \in DOMAIN s : 1 < n /\ s[n] = e
        /\ 1 \in DOMAIN s /\ s[1] = h
    BY <1>2, Taking
  <2> HIDE DEF t, h
  <2>2. InOrder(t)
    <3> SUFFICES ASSUME NEW i \in DOMAIN t, NEW j \in DOMAIN t, i < j PROVE Follows(t[i], t[j])
      BY DEF InOrder
    <3>1. PICK m \in DOMAIN s, n \in DOMAIN s : m < n /\ t[i] = s[m] /\ t[j] = s[n]
      BY <2>1
    <3>2. Follows(s[m], s[n])
      BY <3>1 DEF InOrder
    <3> QED
      BY <3>1, <3>2
  <2>3. \A m \in Items(t) : Follows(h, m)
    BY <2>1 DEF InOrder
  <2> QED
    BY <2>2, <2>3 DEF t, h
<1> QED
  BY <1>1, <1>2

----------------------------------------------------------------------------
(* The inductive invariant.  At most one command is under way besides      *)
(* LOGOUT: x, which is in one place p between the queue and its handling.  *)

Places == {"none", "queue", "server", "unread", "reply", "resp"}
\* Where STARTTLS has been sent and still heads the queue.
Begun == {"server", "unread", "reply"}
\* The phase in which a connection begins.
First == IF Encrypted THEN "secure" ELSE "plain"

\* The server's phases when a command reaches it, and while a connection is in a state.
Allowed(x) == {"leaving"} \cup
    CASE x = "STARTTLS" -> {"plain"}
      [] x = "LOGIN" -> {"plain", "secure"}
      [] x \in {"COMPRESS", "other"} -> {"authenticated"}
      [] OTHER -> Phases

Early == {"NONE", "CONNECTING", "SSL_HANDSHAKE", "SSL_VERIFYING", "CONNECTED_PRETLS_PRECAPS"}
Between == {"STARTTLS_ISSUED", "STARTTLS_HANDSHAKE"}
Precaps == {"CONNECTED_PRETLS", "ESTABLISHED_PRECAPS", "POSTAUTH_PRECAPS"}
Used == {"COMPRESS_DEFLATE", "AUTHENTICATED"}
Mute == Early \cup {"STARTTLS_HANDSHAKE", "STARTTLS_VERIFYING"}
Live(k) == k.state \notin Out

Serves(state) == {"leaving"} \cup
    CASE state \in Early -> {"greeting", First, "authenticated"}
      [] state = "CONNECTED_PRETLS" -> {First}
      [] state \in Between -> {"plain", "secure"}
      [] state \in {"STARTTLS_VERIFYING", "ESTABLISHED_PRECAPS"} -> {"secure"}
      [] state = "LOGIN" -> Phases
      [] OTHER -> {"authenticated"}

\* What OpenConnectionTask waits for in a state.
Asks(state) ==
    CASE state \in Precaps -> "CAPABILITY"
      [] state = "STARTTLS_ISSUED" -> "STARTTLS"
      [] state = "LOGIN" -> "LOGIN"
      [] state = "COMPRESS_DEFLATE" -> "COMPRESS"
      [] OTHER -> "other"

\* A server that offers STARTTLS has not begun it.
Truthful(caps) == "STARTTLS" \in caps.set => caps.phase = "plain"
Said(l) ==
    /\ l.tag # Untagged => l.kind \in {"OK", "NO"}
    /\ Truthful(l.caps)

AtHead(p, x) == p = "queue" \/ (x = "STARTTLS" /\ p \in Begun)
QueueFits(queue, p, x) ==
    /\ LogoutLast(queue)
    /\ \A m \in Items(queue) : m = "LOGOUT" \/ (m = x /\ AtHead(p, x))
    /\ AtHead(p, x) => queue # <<>> /\ Head(queue) = x
SentFits(received, p, x) ==
    /\ LogoutLast(received)
    /\ \A m \in Items(received) : m = "LOGOUT" \/ (m = x /\ p = "server")
    /\ p = "queue" => received = <<>>
    /\ p = "server" => received # <<>> /\ Head(received) = x
    /\ p = "server" /\ x \in {"STARTTLS", "COMPRESS"} => Len(received) = 1
UnreadFits(unread, p, x) ==
    /\ InOrder(unread)
    /\ \A l \in Items(unread) :
          /\ Said(l) /\ l.kind \notin {"encrypted", "disconnected"}
          /\ Answers(l) => l.tag = x /\ p = "unread"
          /\ l.kind = "CAPABILITY" => x = "CAPABILITY" /\ p = "unread"
RespFits(respQueue, p, x) ==
    /\ InOrder(respQueue)
    /\ \A l \in Items(respQueue) :
          /\ Said(l)
          /\ Answers(l) => l.tag = x /\ p = "resp"
          /\ l.kind = "CAPABILITY" => x = "CAPABILITY" /\ p \in {"unread", "resp"}
GatesFit(gates, reply, p, x) ==
    /\ "starttls" \in gates <=> (x = "STARTTLS" /\ p \in Begun)
    /\ x = "COMPRESS" /\ p = "server" => "compress" \in gates
    /\ reply # "" => p = "reply"
    /\ p = "reply" => x = "STARTTLS"
ServerFits(server, p, x) ==
    /\ p \in {"queue", "server"} => server \in Allowed(x)
    /\ x = "STARTTLS" /\ p # "none" => ~Encrypted

Talk(k, p, x) ==
    /\ QueueFits(k.queue, p, x)
    /\ SentFits(k.received, p, x)
    /\ UnreadFits(k.unread, p, x)
    /\ RespFits(k.respQueue, p, x)
    /\ GatesFit(k.gates, k.reply, p, x)
    /\ ServerFits(k.server, p, x)

\* The handshakes: that of STARTTLS comes when STARTTLS has been answered, and nothing is
\* read after a handshake until the certificates have been decided on.
Enc(respQueue) == \E l \in Items(respQueue) : l.kind = "encrypted"
HandshakeFits(state, socket, respQueue, p) ==
    ~Encrypted /\ (socket \in {"handshake", "garbled"} \/ Enc(respQueue))
        => p \in {"none", "resp"} /\ state \in Between \cup Out
FrozenFits(state, socket, gates, chain, server, respQueue) ==
    Enc(respQueue) => /\ socket \in {"up", "down"} /\ ~chain
                      /\ "policy" \in gates /\ "connection" \notin gates
                      /\ state \in Between => server \in {"secure", "leaving"}
DecidingFits(state, socket, gates, respQueue) ==
    state \in Deciding =>
         /\ "policy" \in gates /\ "connection" \notin gates /\ socket \in {"up", "down"}
         /\ \A l \in Items(respQueue) : l.kind = "disconnected"
ChainFits(state, socket, chain, p, x) ==
    chain => /\ socket \notin {"idle", "connecting", "handshake"}
             /\ ~Encrypted => (p = "none" \/ x # "STARTTLS") /\ state \notin Early \cup {"CONNECTED_PRETLS"}
Secured(k, p, x) ==
    /\ HandshakeFits(k.state, k.socket, k.respQueue, p)
    /\ FrozenFits(k.state, k.socket, k.gates, k.chain, k.server, k.respQueue)
    /\ DecidingFits(k.state, k.socket, k.gates, k.respQueue)
    /\ ChainFits(k.state, k.socket, k.chain, p, x)

\* The state of a connection that is set up or used, the phase of its server, and of what the
\* server has said.
CommandFits(state, queue, received, p, x) ==
    /\ "LOGOUT" \notin Items(queue) /\ "LOGOUT" \notin Items(received)
    /\ state \in Mute => p = "none"
    /\ p # "none" => x = Asks(state)
    /\ state \in Between => ~Encrypted
GreetingFits(state, server, fresh, lines) ==
    state \in Early =>
        /\ ~fresh
        /\ \A l \in lines : l.kind \in {"OK", "PREAUTH"} =>
              LET phase == IF l.kind = "OK" THEN First ELSE "authenticated"
              IN  server \in {phase, "leaving"} /\ (l.caps # NoCaps => l.caps.phase = phase)
CapsFit(state, fresh, caps, lines) ==
    /\ Truthful(caps)
    /\ \A l \in lines : l.tag # "LOGOUT"
    /\ state \in Precaps =>
         /\ fresh => caps.phase \in Serves(state)
         /\ \A l \in lines : l.kind = "CAPABILITY" => l.caps.phase \in Serves(state)
    /\ state \in Used => caps.phase = "authenticated"
LoginFits(state, server, fresh, caps, cmd, lines, p) ==
    state = "LOGIN" =>
        /\ caps.phase \in {"plain", "secure"} /\ server \in {caps.phase, "authenticated", "leaving"}
        /\ p # "none" => ~fresh /\ cmd # ""
        /\ p \in {"queue", "server"} \/ cmd = "" => server # "authenticated"
        /\ \A l \in lines : l.tag = "LOGIN" =>
              /\ l.kind = "OK" => server \in {"authenticated", "leaving"}
              /\ l.kind # "OK" => server \in {caps.phase, "leaving"}
              /\ l.caps # NoCaps => l.kind = "OK" /\ l.caps.phase = "authenticated"
Heard(k) == Items(k.unread) \cup Items(k.respQueue)
Fits(k, p, x) ==
    /\ CommandFits(k.state, k.queue, k.received, p, x)
    /\ k.server \in Serves(k.state)
    /\ GreetingFits(k.state, k.server, k.fresh, Heard(k))
    /\ CapsFit(k.state, k.fresh, k.caps, Heard(k))
    /\ LoginFits(k.state, k.server, k.fresh, k.caps, k.cmd, Heard(k), p)

SoundAt(k, p, x) == Talk(k, p, x) /\ Secured(k, p, x) /\ (Live(k) => Fits(k, p, x))
Sound(k) == \E p \in Places, x \in Tasks : SoundAt(k, p, x)

\* The connections opened so far, the session, and the dialog about the only one.
OnlyOne ==
    /\ \A c \in Conn : conn[c].state = "gone" => conn[c] = Gone
    /\ opened = 0 => asked["ssl"] = 0 /\ \A c \in Conn : conn[c].state = "gone"
    /\ opened = 1 => \A c, d \in Conn : conn[c].state # "gone" /\ conn[d].state # "gone" => c = d
OnlineHasSession == policy = "online" => session = "open" /\ online
DialogFits ==
    losses = 0 /\ opened < 2 =>
        /\ failures = {} /\ asked["ssl"] \in 0..1
        /\ asked["ssl"] = 1 => \A c \in Conn : conn[c].state \in Deciding \cup {"gone"}

AllSound == \A c \in Conn : Sound(conn[c])
IInv == Inv /\ TypeOK /\ AllSound /\ OnlyOne /\ OnlineHasSession /\ DialogFits

----------------------------------------------------------------------------
(* Types, states and operators. *)

\* The phases of the server at each command and state.
LEMMA Tables ==
    /\ Allowed("CAPABILITY") = {"leaving"} \cup Phases
    /\ Allowed("STARTTLS") = {"leaving", "plain"}
    /\ Allowed("LOGIN") = {"leaving", "plain", "secure"}
    /\ Allowed("COMPRESS") = {"leaving", "authenticated"}
    /\ Allowed("other") = {"leaving", "authenticated"}
    /\ \A state \in Early : Serves(state) = {"leaving", "greeting", First, "authenticated"}
    /\ Serves("CONNECTED_PRETLS") = {"leaving", First}
    /\ \A state \in Between : Serves(state) = {"leaving", "plain", "secure"}
    /\ Serves("STARTTLS_VERIFYING") = {"leaving", "secure"}
    /\ Serves("ESTABLISHED_PRECAPS") = {"leaving", "secure"}
    /\ Serves("LOGIN") = {"leaving"} \cup Phases
    /\ Serves("POSTAUTH_PRECAPS") = {"leaving", "authenticated"}
    /\ Serves("COMPRESS_DEFLATE") = {"leaving", "authenticated"}
    /\ Serves("AUTHENTICATED") = {"leaving", "authenticated"}
    /\ First \in {"plain", "secure"}
<1>1. /\ Allowed("CAPABILITY") = {"leaving"} \cup Phases
      /\ Allowed("STARTTLS") = {"leaving", "plain"}
      /\ Allowed("LOGIN") = {"leaving", "plain", "secure"}
      /\ Allowed("COMPRESS") = {"leaving", "authenticated"}
      /\ Allowed("other") = {"leaving", "authenticated"}
  BY DEF Allowed
<1>2. ASSUME NEW state \in Early
      PROVE  Serves(state) = {"leaving", "greeting", First, "authenticated"}
  <2>1. state \notin Between /\ state # "CONNECTED_PRETLS"
        /\ state \notin {"STARTTLS_VERIFYING", "ESTABLISHED_PRECAPS"} /\ state # "LOGIN"
    BY DEF Early, Between
  <2> HIDE DEF First
  <2> QED
    BY <2>1 DEF Serves
<1>3. ASSUME NEW state \in Between
      PROVE  Serves(state) = {"leaving", "plain", "secure"}
  <2>1. state \notin Early
    BY DEF Between, Early
  <2>2. state # "CONNECTED_PRETLS"
    BY DEF Between
  <2> QED
    BY <2>1, <2>2 DEF Serves, Between
<1>4. /\ Serves("CONNECTED_PRETLS") = {"leaving", First}
      /\ Serves("STARTTLS_VERIFYING") = {"leaving", "secure"}
      /\ Serves("ESTABLISHED_PRECAPS") = {"leaving", "secure"}
      /\ Serves("LOGIN") = {"leaving"} \cup Phases
  BY DEF Serves, Early, Between
<1>5. /\ Serves("POSTAUTH_PRECAPS") = {"leaving", "authenticated"}
      /\ Serves("COMPRESS_DEFLATE") = {"leaving", "authenticated"}
      /\ Serves("AUTHENTICATED") = {"leaving", "authenticated"}
  BY DEF Serves, Early, Between
<1>6. First \in {"plain", "secure"}
  BY DEF First
<1> QED
  BY <1>1, <1>2, <1>3, <1>4, <1>5, <1>6

\* What OpenConnectionTask waits for, state by state.
LEMMA AsksAre ==
    /\ \A state \in Precaps : Asks(state) = "CAPABILITY"
    /\ Asks("STARTTLS_ISSUED") = "STARTTLS"
    /\ Asks("LOGIN") = "LOGIN"
    /\ Asks("COMPRESS_DEFLATE") = "COMPRESS"
    /\ Asks("AUTHENTICATED") = "other"
BY DEF Asks, Precaps

\* ConnectionState is an order, and the model names all of it.
LEMMA Ranks ==
    /\ \A state \in StateNames : Rank(state) \in 1..15
    /\ \A state \in StateNames : Rank(state) <= Rank("CONNECTED_PRETLS_PRECAPS") <=> state \in Early
    /\ \A state \in {"CONNECTING", "SSL_HANDSHAKE", "CONNECTED_PRETLS_PRECAPS"} :
          Rank(state) <= Rank("CONNECTED_PRETLS_PRECAPS")
    /\ \A state \in Deciding : Rank(state) >= Rank("SSL_VERIFYING")
    /\ Rank("CONNECTED_PRETLS_PRECAPS") = 5 /\ Rank("CONNECTING") = 2
    /\ Rank("SSL_HANDSHAKE") = 3 /\ Rank("SSL_VERIFYING") = 4
    /\ StateNames = Early \cup Between \cup Precaps \cup Used \cup {"STARTTLS_VERIFYING", "LOGIN", "LOGOUT"}
<1>1. DOMAIN States = 1..15
  BY DEF States
<1>2. /\ States[1] = "NONE" /\ States[2] = "CONNECTING" /\ States[3] = "SSL_HANDSHAKE"
      /\ States[4] = "SSL_VERIFYING" /\ States[5] = "CONNECTED_PRETLS_PRECAPS"
      /\ States[6] = "CONNECTED_PRETLS" /\ States[7] = "STARTTLS_ISSUED"
      /\ States[8] = "STARTTLS_HANDSHAKE" /\ States[9] = "STARTTLS_VERIFYING"
      /\ States[10] = "ESTABLISHED_PRECAPS" /\ States[11] = "LOGIN" /\ States[12] = "POSTAUTH_PRECAPS"
      /\ States[13] = "COMPRESS_DEFLATE" /\ States[14] = "AUTHENTICATED" /\ States[15] = "LOGOUT"
  BY DEF States
<1>3. \A i \in 1..15 : i \in {1, 2, 3, 4, 5, 6, 7, 8, 9, 10, 11, 12, 13, 14, 15}
  OBVIOUS
<1>4. \A i, j \in 1..15 : States[i] = States[j] => i = j
  BY <1>2, <1>3
<1>5. ASSUME NEW i \in 1..15 PROVE Rank(States[i]) = i
  BY <1>1, <1>4 DEF Rank
<1>6. StateNames = {States[i] : i \in 1..15}
  BY <1>1 DEF StateNames
<1>7. StateNames = {"NONE", "CONNECTING", "SSL_HANDSHAKE", "SSL_VERIFYING", "CONNECTED_PRETLS_PRECAPS",
            "CONNECTED_PRETLS", "STARTTLS_ISSUED", "STARTTLS_HANDSHAKE", "STARTTLS_VERIFYING",
            "ESTABLISHED_PRECAPS", "LOGIN", "POSTAUTH_PRECAPS", "COMPRESS_DEFLATE",
            "AUTHENTICATED", "LOGOUT"}
  BY <1>2, <1>3, <1>6
<1>8. /\ Rank("NONE") = 1 /\ Rank("CONNECTING") = 2 /\ Rank("SSL_HANDSHAKE") = 3
      /\ Rank("SSL_VERIFYING") = 4 /\ Rank("CONNECTED_PRETLS_PRECAPS") = 5
      /\ Rank("CONNECTED_PRETLS") = 6 /\ Rank("STARTTLS_ISSUED") = 7
      /\ Rank("STARTTLS_HANDSHAKE") = 8 /\ Rank("STARTTLS_VERIFYING") = 9
      /\ Rank("ESTABLISHED_PRECAPS") = 10 /\ Rank("LOGIN") = 11 /\ Rank("POSTAUTH_PRECAPS") = 12
      /\ Rank("COMPRESS_DEFLATE") = 13 /\ Rank("AUTHENTICATED") = 14 /\ Rank("LOGOUT") = 15
  BY <1>2, <1>5
<1>9. \A state \in StateNames : Rank(state) \in 1..15
  BY <1>5, <1>6
<1>10. \A state \in StateNames : Rank(state) <= 5 <=> state \in Early
  BY <1>7, <1>8 DEF Early
<1>11. StateNames = Early \cup Between \cup Precaps \cup Used \cup {"STARTTLS_VERIFYING", "LOGIN", "LOGOUT"}
  BY <1>7 DEF Early, Between, Precaps, Used
<1> QED
  BY <1>8, <1>9, <1>10, <1>11 DEF Deciding

\* handleSocketStateChanged only raises a state, and only up to the one that it is given.
LEMMA ReachedIs ==
    ASSUME NEW k \in Connections,
           NEW state \in {"CONNECTING", "SSL_HANDSHAKE", "CONNECTED_PRETLS_PRECAPS"}
    PROVE  \/ Reached(k, state) = k
           \/ /\ Reached(k, state) = [k EXCEPT !.state = state]
              /\ k.state \in Early /\ state \in Early
              /\ state # "CONNECTED_PRETLS_PRECAPS" => k.state \notin Deciding
<1>1. k.state \in StateNames \cup {"gone"}
  BY DEF Connections
<1>2. CASE k.state # "gone" /\ Rank(k.state) < Rank(state)
  <2>1. k.state \in StateNames
    BY <1>1, <1>2
  <2>2. Rank(k.state) \in Nat /\ Rank(state) \in Nat /\ Rank(state) <= Rank("CONNECTED_PRETLS_PRECAPS")
    <3>1. state \in StateNames
      BY Ranks DEF Early
    <3>2. \A s \in StateNames : Rank(s) \in 1..15
      BY Ranks
    <3>3. Rank(state) \in 1..15 /\ Rank(k.state) \in 1..15
      BY <2>1, <3>1, <3>2
    <3>4. Rank(state) <= Rank("CONNECTED_PRETLS_PRECAPS")
      BY Ranks
    <3> QED
      BY <3>3, <3>4
  <2>3. k.state \in Early /\ state \in Early
    <3>1. \A s \in StateNames : Rank(s) <= Rank("CONNECTED_PRETLS_PRECAPS") <=> s \in Early
      BY Ranks
    <3>2. Rank("CONNECTED_PRETLS_PRECAPS") = 5
      BY Ranks
    <3>3. Rank(k.state) <= Rank("CONNECTED_PRETLS_PRECAPS")
      BY <1>2, <2>2, <3>2
    <3> QED
      BY <2>1, <3>1, <3>3 DEF Early
  <2>4. state # "CONNECTED_PRETLS_PRECAPS" => k.state \notin Deciding
    <3>1. Rank("CONNECTING") = 2 /\ Rank("SSL_HANDSHAKE") = 3 /\ Rank("SSL_VERIFYING") = 4
      BY Ranks
    <3>2. Rank(state) < 4 \/ state = "CONNECTED_PRETLS_PRECAPS"
      BY <3>1
    <3>3. k.state \in Deciding => Rank(k.state) >= 4
      BY <3>1, Ranks
    <3> QED
      BY <1>2, <2>2, <3>2, <3>3
  <2>5. Reached(k, state) = [k EXCEPT !.state = state]
    BY <1>2 DEF Reached
  <2> QED
    BY <2>3, <2>4, <2>5
<1>3. CASE ~(k.state # "gone" /\ Rank(k.state) < Rank(state))
  BY <1>3 DEF Reached
<1> QED
  BY <1>2, <1>3

----------------------------------------------------------------------------
(* How a connection changes.  k2 is k after a handler.  *)

\* The flags of the task and of its place among the active ones do not matter.
SameTalk(k2, k) ==
    /\ k2.received = k.received /\ k2.unread = k.unread /\ k2.respQueue = k.respQueue
    /\ k2.reply = k.reply /\ k2.server = k.server /\ k2.socket = k.socket
SameTask(k2, k) ==
    /\ SameTalk(k2, k) /\ k2.state = k.state /\ k2.queue = k.queue /\ k2.gates = k.gates
    /\ k2.chain = k.chain /\ k2.fresh = k.fresh /\ k2.caps = k.caps /\ k2.cmd = k.cmd
\* A step that leaves the exchange and the state alone leaves the connection sound.
LEMMA SameSound ==
    ASSUME NEW k, NEW k2, SameTask(k2, k), NEW p, NEW x, SoundAt(k, p, x)
    PROVE  SoundAt(k2, p, x)
BY DEF SameTask, SameTalk, SoundAt, Talk, Secured, Fits, Live, Heard

\* A connection in LOGOUT: what it waits for is left to come, and LOGOUT is queued after it.
LEMMA LeavingSound ==
    ASSUME NEW k \in Connections, NEW k2, NEW p \in Places, NEW x \in Tasks,
           Talk(k, p, x), Secured(k, p, x),
           SameTalk(k2, k), k2.chain = k.chain, k2.state = "LOGOUT",
           k2.queue = k.queue \/ k2.queue = Append(k.queue, "LOGOUT"),
           k2.gates = k.gates \/ (k2.gates = k.gates \ {"policy"} /\ ~Enc(k.respQueue))
    PROVE  SoundAt(k2, p, x)
<1>1. k.queue \in Seq(Commands) /\ "LOGOUT" \in Commands
  BY DEF Connections, Commands
<1>2. QueueFits(k2.queue, p, x)
  <2>1. QueueFits(k.queue, p, x)
    BY DEF Talk
  <2>2. QueueFits(Append(k.queue, "LOGOUT"), p, x)
    <3>1. LogoutLast(Append(k.queue, "LOGOUT"))
      BY <1>1, <2>1, LogoutStaysLast DEF QueueFits
    <3>2. /\ Items(Append(k.queue, "LOGOUT")) = Items(k.queue) \cup {"LOGOUT"}
          /\ Append(k.queue, "LOGOUT") # <<>>
          /\ Head(Append(k.queue, "LOGOUT")) = IF k.queue = <<>> THEN "LOGOUT" ELSE Head(k.queue)
      BY <1>1, Appending
    <3> QED
      BY <2>1, <3>1, <3>2 DEF QueueFits
  <2> QED
    BY <2>1, <2>2
<1>3. GatesFit(k2.gates, k2.reply, p, x)
  BY DEF Talk, GatesFit, SameTalk
<1>4. Talk(k2, p, x)
  BY <1>2, <1>3 DEF Talk, SameTalk
<1>5. Secured(k2, p, x)
  <2>1. HandshakeFits(k2.state, k2.socket, k2.respQueue, p)
    BY DEF Secured, HandshakeFits, SameTalk, Out
  <2>2. FrozenFits(k2.state, k2.socket, k2.gates, k2.chain, k2.server, k2.respQueue)
    BY DEF Secured, FrozenFits, SameTalk, Between
  <2>3. DecidingFits(k2.state, k2.socket, k2.gates, k2.respQueue)
    BY DEF DecidingFits, Deciding
  <2>4. ChainFits(k2.state, k2.socket, k2.chain, p, x)
    BY DEF Secured, ChainFits, SameTalk, Early
  <2> QED
    BY <2>1, <2>2, <2>3, <2>4 DEF Secured
<1> QED
  BY <1>4, <1>5 DEF SoundAt, Live, Out

\* When nothing is under way a command may be queued that the server's phase allows.
Queues(k, k2, y) ==
    /\ "LOGOUT" \notin Items(k.queue) /\ "LOGOUT" \notin Items(k.received)
    /\ \A l \in Heard(k) : l.tag # "LOGOUT"
    /\ SameTalk(k2, k) /\ k2.queue = Append(k.queue, y)
    /\ k2.gates = k.gates \/ k2.gates = k.gates \ {"policy"}
    /\ k.server \in Allowed(y) /\ (y = "STARTTLS" => ~Encrypted)
\* The command that is queued is the only one under way.
LEMMA Queueing ==
    ASSUME NEW k \in Connections, NEW k2, NEW x \in Tasks, Talk(k, "none", x),
           NEW y \in Tasks, Queues(k, k2, y)
    PROVE  Talk(k2, "queue", y) /\ Items(k2.queue) = {y} /\ k2.received = <<>>
<1> USE DEF Queues
<1>1. /\ k.queue \in Seq(Commands) /\ k.received \in Seq(Commands) /\ y \in Commands
      /\ "none" \notin Begun
  BY DEF Connections, Tasks, Begun
<1>2. k.queue = <<>>
  <2>1. Items(k.queue) = {}
    BY <1>1 DEF Talk, QueueFits, AtHead
  <2>2. k.queue # <<>> => Head(k.queue) \in Items(k.queue)
    BY <1>1, Taking
  <2> QED
    BY <2>1, <2>2
<1>3. k.received = <<>>
  <2>1. Items(k.received) = {}
    BY <1>1 DEF Talk, SentFits
  <2>2. k.received # <<>> => Head(k.received) \in Items(k.received)
    BY <1>1, Taking
  <2> QED
    BY <2>1, <2>2
<1>4. /\ LogoutLast(k2.queue) /\ Items(k2.queue) = {y}
      /\ k2.queue # <<>> /\ Head(k2.queue) = y
  <2>1. \A e \in Commands : LogoutLast(Append(k.queue, e)) /\ Items(Append(k.queue, e)) = {e}
    BY <1>1, <1>2, LogoutStaysLast DEF Talk, QueueFits
  <2>2. Append(k.queue, y) # <<>> /\ Head(Append(k.queue, y)) = y
    BY <1>1, <1>2, Appending
  <2> QED
    BY <1>1, <2>1, <2>2
<1>5. QueueFits(k2.queue, "queue", y)
  BY <1>4 DEF QueueFits, AtHead
<1>6. SentFits(k2.received, "queue", y) /\ k2.received = <<>>
  BY <1>3 DEF SentFits, SameTalk, Talk
<1>7. UnreadFits(k2.unread, "queue", y)
  BY DEF Talk, UnreadFits, SameTalk
<1>8. RespFits(k2.respQueue, "queue", y)
  BY DEF Talk, RespFits, SameTalk
<1>9. GatesFit(k2.gates, k2.reply, "queue", y)
  BY DEF Talk, GatesFit, SameTalk, Begun
<1>10. ServerFits(k2.server, "queue", y)
  BY DEF ServerFits, SameTalk
<1> QED
  BY <1>4, <1>5, <1>6, <1>7, <1>8, <1>9, <1>10 DEF Talk

\* OpenConnectionTask goes on: it queues a command and takes the state in which it waits for the
\* answer.  k2.caps are what it has been told in this phase.
CapsGoOn(k2) ==
    /\ Truthful(k2.caps)
    /\ k2.state \in Precaps => ~k2.fresh
    /\ k2.state \in Used => k2.caps.phase = "authenticated"
    /\ k2.state = "LOGIN" => /\ k2.caps.phase \in {"plain", "secure"} /\ k2.server \in {k2.caps.phase, "leaving"}
                             /\ ~k2.fresh /\ k2.cmd # ""
GoesOn(k, k2, y) ==
    /\ Queues(k, k2, y)
    /\ Live(k) /\ k.state \notin Between /\ (Enc(k.respQueue) => k2.gates = k.gates)
    /\ k2.chain = k.chain /\ k.server \in Serves(k2.state)
    /\ k2.state \in Precaps \cup Used \cup {"STARTTLS_ISSUED", "LOGIN"} /\ y = Asks(k2.state)
    /\ y = "STARTTLS" \/ k2.state = "CONNECTED_PRETLS" => k.state \in Early \cup {"CONNECTED_PRETLS"}
    /\ CapsGoOn(k2)
\* A connection that goes on is sound: its command is queued.
LEMMA GoingOn ==
    ASSUME NEW k \in Connections, NEW k2, NEW x \in Tasks, Talk(k, "none", x), Secured(k, "none", x),
           NEW y \in Tasks, GoesOn(k, k2, y)
    PROVE  SoundAt(k2, "queue", y)
<1>1. Talk(k2, "queue", y) /\ Items(k2.queue) = {y} /\ k2.received = <<>>
  BY Queueing DEF GoesOn
<1> USE DEF GoesOn, Queues
<1>2. /\ k2.state \notin Early /\ k2.state \notin Deciding /\ k2.state \notin Mute
      /\ k2.state \in Between => k2.state = "STARTTLS_ISSUED" /\ y = "STARTTLS"
  <2>1. k2.state \notin Early /\ k2.state \notin Deciding /\ k2.state \notin Mute
    BY DEF Early, Deciding, Mute, Precaps, Used
  <2>2. k2.state \in Between => k2.state = "STARTTLS_ISSUED"
    BY DEF Precaps, Used, Between
  <2>3. k2.state = "STARTTLS_ISSUED" => y = "STARTTLS"
    BY AsksAre
  <2> QED
    BY <2>1, <2>2, <2>3
<1>3. ~Encrypted => k.socket \notin {"handshake", "garbled"} /\ ~Enc(k.respQueue)
  BY DEF Secured, HandshakeFits, Live
<1>4. Secured(k2, "queue", y)
  <2>1. HandshakeFits(k2.state, k2.socket, k2.respQueue, "queue")
    BY <1>3 DEF HandshakeFits, SameTalk
  <2>2. FrozenFits(k2.state, k2.socket, k2.gates, k2.chain, k2.server, k2.respQueue)
    BY <1>2, <1>3 DEF Secured, FrozenFits, SameTalk
  <2>3. DecidingFits(k2.state, k2.socket, k2.gates, k2.respQueue)
    BY <1>2 DEF DecidingFits
  <2>4. ChainFits(k2.state, k2.socket, k2.chain, "queue", y)
    BY <1>2 DEF Secured, ChainFits, SameTalk
  <2> QED
    BY <2>1, <2>2, <2>3, <2>4 DEF Secured
<1>5. \A l \in Heard(k2) : ~Answers(l) /\ l.kind # "CAPABILITY"
  BY DEF Heard, SameTalk, Talk, UnreadFits, RespFits
<1>6. Fits(k2, "queue", y)
  <2>1. CommandFits(k2.state, k2.queue, k2.received, "queue", y)
    <3>1. Items(k2.received) = {} /\ y # "LOGOUT"
      BY <1>1 DEF Items, Tasks
    <3> QED
      BY <1>1, <1>2, <3>1 DEF CommandFits
  <2>2. k2.server \in Serves(k2.state)
    BY DEF SameTalk
  <2>3. GreetingFits(k2.state, k2.server, k2.fresh, Heard(k2))
    BY <1>2 DEF GreetingFits
  <2>4. CapsFit(k2.state, k2.fresh, k2.caps, Heard(k2))
    BY <1>5 DEF CapsFit, CapsGoOn, Heard, SameTalk
  <2>5. LoginFits(k2.state, k2.server, k2.fresh, k2.caps, k2.cmd, Heard(k2), "queue")
    <3>1. \A l \in Heard(k2) : l.tag # "LOGIN"
      BY <1>5 DEF Answers, Tasks, Commands
    <3>2. k2.state = "LOGIN" => k2.server # "authenticated"
      BY DEF CapsGoOn
    <3> QED
      BY <3>1, <3>2 DEF LoginFits, CapsGoOn
  <2> QED
    BY <2>1, <2>2, <2>3, <2>4, <2>5 DEF Fits
<1> QED
  BY <1>1, <1>4, <1>6 DEF SoundAt

\* Handling the response at the head of the queue: when it answers the command under way,
\* nothing is under way any more, and nothing that was said before it is left.
Rest(k) == [k EXCEPT !.respQueue = Tail(@)]
After(k, p) == IF Answers(Head(k.respQueue)) THEN "none" ELSE p
\* Taking the response at the head leaves a sound connection, and says what the response is.
LEMMA TakenSound ==
    ASSUME NEW k \in Connections, k.respQueue # <<>>, NEW p \in Places, NEW x \in Tasks, SoundAt(k, p, x)
    PROVE  /\ Rest(k) \in Connections /\ SoundAt(Rest(k), After(k, p), x) /\ After(k, p) \in Places
           /\ Head(k.respQueue) \in Lines /\ Head(k.respQueue) \in Heard(k)
           /\ Said(Head(k.respQueue))
           /\ Answers(Head(k.respQueue)) => Head(k.respQueue).tag = x
           /\ Head(k.respQueue).kind = "encrypted" =>
                 \A l \in Items(Rest(k).respQueue) : l.kind = "disconnected"
<1> DEFINE s == k.respQueue
           h == Head(s)
           t == Tail(s)
           r == Rest(k)
           q == After(k, p)
<1>1. s \in Seq(Lines) /\ s # <<>>
  BY DEF Connections
<1>2. t \in Seq(Lines) /\ h \in Lines /\ h \in Items(s) /\ Items(t) \subseteq Items(s)
  BY <1>1, Taking
<1>3. r \in Connections
  BY <1>2 DEF Rest, Connections
<1>4. /\ r.state = k.state /\ r.caps = k.caps /\ r.fresh = k.fresh /\ r.cmd = k.cmd
      /\ r.chain = k.chain /\ r.queue = k.queue /\ r.gates = k.gates /\ r.reply = k.reply
      /\ r.unread = k.unread /\ r.respQueue = t /\ r.socket = k.socket /\ r.server = k.server
      /\ r.received = k.received
  BY DEF Rest, Connections
<1>5. RespFits(s, p, x) /\ InOrder(s)
  BY DEF SoundAt, Talk, RespFits
<1>6. InOrder(t) /\ \A m \in Items(t) : Follows(h, m)
  BY <1>1, <1>5, StaysInOrder
<1>7. q = IF Answers(h) THEN "none" ELSE p
  BY DEF After
<1>8. Said(h) /\ (Answers(h) => h.tag = x /\ p = "resp")
  BY <1>2, <1>5 DEF RespFits
<1> HIDE DEF r, t, h, s, q
<1>9. Talk(r, q, x)
  <2>1. RespFits(t, q, x)
    <3>1. \A l \in Items(t) : (Answers(l) => ~Answers(h)) /\ (l.kind = "CAPABILITY" => ~Answers(h))
      BY <1>6 DEF Follows
    <3> QED
      BY <1>2, <1>5, <1>6, <1>7, <3>1 DEF RespFits
  <2>2. CASE ~Answers(h)
    BY <1>4, <1>7, <2>1, <2>2 DEF SoundAt, Talk
  <2>3. CASE Answers(h)
    <3>1. p = "resp" /\ q = "none" /\ "resp" \notin Begun /\ "none" \notin Begun
      BY <1>7, <1>8, <2>3 DEF Begun
    <3>2. QueueFits(k.queue, q, x)
      BY <3>1 DEF SoundAt, Talk, QueueFits, AtHead
    <3>3. SentFits(k.received, q, x)
      BY <3>1 DEF SoundAt, Talk, SentFits
    <3>4. UnreadFits(k.unread, q, x)
      BY <3>1 DEF SoundAt, Talk, UnreadFits
    <3>5. GatesFit(k.gates, k.reply, q, x)
      BY <3>1 DEF SoundAt, Talk, GatesFit
    <3>6. ServerFits(k.server, q, x)
      BY <3>1 DEF ServerFits
    <3> QED
      BY <1>4, <2>1, <3>2, <3>3, <3>4, <3>5, <3>6 DEF Talk
  <2> QED
    BY <2>2, <2>3
<1>10. Secured(r, q, x)
  <2>1. Enc(t) => Enc(s)
    BY <1>2 DEF Enc
  <2>2. q = p \/ (q = "none" /\ p = "resp")
    BY <1>7, <1>8
  <2>3. HandshakeFits(k.state, k.socket, t, q)
    BY <2>1, <2>2 DEF SoundAt, Secured, HandshakeFits, s
  <2>4. FrozenFits(k.state, k.socket, k.gates, k.chain, k.server, t)
    BY <2>1 DEF SoundAt, Secured, FrozenFits, s
  <2>5. DecidingFits(k.state, k.socket, k.gates, t)
    BY <1>2 DEF SoundAt, Secured, DecidingFits, s
  <2>6. ChainFits(k.state, k.socket, k.chain, q, x)
    BY <2>2 DEF SoundAt, Secured, ChainFits
  <2> QED
    BY <1>4, <2>3, <2>4, <2>5, <2>6 DEF Secured
<1>11. Live(k) => Fits(r, q, x)
  <2> SUFFICES ASSUME Live(k) PROVE Fits(r, q, x)
    OBVIOUS
  <2>1. q = p \/ (q = "none" /\ p = "resp")
    BY <1>7, <1>8
  <2>2. Heard(r) \subseteq Heard(k)
    BY <1>2, <1>4 DEF Heard, s
  <2>3. Fits(k, p, x)
    BY DEF SoundAt
  <2>4. CommandFits(k.state, k.queue, k.received, q, x)
    BY <2>1, <2>3 DEF Fits, CommandFits
  <2>5. GreetingFits(k.state, k.server, k.fresh, Heard(r))
    BY <2>2, <2>3 DEF Fits, GreetingFits
  <2>6. CapsFit(k.state, k.fresh, k.caps, Heard(r))
    BY <2>2, <2>3 DEF Fits, CapsFit
  <2>7. LoginFits(k.state, k.server, k.fresh, k.caps, k.cmd, Heard(r), q)
    BY <2>1, <2>2, <2>3 DEF Fits, LoginFits
  <2> QED
    BY <1>4, <2>3, <2>4, <2>5, <2>6, <2>7 DEF Fits
<1>12. Live(r) <=> Live(k)
  BY <1>4 DEF Live
<1>13. h.kind = "encrypted" => \A l \in Items(t) : l.kind = "disconnected"
  BY <1>6 DEF Follows
<1>14. h \in Heard(k)
  BY <1>2 DEF Heard, s
<1> QED
  BY <1>2, <1>3, <1>4, <1>7, <1>8, <1>9, <1>10, <1>11, <1>12, <1>13, <1>14 DEF SoundAt, r, t, h, s, q, Places

----------------------------------------------------------------------------
(* The socket. *)

\* What is written and said stays, the state may move among the early ones.
SameWords(k2, k) ==
    /\ k2.queue = k.queue /\ k2.received = k.received /\ k2.unread = k.unread
    /\ k2.respQueue = k.respQueue /\ k2.reply = k.reply /\ k2.server = k.server
    /\ k2.fresh = k.fresh /\ k2.caps = k.caps /\ k2.cmd = k.cmd
    /\ "starttls" \in k2.gates <=> "starttls" \in k.gates
    /\ "compress" \in k2.gates <=> "compress" \in k.gates
\* A connection that moves among the early states stays sound if its handshakes do.
LEMMA Moving ==
    ASSUME NEW k, NEW k2, NEW p, NEW x, SoundAt(k, p, x), SameWords(k2, k), Secured(k2, p, x),
           k2.state = k.state \/ {k.state, k2.state} \subseteq Early
    PROVE  SoundAt(k2, p, x)
<1>1. Talk(k2, p, x)
  BY DEF SoundAt, Talk, SameWords, GatesFit
<1>2. CASE k2.state = k.state
  BY <1>1, <1>2 DEF SoundAt, SameWords, Live, Fits, Heard
<1>3. CASE {k.state, k2.state} \subseteq Early
  <2>1. /\ k.state \in Early /\ k2.state \in Early /\ k.state \notin Out
        /\ k2.state \notin Precaps /\ k2.state \notin Used /\ k2.state # "LOGIN"
        /\ k.state \in Mute /\ k2.state \notin Between
    BY <1>3 DEF Early, Out, Precaps, Used, Mute, Between
  <2>2. Fits(k, p, x)
    BY <2>1 DEF SoundAt, Live
  <2>3. p = "none"
    BY <2>1, <2>2 DEF Fits, CommandFits
  <2>4. CommandFits(k2.state, k2.queue, k2.received, p, x)
    BY <2>1, <2>2, <2>3 DEF Fits, CommandFits, SameWords
  <2>5. k2.server \in Serves(k2.state)
    BY <2>1, <2>2, Tables DEF Fits, SameWords
  <2>6. GreetingFits(k2.state, k2.server, k2.fresh, Heard(k2))
    BY <2>1, <2>2 DEF Fits, GreetingFits, SameWords, Heard
  <2>7. CapsFit(k2.state, k2.fresh, k2.caps, Heard(k2))
    BY <2>1, <2>2 DEF Fits, CapsFit, SameWords, Heard
  <2>8. LoginFits(k2.state, k2.server, k2.fresh, k2.caps, k2.cmd, Heard(k2), p)
    BY <2>1 DEF LoginFits
  <2> QED
    BY <1>1, <2>4, <2>5, <2>6, <2>7, <2>8 DEF SoundAt, Fits
<1> QED
  BY <1>2, <1>3

Good(k) == k \in Connections /\ Sound(k)

\* connectToHost.
LEMMA StartSound ==
    ASSUME NEW k, Good(k), k.state # "gone", k.socket = "idle"
    PROVE  Good([Reached(k, "CONNECTING") EXCEPT !.socket = "connecting"])
<1> DEFINE r == Reached(k, "CONNECTING")
           k2 == [r EXCEPT !.socket = "connecting"]
<1>1. k \in Connections
  BY DEF Good
<1>2. PICK p \in Places, x \in Tasks : SoundAt(k, p, x)
  BY DEF Good, Sound
<1>3. r = k \/ (r = [k EXCEPT !.state = "CONNECTING"] /\ k.state \in Early)
  BY <1>1, ReachedIs
<1> HIDE DEF r
<1>4. /\ k2 \in Connections /\ SameWords(k2, k) /\ k2.chain = k.chain /\ k2.gates = k.gates
      /\ k2.socket = "connecting"
      /\ k2.state = k.state \/ (k.state \in Early /\ k2.state = "CONNECTING")
  <2>1. CASE r = k
    BY <1>1, <2>1 DEF Connections, SameWords
  <2>2. CASE r = [k EXCEPT !.state = "CONNECTING"] /\ k.state \in Early
    <3>1. "CONNECTING" \in StateNames
      BY Ranks DEF Early
    <3> QED
      BY <1>1, <2>2, <3>1 DEF Connections, SameWords
  <2> QED
    BY <1>3, <2>1, <2>2
<1> HIDE DEF k2
<1>5. ~Enc(k.respQueue) /\ ~k.chain /\ k.state \notin Deciding
  BY <1>2 DEF SoundAt, Secured, FrozenFits, ChainFits, DecidingFits
<1>6. Secured(k2, p, x)
  BY <1>4, <1>5 DEF Secured, HandshakeFits, FrozenFits, DecidingFits, ChainFits, SameWords, Deciding
<1>7. SoundAt(k2, p, x)
  BY <1>2, <1>4, <1>6, Moving DEF Early
<1> QED
  BY <1>4, <1>7 DEF Good, Sound, k2, r

\* The peer has accepted the connection.
LEMMA ConnectedSound ==
    ASSUME NEW k, Good(k), k.socket = "connecting"
    PROVE  /\ Encrypted => Good([Reached(k, "SSL_HANDSHAKE") EXCEPT !.socket = "handshake"])
           /\ ~Encrypted => Good([k EXCEPT !.socket = "up"])
<1> DEFINE r == Reached(k, "SSL_HANDSHAKE")
           k2 == [r EXCEPT !.socket = "handshake"]
           k3 == [k EXCEPT !.socket = "up"]
<1>1. k \in Connections
  BY DEF Good
<1>2. PICK p \in Places, x \in Tasks : SoundAt(k, p, x)
  BY DEF Good, Sound
<1>3. r = k \/ (r = [k EXCEPT !.state = "SSL_HANDSHAKE"] /\ k.state \in Early)
  BY <1>1, ReachedIs
<1> HIDE DEF r
<1>4. /\ k2 \in Connections /\ SameWords(k2, k) /\ k2.chain = k.chain /\ k2.gates = k.gates
      /\ k2.socket = "handshake"
      /\ k2.state = k.state \/ (k.state \in Early /\ k2.state = "SSL_HANDSHAKE")
  <2>1. CASE r = k
    BY <1>1, <2>1 DEF Connections, SameWords
  <2>2. CASE r = [k EXCEPT !.state = "SSL_HANDSHAKE"] /\ k.state \in Early
    <3>1. "SSL_HANDSHAKE" \in StateNames
      BY Ranks DEF Early
    <3> QED
      BY <1>1, <2>2, <3>1 DEF Connections, SameWords
  <2> QED
    BY <1>3, <2>1, <2>2
<1>5. /\ k3 \in Connections /\ SameWords(k3, k) /\ k3.chain = k.chain /\ k3.gates = k.gates
      /\ k3.socket = "up" /\ k3.state = k.state
  BY <1>1 DEF Connections, SameWords
<1> HIDE DEF k2, k3
<1>6. ~Enc(k.respQueue) /\ ~k.chain /\ k.state \notin Deciding
  BY <1>2 DEF SoundAt, Secured, FrozenFits, ChainFits, DecidingFits
<1>7. ASSUME Encrypted PROVE Good(k2)
  <2>1. Secured(k2, p, x)
    BY <1>4, <1>6, <1>7 DEF Secured, HandshakeFits, FrozenFits, DecidingFits, ChainFits, SameWords, Deciding
  <2>2. SoundAt(k2, p, x)
    BY <1>2, <1>4, <2>1, Moving DEF Early
  <2> QED
    BY <1>4, <2>2 DEF Good, Sound
<1>8. Good(k3)
  <2>1. Secured(k3, p, x)
    BY <1>5, <1>6 DEF Secured, HandshakeFits, FrozenFits, DecidingFits, ChainFits, SameWords
  <2>2. SoundAt(k3, p, x)
    BY <1>2, <1>5, <2>1, Moving
  <2> QED
    BY <1>5, <2>2 DEF Good, Sound
<1> QED
  BY <1>7, <1>8 DEF k2, k3, r

\* The signal that the socket is connected has arrived.
LEMMA AnnounceSound ==
    ASSUME NEW k, Good(k), k.socket = "up", "connection" \in k.gates
    PROVE  Good([Reached(k, "CONNECTED_PRETLS_PRECAPS") EXCEPT !.gates = @ \ {"connection"}])
<1> DEFINE r == Reached(k, "CONNECTED_PRETLS_PRECAPS")
           k2 == [r EXCEPT !.gates = @ \ {"connection"}]
<1>1. k \in Connections
  BY DEF Good
<1>2. PICK p \in Places, x \in Tasks : SoundAt(k, p, x)
  BY DEF Good, Sound
<1>3. r = k \/ (r = [k EXCEPT !.state = "CONNECTED_PRETLS_PRECAPS"] /\ k.state \in Early)
  BY <1>1, ReachedIs
<1> HIDE DEF r
<1>4. /\ k2 \in Connections /\ SameWords(k2, k) /\ k2.chain = k.chain
      /\ k2.socket = "up"
      /\ k2.state = k.state \/ (k.state \in Early /\ k2.state = "CONNECTED_PRETLS_PRECAPS")
  <2>1. CASE r = k
    BY <1>1, <2>1 DEF Connections, SameWords
  <2>2. CASE r = [k EXCEPT !.state = "CONNECTED_PRETLS_PRECAPS"] /\ k.state \in Early
    <3>1. "CONNECTED_PRETLS_PRECAPS" \in StateNames
      BY Ranks DEF Early
    <3> QED
      BY <1>1, <2>2, <3>1 DEF Connections, SameWords
  <2> QED
    BY <1>3, <2>1, <2>2
<1> HIDE DEF k2
<1>5. ~Enc(k.respQueue) /\ k.state \notin Deciding
  BY <1>2 DEF SoundAt, Secured, FrozenFits, DecidingFits
<1>6. Secured(k2, p, x)
  BY <1>2, <1>4, <1>5
     DEF SoundAt, Secured, HandshakeFits, FrozenFits, DecidingFits, ChainFits, SameWords, Deciding
<1>7. SoundAt(k2, p, x)
  BY <1>2, <1>4, <1>6, Moving DEF Early
<1> QED
  BY <1>4, <1>7 DEF Good, Sound, k2, r

\* The types of a line.
LEMMA LineIs ==
    ASSUME NEW tag \in Commands \cup {Untagged}, NEW caps \in CapLists,
           NEW kind \in {"OK", "NO", "BAD", "BYE", "PREAUTH", "CAPABILITY", "encrypted", "disconnected"}
    PROVE  /\ Line(tag, kind, caps) \in Lines
           /\ Line(tag, kind, caps).tag = tag /\ Line(tag, kind, caps).kind = kind
           /\ Line(tag, kind, caps).caps = caps
           /\ Untagged \notin Commands /\ Untagged \notin Tasks /\ NoCaps \in CapLists /\ Truthful(NoCaps)
BY DEF Line, Lines, Untagged, Commands, Tasks, CapLists, NoCaps, Truthful

\* A line reaches the Model.
LEMMA RespAppended ==
    ASSUME NEW s \in Seq(Lines), NEW p, NEW x, RespFits(s, p, x), NEW l \in Lines, Said(l),
           \A m \in Items(s) : Follows(m, l),
           Answers(l) => l.tag = x /\ p = "resp",
           l.kind = "CAPABILITY" => x = "CAPABILITY" /\ p \in {"unread", "resp"}
    PROVE  /\ RespFits(Append(s, l), p, x) /\ Append(s, l) \in Seq(Lines)
           /\ Items(Append(s, l)) = Items(s) \cup {l}
<1>1. Append(s, l) \in Seq(Lines) /\ Items(Append(s, l)) = Items(s) \cup {l}
  BY Appending
<1>2. InOrder(Append(s, l))
  BY StaysInOrder DEF RespFits
<1> QED
  BY <1>1, <1>2 DEF RespFits

\* The signals of the socket are appended; nothing else changes about what is said.
LEMMA Signalled ==
    ASSUME NEW k, k \in Connections, NEW k2, NEW p \in Places, NEW x \in Tasks, SoundAt(k, p, x),
           NEW kind \in {"encrypted", "disconnected"}, kind = "encrypted" => ~Enc(k.respQueue),
           k2.respQueue = Append(k.respQueue, Line(Untagged, kind, NoCaps)),
           k2.queue = k.queue, k2.received = k.received, k2.unread = k.unread, k2.reply = k.reply,
           k2.fresh = k.fresh, k2.caps = k.caps, k2.cmd = k.cmd, k2.state = k.state,
           "starttls" \in k2.gates <=> "starttls" \in k.gates,
           "compress" \in k2.gates <=> "compress" \in k.gates,
           \/ k2.server = k.server
           \/ /\ ~Encrypted /\ p \notin {"queue", "server"} /\ k.state \in Between \cup Out
              /\ k2.server = "secure",
           Secured(k2, p, x)
    PROVE  SoundAt(k2, p, x)
<1> DEFINE l == Line(Untagged, kind, NoCaps)
<1>1. k.respQueue \in Seq(Lines)
  BY DEF Connections
<1>2. /\ l \in Lines /\ l.tag = Untagged /\ l.kind = kind /\ l.caps = NoCaps /\ Untagged \notin Tasks
      /\ Truthful(NoCaps) /\ Untagged \notin Commands
  BY DEF Line, Lines, Untagged, Commands, Tasks, CapLists, NoCaps, Truthful
<1> HIDE DEF l
<1>3. RespFits(k.respQueue, p, x)
  BY DEF SoundAt, Talk
<1>4. Said(l) /\ ~Answers(l) /\ l.kind # "CAPABILITY" /\ l.kind \notin {"OK", "PREAUTH"} /\ l.tag # "LOGIN"
  BY <1>2 DEF Said, Answers, Commands
<1>5. \A m \in Items(k.respQueue) : Follows(m, l)
  BY <1>2, <1>4 DEF Follows, Enc
<1>6. RespFits(k2.respQueue, p, x) /\ Items(k2.respQueue) = Items(k.respQueue) \cup {l}
  BY <1>1, <1>2, <1>3, <1>4, <1>5, RespAppended DEF l
<1>7. Talk(k2, p, x)
  <2>1. GatesFit(k2.gates, k2.reply, p, x)
    BY DEF SoundAt, Talk, GatesFit
  <2>2. ServerFits(k2.server, p, x)
    BY DEF SoundAt, Talk, ServerFits
  <2> QED
    BY <1>6, <2>1, <2>2 DEF SoundAt, Talk
<1>8. ASSUME Live(k) PROVE Fits(k2, p, x)
  <2>1. Fits(k, p, x) /\ Heard(k2) = Heard(k) \cup {l}
    BY <1>6, <1>8 DEF SoundAt, Heard
  <2>2. k2.server # k.server => k.state \in Between /\ k2.server = "secure"
    BY <1>8 DEF Live
  <2>3. k.state \in Between => k.state \notin Early /\ k.state # "LOGIN"
    BY DEF Between, Early
  <2>4. k2.server \in Serves(k2.state)
    BY <2>1, <2>2, Tables DEF Fits
  <2>5. GreetingFits(k2.state, k2.server, k2.fresh, Heard(k2))
    BY <1>4, <2>1, <2>2, <2>3 DEF Fits, GreetingFits
  <2>6. CapsFit(k2.state, k2.fresh, k2.caps, Heard(k2))
    <3>1. l.tag # "LOGOUT"
      BY <1>2 DEF Commands
    <3> QED
      BY <1>4, <2>1, <3>1 DEF Fits, CapsFit
  <2>7. LoginFits(k2.state, k2.server, k2.fresh, k2.caps, k2.cmd, Heard(k2), p)
    BY <1>4, <2>1, <2>2, <2>3 DEF Fits, LoginFits
  <2>8. CommandFits(k2.state, k2.queue, k2.received, p, x)
    BY <2>1 DEF Fits
  <2> QED
    BY <2>4, <2>5, <2>6, <2>7, <2>8 DEF Fits
<1> QED
  BY <1>7, <1>8 DEF SoundAt, Live

\* The handshake is over; reading stops until the certificates have been decided on.
LEMMA EncryptedSound ==
    ASSUME NEW k, Good(k), k.socket = "handshake"
    PROVE  Good([Respond(k, Line(Untagged, "encrypted", NoCaps)) EXCEPT
                     !.socket = "up", !.gates = (@ \ {"encryption", "connection"}) \cup {"policy"},
                     !.server = IF Encrypted THEN @ ELSE "secure"])
<1> DEFINE l == Line(Untagged, "encrypted", NoCaps)
           told == Respond(k, l)
           k2 == [told EXCEPT
                     !.socket = "up", !.gates = (@ \ {"encryption", "connection"}) \cup {"policy"},
                     !.server = IF Encrypted THEN @ ELSE "secure"]
<1>1. k \in Connections
  BY DEF Good
<1>2. PICK p \in Places, x \in Tasks : SoundAt(k, p, x)
  BY DEF Good, Sound
<1>3. /\ ~Enc(k.respQueue) /\ ~k.chain /\ k.state \notin Deciding
      /\ ~Encrypted => p \in {"none", "resp"} /\ k.state \in Between \cup Out
  BY <1>2 DEF SoundAt, Secured, FrozenFits, ChainFits, DecidingFits, HandshakeFits
<1>4. l \in Lines
  BY LineIs DEF CapLists
<1> HIDE DEF l
<1>5. /\ k2 \in Connections
      /\ k2.respQueue = Append(k.respQueue, l)
      /\ k2.queue = k.queue /\ k2.received = k.received /\ k2.unread = k.unread /\ k2.reply = k.reply
      /\ k2.fresh = k.fresh /\ k2.caps = k.caps /\ k2.cmd = k.cmd /\ k2.state = k.state
      /\ k2.chain = k.chain /\ k2.socket = "up"
      /\ k2.gates = (k.gates \ {"encryption", "connection"}) \cup {"policy"}
      /\ k2.server = IF Encrypted THEN k.server ELSE "secure"
  <2>1. k.respQueue \in Seq(Lines)
    BY <1>1 DEF Connections
  <2>2. Append(k.respQueue, l) \in Seq(Lines)
    BY <1>4, <2>1
  <2>3. told = [k EXCEPT !.respQueue = Append(k.respQueue, l)]
    BY DEF Respond
  <2>4. told \in Connections
    BY <1>1, <2>2, <2>3 DEF Connections
  <2>5. "secure" \in Phases /\ "policy" \in Gates
    BY DEF Phases, Gates
  <2>7. /\ told.respQueue = Append(k.respQueue, l)
        /\ told.queue = k.queue /\ told.received = k.received /\ told.unread = k.unread /\ told.reply = k.reply
        /\ told.fresh = k.fresh /\ told.caps = k.caps /\ told.cmd = k.cmd /\ told.state = k.state
        /\ told.chain = k.chain /\ told.gates = k.gates /\ told.server = k.server
    BY <1>1 DEF Connections, Respond
  <2> HIDE DEF told
  <2>6. k2 \in Connections
    BY <2>4, <2>5, ZenonT(60) DEF Connections
  <2>8. /\ k2.gates = (told.gates \ {"encryption", "connection"}) \cup {"policy"}
        /\ k2.server = IF Encrypted THEN told.server ELSE "secure"
        /\ k2.socket = "up"
    BY <2>4 DEF Connections
  <2>9. /\ k2.respQueue = told.respQueue
        /\ k2.queue = told.queue /\ k2.received = told.received /\ k2.unread = told.unread
        /\ k2.reply = told.reply /\ k2.fresh = told.fresh /\ k2.caps = told.caps
        /\ k2.cmd = told.cmd /\ k2.state = told.state /\ k2.chain = told.chain
    BY <2>4 DEF Connections
  <2> HIDE DEF k2
  <2> QED
    BY <2>6, <2>7, <2>8, <2>9
<1> HIDE DEF k2
<1>6. ~Encrypted \/ k.state \in Out \/ k.state \notin Between
  BY <1>2 DEF SoundAt, Live, Fits, CommandFits
<1>7. Secured(k2, p, x)
  <2>1. HandshakeFits(k2.state, k2.socket, k2.respQueue, p)
    BY <1>3, <1>5 DEF HandshakeFits
  <2>2. FrozenFits(k2.state, k2.socket, k2.gates, k2.chain, k2.server, k2.respQueue)
    BY <1>3, <1>5, <1>6 DEF FrozenFits, Between, Out
  <2>3. DecidingFits(k2.state, k2.socket, k2.gates, k2.respQueue)
    BY <1>3, <1>5 DEF DecidingFits
  <2>4. ChainFits(k2.state, k2.socket, k2.chain, p, x)
    BY <1>3, <1>5 DEF ChainFits
  <2> QED
    BY <2>1, <2>2, <2>3, <2>4 DEF Secured
<1>8. \/ k2.server = k.server
      \/ /\ ~Encrypted /\ p \notin {"queue", "server"} /\ k.state \in Between \cup Out
         /\ k2.server = "secure"
  BY <1>3, <1>5
<1>9. /\ "starttls" \in k2.gates <=> "starttls" \in k.gates
      /\ "compress" \in k2.gates <=> "compress" \in k.gates
  BY <1>5
<1>10. k2.respQueue = Append(k.respQueue, Line(Untagged, "encrypted", NoCaps))
  BY <1>5 DEF l
<1>11. SoundAt(k2, p, x)
  BY <1>1, <1>2, <1>3, <1>5, <1>7, <1>8, <1>9, <1>10, Signalled
<1> QED
  BY <1>5, <1>11 DEF Good, Sound, k2, l

\* The connection is lost.
LEMMA DisconnectSound ==
    ASSUME NEW k, Good(k)
    PROVE  Good([Respond(k, Line(Untagged, "disconnected", NoCaps)) EXCEPT !.socket = "down"])
<1> DEFINE l == Line(Untagged, "disconnected", NoCaps)
           told == Respond(k, l)
           k2 == [told EXCEPT !.socket = "down"]
<1>1. k \in Connections
  BY DEF Good
<1>2. PICK p \in Places, x \in Tasks : SoundAt(k, p, x)
  BY DEF Good, Sound
<1>4. l \in Lines /\ l.kind = "disconnected"
  BY LineIs DEF CapLists
<1> HIDE DEF l
<1>5. /\ k2 \in Connections
      /\ k2.respQueue = Append(k.respQueue, l)
      /\ k2.queue = k.queue /\ k2.received = k.received /\ k2.unread = k.unread /\ k2.reply = k.reply
      /\ k2.fresh = k.fresh /\ k2.caps = k.caps /\ k2.cmd = k.cmd /\ k2.state = k.state
      /\ k2.chain = k.chain /\ k2.socket = "down" /\ k2.gates = k.gates /\ k2.server = k.server
      /\ Items(k2.respQueue) = Items(k.respQueue) \cup {l}
  <2>1. k.respQueue \in Seq(Lines)
    BY <1>1 DEF Connections
  <2>2. Append(k.respQueue, l) \in Seq(Lines) /\ Items(Append(k.respQueue, l)) = Items(k.respQueue) \cup {l}
    BY <1>4, <2>1, Appending
  <2>3. told = [k EXCEPT !.respQueue = Append(k.respQueue, l)]
    BY DEF Respond
  <2>4. told \in Connections
    BY <1>1, <2>2, <2>3 DEF Connections
  <2>7. /\ told.respQueue = Append(k.respQueue, l)
        /\ told.queue = k.queue /\ told.received = k.received /\ told.unread = k.unread /\ told.reply = k.reply
        /\ told.fresh = k.fresh /\ told.caps = k.caps /\ told.cmd = k.cmd /\ told.state = k.state
        /\ told.chain = k.chain /\ told.gates = k.gates /\ told.server = k.server
    BY <1>1 DEF Connections, Respond
  <2> HIDE DEF told
  <2>6. k2 \in Connections
    BY <2>4 DEF Connections
  <2> QED
    BY <2>2, <2>4, <2>6, <2>7 DEF Connections
<1> HIDE DEF k2
<1>6. Enc(k2.respQueue) => Enc(k.respQueue)
  BY <1>4, <1>5 DEF Enc
<1>7. Secured(k2, p, x)
  <2> USE <1>2, <1>5, <1>6 DEF SoundAt, Secured
  <2>1. HandshakeFits(k2.state, k2.socket, k2.respQueue, p)
    BY DEF HandshakeFits
  <2>2. FrozenFits(k2.state, k2.socket, k2.gates, k2.chain, k2.server, k2.respQueue)
    BY DEF FrozenFits
  <2>3. DecidingFits(k2.state, k2.socket, k2.gates, k2.respQueue)
    BY <1>4 DEF DecidingFits
  <2>4. ChainFits(k2.state, k2.socket, k2.chain, p, x)
    BY DEF ChainFits
  <2> QED
    BY <2>1, <2>2, <2>3, <2>4
<1>10. k2.respQueue = Append(k.respQueue, Line(Untagged, "disconnected", NoCaps))
  BY <1>5 DEF l
<1>11. SoundAt(k2, p, x)
  BY <1>1, <1>2, <1>5, <1>7, <1>10, Signalled
<1> QED
  BY <1>5, <1>11 DEF Good, Sound, k2, l

----------------------------------------------------------------------------
(* The Parser. *)

\* A command that is under way tells the state.
LEMMA AskedIn ==
    /\ \A state : Asks(state) = "STARTTLS" <=> state = "STARTTLS_ISSUED"
    /\ \A state : Asks(state) = "LOGIN" <=> state = "LOGIN"
    /\ \A state : Asks(state) = "CAPABILITY" <=> state \in Precaps
BY DEF Asks, Precaps

\* A step that leaves the state alone and brings nothing that matters in it.
Harmless(state, l) ==
    /\ state \in Early => l.kind \notin {"OK", "PREAUTH"}
    /\ l.kind # "CAPABILITY" /\ l.tag # "LOGOUT"
    /\ state = "LOGIN" => l.tag # "LOGIN"
SameState(k2, k) ==
    /\ k2.state = k.state /\ k2.server = k.server /\ k2.caps = k.caps /\ k2.fresh = k.fresh
    /\ k2.cmd = k.cmd
\* What fits does so when nothing that it depends on has changed.
LEMMA StillFits ==
    ASSUME NEW k, NEW k2, NEW p, NEW q, NEW x, Fits(k, p, x), SameState(k2, k),
           \A l \in Heard(k2) : l \in Heard(k) \/ Harmless(k.state, l),
           "LOGOUT" \notin Items(k2.queue), "LOGOUT" \notin Items(k2.received),
           q # "none" <=> p # "none", q \in {"queue", "server"} => p \in {"queue", "server"}
    PROVE  Fits(k2, q, x)
<1>1. CommandFits(k2.state, k2.queue, k2.received, q, x)
  BY DEF Fits, CommandFits, SameState
<1>2. k2.server \in Serves(k2.state)
  BY DEF Fits, SameState
<1>3. GreetingFits(k2.state, k2.server, k2.fresh, Heard(k2))
  BY DEF Fits, GreetingFits, SameState, Harmless
<1>4. CapsFit(k2.state, k2.fresh, k2.caps, Heard(k2))
  BY DEF Fits, CapsFit, SameState, Harmless
<1>5. LoginFits(k2.state, k2.server, k2.fresh, k2.caps, k2.cmd, Heard(k2), q)
  BY DEF Fits, LoginFits, SameState, Harmless
<1> QED
  BY <1>1, <1>2, <1>3, <1>4, <1>5 DEF Fits

\* The line that is read.
LEMMA ReadLine ==
    ASSUME NEW k \in Connections, NEW p \in Places, NEW x \in Tasks, Talk(k, p, x), k.unread # <<>>
    PROVE  /\ Tail(k.unread) \in Seq(Lines) /\ Head(k.unread) \in Lines
           /\ Head(k.unread) \in Items(k.unread) /\ Items(Tail(k.unread)) \subseteq Items(k.unread)
           /\ Said(Head(k.unread)) /\ Head(k.unread).kind \notin {"encrypted", "disconnected"}
           /\ InOrder(Tail(k.unread))
           /\ Answers(Head(k.unread)) =>
                 /\ Head(k.unread).tag = x /\ p = "unread" /\ Head(k.unread).kind \in {"OK", "NO"}
                 /\ \A l \in Items(Tail(k.unread)) : ~Answers(l) /\ l.kind # "CAPABILITY"
           /\ Head(k.unread).kind = "CAPABILITY" => x = "CAPABILITY" /\ p = "unread"
<1> DEFINE s == k.unread
           h == Head(s)
           t == Tail(s)
<1>1. s \in Seq(Lines) /\ s # <<>>
  BY DEF Connections
<1>2. t \in Seq(Lines) /\ h \in Lines /\ h \in Items(s) /\ Items(t) \subseteq Items(s)
  BY <1>1, Taking
<1>3. UnreadFits(s, p, x)
  BY DEF Talk
<1>4. InOrder(t) /\ \A m \in Items(t) : Follows(h, m)
  BY <1>1, <1>3, StaysInOrder DEF UnreadFits
<1> HIDE DEF s, h, t
<1>5. /\ Said(h) /\ h.kind \notin {"encrypted", "disconnected"}
      /\ Answers(h) => h.tag = x /\ p = "unread"
      /\ h.kind = "CAPABILITY" => x = "CAPABILITY" /\ p = "unread"
  BY <1>2, <1>3 DEF UnreadFits
<1>6. Answers(h) => h.kind \in {"OK", "NO"}
  BY <1>5 DEF Said, Answers, Tasks, Commands, Untagged
<1>7. Answers(h) => \A l \in Items(t) : ~Answers(l) /\ l.kind # "CAPABILITY"
  BY <1>4 DEF Follows
<1> QED
  BY <1>2, <1>4, <1>5, <1>6, <1>7 DEF s, h, t

\* Once the answer has been read, no other is left.
LEMMA ReadOn ==
    ASSUME NEW k \in Connections, NEW p \in Places, NEW x \in Tasks, Talk(k, p, x), k.unread # <<>>,
           NEW q, Answers(Head(k.unread)) \/ q = p
    PROVE  UnreadFits(Tail(k.unread), q, x)
<1> DEFINE h == Head(k.unread)
           t == Tail(k.unread)
<1>1. /\ Items(t) \subseteq Items(k.unread) /\ InOrder(t)
      /\ Answers(h) => \A l \in Items(t) : ~Answers(l) /\ l.kind # "CAPABILITY"
  BY ReadLine
<1>2. UnreadFits(k.unread, p, x)
  BY DEF Talk
<1> HIDE DEF h, t
<1>3. Answers(h) \/ q = p
  BY DEF h
<1>4. UnreadFits(t, q, x)
  BY <1>1, <1>2, <1>3 DEF UnreadFits
<1> QED
  BY <1>4 DEF t

\* The answer to STARTTLS waits for finishStartTls.
LEMMA ReplySound ==
    ASSUME NEW k, Good(k), k.unread # <<>>, "starttls" \in k.gates, Head(k.unread).tag = "STARTTLS"
    PROVE  Good([[k EXCEPT !.unread = Tail(@)] EXCEPT !.reply = Head(k.unread).kind])
<1> DEFINE h == Head(k.unread)
           t == Tail(k.unread)
           k2 == [[k EXCEPT !.unread = Tail(@)] EXCEPT !.reply = h.kind]
<1>1. k \in Connections
  BY DEF Good
<1>2. PICK p \in Places, x \in Tasks : SoundAt(k, p, x)
  BY DEF Good, Sound
<1>3. Talk(k, p, x)
  BY <1>2 DEF SoundAt
<1>4. Answers(h)
  BY DEF Answers, Tasks, Commands
<1>5. /\ t \in Seq(Lines) /\ Items(t) \subseteq Items(k.unread)
      /\ h.tag = x /\ p = "unread" /\ h.kind \in {"OK", "NO"}
  BY <1>1, <1>3, <1>4, ReadLine
<1>6. UnreadFits(t, "reply", x)
  BY <1>1, <1>3, <1>4, <1>5, ReadOn
<1>7. x = "STARTTLS" /\ p \in Begun /\ "reply" \in Begun
  BY <1>5 DEF Begun
<1> HIDE DEF h, t
<1>8. /\ k2 \in Connections /\ k2.unread = t /\ k2.reply = h.kind
      /\ k2.queue = k.queue /\ k2.received = k.received /\ k2.respQueue = k.respQueue
      /\ k2.gates = k.gates /\ k2.server = k.server /\ k2.socket = k.socket /\ k2.chain = k.chain
      /\ k2.state = k.state /\ k2.caps = k.caps /\ k2.fresh = k.fresh /\ k2.cmd = k.cmd
  BY <1>1, <1>5 DEF Connections, t
<1> HIDE DEF k2
<1>9. Talk(k2, "reply", x)
  <2>1. QueueFits(k2.queue, "reply", x)
    BY <1>3, <1>7, <1>8 DEF Talk, QueueFits, AtHead
  <2>2. SentFits(k2.received, "reply", x)
    BY <1>3, <1>5, <1>8 DEF Talk, SentFits
  <2>3. RespFits(k2.respQueue, "reply", x)
    BY <1>3, <1>5, <1>7, <1>8 DEF Talk, RespFits
  <2>4. GatesFit(k2.gates, k2.reply, "reply", x)
    BY <1>3, <1>7, <1>8 DEF Talk, GatesFit
  <2>5. ServerFits(k2.server, "reply", x)
    BY <1>3, <1>5, <1>8 DEF Talk, ServerFits
  <2> QED
    BY <1>6, <1>8, <2>1, <2>2, <2>3, <2>4, <2>5 DEF Talk
<1>10. Secured(k2, "reply", x)
  <2>1. HandshakeFits(k2.state, k2.socket, k2.respQueue, "reply")
    BY <1>2, <1>5, <1>8 DEF SoundAt, Secured, HandshakeFits
  <2>2. ChainFits(k2.state, k2.socket, k2.chain, "reply", x)
    BY <1>2, <1>5, <1>8 DEF SoundAt, Secured, ChainFits
  <2> QED
    BY <1>2, <1>8, <2>1, <2>2 DEF SoundAt, Secured
<1>11. Live(k) => Fits(k2, "reply", x)
  <2>1. Heard(k2) \subseteq Heard(k)
    BY <1>5, <1>8 DEF Heard, t
  <2>2. SameState(k2, k)
    BY <1>8 DEF SameState
  <2>3. ASSUME Live(k) PROVE Fits(k2, "reply", x)
    <3>1. Fits(k, p, x)
      BY <1>2, <2>3 DEF SoundAt
    <3>2. "LOGOUT" \notin Items(k2.queue) /\ "LOGOUT" \notin Items(k2.received)
      BY <1>8, <3>1 DEF Fits, CommandFits
    <3> QED
      BY <1>5, <2>1, <2>2, <3>1, <3>2, StillFits
  <2> QED
    BY <2>3
<1>12. SoundAt(k2, "reply", x)
  BY <1>8, <1>9, <1>10, <1>11 DEF SoundAt, Live
<1>13. "reply" \in Places
  BY DEF Places
<1> QED
  BY <1>8, <1>12, <1>13 DEF Good, Sound, k2, h

\* Any other line is put where the Model takes it from.
LEMMA ReadSound ==
    ASSUME NEW k, Good(k), ReadingIsOpen(k),
           ~("starttls" \in k.gates /\ Head(k.unread).tag = "STARTTLS")
    PROVE  Good([Respond([k EXCEPT !.unread = Tail(@)], Head(k.unread)) EXCEPT
                    !.gates = IF Head(k.unread).tag = "COMPRESS" THEN @ \ {"compress"} ELSE @])
<1> DEFINE h == Head(k.unread)
           t == Tail(k.unread)
           told == Respond([k EXCEPT !.unread = Tail(@)], h)
           k2 == [told EXCEPT !.gates = IF h.tag = "COMPRESS" THEN @ \ {"compress"} ELSE @]
<1>1. k \in Connections /\ k.unread # <<>> /\ "policy" \notin k.gates
  BY DEF Good, ReadingIsOpen
<1>2. PICK p \in Places, x \in Tasks : SoundAt(k, p, x)
  BY DEF Good, Sound
<1>3. Talk(k, p, x)
  BY <1>2 DEF SoundAt
<1>4. /\ t \in Seq(Lines) /\ h \in Lines /\ h \in Items(k.unread) /\ Items(t) \subseteq Items(k.unread)
      /\ Said(h) /\ h.kind \notin {"encrypted", "disconnected"}
      /\ Answers(h) => /\ h.tag = x /\ p = "unread" /\ h.kind \in {"OK", "NO"}
      /\ h.kind = "CAPABILITY" => x = "CAPABILITY" /\ p = "unread"
  BY <1>1, <1>3, ReadLine
<1> DEFINE q == IF Answers(h) THEN "resp" ELSE p
<1>5. UnreadFits(t, q, x)
  BY <1>1, <1>3, ReadOn
<1>6. /\ Answers(h) => q = "resp" /\ p = "unread"
      /\ ~Answers(h) => q = p
      /\ q \in Places
  BY <1>4 DEF Places
<1>7. ~Enc(k.respQueue) /\ k.state \notin Deciding
  BY <1>1, <1>2 DEF SoundAt, Secured, FrozenFits, DecidingFits
<1>8. ~("starttls" \in k.gates /\ h.tag = "STARTTLS")
  OBVIOUS
<1> HIDE DEF h, t, q
<1>9. \A m \in Items(k.respQueue) : Follows(m, h)
  <2>1. \A m \in Items(k.respQueue) : m.kind # "encrypted"
    BY <1>7 DEF Enc
  <2>2. \A m \in Items(k.respQueue) : Answers(m) => p = "resp"
    BY <1>3 DEF Talk, RespFits
  <2> QED
    BY <1>4, <2>1, <2>2 DEF Follows
<1>10. RespFits(Append(k.respQueue, h), q, x) /\ Append(k.respQueue, h) \in Seq(Lines)
       /\ Items(Append(k.respQueue, h)) = Items(k.respQueue) \cup {h}
  <2>1. k.respQueue \in Seq(Lines)
    BY <1>1 DEF Connections
  <2>2. RespFits(k.respQueue, q, x)
    BY <1>3, <1>6 DEF Talk, RespFits
  <2>3. h.kind = "CAPABILITY" => x = "CAPABILITY" /\ q \in {"unread", "resp"}
    BY <1>4, <1>6
  <2> QED
    BY <1>4, <1>6, <1>9, <2>1, <2>2, <2>3, RespAppended
<1>11. /\ told \in Connections /\ told.unread = t /\ told.respQueue = Append(k.respQueue, h)
       /\ told.queue = k.queue /\ told.received = k.received /\ told.reply = k.reply
       /\ told.gates = k.gates /\ told.server = k.server /\ told.socket = k.socket /\ told.chain = k.chain
       /\ told.state = k.state /\ told.caps = k.caps /\ told.fresh = k.fresh /\ told.cmd = k.cmd
  BY <1>1, <1>4, <1>10 DEF Connections, Respond, t
<1> HIDE DEF told
<1>12. /\ k2 \in Connections /\ k2.unread = t /\ k2.respQueue = Append(k.respQueue, h)
       /\ k2.queue = k.queue /\ k2.received = k.received /\ k2.reply = k.reply
       /\ k2.server = k.server /\ k2.socket = k.socket /\ k2.chain = k.chain
       /\ k2.state = k.state /\ k2.caps = k.caps /\ k2.fresh = k.fresh /\ k2.cmd = k.cmd
       /\ k2.gates = IF h.tag = "COMPRESS" THEN k.gates \ {"compress"} ELSE k.gates
  <2>1. k2.gates = IF h.tag = "COMPRESS" THEN k.gates \ {"compress"} ELSE k.gates
    BY <1>11 DEF Connections
  <2>2. k2 \in Connections
    BY <1>11 DEF Connections
  <2>3. /\ k2.unread = told.unread /\ k2.respQueue = told.respQueue
        /\ k2.queue = told.queue /\ k2.received = told.received /\ k2.reply = told.reply
        /\ k2.server = told.server /\ k2.socket = told.socket /\ k2.chain = told.chain
        /\ k2.state = told.state /\ k2.caps = told.caps /\ k2.fresh = told.fresh /\ k2.cmd = told.cmd
    BY <1>11 DEF Connections
  <2> HIDE DEF k2
  <2> QED
    BY <1>11, <2>1, <2>2, <2>3
<1> HIDE DEF k2
<1>13. Answers(h) => x # "STARTTLS"
  <2>1. p = "unread" => p \in Begun
    BY DEF Begun
  <2> QED
    BY <1>3, <1>4, <1>8, <2>1 DEF Talk, GatesFit
<1>14. Talk(k2, q, x)
  <2>1. AtHead(q, x) = AtHead(p, x)
    BY <1>6, <1>13 DEF AtHead, Begun
  <2>2. QueueFits(k2.queue, q, x)
    BY <1>3, <1>12, <2>1 DEF Talk, QueueFits
  <2>3. SentFits(k2.received, q, x)
    BY <1>3, <1>6, <1>12 DEF Talk, SentFits
  <2>4. GatesFit(k2.gates, k2.reply, q, x)
    <3>1. h.tag = "COMPRESS" => Answers(h)
      BY DEF Answers, Tasks, Commands
    <3>2. "starttls" \in k2.gates <=> "starttls" \in k.gates
      BY <1>12
    <3>3. q = "server" => ("compress" \in k.gates => "compress" \in k2.gates)
      BY <1>6, <1>12, <3>1
    <3> QED
      BY <1>3, <1>6, <1>12, <1>13, <3>2, <3>3 DEF Talk, GatesFit, Begun
  <2>5. ServerFits(k2.server, q, x)
    BY <1>3, <1>6, <1>12, <1>13 DEF Talk, ServerFits
  <2> QED
    BY <1>5, <1>10, <1>12, <2>2, <2>3, <2>4, <2>5 DEF Talk
<1>15. Secured(k2, q, x)
  <2>1. ~Enc(k2.respQueue)
    BY <1>4, <1>7, <1>10, <1>12 DEF Enc
  <2>2. HandshakeFits(k2.state, k2.socket, k2.respQueue, q)
    BY <1>2, <1>6, <1>12, <2>1 DEF SoundAt, Secured, HandshakeFits
  <2>3. FrozenFits(k2.state, k2.socket, k2.gates, k2.chain, k2.server, k2.respQueue)
    BY <2>1 DEF FrozenFits
  <2>4. DecidingFits(k2.state, k2.socket, k2.gates, k2.respQueue)
    BY <1>7, <1>12 DEF DecidingFits
  <2>5. ChainFits(k2.state, k2.socket, k2.chain, q, x)
    BY <1>2, <1>6, <1>12, <1>13 DEF SoundAt, Secured, ChainFits
  <2> QED
    BY <2>2, <2>3, <2>4, <2>5 DEF Secured
<1>16. ASSUME Live(k) PROVE Fits(k2, q, x)
  <2>1. Heard(k2) \subseteq Heard(k)
    BY <1>4, <1>10, <1>12 DEF Heard
  <2>2. SameState(k2, k)
    BY <1>12 DEF SameState
  <2>3. Fits(k, p, x)
    BY <1>2, <1>16 DEF SoundAt
  <2>4. "LOGOUT" \notin Items(k2.queue) /\ "LOGOUT" \notin Items(k2.received)
    BY <1>12, <2>3 DEF Fits, CommandFits
  <2>5. (q # "none" <=> p # "none") /\ (q \in {"queue", "server"} => p \in {"queue", "server"})
    BY <1>6
  <2> QED
    BY <2>1, <2>2, <2>3, <2>4, <2>5, StillFits
<1>17. SoundAt(k2, q, x)
  BY <1>12, <1>14, <1>15, <1>16 DEF SoundAt, Live
<1> QED
  BY <1>6, <1>12, <1>17 DEF Good, Sound, k2, told, h

\* finishStartTls: STARTTLS leaves the queue and a handshake follows, or noise.
LEMMA FinishSound ==
    ASSUME NEW k, Good(k), k.reply # "", k.socket = "up"
    PROVE  Good([Respond(k, Line("STARTTLS", k.reply, NoCaps)) EXCEPT
                     !.reply = "", !.queue = Tail(@),
                     !.gates = (@ \ {"starttls"}) \cup {"encryption"},
                     !.socket = IF k.reply = "OK" THEN "handshake" ELSE "garbled"])
<1> DEFINE l == Line("STARTTLS", k.reply, NoCaps)
           told == Respond(k, l)
           socket == IF k.reply = "OK" THEN "handshake" ELSE "garbled"
           k2 == [told EXCEPT !.reply = "", !.queue = Tail(@),
                              !.gates = (@ \ {"starttls"}) \cup {"encryption"}, !.socket = socket]
<1>1. k \in Connections /\ k.reply \in {"OK", "NO"}
  BY DEF Good, Connections
<1>2. PICK p \in Places, x \in Tasks : SoundAt(k, p, x)
  BY DEF Good, Sound
<1>3. Talk(k, p, x) /\ p = "reply" /\ x = "STARTTLS" /\ "reply" \in Begun /\ "resp" \notin Begun
  BY <1>2 DEF SoundAt, Talk, GatesFit, Begun
<1>4. ~Encrypted /\ ~Enc(k.respQueue) /\ ~k.chain /\ k.state \notin Deciding
  <2>1. ~Encrypted
    BY <1>3 DEF Talk, ServerFits
  <2>2. ~Enc(k.respQueue) /\ ~k.chain
    BY <1>2, <1>3, <2>1 DEF SoundAt, Secured, HandshakeFits, ChainFits
  <2>3. k.state \notin Deciding
    <3>1. k.state \in Deciding => Live(k) /\ Fits(k, p, x) /\ k.state \in Mute
      BY <1>2 DEF SoundAt, Live, Out, Deciding, Mute, Early
    <3> QED
      BY <1>3, <3>1 DEF Fits, CommandFits
  <2> QED
    BY <2>1, <2>2, <2>3
<1>5. /\ l \in Lines /\ l.tag = "STARTTLS" /\ l.kind = k.reply /\ l.caps = NoCaps
      /\ Said(l) /\ Answers(l)
  BY <1>1 DEF Line, Lines, Untagged, Commands, Tasks, CapLists, NoCaps, Truthful, Said, Answers
<1> HIDE DEF l
<1>6. RespFits(Append(k.respQueue, l), "resp", x) /\ Append(k.respQueue, l) \in Seq(Lines)
       /\ Items(Append(k.respQueue, l)) = Items(k.respQueue) \cup {l}
  <2>1. k.respQueue \in Seq(Lines)
    BY <1>1 DEF Connections
  <2>2. RespFits(k.respQueue, "resp", x) /\ \A m \in Items(k.respQueue) : ~Answers(m)
    BY <1>3 DEF Talk, RespFits
  <2>3. l.kind # "CAPABILITY"
    BY <1>1, <1>5
  <2>4. \A m \in Items(k.respQueue) : Follows(m, l)
    BY <1>4, <2>2 DEF Follows, Enc
  <2> QED
    BY <1>3, <1>5, <2>1, <2>2, <2>3, <2>4, RespAppended, ZenonT(60)
<1>7. k.queue \in Seq(Commands) /\ k.queue # <<>> /\ LogoutLast(k.queue)
  BY <1>1, <1>3 DEF Connections, Talk, QueueFits, AtHead
<1>8. /\ Tail(k.queue) \in Seq(Commands) /\ LogoutLast(Tail(k.queue))
      /\ Items(Tail(k.queue)) \subseteq {"LOGOUT"} /\ Items(Tail(k.queue)) \subseteq Items(k.queue)
  BY <1>7, Taking, LogoutStaysLast
<1>9. socket \in {"handshake", "garbled"}
  OBVIOUS
<1> HIDE DEF socket
<1>10. /\ told \in Connections /\ told.unread = k.unread /\ told.respQueue = Append(k.respQueue, l)
       /\ told.queue = k.queue /\ told.received = k.received
       /\ told.gates = k.gates /\ told.server = k.server /\ told.chain = k.chain
       /\ told.state = k.state /\ told.caps = k.caps /\ told.fresh = k.fresh /\ told.cmd = k.cmd
  BY <1>1, <1>6 DEF Connections, Respond
<1> HIDE DEF told
<1>11. /\ k2 \in Connections /\ k2.unread = k.unread /\ k2.respQueue = Append(k.respQueue, l)
       /\ k2.queue = Tail(k.queue) /\ k2.received = k.received /\ k2.reply = ""
       /\ k2.server = k.server /\ k2.socket = socket /\ k2.chain = k.chain
       /\ k2.state = k.state /\ k2.caps = k.caps /\ k2.fresh = k.fresh /\ k2.cmd = k.cmd
       /\ k2.gates = (k.gates \ {"starttls"}) \cup {"encryption"}
  <2>1. k2.queue = Tail(k.queue) /\ k2.gates = (k.gates \ {"starttls"}) \cup {"encryption"}
        /\ k2.reply = "" /\ k2.socket = socket
    BY <1>10 DEF Connections
  <2>2. k2 \in Connections
    <3>1. "encryption" \in Gates
      BY DEF Gates
    <3> QED
      BY <1>8, <1>9, <1>10, <3>1 DEF Connections
  <2>3. /\ k2.unread = told.unread /\ k2.respQueue = told.respQueue /\ k2.received = told.received
        /\ k2.server = told.server /\ k2.chain = told.chain
        /\ k2.state = told.state /\ k2.caps = told.caps /\ k2.fresh = told.fresh /\ k2.cmd = told.cmd
    BY <1>10 DEF Connections
  <2> HIDE DEF k2
  <2> QED
    BY <1>10, <2>1, <2>2, <2>3
<1> HIDE DEF k2
<1>12. Talk(k2, "resp", x)
  <2>1. QueueFits(k2.queue, "resp", x)
    BY <1>3, <1>8, <1>11 DEF QueueFits, AtHead
  <2>2. SentFits(k2.received, "resp", x)
    BY <1>3, <1>11 DEF Talk, SentFits
  <2>3. GatesFit(k2.gates, k2.reply, "resp", x)
    BY <1>3, <1>11 DEF GatesFit
  <2>4. ServerFits(k2.server, "resp", x)
    BY <1>4 DEF ServerFits
  <2>5. UnreadFits(k2.unread, "resp", x)
    BY <1>3, <1>11 DEF Talk, UnreadFits
  <2> QED
    BY <1>6, <1>11, <2>1, <2>2, <2>3, <2>4, <2>5 DEF Talk
<1>13. Live(k) => k.state = "STARTTLS_ISSUED" /\ Fits(k, p, x)
  BY <1>2, <1>3, AskedIn DEF SoundAt, Fits, CommandFits
<1>14. Secured(k2, "resp", x)
  <2>1. ~Enc(k2.respQueue)
    BY <1>1, <1>4, <1>5, <1>6, <1>11 DEF Enc
  <2>2. HandshakeFits(k2.state, k2.socket, k2.respQueue, "resp")
    BY <1>11, <1>13 DEF HandshakeFits, Live, Between
  <2>3. FrozenFits(k2.state, k2.socket, k2.gates, k2.chain, k2.server, k2.respQueue)
    BY <2>1 DEF FrozenFits
  <2>4. DecidingFits(k2.state, k2.socket, k2.gates, k2.respQueue)
    BY <1>4, <1>11 DEF DecidingFits
  <2>5. ChainFits(k2.state, k2.socket, k2.chain, "resp", x)
    BY <1>4, <1>11 DEF ChainFits
  <2> QED
    BY <2>2, <2>3, <2>4, <2>5 DEF Secured
<1>15. ASSUME Live(k) PROVE Fits(k2, "resp", x)
  <2>1. \A m \in Heard(k2) : m \in Heard(k) \/ Harmless(k.state, m)
    <3>1. Harmless(k.state, l)
      BY <1>1, <1>5, <1>13, <1>15 DEF Harmless, Early
    <3> QED
      BY <1>6, <1>11, <3>1 DEF Heard
  <2>2. SameState(k2, k)
    BY <1>11 DEF SameState
  <2>3. Fits(k, p, x)
    BY <1>13, <1>15
  <2>4. "LOGOUT" \notin Items(k2.queue) /\ "LOGOUT" \notin Items(k2.received)
    BY <1>8, <1>11, <2>3 DEF Fits, CommandFits
  <2> QED
    BY <1>3, <2>1, <2>2, <2>3, <2>4, StillFits
<1>16. SoundAt(k2, "resp", x)
  BY <1>11, <1>12, <1>14, <1>15 DEF SoundAt, Live
<1>17. "resp" \in Places
  BY DEF Places
<1> QED
  BY <1>11, <1>16, <1>17 DEF Good, Sound, k2, told, l, socket

\* A command is sent.
LEMMA ExecuteSound ==
    ASSUME NEW k, Good(k), k.gates = {}, k.queue # <<>>, k.socket = "up"
    PROVE  LET command == Head(k.queue)
               sent == [k EXCEPT !.received = Append(@, command)]
           IN  /\ command = "STARTTLS" => Good([sent EXCEPT !.gates = {"starttls"}])
               /\ command = "COMPRESS" => Good([sent EXCEPT !.gates = {"compress"}, !.queue = Tail(@)])
               /\ command \notin {"STARTTLS", "COMPRESS"} => Good([sent EXCEPT !.queue = Tail(@)])
<1> DEFINE command == Head(k.queue)
           sent == [k EXCEPT !.received = Append(@, command)]
           gates == IF command = "STARTTLS" THEN {"starttls"}
                    ELSE IF command = "COMPRESS" THEN {"compress"} ELSE {}
           queue == IF command = "STARTTLS" THEN k.queue ELSE Tail(k.queue)
           k2 == [sent EXCEPT !.gates = gates, !.queue = queue]
<1>1. k \in Connections
  BY DEF Good
<1>2. PICK p \in Places, x \in Tasks : SoundAt(k, p, x)
  BY DEF Good, Sound
<1>3. Talk(k, p, x) /\ x # "LOGOUT" /\ x \in Commands
  BY <1>2 DEF SoundAt, Tasks
<1>4. /\ k.queue \in Seq(Commands) /\ k.received \in Seq(Commands) /\ k.queue # <<>>
      /\ LogoutLast(k.queue) /\ LogoutLast(k.received)
  BY <1>1, <1>3 DEF Connections, Talk, QueueFits, SentFits
<1>5. /\ Tail(k.queue) \in Seq(Commands) /\ LogoutLast(Tail(k.queue))
      /\ Items(Tail(k.queue)) \subseteq {"LOGOUT"} /\ Items(Tail(k.queue)) \subseteq Items(k.queue)
      /\ command \in Commands /\ command \in Items(k.queue)
  BY <1>4, Taking, LogoutStaysLast
<1>6. Append(k.received, command) \in Seq(Commands)
      /\ Items(Append(k.received, command)) = Items(k.received) \cup {command}
      /\ Append(k.received, command) # <<>>
      /\ Len(Append(k.received, command)) = Len(k.received) + 1
      /\ Head(Append(k.received, command)) = IF k.received = <<>> THEN command ELSE Head(k.received)
  BY <1>4, <1>5, Appending
<1>7. ~(x = "STARTTLS" /\ p \in Begun) /\ ~(x = "COMPRESS" /\ p = "server")
  BY <1>3 DEF Talk, GatesFit
<1>8. /\ p = "queue" => command = x /\ k.received = <<>>
      /\ p # "queue" => command = "LOGOUT" /\ Items(k.queue) \subseteq {"LOGOUT"}
  <2>1. p = "queue" => command = x /\ k.received = <<>>
    BY <1>3 DEF Talk, QueueFits, SentFits, AtHead
  <2>2. p # "queue" => Items(k.queue) \subseteq {"LOGOUT"}
    BY <1>3, <1>7 DEF Talk, QueueFits, AtHead
  <2> QED
    BY <1>5, <2>1, <2>2
<1> DEFINE q == IF p = "queue" THEN "server" ELSE p
<1>9. q \in Places /\ (p = "queue" => q = "server") /\ (p # "queue" => q = p)
      /\ "server" \in Begun /\ "queue" \notin Begun
  BY DEF Places, Begun
<1>10. /\ command = "STARTTLS" => gates = {"starttls"} /\ queue = k.queue
       /\ command = "COMPRESS" => gates = {"compress"} /\ queue = Tail(k.queue)
       /\ command \notin {"STARTTLS", "COMPRESS"} => gates = {} /\ queue = Tail(k.queue)
  OBVIOUS
<1> HIDE DEF command, q, gates, queue
<1>11. queue \in Seq(Commands) /\ gates \in SUBSET Gates /\ Items(queue) \subseteq Items(k.queue)
  BY <1>4, <1>5, <1>10 DEF Gates
<1>12. /\ k2 \in Connections /\ k2.received = Append(k.received, command)
       /\ k2.queue = queue /\ k2.gates = gates
       /\ k2.unread = k.unread /\ k2.respQueue = k.respQueue /\ k2.reply = k.reply
       /\ k2.server = k.server /\ k2.socket = k.socket /\ k2.chain = k.chain
       /\ k2.state = k.state /\ k2.caps = k.caps /\ k2.fresh = k.fresh /\ k2.cmd = k.cmd
  BY <1>1, <1>6, <1>11 DEF Connections
<1>13. /\ command = "STARTTLS" => k2 = [sent EXCEPT !.gates = {"starttls"}]
       /\ command = "COMPRESS" => k2 = [sent EXCEPT !.gates = {"compress"}, !.queue = Tail(@)]
       /\ command \notin {"STARTTLS", "COMPRESS"} => k2 = [sent EXCEPT !.queue = Tail(@)]
  <2>1. sent \in Connections /\ sent.gates = {} /\ sent.queue = k.queue
    BY <1>1, <1>6 DEF Connections
  <2> HIDE DEF sent
  <2>2. CASE command = "STARTTLS"
    BY <1>10, <2>1, <2>2 DEF Connections
  <2>3. CASE command = "COMPRESS"
    BY <1>10, <2>1, <2>3 DEF Connections
  <2>4. CASE command \notin {"STARTTLS", "COMPRESS"}
    BY <1>10, <2>1, <2>4, ZenonT(60) DEF Connections
  <2> QED
    BY <2>2, <2>3, <2>4
<1> HIDE DEF k2
<1>14. LogoutLast(k2.received)
  <2>1. CASE p = "queue"
    BY <1>4, <1>5, <1>8, <1>12, <2>1, LogoutStaysLast
  <2>2. CASE p # "queue"
    BY <1>4, <1>8, <1>12, <2>2, LogoutStaysLast
  <2> QED
    BY <2>1, <2>2
<1>15. Talk(k2, q, x)
  <2>1. CASE p = "queue"
    <3>1. QueueFits(k2.queue, q, x)
      <4>1. CASE command = "STARTTLS"
        BY <1>3, <1>8, <1>9, <1>10, <1>12, <2>1, <4>1 DEF Talk, QueueFits, AtHead
      <4>2. CASE command # "STARTTLS"
        <5>1. k2.queue = Tail(k.queue) /\ ~AtHead(q, x)
          BY <1>8, <1>9, <1>10, <1>12, <2>1, <4>2 DEF AtHead
        <5> QED
          BY <1>5, <5>1 DEF QueueFits
      <4> QED
        BY <4>1, <4>2
    <3>2. SentFits(k2.received, q, x)
      <4>1. Items(k.received) = {} /\ Len(k.received) = 0
        BY <1>8, <2>1 DEF Items
      <4>2. Items(k2.received) = {x} /\ Len(k2.received) = 1 /\ Head(k2.received) = x /\ k2.received # <<>>
        BY <1>6, <1>8, <1>12, <2>1, <4>1
      <4> QED
        BY <1>9, <1>14, <2>1, <4>2 DEF SentFits
    <3>3. UnreadFits(k2.unread, q, x) /\ RespFits(k2.respQueue, q, x)
      BY <1>3, <1>9, <1>12, <2>1 DEF Talk, UnreadFits, RespFits
    <3>4. GatesFit(k2.gates, k2.reply, q, x)
      BY <1>3, <1>8, <1>9, <1>10, <1>12, <2>1 DEF Talk, GatesFit
    <3>5. ServerFits(k2.server, q, x)
      BY <1>3, <1>9, <1>12, <2>1 DEF Talk, ServerFits
    <3> QED
      BY <3>1, <3>2, <3>3, <3>4, <3>5 DEF Talk
  <2>2. CASE p # "queue"
    <3>1. k2.queue = Tail(k.queue) /\ k2.gates = {} /\ q = p /\ command = "LOGOUT"
      BY <1>8, <1>9, <1>10, <1>12, <2>2
    <3>2. QueueFits(k2.queue, q, x)
      BY <1>5, <1>7, <2>2, <3>1 DEF QueueFits, AtHead
    <3>3. SentFits(k2.received, q, x)
      BY <1>3, <1>6, <1>7, <1>9, <1>12, <1>14, <2>2, <3>1 DEF Talk, SentFits
    <3>4. GatesFit(k2.gates, k2.reply, q, x)
      BY <1>3, <1>12, <3>1 DEF Talk, GatesFit
    <3> QED
      BY <1>3, <1>12, <3>1, <3>2, <3>3, <3>4 DEF Talk
  <2> QED
    BY <2>1, <2>2
<1>16. Secured(k2, q, x)
  <2>1. ~Enc(k.respQueue) /\ k.state \notin Deciding
    BY <1>2 DEF SoundAt, Secured, FrozenFits, DecidingFits
  <2>2. HandshakeFits(k2.state, k2.socket, k2.respQueue, q)
    BY <1>12, <2>1 DEF HandshakeFits
  <2>3. FrozenFits(k2.state, k2.socket, k2.gates, k2.chain, k2.server, k2.respQueue)
    BY <1>12, <2>1 DEF FrozenFits
  <2>4. DecidingFits(k2.state, k2.socket, k2.gates, k2.respQueue)
    BY <1>12, <2>1 DEF DecidingFits
  <2>5. ChainFits(k2.state, k2.socket, k2.chain, q, x)
    BY <1>2, <1>9, <1>12 DEF SoundAt, Secured, ChainFits
  <2> QED
    BY <2>2, <2>3, <2>4, <2>5 DEF Secured
<1>17. ASSUME Live(k) PROVE Fits(k2, q, x)
  <2>1. Fits(k, p, x) /\ SameState(k2, k) /\ Heard(k2) = Heard(k)
    BY <1>2, <1>12, <1>17 DEF SoundAt, SameState, Heard
  <2>2. "LOGOUT" \notin Items(k2.queue) /\ "LOGOUT" \notin Items(k2.received)
    BY <1>5, <1>6, <1>11, <1>12, <2>1 DEF Fits, CommandFits
  <2>3. (q # "none" <=> p # "none") /\ (q \in {"queue", "server"} => p \in {"queue", "server"})
    BY <1>9
  <2> QED
    BY <2>1, <2>2, <2>3, StillFits
<1>18. Good(k2)
  BY <1>9, <1>12, <1>15, <1>16, <1>17 DEF SoundAt, Live, Good, Sound
<1> QED
  BY <1>13, <1>18 DEF command, sent

----------------------------------------------------------------------------
(* The server. *)

\* A line is on its way to the Parser.
LEMMA UnreadAppended ==
    ASSUME NEW s \in Seq(Lines), NEW p, NEW x, UnreadFits(s, p, x), NEW l \in Lines, Said(l),
           l.kind \notin {"encrypted", "disconnected"},
           Answers(l) => l.tag = x /\ p = "unread",
           l.kind = "CAPABILITY" => x = "CAPABILITY" /\ p = "unread",
           Answers(l) \/ l.kind = "CAPABILITY" => \A m \in Items(s) : ~Answers(m)
    PROVE  /\ UnreadFits(Append(s, l), p, x) /\ Append(s, l) \in Seq(Lines)
           /\ Items(Append(s, l)) = Items(s) \cup {l}
<1>1. Append(s, l) \in Seq(Lines) /\ Items(Append(s, l)) = Items(s) \cup {l}
  BY Appending
<1>2. \A m \in Items(s) : Follows(m, l)
  BY DEF UnreadFits, Follows
<1>3. InOrder(Append(s, l))
  BY <1>2, StaysInOrder DEF UnreadFits
<1> QED
  BY <1>1, <1>3 DEF UnreadFits

\* What saying two lines adds.
LEMMA Concatenating ==
    ASSUME NEW s \in Seq(Lines), NEW a \in Lines, NEW b \in Lines
    PROVE  s \o <<a>> = Append(s, a) /\ s \o <<a, b>> = Append(Append(s, a), b)
OBVIOUS

\* A server that has not greeted has been sent nothing that it would have to allow.
LEMMA NotGreeted ==
    /\ \A x \in Tasks : "greeting" \notin Allowed(x) /\ "leaving" \in Allowed(x)
    /\ \A state : "leaving" \in Serves(state)
    /\ \A state \in StateNames : "greeting" \in Serves(state) /\ state # "LOGOUT" => state \in Early
<1>1. \A x \in Tasks : "greeting" \notin Allowed(x) /\ "leaving" \in Allowed(x)
  BY Tables DEF Tasks, Commands, Phases
<1>2. \A state : "leaving" \in Serves(state)
  BY DEF Serves
<1>3. ASSUME NEW state \in StateNames, state \notin Early, state # "LOGOUT" PROVE "greeting" \notin Serves(state)
  <2>1. state \in Between \/ state \in Precaps \/ state \in Used \/ state \in {"STARTTLS_VERIFYING", "LOGIN"}
    BY <1>3, Ranks
  <2>2. CASE state \in Between
    BY <2>2, Tables
  <2>3. CASE state \in Precaps
    BY <2>3, Tables DEF Precaps
  <2>4. CASE state \in Used
    BY <2>4, Tables DEF Used
  <2>5. CASE state \in {"STARTTLS_VERIFYING", "LOGIN"}
    BY <2>5, Tables DEF Phases
  <2> QED
    BY <2>1, <2>2, <2>3, <2>4, <2>5
<1> QED
  BY <1>1, <1>2, <1>3

\* The server greets, or leaves unasked.
LEMMA SpokenSound ==
    ASSUME NEW k, Good(k), NEW l \in Lines, l.tag = Untagged, Said(l),
           l.kind \in {"OK", "PREAUTH", "BAD", "BYE"},
           NEW server \in Phases \cup {"leaving"},
           server # "leaving" => l.kind \in {"OK", "PREAUTH"},
           l.kind \in {"OK", "PREAUTH"} =>
              /\ k.server = "greeting" /\ server = IF l.kind = "OK" THEN First ELSE "authenticated"
              /\ l.caps # NoCaps => l.caps.phase = server
    PROVE  Good([Say(k, <<l>>) EXCEPT !.server = server])
<1> DEFINE k2 == [Say(k, <<l>>) EXCEPT !.server = server]
<1>1. k \in Connections
  BY DEF Good
<1>2. PICK p \in Places, x \in Tasks : SoundAt(k, p, x)
  BY DEF Good, Sound
<1>3. Talk(k, p, x)
  BY <1>2 DEF SoundAt
<1>4. k.unread \in Seq(Lines) /\ ~Answers(l) /\ l.kind # "CAPABILITY" /\ l.tag # "LOGIN"
      /\ l.kind \notin {"encrypted", "disconnected"}
  BY <1>1 DEF Connections, Answers, Untagged, Tasks, Commands
<1>5. UnreadFits(Append(k.unread, l), p, x) /\ Append(k.unread, l) \in Seq(Lines)
      /\ Items(Append(k.unread, l)) = Items(k.unread) \cup {l}
  <2>1. UnreadFits(k.unread, p, x)
    BY <1>3 DEF Talk
  <2> QED
    BY <1>4, <2>1, UnreadAppended
<1>6. Say(k, <<l>>) = [k EXCEPT !.unread = Append(k.unread, l)]
  BY DEF Say
<1>7. /\ k2 \in Connections /\ k2.unread = Append(k.unread, l) /\ k2.server = server
      /\ k2.queue = k.queue /\ k2.received = k.received /\ k2.gates = k.gates
      /\ k2.respQueue = k.respQueue /\ k2.reply = k.reply
      /\ k2.socket = k.socket /\ k2.chain = k.chain
      /\ k2.state = k.state /\ k2.caps = k.caps /\ k2.fresh = k.fresh /\ k2.cmd = k.cmd
  BY <1>1, <1>5, <1>6, ZenonT(60) DEF Connections
<1> HIDE DEF k2
<1>8. server # "leaving" => p \notin {"queue", "server"}
  BY <1>3, NotGreeted DEF Talk, ServerFits
<1>9. Talk(k2, p, x)
  <2>1. ServerFits(k2.server, p, x)
    BY <1>3, <1>7, <1>8, NotGreeted DEF Talk, ServerFits
  <2> QED
    BY <1>3, <1>5, <1>7, <2>1 DEF Talk
<1>10. Live(k) => Fits(k, p, x)
  BY <1>2 DEF SoundAt
<1>11. ASSUME Live(k), k.server = "greeting" PROVE k.state \in Early
  <2>1. k.state \in StateNames /\ k.state # "LOGOUT"
    BY <1>1, <1>11 DEF Connections, Live, Out
  <2> QED
    BY <1>10, <1>11, <2>1, NotGreeted DEF Fits
<1>12. Secured(k2, p, x)
  <2>1. FrozenFits(k2.state, k2.socket, k2.gates, k2.chain, k2.server, k2.respQueue)
    <3>1. k.state \in Between => Live(k) /\ k.state \notin Early
      BY DEF Between, Live, Out, Early
    <3>2. k.state \in Between => server = "leaving"
      BY <1>11, <3>1
    <3> QED
      BY <1>2, <1>7, <3>2 DEF SoundAt, Secured, FrozenFits
  <2> QED
    BY <1>2, <1>7, <2>1 DEF SoundAt, Secured
<1>13. ASSUME Live(k) PROVE Fits(k2, p, x)
  <2>1. Fits(k, p, x)
    BY <1>10, <1>13
  <2>2. Heard(k2) = Heard(k) \cup {l}
    BY <1>5, <1>7 DEF Heard
  <2>3. CommandFits(k2.state, k2.queue, k2.received, p, x)
    BY <1>7, <2>1 DEF Fits
  <2>4. k.server = "greeting" => k.state \in Early
    BY <1>11, <1>13
  <2>5. k2.server \in Serves(k2.state)
    <3>1. CASE server = "leaving"
      BY <1>7, <3>1, NotGreeted
    <3>2. CASE server # "leaving"
      <4>1. k.state \in Early /\ server \in {First, "authenticated"}
        BY <2>4, <3>2
      <4> QED
        BY <1>7, <4>1, Tables
    <3> QED
      BY <3>1, <3>2
  <2>6. GreetingFits(k2.state, k2.server, k2.fresh, Heard(k2))
    <3>1. k.server = "greeting" /\ k.state \in Early => \A m \in Heard(k) : m.kind \notin {"OK", "PREAUTH"}
      BY <2>1, Tables DEF Fits, GreetingFits
    <3> QED
      BY <1>7, <2>1, <2>2, <3>1 DEF Fits, GreetingFits
  <2>7. CapsFit(k2.state, k2.fresh, k2.caps, Heard(k2))
    <3>1. l.tag # "LOGOUT"
      BY DEF Untagged
    <3> QED
      BY <1>4, <1>7, <2>1, <2>2, <3>1 DEF Fits, CapsFit
  <2>8. LoginFits(k2.state, k2.server, k2.fresh, k2.caps, k2.cmd, Heard(k2), p)
    <3>1. k.state = "LOGIN" => server = "leaving"
      BY <2>4 DEF Early
    <3> QED
      BY <1>4, <1>7, <2>1, <2>2, <3>1 DEF Fits, LoginFits
  <2> QED
    BY <2>3, <2>5, <2>6, <2>7, <2>8 DEF Fits
<1>14. SoundAt(k2, p, x)
  BY <1>7, <1>9, <1>12, <1>13 DEF SoundAt, Live
<1> QED
  BY <1>7, <1>14 DEF Good, Sound, k2

\* The command that the server answers is the one under way.
LEMMA AnsweredIs ==
    ASSUME NEW k \in Connections, NEW p \in Places, NEW x \in Tasks, Talk(k, p, x), k.received # <<>>
    PROVE  /\ Tail(k.received) \in Seq(Commands) /\ LogoutLast(Tail(k.received))
           /\ Items(Tail(k.received)) \subseteq {"LOGOUT"} /\ Items(Tail(k.received)) \subseteq Items(k.received)
           /\ Head(k.received) # "LOGOUT" => Head(k.received) = x /\ p = "server"
           /\ Head(k.received) = "LOGOUT" => p \notin {"queue", "server"} /\ "LOGOUT" \in Items(k.received)
<1>1. k.received \in Seq(Commands) /\ SentFits(k.received, p, x) /\ x # "LOGOUT"
  BY DEF Connections, Talk, Tasks
<1>2. Tail(k.received) \in Seq(Commands) /\ Head(k.received) \in Items(k.received)
      /\ Items(Tail(k.received)) \subseteq Items(k.received)
  BY <1>1, Taking
<1>3. LogoutLast(Tail(k.received)) /\ Items(Tail(k.received)) \subseteq {"LOGOUT"}
  BY <1>1, LogoutStaysLast DEF SentFits
<1>4. Head(k.received) # "LOGOUT" => Head(k.received) = x /\ p = "server"
  BY <1>1, <1>2 DEF SentFits
<1>5. Head(k.received) = "LOGOUT" => p \notin {"queue", "server"}
  BY <1>1 DEF SentFits
<1> QED
  BY <1>2, <1>3, <1>4, <1>5

\* The capabilities that an answer announces, before it or in it, are those of the server's phase;
\* LOGIN is the only command that changes it.
Announces(phase, y, a) ==
    /\ a.tag = y /\ Said(a)
    /\ a.caps # NoCaps => y = "LOGIN" /\ a.kind = "OK" /\ a.caps.phase = "authenticated"
    /\ y = "LOGIN" /\ a.kind = "OK" => phase = "authenticated"
\* An answer that has been heard is the one that is waited for.
LEMMA AnswerHeard ==
    ASSUME NEW k \in Connections, NEW p \in Places, NEW x \in Tasks, SoundAt(k, p, x),
           NEW k2, NEW lines \in SUBSET Lines, NEW a \in lines, Announces(k2.server, x, a),
           \A u \in lines : \/ u = a
                            \/ x = "CAPABILITY" /\ u.tag = Untagged /\ u.kind = "CAPABILITY" /\ Said(u)
                               /\ u.caps.phase = k.server,
           Heard(k2) = Heard(k) \cup lines, p = "server", k.server \in Phases,
           k2.server = k.server \/ (x = "LOGIN" /\ a.kind = "OK" /\ k2.server = "authenticated"),
           k2.state = k.state, k2.queue = k.queue, k2.caps = k.caps, k2.fresh = k.fresh, k2.cmd = k.cmd,
           Items(k2.received) \subseteq Items(k.received), Live(k)
    PROVE  Fits(k2, "unread", x)
<1>1. Fits(k, p, x) /\ Talk(k, p, x)
  BY DEF SoundAt
<1>2. k.state \notin Mute /\ k.state \notin Early /\ x = Asks(k.state)
  BY <1>1 DEF Fits, CommandFits, Mute
<1>3. a.kind \in {"OK", "NO"} /\ a.tag # Untagged
  BY DEF Announces, Said, Tasks, Commands, Untagged
<1>4. x = "LOGIN" => k.state = "LOGIN"
  BY <1>2, AskedIn
<1>5. CommandFits(k2.state, k2.queue, k2.received, "unread", x)
  BY <1>1, <1>2 DEF Fits, CommandFits
<1>6. k2.server \in Serves(k2.state)
  BY <1>1, <1>4, Tables DEF Fits, Phases
<1>7. GreetingFits(k2.state, k2.server, k2.fresh, Heard(k2))
  BY <1>2 DEF GreetingFits
<1>8. CapsFit(k2.state, k2.fresh, k2.caps, Heard(k2))
  <2>1. \A u \in lines : u.tag # "LOGOUT"
    BY DEF Announces, Tasks, Untagged
  <2> QED
    BY <1>1, <1>3, <2>1 DEF Fits, CapsFit
<1>9. LoginFits(k2.state, k2.server, k2.fresh, k2.caps, k2.cmd, Heard(k2), "unread")
  <2> SUFFICES ASSUME k.state = "LOGIN"
               PROVE  LoginFits("LOGIN", k2.server, k.fresh, k.caps, k.cmd, Heard(k2), "unread")
    BY DEF LoginFits
  <2>1. x = "LOGIN"
    BY <1>2, AskedIn
  <2>2. \A l \in Heard(k) : l.tag # "LOGIN"
    BY <1>1 DEF Heard, Talk, UnreadFits, RespFits, Answers, Tasks, Commands
  <2>3. lines = {a}
    BY <2>1
  <2>4. LoginFits("LOGIN", k.server, k.fresh, k.caps, k.cmd, Heard(k), p)
    BY <1>1 DEF Fits
  <2>5. k.caps.phase \in {"plain", "secure"} /\ ~k.fresh /\ k.cmd # "" /\ k.server \in {k.caps.phase, "leaving"}
    BY <2>4 DEF LoginFits
  <2>6. /\ a.kind = "OK" => k2.server = "authenticated"
        /\ a.kind # "OK" => k2.server = k.server
        /\ a.caps # NoCaps => a.kind = "OK" /\ a.caps.phase = "authenticated"
    BY <2>1 DEF Announces
  <2> QED
    BY <2>2, <2>3, <2>5, <2>6 DEF LoginFits
<1> QED
  BY <1>5, <1>6, <1>7, <1>8, <1>9 DEF Fits

\* An answer is on its way, perhaps with the capabilities before it.
SameButSaid(k2, k) ==
    /\ k2.queue = k.queue /\ k2.gates = k.gates /\ k2.reply = k.reply /\ k2.respQueue = k.respQueue
    /\ k2.socket = k.socket /\ k2.chain = k.chain /\ k2.state = k.state
    /\ k2.caps = k.caps /\ k2.fresh = k.fresh /\ k2.cmd = k.cmd
\* The server answers the command under way.
LEMMA AnsweredSound ==
    ASSUME NEW k, Good(k), k.received # <<>>, NEW x, x = Head(k.received), x # "LOGOUT", k.server \in Phases,
           NEW k2, k2 \in Connections, SameButSaid(k2, k), k2.received = Tail(k.received),
           NEW a \in Lines, Announces(k2.server, x, a),
           k2.server = k.server \/ (x = "LOGIN" /\ a.kind = "OK" /\ k2.server = "authenticated"),
           \/ k2.unread = Append(k.unread, a)
           \/ \E u \in Lines :
                 /\ k2.unread = Append(Append(k.unread, u), a)
                 /\ x = "CAPABILITY" /\ u.tag = Untagged /\ u.kind = "CAPABILITY" /\ Said(u)
                 /\ u.caps.phase = k.server
    PROVE  Good(k2)
<1>1. k \in Connections
  BY DEF Good
<1>2. PICK p \in Places, y \in Tasks : SoundAt(k, p, y)
  BY DEF Good, Sound
<1>3. Talk(k, p, y)
  BY <1>2 DEF SoundAt
<1>4. /\ x = y /\ p = "server" /\ x \in Tasks
      /\ LogoutLast(Tail(k.received)) /\ Items(Tail(k.received)) \subseteq {"LOGOUT"}
      /\ Items(Tail(k.received)) \subseteq Items(k.received)
  BY <1>1, <1>3, AnsweredIs
<1>5. /\ a.tag = x /\ Said(a) /\ Answers(a) /\ a.kind \in {"OK", "NO"} /\ a.kind # "CAPABILITY"
      /\ a.kind \notin {"encrypted", "disconnected"}
  BY <1>4 DEF Announces, Said, Answers, Tasks, Commands, Untagged
<1>6. /\ k.unread \in Seq(Lines) /\ UnreadFits(k.unread, "unread", x)
      /\ \A m \in Items(k.unread) : ~Answers(m)
  <2>1. UnreadFits(k.unread, p, x)
    BY <1>3, <1>4 DEF Talk
  <2>2. \A m \in Items(k.unread) : ~Answers(m)
    BY <1>4, <2>1 DEF UnreadFits
  <2>3. UnreadFits(k.unread, "unread", x)
    BY <1>4, <2>1 DEF UnreadFits
  <2> QED
    BY <1>1, <2>2, <2>3 DEF Connections
<1>7. UnreadFits(k2.unread, "unread", x)
      /\ \E lines \in SUBSET Lines :
            /\ a \in lines /\ Items(k2.unread) = Items(k.unread) \cup lines
            /\ \A u \in lines :
                  \/ u = a
                  \/ x = "CAPABILITY" /\ u.tag = Untagged /\ u.kind = "CAPABILITY" /\ Said(u)
                     /\ u.caps.phase = k.server
  <2>1. CASE k2.unread = Append(k.unread, a)
    <3>1. UnreadFits(k2.unread, "unread", x) /\ Items(k2.unread) = Items(k.unread) \cup {a}
      BY <1>5, <1>6, <2>1, UnreadAppended
    <3>2. {a} \in SUBSET Lines /\ a \in {a}
      OBVIOUS
    <3> QED
      BY <3>1, <3>2
  <2>2. CASE k2.unread # Append(k.unread, a)
    <3>1. PICK u \in Lines :
             /\ k2.unread = Append(Append(k.unread, u), a)
             /\ x = "CAPABILITY" /\ u.tag = Untagged /\ u.kind = "CAPABILITY" /\ Said(u)
             /\ u.caps.phase = k.server
      BY <2>2
    <3>2. ~Answers(u) /\ u.kind \notin {"encrypted", "disconnected"}
      BY <3>1 DEF Answers, Tasks, Commands, Untagged
    <3> DEFINE s == Append(k.unread, u)
    <3>3. UnreadFits(s, "unread", x) /\ s \in Seq(Lines) /\ Items(s) = Items(k.unread) \cup {u}
      BY <1>6, <3>1, <3>2, UnreadAppended
    <3>4. k2.unread = Append(s, a)
      BY <3>1
    <3> HIDE DEF s
    <3>5. \A m \in Items(s) : ~Answers(m)
      BY <1>6, <3>2, <3>3
    <3>6. UnreadFits(k2.unread, "unread", x) /\ Items(k2.unread) = Items(s) \cup {a}
      BY <1>5, <3>3, <3>4, <3>5, UnreadAppended
    <3> DEFINE lines == {u, a}
    <3>7. lines \in SUBSET Lines /\ a \in lines /\ \A v \in lines : v = a \/ v = u
      OBVIOUS
    <3>8. Items(k2.unread) = Items(k.unread) \cup lines
      BY <3>3, <3>6
    <3> HIDE DEF lines
    <3> QED
      BY <3>1, <3>6, <3>7, <3>8
  <2> QED
    BY <2>1, <2>2
<1>8. PICK lines \in SUBSET Lines :
         /\ a \in lines /\ Items(k2.unread) = Items(k.unread) \cup lines
         /\ \A u \in lines :
               \/ u = a
               \/ x = "CAPABILITY" /\ u.tag = Untagged /\ u.kind = "CAPABILITY" /\ Said(u)
                  /\ u.caps.phase = k.server
  BY <1>7
<1> USE DEF SameButSaid
<1>9. "server" \in Begun /\ "unread" \in Begun /\ "unread" \in Places
  BY DEF Begun, Places
<1>10. Talk(k2, "unread", x)
  <2>1. QueueFits(k2.queue, "unread", x)
    BY <1>3, <1>4, <1>9 DEF Talk, QueueFits, AtHead
  <2>2. SentFits(k2.received, "unread", x)
    BY <1>4 DEF SentFits
  <2>3. RespFits(k2.respQueue, "unread", x)
    BY <1>3, <1>4 DEF Talk, RespFits
  <2>4. GatesFit(k2.gates, k2.reply, "unread", x)
    BY <1>3, <1>4, <1>9 DEF Talk, GatesFit
  <2>5. ServerFits(k2.server, "unread", x)
    BY <1>3, <1>4 DEF Talk, ServerFits
  <2> QED
    BY <1>7, <2>1, <2>2, <2>3, <2>4, <2>5 DEF Talk
<1>11. k.state \in Between => x = "STARTTLS"
  <2> SUFFICES ASSUME k.state \in Between PROVE x = "STARTTLS"
    OBVIOUS
  <2>1. Live(k) /\ (k.state = "STARTTLS_HANDSHAKE" => k.state \in Mute)
    BY DEF Between, Live, Out, Mute
  <2>2. CommandFits(k.state, k.queue, k.received, p, y)
    BY <1>2, <2>1 DEF SoundAt, Fits
  <2>3. x = Asks(k.state) /\ k.state \notin Mute
    BY <1>4, <2>2 DEF CommandFits
  <2>4. k.state = "STARTTLS_ISSUED"
    BY <2>1, <2>3 DEF Between
  <2> QED
    BY <2>3, <2>4, AskedIn
<1>12. Secured(k2, "unread", x)
  <2>1. Secured(k, p, x)
    BY <1>2, <1>4 DEF SoundAt
  <2>2. HandshakeFits(k2.state, k2.socket, k2.respQueue, "unread")
    BY <1>4, <2>1 DEF Secured, HandshakeFits
  <2>3. FrozenFits(k2.state, k2.socket, k2.gates, k2.chain, k2.server, k2.respQueue)
    BY <1>11, <2>1 DEF Secured, FrozenFits
  <2>4. ChainFits(k2.state, k2.socket, k2.chain, "unread", x)
    BY <1>4, <2>1 DEF Secured, ChainFits
  <2> QED
    BY <2>1, <2>2, <2>3, <2>4 DEF Secured
<1>13. Live(k2) => Fits(k2, "unread", x)
  <2>1. Live(k2) <=> Live(k)
    BY DEF Live
  <2>2. Heard(k2) = Heard(k) \cup lines
    BY <1>8 DEF Heard
  <2> QED
    BY <1>1, <1>2, <1>4, <1>8, <2>1, <2>2, AnswerHeard
<1>14. SoundAt(k2, "unread", x)
  BY <1>10, <1>12, <1>13 DEF SoundAt
<1> QED
  BY <1>4, <1>9, <1>14 DEF Good, Sound

\* LOGOUT is answered when nothing else is.
LEMMA LeaveAnswered ==
    ASSUME NEW k, Good(k), k.received # <<>>, Head(k.received) = "LOGOUT",
           NEW k2, k2 \in Connections, SameButSaid(k2, k), k2.received = Tail(k.received),
           k2.server = "leaving", NEW a \in Lines, NEW b \in Lines,
           k2.unread = Append(Append(k.unread, a), b),
           a.tag = Untagged, a.kind = "BYE", Said(a), b.tag = "LOGOUT", b.kind = "OK", Said(b)
    PROVE  Good(k2)
<1>1. k \in Connections
  BY DEF Good
<1>2. PICK p \in Places, x \in Tasks : SoundAt(k, p, x)
  BY DEF Good, Sound
<1>3. Talk(k, p, x)
  BY <1>2 DEF SoundAt
<1>4. /\ p \notin {"queue", "server"} /\ "LOGOUT" \in Items(k.received)
      /\ LogoutLast(Tail(k.received)) /\ Items(Tail(k.received)) \subseteq {"LOGOUT"}
  BY <1>1, <1>3, AnsweredIs
<1>5. ~Live(k)
  BY <1>2, <1>4 DEF SoundAt, Fits, CommandFits
<1>6. ~Answers(a) /\ ~Answers(b)
  BY DEF Answers, Tasks, Commands, Untagged
<1>7. UnreadFits(k2.unread, p, x)
  <2>1. k.unread \in Seq(Lines) /\ UnreadFits(k.unread, p, x)
    BY <1>1, <1>3 DEF Connections, Talk
  <2> DEFINE s == Append(k.unread, a)
  <2>2. UnreadFits(s, p, x) /\ s \in Seq(Lines)
    BY <1>6, <2>1, UnreadAppended
  <2>3. k2.unread = Append(s, b)
    OBVIOUS
  <2> HIDE DEF s
  <2> QED
    BY <1>6, <2>2, <2>3, UnreadAppended
<1> USE DEF SameButSaid
<1>8. Talk(k2, p, x)
  <2>1. SentFits(k2.received, p, x)
    BY <1>4 DEF SentFits
  <2>2. ServerFits(k2.server, p, x)
    BY <1>3, <1>4 DEF Talk, ServerFits
  <2> QED
    BY <1>3, <1>7, <2>1, <2>2 DEF Talk
<1>9. Secured(k2, p, x)
  <2>1. FrozenFits(k2.state, k2.socket, k2.gates, k2.chain, k2.server, k2.respQueue)
    BY <1>2 DEF SoundAt, Secured, FrozenFits
  <2> QED
    BY <1>2, <2>1 DEF SoundAt, Secured
<1>10. ~Live(k2)
  BY <1>5 DEF Live
<1>11. SoundAt(k2, p, x)
  BY <1>8, <1>9, <1>10 DEF SoundAt
<1> QED
  BY <1>11 DEF Good, Sound

----------------------------------------------------------------------------
(* The socket, the Parser and the server replace one connection by a good one. *)

Before == TypeOK /\ AllSound /\ OnlyOne
Replaced(c) == \E k :
    /\ Good(k) /\ Update(c, k) /\ conn[c].state # "gone" /\ k.state # "gone"
    /\ conn[c].state \in Deciding => k.state = conn[c].state

\* Each connection of a sound state.
LEMMA GoodOne ==
    ASSUME Before, NEW c \in Conn
    PROVE  /\ Good(conn[c]) /\ conn[c] \in Connections
           /\ conn[c].state = "gone" => conn[c] = Gone
           /\ conn[c].state # "gone" => conn[c].state \in StateNames
           /\ Gone.socket = "idle" /\ Gone.queue = <<>> /\ Gone.received = <<>> /\ Gone.unread = <<>>
           /\ Gone.reply = "" /\ Gone.respQueue = <<>>
<1>1. conn[c] \in Connections
  BY DEF Before, TypeOK
<1>2. Good(conn[c])
  BY <1>1 DEF Before, AllSound, Good
<1>3. conn[c].state # "gone" => conn[c].state \in StateNames
  BY <1>1 DEF Connections
<1> QED
  BY <1>1, <1>2, <1>3 DEF Before, OnlyOne, Gone

\* Reached leaves a connection that waits for a decision alone, except for the last signal of
\* a socket without encryption.
LEMMA ReachedKeeps ==
    ASSUME NEW k \in Connections, k.state # "gone",
           NEW state \in {"CONNECTING", "SSL_HANDSHAKE", "CONNECTED_PRETLS_PRECAPS"},
           NEW k2, k2.state = Reached(k, state).state
    PROVE  /\ k2.state # "gone"
           /\ state # "CONNECTED_PRETLS_PRECAPS" \/ k.state \notin Deciding =>
                 (k.state \in Deciding => k2.state = k.state)
<1>1. \/ Reached(k, state) = k
      \/ /\ Reached(k, state) = [k EXCEPT !.state = state]
         /\ state # "CONNECTED_PRETLS_PRECAPS" => k.state \notin Deciding
  BY ReachedIs
<1>2. [k EXCEPT !.state = state].state = state
  BY DEF Connections
<1> QED
  BY <1>1, <1>2

\* The socket.
LEMMA SocketReplaces ==
    ASSUME Before, NEW c \in Conn, Socket(c) \/ Disconnect(c)
    PROVE  Replaced(c)
<1> DEFINE k == conn[c]
<1>1. Good(k) /\ k \in Connections /\ (k.state = "gone" => k.socket = "idle")
  BY GoodOne
<1>2. CASE Start(c)
  <2> DEFINE r == Reached(k, "CONNECTING")
             k2 == [r EXCEPT !.socket = "connecting"]
  <2>1. Good(k2)
    BY <1>1, <1>2, StartSound DEF Start
  <2>2. Update(c, k2) /\ k.state # "gone"
    BY <1>2 DEF Start
  <2>3. k2.state = r.state
    <3>1. r = k \/ r = [k EXCEPT !.state = "CONNECTING"]
      BY <1>1, ReachedIs
    <3> QED
      BY <1>1, <3>1 DEF Connections
  <2> HIDE DEF k2
  <2>4. k2.state # "gone" /\ (k.state \in Deciding => k2.state = k.state)
    BY <1>1, <2>2, <2>3, ReachedKeeps
  <2> QED
    BY <2>1, <2>2, <2>4 DEF Replaced
<1>3. CASE Connected(c)
  <2>1. k.socket = "connecting" /\ k.state # "gone"
    BY <1>1, <1>3 DEF Connected
  <2>2. CASE Encrypted
    <3> DEFINE r == Reached(k, "SSL_HANDSHAKE")
               k2 == [r EXCEPT !.socket = "handshake"]
    <3>1. Good(k2)
      BY <1>1, <2>1, <2>2, ConnectedSound
    <3>2. Update(c, k2)
      BY <1>3, <2>2 DEF Connected
    <3>3. k2.state = r.state
      <4>1. r = k \/ r = [k EXCEPT !.state = "SSL_HANDSHAKE"]
        BY <1>1, ReachedIs
      <4> QED
        BY <1>1, <4>1 DEF Connections
    <3> HIDE DEF k2
    <3>4. k2.state # "gone" /\ (k.state \in Deciding => k2.state = k.state)
      BY <1>1, <2>1, <3>3, ReachedKeeps
    <3> QED
      BY <2>1, <3>1, <3>2, <3>4 DEF Replaced
  <2>3. CASE ~Encrypted
    <3> DEFINE k2 == [k EXCEPT !.socket = "up"]
    <3>1. Good(k2)
      BY <1>1, <2>1, <2>3, ConnectedSound
    <3>2. Update(c, k2)
      BY <1>3, <2>3 DEF Connected
    <3>3. k2.state = k.state
      BY <1>1 DEF Connections
    <3> QED
      BY <2>1, <3>1, <3>2, <3>3 DEF Replaced
  <2> QED
    BY <2>2, <2>3
<1>4. CASE Announce(c)
  <2> DEFINE r == Reached(k, "CONNECTED_PRETLS_PRECAPS")
             k2 == [r EXCEPT !.gates = @ \ {"connection"}]
  <2>1. k.socket = "up" /\ "connection" \in k.gates /\ k.state # "gone"
    BY <1>1, <1>4 DEF Announce
  <2>2. Good(k2)
    BY <1>1, <2>1, AnnounceSound
  <2>3. Update(c, k2)
    BY <1>4 DEF Announce
  <2>4. k2.state = r.state
    <3>1. r = k \/ r = [k EXCEPT !.state = "CONNECTED_PRETLS_PRECAPS"]
      BY <1>1, ReachedIs
    <3> QED
      BY <1>1, <3>1 DEF Connections
  <2>5. k.state \notin Deciding
    BY <1>1, <2>1 DEF Good, Sound, SoundAt, Secured, DecidingFits
  <2> HIDE DEF k2
  <2>6. k2.state # "gone"
    BY <1>1, <2>1, <2>4, ReachedKeeps
  <2> QED
    BY <2>1, <2>2, <2>3, <2>5, <2>6 DEF Replaced
<1>5. CASE HandleSocketEncrypted(c)
  <2> DEFINE told == Respond(k, Line(Untagged, "encrypted", NoCaps))
             k2 == [told EXCEPT
                     !.socket = "up", !.gates = (@ \ {"encryption", "connection"}) \cup {"policy"},
                     !.server = IF Encrypted THEN @ ELSE "secure"]
  <2>1. k.socket = "handshake" /\ k.state # "gone" /\ Update(c, k2)
    BY <1>1, <1>5 DEF HandleSocketEncrypted
  <2>2. Good(k2)
    BY <1>1, <2>1, EncryptedSound
  <2>3. told.state = k.state
    BY <1>1 DEF Respond, Connections
  <2> HIDE DEF told
  <2>4. k2.state = told.state
    <3>1. k2 \in Connections
      BY <2>2 DEF Good
    <3>2. DOMAIN k2 = DOMAIN told
      OBVIOUS
    <3>3. "state" \in DOMAIN told
      BY <3>1, <3>2, ZenonT(60) DEF Connections
    <3> QED
      BY <3>3
  <2> HIDE DEF k2
  <2> QED
    BY <2>1, <2>2, <2>3, <2>4 DEF Replaced
<1>6. CASE Disconnect(c)
  <2> DEFINE told == Respond(k, Line(Untagged, "disconnected", NoCaps))
             k2 == [told EXCEPT !.socket = "down"]
  <2>1. k.state # "gone" /\ Update(c, k2)
    BY <1>1, <1>6 DEF Disconnect
  <2>2. Good(k2)
    BY <1>1, DisconnectSound
  <2>3. k2.state = k.state
    BY <1>1 DEF Respond, Connections
  <2> HIDE DEF k2
  <2> QED
    BY <2>1, <2>2, <2>3 DEF Replaced
<1> QED
  BY <1>2, <1>3, <1>4, <1>5, <1>6 DEF Socket

\* The Parser reads, finishes STARTTLS and sends.
LEMMA ParserReplaces ==
    ASSUME Before, NEW c \in Conn, Parser(c)
    PROVE  Replaced(c)
<1> DEFINE k == conn[c]
<1>1. /\ Good(k) /\ k \in Connections
      /\ k.state = "gone" => k.unread = <<>> /\ k.reply = "" /\ k.queue = <<>>
  BY GoodOne
<1>2. ASSUME NEW k2, Good(k2), Update(c, k2), k.state # "gone", k2.state = k.state PROVE Replaced(c)
  BY <1>2 DEF Replaced
<1>3. CASE Read(c)
  <2> DEFINE line == Head(k.unread)
             rest == [k EXCEPT !.unread = Tail(@)]
             held == [rest EXCEPT !.reply = line.kind]
             told == Respond(rest, line)
             given == [told EXCEPT !.gates = IF line.tag = "COMPRESS" THEN @ \ {"compress"} ELSE @]
  <2>1. ReadingIsOpen(k) /\ k.unread # <<>> /\ k.state # "gone"
    BY <1>1, <1>3 DEF Read, ReadingIsOpen
  <2>2. rest.state = k.state /\ held.state = k.state /\ told.state = k.state /\ given.state = k.state
    BY <1>1 DEF Respond, Connections
  <2>3. CASE "starttls" \in k.gates /\ line.tag = "STARTTLS"
    <3>1. Good(held)
      BY <1>1, <2>1, <2>3, ReplySound
    <3>2. Update(c, held)
      BY <1>3, <2>3 DEF Read
    <3> HIDE DEF held
    <3> QED
      BY <1>2, <2>1, <2>2, <3>1, <3>2
  <2>4. CASE ~("starttls" \in k.gates /\ line.tag = "STARTTLS")
    <3>1. Good(given)
      BY <1>1, <2>1, <2>4, ReadSound
    <3>2. Update(c, given)
      BY <1>3, <2>4 DEF Read
    <3> HIDE DEF given
    <3> QED
      BY <1>2, <2>1, <2>2, <3>1, <3>2
  <2> QED
    BY <2>3, <2>4
<1>4. CASE FinishStartTls(c)
  <2> DEFINE told == Respond(k, Line("STARTTLS", k.reply, NoCaps))
             k2 == [told EXCEPT !.reply = "", !.queue = Tail(@),
                     !.gates = (@ \ {"starttls"}) \cup {"encryption"},
                     !.socket = IF k.reply = "OK" THEN "handshake" ELSE "garbled"]
  <2>1. k.reply # "" /\ k.socket = "up" /\ k.state # "gone" /\ Update(c, k2)
    BY <1>1, <1>4 DEF FinishStartTls
  <2>2. Good(k2)
    BY <1>1, <2>1, FinishSound
  <2>3. k2.state = k.state
    BY <1>1 DEF Respond, Connections
  <2> HIDE DEF k2
  <2> QED
    BY <1>2, <2>1, <2>2, <2>3
<1>5. CASE Execute(c)
  <2> DEFINE command == Head(k.queue)
             sent == [k EXCEPT !.received = Append(@, command)]
             tls == [sent EXCEPT !.gates = {"starttls"}]
             deflate == [sent EXCEPT !.gates = {"compress"}, !.queue = Tail(@)]
             plain == [sent EXCEPT !.queue = Tail(@)]
  <2>1. k.gates = {} /\ k.queue # <<>> /\ k.socket = "up" /\ k.state # "gone"
    BY <1>1, <1>5 DEF Execute
  <2>2. /\ command = "STARTTLS" => Good(tls)
        /\ command = "COMPRESS" => Good(deflate)
        /\ command \notin {"STARTTLS", "COMPRESS"} => Good(plain)
    BY <1>1, <2>1, ExecuteSound
  <2>3. \/ command = "STARTTLS" /\ Update(c, tls)
        \/ command = "COMPRESS" /\ Update(c, deflate)
        \/ command \notin {"STARTTLS", "COMPRESS"} /\ Update(c, plain)
    BY <1>5 DEF Execute
  <2>4. tls.state = k.state /\ deflate.state = k.state /\ plain.state = k.state
    BY <1>1 DEF Connections
  <2> HIDE DEF tls, deflate, plain, command
  <2> QED
    BY <1>2, <2>1, <2>2, <2>3, <2>4
<1> QED
  BY <1>3, <1>4, <1>5 DEF Parser

\* What the server announces is of its phase, and STARTTLS is offered before it only.
LEMMA AnnouncedIs ==
    ASSUME NEW k, k.server \in Phases, NEW caps \in Announced(k)
    PROVE  caps \in CapLists /\ caps.phase = k.server /\ Truthful(caps) /\ caps # NoCaps
BY DEF Announced, CapLists, Truthful, NoCaps, Phases

\* The server greets or leaves.
LEMMA GreetReplaces ==
    ASSUME Before, NEW c \in Conn, Greet(c) \/ ServerLeaves(c)
    PROVE  Replaced(c)
<1> DEFINE k == conn[c]
<1>1. Good(k) /\ k \in Connections /\ (k.state = "gone" => k.socket = "idle")
  BY GoodOne
<1>2. ASSUME NEW kind \in {"OK", "PREAUTH", "BAD", "BYE"}, NEW caps \in CapLists,
             NEW server \in Phases \cup {"leaving"}, k.socket = "up", Truthful(caps),
             server # "leaving" => kind \in {"OK", "PREAUTH"},
             kind \in {"OK", "PREAUTH"} =>
                k.server = "greeting" /\ server = IF kind = "OK" THEN First ELSE "authenticated",
             kind \in {"OK", "PREAUTH"} /\ caps # NoCaps => caps.phase = server,
             Update(c, [Say(k, <<Line(Untagged, kind, caps)>>) EXCEPT !.server = server])
      PROVE  Replaced(c)
  <2> DEFINE l == Line(Untagged, kind, caps)
             said == Say(k, <<l>>)
             k2 == [said EXCEPT !.server = server]
  <2>1. l \in Lines /\ l.tag = Untagged /\ l.kind = kind /\ l.caps = caps
    BY LineIs
  <2> HIDE DEF l
  <2>2. Said(l)
    BY <1>2, <2>1 DEF Said
  <2>3. Good(k2)
    BY <1>1, <1>2, <2>1, <2>2, SpokenSound
  <2>4. k2.state = k.state
    BY <1>1 DEF Say, Connections
  <2>5. Update(c, k2)
    BY <1>2 DEF l
  <2> HIDE DEF k2
  <2>6. k.state # "gone"
    BY <1>1, <1>2
  <2> QED
    BY <2>3, <2>4, <2>5, <2>6 DEF Replaced
<1>3. NoCaps \in CapLists /\ Truthful(NoCaps)
  BY DEF CapLists, NoCaps, Truthful
<1>4. CASE Greet(c)
  <2>1. k.socket = "up" /\ k.server = "greeting" /\ First \in Phases /\ "authenticated" \in Phases
    BY <1>4 DEF Greet, First, Phases
  <2>2. ASSUME NEW phase \in Phases, NEW caps \in Announced([k EXCEPT !.server = phase]) \cup {NoCaps}
        PROVE  caps \in CapLists /\ Truthful(caps) /\ (caps # NoCaps => caps.phase = phase)
    <3> DEFINE m == [k EXCEPT !.server = phase]
    <3>1. m.server = phase
      BY <1>1 DEF Connections
    <3> HIDE DEF m
    <3>2. caps = NoCaps \/ caps \in Announced(m)
      BY <2>2 DEF m
    <3> QED
      BY <1>3, <3>1, <3>2, AnnouncedIs
  <2>3. \/ \E caps \in Announced([k EXCEPT !.server = First]) \cup {NoCaps} :
              Update(c, [Say(k, <<Line(Untagged, "OK", caps)>>) EXCEPT !.server = First])
        \/ \E caps \in Announced([k EXCEPT !.server = "authenticated"]) \cup {NoCaps} :
              Update(c, [Say(k, <<Line(Untagged, "PREAUTH", caps)>>) EXCEPT !.server = "authenticated"])
        \/ \E kind \in {"BYE", "BAD"} :
              Update(c, [Say(k, <<Line(Untagged, kind, NoCaps)>>) EXCEPT !.server = "leaving"])
    BY <1>4 DEF Greet, First
  <2> HIDE DEF k
  <2>4. CASE \E caps \in Announced([k EXCEPT !.server = First]) \cup {NoCaps} :
              Update(c, [Say(k, <<Line(Untagged, "OK", caps)>>) EXCEPT !.server = First])
    BY <1>2, <2>1, <2>2, <2>4
  <2>5. CASE \E caps \in Announced([k EXCEPT !.server = "authenticated"]) \cup {NoCaps} :
              Update(c, [Say(k, <<Line(Untagged, "PREAUTH", caps)>>) EXCEPT !.server = "authenticated"])
    BY <1>2, <2>1, <2>2, <2>5
  <2>6. CASE \E kind \in {"BYE", "BAD"} :
              Update(c, [Say(k, <<Line(Untagged, kind, NoCaps)>>) EXCEPT !.server = "leaving"])
    BY <1>2, <1>3, <2>1, <2>6
  <2> QED
    BY <2>3, <2>4, <2>5, <2>6
<1>5. CASE ServerLeaves(c)
  <2>1. k.socket = "up" /\ Update(c, [Say(k, <<Line(Untagged, "BYE", NoCaps)>>) EXCEPT !.server = "leaving"])
    BY <1>5 DEF ServerLeaves
  <2> QED
    BY <1>2, <1>3, <2>1
<1> QED
  BY <1>4, <1>5

\* An answer of one line, and the server's phase after it.
LEMMA OneLine ==
    ASSUME Before, NEW c \in Conn, conn[c].received # <<>>, conn[c].server \in Phases,
           NEW x, x = Head(conn[c].received), x \in Tasks,
           NEW m, m = conn[c] \/ (x = "LOGIN" /\ m = [conn[c] EXCEPT !.server = "authenticated"]),
           NEW kind \in {"OK", "NO"}, NEW caps \in CapLists, Truthful(caps),
           x = "LOGIN" => (kind = "OK" <=> m = [conn[c] EXCEPT !.server = "authenticated"]),
           caps # NoCaps => x = "LOGIN" /\ kind = "OK" /\ caps.phase = "authenticated",
           Replied(c, Say(m, <<Line(x, kind, caps)>>))
    PROVE  Replaced(c)
<1> DEFINE k == conn[c]
           a == Line(x, kind, caps)
           said == Say(m, <<a>>)
           k2 == [said EXCEPT !.received = Tail(@)]
<1>1. Good(k) /\ k \in Connections /\ k.state # "gone"
  BY GoodOne
<1>2. a \in Lines /\ a.tag = x /\ a.kind = kind /\ a.caps = caps /\ x \in Commands /\ x # "LOGOUT"
  <2>1. x \in Commands /\ x # "LOGOUT"
    BY DEF Tasks
  <2> QED
    BY <2>1, LineIs
<1>3. x = "LOGIN" \/ m = k
  OBVIOUS
<1>4. Replied(c, said)
  OBVIOUS
<1> HIDE DEF a
<1>5. /\ m \in Connections /\ m.unread = k.unread /\ m.received = k.received /\ SameButSaid(m, k)
      /\ m.server = k.server \/ (x = "LOGIN" /\ kind = "OK" /\ m.server = "authenticated")
      /\ x = "LOGIN" /\ kind = "OK" => m.server = "authenticated"
  <2> DEFINE n == [k EXCEPT !.server = "authenticated"]
  <2>1. /\ n \in Connections /\ n.unread = k.unread /\ n.received = k.received /\ SameButSaid(n, k)
        /\ n.server = "authenticated"
    BY <1>1 DEF Connections, SameButSaid, Phases
  <2>2. m = k \/ (x = "LOGIN" /\ m = n)
    OBVIOUS
  <2>3. x = "LOGIN" => (kind = "OK" <=> m = n)
    OBVIOUS
  <2> HIDE DEF n, k
  <2>4. CASE m = n
    BY <2>1, <2>2, <2>3, <2>4
  <2>5. CASE m # n
    BY <1>1, <2>1, <2>2, <2>3, <2>5 DEF SameButSaid
  <2> QED
    BY <2>4, <2>5
<1> HIDE DEF k
<1>6. Append(k.unread, a) \in Seq(Lines) /\ Tail(k.received) \in Seq(Commands)
  <2>1. k.unread \in Seq(Lines) /\ k.received \in Seq(Commands) /\ k.received # <<>>
    BY <1>1 DEF Connections, k
  <2> QED
    BY <1>2, <2>1, Taking
<1>7. /\ said \in Connections /\ said.unread = Append(k.unread, a) /\ said.received = k.received
      /\ SameButSaid(said, k) /\ said.server = m.server
  <2>4. k.unread \o <<a>> = Append(k.unread, a)
    <3>1. k.unread \in Seq(Lines)
      BY <1>1 DEF Connections
    <3> QED
      BY <1>2, <3>1, Concatenating
  <2>5. Say(m, <<a>>) = [m EXCEPT !.unread = k.unread \o <<a>>]
    BY <1>5 DEF Say
  <2>1. said = [m EXCEPT !.unread = Append(k.unread, a)]
    BY <2>4, <2>5
  <2>2. said \in Connections
    BY <1>5, <1>6, <2>1 DEF Connections
  <2>3. /\ said.unread = Append(k.unread, a) /\ said.received = m.received
        /\ SameButSaid(said, m) /\ said.server = m.server
    BY <1>5, <2>1 DEF Connections, SameButSaid
  <2> QED
    BY <1>5, <2>2, <2>3 DEF SameButSaid
<1> HIDE DEF said
<1>8. /\ k2 \in Connections /\ k2.unread = Append(k.unread, a) /\ k2.received = Tail(k.received)
      /\ SameButSaid(k2, k) /\ k2.server = m.server
  BY <1>6, <1>7 DEF Connections, SameButSaid
<1>9. Update(c, k2)
  BY <1>4 DEF Replied
<1> HIDE DEF k2
<1>10. Announces(k2.server, x, a)
  BY <1>2, <1>5, <1>8, LineIs DEF Announces, Said
<1>11. Good(k2)
  BY <1>1, <1>2, <1>5, <1>8, <1>10, AnsweredSound, SMTT(30) DEF k
<1>12. k2.state = k.state
  BY <1>8 DEF SameButSaid
<1> QED
  BY <1>1, <1>9, <1>11, <1>12 DEF Replaced, k

\* Two lines, and the server's phase after them.
TwoLines(k, u, a, server) == [[Say(k, <<u, a>>) EXCEPT !.server = server] EXCEPT !.received = Tail(@)]

\* The server answers or refuses.
LEMMA AnswersReplace ==
    ASSUME Before, NEW c \in Conn, Answer(c) \/ ServerRefuses(c)
    PROVE  Replaced(c)
<1> DEFINE k == conn[c]
<1>1. Good(k) /\ k \in Connections /\ (k.state = "gone" => k.received = <<>>)
  BY GoodOne
<1>2. NoCaps \in CapLists /\ Truthful(NoCaps)
  BY DEF CapLists, NoCaps, Truthful
<1>3. {"CAPABILITY", "STARTTLS", "LOGIN", "COMPRESS", "other"} \subseteq Tasks
  BY DEF Tasks, Commands
<1>5. ASSUME NEW command \in Tasks, command # "LOGIN" \/ k.server # "authenticated", NEW kind \in {"OK", "NO"},
             command = "LOGIN" => kind = "NO",
             Answering(k, command), Replied(c, Say(k, <<Line(command, kind, NoCaps)>>))
      PROVE  Replaced(c)
  <2>1. k.received # <<>> /\ k.server \in Phases /\ command = Head(k.received)
    BY <1>5 DEF Answering
  <2>2. command = "LOGIN" => (kind = "OK" <=> k = [k EXCEPT !.server = "authenticated"])
    <3>1. [k EXCEPT !.server = "authenticated"].server = "authenticated"
      BY <1>1 DEF Connections
    <3> QED
      BY <1>5, <3>1
  <2> QED
    BY <1>2, <1>5, <2>1, <2>2, OneLine
<1>6. Answering(k, "LOGIN") => k.server # "authenticated"
  <2> SUFFICES ASSUME Answering(k, "LOGIN") PROVE k.server # "authenticated"
    OBVIOUS
  <2>1. PICK p \in Places, x \in Tasks : Talk(k, p, x)
    BY <1>1 DEF Good, Sound, SoundAt
  <2>2. k.received # <<>> /\ Head(k.received) = "LOGIN"
    BY DEF Answering
  <2>3. x = "LOGIN" /\ p = "server"
    BY <1>1, <2>1, <2>2, AnsweredIs
  <2> QED
    BY <2>1, <2>3, Tables DEF Talk, ServerFits
<1>7. CASE ServerRefuses(c)
  <2>1. PICK command \in {"CAPABILITY", "STARTTLS", "LOGIN", "COMPRESS"} :
           Answering(k, command) /\ Replied(c, Say(k, <<Line(command, "NO", NoCaps)>>))
    BY <1>7 DEF ServerRefuses
  <2> HIDE DEF k
  <2> QED
    BY <1>3, <1>5, <1>6, <2>1
<1>8. CASE AnswerStartTls(c)
  <2>1. Answering(k, "STARTTLS") /\ Replied(c, Say(k, <<Line("STARTTLS", "OK", NoCaps)>>))
    BY <1>8 DEF AnswerStartTls
  <2> HIDE DEF k
  <2> QED
    BY <1>3, <1>5, <2>1
<1>9. CASE AnswerOther(c)
  <2>1. PICK command \in {"COMPRESS", "other"} :
           Answering(k, command) /\ Replied(c, Say(k, <<Line(command, "OK", NoCaps)>>))
    BY <1>9 DEF AnswerOther
  <2> HIDE DEF k
  <2> QED
    BY <1>3, <1>5, <2>1
<1>10. CASE AnswerLogin(c)
  <2> DEFINE m == [k EXCEPT !.server = "authenticated"]
  <2>1. Answering(k, "LOGIN") /\ \E caps \in Announced(m) \cup {NoCaps} :
           Replied(c, Say(m, <<Line("LOGIN", "OK", caps)>>))
    BY <1>10 DEF AnswerLogin
  <2>2. PICK caps \in Announced(m) \cup {NoCaps} : Replied(c, Say(m, <<Line("LOGIN", "OK", caps)>>))
    BY <2>1
  <2>3. caps \in CapLists /\ Truthful(caps) /\ (caps # NoCaps => caps.phase = "authenticated")
    <3>1. m.server = "authenticated" /\ "authenticated" \in Phases
      BY <1>1 DEF Connections, Phases
    <3> HIDE DEF m
    <3>2. caps = NoCaps \/ caps \in Announced(m)
      BY <2>2
    <3> QED
      BY <1>2, <3>1, <3>2, AnnouncedIs
  <2>4. k.received # <<>> /\ k.server \in Phases /\ "LOGIN" = Head(k.received) /\ "LOGIN" \in Tasks
    BY <1>3, <2>1 DEF Answering
  <2>5. Replied(c, Say([conn[c] EXCEPT !.server = "authenticated"], <<Line("LOGIN", "OK", caps)>>))
    BY <2>2
  <2> QED
    BY <2>3, <2>4, <2>5, OneLine
<1>11. ASSUME NEW x \in {"CAPABILITY", "LOGOUT"}, Answering(k, x), NEW u \in Lines, NEW a \in Lines,
              NEW server \in Phases \cup {"leaving"}, NEW k2,
              k2 = TwoLines(k, u, a, server)
       PROVE  /\ k2 \in Connections /\ SameButSaid(k2, k) /\ k2.received = Tail(k.received)
              /\ k2.unread = Append(Append(k.unread, u), a) /\ k2.server = server
              /\ k.received # <<>> /\ Head(k.received) = x /\ k.server \in Phases
              /\ k.state # "gone" /\ k2.state = k.state
  <2>1. k.received # <<>> /\ Head(k.received) = x /\ k.server \in Phases /\ k.state # "gone"
    BY <1>1, <1>11 DEF Answering
  <2> DEFINE said == Say(k, <<u, a>>)
             phased == [said EXCEPT !.server = server]
             unread == Append(Append(k.unread, u), a)
  <2>2. k.unread \in Seq(Lines) /\ k.received \in Seq(Commands)
    BY <1>1 DEF Connections
  <2>3. unread \in Seq(Lines) /\ k.unread \o <<u, a>> = unread
    <3>1. Append(k.unread, u) \in Seq(Lines)
      BY <2>2, Appending
    <3>2. Append(Append(k.unread, u), a) \in Seq(Lines)
      BY <3>1, Appending
    <3>3. k.unread \o <<u, a>> = Append(Append(k.unread, u), a)
      BY <2>2, Concatenating
    <3> QED
      BY <3>2, <3>3
  <2>9. k2 = [phased EXCEPT !.received = Tail(@)]
    BY <1>11 DEF TwoLines
  <2>4. Tail(k.received) \in Seq(Commands)
    BY <2>1, <2>2, Taking
  <2>5. said = [k EXCEPT !.unread = unread]
    BY <2>3 DEF Say
  <2> HIDE DEF unread
  <2>6. /\ said \in Connections /\ SameButSaid(said, k) /\ said.unread = unread /\ said.received = k.received
    BY <1>1, <2>3, <2>5, ZenonT(60) DEF Connections, SameButSaid
  <2> HIDE DEF said
  <2>7. /\ phased \in Connections /\ phased.unread = unread /\ phased.received = k.received
        /\ phased.server = server
    BY <2>6 DEF Connections
  <2>8. SameButSaid(phased, k)
    BY <2>6 DEF Connections, SameButSaid
  <2> HIDE DEF phased
  <2>10. /\ k2 \in Connections /\ k2.unread = unread /\ k2.received = Tail(k.received) /\ k2.server = server
    BY <2>4, <2>7, <2>9 DEF Connections
  <2>11. SameButSaid(k2, k)
    BY <2>7, <2>8, <2>9 DEF Connections, SameButSaid
  <2>12. k2.state = k.state
    BY <2>11 DEF SameButSaid
  <2> QED
    BY <2>1, <2>10, <2>11, <2>12 DEF unread
<1>12. CASE AnswerCapability(c)
  <2>1. PICK caps \in Announced(k) :
           Replied(c, Say(k, <<Line(Untagged, "CAPABILITY", caps), Line("CAPABILITY", "OK", NoCaps)>>))
    BY <1>12 DEF AnswerCapability
  <2>2. Answering(k, "CAPABILITY") /\ k.server \in Phases
    BY <1>12 DEF AnswerCapability, Answering
  <2>3. caps \in CapLists /\ caps.phase = k.server /\ Truthful(caps)
    BY <2>2, AnnouncedIs
  <2> DEFINE u == Line(Untagged, "CAPABILITY", caps)
             a == Line("CAPABILITY", "OK", NoCaps)
             said == Say(k, <<u, a>>)
             k2 == [[said EXCEPT !.server = k.server] EXCEPT !.received = Tail(@)]
  <2>4. /\ u \in Lines /\ u.tag = Untagged /\ u.kind = "CAPABILITY" /\ u.caps = caps
        /\ a \in Lines /\ a.tag = "CAPABILITY" /\ a.kind = "OK" /\ a.caps = NoCaps
    BY <1>2, <1>3, <2>3, LineIs DEF Tasks
  <2> HIDE DEF u, a
  <2>5. said = [said EXCEPT !.server = k.server]
    <3>1. k = [k EXCEPT !.server = k.server]
      BY <1>1 DEF Connections
    <3>2. [k EXCEPT !.unread = @ \o <<u, a>>] = [[k EXCEPT !.unread = @ \o <<u, a>>] EXCEPT !.server = k.server]
      BY <1>1 DEF Connections
    <3> QED
      BY <3>2 DEF Say
  <2>6. Update(c, k2)
    BY <2>1, <2>5 DEF Replied, u, a
  <2>20. k2 = TwoLines(k, u, a, k.server)
    BY DEF TwoLines
  <2>7. /\ k2 \in Connections /\ SameButSaid(k2, k) /\ k2.received = Tail(k.received)
        /\ k2.unread = Append(Append(k.unread, u), a) /\ k2.server = k.server
        /\ k.received # <<>> /\ Head(k.received) = "CAPABILITY" /\ k.server \in Phases
        /\ k.state # "gone" /\ k2.state = k.state
    <3> HIDE DEF k, k2
    <3> QED
      BY <1>11, <2>2, <2>4, <2>20
  <2> HIDE DEF k2
  <2>8. Said(u) /\ Said(a)
    BY <1>2, <2>3, <2>4 DEF Said
  <2>9. Announces(k2.server, "CAPABILITY", a)
    BY <2>4, <2>8 DEF Announces
  <2>10. Good(k2)
    <3> HIDE DEF k
    <3> QED
      BY <1>1, <2>3, <2>4, <2>7, <2>8, <2>9, AnsweredSound
  <2> QED
    BY <2>6, <2>7, <2>10 DEF Replaced
<1>13. CASE AnswerLogout(c)
  <2> DEFINE u == Line(Untagged, "BYE", NoCaps)
             a == Line("LOGOUT", "OK", NoCaps)
             said == Say(k, <<u, a>>)
             k2 == [[said EXCEPT !.server = "leaving"] EXCEPT !.received = Tail(@)]
  <2>1. Update(c, k2) /\ Answering(k, "LOGOUT")
    BY <1>13 DEF AnswerLogout, Replied
  <2>2. /\ u \in Lines /\ u.tag = Untagged /\ u.kind = "BYE" /\ u.caps = NoCaps
        /\ a \in Lines /\ a.tag = "LOGOUT" /\ a.kind = "OK" /\ a.caps = NoCaps
    BY <1>2, LineIs DEF Commands
  <2> HIDE DEF u, a
  <2>20. k2 = TwoLines(k, u, a, "leaving")
    BY DEF TwoLines
  <2>3. /\ k2 \in Connections /\ SameButSaid(k2, k) /\ k2.received = Tail(k.received)
        /\ k2.unread = Append(Append(k.unread, u), a) /\ k2.server = "leaving"
        /\ k.received # <<>> /\ Head(k.received) = "LOGOUT"
        /\ k.state # "gone" /\ k2.state = k.state
    <3> HIDE DEF k, k2
    <3> QED
      BY <1>11, <2>1, <2>2, <2>20
  <2> HIDE DEF k2
  <2>4. Said(u) /\ Said(a)
    BY <1>2, <2>2 DEF Said
  <2>5. Good(k2)
    <3> HIDE DEF k
    <3> QED
      BY <1>1, <2>2, <2>3, <2>4, LeaveAnswered
  <2> QED
    BY <2>1, <2>3, <2>5 DEF Replaced
<1>14. CASE Greet(c)
  BY <1>14, GreetReplaces
<1> QED
  BY <1>7, <1>8, <1>9, <1>10, <1>12, <1>13, <1>14 DEF Answer

----------------------------------------------------------------------------
(* Handlers.  A connection that the handler has not left in a good state may still be logged    *)
(* out.                                                                                         *)

Leavable(k) == k \in Connections /\ \E p \in Places, x \in Tasks : Talk(k, p, x) /\ Secured(k, p, x)

\* A good connection may be logged out.
LEMMA GoodIsLeavable ==
    ASSUME NEW k, Good(k)
    PROVE  Leavable(k)
BY DEF Good, Sound, SoundAt, Leavable

\* setNetworkPolicy(NETWORK_OFFLINE)
LEMMA LoggedOutGood ==
    ASSUME NEW k, Leavable(k)
    PROVE  /\ Good(LoggedOut(k)) /\ LoggedOut(k).state \in Out
           /\ k.state = "gone" => LoggedOut(k) = k
           /\ k.state # "gone" => LoggedOut(k).state = "LOGOUT"
<1>1. k \in Connections
  BY DEF Leavable
<1>2. PICK p \in Places, x \in Tasks : Talk(k, p, x) /\ Secured(k, p, x)
  BY DEF Leavable
<1>3. CASE k.state \in Out
  <2>1. SoundAt(k, p, x)
    BY <1>2, <1>3 DEF SoundAt, Live
  <2> QED
    BY <1>1, <1>3, <2>1 DEF LoggedOut, Good, Sound, Out
<1>4. CASE k.state \notin Out
  <2> DEFINE k2 == LoggedOut(k)
             queue == Append(k.queue, "LOGOUT")
  <2>1. queue \in Seq(Commands)
    <3>1. k.queue \in Seq(Commands) /\ "LOGOUT" \in Commands
      BY <1>1 DEF Connections, Commands
    <3> QED
      BY <3>1, Appending
  <2>2. k2 = [[k EXCEPT !.queue = queue] EXCEPT !.state = "LOGOUT", !.logoutCmd = TRUE,
                     !.dead = k.active, !.finished = @ \/ k.active]
    BY <1>4 DEF LoggedOut, Queue
  <2> HIDE DEF queue
  <2>3. "LOGOUT" \in StateNames
    BY Ranks
  <2> DEFINE q == [k EXCEPT !.queue = queue]
  <2>4. /\ q \in Connections /\ q.queue = queue /\ SameTalk(q, k) /\ q.chain = k.chain
        /\ q.gates = k.gates /\ q.active = k.active
    BY <1>1, <2>1 DEF Connections, SameTalk
  <2>5. k.active \in BOOLEAN /\ q.finished \in BOOLEAN
    BY <1>1 DEF Connections
  <2> HIDE DEF q
  <2>6. k2 = [q EXCEPT !.state = "LOGOUT", !.logoutCmd = TRUE,
                     !.dead = k.active, !.finished = @ \/ k.active]
    BY <2>2 DEF q
  <2> HIDE DEF k2
  <2>7. /\ k2.queue = q.queue /\ SameTalk(k2, q) /\ k2.chain = q.chain
        /\ k2.gates = q.gates /\ k2.state = "LOGOUT"
    BY <2>4, <2>6 DEF Connections, SameTalk
  <2>8. k2 \in Connections
    BY <2>3, <2>4, <2>5, <2>6, ZenonT(60) DEF Connections
  <2>9. /\ SameTalk(k2, k) /\ k2.queue = Append(k.queue, "LOGOUT") /\ k2.chain = k.chain
        /\ k2.gates = k.gates
    BY <2>4, <2>7 DEF SameTalk, queue
  <2>10. SoundAt(k2, p, x)
    BY <1>1, <1>2, <2>7, <2>9, LeavingSound
  <2> QED
    BY <1>4, <2>7, <2>8, <2>10 DEF Good, Sound, Out, k2
<1> QED
  BY <1>3, <1>4

\* removeDeletedTasks
Sweep(k) == [k EXCEPT !.active = @ /\ ~k.finished]
\* Removing a task that has finished changes nothing else.
LEMMA SweepGood ==
    ASSUME NEW k, Good(k)
    PROVE  /\ Good(Sweep(k)) /\ Sweep(k).state = k.state
           /\ k = Gone => Sweep(k) = Gone
<1>1. k \in Connections
  BY DEF Good
<1>2. PICK p \in Places, x \in Tasks : SoundAt(k, p, x)
  BY DEF Good, Sound
<1>3. k.active \in BOOLEAN /\ k.finished \in BOOLEAN
  BY <1>1 DEF Connections
<1>4. Sweep(k) \in Connections /\ SameTask(Sweep(k), k)
  BY <1>1, <1>3, ZenonT(60) DEF Sweep, Connections, SameTask, SameTalk
<1>5. SoundAt(Sweep(k), p, x)
  BY <1>2, <1>4, SameSound
<1>6. k = Gone => Sweep(k) = Gone
  <2>1. k = [k EXCEPT !.active = k.active]
    BY <1>1 DEF Connections
  <2>2. k = Gone => k.active = FALSE
    <3>1. Gone.active = FALSE
      BY Zenon DEF Gone
    <3> QED
      BY <3>1, Zenon
  <2>3. k.active = FALSE => (k.active /\ ~k.finished) = k.active
    BY Zenon
  <2> QED
    BY <2>1, <2>2, <2>3 DEF Sweep
<1> QED
  BY <1>4, <1>5, <1>6 DEF Good, Sound, SameTask

\* A task that fails is not concerned with the connection any more.
LEMMA FailGood ==
    ASSUME NEW k
    PROVE  /\ Good(k) => Good(Fail(k)) /\ Fail(k).state = k.state
           /\ Leavable(k) => Leavable(Fail(k)) /\ Fail(k).state = k.state
<1>1. ASSUME k \in Connections PROVE Fail(k) \in Connections /\ SameTask(Fail(k), k)
  BY <1>1 DEF Fail, Connections, SameTask, SameTalk
<1>2. ASSUME Good(k) PROVE Good(Fail(k)) /\ Fail(k).state = k.state
  <2>1. PICK p \in Places, x \in Tasks : SoundAt(k, p, x)
    BY <1>2 DEF Good, Sound
  <2>2. Fail(k) \in Connections /\ SameTask(Fail(k), k)
    BY <1>1, <1>2 DEF Good
  <2>3. SoundAt(Fail(k), p, x)
    BY <2>1, <2>2, SameSound
  <2> QED
    BY <2>2, <2>3 DEF Good, Sound, SameTask
<1>3. ASSUME Leavable(k) PROVE Leavable(Fail(k)) /\ Fail(k).state = k.state
  <2>1. PICK p \in Places, x \in Tasks : Talk(k, p, x) /\ Secured(k, p, x)
    BY <1>3 DEF Leavable
  <2>2. Fail(k) \in Connections /\ SameTask(Fail(k), k)
    BY <1>1, <1>3 DEF Leavable
  <2>3. Talk(Fail(k), p, x) /\ Secured(Fail(k), p, x)
    BY <2>1, <2>2 DEF SameTask, SameTalk, Talk, Secured
  <2> QED
    BY <2>2, <2>3 DEF Leavable, SameTask
<1> QED
  BY <1>2, <1>3

\* A connection that does not exist.
LEMMA GoneGood == Good(Gone) /\ Gone.state = "gone"
<1>1. Gone \in Connections
  BY DEF Gone, Connections, CapLists
<1>2. /\ Gone.state = "gone" /\ Gone.queue = <<>> /\ Gone.received = <<>> /\ Gone.unread = <<>>
      /\ Gone.respQueue = <<>> /\ Gone.gates = {} /\ Gone.reply = "" /\ Gone.chain = FALSE
      /\ Gone.server = "greeting" /\ Gone.socket = "idle"
  BY DEF Gone
<1>3. "none" \in Places /\ "other" \in Tasks /\ "none" \notin Begun
  BY DEF Places, Tasks, Commands, Begun
<1>4. Items(<<>>) = {} /\ LogoutLast(<<>>) /\ InOrder(<<>>)
  BY DEF Items, LogoutLast, InOrder
<1>5. Talk(Gone, "none", "other")
  BY <1>2, <1>3, <1>4 DEF Talk, QueueFits, SentFits, UnreadFits, RespFits, GatesFit, ServerFits, AtHead
<1>6. Secured(Gone, "none", "other")
  BY <1>2, <1>4 DEF Secured, HandshakeFits, FrozenFits, DecidingFits, ChainFits, Enc, Deciding
<1>7. SoundAt(Gone, "none", "other")
  BY <1>2, <1>5, <1>6 DEF SoundAt, Live, Out
<1> QED
  BY <1>1, <1>2, <1>3, <1>7 DEF Good, Sound

\* A connection that has just been made.
LEMMA NewGood == method \in {"plain", "starttls", "ssl"} => Good(New) /\ New.state = "NONE"
<1>1. /\ New \in Connections /\ New.state = "NONE" /\ New.queue = <<>> /\ New.received = <<>> /\ New.unread = <<>>
      /\ New.respQueue = <<>> /\ New.reply = "" /\ New.chain = FALSE
      /\ New.server = "greeting" /\ New.fresh = FALSE /\ New.caps = NoCaps /\ New.socket = "idle"
      /\ New.gates \subseteq {"connection", "encryption"}
  <2>1. "NONE" \in StateNames
    BY Ranks DEF Early
  <2> DEFINE gates == {"connection"} \cup (IF Encrypted THEN {"encryption"} ELSE {})
  <2>2. gates \subseteq {"connection", "encryption"} /\ gates \in SUBSET Gates
    BY DEF Gates
  <2>3. New = [Gone EXCEPT !.state = "NONE", !.active = TRUE, !.gates = gates]
    BY DEF New
  <2> HIDE DEF gates
  <2>4. Gone \in Connections
    BY GoneGood DEF Good
  <2>5. /\ Gone.queue = <<>> /\ Gone.received = <<>> /\ Gone.unread = <<>>
        /\ Gone.respQueue = <<>> /\ Gone.reply = "" /\ Gone.chain = FALSE
        /\ Gone.server = "greeting" /\ Gone.fresh = FALSE /\ Gone.caps = NoCaps /\ Gone.socket = "idle"
    BY DEF Gone
  <2>6. New \in Connections
    BY <2>1, <2>2, <2>3, <2>4 DEF Connections
  <2>7. New.state = "NONE" /\ New.gates = gates
    BY <2>3, <2>4 DEF Connections
  <2>8. /\ New.queue = Gone.queue /\ New.received = Gone.received /\ New.unread = Gone.unread
        /\ New.respQueue = Gone.respQueue /\ New.reply = Gone.reply /\ New.chain = Gone.chain
    BY <2>3, <2>4 DEF Connections
  <2>9. /\ New.server = Gone.server /\ New.fresh = Gone.fresh /\ New.caps = Gone.caps
        /\ New.socket = Gone.socket
    BY <2>3, <2>4 DEF Connections
  <2> QED
    BY <2>2, <2>5, <2>6, <2>7, <2>8, <2>9
<1>2. "none" \in Places /\ "other" \in Tasks /\ "none" \notin Begun
  BY DEF Places, Tasks, Commands, Begun
<1>3. Items(<<>>) = {} /\ LogoutLast(<<>>) /\ InOrder(<<>>)
  BY DEF Items, LogoutLast, InOrder
<1>4. Talk(New, "none", "other")
  BY <1>1, <1>2, <1>3 DEF Talk, QueueFits, SentFits, UnreadFits, RespFits, GatesFit, ServerFits, AtHead
<1>5. Secured(New, "none", "other")
  BY <1>1, <1>3 DEF Secured, HandshakeFits, FrozenFits, DecidingFits, ChainFits, Enc, Deciding
<1>6. "NONE" \in Early /\ "NONE" \notin Between /\ "NONE" \notin Precaps /\ "NONE" \notin Used
  BY DEF Early, Between, Precaps, Used
<1>7. Fits(New, "none", "other")
  <2>1. New.server \in Serves(New.state)
    <3>1. Serves("NONE") = {"leaving", "greeting", First, "authenticated"}
      BY <1>6, Tables
    <3>2. New.state = "NONE" /\ New.server = "greeting"
      BY <1>1
    <3> QED
      BY <3>1, <3>2
  <2>2. Truthful(NoCaps) /\ Heard(New) = {}
    BY <1>1, <1>3 DEF Truthful, NoCaps, Heard
  <2> QED
    BY <1>1, <1>3, <1>6, <2>1, <2>2 DEF Fits, CommandFits, GreetingFits, CapsFit, LoginFits
<1>8. SoundAt(New, "none", "other")
  BY <1>4, <1>5, <1>7 DEF SoundAt
<1> QED
  BY <1>1, <1>2, <1>8 DEF Good, Sound

\* updateCapabilities sets the capabilities and that they are fresh.
LEMMA LearnedIs ==
    ASSUME NEW k \in Connections, NEW line \in Lines
    PROVE  /\ Learned(k, line) \in Connections /\ SameTalk(Learned(k, line), k)
           /\ Learned(k, line).state = k.state /\ Learned(k, line).queue = k.queue
           /\ Learned(k, line).gates = k.gates /\ Learned(k, line).chain = k.chain
           /\ Learned(k, line).cmd = k.cmd
           /\ line.caps = NoCaps => Learned(k, line) = k
           /\ line.caps # NoCaps => Learned(k, line).caps = line.caps /\ Learned(k, line).fresh
<1>1. line.caps \in CapLists
  BY DEF Lines
<1>2. CASE line.caps = NoCaps
  BY <1>2 DEF Learned, SameTalk
<1>3. CASE line.caps # NoCaps
  <2> DEFINE k2 == [k EXCEPT !.caps = line.caps, !.fresh = TRUE]
  <2>1. Learned(k, line) = k2
    BY <1>3 DEF Learned
  <2>2. /\ k2 \in Connections /\ SameTalk(k2, k) /\ k2.state = k.state /\ k2.queue = k.queue
        /\ k2.gates = k.gates /\ k2.chain = k.chain /\ k2.cmd = k.cmd /\ k2.caps = line.caps /\ k2.fresh
    BY <1>1 DEF Connections, SameTalk
  <2> QED
    BY <1>3, <2>1, <2>2
<1> QED
  BY <1>2, <1>3

\* What a handler may take for granted of the response it has been given.
LEMMA Given ==
    ASSUME NEW k, Good(k), k.respQueue # <<>>
    PROVE  \E p \in Places, x \in Tasks :
              /\ SoundAt(k, p, x) /\ SoundAt(Rest(k), After(k, p), x)
              /\ p = After(k, p) \/ (After(k, p) = "none" /\ Answers(Head(k.respQueue)))
              /\ Answers(Head(k.respQueue)) => /\ Head(k.respQueue).tag = x /\ p = "resp"
                                               /\ After(k, p) = "none"
              /\ Head(k.respQueue).kind = "CAPABILITY" => x = "CAPABILITY" /\ p # "none"
              /\ After(k, p) \in Places
<1>1. k \in Connections
  BY DEF Good
<1>2. PICK p \in Places, x \in Tasks : SoundAt(k, p, x)
  BY DEF Good, Sound
<1>3. /\ SoundAt(Rest(k), After(k, p), x) /\ After(k, p) \in Places
      /\ Answers(Head(k.respQueue)) => Head(k.respQueue).tag = x
  BY <1>1, <1>2, TakenSound
<1>4. Head(k.respQueue) \in Items(k.respQueue)
  BY <1>1, Taking DEF Connections
<1>5. /\ Answers(Head(k.respQueue)) => p = "resp"
      /\ Head(k.respQueue).kind = "CAPABILITY" => x = "CAPABILITY" /\ p # "none"
  BY <1>2, <1>4 DEF SoundAt, Talk, RespFits
<1>6. After(k, p) = IF Answers(Head(k.respQueue)) THEN "none" ELSE p
  BY DEF After
<1> QED
  BY <1>2, <1>3, <1>5, <1>6

\* The connection without the response, and the response.
LEMMA RestIs ==
    ASSUME NEW k, Good(k), k.respQueue # <<>>
    PROVE  /\ Good(Rest(k)) /\ Rest(k) \in Connections
           /\ Rest(k).state = k.state /\ Rest(k).caps = k.caps /\ Rest(k).fresh = k.fresh
           /\ Rest(k).cmd = k.cmd /\ Rest(k).gates = k.gates /\ Rest(k).chain = k.chain
           /\ Rest(k).server = k.server /\ Rest(k).socket = k.socket
           /\ Heard(Rest(k)) \subseteq Heard(k) /\ Items(Rest(k).respQueue) \subseteq Items(k.respQueue)
           /\ Head(k.respQueue) \in Heard(k) /\ Head(k.respQueue) \in Lines /\ Said(Head(k.respQueue))
           /\ Head(k.respQueue) \in Items(k.respQueue)
<1>1. k \in Connections
  BY DEF Good
<1>2. PICK p \in Places, x \in Tasks : SoundAt(k, p, x)
  BY DEF Good, Sound
<1>3. /\ Rest(k) \in Connections /\ SoundAt(Rest(k), After(k, p), x) /\ After(k, p) \in Places
      /\ Head(k.respQueue) \in Lines /\ Head(k.respQueue) \in Heard(k) /\ Said(Head(k.respQueue))
  BY <1>1, <1>2, TakenSound
<1>4. /\ Rest(k).state = k.state /\ Rest(k).caps = k.caps /\ Rest(k).fresh = k.fresh
      /\ Rest(k).cmd = k.cmd /\ Rest(k).gates = k.gates /\ Rest(k).chain = k.chain
      /\ Rest(k).server = k.server /\ Rest(k).socket = k.socket
      /\ Rest(k).unread = k.unread /\ Rest(k).respQueue = Tail(k.respQueue)
  BY <1>1 DEF Rest, Connections
<1>5. Items(Tail(k.respQueue)) \subseteq Items(k.respQueue) /\ Head(k.respQueue) \in Items(k.respQueue)
  BY <1>1, Taking DEF Connections
<1> QED
  BY <1>3, <1>4, <1>5 DEF Good, Sound, Heard

\* The capabilities have been asked for in this state.
LEMMA CapabilitySound ==
    ASSUME NEW k, Good(k), k.respQueue # <<>>, Head(k.respQueue).kind = "CAPABILITY"
    PROVE  Good(Learned(Rest(k), Head(k.respQueue)))
<1> DEFINE r == Rest(k)
           h == Head(k.respQueue)
           k2 == Learned(r, h)
<1>1. PICK p \in Places, x \in Tasks :
         /\ SoundAt(k, p, x) /\ SoundAt(r, After(k, p), x)
         /\ p = After(k, p) \/ (After(k, p) = "none" /\ Answers(h))
         /\ h.kind = "CAPABILITY" => x = "CAPABILITY" /\ p # "none"
         /\ After(k, p) \in Places
  BY Given
<1>2. /\ r \in Connections /\ r.state = k.state /\ Heard(r) \subseteq Heard(k) /\ h \in Heard(k)
      /\ h \in Lines /\ Said(h)
  BY RestIs
<1>3. /\ k2 \in Connections /\ SameTalk(k2, r) /\ k2.state = r.state /\ k2.queue = r.queue
      /\ k2.gates = r.gates /\ k2.chain = r.chain /\ k2.cmd = r.cmd
      /\ h.caps = NoCaps => k2 = r
      /\ h.caps # NoCaps => k2.caps = h.caps /\ k2.fresh
  BY <1>2, LearnedIs
<1>4. h.kind = "CAPABILITY"
  OBVIOUS
<1> HIDE DEF k2, r, h
<1>5. ~Answers(h)
  BY <1>2, <1>4 DEF Said, Answers, Tasks, Commands, Untagged
<1> DEFINE q == After(k, p)
<1>6. q = p /\ p # "none" /\ x = "CAPABILITY"
  BY <1>1, <1>4, <1>5
<1>7. SoundAt(r, p, x)
  BY <1>1, <1>6
<1>8. Talk(k2, p, x) /\ Secured(k2, p, x)
  BY <1>3, <1>7 DEF SoundAt, Talk, Secured, SameTalk
<1>9. ASSUME Live(k2), h.caps # NoCaps PROVE Fits(k2, p, x)
  <2>1. Live(r) /\ Live(k)
    BY <1>2, <1>3, <1>9 DEF Live
  <2>2. Fits(r, p, x) /\ Fits(k, p, x)
    BY <1>1, <1>7, <2>1 DEF SoundAt
  <2>3. k2.state \in Precaps
    <3>1. x = Asks(r.state)
      BY <1>6, <2>2 DEF Fits, CommandFits
    <3> QED
      BY <1>3, <1>6, <3>1, AskedIn
  <2>4. k2.state \notin Early /\ k2.state \notin Used /\ k2.state # "LOGIN"
    BY <2>3 DEF Precaps, Early, Used
  <2>5. Heard(k2) = Heard(r)
    BY <1>3 DEF Heard, SameTalk
  <2>6. CapsFit(k2.state, k2.fresh, k2.caps, Heard(k2))
    <3>1. h.caps.phase \in Serves(k2.state)
      BY <1>2, <1>3, <1>4, <2>2, <2>3 DEF Fits, CapsFit
    <3> QED
      BY <1>2, <1>3, <1>9, <2>2, <2>3, <2>4, <2>5, <3>1 DEF Fits, CapsFit, Said
  <2>7. k2.server \in Serves(k2.state)
    BY <1>3, <2>2 DEF Fits, SameTalk
  <2>8. CommandFits(k2.state, k2.queue, k2.received, p, x)
    BY <1>3, <2>2 DEF Fits, SameTalk
  <2> QED
    BY <2>4, <2>6, <2>7, <2>8 DEF Fits, GreetingFits, LoginFits
<1>10. SoundAt(k2, p, x)
  <2>1. h.caps = NoCaps => SoundAt(k2, p, x)
    BY <1>3, <1>7
  <2> QED
    BY <1>8, <1>9, <2>1 DEF SoundAt
<1> QED
  BY <1>3, <1>10 DEF Good, Sound, k2, r, h

\* A server that is left at once.
LEMMA ForeignSound ==
    ASSUME NEW k, Good(k), k.respQueue # <<>>
    PROVE  /\ Good(LeftForeign(Learned(Rest(k), Head(k.respQueue))))
           /\ Leavable(Learned(Rest(k), Head(k.respQueue)))
           /\ Leavable([Learned(Rest(k), Head(k.respQueue)) EXCEPT !.state = "LOGOUT"])
           /\ Learned(Rest(k), Head(k.respQueue)).state = k.state
           /\ LeftForeign(Learned(Rest(k), Head(k.respQueue))).state = "LOGOUT"
           /\ [Learned(Rest(k), Head(k.respQueue)) EXCEPT !.state = "LOGOUT"].state = "LOGOUT"
<1> DEFINE r == Rest(k)
           h == Head(k.respQueue)
           m == Learned(r, h)
           queue == Append(m.queue, "LOGOUT")
           q == Queue(m, "LOGOUT")
           k2 == LeftForeign(m)
           k3 == [m EXCEPT !.state = "LOGOUT"]
<1>1. r \in Connections /\ Good(r) /\ r.state = k.state /\ h \in Lines
  BY RestIs
<1>2. PICK p \in Places, x \in Tasks : SoundAt(r, p, x)
  BY <1>1 DEF Good, Sound
<1>3. /\ m \in Connections /\ SameTalk(m, r) /\ m.state = r.state /\ m.queue = r.queue
      /\ m.gates = r.gates /\ m.chain = r.chain
  BY <1>1, LearnedIs
<1>4. "LOGOUT" \in Commands /\ "LOGOUT" \in StateNames
  BY Ranks DEF Commands
<1>5. k2 = [q EXCEPT !.state = "LOGOUT", !.logoutCmd = TRUE]
  BY DEF LeftForeign
<1> HIDE DEF m, r, h
<1>6. Talk(m, p, x) /\ Secured(m, p, x)
  BY <1>2, <1>3 DEF SoundAt, Talk, Secured, SameTalk
<1>7. queue \in Seq(Commands)
  BY <1>3, <1>4, Appending DEF Connections
<1>8. q = [m EXCEPT !.queue = queue]
  BY DEF Queue
<1> HIDE DEF queue
<1>9. q \in Connections /\ q.queue = queue /\ SameTalk(q, m) /\ q.gates = m.gates /\ q.chain = m.chain
  BY <1>3, <1>7, <1>8 DEF Connections, SameTalk
<1> HIDE DEF q
<1>10. /\ k2 \in Connections /\ k2.queue = queue /\ SameTalk(k2, m) /\ k2.gates = m.gates
       /\ k2.chain = m.chain /\ k2.state = "LOGOUT"
  <2>1. [q EXCEPT !.state = "LOGOUT", !.logoutCmd = TRUE] \in Connections
    BY <1>4, <1>9 DEF Connections
  <2>2. /\ SameTalk(k2, q) /\ k2.gates = q.gates /\ k2.chain = q.chain /\ k2.queue = q.queue
        /\ k2.state = "LOGOUT"
    BY <1>5, <1>9 DEF Connections, SameTalk
  <2> QED
    BY <1>5, <1>9, <2>1, <2>2 DEF SameTalk
<1>11. SoundAt(k2, p, x)
  BY <1>3, <1>6, <1>10, LeavingSound DEF queue
<1>12. /\ k3 \in Connections /\ k3.queue = m.queue /\ SameTalk(k3, m) /\ k3.gates = m.gates
       /\ k3.chain = m.chain /\ k3.state = "LOGOUT"
  BY <1>3, <1>4 DEF Connections, SameTalk
<1> HIDE DEF k2, k3
<1>13. SoundAt(k3, p, x)
  BY <1>3, <1>6, <1>12, LeavingSound
<1> QED
  BY <1>1, <1>3, <1>6, <1>10, <1>11, <1>12, <1>13 DEF Good, Sound, SoundAt, Leavable, k2, k3, m, r, h

----------------------------------------------------------------------------
(* Handshakes and the decisions on certificates. *)

\* The certificates are known and no decision has been taken.
VerifyingOf(k) == [Rest(k) EXCEPT !.state = Verifying(@), !.chain = TRUE]
\* processSslErrors: the handshake of the connection's method is over.
LEMMA VerifyingSound ==
    ASSUME NEW k, Good(k), k.respQueue # <<>>, Head(k.respQueue).kind = "encrypted",
           k.state \in {"SSL_HANDSHAKE", "STARTTLS_HANDSHAKE"}
    PROVE  Good(VerifyingOf(k)) /\ VerifyingOf(k).state \in Deciding
<1> DEFINE r == Rest(k)
           h == Head(k.respQueue)
           k2 == VerifyingOf(k)
<1>1. PICK p \in Places, x \in Tasks :
         SoundAt(k, p, x) /\ SoundAt(r, After(k, p), x) /\ After(k, p) \in Places
         /\ (p = After(k, p) \/ (After(k, p) = "none" /\ Answers(h)))
  BY Given
<1>2. /\ r \in Connections /\ r.state = k.state /\ h \in Items(k.respQueue) /\ Said(h)
      /\ r.gates = k.gates /\ r.socket = k.socket /\ r.server = k.server
  BY RestIs
<1>3. \A l \in Items(r.respQueue) : l.kind = "disconnected"
  <2>1. k \in Connections
    BY DEF Good
  <2> QED
    BY <1>1, <2>1, TakenSound
<1>4. Enc(k.respQueue) /\ Live(k)
  BY <1>2 DEF Enc, Live, Out
<1>5. Fits(k, p, x) /\ Fits(r, After(k, p), x) /\ Secured(k, p, x) /\ Secured(r, After(k, p), x)
      /\ Talk(r, After(k, p), x)
  BY <1>1, <1>2, <1>4 DEF SoundAt, Live
<1>6. After(k, p) = "none"
  <2>1. k.state \in Mute
    BY DEF Mute, Early
  <2>2. p = "none"
    BY <1>5, <2>1 DEF Fits, CommandFits
  <2> QED
    BY <1>1, <2>2
<1>7. /\ r.socket \in {"up", "down"} /\ "policy" \in r.gates /\ "connection" \notin r.gates
      /\ r.state = "SSL_HANDSHAKE" => Encrypted
      /\ r.state = "STARTTLS_HANDSHAKE" => ~Encrypted /\ r.server \in {"secure", "leaving"}
  <2>1. "STARTTLS_HANDSHAKE" \in Between /\ "SSL_HANDSHAKE" \notin Between /\ "SSL_HANDSHAKE" \notin Out
    BY DEF Between, Out
  <2>2. r.socket \in {"up", "down"} /\ "policy" \in r.gates /\ "connection" \notin r.gates
    BY <1>2, <1>4, <1>5 DEF Secured, FrozenFits
  <2>3. r.state = "SSL_HANDSHAKE" => Encrypted
    BY <1>2, <1>4, <1>5, <2>1 DEF Secured, HandshakeFits
  <2>4. r.state = "STARTTLS_HANDSHAKE" => ~Encrypted
    BY <1>5, <2>1 DEF Fits, CommandFits
  <2>5. r.state = "STARTTLS_HANDSHAKE" => r.server \in {"secure", "leaving"}
    BY <1>2, <1>4, <1>5, <2>1 DEF Secured, FrozenFits
  <2> QED
    BY <2>2, <2>3, <2>4, <2>5
<1> DEFINE state == Verifying(r.state)
<1>8. /\ \/ r.state = "SSL_HANDSHAKE" /\ state = "SSL_VERIFYING"
         \/ r.state = "STARTTLS_HANDSHAKE" /\ state = "STARTTLS_VERIFYING"
      /\ state \in StateNames
  <2>1. {"SSL_VERIFYING", "STARTTLS_VERIFYING"} \subseteq StateNames
    BY Ranks DEF Early
  <2>2. r.state = "SSL_HANDSHAKE" \/ r.state = "STARTTLS_HANDSHAKE"
    BY <1>2
  <2> HIDE DEF r
  <2>3. r.state = "SSL_HANDSHAKE" => state = "SSL_VERIFYING"
    BY DEF Verifying
  <2>4. r.state = "STARTTLS_HANDSHAKE" => state = "STARTTLS_VERIFYING"
    BY DEF Verifying
  <2> HIDE DEF state
  <2> QED
    BY <2>1, <2>2, <2>3, <2>4
<1> HIDE DEF state
<1>9. k2 = [r EXCEPT !.state = state, !.chain = TRUE]
  BY DEF VerifyingOf, state
<1>10. /\ k2 \in Connections /\ SameTalk(k2, r) /\ k2.state = state /\ k2.chain = TRUE
       /\ k2.gates = r.gates /\ k2.queue = r.queue /\ k2.fresh = r.fresh /\ k2.caps = r.caps
  BY <1>2, <1>8, <1>9, ZenonT(60) DEF Connections, SameTalk
<1> HIDE DEF k2, r, h
<1> USE DEF SameTalk
<1>11. Talk(k2, "none", x)
  BY <1>5, <1>6, <1>10 DEF Talk
<1>12. ~Enc(k2.respQueue)
  BY <1>3, <1>10 DEF Enc
<1>13. Secured(k2, "none", x)
  <2>1. HandshakeFits(k2.state, k2.socket, k2.respQueue, "none")
    BY <1>7, <1>10, <1>12 DEF HandshakeFits
  <2>2. FrozenFits(k2.state, k2.socket, k2.gates, k2.chain, k2.server, k2.respQueue)
    BY <1>12 DEF FrozenFits
  <2>3. DecidingFits(k2.state, k2.socket, k2.gates, k2.respQueue)
    BY <1>3, <1>7, <1>10 DEF DecidingFits
  <2>4. ChainFits(k2.state, k2.socket, k2.chain, "none", x)
    BY <1>7, <1>8, <1>10 DEF ChainFits, Early
  <2> QED
    BY <2>1, <2>2, <2>3, <2>4 DEF Secured
<1>14. Fits(k2, "none", x)
  <2>1. /\ state \notin Precaps /\ state \notin Used /\ state # "LOGIN" /\ state \notin Between
        /\ r.state = "SSL_HANDSHAKE" => r.state \in Early /\ state \in Early
        /\ r.state = "STARTTLS_HANDSHAKE" => state \notin Early
    BY <1>8 DEF Precaps, Used, Between, Early
  <2>2. Heard(k2) = Heard(r)
    BY <1>10 DEF Heard
  <2>3. CommandFits(k2.state, k2.queue, k2.received, "none", x)
    BY <1>5, <1>10, <2>1 DEF Fits, CommandFits
  <2>4. k2.server \in Serves(k2.state)
    <3>1. CASE r.state = "SSL_HANDSHAKE"
      BY <1>5, <1>10, <2>1, <3>1, Tables DEF Fits
    <3>2. CASE r.state = "STARTTLS_HANDSHAKE"
      BY <1>7, <1>8, <1>10, <3>2, Tables
    <3> QED
      BY <1>8, <3>1, <3>2
  <2>5. GreetingFits(k2.state, k2.server, k2.fresh, Heard(k2))
    BY <1>5, <1>8, <1>10, <2>1, <2>2 DEF Fits, GreetingFits
  <2>6. CapsFit(k2.state, k2.fresh, k2.caps, Heard(k2))
    BY <1>5, <1>10, <2>1, <2>2 DEF Fits, CapsFit
  <2>7. LoginFits(k2.state, k2.server, k2.fresh, k2.caps, k2.cmd, Heard(k2), "none")
    BY <1>10, <2>1 DEF LoginFits
  <2> QED
    BY <2>3, <2>4, <2>5, <2>6, <2>7 DEF Fits
<1>15. SoundAt(k2, "none", x)
  BY <1>11, <1>13, <1>14 DEF SoundAt
<1> QED
  BY <1>8, <1>10, <1>15 DEF Good, Sound, k2, Places, Deciding

\* Reading goes on after a decision: nothing was said meanwhile, or the decision comes late.
LEMMA UnfrozenSound ==
    ASSUME NEW k, Good(k), k.chain, k.state \notin Deciding
    PROVE  Good(Unfrozen(k)) /\ Unfrozen(k).state = k.state
<1> DEFINE k2 == Unfrozen(k)
<1>1. k \in Connections
  BY DEF Good
<1>2. PICK p \in Places, x \in Tasks : SoundAt(k, p, x)
  BY DEF Good, Sound
<1>3. /\ k2 \in Connections /\ SameWords(k2, k) /\ k2.state = k.state /\ k2.chain = k.chain
      /\ k2.socket = k.socket
  BY <1>1 DEF Unfrozen, Connections, SameWords
<1> HIDE DEF k2
<1>4. ~Enc(k.respQueue)
  BY <1>2 DEF SoundAt, Secured, FrozenFits
<1>5. Secured(k2, p, x)
  BY <1>2, <1>3, <1>4 DEF SoundAt, Secured, HandshakeFits, FrozenFits, DecidingFits, ChainFits, SameWords
<1>6. SoundAt(k2, p, x)
  BY <1>2, <1>3, <1>5, Moving
<1> QED
  BY <1>3, <1>6 DEF Good, Sound, k2

\* The certificates are accepted.
LEMMA AcceptedSound ==
    ASSUME NEW k, Good(k), k.chain \/ k.state \in Deciding
    PROVE  /\ Good(Accepted(k)) /\ (k.state \notin Deciding => Accepted(k).state = k.state)
           /\ k.state # "gone" => Accepted(k).state # "gone"
<1> DEFINE k2 == Accepted(k)
<1>1. k \in Connections
  BY DEF Good
<1>2. PICK p \in Places, x \in Tasks : SoundAt(k, p, x)
  BY DEF Good, Sound
<1>3. CASE k.state = "SSL_VERIFYING"
  <2> DEFINE n == [k EXCEPT !.state = "CONNECTED_PRETLS_PRECAPS"]
  <2>1. k2 = [n EXCEPT !.gates = @ \ {"policy"}]
    BY <1>3 DEF Accepted
  <2>2. "CONNECTED_PRETLS_PRECAPS" \in StateNames
    BY Ranks DEF Early
  <2>3. /\ k2 \in Connections /\ SameWords(k2, k) /\ k2.state = "CONNECTED_PRETLS_PRECAPS" /\ k2.chain = k.chain
        /\ k2.socket = k.socket /\ k2.gates = k.gates \ {"policy"}
    <3>1. /\ n \in Connections /\ SameWords(n, k) /\ n.state = "CONNECTED_PRETLS_PRECAPS"
          /\ n.chain = k.chain /\ n.socket = k.socket /\ n.gates = k.gates
      BY <1>1, <2>2 DEF Connections, SameWords
    <3> HIDE DEF n
    <3>2. k2 \in Connections
      BY <2>1, <3>1 DEF Connections
    <3>3. /\ SameWords(k2, n) /\ k2.state = n.state
          /\ k2.chain = n.chain /\ k2.socket = n.socket /\ k2.gates = n.gates \ {"policy"}
      BY <2>1, <3>1, ZenonT(60) DEF Connections, SameWords
    <3> HIDE DEF k2
    <3> QED
      BY <3>1, <3>2, <3>3 DEF SameWords
  <2> HIDE DEF k2
  <2>4. Secured(k, p, x) /\ k.state \in Deciding /\ k.state \in Early /\ k2.state \in Early /\ k2.state \notin Deciding
    BY <1>2, <1>3, <2>3 DEF SoundAt, Deciding, Early
  <2>5. k.socket \in {"up", "down"} /\ ~Enc(k.respQueue)
    BY <2>4 DEF Secured, DecidingFits, Enc
  <2>6. Secured(k2, p, x)
    BY <2>3, <2>4, <2>5 DEF Secured, HandshakeFits, FrozenFits, DecidingFits, ChainFits, SameWords
  <2>7. SoundAt(k2, p, x)
    BY <1>2, <2>3, <2>4, <2>6, Moving
  <2> QED
    BY <2>3, <2>4, <2>7 DEF Good, Sound, k2
<1>4. CASE k.state = "STARTTLS_VERIFYING"
  <2> DEFINE queue == Append(k.queue, "CAPABILITY")
             q == Queue(k, "CAPABILITY")
             w == [q EXCEPT !.cmd = "CAPABILITY"]
             a == [w EXCEPT !.state = "ESTABLISHED_PRECAPS"]
             d == [a EXCEPT !.fresh = FALSE]
  <2>1. k2 = [d EXCEPT !.gates = @ \ {"policy"}]
    BY <1>4 DEF Accepted, AskCapability, Wait
  <2>2. "CAPABILITY" \in Commands /\ "CAPABILITY" \in Tasks /\ "ESTABLISHED_PRECAPS" \in StateNames
    BY Ranks DEF Commands, Tasks, Precaps
  <2>3. queue \in Seq(Commands)
    BY <1>1, <2>2, Appending DEF Connections
  <2>4. q = [k EXCEPT !.queue = queue]
    BY DEF Queue
  <2> HIDE DEF queue
  <2>5. /\ d \in Connections /\ SameTalk(d, k) /\ d.queue = queue /\ d.chain = k.chain
        /\ d.gates = k.gates /\ d.state = "ESTABLISHED_PRECAPS" /\ d.fresh = FALSE /\ d.caps = k.caps
    <3>1. q \in Connections
      BY <1>1, <2>3, <2>4 DEF Connections
    <3>2. /\ SameTalk(q, k) /\ q.queue = queue /\ q.chain = k.chain /\ q.gates = k.gates /\ q.caps = k.caps
      BY <1>1, <2>4 DEF Connections, SameTalk
    <3> HIDE DEF q
    <3>3. d \in Connections
      BY <2>2, <3>1 DEF Connections
    <3>4. /\ SameTalk(d, q) /\ d.queue = q.queue /\ d.chain = q.chain /\ d.gates = q.gates /\ d.caps = q.caps
          /\ d.state = "ESTABLISHED_PRECAPS" /\ d.fresh = FALSE
      BY <3>1 DEF Connections, SameTalk
    <3> HIDE DEF d
    <3> QED
      BY <3>2, <3>3, <3>4 DEF SameTalk
  <2> HIDE DEF d
  <2>6. /\ k2 \in Connections /\ SameTalk(k2, k) /\ k2.queue = Append(k.queue, "CAPABILITY")
        /\ k2.chain = k.chain /\ k2.gates = k.gates \ {"policy"} /\ k2.state = "ESTABLISHED_PRECAPS"
        /\ k2.fresh = FALSE /\ k2.caps = k.caps
    <3>1. k2 \in Connections
      BY <2>1, <2>5 DEF Connections
    <3>2. /\ SameTalk(k2, d) /\ k2.queue = d.queue /\ k2.chain = d.chain /\ k2.gates = d.gates \ {"policy"}
          /\ k2.state = d.state /\ k2.fresh = d.fresh /\ k2.caps = d.caps
      BY <2>1, <2>5 DEF Connections, SameTalk
    <3> HIDE DEF k2
    <3> QED
      BY <2>5, <3>1, <3>2 DEF SameTalk, queue
  <2> HIDE DEF k2
  <2>7. /\ Secured(k, p, x) /\ Live(k) /\ k.state \in Deciding /\ k.state \in Mute
        /\ k.state \notin Between
    BY <1>2, <1>4 DEF SoundAt, Live, Out, Deciding, Mute, Between
  <2>8. Fits(k, p, x) /\ p = "none"
    BY <1>2, <2>7 DEF SoundAt, Fits, CommandFits
  <2>9. ~Enc(k.respQueue)
    BY <2>7 DEF Secured, DecidingFits, Enc
  <2>10. k.server \in {"leaving", "secure"}
    BY <1>4, <2>8, Tables DEF Fits
  <2>11. GoesOn(k, k2, "CAPABILITY")
    <3>1. Queues(k, k2, "CAPABILITY")
      BY <2>6, <2>8, <2>10, Tables DEF Queues, Fits, CommandFits, CapsFit, Phases
    <3>2. CapsGoOn(k2)
      BY <2>6, <2>8 DEF CapsGoOn, Fits, CapsFit, Used
    <3>3. k2.state \in Precaps /\ "CAPABILITY" = Asks(k2.state) /\ k.server \in Serves(k2.state)
      BY <2>6, <2>10, AsksAre, Tables DEF Precaps
    <3> QED
      BY <2>6, <2>7, <2>9, <3>1, <3>2, <3>3 DEF GoesOn
  <2>12. SoundAt(k2, "queue", "CAPABILITY")
    <3>1. Talk(k, "none", x)
      BY <1>2, <2>8 DEF SoundAt
    <3>2. Secured(k, "none", x)
      BY <2>7, <2>8
    <3> QED
      BY <1>1, <2>2, <2>11, <3>1, <3>2, GoingOn
  <2> QED
    BY <2>2, <2>6, <2>7, <2>12 DEF Good, Sound, Places, k2
<1>5. CASE k.state \notin Deciding
  <2>1. Accepted(k) = Unfrozen(k)
    BY <1>5 DEF Accepted, Unfrozen, Deciding
  <2> QED
    BY <1>5, <2>1, UnfrozenSound
<1> QED
  BY <1>3, <1>4, <1>5 DEF Deciding

\* The rejected connection is left, and what it was sent meanwhile is read.
LEMMA RejectedSound ==
    ASSUME NEW k, Good(k), k.chain
    PROVE  /\ Good([LoggedOut(k) EXCEPT !.gates = @ \ {"policy"}])
           /\ [LoggedOut(k) EXCEPT !.gates = @ \ {"policy"}].state = LoggedOut(k).state
<1>1. Good(LoggedOut(k)) /\ LoggedOut(k).state \in Out
  BY GoodIsLeavable, LoggedOutGood
<1>2. LoggedOut(k).chain
  <2>1. CASE k.state \in Out
    BY <2>1 DEF LoggedOut
  <2>2. CASE k.state \notin Out
    <3>1. Queue(k, "LOGOUT").chain = k.chain
      BY DEF Queue, Good, Connections
    <3>2. LoggedOut(k).chain = Queue(k, "LOGOUT").chain
      BY <2>2 DEF LoggedOut, Queue, Good, Connections
    <3> QED
      BY <3>1, <3>2
  <2> QED
    BY <2>1, <2>2
<1>3. LoggedOut(k).state \notin Deciding
  BY <1>1 DEF Out, Deciding
<1> QED
  BY <1>1, <1>2, <1>3, UnfrozenSound DEF Unfrozen

----------------------------------------------------------------------------
(* OpenConnectionTask goes on when nothing is under way. *)

\* What Queue and Wait leave alone, and a state that is set after them.
SameRest(k2, k) ==
    /\ SameTalk(k2, k) /\ k2.gates = k.gates /\ k2.chain = k.chain
    /\ k2.caps = k.caps
\* Queueing a command changes the queue, and waiting for it the tag.
LEMMA Waiting ==
    ASSUME NEW k \in Connections, NEW y \in Commands
    PROVE  /\ Queue(k, y) \in Connections /\ SameRest(Queue(k, y), k)
           /\ Queue(k, y).queue = Append(k.queue, y) /\ Queue(k, y).state = k.state
           /\ Queue(k, y).fresh = k.fresh /\ Queue(k, y).cmd = k.cmd
           /\ Wait(k, y) \in Connections /\ SameRest(Wait(k, y), k)
           /\ Wait(k, y).queue = Append(k.queue, y) /\ Wait(k, y).state = k.state
           /\ Wait(k, y).fresh = k.fresh /\ Wait(k, y).cmd = y
<1> DEFINE queue == Append(k.queue, y)
           q == Queue(k, y)
           w == Wait(k, y)
<1>1. queue \in Seq(Commands)
  BY Appending DEF Connections
<1>2. q = [k EXCEPT !.queue = queue]
  BY DEF Queue
<1> HIDE DEF queue
<1>3. /\ q \in Connections /\ SameRest(q, k) /\ q.queue = queue /\ q.state = k.state
      /\ q.fresh = k.fresh /\ q.cmd = k.cmd
  BY <1>1, <1>2 DEF Connections, SameRest, SameTalk
<1>4. w = [q EXCEPT !.cmd = y]
  BY DEF Wait
<1> HIDE DEF q, w
<1>5. /\ w \in Connections /\ SameRest(w, q) /\ w.queue = q.queue /\ w.state = q.state
      /\ w.fresh = q.fresh /\ w.cmd = y
  BY <1>3, <1>4 DEF Connections, SameRest, SameTalk
<1>6. SameRest(w, k)
  BY <1>3, <1>5 DEF SameRest, SameTalk
<1> QED
  BY <1>3, <1>5, <1>6 DEF queue, q, w

\* Setting the state changes the state.
LEMMA Stating ==
    ASSUME NEW k \in Connections, NEW state \in StateNames
    PROVE  LET k2 == [k EXCEPT !.state = state]
           IN  /\ k2 \in Connections /\ SameRest(k2, k) /\ k2.queue = k.queue
               /\ k2.state = state /\ k2.fresh = k.fresh /\ k2.cmd = k.cmd
BY DEF Connections, SameRest, SameTalk

Free(k, x) ==
    /\ k \in Connections /\ Talk(k, "none", x) /\ Secured(k, "none", x)
    /\ Live(k) /\ k.state \notin Between
    /\ "LOGOUT" \notin Items(k.queue) /\ "LOGOUT" \notin Items(k.received)
    /\ \A l \in Heard(k) : l.tag # "LOGOUT"
    /\ Truthful(k.caps)

\* A command is queued and its state is taken.
LEMMA Proceeding ==
    ASSUME NEW k, NEW x \in Tasks, Free(k, x), NEW y \in Tasks, NEW k2 \in Connections,
           SameRest(k2, k), k2.queue = Append(k.queue, y),
           k.server \in Allowed(y) \cap Serves(k2.state), y = "STARTTLS" => ~Encrypted,
           k2.state \in Precaps \cup Used \cup {"STARTTLS_ISSUED", "LOGIN"}, y = Asks(k2.state),
           y = "STARTTLS" \/ k2.state = "CONNECTED_PRETLS" => k.state \in Early \cup {"CONNECTED_PRETLS"},
           CapsGoOn(k2)
    PROVE  Good(k2)
<1>1. GoesOn(k, k2, y)
  BY DEF GoesOn, Queues, Free, SameRest
<1>2. SoundAt(k2, "queue", y)
  BY <1>1, GoingOn DEF Free
<1> QED
  BY <1>2 DEF Good, Sound, Places

\* The capabilities are asked for.
LEMMA AskingSound ==
    ASSUME NEW k, NEW x \in Tasks, Free(k, x), NEW state \in Precaps, k.server \in Serves(state), ~k.fresh,
           state = "CONNECTED_PRETLS" => k.state \in Early
    PROVE  Good(AskCapability(k, state)) /\ AskCapability(k, state).state = state
<1> DEFINE w == Wait(k, "CAPABILITY")
           k2 == AskCapability(k, state)
<1>1. "CAPABILITY" \in Commands /\ "CAPABILITY" \in Tasks /\ k \in Connections /\ state \in StateNames
  BY Ranks DEF Commands, Tasks, Free
<1>2. /\ w \in Connections /\ SameRest(w, k) /\ w.queue = Append(k.queue, "CAPABILITY") /\ w.fresh = k.fresh
  BY <1>1, Waiting
<1>3. k2 = [w EXCEPT !.state = state]
  BY DEF AskCapability
<1> HIDE DEF w, k2
<1>4. /\ k2 \in Connections /\ SameRest(k2, w) /\ k2.queue = w.queue /\ k2.state = state /\ k2.fresh = w.fresh
  BY <1>1, <1>2, <1>3, Stating
<1>5. SameRest(k2, k)
  BY <1>2, <1>4 DEF SameRest, SameTalk
<1>6. k.server \in Allowed("CAPABILITY")
  <2>1. state \in {"CONNECTED_PRETLS", "ESTABLISHED_PRECAPS", "POSTAUTH_PRECAPS"}
    BY DEF Precaps
  <2>2. Allowed("CAPABILITY") = {"leaving", "plain", "secure", "authenticated"} /\ First \in {"plain", "secure"}
    BY Tables DEF Phases
  <2> QED
    BY <2>1, <2>2, Tables
<1>7. CapsGoOn(k2)
  BY <1>2, <1>4, <1>5 DEF CapsGoOn, SameRest, Free, Used, Precaps
<1>8. Good(k2)
  BY <1>1, <1>2, <1>4, <1>5, <1>6, <1>7, AsksAre, Proceeding
<1> QED
  BY <1>4, <1>8 DEF k2

\* The connection is authenticated, and compression is asked for or the other tasks go on.
LEMMA CompletingSound ==
    ASSUME NEW k, NEW x \in Tasks, Free(k, x), k.server \in {"authenticated", "leaving"},
           k.caps.phase = "authenticated"
    PROVE  /\ Good(Complete(k)) /\ Complete(k).state \notin Out
           /\ Good(CompleteOrCompress(k)) /\ CompleteOrCompress(k).state \notin Out
<1>1. /\ {"other", "COMPRESS"} \subseteq Tasks /\ {"other", "COMPRESS"} \subseteq Commands /\ k \in Connections
      /\ {"AUTHENTICATED", "COMPRESS_DEFLATE"} \subseteq StateNames
  BY Ranks DEF Commands, Tasks, Free, Used
<1>2. /\ k.server \in Allowed("other") \cap Serves("AUTHENTICATED")
      /\ k.server \in Allowed("COMPRESS") \cap Serves("COMPRESS_DEFLATE")
      /\ Asks("AUTHENTICATED") = "other" /\ Asks("COMPRESS_DEFLATE") = "COMPRESS"
  BY Tables, AsksAre
<1>3. /\ {"AUTHENTICATED", "COMPRESS_DEFLATE"} \subseteq Used
      /\ \A state \in Used : state \notin Precaps /\ state # "LOGIN" /\ state # "CONNECTED_PRETLS"
  BY DEF Used, Precaps
<1>4. Good(Complete(k)) /\ Complete(k).state = "AUTHENTICATED"
  <2> DEFINE q == Queue(k, "other")
             k2 == Complete(k)
  <2>1. q \in Connections /\ SameRest(q, k) /\ q.queue = Append(k.queue, "other")
    BY <1>1, Waiting
  <2>2. k2 = [q EXCEPT !.state = "AUTHENTICATED", !.finished = TRUE]
    BY DEF Complete
  <2> HIDE DEF q, k2
  <2>3. k2 \in Connections /\ SameRest(k2, q) /\ k2.queue = q.queue /\ k2.state = "AUTHENTICATED"
    BY <1>1, <2>1, <2>2 DEF Connections, SameRest, SameTalk
  <2>4. SameRest(k2, k)
    BY <2>1, <2>3 DEF SameRest, SameTalk
  <2>5. CapsGoOn(k2)
    BY <1>3, <2>3, <2>4 DEF CapsGoOn, SameRest, Free
  <2>6. Good(k2)
    BY <1>1, <1>2, <1>3, <2>1, <2>3, <2>4, <2>5, Proceeding
  <2> QED
    BY <2>3, <2>6 DEF k2
<1>5. CASE "COMPRESS=DEFLATE" \in k.caps.set
  <2> DEFINE w == Wait(k, "COMPRESS")
             k2 == [w EXCEPT !.state = "COMPRESS_DEFLATE"]
  <2>1. w \in Connections /\ SameRest(w, k) /\ w.queue = Append(k.queue, "COMPRESS")
    BY <1>1, Waiting
  <2>2. CompleteOrCompress(k) = k2
    BY <1>5 DEF CompleteOrCompress
  <2> HIDE DEF w
  <2>3. k2 \in Connections /\ SameRest(k2, w) /\ k2.queue = w.queue /\ k2.state = "COMPRESS_DEFLATE"
    BY <1>1, <2>1, Stating
  <2> HIDE DEF k2
  <2>4. SameRest(k2, k)
    BY <2>1, <2>3 DEF SameRest, SameTalk
  <2>5. CapsGoOn(k2)
    BY <1>3, <2>3, <2>4 DEF CapsGoOn, SameRest, Free
  <2>6. Good(k2)
    BY <1>1, <1>2, <1>3, <2>1, <2>3, <2>4, <2>5, Proceeding
  <2> QED
    BY <1>4, <2>2, <2>3, <2>6 DEF Out
<1>6. CASE "COMPRESS=DEFLATE" \notin k.caps.set
  BY <1>4, <1>6 DEF CompleteOrCompress, Out
<1> QED
  BY <1>4, <1>5, <1>6 DEF Out

\* The login begins: with the password LOGIN is queued, and without it the user is asked.
LEMMA LoginSound ==
    ASSUME NEW k, NEW x \in Tasks, Free(k, x), k.caps.phase \in {"plain", "secure"},
           k.server \in {k.caps.phase, "leaving"}
    PROVE  Good(LoginNow(k)) /\ LoginNow(k).state = "LOGIN"
<1>1. "LOGIN" \in Commands /\ "LOGIN" \in Tasks /\ k \in Connections /\ "LOGIN" \in StateNames
  BY Ranks DEF Commands, Tasks, Free
<1>2. CASE hasPassword
  <2> DEFINE w == Wait(k, "LOGIN")
             f == [w EXCEPT !.fresh = FALSE]
             k2 == [f EXCEPT !.state = "LOGIN"]
  <2>1. LoginNow(k) = k2
    BY <1>2 DEF LoginNow, Authenticate
  <2>2. w \in Connections /\ SameRest(w, k) /\ w.queue = Append(k.queue, "LOGIN") /\ w.cmd = "LOGIN"
    BY <1>1, Waiting
  <2> HIDE DEF w
  <2>3. f \in Connections /\ SameRest(f, w) /\ f.queue = w.queue /\ f.cmd = w.cmd /\ ~f.fresh
    BY <2>2 DEF Connections, SameRest, SameTalk
  <2> HIDE DEF f
  <2>4. k2 \in Connections /\ SameRest(k2, f) /\ k2.queue = f.queue /\ k2.state = "LOGIN"
        /\ k2.fresh = f.fresh /\ k2.cmd = f.cmd
    BY <1>1, <2>3, Stating
  <2> HIDE DEF k2
  <2>5. SameRest(k2, k)
    BY <2>2, <2>3, <2>4 DEF SameRest, SameTalk
  <2>6. k.server \in Allowed("LOGIN") \cap Serves("LOGIN")
    BY Tables DEF Phases
  <2>7. CapsGoOn(k2)
    <3>1. k2.state \notin Precaps /\ k2.state \notin Used
      BY <2>4 DEF Precaps, Used
    <3>2. k2.caps = k.caps /\ k2.server = k.server /\ ~k2.fresh /\ k2.cmd = "LOGIN"
      BY <2>2, <2>3, <2>4, <2>5 DEF SameRest, SameTalk
    <3> QED
      BY <3>1, <3>2 DEF CapsGoOn, Free
  <2>8. Good(k2)
    BY <1>1, <2>2, <2>3, <2>4, <2>5, <2>6, <2>7, AsksAre, Proceeding
  <2> QED
    BY <2>1, <2>4, <2>8
<1>3. CASE ~hasPassword
  <2> DEFINE w == [k EXCEPT !.cmd = ""]
             k2 == [w EXCEPT !.state = "LOGIN"]
  <2>1. LoginNow(k) = k2
    BY <1>3 DEF LoginNow, Authenticate
  <2>2. w \in Connections /\ SameRest(w, k) /\ w.queue = k.queue /\ w.cmd = ""
    BY <1>1 DEF Connections, SameRest, SameTalk
  <2> HIDE DEF w
  <2>3. k2 \in Connections /\ SameRest(k2, w) /\ k2.queue = w.queue /\ k2.state = "LOGIN"
        /\ k2.cmd = w.cmd
    BY <1>1, <2>2, Stating
  <2> HIDE DEF k2
  <2>4. SameRest(k2, k) /\ SameTalk(k2, k) /\ k2.queue = k.queue
    BY <2>2, <2>3 DEF SameRest, SameTalk
  <2>5. /\ "LOGIN" \notin Early /\ "LOGIN" \notin Deciding /\ "LOGIN" \notin Mute /\ "LOGIN" \notin Between
        /\ "LOGIN" \notin Precaps /\ "LOGIN" \notin Used /\ "LOGIN" # "CONNECTED_PRETLS"
    BY DEF Early, Deciding, Mute, Between, Precaps, Used
  <2>6. Talk(k2, "none", x)
    BY <2>4 DEF Free, Talk, SameTalk, SameRest
  <2>7. ~Encrypted => k.socket \notin {"handshake", "garbled"} /\ ~Enc(k.respQueue)
    BY DEF Free, Secured, HandshakeFits, Live
  <2>8. Secured(k2, "none", x)
    <3>1. HandshakeFits(k2.state, k2.socket, k2.respQueue, "none")
      BY <2>4, <2>7 DEF HandshakeFits, SameTalk
    <3>2. FrozenFits(k2.state, k2.socket, k2.gates, k2.chain, k2.server, k2.respQueue)
      BY <2>3, <2>4, <2>5 DEF Free, Secured, FrozenFits, SameTalk, SameRest
    <3>3. DecidingFits(k2.state, k2.socket, k2.gates, k2.respQueue)
      BY <2>3, <2>5 DEF DecidingFits
    <3>4. ChainFits(k2.state, k2.socket, k2.chain, "none", x)
      BY <2>3, <2>4, <2>5 DEF Free, Secured, ChainFits, SameTalk, SameRest
    <3> QED
      BY <3>1, <3>2, <3>3, <3>4 DEF Secured
  <2>9. \A l \in Heard(k2) : ~Answers(l) /\ l.tag # "LOGOUT"
    BY <2>4, <2>6 DEF Heard, SameTalk, Talk, UnreadFits, RespFits, Free
  <2>10. Fits(k2, "none", x)
    <3>1. CommandFits(k2.state, k2.queue, k2.received, "none", x)
      BY <2>3, <2>4, <2>5 DEF CommandFits, Free, SameTalk
    <3>2. k2.server \in Serves(k2.state)
      BY <2>3, <2>4, Tables DEF Phases, SameTalk
    <3>3. GreetingFits(k2.state, k2.server, k2.fresh, Heard(k2))
      BY <2>3, <2>5 DEF GreetingFits
    <3>4. CapsFit(k2.state, k2.fresh, k2.caps, Heard(k2))
      BY <2>3, <2>4, <2>5, <2>9 DEF CapsFit, Free, SameRest
    <3>5. \A l \in Heard(k2) : l.tag # "LOGIN"
      BY <1>1, <2>9 DEF Answers
    <3>6. k2.caps = k.caps /\ k2.server = k.server
      BY <2>4 DEF SameRest, SameTalk
    <3>7. LoginFits(k2.state, k2.server, k2.fresh, k2.caps, k2.cmd, Heard(k2), "none")
      BY <3>5, <3>6 DEF LoginFits
    <3> QED
      BY <3>1, <3>2, <3>3, <3>4, <3>7 DEF Fits
  <2>11. SoundAt(k2, "none", x)
    BY <2>6, <2>8, <2>10 DEF SoundAt
  <2> QED
    BY <2>1, <2>3, <2>11 DEF Good, Sound, Places
<1> QED
  BY <1>2, <1>3

\* What the server has said in the phase of the greeting decides between STARTTLS and LOGIN.
LEMMA StartTlsSound ==
    ASSUME NEW k, NEW x \in Tasks, Free(k, x), k.caps.phase = First, k.server \in {First, "leaving"},
           ~Refuse(k), k.state \in Early \cup {"CONNECTED_PRETLS"}
    PROVE  /\ Good(StartTlsOrLogin(k)) /\ StartTlsOrLogin(k).state \notin Out
           /\ WantsTls(k) => StartTlsOrLogin(k).state # "LOGIN"
<1>1. /\ "STARTTLS" \in Commands /\ "STARTTLS" \in Tasks /\ k \in Connections /\ "STARTTLS_ISSUED" \in StateNames
      /\ First \in {"plain", "secure"}
  BY Ranks, Tables DEF Commands, Tasks, Free, Between
<1>2. CASE WantsTls(k)
  <2> DEFINE w == Wait(k, "STARTTLS")
             k2 == [w EXCEPT !.state = "STARTTLS_ISSUED"]
  <2>1. StartTlsOrLogin(k) = k2
    BY <1>2 DEF StartTlsOrLogin
  <2>2. k.caps.phase = "plain" /\ ~Encrypted
    <3>1. "STARTTLS" \in k.caps.set
      BY <1>2 DEF Refuse
    <3>2. k.caps.phase = "plain"
      BY <3>1 DEF Free, Truthful
    <3> QED
      BY <3>2 DEF First
  <2>3. w \in Connections /\ SameRest(w, k) /\ w.queue = Append(k.queue, "STARTTLS")
    BY <1>1, Waiting
  <2> HIDE DEF w
  <2>4. k2 \in Connections /\ SameRest(k2, w) /\ k2.queue = w.queue /\ k2.state = "STARTTLS_ISSUED"
    BY <1>1, <2>3, Stating
  <2> HIDE DEF k2
  <2>5. SameRest(k2, k)
    BY <2>3, <2>4 DEF SameRest, SameTalk
  <2>6. k.server \in Allowed("STARTTLS") \cap Serves("STARTTLS_ISSUED")
    <3>1. k.server \in {"plain", "leaving"}
      BY <2>2
    <3> QED
      BY <3>1, Tables DEF Between
  <2>7. CapsGoOn(k2)
    <3>1. k2.state \notin Precaps /\ k2.state \notin Used /\ k2.state # "LOGIN"
      BY <2>4 DEF Precaps, Used
    <3> QED
      BY <2>5, <3>1 DEF CapsGoOn, Free, SameRest
  <2>8. Good(k2)
    BY <1>1, <2>2, <2>3, <2>4, <2>5, <2>6, <2>7, AsksAre, Proceeding
  <2> QED
    BY <2>1, <2>4, <2>8 DEF Out
<1>3. CASE ~WantsTls(k)
  <2>1. StartTlsOrLogin(k) = LoginNow(k)
    BY <1>3 DEF StartTlsOrLogin
  <2>2. Good(LoginNow(k)) /\ LoginNow(k).state = "LOGIN"
    BY <1>1, LoginSound
  <2> QED
    BY <1>3, <2>1, <2>2 DEF Out
<1> QED
  BY <1>2, <1>3

----------------------------------------------------------------------------
(* The responses that OpenConnectionTask has waited for.                   *)

\* When such a response is taken, nothing is under way.
LEMMA FreeAfter ==
    ASSUME NEW k, Good(k), k.respQueue # <<>>, Live(k), k.state \notin Between,
           k.state \in Early \/ Answers(Head(k.respQueue))
    PROVE  \E x \in Tasks : /\ Free(Rest(k), x) /\ Free(Learned(Rest(k), Head(k.respQueue)), x)
                            /\ Answers(Head(k.respQueue)) => Head(k.respQueue).tag = Asks(k.state)
<1> DEFINE r == Rest(k)
           h == Head(k.respQueue)
           m == Learned(r, h)
<1>1. PICK p \in Places, x \in Tasks :
         /\ SoundAt(k, p, x) /\ SoundAt(r, After(k, p), x)
         /\ p = After(k, p) \/ (After(k, p) = "none" /\ Answers(h))
         /\ Answers(h) => h.tag = x /\ p = "resp" /\ After(k, p) = "none"
  BY Given
<1>2. /\ r \in Connections /\ r.state = k.state /\ h \in Lines /\ Said(h) /\ Heard(r) \subseteq Heard(k)
  BY RestIs
<1>3. /\ m \in Connections /\ SameTalk(m, r) /\ m.state = r.state /\ m.queue = r.queue
      /\ m.gates = r.gates /\ m.chain = r.chain
      /\ h.caps = NoCaps => m = r
      /\ h.caps # NoCaps => m.caps = h.caps
  BY <1>2, LearnedIs
<1> HIDE DEF r, h, m
<1>4. Fits(k, p, x) /\ Live(r) /\ Live(m)
  BY <1>1, <1>2, <1>3 DEF SoundAt, Live
<1>5. After(k, p) = "none"
  <2>1. k.state \in Early => p = "none"
    BY <1>4 DEF Fits, CommandFits, Mute
  <2> QED
    BY <1>1, <2>1 DEF h
<1>6. Talk(r, "none", x) /\ Secured(r, "none", x) /\ Fits(r, "none", x)
  BY <1>1, <1>4, <1>5 DEF SoundAt
<1>7. Free(r, x)
  BY <1>2, <1>4, <1>6 DEF Free, Fits, CommandFits, CapsFit
<1>8. Talk(m, "none", x) /\ Secured(m, "none", x)
  BY <1>3, <1>6 DEF SameTalk, Talk, Secured
<1>9. Free(m, x)
  <2>1. Truthful(m.caps)
    <3>1. h.caps # NoCaps => Truthful(m.caps)
      BY <1>2, <1>3 DEF Said
    <3>2. h.caps = NoCaps => Truthful(m.caps)
      BY <1>3, <1>7 DEF Free
    <3> QED
      BY <3>1, <3>2
  <2>2. Heard(m) = Heard(r)
    BY <1>3 DEF Heard, SameTalk
  <2> QED
    BY <1>2, <1>3, <1>4, <1>7, <1>8, <2>1, <2>2 DEF Free, SameTalk
<1>10. Answers(h) => h.tag = Asks(k.state)
  BY <1>1, <1>4 DEF Fits, CommandFits
<1> QED
  BY <1>7, <1>9, <1>10 DEF m, r, h

\* A greeting says in which phase the server is, and its capabilities are those of that phase.
LEMMA GreetingGiven ==
    ASSUME NEW k, Good(k), k.respQueue # <<>>, k.state \in Early, Head(k.respQueue).kind \in {"OK", "PREAUTH"}
    PROVE  LET phase == IF Head(k.respQueue).kind = "OK" THEN First ELSE "authenticated"
               m == Learned(Rest(k), Head(k.respQueue))
           IN  /\ m.server \in {phase, "leaving"} /\ m.state = k.state
               /\ m.fresh => m.caps.phase = phase
<1> DEFINE r == Rest(k)
           h == Head(k.respQueue)
           m == Learned(r, h)
           phase == IF h.kind = "OK" THEN First ELSE "authenticated"
<1>1. Live(k)
  BY DEF Early, Live, Out
<1>2. GreetingFits(k.state, k.server, k.fresh, Heard(k))
  BY <1>1 DEF Good, Sound, SoundAt, Fits
<1>3. /\ r \in Connections /\ r.state = k.state /\ r.fresh = k.fresh /\ r.server = k.server
      /\ h \in Lines /\ h \in Heard(k)
  BY RestIs
<1>4. k.server \in {phase, "leaving"} /\ (h.caps # NoCaps => h.caps.phase = phase) /\ ~k.fresh
  BY <1>2, <1>3 DEF GreetingFits
<1>5. /\ SameTalk(m, r) /\ m.state = r.state
      /\ h.caps = NoCaps => m = r
      /\ h.caps # NoCaps => m.caps = h.caps
  BY <1>3, LearnedIs
<1> HIDE DEF m, r, h, phase
<1>6. m.server = k.server /\ m.state = k.state
  BY <1>3, <1>5 DEF SameTalk
<1>7. m.fresh => m.caps.phase = phase
  BY <1>3, <1>4, <1>5
<1> QED
  BY <1>4, <1>6, <1>7 DEF m, r, h, phase

\* The answer to CAPABILITY: what is fresh is of the phase in which it was asked for.
LEMMA CapabilityGiven ==
    ASSUME NEW k, Good(k), k.respQueue # <<>>, k.state \in Precaps
    PROVE  /\ Rest(k).state = k.state /\ Rest(k).server \in Serves(k.state)
           /\ Rest(k).fresh => Rest(k).caps.phase \in Serves(k.state) \ {"leaving"}
<1>1. Live(k)
  BY DEF Precaps, Live, Out
<1>2. CapsFit(k.state, k.fresh, k.caps, Heard(k)) /\ k.server \in Serves(k.state)
  BY <1>1 DEF Good, Sound, SoundAt, Fits
<1>3. /\ Rest(k).state = k.state /\ Rest(k).fresh = k.fresh /\ Rest(k).server = k.server
      /\ Rest(k).caps = k.caps
  BY RestIs
<1>4. k.caps.phase # "leaving"
  <2>1. k.caps \in CapLists
    BY DEF Good, Connections
  <2> QED
    BY <2>1 DEF CapLists, Phases, NoCaps
<1> QED
  BY <1>2, <1>3, <1>4 DEF CapsFit

\* The server may begin TLS.
LEMMA TlsBegun ==
    ASSUME NEW k, Good(k), k.respQueue # <<>>, k.state = "STARTTLS_ISSUED", Answers(Head(k.respQueue))
    PROVE  Good([Rest(k) EXCEPT !.state = "STARTTLS_HANDSHAKE"])
<1> DEFINE r == Rest(k)
           h == Head(k.respQueue)
           m == [r EXCEPT !.state = "STARTTLS_HANDSHAKE"]
<1>1. PICK p \in Places, x \in Tasks :
         /\ SoundAt(r, After(k, p), x)
         /\ Answers(h) => After(k, p) = "none"
  BY Given
<1>2. r \in Connections /\ r.state = "STARTTLS_ISSUED"
  BY RestIs
<1>3. "STARTTLS_HANDSHAKE" \in StateNames
  BY Ranks DEF Between
<1> HIDE DEF r
<1>4. /\ m \in Connections /\ SameRest(m, r) /\ m.queue = r.queue /\ m.state = "STARTTLS_HANDSHAKE"
  BY <1>2, <1>3, Stating
<1> HIDE DEF m
<1>5. /\ {"STARTTLS_HANDSHAKE", "STARTTLS_ISSUED"} \subseteq Between
      /\ "STARTTLS_HANDSHAKE" \notin Out /\ "STARTTLS_ISSUED" \notin Out /\ "STARTTLS_HANDSHAKE" \notin Deciding
      /\ "STARTTLS_HANDSHAKE" \notin Early /\ "STARTTLS_ISSUED" \notin Early
      /\ "STARTTLS_HANDSHAKE" \notin Precaps /\ "STARTTLS_HANDSHAKE" \notin Used
  BY DEF Between, Out, Deciding, Early, Precaps, Used
<1>6. Talk(r, "none", x) /\ Secured(r, "none", x) /\ Fits(r, "none", x)
  BY <1>1, <1>2, <1>5 DEF SoundAt, Live
<1> USE DEF SameRest, SameTalk
<1>7. Talk(m, "none", x)
  BY <1>4, <1>6 DEF Talk
<1>8. Secured(m, "none", x)
  <2>1. HandshakeFits(m.state, m.socket, m.respQueue, "none")
    BY <1>4, <1>5 DEF HandshakeFits
  <2>2. FrozenFits(m.state, m.socket, m.gates, m.chain, m.server, m.respQueue)
    BY <1>2, <1>4, <1>5, <1>6 DEF Secured, FrozenFits
  <2>3. DecidingFits(m.state, m.socket, m.gates, m.respQueue)
    BY <1>4, <1>5 DEF DecidingFits
  <2>4. ChainFits(m.state, m.socket, m.chain, "none", x)
    BY <1>4, <1>5, <1>6 DEF Secured, ChainFits
  <2> QED
    BY <2>1, <2>2, <2>3, <2>4 DEF Secured
<1>9. Fits(m, "none", x)
  <2>1. CommandFits(m.state, m.queue, m.received, "none", x)
    BY <1>2, <1>4, <1>5, <1>6 DEF Fits, CommandFits
  <2>2. m.server \in Serves(m.state)
    BY <1>2, <1>4, <1>5, <1>6, Tables DEF Fits
  <2>3. GreetingFits(m.state, m.server, m.fresh, Heard(m))
    BY <1>4, <1>5 DEF GreetingFits
  <2>4. Heard(m) = Heard(r)
    BY <1>4 DEF Heard
  <2>5. CapsFit(m.state, m.fresh, m.caps, Heard(m))
    BY <1>4, <1>5, <1>6, <2>4 DEF Fits, CapsFit
  <2>6. LoginFits(m.state, m.server, m.fresh, m.caps, m.cmd, Heard(m), "none")
    BY <1>4 DEF LoginFits
  <2> QED
    BY <2>1, <2>2, <2>3, <2>5, <2>6 DEF Fits
<1>10. SoundAt(m, "none", x)
  BY <1>7, <1>8, <1>9 DEF SoundAt
<1> QED
  BY <1>4, <1>10 DEF Good, Sound, Places, m, r

\* The answer to LOGIN: the connection goes on, or it waits for another password.
LEMMA LoginGiven ==
    ASSUME NEW k, Good(k), k.respQueue # <<>>, k.state = "LOGIN", Answers(Head(k.respQueue))
    PROVE  LET m == [Learned(Rest(k), Head(k.respQueue)) EXCEPT !.cmd = ""]
           IN  IF Head(k.respQueue).kind = "OK"
               THEN IF m.fresh THEN Good(CompleteOrCompress(m)) /\ CompleteOrCompress(m).state # "gone"
                    ELSE Good(AskCapability(m, "POSTAUTH_PRECAPS")) /\ AskCapability(m, "POSTAUTH_PRECAPS").state # "gone"
               ELSE Good(m) /\ m.state # "gone"
<1> DEFINE r == Rest(k)
           h == Head(k.respQueue)
           n == Learned(r, h)
           m == [n EXCEPT !.cmd = ""]
<1>1. /\ "LOGIN" \notin Out /\ "LOGIN" \notin Between /\ "LOGIN" \notin Early /\ "LOGIN" \notin Precaps
      /\ "LOGIN" \notin Used /\ "LOGIN" \notin Mute
  BY DEF Out, Between, Early, Precaps, Used, Mute
<1>2. PICK p \in Places, x \in Tasks :
         /\ SoundAt(k, p, x) /\ SoundAt(r, After(k, p), x)
         /\ Answers(h) => h.tag = x /\ p = "resp" /\ After(k, p) = "none"
  BY Given
<1>3. /\ r \in Connections /\ r.state = k.state /\ r.fresh = k.fresh /\ r.server = k.server /\ r.caps = k.caps
      /\ h \in Lines /\ h \in Heard(k) /\ Said(h) /\ Heard(r) \subseteq Heard(k)
  BY RestIs
<1>4. /\ n \in Connections /\ SameTalk(n, r) /\ n.state = r.state /\ n.queue = r.queue
      /\ n.gates = r.gates /\ n.chain = r.chain
      /\ h.caps = NoCaps => n = r
      /\ h.caps # NoCaps => n.caps = h.caps /\ n.fresh
  BY <1>3, LearnedIs
<1>5. Answers(h)
  OBVIOUS
<1> HIDE DEF n, r, h
<1>6. /\ Fits(k, "resp", x) /\ Talk(r, "none", x) /\ Secured(r, "none", x) /\ Fits(r, "none", x)
  BY <1>1, <1>2, <1>3, <1>5 DEF SoundAt, Live
<1>7. h.tag = "LOGIN"
  BY <1>2, <1>5, <1>6, AsksAre DEF Fits, CommandFits
<1>8. /\ k.caps.phase \in {"plain", "secure"} /\ ~k.fresh
      /\ h.kind = "OK" => k.server \in {"authenticated", "leaving"}
      /\ h.kind # "OK" => k.server \in {k.caps.phase, "leaving"}
      /\ h.caps # NoCaps => h.kind = "OK" /\ h.caps.phase = "authenticated"
  BY <1>3, <1>6, <1>7 DEF Fits, LoginFits
<1>9. /\ m \in Connections /\ SameRest(m, n) /\ m.queue = n.queue /\ m.state = n.state
      /\ m.cmd = "" /\ m.fresh = n.fresh
  BY <1>4 DEF Connections, SameRest, SameTalk
<1> HIDE DEF m
<1>10. Talk(m, "none", x) /\ Secured(m, "none", x)
  BY <1>4, <1>6, <1>9 DEF SameRest, SameTalk, Talk, Secured
<1>11. Heard(m) = Heard(r) /\ m.received = r.received /\ m.queue = r.queue /\ m.state = "LOGIN" /\ m.server = k.server
  BY <1>3, <1>4, <1>9 DEF Heard, SameRest, SameTalk
<1>12. Truthful(m.caps)
  BY <1>3, <1>4, <1>6, <1>9 DEF Said, SameRest, Fits, CapsFit
<1>13. Free(m, x)
  BY <1>1, <1>6, <1>9, <1>10, <1>11, <1>12 DEF Free, Live, Fits, CommandFits, CapsFit
<1>14. m.fresh => m.caps.phase = "authenticated"
  BY <1>3, <1>4, <1>8, <1>9 DEF SameRest
<1>15. CASE h.kind = "OK"
  <2>1. m.server \in {"authenticated", "leaving"}
    BY <1>8, <1>11, <1>15
  <2>2. CASE m.fresh
    <3>1. Good(CompleteOrCompress(m)) /\ CompleteOrCompress(m).state \notin Out
      BY <1>13, <1>14, <2>1, <2>2, CompletingSound
    <3> QED
      BY <1>15, <2>2, <3>1 DEF Out, m, n, r, h
  <2>3. CASE ~m.fresh
    <3>1. "POSTAUTH_PRECAPS" \in Precaps /\ m.server \in Serves("POSTAUTH_PRECAPS")
      BY <2>1, Tables DEF Precaps
    <3>2. Good(AskCapability(m, "POSTAUTH_PRECAPS"))
          /\ AskCapability(m, "POSTAUTH_PRECAPS").state = "POSTAUTH_PRECAPS"
      BY <1>13, <2>3, <3>1, AskingSound
    <3> QED
      BY <1>15, <2>3, <3>2 DEF m, n, r, h
  <2> QED
    BY <2>2, <2>3
<1>16. CASE h.kind # "OK"
  <2>1. m.caps = k.caps /\ m.server \in {k.caps.phase, "leaving"} /\ m.server # "authenticated"
    BY <1>3, <1>4, <1>8, <1>9, <1>11, <1>16 DEF SameRest
  <2>2. \A l \in Heard(m) : l.tag # "LOGIN"
    <3>1. \A l \in Heard(m) : ~Answers(l)
      BY <1>10 DEF Heard, Talk, UnreadFits, RespFits
    <3> QED
      BY <3>1 DEF Answers, Tasks, Commands
  <2>3. Fits(m, "none", x)
    <3>1. CommandFits(m.state, m.queue, m.received, "none", x)
      BY <1>3, <1>6, <1>11 DEF Fits, CommandFits
    <3>2. m.server \in Serves(m.state)
      BY <1>8, <1>11, <2>1, Tables DEF Phases
    <3>3. GreetingFits(m.state, m.server, m.fresh, Heard(m))
      BY <1>1, <1>11 DEF GreetingFits
    <3>4. CapsFit(m.state, m.fresh, m.caps, Heard(m))
      BY <1>1, <1>6, <1>11, <1>12 DEF Fits, CapsFit
    <3>5. LoginFits(m.state, m.server, m.fresh, m.caps, m.cmd, Heard(m), "none")
      BY <1>8, <2>1, <2>2 DEF LoginFits
    <3> QED
      BY <3>1, <3>2, <3>3, <3>4, <3>5 DEF Fits
  <2>4. SoundAt(m, "none", x)
    BY <1>10, <2>3 DEF SoundAt
  <2>5. Good(m) /\ m.state # "gone"
    BY <1>9, <1>11, <2>4 DEF Good, Sound, Places
  <2> QED
    BY <1>16, <2>5 DEF m, n, r, h
<1> QED
  BY <1>15, <1>16

----------------------------------------------------------------------------
(* Every response is handled soundly.                                      *)

\* What a handler leaves: the connection is good, or it is gone, or all are logged out.
Handles(c) == \E k :
    /\ k.state = "gone" => k = Gone
    /\ (Good(k) /\ Becomes(c, k)) \/ (Leavable(k) /\ BecomesOffline(c, k))

\* The three ends of a handler.
LEMMA Handling ==
    ASSUME NEW c \in Conn
    PROVE  /\ \A k : Good(k) /\ k.state # "gone" /\ Becomes(c, k) => Handles(c)
           /\ \A k : Leavable(k) /\ k.state # "gone" /\ BecomesOffline(c, k) => Handles(c)
           /\ Kill(c) \/ KillAndLeave(c) => Handles(c)
<1>1. Good(Gone) /\ Leavable(Gone)
  BY GoneGood, GoodIsLeavable
<1> QED
  BY <1>1 DEF Handles, Kill, KillAndLeave

\* What every handler is given.
LEMMA HandlerGiven ==
    ASSUME Before, NEW c \in Conn, Plugged(c)
    PROVE  LET k == conn[c]
           IN  /\ Good(k) /\ k \in Connections /\ k.respQueue # <<>> /\ k.state # "gone" /\ k.state \in StateNames
               /\ Taken(c) = Rest(k) /\ Resp(c) = Head(k.respQueue)
               /\ Rest(k).state = k.state /\ Good(Rest(k)) /\ Leavable(Rest(k))
               /\ Resp(c) \in Lines
               /\ k.state \in Deciding => Resp(c).kind = "disconnected"
<1> DEFINE k == conn[c]
<1>1. Good(k) /\ k \in Connections /\ k.respQueue # <<>> /\ k.state # "gone" /\ k.state \in StateNames
  BY GoodOne DEF Plugged
<1>2. Taken(c) = Rest(k) /\ Resp(c) = Head(k.respQueue)
  BY DEF Taken, Rest, Resp
<1>3. Rest(k).state = k.state /\ Good(Rest(k)) /\ Head(k.respQueue) \in Items(k.respQueue)
      /\ Head(k.respQueue) \in Lines
  BY <1>1, RestIs
<1>4. k.state \in Deciding => \A l \in Items(k.respQueue) : l.kind = "disconnected"
  BY <1>1 DEF Good, Sound, SoundAt, Secured, DecidingFits
<1> QED
  BY <1>1, <1>2, <1>3, <1>4, GoodIsLeavable

\* Capabilities.
LEMMA CapabilityHandled ==
    ASSUME Before, NEW c \in Conn, Capability(c)
    PROVE  Handles(c)
<1> DEFINE k == conn[c]
           h == Resp(c)
           m == Learned(Rest(k), Head(k.respQueue))
<1>1. /\ Good(k) /\ k.respQueue # <<>> /\ k.state # "gone" /\ Taken(c) = Rest(k) /\ h = Head(k.respQueue)
      /\ h.kind = "CAPABILITY" /\ Head(k.respQueue).kind = "CAPABILITY"
  BY HandlerGiven DEF Capability
<1>2. BecomesOffline(c, LeftForeign(m)) \/ Becomes(c, m)
  BY <1>1 DEF Capability
<1>3. Good(m)
  BY <1>1, CapabilitySound
<1>4. Good(LeftForeign(m)) /\ LeftForeign(m).state = "LOGOUT" /\ m.state = k.state
  BY <1>1, ForeignSound
<1> HIDE DEF m, h
<1>5. Leavable(LeftForeign(m))
  BY <1>4, GoodIsLeavable
<1> QED
  BY <1>1, <1>2, <1>3, <1>4, <1>5, Handling

\* The end of the connection.
LEMMA DisconnectedHandled ==
    ASSUME NEW c \in Conn, Disconnected(c)
    PROVE  Kill(c) \/ KillAndLeave(c)
BY DEF Disconnected

\* The end of the handshake: the user is asked, or the remembered decision applies.
LEMMA EncryptedHandled ==
    ASSUME Before, NEW c \in Conn, SocketEncrypted(c)
    PROVE  /\ Handles(c) /\ conn[c].state \notin Deciding
           /\ \/ SameUser
              \/ /\ Ask("ssl") /\ UNCHANGED <<hasPassword, sslPolicy>>
                 /\ \E k : Good(k) /\ k.state \in Deciding /\ Becomes(c, k)
<1> DEFINE k == conn[c]
           n == [Taken(c) EXCEPT !.state = Verifying(@), !.chain = TRUE]
           v == VerifyingOf(k)
           waiting == k.active /\ k.state \in {"SSL_HANDSHAKE", "STARTTLS_HANDSHAKE"}
<1>1. /\ Good(k) /\ k.respQueue # <<>> /\ Taken(c) = Rest(k)
      /\ Head(k.respQueue).kind = "encrypted" /\ k.state \notin Deciding
  BY HandlerGiven DEF SocketEncrypted
<1>2. n = v
  BY <1>1 DEF VerifyingOf
<1>3. /\ waiting => \/ Becomes(c, Accepted(n)) /\ SameUser
                    \/ BecomesOffline(c, Rejected(n)) /\ SameUser
                    \/ Becomes(c, n) /\ Ask("ssl") /\ UNCHANGED <<hasPassword, sslPolicy>>
      /\ ~waiting => Kill(c) /\ SameUser
  BY DEF SocketEncrypted
<1> HIDE DEF n
<1>4. waiting => Good(v) /\ v.state \in Deciding
  BY <1>1, VerifyingSound
<1> HIDE DEF v, waiting
<1>5. CASE waiting /\ Becomes(c, Accepted(v)) /\ SameUser
  <2>1. Good(Accepted(v)) /\ Accepted(v).state # "gone"
    <3>1. v.state # "gone"
      BY <1>4, <1>5 DEF Deciding
    <3> QED
      BY <1>4, <1>5, <3>1, AcceptedSound
  <2> QED
    BY <1>1, <1>5, <2>1, Handling
<1>6. CASE waiting /\ BecomesOffline(c, Rejected(v)) /\ SameUser
  <2> DEFINE j == [LoggedOut(v) EXCEPT !.gates = @ \ {"policy"}]
  <2>1. v.chain
    <3>1. /\ Rest(k) \in Connections
      BY <1>1, RestIs
    <3> QED
      BY <3>1 DEF v, VerifyingOf, Connections
  <2>2. Good(j) /\ j.state = LoggedOut(v).state
    BY <1>4, <1>6, <2>1, RejectedSound
  <2>3. LoggedOut(v).state \in Out /\ (v.state # "gone" => LoggedOut(v).state = "LOGOUT")
    BY <1>4, <1>6, GoodIsLeavable, LoggedOutGood
  <2>4. v.state # "gone"
    BY <1>4, <1>6 DEF Deciding
  <2>5. BecomesOffline(c, j)
    BY <1>6 DEF Rejected
  <2> HIDE DEF j
  <2>6. Leavable(j)
    BY <2>2, GoodIsLeavable
  <2> QED
    BY <1>1, <1>6, <2>2, <2>3, <2>4, <2>5, <2>6, Handling
<1>7. CASE waiting /\ Becomes(c, v) /\ Ask("ssl") /\ UNCHANGED <<hasPassword, sslPolicy>>
  <2>1. v.state # "gone"
    BY <1>4, <1>7 DEF Deciding
  <2> QED
    BY <1>1, <1>4, <1>7, <2>1, Handling
<1>8. CASE ~waiting
  BY <1>1, <1>3, <1>8, Handling
<1> QED
  BY <1>2, <1>3, <1>5, <1>6, <1>7, <1>8

\* What the Model handles itself.
LEMMA ModelHandled ==
    ASSUME Before, NEW c \in Conn, Plugged(c), ModelHandlesState(c)
    PROVE  Handles(c) /\ SameUser
<1>1. Kill(c) \/ KillAndLeave(c) \/ Becomes(c, Taken(c))
  BY DEF ModelHandlesState
<1>2. Good(Taken(c)) /\ Taken(c).state # "gone"
  BY HandlerGiven
<1>3. SameUser
  BY DEF ModelHandlesState
<1> QED
  BY <1>1, <1>2, <1>3, Handling

\* The greeting.
LEMMA GreetingHandled ==
    ASSUME Before, NEW c \in Conn, Plugged(c), Greeting(c),
           conn[c].state \in {"NONE", "CONNECTING", "CONNECTED_PRETLS_PRECAPS"}
    PROVE  Handles(c)
<1> DEFINE k == conn[c]
           h == Head(k.respQueue)
           m == Learned(Rest(k), h)
           out == [m EXCEPT !.state = "LOGOUT"]
<1>1. /\ Good(k) /\ k.respQueue # <<>> /\ Taken(c) = Rest(k) /\ Resp(c) = h
  BY HandlerGiven
<1>2. k.state \in Early /\ k.state \notin Out /\ k.state \notin Between
  BY DEF Early, Out, Between
<1>3. PICK x \in Tasks : Free(m, x)
  BY <1>1, <1>2, FreeAfter DEF Live
<1>4. /\ m.state = k.state /\ Leavable(m) /\ Leavable(out) /\ out.state = "LOGOUT"
  BY <1>1, ForeignSound
<1>5. /\ Leavable(Fail(m)) /\ Fail(m).state # "gone" /\ Leavable(Fail(out)) /\ Fail(out).state # "gone"
  BY <1>2, <1>4, FailGood DEF Out
<1>6. \/ h.kind = "PREAUTH" /\ m.fresh /\ Becomes(c, CompleteOrCompress(m))
      \/ h.kind = "PREAUTH" /\ ~m.fresh /\ Becomes(c, AskCapability(m, "POSTAUTH_PRECAPS"))
      \/ h.kind = "OK" /\ m.fresh /\ ~Refuse(m) /\ Becomes(c, StartTlsOrLogin(m))
      \/ h.kind = "OK" /\ ~m.fresh /\ Becomes(c, AskCapability(m, "CONNECTED_PRETLS"))
      \/ BecomesOffline(c, Fail(m)) \/ BecomesOffline(c, Fail(out))
  BY <1>1 DEF Greeting
<1>7. h.kind = "OK" => m.server \in {First, "leaving"} /\ (m.fresh => m.caps.phase = First)
  BY <1>1, <1>2, GreetingGiven
<1>8. h.kind = "PREAUTH" => m.server \in {"authenticated", "leaving"} /\ (m.fresh => m.caps.phase = "authenticated")
  BY <1>1, <1>2, GreetingGiven
<1> HIDE DEF m, h, out
<1>9. CASE h.kind = "PREAUTH" /\ m.fresh /\ Becomes(c, CompleteOrCompress(m))
  <2>1. Good(CompleteOrCompress(m)) /\ CompleteOrCompress(m).state \notin Out
    BY <1>3, <1>8, <1>9, CompletingSound
  <2> QED
    BY <1>9, <2>1, Handling DEF Out
<1>10. CASE h.kind = "PREAUTH" /\ ~m.fresh /\ Becomes(c, AskCapability(m, "POSTAUTH_PRECAPS"))
  <2>1. "POSTAUTH_PRECAPS" \in Precaps /\ m.server \in Serves("POSTAUTH_PRECAPS")
    BY <1>8, <1>10, Tables DEF Precaps
  <2>2. /\ Good(AskCapability(m, "POSTAUTH_PRECAPS"))
        /\ AskCapability(m, "POSTAUTH_PRECAPS").state = "POSTAUTH_PRECAPS"
    BY <1>3, <1>10, <2>1, AskingSound
  <2> QED
    BY <1>10, <2>2, Handling
<1>11. CASE h.kind = "OK" /\ m.fresh /\ ~Refuse(m) /\ Becomes(c, StartTlsOrLogin(m))
  <2>1. Good(StartTlsOrLogin(m)) /\ StartTlsOrLogin(m).state \notin Out
    BY <1>2, <1>3, <1>4, <1>7, <1>11, StartTlsSound
  <2> QED
    BY <1>11, <2>1, Handling DEF Out
<1>12. CASE h.kind = "OK" /\ ~m.fresh /\ Becomes(c, AskCapability(m, "CONNECTED_PRETLS"))
  <2>1. "CONNECTED_PRETLS" \in Precaps /\ m.server \in Serves("CONNECTED_PRETLS")
    BY <1>7, <1>12, Tables DEF Precaps
  <2>2. /\ Good(AskCapability(m, "CONNECTED_PRETLS"))
        /\ AskCapability(m, "CONNECTED_PRETLS").state = "CONNECTED_PRETLS"
    BY <1>2, <1>3, <1>4, <1>12, <2>1, AskingSound
  <2> QED
    BY <1>12, <2>2, Handling
<1>13. CASE BecomesOffline(c, Fail(m)) \/ BecomesOffline(c, Fail(out))
  BY <1>5, <1>13, Handling
<1> QED
  BY <1>6, <1>9, <1>10, <1>11, <1>12, <1>13

\* A tagged response to a connection that is set up or used answers its command.
LEMMA AnswersTask ==
    ASSUME NEW k, Good(k), k.respQueue # <<>>, Live(k), Head(k.respQueue).tag # Untagged
    PROVE  Answers(Head(k.respQueue))
<1>1. Head(k.respQueue) \in Heard(k) /\ Head(k.respQueue) \in Lines
  BY RestIs
<1>2. Head(k.respQueue).tag # "LOGOUT"
  BY <1>1 DEF Good, Sound, SoundAt, Fits, CapsFit
<1> QED
  BY <1>1, <1>2 DEF Answers, Tasks, Lines

\* The answer to CAPABILITY.
LEMMA CapabilityResultHandled ==
    ASSUME Before, NEW c \in Conn, Plugged(c), CapabilityResult(c), Resp(c).tag # Untagged,
           conn[c].state \in {"CONNECTED_PRETLS", "ESTABLISHED_PRECAPS", "POSTAUTH_PRECAPS"}
    PROVE  Handles(c)
<1> DEFINE k == conn[c]
           h == Head(k.respQueue)
           r == Rest(k)
<1>1. /\ Good(k) /\ k.respQueue # <<>> /\ Taken(c) = r /\ Resp(c) = h /\ Leavable(r) /\ r.state = k.state
  BY HandlerGiven
<1>2. k.state \in Precaps /\ k.state \notin Out /\ k.state \notin Between
  BY DEF Precaps, Out, Between
<1>3. Answers(h)
  BY <1>1, <1>2, AnswersTask DEF Live
<1>4. PICK x \in Tasks : Free(r, x)
  BY <1>1, <1>2, <1>3, FreeAfter DEF Live
<1>5. /\ r.server \in Serves(k.state)
      /\ r.fresh => r.caps.phase \in Serves(k.state) \ {"leaving"}
  BY <1>1, <1>2, CapabilityGiven
<1>6. \/ BecomesOffline(c, Fail(r))
      \/ r.fresh /\ r.state = "CONNECTED_PRETLS" /\ ~Refuse(r) /\ Becomes(c, StartTlsOrLogin(r))
      \/ r.fresh /\ r.state = "ESTABLISHED_PRECAPS" /\ Becomes(c, LoginNow(r))
      \/ r.fresh /\ r.state = "POSTAUTH_PRECAPS" /\ Becomes(c, Complete(r))
  BY <1>1 DEF CapabilityResult
<1> HIDE DEF r, h
<1>7. Leavable(Fail(r)) /\ Fail(r).state # "gone"
  BY <1>1, <1>2, FailGood DEF Out
<1>8. CASE r.fresh /\ r.state = "CONNECTED_PRETLS" /\ ~Refuse(r) /\ Becomes(c, StartTlsOrLogin(r))
  <2>1. r.caps.phase = First /\ r.server \in {First, "leaving"}
    BY <1>1, <1>5, <1>8, Tables
  <2>2. Good(StartTlsOrLogin(r)) /\ StartTlsOrLogin(r).state \notin Out
    BY <1>4, <1>8, <2>1, StartTlsSound
  <2> QED
    BY <1>8, <2>2, Handling DEF Out
<1>9. CASE r.fresh /\ r.state = "ESTABLISHED_PRECAPS" /\ Becomes(c, LoginNow(r))
  <2>1. r.caps.phase = "secure" /\ r.server \in {"secure", "leaving"}
    BY <1>1, <1>5, <1>9, Tables
  <2>2. Good(LoginNow(r)) /\ LoginNow(r).state = "LOGIN"
    BY <1>4, <2>1, LoginSound
  <2> QED
    BY <1>9, <2>2, Handling
<1>10. CASE r.fresh /\ r.state = "POSTAUTH_PRECAPS" /\ Becomes(c, Complete(r))
  <2>1. r.caps.phase = "authenticated" /\ r.server \in {"authenticated", "leaving"}
    BY <1>1, <1>5, <1>10, Tables
  <2>2. Good(Complete(r)) /\ Complete(r).state \notin Out
    BY <1>4, <2>1, CompletingSound
  <2> QED
    BY <1>10, <2>2, Handling DEF Out
<1> QED
  BY <1>6, <1>7, <1>8, <1>9, <1>10, Handling

\* The answer to LOGIN.
LEMMA LoginResultHandled ==
    ASSUME Before, NEW c \in Conn, Plugged(c), LoginResult(c), Resp(c).tag # Untagged,
           conn[c].state = "LOGIN"
    PROVE  Handles(c)
<1> DEFINE k == conn[c]
           h == Head(k.respQueue)
           m == [Learned(Rest(k), h) EXCEPT !.cmd = ""]
<1>1. Good(k) /\ k.respQueue # <<>> /\ Taken(c) = Rest(k) /\ Resp(c) = h
  BY HandlerGiven
<1>2. Answers(h)
  BY <1>1, AnswersTask DEF Live, Out
<1>3. IF h.kind = "OK"
      THEN IF m.fresh THEN Good(CompleteOrCompress(m)) /\ CompleteOrCompress(m).state # "gone"
           ELSE Good(AskCapability(m, "POSTAUTH_PRECAPS")) /\ AskCapability(m, "POSTAUTH_PRECAPS").state # "gone"
      ELSE Good(m) /\ m.state # "gone"
  BY <1>1, <1>2, LoginGiven
<1>4. \/ h.kind = "OK" /\ m.fresh /\ Becomes(c, CompleteOrCompress(m))
      \/ h.kind = "OK" /\ ~m.fresh /\ Becomes(c, AskCapability(m, "POSTAUTH_PRECAPS"))
      \/ h.kind # "OK" /\ Becomes(c, m)
  BY <1>1 DEF LoginResult
<1> HIDE DEF m, h
<1> QED
  BY <1>3, <1>4, Handling

\* The answer to STARTTLS.
LEMMA StartTlsHandled ==
    ASSUME Before, NEW c \in Conn, Plugged(c), Resp(c).tag # Untagged, conn[c].state = "STARTTLS_ISSUED",
           \/ Becomes(c, [Taken(c) EXCEPT !.state = "STARTTLS_HANDSHAKE"])
           \/ BecomesOffline(c, Fail(Taken(c)))
    PROVE  Handles(c)
<1> DEFINE k == conn[c]
           r == Rest(k)
           m == [r EXCEPT !.state = "STARTTLS_HANDSHAKE"]
<1>1. /\ Good(k) /\ k.respQueue # <<>> /\ Taken(c) = r /\ Resp(c) = Head(k.respQueue)
      /\ Leavable(r) /\ r.state = k.state /\ r \in Connections
  BY HandlerGiven DEF Leavable
<1>2. Answers(Head(k.respQueue))
  BY <1>1, AnswersTask DEF Live, Out
<1>3. Good(m)
  BY <1>1, <1>2, TlsBegun
<1>4. m.state = "STARTTLS_HANDSHAKE"
  BY <1>1 DEF Connections
<1>5. Leavable(Fail(r)) /\ Fail(r).state = k.state
  BY <1>1, FailGood
<1>6. Becomes(c, m) \/ BecomesOffline(c, Fail(r))
  BY <1>1
<1> HIDE DEF m, r
<1> QED
  BY <1>3, <1>4, <1>5, <1>6, Handling

\* The answer to COMPRESS.
LEMMA CompressHandled ==
    ASSUME Before, NEW c \in Conn, Plugged(c), Resp(c).tag # Untagged, conn[c].state = "COMPRESS_DEFLATE",
           Becomes(c, Complete(Taken(c)))
    PROVE  Handles(c)
<1> DEFINE k == conn[c]
           r == Rest(k)
<1>1. /\ Good(k) /\ k.respQueue # <<>> /\ Taken(c) = r /\ Resp(c) = Head(k.respQueue)
      /\ r.state = k.state /\ Good(r)
  BY HandlerGiven
<1>2. Live(k) /\ Live(r) /\ k.state \notin Between /\ k.state \in Used
  BY <1>1 DEF Live, Out, Between, Used
<1>3. Answers(Head(k.respQueue))
  BY <1>1, <1>2, AnswersTask
<1>4. PICK x \in Tasks : Free(r, x)
  BY <1>1, <1>2, <1>3, FreeAfter
<1> HIDE DEF r
<1>5. r.caps.phase = "authenticated" /\ r.server \in {"authenticated", "leaving"}
  BY <1>1, <1>2, Tables DEF Good, Sound, SoundAt, Fits, CapsFit
<1>6. Good(Complete(r)) /\ Complete(r).state \notin Out
  BY <1>4, <1>5, CompletingSound
<1> QED
  BY <1>1, <1>6, Handling DEF Out

\* The user may be asked for a password.
Wonders ==
    \/ SameUser
    \/ Ask("password") /\ hasPassword' \in {hasPassword, FALSE} /\ UNCHANGED sslPolicy

\* OpenConnectionTask::handleState.
LEMMA TaskHandled ==
    ASSUME Before, NEW c \in Conn, Plugged(c), TaskHandlesState(c)
    PROVE  Handles(c) /\ Wonders
<1> DEFINE k == Taken(c)
           line == Resp(c)
<1>1. \/ Becomes(c, Fail(k)) /\ SameUser
      \/ ModelHandlesState(c)
      \/ k.state \in {"NONE", "CONNECTING", "CONNECTED_PRETLS_PRECAPS"} /\ Greeting(c) /\ AsksPassword(c)
      \/ /\ line.tag # Untagged /\ k.state \in {"CONNECTED_PRETLS", "ESTABLISHED_PRECAPS", "POSTAUTH_PRECAPS"}
         /\ CapabilityResult(c) /\ AsksPassword(c)
      \/ /\ line.tag # Untagged /\ k.state = "STARTTLS_ISSUED" /\ SameUser
         /\ Becomes(c, [k EXCEPT !.state = "STARTTLS_HANDSHAKE"]) \/ BecomesOffline(c, Fail(k))
      \/ line.tag # Untagged /\ k.state = "LOGIN" /\ LoginResult(c)
      \/ line.tag # Untagged /\ k.state = "COMPRESS_DEFLATE" /\ Becomes(c, Complete(k)) /\ SameUser
      \/ KillAndLeave(c) /\ SameUser
  BY DEF TaskHandlesState
<1>2. Good(k) /\ k.state = conn[c].state /\ k.state # "gone"
  BY HandlerGiven
<1> HIDE DEF k, line
<1>3. AsksPassword(c) => Wonders
  BY DEF AsksPassword, Wonders
<1>4. CASE Becomes(c, Fail(k)) /\ SameUser
  <2>1. Good(Fail(k)) /\ Fail(k).state # "gone"
    BY <1>2, FailGood
  <2> QED
    BY <1>4, <2>1, Handling DEF Wonders
<1>5. CASE ModelHandlesState(c)
  BY <1>5, ModelHandled DEF Wonders
<1>6. CASE /\ k.state \in {"NONE", "CONNECTING", "CONNECTED_PRETLS_PRECAPS"}
           /\ Greeting(c) /\ AsksPassword(c)
  BY <1>2, <1>3, <1>6, GreetingHandled
<1>7. CASE /\ line.tag # Untagged /\ k.state \in {"CONNECTED_PRETLS", "ESTABLISHED_PRECAPS", "POSTAUTH_PRECAPS"}
           /\ CapabilityResult(c) /\ AsksPassword(c)
  BY <1>2, <1>3, <1>7, CapabilityResultHandled DEF line
<1>8. CASE /\ line.tag # Untagged /\ k.state = "STARTTLS_ISSUED" /\ SameUser
           /\ Becomes(c, [k EXCEPT !.state = "STARTTLS_HANDSHAKE"]) \/ BecomesOffline(c, Fail(k))
  <2>1. Handles(c)
    BY <1>2, <1>8, StartTlsHandled DEF line, k
  <2> QED
    BY <1>8, <2>1 DEF Wonders
<1>9. CASE line.tag # Untagged /\ k.state = "LOGIN" /\ LoginResult(c)
  <2>1. Handles(c)
    BY <1>2, <1>9, LoginResultHandled DEF line
  <2>2. Wonders
    BY <1>9 DEF LoginResult, Wonders
  <2> QED
    BY <2>1, <2>2
<1>10. CASE line.tag # Untagged /\ k.state = "COMPRESS_DEFLATE" /\ Becomes(c, Complete(k)) /\ SameUser
  <2>1. Handles(c)
    BY <1>2, <1>10, CompressHandled DEF line, k
  <2> QED
    BY <1>10, <2>1 DEF Wonders
<1>11. CASE KillAndLeave(c) /\ SameUser
  BY <1>11, Handling DEF Wonders
<1> QED
  BY <1>1, <1>4, <1>5, <1>6, <1>7, <1>8, <1>9, <1>10, <1>11

\* Model::handleState, with the response code before it.
LEMMA StateHandled ==
    ASSUME Before, NEW c \in Conn, HandleState(c)
    PROVE  Handles(c) /\ Wonders /\ conn[c].state \notin Deciding
<1> DEFINE k == conn[c]
           m == Learned(Rest(k), Head(k.respQueue))
<1>1. /\ Good(k) /\ k.respQueue # <<>> /\ Taken(c) = Rest(k) /\ Resp(c) = Head(k.respQueue)
      /\ k.state \in Deciding => Resp(c).kind = "disconnected"
      /\ Plugged(c)
  BY HandlerGiven DEF HandleState
<1>2. k.state \notin Deciding
  BY <1>1 DEF HandleState, IsState
<1>3. Good(LeftForeign(m)) /\ LeftForeign(m).state = "LOGOUT"
  BY <1>1, ForeignSound
<1>4. \/ ModelHandlesState(c)
      \/ SameUser /\ BecomesOffline(c, LeftForeign(m))
      \/ SameUser /\ KillAndLeave(c)
      \/ TaskHandlesState(c)
  BY <1>1 DEF HandleState
<1> HIDE DEF m
<1>5. CASE ModelHandlesState(c)
  BY <1>1, <1>2, <1>5, ModelHandled DEF Wonders
<1>6. CASE SameUser /\ BecomesOffline(c, LeftForeign(m))
  <2>1. Leavable(LeftForeign(m))
    BY <1>3, GoodIsLeavable
  <2> QED
    BY <1>2, <1>3, <1>6, <2>1, Handling DEF Wonders
<1>7. CASE SameUser /\ KillAndLeave(c)
  BY <1>2, <1>7, Handling DEF Wonders
<1>8. CASE TaskHandlesState(c)
  BY <1>1, <1>2, <1>8, TaskHandled
<1> QED
  BY <1>4, <1>5, <1>6, <1>7, <1>8

\* The dialogs: a connection that waits for the decision on its certificates is only lost, and
\* one whose certificates are not known begins to wait for it.
Dialogs(c) ==
    \/ Wonders /\ (conn[c].state \in Deciding => Kill(c) \/ KillAndLeave(c))
    \/ /\ Ask("ssl") /\ UNCHANGED <<hasPassword, sslPolicy>> /\ conn[c].state \notin Deciding
       /\ \E k : Good(k) /\ k.state \in Deciding /\ Becomes(c, k)

\* Every response.
LEMMA ModelSteps ==
    ASSUME Before, NEW c \in Conn, Model(c)
    PROVE  Handles(c) /\ Dialogs(c) /\ Handled /\ conn[c].state # "gone"
<1>1. Plugged(c)
  BY DEF Model, Capability, Disconnected, SocketEncrypted, HandleState
<1>2. conn[c].state # "gone" /\ (conn[c].state \in Deciding => Resp(c).kind = "disconnected")
  BY <1>1, HandlerGiven DEF Plugged
<1>3. CASE Capability(c)
  <2>1. Handles(c)
    BY <1>3, CapabilityHandled
  <2>2. conn[c].state \notin Deciding /\ SameUser /\ Handled
    BY <1>2, <1>3 DEF Capability
  <2> QED
    BY <1>2, <2>1, <2>2 DEF Dialogs, Wonders
<1>4. CASE Disconnected(c)
  <2>1. Kill(c) \/ KillAndLeave(c)
    BY <1>4, DisconnectedHandled
  <2>2. SameUser /\ Handled
    BY <1>4 DEF Disconnected
  <2> QED
    BY <1>2, <2>1, <2>2, Handling DEF Dialogs, Wonders
<1>5. CASE SocketEncrypted(c)
  <2>1. Handled
    BY <1>5 DEF SocketEncrypted
  <2> QED
    BY <1>2, <1>5, <2>1, EncryptedHandled DEF Dialogs, Wonders
<1>6. CASE HandleState(c)
  <2>1. Handled
    BY <1>6 DEF HandleState
  <2> QED
    BY <1>2, <1>6, <2>1, StateHandled DEF Dialogs
<1> QED
  BY <1>3, <1>4, <1>5, <1>6 DEF Model

----------------------------------------------------------------------------
(* From one connection to all of them.                                     *)

\* What every step but Open keeps.
Steady ==
    /\ conn' \in [Conn -> Connections]
    /\ \A c \in Conn : /\ Good(conn'[c])
                       /\ conn'[c].state = "gone" => conn'[c] = Gone
                       /\ conn[c].state = "gone" => conn'[c].state = "gone"

\* A step of one connection leaves the others as they are.
LEMMA ReplacedSteady ==
    ASSUME Before, NEW c \in Conn, Replaced(c)
    PROVE  /\ Steady /\ conn[c].state # "gone"
           /\ \A d \in Conn : conn[d].state \in Deciding \cup {"gone"} => conn'[d].state = conn[d].state
<1>1. PICK k : /\ Good(k) /\ Update(c, k) /\ conn[c].state # "gone" /\ k.state # "gone"
               /\ conn[c].state \in Deciding => k.state = conn[c].state
  BY DEF Replaced
<1>2. k \in Connections /\ conn \in [Conn -> Connections]
  BY <1>1 DEF Good, Before, TypeOK
<1>3. conn' = [conn EXCEPT ![c] = k]
  BY <1>1 DEF Update
<1>4. conn' \in [Conn -> Connections]
  BY <1>2, <1>3
<1>5. conn'[c] = k /\ \A d \in Conn : d # c => conn'[d] = conn[d]
  BY <1>2, <1>3
<1>6. \A d \in Conn : Good(conn[d]) /\ (conn[d].state = "gone" => conn[d] = Gone)
  BY GoodOne
<1> QED
  BY <1>1, <1>4, <1>5, <1>6 DEF Steady

\* Handlers, and removeDeletedTasks after them.
LEMMA BecomesIs ==
    ASSUME conn \in [Conn -> Connections], NEW c \in Conn, NEW k
    PROVE  /\ Becomes(c, k) => conn' = [d \in Conn |-> Sweep(IF d = c THEN k ELSE conn[d])]
           /\ BecomesOffline(c, k) => conn' = [d \in Conn |-> Sweep(LoggedOut(IF d = c THEN k ELSE conn[d]))]
<1>1. ASSUME Becomes(c, k) PROVE conn' = [d \in Conn |-> Sweep(IF d = c THEN k ELSE conn[d])]
  <2> DEFINE after == [conn EXCEPT ![c] = k]
  <2>1. \A d \in Conn : after[d] = IF d = c THEN k ELSE conn[d]
    OBVIOUS
  <2>2. conn' = [d \in Conn |-> Sweep(after[d])]
    BY <1>1 DEF Becomes, Swept, Sweep
  <2> HIDE DEF after
  <2> QED
    BY <2>1, <2>2
<1>2. ASSUME BecomesOffline(c, k)
      PROVE  conn' = [d \in Conn |-> Sweep(LoggedOut(IF d = c THEN k ELSE conn[d]))]
  <2> DEFINE after == [d \in Conn |-> LoggedOut(IF d = c THEN k ELSE conn[d])]
  <2>1. \A d \in Conn : after[d] = LoggedOut(IF d = c THEN k ELSE conn[d])
    OBVIOUS
  <2>2. conn' = [d \in Conn |-> Sweep(after[d])]
    BY <1>2 DEF BecomesOffline, Swept, Sweep
  <2> HIDE DEF after
  <2> QED
    BY <2>1, <2>2
<1> QED
  BY <1>1, <1>2

\* A handler leaves all connections good, also when it logs them out.
LEMMA HandledSteady ==
    ASSUME Before, NEW c \in Conn, Handles(c), conn[c].state # "gone"
    PROVE  Steady /\ policy' \in {policy, "offline"}
<1>1. PICK k : /\ k.state = "gone" => k = Gone
               /\ (Good(k) /\ Becomes(c, k)) \/ (Leavable(k) /\ BecomesOffline(c, k))
  BY DEF Handles
<1>2. conn \in [Conn -> Connections]
  BY DEF Before, TypeOK
<1>3. \A d \in Conn : Good(conn[d]) /\ Leavable(conn[d]) /\ (conn[d].state = "gone" => conn[d] = Gone)
  BY GoodOne, GoodIsLeavable
<1>4. CASE Good(k) /\ Becomes(c, k)
  <2> DEFINE after(d) == IF d = c THEN k ELSE conn[d]
  <2>1. conn' = [d \in Conn |-> Sweep(after(d))]
    BY <1>2, <1>4, BecomesIs
  <2>2. ASSUME NEW d \in Conn
        PROVE  /\ Good(after(d)) /\ (after(d).state = "gone" => after(d) = Gone)
               /\ (conn[d].state = "gone" => after(d).state = "gone")
    BY <1>1, <1>3, <1>4
  <2> HIDE DEF after
  <2>3. ASSUME NEW d \in Conn
        PROVE  /\ Good(Sweep(after(d))) /\ (Sweep(after(d)).state = "gone" => Sweep(after(d)) = Gone)
               /\ (conn[d].state = "gone" => Sweep(after(d)).state = "gone")
    BY <2>2, SweepGood
  <2> QED
    BY <1>4, <2>1, <2>3 DEF Steady, Good, Becomes
<1>5. CASE Leavable(k) /\ BecomesOffline(c, k)
  <2> DEFINE after(d) == IF d = c THEN k ELSE conn[d]
             left(d) == LoggedOut(after(d))
  <2>1. conn' = [d \in Conn |-> Sweep(left(d))]
    BY <1>2, <1>5, BecomesIs
  <2>2. ASSUME NEW d \in Conn
        PROVE  /\ Leavable(after(d)) /\ (after(d).state = "gone" => after(d) = Gone)
               /\ (conn[d].state = "gone" => after(d).state = "gone")
    BY <1>1, <1>3, <1>5
  <2> HIDE DEF after
  <2>3. ASSUME NEW d \in Conn
        PROVE  /\ Good(left(d)) /\ (left(d).state = "gone" => left(d) = Gone)
               /\ (conn[d].state = "gone" => left(d).state = "gone")
    BY <2>2, LoggedOutGood
  <2> HIDE DEF left
  <2>4. ASSUME NEW d \in Conn
        PROVE  /\ Good(Sweep(left(d))) /\ (Sweep(left(d)).state = "gone" => Sweep(left(d)) = Gone)
               /\ (conn[d].state = "gone" => Sweep(left(d)).state = "gone")
    BY <2>3, SweepGood
  <2> QED
    BY <1>5, <2>1, <2>4 DEF Steady, Good, BecomesOffline
<1> QED
  BY <1>1, <1>4, <1>5

\* Dialogs about the certificates of the only connection.
LEMMA DialogsHandled ==
    ASSUME Before, NEW c \in Conn, Dialogs(c), asked["ssl"] \in 0..1,
           \A d \in Conn : d # c => conn[d].state = "gone",
           asked["ssl"] = 1 => conn[c].state \in Deciding
    PROVE  /\ asked'["ssl"] \in 0..1
           /\ asked'["ssl"] = 1 => \A d \in Conn : conn'[d].state \in Deciding \cup {"gone"}
<1>1. conn \in [Conn -> Connections] /\ asked \in [{"password", "ssl"} -> Nat]
  BY DEF Before, TypeOK
<1>2. \A d \in Conn : d # c => conn[d] = Gone
  BY GoodOne
<1>3. /\ Good(Gone) /\ Leavable(Gone) /\ Gone.state = "gone" /\ Sweep(Gone) = Gone /\ LoggedOut(Gone) = Gone
  BY GoneGood, GoodIsLeavable, SweepGood, LoggedOutGood
<1>4. CASE Wonders /\ (conn[c].state \in Deciding => Kill(c) \/ KillAndLeave(c))
  <2>1. asked'["ssl"] = asked["ssl"]
    BY <1>1, <1>4 DEF Wonders, SameUser, user, Ask
  <2>2. ASSUME asked["ssl"] = 1, NEW d \in Conn PROVE conn'[d].state = "gone"
    <3>1. Kill(c) \/ KillAndLeave(c)
      BY <1>4, <2>2
    <3>2. Becomes(c, Gone) \/ BecomesOffline(c, Gone)
      BY <3>1 DEF Kill, KillAndLeave
    <3>3. conn'[d] = Sweep(Gone) \/ conn'[d] = Sweep(LoggedOut(Gone))
      <4>1. (IF d = c THEN Gone ELSE conn[d]) = Gone
        BY <1>2
      <4>2. CASE Becomes(c, Gone)
        <5>1. conn' = [e \in Conn |-> Sweep(IF e = c THEN Gone ELSE conn[e])]
          BY <1>1, <4>2, BecomesIs
        <5> QED
          BY <4>1, <5>1
      <4>3. CASE BecomesOffline(c, Gone)
        <5>1. conn' = [e \in Conn |-> Sweep(LoggedOut(IF e = c THEN Gone ELSE conn[e]))]
          BY <1>1, <4>3, BecomesIs
        <5> QED
          BY <4>1, <5>1
      <4> QED
        BY <3>2, <4>2, <4>3
    <3> QED
      BY <1>3, <3>3
  <2> QED
    BY <2>1, <2>2
<1>5. CASE /\ Ask("ssl") /\ conn[c].state \notin Deciding
           /\ \E k : Good(k) /\ k.state \in Deciding /\ Becomes(c, k)
  <2>1. asked["ssl"] = 0 /\ asked'["ssl"] = 1
    BY <1>1, <1>5 DEF Ask
  <2>2. PICK k : Good(k) /\ k.state \in Deciding /\ Becomes(c, k)
    BY <1>5
  <2>3. conn' = [d \in Conn |-> Sweep(IF d = c THEN k ELSE conn[d])]
    BY <1>1, <2>2, BecomesIs
  <2>4. ASSUME NEW d \in Conn PROVE conn'[d].state \in Deciding \cup {"gone"}
    <3>1. CASE d = c
      BY <2>2, <2>3, <3>1, SweepGood
    <3>2. CASE d # c
      BY <1>2, <1>3, <2>3, <3>2
    <3> QED
      BY <3>1, <3>2
  <2> QED
    BY <2>1, <2>4
<1> QED
  BY <1>4, <1>5 DEF Dialogs

----------------------------------------------------------------------------
(* The user and the network. *)

\* Nothing happens to the connections.
LEMMA UnchangedSteady ==
    ASSUME Before, UNCHANGED conn
    PROVE  Steady
<1>1. \A c \in Conn : Good(conn[c]) /\ (conn[c].state = "gone" => conn[c] = Gone)
  BY GoodOne
<1>2. conn \in [Conn -> Connections]
  BY DEF Before, TypeOK
<1> QED
  BY <1>1, <1>2 DEF Steady

\* setNetworkPolicy(NETWORK_OFFLINE).
LEMMA LoggedOutSteady ==
    ASSUME Before, conn' = [c \in Conn |-> LoggedOut(conn[c])]
    PROVE  Steady
<1>1. ASSUME NEW c \in Conn
      PROVE  /\ Good(LoggedOut(conn[c])) /\ (LoggedOut(conn[c]).state = "gone" => LoggedOut(conn[c]) = Gone)
             /\ (conn[c].state = "gone" => LoggedOut(conn[c]).state = "gone")
  <2>1. Good(conn[c]) /\ Leavable(conn[c]) /\ (conn[c].state = "gone" => conn[c] = Gone)
    BY GoodOne, GoodIsLeavable
  <2> QED
    BY <2>1, LoggedOutGood
<1> QED
  BY <1>1 DEF Steady, Good

\* A connection that waits for a password logs in with it.
LEMMA PasswordSound ==
    ASSUME NEW k, Good(k), WaitsForPassword(k)
    PROVE  Good([Wait(k, "LOGIN") EXCEPT !.fresh = FALSE]) /\ [Wait(k, "LOGIN") EXCEPT !.fresh = FALSE].state = "LOGIN"
<1> DEFINE w == Wait(k, "LOGIN")
           k2 == [w EXCEPT !.fresh = FALSE]
<1>1. k \in Connections /\ k.state = "LOGIN" /\ k.cmd = ""
  BY DEF Good, WaitsForPassword
<1>2. PICK p \in Places, x \in Tasks : SoundAt(k, p, x)
  BY DEF Good, Sound
<1>3. Live(k) /\ "LOGIN" \notin Between /\ "LOGIN" \notin Precaps /\ "LOGIN" \notin Used
  BY <1>1 DEF Live, Out, Between, Precaps, Used
<1>4. Fits(k, p, x)
  BY <1>2, <1>3 DEF SoundAt
<1>5. p = "none" /\ k.caps.phase \in {"plain", "secure"} /\ k.server \in {k.caps.phase, "leaving"}
  BY <1>1, <1>4 DEF Fits, LoginFits
<1>6. Free(k, x)
  BY <1>1, <1>2, <1>3, <1>4, <1>5 DEF Free, SoundAt, Fits, CommandFits, CapsFit
<1>7. "LOGIN" \in Commands /\ "LOGIN" \in Tasks
  BY DEF Commands, Tasks
<1>8. w \in Connections /\ SameRest(w, k) /\ w.queue = Append(k.queue, "LOGIN") /\ w.cmd = "LOGIN" /\ w.state = k.state
  BY <1>1, <1>7, Waiting
<1> HIDE DEF w
<1>9. k2 \in Connections /\ SameRest(k2, w) /\ k2.queue = w.queue /\ k2.cmd = w.cmd /\ ~k2.fresh /\ k2.state = w.state
  BY <1>8 DEF Connections, SameRest, SameTalk
<1> HIDE DEF k2
<1>10. SameRest(k2, k) /\ k2.queue = Append(k.queue, "LOGIN") /\ k2.state = "LOGIN"
  BY <1>1, <1>8, <1>9 DEF SameRest, SameTalk
<1>11. k.server \in Allowed("LOGIN") \cap Serves("LOGIN")
  BY <1>5, Tables DEF Phases
<1>12. CapsGoOn(k2)
  <2>1. k2.caps = k.caps /\ k2.server = k.server
    BY <1>10 DEF SameRest, SameTalk
  <2> QED
    BY <1>3, <1>5, <1>6, <1>8, <1>9, <1>10, <2>1 DEF CapsGoOn, Free
<1>13. Good(k2)
  BY <1>6, <1>7, <1>9, <1>10, <1>11, <1>12, AsksAre, Proceeding
<1> QED
  BY <1>10, <1>13 DEF k2, w

\* A task that knows certificates belongs to a connection.
LEMMA InformedIsUp ==
    ASSUME Before, NEW c \in Informed
    PROVE  c \in Conn /\ conn[c].chain /\ conn[c].state # "gone" /\ Good(conn[c])
<1>1. c \in Conn /\ conn[c].active /\ conn[c].chain
  BY DEF Informed
<1>2. Good(conn[c]) /\ (conn[c].state = "gone" => conn[c] = Gone)
  BY <1>1, GoodOne
<1>3. ~Gone.active
  BY Zenon DEF Gone
<1> QED
  BY <1>1, <1>2, <1>3

\* The user's answers.
LEMMA UserSteady ==
    ASSUME Before, User
    PROVE  Steady /\ policy' \in {policy, "offline"}
<1>1. \A c \in Conn : Good(conn[c]) /\ (conn[c].state = "gone" => conn[c] = Gone)
  BY GoodOne
<1>2. CASE AcceptSsl
  <2>1. /\ conn' = [c \in Conn |-> IF c \in Informed THEN Accepted(conn[c]) ELSE conn[c]]
        /\ policy' = policy
    BY <1>2 DEF AcceptSsl
  <2>2. ASSUME NEW c \in Informed
        PROVE  Good(Accepted(conn[c])) /\ Accepted(conn[c]).state # "gone" /\ conn[c].state # "gone"
    BY InformedIsUp, AcceptedSound
  <2>3. ASSUME NEW c \in Conn
        PROVE  /\ Good(conn'[c]) /\ (conn'[c].state = "gone" => conn'[c] = Gone)
               /\ (conn[c].state = "gone" => conn'[c].state = "gone")
    <3>1. CASE c \in Informed
      BY <2>1, <2>2, <3>1
    <3>2. CASE c \notin Informed
      BY <1>1, <2>1, <3>2
    <3> QED
      BY <3>1, <3>2
  <2>4. DOMAIN conn' = Conn /\ conn' = [c \in Conn |-> conn'[c]]
    BY <2>1
  <2>5. \A c \in Conn : conn'[c] \in Connections
    BY <2>3 DEF Good
  <2>6. conn' \in [Conn -> Connections]
    BY <2>4, <2>5
  <2> QED
    BY <2>1, <2>3, <2>6 DEF Steady
<1>3. CASE RejectSsl
  <2> DEFINE after(c) == IF Surprised = Informed THEN conn[c] ELSE LoggedOut(conn[c])
  <2>1. /\ conn' = [c \in Conn |-> IF c \in Informed THEN Unfrozen(after(c)) ELSE after(c)]
        /\ policy' \in {policy, "offline"}
    BY <1>3 DEF RejectSsl
  <2>2. ASSUME NEW c \in Conn
        PROVE  /\ Good(after(c)) /\ (after(c).state = "gone" => after(c) = Gone)
               /\ (conn[c].state = "gone" => after(c).state = "gone")
               /\ (conn[c].state # "gone" => after(c).state # "gone")
    <3>1. Leavable(conn[c])
      BY <1>1, GoodIsLeavable
    <3>2. CASE Surprised = Informed
      BY <1>1, <3>2
    <3>3. CASE Surprised # Informed
      BY <1>1, <3>1, <3>3, LoggedOutGood
    <3> QED
      BY <3>2, <3>3
  <2>3. ASSUME NEW c \in Informed
        PROVE  Good(Unfrozen(after(c))) /\ Unfrozen(after(c)).state # "gone" /\ conn[c].state # "gone"
    <3>1. Good(conn[c]) /\ conn[c].chain /\ conn[c].state # "gone" /\ c \in Conn /\ after(c).state # "gone"
      BY <2>2, InformedIsUp
    <3>2. CASE Surprised = Informed
      <4>1. conn[c].state \notin Deciding /\ after(c) = conn[c]
        BY <3>2 DEF Surprised
      <4> QED
        BY <3>1, <4>1, UnfrozenSound
    <3>3. CASE Surprised # Informed
      <4>1. after(c) = LoggedOut(conn[c])
        BY <3>3
      <4> HIDE DEF after
      <4> QED
        BY <3>1, <4>1, RejectedSound DEF Unfrozen
    <3> QED
      BY <3>2, <3>3
  <2> HIDE DEF after
  <2>4. ASSUME NEW c \in Conn
        PROVE  /\ Good(conn'[c]) /\ (conn'[c].state = "gone" => conn'[c] = Gone)
               /\ (conn[c].state = "gone" => conn'[c].state = "gone")
    <3>1. CASE c \in Informed
      BY <2>1, <2>3, <3>1
    <3>2. CASE c \notin Informed
      BY <2>1, <2>2, <3>2
    <3> QED
      BY <3>1, <3>2
  <2>5. DOMAIN conn' = Conn /\ conn' = [c \in Conn |-> conn'[c]]
    BY <2>1
  <2>6. \A c \in Conn : conn'[c] \in Connections
    BY <2>4 DEF Good
  <2>7. conn' \in [Conn -> Connections]
    BY <2>5, <2>6
  <2> QED
    BY <2>1, <2>4, <2>7 DEF Steady
<1>4. CASE SetImapPassword
  <2> DEFINE entered(k) == [Wait(k, "LOGIN") EXCEPT !.fresh = FALSE]
  <2>1. /\ conn' = [c \in Conn |-> IF WaitsForPassword(conn[c]) THEN entered(conn[c]) ELSE conn[c]]
        /\ policy' = policy
    BY <1>4 DEF SetImapPassword
  <2>2. ASSUME NEW c \in Conn, WaitsForPassword(conn[c])
        PROVE  Good(entered(conn[c])) /\ entered(conn[c]).state = "LOGIN" /\ conn[c].state = "LOGIN"
    <3>1. conn[c].state = "LOGIN"
      BY <2>2 DEF WaitsForPassword
    <3> QED
      BY <1>1, <2>2, <3>1, PasswordSound
  <2> HIDE DEF entered
  <2>3. ASSUME NEW c \in Conn
        PROVE  /\ Good(conn'[c]) /\ (conn'[c].state = "gone" => conn'[c] = Gone)
               /\ (conn[c].state = "gone" => conn'[c].state = "gone")
    BY <1>1, <2>1, <2>2
  <2>4. DOMAIN conn' = Conn /\ conn' = [c \in Conn |-> conn'[c]]
    BY <2>1
  <2>5. \A c \in Conn : conn'[c] \in Connections
    BY <2>3 DEF Good
  <2>6. conn' \in [Conn -> Connections]
    BY <2>4, <2>5
  <2> QED
    BY <2>1, <2>3, <2>6 DEF Steady
<1>5. CASE UnsetImapPassword
  <2>1. \/ conn' = [c \in Conn |-> LoggedOut(conn[c])] /\ policy' = "offline"
        \/ UNCHANGED <<conn, policy>>
    BY <1>5 DEF UnsetImapPassword
  <2> QED
    BY <2>1, LoggedOutSteady, UnchangedSteady
<1> QED
  BY <1>2, <1>3, <1>4, <1>5 DEF User

\* The NetworkWatcher.
LEMMA WatcherSteady ==
    ASSUME Before, Watcher
    PROVE  Steady
<1>1. ASSUME NEW q, SetNetworkPolicy(q) PROVE Steady
  <2>1. conn' = [c \in Conn |-> LoggedOut(conn[c])] \/ UNCHANGED conn
    BY <1>1 DEF SetNetworkPolicy
  <2> QED
    BY <2>1, LoggedOutSteady, UnchangedSteady
<1>2. ASSUME NEW q, NEW isOnline, SetDesired(q, isOnline) PROVE Steady
  <2>1. (\E n : SetNetworkPolicy(n)) \/ UNCHANGED conn
    BY <1>2 DEF SetDesired
  <2> QED
    BY <1>1, <2>1, UnchangedSteady
<1> QED
  BY <1>1, <1>2 DEF Watcher, UserChooses, SystemOnline, SystemOffline, SessionOpened, ConfigurationChanged

----------------------------------------------------------------------------
(* Every step preserves the invariant. *)

\* The types of everything but the connections; the counters only grow.
Rests ==
    /\ policy' \in {"online", "offline"} /\ hasPassword' \in BOOLEAN
    /\ asked' \in [{"password", "ssl"} -> Nat] /\ sslPolicy' \in {"unknown", "accept", "reject"}
    /\ desired' \in {"online", "offline"} /\ online' \in BOOLEAN
    /\ session' \in {"closed", "opening", "open"}
    /\ refusals' \in 0..MaxRefusals /\ losses' \in losses..MaxLosses
    /\ failures' \subseteq StateNames \cup {"gone"}

\* What is sound does not depend on anything that changes besides the connection.
LEMMA SoundStays ==
    ASSUME UNCHANGED method, \A c \in Conn : Good(conn'[c])
    PROVE  AllSound'
<1>1. Encrypted' = Encrypted
  BY DEF Encrypted
<1>2. First' = First
  BY <1>1 DEF First
<1> SUFFICES ASSUME NEW c \in Conn PROVE Sound(conn[c])'
  BY DEF AllSound
<1>3. PICK p \in Places, x \in Tasks : SoundAt(conn'[c], p, x)
  BY DEF Good, Sound
<1>4. Talk(conn[c], p, x)'
  <2>1. Talk(conn'[c], p, x)
    BY <1>3 DEF SoundAt
  <2> QED
    BY <1>1, <2>1 DEF Talk, ServerFits, QueueFits, SentFits, UnreadFits, RespFits, GatesFit, Encrypted
<1>5. Secured(conn[c], p, x)'
  <2>1. Secured(conn'[c], p, x)
    BY <1>3 DEF SoundAt
  <2> QED
    BY <1>1, <2>1 DEF Secured, HandshakeFits, FrozenFits, DecidingFits, ChainFits, Encrypted
<1>6. Live(conn[c])' => Fits(conn[c], p, x)'
  <2> SUFFICES ASSUME Live(conn'[c]) PROVE Fits(conn[c], p, x)'
    BY DEF Live
  <2>1. Fits(conn'[c], p, x)
    BY <1>3 DEF SoundAt
  <2> QED
    BY <1>1, <1>2, <2>1 DEF Fits, CommandFits, GreetingFits, CapsFit, LoginFits, Serves, Heard, First, Encrypted
<1> QED
  BY <1>3, <1>4, <1>5, <1>6 DEF Sound, SoundAt

\* Good connections and typed variables make a sound state.
LEMMA Gathering ==
    ASSUME Before, UNCHANGED method, Steady, Rests, UNCHANGED opened, opened = 0 => asked'["ssl"] = 0
    PROVE  TypeOK' /\ AllSound' /\ OnlyOne'
<1>1. TypeOK'
  BY DEF Before, TypeOK, Steady, Rests
<1>2. AllSound'
  BY SoundStays DEF Steady
<1>3. OnlyOne'
  <2>1. \A c \in Conn : conn'[c].state # "gone" => conn[c].state # "gone"
    BY DEF Steady
  <2>2. \A c \in Conn : conn'[c].state = "gone" => conn'[c] = Gone
    BY DEF Steady
  <2> QED
    BY <2>1, <2>2 DEF Before, OnlyOne, Gone, NoCaps
<1> QED
  BY <1>1, <1>2, <1>3

Preserved == TypeOK' /\ AllSound' /\ OnlyOne' /\ OnlineHasSession' /\ DialogFits'

Unnoticed(c) ==
    Socket(c) \/ Disconnect(c) \/ Parser(c) \/ Answer(c) \/ ServerRefuses(c) \/ ServerLeaves(c)

\* The socket, the Parser and the server leave the rest of the Model alone.
LEMMA UnnoticedFrame ==
    ASSUME TypeOK, NEW c \in Conn, Unnoticed(c)
    PROVE  /\ UNCHANGED <<policy, user, network, opened, failures>>
           /\ refusals' \in 0..MaxRefusals /\ losses' \in losses..MaxLosses
<1>1. refusals \in 0..MaxRefusals /\ losses \in 0..MaxLosses /\ MaxRefusals \in Nat /\ MaxLosses \in Nat
  BY BoundsAssumption DEF TypeOK
<1>2. UNCHANGED counters => UNCHANGED <<opened, refusals, losses>>
  BY DEF counters
<1>3. Local => UNCHANGED <<policy, user, network, opened, refusals, losses, failures>>
  BY <1>2 DEF Local
<1>4. CASE Socket(c) \/ Parser(c)
  <2>1. Local
    BY <1>4 DEF Socket, Start, Connected, Announce, HandleSocketEncrypted, Parser, Read, FinishStartTls, Execute
  <2> QED
    BY <1>1, <1>3, <2>1
<1>5. CASE Disconnect(c)
  BY <1>1, <1>5 DEF Disconnect
<1>6. CASE Greet(c)
  <2>1. /\ refusals' = refusals \/ (refusals < MaxRefusals /\ refusals' = refusals + 1)
        /\ UNCHANGED <<policy, user, network, opened, losses, failures>>
    BY <1>6 DEF Greet
  <2> QED
    BY <1>1, <2>1
<1>7. CASE ServerRefuses(c) \/ ServerLeaves(c)
  <2>1. /\ UNCHANGED <<policy, user, network, opened, failures>>
        /\ \/ UNCHANGED losses /\ refusals < MaxRefusals /\ refusals' = refusals + 1
           \/ UNCHANGED refusals /\ losses < MaxLosses /\ losses' = losses + 1
    BY <1>7 DEF ServerRefuses, ServerLeaves
  <2> QED
    BY <1>1, <2>1
<1>8. CASE AnswerCapability(c) \/ AnswerStartTls(c) \/ AnswerLogin(c) \/ AnswerOther(c) \/ AnswerLogout(c)
  <2>1. UNCHANGED <<policy, user, network, counters, failures>>
    BY <1>8 DEF AnswerCapability, AnswerStartTls, AnswerLogin, AnswerOther, AnswerLogout, Served
  <2> QED
    BY <1>1, <1>2, <2>1
<1> QED
  BY <1>4, <1>5, <1>6, <1>7, <1>8 DEF Unnoticed, Answer

\* The socket, the Parser and the server.
LEMMA UnnoticedPreserves ==
    ASSUME IInv, UNCHANGED method, NEW c \in Conn, Unnoticed(c)
    PROVE  Preserved
<1>1. Before /\ TypeOK /\ OnlyOne /\ OnlineHasSession /\ DialogFits
  BY DEF IInv, Before
<1>2. Replaced(c)
  BY <1>1, SocketReplaces, ParserReplaces, AnswersReplace, GreetReplaces DEF Unnoticed
<1>3. /\ Steady /\ conn[c].state # "gone"
      /\ \A d \in Conn : conn[d].state \in Deciding \cup {"gone"} => conn'[d].state = conn[d].state
  BY <1>1, <1>2, ReplacedSteady
<1>4. /\ UNCHANGED <<policy, user, network, opened, failures>>
      /\ refusals' \in 0..MaxRefusals /\ losses' \in losses..MaxLosses
  BY <1>1, UnnoticedFrame
<1>5. UNCHANGED <<policy, hasPassword, asked, sslPolicy, desired, online, session, opened, failures>>
  BY <1>4 DEF user, network
<1>6. Rests
  BY <1>1, <1>4, <1>5 DEF Rests, TypeOK
<1>7. opened = 0 => asked'["ssl"] = 0
  BY <1>1, <1>5 DEF OnlyOne
<1>8. TypeOK' /\ AllSound' /\ OnlyOne'
  BY <1>1, <1>3, <1>5, <1>6, <1>7, Gathering
<1>9. OnlineHasSession'
  BY <1>1, <1>5 DEF OnlineHasSession
<1>10. DialogFits'
  <2>1. losses' = 0 => losses = 0
    BY <1>1, <1>4 DEF TypeOK
  <2> QED
    BY <1>1, <1>3, <1>5, <2>1 DEF DialogFits
<1> QED
  BY <1>8, <1>9, <1>10 DEF Preserved

\* A connection is opened.
LEMMA OpenPreserves ==
    ASSUME IInv, UNCHANGED method, NEW c \in Conn, Open(c)
    PROVE  Preserved
<1>1. Before /\ TypeOK /\ OnlyOne /\ OnlineHasSession /\ DialogFits
  BY DEF IInv, Before
<1>2. /\ opened < MaxOpened /\ opened' = opened + 1 /\ conn[c].state = "gone" /\ conn' = [conn EXCEPT ![c] = New]
      /\ UNCHANGED <<policy, user, network, refusals, losses, failures>>
  BY DEF Open
<1>3. UNCHANGED <<policy, hasPassword, asked, sslPolicy, desired, online, session, refusals, losses, failures>>
  BY <1>2 DEF user, network
<1>4. method \in {"plain", "starttls", "ssl"} /\ method \in Methods
  BY <1>1, MethodsAssumption DEF TypeOK
<1>5. Good(New) /\ New.state = "NONE" /\ New \in Connections
  BY <1>4, NewGood DEF Good
<1>6. /\ conn' \in [Conn -> Connections] /\ conn'[c] = New
      /\ \A d \in Conn : d # c => conn'[d] = conn[d]
  BY <1>1, <1>2, <1>5 DEF TypeOK
<1>7. \A d \in Conn : Good(conn'[d]) /\ (conn'[d].state = "gone" => conn'[d] = Gone)
  BY <1>1, <1>5, <1>6, GoodOne
<1>8. opened' \in 1..MaxOpened
  BY <1>1, <1>2, BoundsAssumption DEF TypeOK
<1>9. TypeOK'
  BY <1>1, <1>3, <1>6, <1>8 DEF TypeOK
<1>10. AllSound'
  BY <1>7, SoundStays
<1>11. OnlyOne'
  <2>1. opened' # 0 /\ (opened' = 1 => opened = 0)
    BY <1>1, <1>2, <1>8 DEF TypeOK
  <2>2. ASSUME opened' = 1, NEW d \in Conn, NEW e \in Conn, conn'[d].state # "gone", conn'[e].state # "gone" PROVE d = e
    <3>1. \A f \in Conn : conn[f].state = "gone"
      BY <1>1, <2>1, <2>2 DEF OnlyOne
    <3> QED
      BY <1>6, <2>2, <3>1
  <2> QED
    BY <1>7, <2>1, <2>2 DEF OnlyOne, Gone, NoCaps
<1>12. OnlineHasSession'
  BY <1>1, <1>3 DEF OnlineHasSession
<1>13. DialogFits'
  <2>1. opened' < 2 => opened = 0
    BY <1>1, <1>2 DEF TypeOK
  <2>2. opened = 0 => asked["ssl"] = 0
    BY <1>1 DEF OnlyOne
  <2> QED
    BY <1>1, <1>3, <2>1, <2>2 DEF DialogFits
<1> QED
  BY <1>9, <1>10, <1>11, <1>12, <1>13 DEF Preserved

\* A response is handled.
LEMMA ModelPreserves ==
    ASSUME IInv, UNCHANGED method, NEW c \in Conn, Model(c)
    PROVE  Preserved
<1>1. Before /\ TypeOK /\ OnlyOne /\ OnlineHasSession /\ DialogFits
  BY DEF IInv, Before
<1>2. Handles(c) /\ Dialogs(c) /\ Handled /\ conn[c].state # "gone"
  BY <1>1, ModelSteps
<1>3. Steady /\ policy' \in {policy, "offline"}
  BY <1>1, <1>2, HandledSteady
<1>4. UNCHANGED <<desired, online, session, opened, refusals, losses, failures>>
  BY <1>2 DEF Handled, network, counters
<1>5. Wonders \/ (Ask("ssl") /\ UNCHANGED <<hasPassword, sslPolicy>>)
  BY <1>2 DEF Dialogs
<1>6. /\ hasPassword' \in BOOLEAN /\ sslPolicy' \in {"unknown", "accept", "reject"}
      /\ asked' \in [{"password", "ssl"} -> Nat]
  <2>1. /\ hasPassword \in BOOLEAN /\ sslPolicy \in {"unknown", "accept", "reject"}
        /\ asked \in [{"password", "ssl"} -> Nat]
    BY <1>1 DEF TypeOK
  <2>2. asked' = asked \/ Ask("password") \/ Ask("ssl")
    BY <1>5 DEF Wonders, SameUser, user
  <2>3. asked' \in [{"password", "ssl"} -> Nat]
    BY <2>1, <2>2 DEF Ask
  <2>4. hasPassword' \in {hasPassword, FALSE} /\ sslPolicy' = sslPolicy
    BY <1>5 DEF Wonders, SameUser, user
  <2>5. hasPassword' \in BOOLEAN
    BY <2>1, <2>4, Zenon
  <2> QED
    BY <2>1, <2>3, <2>4, <2>5
<1>7. losses' \in losses..MaxLosses /\ refusals' \in 0..MaxRefusals
  BY <1>1, <1>4, BoundsAssumption DEF TypeOK
<1>8. Rests
  <2>1. policy' \in {"online", "offline"}
    BY <1>1, <1>3 DEF TypeOK
  <2> QED
    BY <1>1, <1>4, <1>6, <1>7, <2>1 DEF Rests, TypeOK
<1>9. opened # 0 /\ (opened = 1 => \A d \in Conn : d # c => conn[d].state = "gone")
  BY <1>1, <1>2 DEF OnlyOne
<1>10. TypeOK' /\ AllSound' /\ OnlyOne'
  BY <1>1, <1>3, <1>4, <1>8, <1>9, Gathering
<1>11. OnlineHasSession'
  BY <1>1, <1>3, <1>4 DEF OnlineHasSession
<1>12. DialogFits'
  <2> SUFFICES ASSUME losses = 0, opened < 2
               PROVE  /\ failures = {} /\ asked'["ssl"] \in 0..1
                      /\ asked'["ssl"] = 1 => \A d \in Conn : conn'[d].state \in Deciding \cup {"gone"}
    BY <1>4 DEF DialogFits
  <2>1. opened = 1
    BY <1>1, <1>9 DEF TypeOK
  <2>2. /\ failures = {} /\ asked["ssl"] \in 0..1 /\ (asked["ssl"] = 1 => conn[c].state \in Deciding)
    BY <1>1, <1>2 DEF DialogFits
  <2> QED
    BY <1>1, <1>2, <1>9, <2>1, <2>2, DialogsHandled
<1> QED
  BY <1>10, <1>11, <1>12 DEF Preserved

\* What the user's answers leave alone, and what becomes of the dialog about the certificates.
LEMMA UserFrame ==
    ASSUME TypeOK, User
    PROVE  /\ UNCHANGED <<desired, online, session, opened, refusals, losses>>
           /\ hasPassword' \in BOOLEAN /\ sslPolicy' \in {"unknown", "accept", "reject"}
           /\ asked' \in [{"password", "ssl"} -> Nat]
           /\ \/ /\ AcceptSsl \/ RejectSsl
                 /\ asked["ssl"] > 0 /\ asked'["ssl"] = asked["ssl"] - 1
                 /\ failures' = failures \cup {conn[c].state : c \in Surprised}
              \/ /\ SetImapPassword \/ UnsetImapPassword
                 /\ asked'["ssl"] = asked["ssl"] /\ failures' = failures
<1>1. /\ hasPassword \in BOOLEAN /\ sslPolicy \in {"unknown", "accept", "reject"}
      /\ asked \in [{"password", "ssl"} -> Nat]
  BY DEF TypeOK
<1>2. ASSUME NEW decision \in {"accept", "reject"}, SetSslPolicy(decision), AcceptSsl \/ RejectSsl
      PROVE  /\ UNCHANGED <<desired, online, session, opened, refusals, losses, hasPassword>>
             /\ sslPolicy' \in {"unknown", "accept", "reject"} /\ asked' \in [{"password", "ssl"} -> Nat]
             /\ asked["ssl"] > 0 /\ asked'["ssl"] = asked["ssl"] - 1
             /\ failures' = failures \cup {conn[c].state : c \in Surprised}
  <2>1. UNCHANGED <<desired, online, session, opened, refusals, losses, hasPassword>>
    BY <1>2 DEF SetSslPolicy, network, counters
  <2>2. asked["ssl"] > 0 /\ asked' = [asked EXCEPT !["ssl"] = @ - 1]
    BY <1>2 DEF SetSslPolicy, Answered
  <2>3. asked' \in [{"password", "ssl"} -> Nat] /\ asked'["ssl"] = asked["ssl"] - 1
    BY <1>1, <2>2
  <2> QED
    BY <1>2, <2>1, <2>2, <2>3 DEF SetSslPolicy
<1>3. ASSUME Answered("password")
      PROVE  asked' \in [{"password", "ssl"} -> Nat] /\ asked'["ssl"] = asked["ssl"]
  BY <1>1, <1>3 DEF Answered
<1>4. CASE AcceptSsl
  <2>1. SetSslPolicy("accept")
    BY <1>4 DEF AcceptSsl
  <2> QED
    BY <1>1, <1>2, <1>4, <2>1
<1>5. CASE RejectSsl
  <2>1. SetSslPolicy("reject")
    BY <1>5 DEF RejectSsl
  <2> QED
    BY <1>1, <1>2, <1>5, <2>1
<1>6. CASE SetImapPassword
  <2>1. /\ Answered("password") /\ hasPassword' = TRUE
        /\ UNCHANGED <<sslPolicy, desired, online, session, opened, refusals, losses, failures>>
    BY <1>6 DEF SetImapPassword, network, counters
  <2> QED
    BY <1>1, <1>3, <1>6, <2>1
<1>7. CASE UnsetImapPassword
  <2>1. /\ Answered("password") /\ hasPassword' = FALSE
        /\ UNCHANGED <<sslPolicy, desired, online, session, opened, refusals, losses, failures>>
    BY <1>7 DEF UnsetImapPassword, network, counters
  <2> QED
    BY <1>1, <1>3, <1>7, <2>1
<1> QED
  BY <1>4, <1>5, <1>6, <1>7 DEF User

\* The user answers a dialog.
LEMMA UserPreserves ==
    ASSUME IInv, UNCHANGED method, User
    PROVE  Preserved
<1>1. Before /\ TypeOK /\ OnlyOne /\ OnlineHasSession /\ DialogFits
  BY DEF IInv, Before
<1>2. Steady /\ policy' \in {policy, "offline"}
  BY <1>1, UserSteady
<1>3. /\ UNCHANGED <<desired, online, session, opened, refusals, losses>>
      /\ hasPassword' \in BOOLEAN /\ sslPolicy' \in {"unknown", "accept", "reject"}
      /\ asked' \in [{"password", "ssl"} -> Nat]
  BY <1>1, UserFrame
<1>4. \/ /\ AcceptSsl \/ RejectSsl
         /\ asked["ssl"] > 0 /\ asked'["ssl"] = asked["ssl"] - 1
         /\ failures' = failures \cup {conn[c].state : c \in Surprised}
      \/ /\ SetImapPassword \/ UnsetImapPassword
         /\ asked'["ssl"] = asked["ssl"] /\ failures' = failures
  BY <1>1, UserFrame
<1>5. \A c \in Conn : conn[c].state \in StateNames \cup {"gone"}
  BY <1>1, GoodOne
<1>6. failures' \subseteq StateNames \cup {"gone"}
  <2>1. Surprised \subseteq Conn
    BY DEF Surprised, Informed
  <2> QED
    BY <1>1, <1>4, <1>5, <2>1 DEF TypeOK
<1>7. losses' \in losses..MaxLosses /\ refusals' \in 0..MaxRefusals
  BY <1>1, <1>3, BoundsAssumption DEF TypeOK
<1>8. Rests
  <2>1. policy' \in {"online", "offline"}
    BY <1>1, <1>2 DEF TypeOK
  <2> QED
    BY <1>1, <1>3, <1>6, <1>7, <2>1 DEF Rests, TypeOK
<1>9. opened = 0 => asked'["ssl"] = 0
  BY <1>1, <1>4 DEF OnlyOne
<1>10. TypeOK' /\ AllSound' /\ OnlyOne'
  BY <1>1, <1>2, <1>3, <1>8, <1>9, Gathering
<1>11. OnlineHasSession'
  BY <1>1, <1>2, <1>3 DEF OnlineHasSession
<1>12. DialogFits'
  <2> SUFFICES ASSUME losses = 0, opened < 2
               PROVE  /\ failures' = {} /\ asked'["ssl"] \in 0..1
                      /\ asked'["ssl"] = 1 => \A d \in Conn : conn'[d].state \in Deciding \cup {"gone"}
    BY <1>3 DEF DialogFits
  <2>1. /\ failures = {} /\ asked["ssl"] \in 0..1
        /\ asked["ssl"] = 1 => \A c \in Conn : conn[c].state \in Deciding \cup {"gone"}
    BY <1>1 DEF DialogFits
  <2>2. CASE /\ AcceptSsl \/ RejectSsl
             /\ asked["ssl"] > 0 /\ asked'["ssl"] = asked["ssl"] - 1
             /\ failures' = failures \cup {conn[c].state : c \in Surprised}
    <3>1. asked["ssl"] = 1 /\ asked'["ssl"] = 0
      BY <2>1, <2>2
    <3>2. Surprised = {}
      <4> SUFFICES ASSUME NEW c \in Surprised PROVE FALSE
        OBVIOUS
      <4>1. c \in Informed /\ conn[c].state \notin Deciding
        BY DEF Surprised
      <4>2. c \in Conn /\ conn[c].state # "gone"
        BY <1>1, <4>1, InformedIsUp
      <4> QED
        BY <2>1, <3>1, <4>1, <4>2
    <3> QED
      BY <2>1, <2>2, <3>1, <3>2
  <2>3. CASE /\ SetImapPassword \/ UnsetImapPassword
             /\ asked'["ssl"] = asked["ssl"] /\ failures' = failures
    <3>1. ASSUME asked["ssl"] = 1 PROVE conn' = conn
      <4>1. \A c \in Conn : ~WaitsForPassword(conn[c])
        BY <2>1, <3>1 DEF WaitsForPassword, Deciding
      <4>2. conn = [c \in Conn |-> conn[c]]
        BY <1>1 DEF TypeOK
      <4>3. CASE SetImapPassword
        <5> DEFINE entered(k) == [Wait(k, "LOGIN") EXCEPT !.fresh = FALSE]
        <5>1. conn' = [c \in Conn |-> IF WaitsForPassword(conn[c]) THEN entered(conn[c]) ELSE conn[c]]
          BY <4>3 DEF SetImapPassword
        <5> HIDE DEF entered
        <5> QED
          BY <4>1, <4>2, <5>1
      <4>4. CASE UnsetImapPassword
        BY <4>1, <4>4 DEF UnsetImapPassword
      <4> QED
        BY <2>3, <4>3, <4>4
    <3> QED
      BY <2>1, <2>3, <3>1
  <2> QED
    BY <1>4, <2>2, <2>3
<1> QED
  BY <1>10, <1>11, <1>12 DEF Preserved

\* While the policy is offline no connection is logged out that has not been.
LEMMA NobodyLeft ==
    ASSUME Inv, TypeOK, policy = "offline"
    PROVE  [c \in Conn |-> LoggedOut(conn[c])] = conn
<1>1. \A c \in Conn : conn[c].state \in Out
  BY DEF Inv, OfflineIsOffline
<1>2. \A c \in Conn : LoggedOut(conn[c]) = conn[c]
  BY <1>1 DEF LoggedOut
<1>3. conn = [c \in Conn |-> conn[c]]
  BY DEF TypeOK
<1> QED
  BY <1>2, <1>3

\* The policy, the session and what the NetworkWatcher does to the connections.  Connections
\* are left only where a loss is counted.
LEMMA WatcherFrame ==
    ASSUME Inv, TypeOK, OnlineHasSession, Watcher
    PROVE  /\ UNCHANGED <<user, opened, refusals, failures>>
           /\ policy' \in {"online", "offline"} /\ desired' \in {"online", "offline"}
           /\ online' \in BOOLEAN /\ session' \in {"closed", "opening", "open"}
           /\ OnlineHasSession'
           /\ (UNCHANGED <<losses, conn>>) \/ (losses < MaxLosses /\ losses' = losses + 1)
<1>1. /\ policy \in {"online", "offline"} /\ desired \in {"online", "offline"} /\ online \in BOOLEAN
      /\ session \in {"closed", "opening", "open"}
  BY DEF TypeOK
<1>2. policy = "online" => session = "open" /\ online /\ desired = "online"
  BY DEF OnlineHasSession, Inv, OfflineIsOffline
<1>3. ASSUME NEW q, SetNetworkPolicy(q)
      PROVE  policy' = q /\ (q = "online" \/ policy = "offline" => UNCHANGED conn)
  <2>1. q = "offline" /\ policy = "offline" => UNCHANGED conn
    BY <1>3, NobodyLeft DEF SetNetworkPolicy
  <2> QED
    BY <1>3, <2>1 DEF SetNetworkPolicy
<1>4. ASSUME NEW q \in {"online", "offline"}, NEW isOnline \in BOOLEAN, SetDesired(q, isOnline),
             online' \in BOOLEAN, isOnline => session = "open" /\ online', UNCHANGED online \/ online'
      PROVE  /\ policy' \in {"online", "offline"} /\ desired' = q
             /\ session' \in {"closed", "opening", "open"} /\ OnlineHasSession'
             /\ q = "online" \/ policy = "offline" => UNCHANGED conn
  <2>1. desired' = q
    BY <1>4 DEF SetDesired
  <2>2. CASE policy = "offline" /\ q = "online"
    <3>1. \/ isOnline /\ SetNetworkPolicy("online") /\ UNCHANGED session
          \/ UNCHANGED <<conn, policy>> /\ session' \in {session, "opening"}
      BY <2>2, <1>4 DEF SetDesired
    <3> QED
      BY <1>1, <1>3, <1>4, <2>1, <2>2, <3>1 DEF OnlineHasSession
  <2>3. CASE policy = "online" /\ q = "offline"
    <3>1. SetNetworkPolicy("offline") /\ session' = "closed"
      BY <2>3, <1>4 DEF SetDesired
    <3> QED
      BY <1>1, <1>3, <2>1, <2>3, <3>1 DEF OnlineHasSession
  <2>4. CASE policy = q
    <3>1. SetNetworkPolicy(q) /\ UNCHANGED session
      BY <2>4, <1>4 DEF SetDesired
    <3> QED
      BY <1>1, <1>2, <1>3, <1>4, <2>1, <2>4, <3>1 DEF OnlineHasSession
  <2> QED
    BY <1>1, <1>4, <2>2, <2>3, <2>4
<1>5. CASE UserChooses
  <2>1. PICK q \in {"online", "offline"} :
           /\ SetDesired(q, IsOnline) /\ UNCHANGED online /\ Elsewhere
           /\ IF q = "offline" THEN Bounded ELSE UNCHANGED losses
    BY <1>5 DEF UserChooses
  <2>2. IsOnline \in BOOLEAN /\ (IsOnline => session = "open" /\ online)
    BY <1>1, Zenon DEF IsOnline
  <2>3. /\ policy' \in {"online", "offline"} /\ desired' = q
        /\ session' \in {"closed", "opening", "open"} /\ OnlineHasSession'
        /\ q = "online" \/ policy = "offline" => UNCHANGED conn
    BY <1>1, <1>4, <2>1, <2>2
  <2> QED
    BY <1>1, <2>1, <2>3 DEF Elsewhere, Bounded
<1>6. CASE SystemOnline
  <2>1. online' = TRUE /\ SetDesired(desired, session = "open") /\ UNCHANGED losses /\ Elsewhere /\ ~online
    BY <1>6 DEF SystemOnline
  <2>2. policy = "offline"
    BY <1>1, <1>2, <2>1
  <2>3. /\ policy' \in {"online", "offline"} /\ desired' = desired
        /\ session' \in {"closed", "opening", "open"} /\ OnlineHasSession' /\ UNCHANGED conn
    BY <1>1, <1>4, <2>1, <2>2
  <2> QED
    BY <1>1, <2>1, <2>3 DEF Elsewhere
<1>7. CASE SystemOffline
  <2>1. /\ online' = FALSE /\ SetNetworkPolicy("offline") /\ Bounded /\ UNCHANGED <<desired, session>> /\ Elsewhere
    BY <1>7 DEF SystemOffline
  <2>2. policy' = "offline" /\ OnlineHasSession'
    BY <1>3, <2>1 DEF OnlineHasSession
  <2>3. online' \in BOOLEAN
    BY <2>1, Zenon
  <2> QED
    BY <1>1, <2>1, <2>2, <2>3 DEF Elsewhere, Bounded
<1>8. CASE SessionOpened
  <2>1. /\ session = "opening" /\ session' = "open"
        /\ SetNetworkPolicy(IF online THEN desired ELSE "offline")
        /\ UNCHANGED <<desired, online, losses>> /\ Elsewhere
    BY <1>8 DEF SessionOpened
  <2>2. policy = "offline"
    BY <1>1, <1>2, <2>1
  <2>3. policy' = (IF online THEN desired ELSE "offline") /\ UNCHANGED conn
    BY <1>3, <2>1, <2>2
  <2> QED
    BY <1>1, <2>1, <2>3 DEF Elsewhere, OnlineHasSession
<1>9. CASE ConfigurationChanged
  <2>1. /\ SetNetworkPolicy("offline") /\ session' = "opening" /\ Bounded /\ UNCHANGED <<desired, online>> /\ Elsewhere
    BY <1>9 DEF ConfigurationChanged
  <2> QED
    BY <1>1, <1>3, <2>1 DEF Elsewhere, Bounded, OnlineHasSession
<1> QED
  BY <1>5, <1>6, <1>7, <1>8, <1>9 DEF Watcher

\* The network changes.
LEMMA WatcherPreserves ==
    ASSUME IInv, UNCHANGED method, Watcher
    PROVE  Preserved
<1>1. Before /\ TypeOK /\ OnlyOne /\ OnlineHasSession /\ DialogFits /\ Inv
  BY DEF IInv, Before
<1>2. Steady
  BY <1>1, WatcherSteady
<1>3. /\ UNCHANGED <<user, opened, refusals, failures>>
      /\ policy' \in {"online", "offline"} /\ desired' \in {"online", "offline"}
      /\ online' \in BOOLEAN /\ session' \in {"closed", "opening", "open"}
      /\ OnlineHasSession'
      /\ (UNCHANGED <<losses, conn>>) \/ (losses < MaxLosses /\ losses' = losses + 1)
  BY <1>1, WatcherFrame
<1>4. UNCHANGED <<hasPassword, asked, sslPolicy>>
  BY <1>3 DEF user
<1>5. losses' \in losses..MaxLosses
  BY <1>1, <1>3, BoundsAssumption DEF TypeOK
<1>6. Rests
  BY <1>1, <1>3, <1>4, <1>5 DEF Rests, TypeOK
<1>7. opened = 0 => asked'["ssl"] = 0
  BY <1>1, <1>4 DEF OnlyOne
<1>8. TypeOK' /\ AllSound' /\ OnlyOne'
  BY <1>1, <1>2, <1>3, <1>6, <1>7, Gathering
<1>9. DialogFits'
  <2>1. losses' = 0 => losses = 0 /\ UNCHANGED conn
    BY <1>1, <1>3 DEF TypeOK
  <2> QED
    BY <1>1, <1>3, <1>4, <2>1 DEF DialogFits
<1> QED
  BY <1>3, <1>8, <1>9 DEF Preserved

----------------------------------------------------------------------------
(* The theorems about commands, capabilities and decisions. *)

\* No connection has been opened yet.
LEMMA IInvInit == Init => IInv
<1> SUFFICES ASSUME Init PROVE IInv
  OBVIOUS
<1>1. Gone \in Connections /\ Sound(Gone) /\ Gone.state = "gone"
  BY GoneGood DEF Good
<1>2. conn = [c \in Conn |-> Gone] /\ \A c \in Conn : conn[c] = Gone
  BY DEF Init
<1>3. TypeOK
  <2>1. hasPassword \in BOOLEAN /\ online \in BOOLEAN
    BY Zenon DEF Init
  <2>2. /\ method \in Methods /\ policy \in {"online", "offline"} /\ asked \in [{"password", "ssl"} -> Nat]
        /\ sslPolicy \in {"unknown", "accept", "reject"} /\ desired \in {"online", "offline"}
        /\ session \in {"closed", "opening", "open"}
        /\ opened \in 0..MaxOpened /\ refusals \in 0..MaxRefusals /\ losses \in 0..MaxLosses
        /\ failures \subseteq StateNames \cup {"gone"}
    BY BoundsAssumption DEF Init
  <2>3. conn \in [Conn -> Connections]
    BY <1>1, <1>2
  <2> QED
    BY <2>1, <2>2, <2>3 DEF TypeOK
<1>4. AllSound
  BY <1>1, <1>2 DEF AllSound
<1>5. opened = 0 /\ losses = 0 /\ asked["ssl"] = 0 /\ failures = {} /\ policy = "offline"
  BY DEF Init
<1>6. OnlyOne
  BY <1>1, <1>2, <1>5 DEF OnlyOne
<1>7. OnlineHasSession
  BY <1>5 DEF OnlineHasSession
<1>8. DialogFits
  BY <1>5 DEF DialogFits
<1> QED
  BY <1>3, <1>4, <1>6, <1>7, <1>8, InvInit DEF IInv

\* The invariant is inductive.
LEMMA IInvStep == IInv /\ [Next]_vars => IInv'
<1> SUFFICES ASSUME IInv, [Next]_vars PROVE IInv'
  OBVIOUS
<1>1. Inv'
  BY InvStep DEF IInv
<1>2. ASSUME Preserved PROVE IInv'
  BY <1>1, <1>2 DEF Preserved, IInv
<1>3. CASE UNCHANGED vars
  <2>1. Before
    BY DEF IInv, Before
  <2>2. UNCHANGED <<method, conn, policy, hasPassword, asked, sslPolicy, desired, online, session,
                    opened, refusals, losses, failures>>
    BY <1>3 DEF vars, changing, user, network, counters
  <2>3. Rests
    <3>1. losses' \in losses..MaxLosses
      BY <2>1, <2>2, BoundsAssumption DEF Before, TypeOK
    <3> QED
      BY <2>1, <2>2, <3>1 DEF Rests, Before, TypeOK
  <2>4. opened = 0 => asked'["ssl"] = 0
    BY <2>1, <2>2 DEF Before, OnlyOne
  <2>5. TypeOK' /\ AllSound' /\ OnlyOne'
    BY <2>1, <2>2, <2>3, <2>4, UnchangedSteady, Gathering
  <2>6. OnlineHasSession' /\ DialogFits'
    BY <2>2 DEF IInv, OnlineHasSession, DialogFits
  <2> QED
    BY <1>2, <2>5, <2>6 DEF Preserved
<1>4. CASE Next
  <2>1. UNCHANGED method
    BY <1>4 DEF Next
  <2>2. ASSUME NEW c \in Conn, Open(c) \/ Model(c) \/ Unnoticed(c) PROVE Preserved
    BY <2>1, <2>2, OpenPreserves, ModelPreserves, UnnoticedPreserves
  <2>3. User \/ Watcher => Preserved
    BY <2>1, UserPreserves, WatcherPreserves
  <2>4. User \/ Watcher \/ \E c \in Conn : Open(c) \/ Model(c) \/ Unnoticed(c)
    BY <1>4 DEF Next, Unnoticed
  <2> QED
    BY <1>2, <2>2, <2>3, <2>4
<1> QED
  BY <1>3, <1>4

\* The inductive invariant, for any number of connections and any bounds: at most one command
\* besides LOGOUT is under way on a connection, in one place, and the state of the connection,
\* the phase of its server, what has been said and the capabilities fit it
\* (OpenConnectionTask::handleStateHelper, the queue and the gates of the Parser).
THEOREM ConnectionsAreSound == Spec => []IInv
BY IInvInit, IInvStep, PTL DEF Spec

\* Commands reach the server only in a phase that allows them, and nothing is sent after
\* STARTTLS or COMPRESS before these are done (executeCommands, executeACommand).
THEOREM CommandsAreInPhase == Spec => []CommandsInPhase
<1>1. IInv => CommandsInPhase
  <2> SUFFICES ASSUME IInv, NEW c \in Conn, NEW i \in DOMAIN conn[c].received
               PROVE  LET command == conn[c].received[i]
                      IN  /\ command \in {"STARTTLS", "COMPRESS"} => i = Len(conn[c].received)
                          /\ conn[c].server \in Phases =>
                               CASE command = "STARTTLS" -> conn[c].server = "plain"
                                 [] command = "LOGIN" -> conn[c].server \in {"plain", "secure"}
                                 [] command \in {"COMPRESS", "other"} -> conn[c].server = "authenticated"
                                 [] OTHER -> TRUE
    BY DEF CommandsInPhase
  <2> DEFINE k == conn[c]
             command == k.received[i]
  <2>1. k.received \in Seq(Commands)
    BY DEF IInv, TypeOK, Connections
  <2>2. PICK p \in Places, x \in Tasks : SoundAt(k, p, x)
    BY DEF IInv, AllSound, Sound
  <2>3. command \in Items(k.received) /\ command \in Commands
    BY <2>1 DEF Items
  <2>4. command = "LOGOUT" \/ (command = x /\ p = "server")
    BY <2>2, <2>3 DEF SoundAt, Talk, SentFits
  <2>5. ASSUME command \in {"STARTTLS", "COMPRESS"} PROVE i = Len(k.received)
    <3>1. Len(k.received) = 1
      BY <2>2, <2>4, <2>5 DEF SoundAt, Talk, SentFits
    <3> QED
      BY <2>1, <3>1
  <2>6. ASSUME command # "LOGOUT", k.server \in Phases PROVE k.server \in Allowed(command)
    BY <2>2, <2>4, <2>6 DEF SoundAt, Talk, ServerFits
  <2>7. "leaving" \notin Phases
    BY DEF Phases
  <2> HIDE DEF k, command
  <2>8. ASSUME k.server \in Phases
        PROVE  CASE command = "STARTTLS" -> k.server = "plain"
                 [] command = "LOGIN" -> k.server \in {"plain", "secure"}
                 [] command \in {"COMPRESS", "other"} -> k.server = "authenticated"
                 [] OTHER -> TRUE
    <3>1. command \in {"STARTTLS", "LOGIN", "COMPRESS", "other", "CAPABILITY", "LOGOUT"}
      BY <2>3 DEF Commands
    <3>2. k.server # "leaving"
      BY <2>7, <2>8
    <3>3. CASE command = "STARTTLS"
      BY <2>6, <2>8, <3>2, <3>3, Tables
    <3>4. CASE command = "LOGIN"
      BY <2>6, <2>8, <3>2, <3>4, Tables
    <3>5. CASE command \in {"COMPRESS", "other"}
      BY <2>6, <2>8, <3>2, <3>5, Tables
    <3>6. CASE command \in {"CAPABILITY", "LOGOUT"}
      BY <3>6
    <3> QED
      BY <3>1, <3>3, <3>4, <3>5, <3>6
  <2> QED
    BY <2>5, <2>8 DEF k, command
<1> QED
  BY <1>1, ConnectionsAreSound, PTL

\* The capabilities in use are those of the phase the connection is in, and every value has its
\* type (updateCapabilities, capabilitiesFresh).
THEOREM CapsAreOfPhase == Spec => []CapsOfPhase
<1>1. IInv => CapsOfPhase
  <2> SUFFICES ASSUME IInv, NEW c \in Conn
               PROVE  /\ conn[c].state \in {"COMPRESS_DEFLATE", "AUTHENTICATED"} => conn[c].caps.phase = "authenticated"
                      /\ conn[c].state = "LOGIN" /\ conn[c].server \in {"plain", "secure"}
                             => conn[c].caps.phase = conn[c].server
    BY DEF CapsOfPhase, IInv
  <2>1. PICK p \in Places, x \in Tasks : SoundAt(conn[c], p, x)
    BY DEF IInv, AllSound, Sound
  <2>2. conn[c].state \in Used \cup {"LOGIN"} => Fits(conn[c], p, x)
    BY <2>1 DEF SoundAt, Live, Out, Used
  <2> QED
    BY <2>2 DEF Fits, CapsFit, LoginFits, Used
<1> QED
  BY <1>1, ConnectionsAreSound, PTL

\* No decision about certificates surprises a task that does not wait for it, unless a
\* connection has been lost while its dialog was open or more than one has been opened
\* (OpenConnectionTask::sslConnectionPolicyDecided, Model::setSslPolicy).
THEOREM DecisionsAreExpected == Spec => []DecisionExpected
<1>1. IInv => DecisionExpected
  BY DEF IInv, TypeOK, DialogFits, DecisionExpected
<1> QED
  BY <1>1, ConnectionsAreSound, PTL

=============================================================================
