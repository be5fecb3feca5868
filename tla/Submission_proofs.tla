------------------------- MODULE Submission_proofs -------------------------
(***************************************************************************)
(* Proofs about sending, for every set of accounts and any number of       *)
(* attempts, whatever the servers answer and whenever the user cancels:    *)
(* types, that an attempt delivers its message at most once, and that      *)
(* "sent" is said of a message that somebody has accepted.  They rest on   *)
(* what one SMTP client makes of its queue, for every queue: the message   *)
(* is in it at most once and in front of QUIT, leaves it when it has been  *)
(* accepted, and "sent" is not signalled before that.                      *)
(***************************************************************************)
EXTENDS Submission, ProofFacts

----------------------------------------------------------------------------
(* The queue of a client. *)

\* The places of messages in a queue; there is at most one, and QUIT comes after it.
MailIn(q) == {i \in DOMAIN q : q[i] \in {"mail", "burl"}}
OneMail(q) == \A i, j \in MailIn(q) : i = j
QuitLast(q) == \A i \in DOMAIN q, j \in MailIn(q) : q[i] = "quit" => j < i
OnlyQuits(q) == \A i \in DOMAIN q : q[i] = "quit"
Stuck(q) == q # <<>> /\ Head(q) = "quit"

LEMMA HeadIsFirst ==
    ASSUME NEW S, NEW q \in Seq(S), q # <<>>
    PROVE  /\ Head(q) = q[1] /\ 1 \in DOMAIN q /\ DOMAIN q = 1..Len(q) /\ Len(q) \in Nat
           /\ Tail(q) \in Seq(S) /\ DOMAIN Tail(q) = 1..(Len(q) - 1)
           /\ \A i \in 1..(Len(q) - 1) : Tail(q)[i] = q[i + 1]
BY HeadTailProperties, LenProperties, EmptySeq

LEMMA Joining ==
    ASSUME NEW S, NEW s \in Seq(S), NEW t \in Seq(S)
    PROVE  /\ s \o t \in Seq(S) /\ Len(s) \in Nat /\ Len(t) \in Nat
           /\ Len(s \o t) = Len(s) + Len(t) /\ DOMAIN (s \o t) = 1..(Len(s) + Len(t))
           /\ DOMAIN s = 1..Len(s) /\ DOMAIN t = 1..Len(t)
           /\ \A i \in 1..Len(s) : (s \o t)[i] = s[i]
           /\ \A i \in 1..Len(t) : (s \o t)[Len(s) + i] = t[i]
<1> DEFINE r == s \o t
<1>1. /\ r \in Seq(S) /\ Len(r) = Len(s) + Len(t)
      /\ \A i \in 1..Len(r) : r[i] = IF i <= Len(s) THEN s[i] ELSE t[i - Len(s)]
  BY ConcatProperties
<1>2. Len(s) \in Nat /\ Len(t) \in Nat /\ DOMAIN s = 1..Len(s) /\ DOMAIN t = 1..Len(t)
  BY LenProperties
<1>3. DOMAIN r = 1..Len(r)
  BY <1>1, LenProperties
<1> HIDE DEF r
<1>4. \A i \in 1..Len(s) : r[i] = s[i]
  BY <1>1, <1>2
<1>5. ASSUME NEW i \in 1..Len(t) PROVE r[Len(s) + i] = t[i]
  <2>1. Len(s) + i \in 1..Len(r) /\ ~(Len(s) + i <= Len(s)) /\ (Len(s) + i) - Len(s) = i
    BY <1>1, <1>2
  <2> QED
    BY <1>1, <2>1
<1> QED
  BY <1>1, <1>2, <1>3, <1>4, <1>5 DEF r

\* dequeue takes the message away only if it is at the head.
LEMMA Dequeuing ==
    ASSUME NEW q \in Seq(SmtpCommands), q # <<>>
    PROVE  /\ Tail(q) \in Seq(SmtpCommands)
           /\ OneMail(q) => OneMail(Tail(q))
           /\ QuitLast(q) => QuitLast(Tail(q))
           /\ OneMail(q) /\ 1 \in MailIn(q) => MailIn(Tail(q)) = {}
           /\ 1 \notin MailIn(q) /\ MailIn(q) # {} => MailIn(Tail(q)) # {}
           /\ MailIn(q) = {} => MailIn(Tail(q)) = {}
<1> DEFINE t == Tail(q)
<1>1. /\ t \in Seq(SmtpCommands) /\ DOMAIN q = 1..Len(q) /\ Len(q) \in Nat /\ 1 \in DOMAIN q
      /\ DOMAIN t = 1..(Len(q) - 1) /\ \A i \in 1..(Len(q) - 1) : t[i] = q[i + 1]
  BY HeadIsFirst
<1> HIDE DEF t
<1>2. \A i \in MailIn(t) : i \in Nat /\ i > 0 /\ i + 1 \in MailIn(q)
  BY <1>1 DEF MailIn
<1>3. \A i \in MailIn(q) : i \in Nat /\ (i # 1 => i - 1 \in MailIn(t))
  BY <1>1 DEF MailIn
<1>4. OneMail(q) => OneMail(t)
  BY <1>2 DEF OneMail
<1>5. QuitLast(q) => QuitLast(t)
  <2> SUFFICES ASSUME QuitLast(q), NEW i \in DOMAIN t, NEW j \in MailIn(t), t[i] = "quit"
               PROVE  j < i
    BY DEF QuitLast
  <2>1. i \in Nat /\ i + 1 \in DOMAIN q /\ q[i + 1] = "quit"
    BY <1>1
  <2>2. j \in Nat /\ j + 1 < i + 1
    BY <2>1, <1>2 DEF QuitLast
  <2> QED
    BY <2>1, <2>2
<1>6. OneMail(q) /\ 1 \in MailIn(q) => MailIn(t) = {}
  BY <1>2 DEF OneMail
<1>7. 1 \notin MailIn(q) /\ MailIn(q) # {} => MailIn(t) # {}
  BY <1>3
<1>8. MailIn(q) = {} => MailIn(t) = {}
  BY <1>2
<1> QED
  BY <1>1, <1>4, <1>5, <1>6, <1>7, <1>8 DEF t

\* Another QUIT at the end (disconnectFromHost).
LEMMA QuitQueued ==
    ASSUME NEW q \in Seq(SmtpCommands)
    PROVE  LET r == q \o <<"quit">>
           IN  /\ r \in Seq(SmtpCommands) /\ r # <<>> /\ MailIn(r) = MailIn(q)
               /\ OneMail(q) => OneMail(r)
               /\ QuitLast(q) => QuitLast(r)
               /\ OnlyQuits(q) => OnlyQuits(r) /\ Head(r) = "quit"
               /\ q # <<>> => Head(r) = Head(q)
<1> DEFINE r == q \o <<"quit">>
<1>1. /\ r \in Seq(SmtpCommands) /\ Len(r) = Len(q) + 1 /\ Len(q) \in Nat
      /\ DOMAIN q = 1..Len(q) /\ DOMAIN r = 1..(Len(q) + 1)
      /\ r[Len(q) + 1] = "quit" /\ \A i \in 1..Len(q) : r[i] = q[i]
  <2>1. <<"quit">> \in Seq(SmtpCommands) /\ Len(<<"quit">>) = 1 /\ <<"quit">>[1] = "quit"
    BY DEF SmtpCommands
  <2> QED
    BY <2>1, ConcatProperties, LenProperties
<1> HIDE DEF r
<1>2. r # <<>> /\ Head(r) = r[1]
  BY <1>1, EmptySeq, HeadIsFirst
<1>3. MailIn(r) = MailIn(q)
  BY <1>1 DEF MailIn
<1>4. QuitLast(q) => QuitLast(r)
  BY <1>1, <1>3 DEF QuitLast, MailIn
<1>5. OnlyQuits(q) => OnlyQuits(r) /\ Head(r) = "quit"
  BY <1>1, <1>2 DEF OnlyQuits
<1>6. q # <<>> => Head(r) = Head(q)
  BY <1>1, <1>2, HeadIsFirst
<1> QED
  BY <1>1, <1>2, <1>3, <1>4, <1>5, <1>6 DEF r, OneMail

----------------------------------------------------------------------------
(* The client and how often its message has been accepted. *)

Unused(k) == k.socket = "idle" /\ OnlyQuits(k.queue)

\* The queue holds the message at most once, in front of QUIT once there is a connection, and
\* is being worked on then; a client that waits for the password has been given nothing but
\* QUIT (cancel).
Orderly(k, accepted) ==
    /\ k \in Clients /\ accepted \in 0..1
    /\ k.inProgress => k.queue # <<>>
    /\ MailIn(k.queue) # {} => k.inProgress
    /\ OneMail(k.queue)
    /\ k.socket # "idle" => QuitLast(k.queue)
    /\ k.socket = "idle" /\ k.queue # <<>> => Head(k.queue) = "quit"
    /\ k.waiting => Unused(k) /\ accepted = 0
    /\ k.queue # <<>> /\ Head(k.queue) = "burl" => k.stage <= 2

\* A message that has been accepted is no longer in the queue, or its answer is the next
\* that is read, and takes it away.
Sound(k, accepted) ==
    /\ Orderly(k, accepted)
    /\ Accepting(k) /\ k.line = "ok" => accepted = 1
    /\ accepted = 1 => MailIn(k.queue) = {} \/ (Accepting(k) /\ k.line = "ok" /\ ~k.owes /\ k.socket = "up")

\* Nothing says "sent" before the message is accepted, and none is lost from the queue
\* without a failure.
Honest(k, accepted) ==
    accepted = 0 => /\ \A i \in DOMAIN k.signals : k.signals[i] # "sent"
                    /\ ~k.failed /\ k.socket # "idle" => MailIn(k.queue) # {}

\* Clients that differ in what has been signalled only.
Same(k, l) ==
    /\ l \in Clients /\ l.waiting = k.waiting /\ l.queue = k.queue /\ l.stage = k.stage
    /\ l.inProgress = k.inProgress /\ l.socket = k.socket /\ l.owes = k.owes /\ l.line = k.line
Silent(k) == \A i \in DOMAIN k.signals : k.signals[i] # "sent"

LEMMA ClientTypes ==
    ASSUME NEW k \in Clients
    PROVE  /\ k.waiting \in BOOLEAN /\ k.failed \in BOOLEAN /\ k.queue \in Seq(SmtpCommands)
           /\ k.stage \in 0..3 /\ k.inProgress \in BOOLEAN
           /\ k.socket \in {"idle", "connecting", "up", "closing", "closed"}
           /\ k.owes \in BOOLEAN /\ k.line \in {"", "ok", "no", "later"}
           /\ k.signals \in Seq({"sent", "error"})
BY DEF Clients

LEMMA SameIsSound ==
    ASSUME NEW k, NEW l, NEW a, Same(k, l)
    PROVE  /\ Orderly(k, a) => Orderly(l, a)
           /\ Sound(k, a) => Sound(l, a)
BY DEF Same, Orderly, Sound, Accepting, Unused

LEMMA Signalling ==
    ASSUME NEW k \in Clients, NEW s \in {"sent", "error"}
    PROVE  /\ Signal(k, s) \in Clients /\ Same(k, Signal(k, s)) /\ Signal(k, s).failed = k.failed
           /\ s = "error" /\ Silent(k) => Silent(Signal(k, s))
<1> DEFINE q == Append(k.signals, s)
<1>1. /\ q \in Seq({"sent", "error"}) /\ Len(k.signals) \in Nat
      /\ DOMAIN k.signals = 1..Len(k.signals) /\ DOMAIN q = 1..(Len(k.signals) + 1)
      /\ \A i \in 1..Len(k.signals) : q[i] = k.signals[i]
      /\ q[Len(k.signals) + 1] = s
  <2> DEFINE r == k.signals
  <2>1. r \in Seq({"sent", "error"})
    BY ClientTypes
  <2> HIDE DEF r
  <2>2. Len(r) \in Nat /\ DOMAIN r = 1..Len(r)
    BY <2>1, LenProperties
  <2>3. Append(r, s) \in Seq({"sent", "error"}) /\ Len(Append(r, s)) = Len(r) + 1
    BY <2>1, AppendProperties
  <2>4. \A i \in 1..Len(r) : Append(r, s)[i] = r[i]
    BY <2>1, <2>2, AppendProperties
  <2>5. Append(r, s)[Len(r) + 1] = s
    BY <2>1, <2>2, AppendProperties
  <2>6. DOMAIN Append(r, s) = 1..(Len(r) + 1)
    BY <2>3, LenProperties
  <2>7. q = Append(r, s)
    BY DEF q, r
  <2> HIDE DEF q
  <2> QED
    BY <2>2, <2>3, <2>4, <2>5, <2>6, <2>7 DEF r
<1>2. Signal(k, s) = [k EXCEPT !.signals = q]
  BY DEF Signal
<1> HIDE DEF q
<1>3. Signal(k, s) \in Clients /\ Same(k, Signal(k, s)) /\ Signal(k, s).failed = k.failed
      /\ Signal(k, s).signals = q
  BY <1>1, <1>2 DEF Clients, Same
<1> QED
  BY <1>1, <1>3 DEF Silent

\* Another stage of the command at the head.
Staged(k, stage) == [k EXCEPT !.stage = stage]
LEMMA Staging ==
    ASSUME NEW k \in Clients, NEW stage \in 0..3
    PROVE  LET l == Staged(k, stage)
           IN  /\ l \in Clients /\ l.queue = k.queue /\ l.stage = stage /\ l.waiting = k.waiting
               /\ l.failed = k.failed /\ l.socket = k.socket /\ l.signals = k.signals
               /\ l.inProgress = k.inProgress /\ l.line = k.line /\ l.owes = k.owes
BY DEF Clients, Staged

\* Another queue, its head not begun.
Requeued(k, q) == [k EXCEPT !.queue = q, !.stage = 0]
LEMMA Requeueing ==
    ASSUME NEW k \in Clients, NEW q \in Seq(SmtpCommands)
    PROVE  LET l == Requeued(k, q)
           IN  /\ l \in Clients /\ l.queue = q /\ l.stage = 0 /\ l.waiting = k.waiting
               /\ l.failed = k.failed /\ l.socket = k.socket /\ l.signals = k.signals
               /\ l.inProgress = k.inProgress /\ l.line = k.line /\ l.owes = k.owes
<1> DEFINE mid == [k EXCEPT !.queue = q]
<1>1. mid \in Clients /\ mid.queue = q /\ mid.waiting = k.waiting
      /\ mid.failed = k.failed /\ mid.socket = k.socket /\ mid.signals = k.signals
      /\ mid.inProgress = k.inProgress /\ mid.line = k.line /\ mid.owes = k.owes
  BY DEF Clients
<1>2. Requeued(k, q) = Staged(mid, 0)
  BY DEF Requeued, Staged
<1> HIDE DEF mid
<1>3. 0 \in 0..3
  OBVIOUS
<1> QED
  BY <1>1, <1>2, <1>3, Staging

\* HandleDone and HandleError change what is signalled only; a failure is for good.
LEMMA Handling ==
    ASSUME NEW k \in Clients, NEW ok \in BOOLEAN
    PROVE  /\ Same(k, HandleDone(k, ok)) /\ Same(k, HandleError(k))
           /\ (HandleDone(k, ok).failed <=> k.failed \/ ~ok) /\ HandleError(k).failed
           /\ Silent(k) /\ (k.failed \/ ~ok) => Silent(HandleDone(k, ok))
           /\ Silent(k) => Silent(HandleError(k))
<1> DEFINE l == [k EXCEPT !.failed = TRUE]
<1>1. l \in Clients /\ Same(k, l) /\ l.failed /\ l.signals = k.signals
  BY DEF Clients, Same
<1>2. Same(k, k)
  BY DEF Same
<1>3. HandleError(k) = Signal(l, "error")
  BY DEF HandleError
<1>4. HandleDone(k, ok) = IF k.failed THEN k ELSE IF ok THEN Signal(k, "sent") ELSE Signal(l, "error")
  BY DEF HandleDone
<1> HIDE DEF l
<1>5. Same(l, Signal(l, "error")) /\ Signal(l, "error").failed /\ (Silent(k) => Silent(Signal(l, "error")))
  BY <1>1, Signalling DEF Silent
<1>6. Same(k, Signal(k, "sent")) /\ Signal(k, "sent").failed = k.failed
  BY Signalling
<1>7. Same(k, Signal(l, "error"))
  BY <1>1, <1>5 DEF Same
<1>8. k.failed \in BOOLEAN
  BY ClientTypes
<1> QED
  BY <1>2, <1>3, <1>4, <1>5, <1>6, <1>7, <1>8

LEMMA NoCommands ==
    /\ <<>> \in Seq(SmtpCommands) /\ MailIn(<<>>) = {} /\ OneMail(<<>>) /\ QuitLast(<<>>)
    /\ OnlyQuits(<<>>)
<1>1. DOMAIN <<>> = {} /\ <<>> \in Seq(SmtpCommands)
  BY EmptySeq, LenProperties
<1> QED
  BY <1>1 DEF MailIn, OneMail, QuitLast, OnlyQuits

\* A message never comes after the QUIT at the head.
LEMMA QuitFirst ==
    ASSUME NEW q \in Seq(SmtpCommands), q # <<>>, Head(q) = "quit", QuitLast(q)
    PROVE  MailIn(q) = {}
<1>1. q[1] = "quit" /\ 1 \in DOMAIN q /\ DOMAIN q = 1..Len(q)
  BY HeadIsFirst
<1>2. ASSUME NEW j \in MailIn(q) PROVE FALSE
  BY <1>1 DEF QuitLast, MailIn
<1> QED
  BY <1>2

\* The end of a connection takes everything out of the queue but QUIT.
LEMMA Disconnecting ==
    ASSUME NEW k \in Clients, NEW a \in 0..1, ~k.waiting, QuitLast(k.queue)
    PROVE  LET l == OnDisconnected(k)
           IN  /\ Sound(l, a) /\ l.socket = "closed" /\ ~l.waiting /\ MailIn(l.queue) = {}
               /\ k.queue # <<>> /\ Head(k.queue) = "quit" => l.queue = k.queue
               /\ (a = 0 => Silent(k) /\ (k.failed \/ MailIn(k.queue) # {})) => Honest(l, a)
<1> DEFINE quits == k.queue = <<>> \/ Head(k.queue) = "quit"
           idle == [k EXCEPT !.inProgress = FALSE, !.socket = "closed", !.owes = FALSE, !.line = ""]
           dropped == [idle EXCEPT !.queue = <<>>]
           start == IF quits THEN idle ELSE dropped
           l == OnDisconnected(k)
<1>1. k.queue \in Seq(SmtpCommands) /\ k.failed \in BOOLEAN
  BY ClientTypes
<1>2. idle \in Clients /\ idle.queue = k.queue /\ ~idle.waiting /\ idle.failed = k.failed
      /\ ~idle.inProgress /\ idle.socket = "closed" /\ idle.line = "" /\ idle.signals = k.signals
  BY DEF Clients
<1>3. dropped \in Clients /\ dropped.queue = <<>> /\ ~dropped.waiting /\ dropped.failed = k.failed
      /\ ~dropped.inProgress /\ dropped.socket = "closed" /\ dropped.line = "" /\ dropped.signals = k.signals
  BY <1>2, NoCommands DEF Clients
<1>4. l = IF quits THEN HandleDone(idle, TRUE) ELSE HandleDone(dropped, FALSE)
  BY DEF OnDisconnected
<1>5. quits => MailIn(k.queue) = {}
  BY <1>1, QuitFirst, NoCommands
<1> HIDE DEF idle, dropped, l
<1>6. start \in Clients /\ MailIn(start.queue) = {} /\ ~start.waiting /\ start.failed = k.failed
      /\ ~start.inProgress /\ start.socket = "closed" /\ start.line = "" /\ start.signals = k.signals
      /\ (start.queue # <<>> => Head(start.queue) = "quit")
  BY <1>2, <1>3, <1>5, NoCommands
<1>7. Same(start, l) /\ (l.failed <=> k.failed \/ ~quits)
      /\ (Silent(k) /\ (k.failed \/ ~quits) => Silent(l))
  <2>1. CASE quits
    <3>1. start = idle
      BY <2>1
    <3>2. l = HandleDone(idle, TRUE)
      BY <1>4, <2>1
    <3> HIDE DEF start, quits
    <3>3. Same(idle, l) /\ (l.failed <=> idle.failed) /\ (Silent(idle) /\ idle.failed => Silent(l))
      BY <1>2, <3>2, Handling
    <3> QED
      BY <1>2, <2>1, <3>1, <3>3 DEF Silent
  <2>2. CASE ~quits
    <3>1. start = dropped
      BY <2>2
    <3>2. l = HandleDone(dropped, FALSE)
      BY <1>4, <2>2
    <3> HIDE DEF start, quits
    <3>3. Same(dropped, l) /\ l.failed /\ (Silent(dropped) => Silent(l))
      BY <1>3, <3>2, Handling
    <3> QED
      BY <1>3, <2>2, <3>1, <3>3 DEF Silent
  <2> QED
    BY <2>1, <2>2
<1> HIDE DEF start
<1>8. Orderly(start, a)
  BY <1>6 DEF Orderly, OneMail, QuitLast
<1>9. Sound(start, a)
  BY <1>6, <1>8 DEF Sound
<1>10. Sound(l, a) /\ l.socket = "closed" /\ ~l.waiting /\ MailIn(l.queue) = {}
  BY <1>6, <1>7, <1>9, SameIsSound DEF Same
<1>11. quits => l.queue = k.queue
  BY <1>2, <1>7 DEF Same, start
<1>12. (a = 0 => Silent(k) /\ (k.failed \/ MailIn(k.queue) # {})) => Honest(l, a)
  BY <1>5, <1>7 DEF Honest, Silent
<1> QED
  BY <1>10, <1>11, <1>12 DEF l

Busy(k) == [k EXCEPT !.inProgress = TRUE]
LEMMA Beginning ==
    ASSUME NEW k \in Clients
    PROVE  LET l == Busy(k)
           IN  /\ l \in Clients /\ l.queue = k.queue /\ l.stage = k.stage /\ l.waiting = k.waiting
               /\ l.failed = k.failed /\ l.socket = k.socket /\ l.signals = k.signals
               /\ l.inProgress /\ l.line = k.line /\ l.owes = k.owes
BY DEF Clients, Busy

\* The queue after processNextCommand has taken away the command that is done.
Rest(k) == IF k.inProgress /\ k.queue # <<>> THEN Tail(k.queue) ELSE k.queue

\* What is known of a client before processNextCommand: before it connects, it has nothing
\* in progress, and an accepted message is the one that is done.
Ready(k, a) ==
    /\ k \in Clients /\ a \in 0..1
    /\ OneMail(k.queue)
    /\ k.waiting => Unused(k) /\ a = 0
    /\ QuitLast(k.queue) \/ (~k.inProgress /\ k.socket = "idle" /\ Stuck(k.queue))
    /\ k.socket = "idle" => k.queue # <<>> /\ ~k.inProgress /\ Head(k.queue) \in {"connect", "quit"}
    /\ a = 1 => MailIn(Rest(k)) = {}

LEMMA Processing ==
    ASSUME NEW k, NEW a, NEW atOnce \in BOOLEAN, Ready(k, a)
    PROVE  LET l == ProcessNext(k, atOnce)
           IN  /\ Sound(l, a)
               /\ Unused(k) => Unused(l) /\ Stuck(l.queue) /\ l.inProgress
               /\ k.socket = "idle" /\ Stuck(k.queue) => l.socket = "idle" /\ Stuck(l.queue) /\ l.inProgress
               /\ l.waiting <=> k.waiting
               /\ k.socket # "idle" => l.socket # "idle"
               /\ ~k.inProgress /\ k.queue # <<>> /\ ~atOnce => l.signals = k.signals
               /\ (a = 0 => Silent(k) /\ (\/ k.failed \/ MailIn(Rest(k)) # {} \/ Rest(k) = <<>>
                                          \/ k.socket = "idle" /\ Stuck(Rest(k))))
                     => Honest(l, a)
<1> DEFINE q == Rest(k)
           next == Requeued(k, q)
           l == ProcessNext(k, atOnce)
<1> USE DEF Ready
<1>1. k.queue \in Seq(SmtpCommands) /\ k.waiting \in BOOLEAN /\ k.inProgress \in BOOLEAN
      /\ k.failed \in BOOLEAN
  BY ClientTypes
<1>2. /\ q \in Seq(SmtpCommands) /\ OneMail(q)
      /\ QuitLast(q) \/ (~k.inProgress /\ k.socket = "idle" /\ Stuck(q))
  BY <1>1, Dequeuing DEF Rest
<1>3. k.socket = "idle" => q = k.queue /\ q # <<>> /\ Head(q) \in {"connect", "quit"}
  BY DEF Rest
<1>4. next \in Clients /\ next.queue = q /\ next.stage = 0 /\ next.waiting = k.waiting
      /\ next.failed = k.failed /\ next.socket = k.socket /\ next.signals = k.signals
      /\ next.inProgress = k.inProgress /\ next.line = k.line
  <2> HIDE DEF q
  <2> QED
    BY <1>2, Requeueing
<1>5. l = IF q = <<>> THEN HandleDone([next EXCEPT !.inProgress = FALSE], FALSE)
          ELSE [(IF Head(q) = "connect" THEN [next EXCEPT !.socket = "connecting"]
                 ELSE IF Head(q) = "quit" THEN SendQuit(next, atOnce)
                 ELSE [next EXCEPT !.owes = (next.socket = "up")]) EXCEPT !.inProgress = TRUE]
  <2> DEFINE dequeued == IF k.inProgress /\ k.queue # <<>> THEN [k EXCEPT !.queue = Tail(@)] ELSE k
  <2>1. [dequeued EXCEPT !.stage = 0] = next
    <3>1. CASE k.inProgress /\ k.queue # <<>>
      <4>1. q = Tail(k.queue) /\ dequeued = [k EXCEPT !.queue = Tail(k.queue)]
        BY <3>1 DEF Rest
      <4> QED
        BY <4>1 DEF Clients, Requeued
    <3>2. CASE ~(k.inProgress /\ k.queue # <<>>)
      <4>1. q = k.queue /\ dequeued = k
        BY <3>2 DEF Rest
      <4> QED
        BY <4>1 DEF Clients, Requeued
    <3> QED
      BY <3>1, <3>2
  <2> HIDE DEF next, dequeued, q
  <2>2. next.queue = q
    BY <1>4
  <2> QED
    BY <2>1, <2>2 DEF ProcessNext, dequeued
<1>6. /\ a = 1 => MailIn(q) = {}
      /\ k.waiting => OnlyQuits(q) /\ k.socket = "idle" /\ a = 0
      /\ Unused(k) => OnlyQuits(q)
  BY <1>3 DEF Unused
<1> HIDE DEF next, l
\* The queue is empty: the client has been deleted by nobody, and says that it has failed.
<1>7. CASE q = <<>>
  <2> DEFINE idle == [next EXCEPT !.inProgress = FALSE]
  <2>1. idle \in Clients /\ idle.queue = q /\ idle.stage = 0 /\ idle.waiting = k.waiting
        /\ ~idle.inProgress /\ idle.socket = k.socket /\ idle.signals = k.signals
    BY <1>4 DEF Clients
  <2>2. l = HandleDone(idle, FALSE)
    BY <1>5, <1>7
  <2> HIDE DEF idle
  <2>3. Same(idle, l) /\ l.failed /\ (Silent(idle) => Silent(l))
    BY <2>1, <2>2, Handling
  <2>4. k.socket # "idle" /\ ~k.waiting
    BY <1>3, <1>6, <1>7
  <2>5. Sound(idle, a)
    BY <1>7, <2>1, <2>4, NoCommands DEF Sound, Orderly, Accepting
  <2>6. Sound(l, a) /\ l.waiting = k.waiting /\ l.socket = k.socket
    BY <2>1, <2>3, <2>5, SameIsSound DEF Same
  <2>7. ~(~k.inProgress /\ k.queue # <<>>)
    BY <1>7 DEF q, Rest
  <2>8. (a = 0 => Silent(k)) => Honest(l, a)
    BY <2>1, <2>3 DEF Honest, Silent
  <2> QED
    BY <2>4, <2>6, <2>7, <2>8 DEF l, Unused
<1>8. CASE q # <<>> /\ Head(q) = "connect"
  <2> DEFINE m == [next EXCEPT !.socket = "connecting"]
  <2>1. m \in Clients /\ m.queue = q /\ m.stage = 0 /\ m.waiting = k.waiting
        /\ m.failed = k.failed /\ m.socket = "connecting" /\ m.signals = k.signals
    BY <1>4 DEF Clients
  <2>2. l = Busy(m)
    BY <1>5, <1>8 DEF Busy
  <2> HIDE DEF m
  <2>3. l \in Clients /\ l.queue = q /\ l.stage = 0 /\ l.waiting = k.waiting
        /\ l.failed = k.failed /\ l.socket = "connecting" /\ l.signals = k.signals /\ l.inProgress
    BY <2>1, <2>2, Beginning
  <2>4. ~OnlyQuits(q) /\ ~Stuck(q)
    BY <1>2, <1>8, HeadIsFirst DEF OnlyQuits, Stuck
  <2>5. Sound(l, a)
    BY <1>1, <1>2, <1>6, <1>8, <2>3, <2>4 DEF Sound, Orderly, Accepting, LastStage
  <2>6. (a = 0 => Silent(k) /\ (k.failed \/ MailIn(q) # {} \/ q = <<>>
                                  \/ (k.socket = "idle" /\ Stuck(q)))) => Honest(l, a)
    BY <1>8, <2>3, <2>4 DEF Honest, Silent
  <2>7. Silent(k) => Silent(l)
    BY <2>3 DEF Silent
  <2> QED
    BY <1>3, <1>6, <2>3, <2>4, <2>5, <2>6, <2>7 DEF l, q
<1>9. CASE q # <<>> /\ Head(q) = "quit"
  <2>1. l = Busy(SendQuit(next, atOnce))
    BY <1>5, <1>9 DEF Busy
  <2>2. k.socket # "idle" => QuitLast(q) /\ MailIn(q) = {} /\ ~k.waiting
    BY <1>2, <1>6, <1>9, QuitFirst
  <2>3. CASE k.socket # "up"
    <3>1. l = Busy(next)
      BY <1>4, <2>1, <2>3 DEF SendQuit
    <3>2. l \in Clients /\ l.queue = q /\ l.stage = 0 /\ l.waiting = k.waiting
          /\ l.failed = k.failed /\ l.socket = k.socket /\ l.signals = k.signals /\ l.inProgress
      BY <1>4, <3>1, Beginning
    <3>3. Sound(l, a)
      BY <1>1, <1>2, <1>6, <1>9, <2>2, <3>2 DEF Sound, Orderly, Accepting, LastStage, Unused
    <3>4. (a = 0 => Silent(k) /\ (k.failed \/ MailIn(q) # {} \/ q = <<>>
                                    \/ (k.socket = "idle" /\ Stuck(q)))) => Honest(l, a)
      BY <1>9, <2>2, <3>2 DEF Honest, Silent
    <3>5. Silent(k) => Silent(l)
      BY <3>2 DEF Silent
    <3>6. Unused(k) => Unused(l)
      BY <1>6, <3>2 DEF Unused
    <3> QED
      BY <1>9, <3>2, <3>3, <3>4, <3>5, <3>6 DEF l, q, Stuck
  <2>4. CASE k.socket = "up" /\ atOnce
    <3> DEFINE m == OnDisconnected(next)
    <3>1. l = Busy(m)
      BY <1>4, <2>1, <2>4 DEF SendQuit
    <3>2. ~next.waiting /\ QuitLast(next.queue)
      BY <1>4, <2>2, <2>4
    <3>3. /\ Sound(m, a) /\ m.socket = "closed" /\ ~m.waiting /\ MailIn(m.queue) = {}
          /\ m.queue = q
          /\ (a = 0 => Silent(next) /\ (next.failed \/ MailIn(next.queue) # {})) => Honest(m, a)
      BY <1>4, <1>9, <3>2, Disconnecting
    <3>4. m \in Clients
      BY <3>3 DEF Sound, Orderly
    <3> HIDE DEF m
    <3>5. l \in Clients /\ l.queue = q /\ l.stage = m.stage /\ ~l.waiting
          /\ l.failed = m.failed /\ l.socket = "closed" /\ l.signals = m.signals /\ l.inProgress
      BY <3>1, <3>3, <3>4, Beginning
    <3>6. Sound(l, a)
      BY <1>9, <2>2, <2>4, <3>3, <3>5 DEF Sound, Orderly, Accepting, OneMail
    <3>7. Honest(m, a) => Honest(l, a)
      BY <3>3, <3>5 DEF Honest
    <3>8. (a = 0 => Silent(k) /\ (k.failed \/ MailIn(q) # {} \/ q = <<>>
                                    \/ (k.socket = "idle" /\ Stuck(q)))) => Honest(l, a)
      BY <1>4, <1>9, <2>2, <2>4, <3>3, <3>7 DEF Silent
    <3> QED
      BY <2>2, <2>4, <3>5, <3>6, <3>8 DEF l, q, Unused
  <2>5. CASE k.socket = "up" /\ ~atOnce
    <3> DEFINE m == [next EXCEPT !.socket = "closing", !.owes = FALSE]
    <3>1. m \in Clients /\ m.queue = q /\ m.stage = 0 /\ m.waiting = k.waiting
          /\ m.failed = k.failed /\ m.socket = "closing" /\ m.signals = k.signals
      BY <1>4 DEF Clients
    <3>2. l = Busy(m)
      BY <1>4, <2>1, <2>5 DEF SendQuit
    <3> HIDE DEF m
    <3>3. l \in Clients /\ l.queue = q /\ l.stage = 0 /\ l.waiting = k.waiting
          /\ l.failed = k.failed /\ l.socket = "closing" /\ l.signals = k.signals /\ l.inProgress
      BY <3>1, <3>2, Beginning
    <3>4. Sound(l, a)
      BY <1>1, <1>2, <1>6, <1>9, <2>2, <2>5, <3>3 DEF Sound, Orderly, Accepting, LastStage
    <3>5. (a = 0 => Silent(k) /\ (k.failed \/ MailIn(q) # {} \/ q = <<>>
                                    \/ (k.socket = "idle" /\ Stuck(q)))) => Honest(l, a)
      BY <1>9, <2>2, <2>5, <3>3 DEF Honest, Silent
    <3>6. Silent(k) => Silent(l)
      BY <3>3 DEF Silent
    <3> QED
      BY <2>2, <2>5, <3>3, <3>4, <3>5, <3>6 DEF l, q, Unused
  <2> QED
    BY <2>3, <2>4, <2>5
<1>10. CASE q # <<>> /\ Head(q) \notin {"connect", "quit"}
  <2> DEFINE m == [next EXCEPT !.owes = (next.socket = "up")]
  <2>1. m \in Clients /\ m.queue = q /\ m.stage = 0 /\ m.waiting = k.waiting
        /\ m.failed = k.failed /\ m.socket = k.socket /\ m.signals = k.signals
    BY <1>4 DEF Clients
  <2>2. l = Busy(m)
    BY <1>5, <1>10 DEF Busy
  <2> HIDE DEF m
  <2>3. l \in Clients /\ l.queue = q /\ l.stage = 0 /\ l.waiting = k.waiting
        /\ l.failed = k.failed /\ l.socket = k.socket /\ l.signals = k.signals /\ l.inProgress
    BY <2>1, <2>2, Beginning
  <2>4. k.socket # "idle" /\ ~k.waiting /\ QuitLast(q)
    BY <1>2, <1>3, <1>6, <1>10
  <2>5. Sound(l, a)
    BY <1>1, <1>2, <1>6, <1>10, <2>3, <2>4 DEF Sound, Orderly, Accepting, LastStage
  <2>6. (a = 0 => Silent(k) /\ (k.failed \/ MailIn(q) # {} \/ q = <<>>
                                  \/ (k.socket = "idle" /\ Stuck(q)))) => Honest(l, a)
    BY <1>10, <2>3, <2>4 DEF Honest, Silent
  <2>7. Silent(k) => Silent(l)
    BY <2>3 DEF Silent
  <2> QED
    BY <2>3, <2>4, <2>5, <2>6, <2>7 DEF l, q, Unused
<1> QED
  BY <1>7, <1>8, <1>9, <1>10

\* Cancelled before it has connected: it never will, whatever else it is given.
Stopped(k) == k.socket = "idle" /\ k.inProgress /\ Stuck(k.queue)

Filled(k, q) == [k EXCEPT !.queue = q]
LEMMA Filling ==
    ASSUME NEW k \in Clients, NEW q \in Seq(SmtpCommands)
    PROVE  LET l == Filled(k, q)
           IN  /\ l \in Clients /\ l.queue = q /\ l.stage = k.stage /\ l.waiting = k.waiting
               /\ l.failed = k.failed /\ l.socket = k.socket /\ l.signals = k.signals
               /\ l.inProgress = k.inProgress /\ l.line = k.line /\ l.owes = k.owes
BY DEF Clients, Filled

\* SMTP::cancel: a client that is waiting is stopped for good.
LEMMA Cancelling ==
    ASSUME NEW k, NEW a, Sound(k, a)
    PROVE  LET l == Cancel(k)
           IN  /\ Sound(l, a) /\ (l.waiting <=> k.waiting)
               /\ Unused(k) => Unused(l) /\ Stopped(l)
               /\ Stopped(k) => Stopped(l)
               /\ Honest(k, a) => Honest(l, a)
<1> DEFINE q == k.queue \o <<"quit">>
           queued == Filled(k, q)
           left == Enqueue(k, <<"quit">>)
           l == Cancel(k)
<1>1. k \in Clients /\ a \in 0..1 /\ k.queue \in Seq(SmtpCommands) /\ k.waiting \in BOOLEAN
      /\ k.inProgress \in BOOLEAN /\ k.failed \in BOOLEAN
  BY ClientTypes DEF Sound, Orderly
<1>2. /\ q \in Seq(SmtpCommands) /\ q # <<>> /\ MailIn(q) = MailIn(k.queue)
      /\ OneMail(k.queue) => OneMail(q)
      /\ QuitLast(k.queue) => QuitLast(q)
      /\ OnlyQuits(k.queue) => OnlyQuits(q) /\ Head(q) = "quit"
      /\ k.queue # <<>> => Head(q) = Head(k.queue)
  BY <1>1, QuitQueued
<1>3. left = IF k.inProgress THEN queued ELSE ProcessNext(queued, FALSE)
  BY DEF Enqueue, Filled
<1> HIDE DEF q
<1>4. queued \in Clients /\ queued.queue = q /\ queued.stage = k.stage /\ queued.waiting = k.waiting
      /\ queued.failed = k.failed /\ queued.socket = k.socket /\ queued.signals = k.signals
      /\ queued.inProgress = k.inProgress /\ queued.line = k.line /\ queued.owes = k.owes
  BY <1>1, <1>2, Filling
<1> HIDE DEF queued, left
<1>5. /\ Sound(left, a) /\ (left.waiting <=> k.waiting)
      /\ Unused(k) => Unused(left) /\ Stopped(left)
      /\ Stopped(k) => Stopped(left)
      /\ Silent(k) => Silent(left)
  <2>1. CASE k.inProgress
    <3>1. left = queued /\ k.queue # <<>>
      BY <1>3, <2>1 DEF Sound, Orderly
    <3>2. Accepting(left) <=> Accepting(k)
      BY <1>2, <1>4, <3>1 DEF Accepting
    <3>3. Orderly(left, a)
      BY <1>1, <1>2, <1>4, <3>1 DEF Sound, Orderly, Unused
    <3>4. Sound(left, a)
      BY <1>2, <1>4, <3>1, <3>2, <3>3 DEF Sound
    <3> QED
      BY <1>1, <1>2, <1>4, <2>1, <3>1, <3>4 DEF Unused, Stopped, Stuck, Silent
  <2>2. CASE ~k.inProgress
    <3>1. left = ProcessNext(queued, FALSE)
      BY <1>3, <2>2
    <3>2. MailIn(k.queue) = {} /\ MailIn(q) = {} /\ OneMail(q) /\ QuitLast(q)
      BY <1>1, <1>2, <2>2 DEF Sound, Orderly, OneMail, QuitLast
    <3>3. queued.waiting => Unused(queued) /\ a = 0
      BY <1>2, <1>4 DEF Sound, Orderly, Unused
    <3>4. k.socket = "idle" => Stuck(q)
      BY <1>2, NoCommands DEF Sound, Orderly, Stuck
    <3>5. Rest(queued) = q
      BY <1>4, <2>2 DEF Rest
    <3>5a. Ready(queued, a)
      BY <1>1, <1>4, <2>2, <3>2, <3>3, <3>4, <3>5 DEF Ready, Stuck
    <3>6. /\ Sound(left, a)
          /\ Unused(queued) => Unused(left) /\ Stuck(left.queue) /\ left.inProgress
          /\ left.waiting <=> queued.waiting
          /\ left.signals = queued.signals
      BY <1>2, <1>4, <2>2, <3>1, <3>5a, Processing
    <3>7. (Unused(k) => Unused(queued)) /\ (Silent(k) => Silent(queued)) /\ (queued.waiting <=> k.waiting)
      BY <1>2, <1>4 DEF Unused, Silent
    <3>8. Unused(left) /\ Stuck(left.queue) /\ left.inProgress => Stopped(left)
      BY DEF Unused, Stopped
    <3>9. ~Stopped(k)
      BY <2>2 DEF Stopped
    <3>10. Silent(queued) => Silent(left)
      BY <3>6 DEF Silent
    <3> QED
      BY <3>6, <3>7, <3>8, <3>9, <3>10
  <2> QED
    BY <2>1, <2>2
<1>6. left \in Clients
  BY <1>5 DEF Sound, Orderly
<1>7. l = IF left.failed THEN left ELSE HandleError(left)
  BY DEF Cancel, left
<1>8. Same(left, left) /\ Same(left, HandleError(left)) /\ HandleError(left).failed
      /\ (Silent(left) => Silent(HandleError(left)))
  BY <1>6, Handling DEF Same
<1> HIDE DEF l
<1>9. Same(left, l) /\ l.failed /\ (Silent(left) => Silent(l))
  BY <1>7, <1>8
<1>10. Sound(l, a)
  BY <1>5, <1>9, SameIsSound
<1>11. Honest(k, a) => Honest(l, a)
  BY <1>5, <1>9 DEF Honest, Silent
<1>12. (Unused(left) => Unused(l)) /\ (Stopped(left) => Stopped(l)) /\ l.waiting = left.waiting
  BY <1>9 DEF Same, Unused, Stopped
<1> QED
  BY <1>5, <1>10, <1>11, <1>12 DEF l

----------------------------------------------------------------------------
(* The socket of a client. *)

\* What is known of a client that has a socket.
LEMMA WithSocket ==
    ASSUME NEW k, NEW a, Sound(k, a), k.socket # "idle"
    PROVE  /\ k \in Clients /\ a \in 0..1 /\ ~k.waiting /\ QuitLast(k.queue) /\ OneMail(k.queue)
           /\ k.queue \in Seq(SmtpCommands)
           /\ a = 1 /\ ~Accepting(k) => MailIn(k.queue) = {}
           /\ a = 1 /\ k.line # "ok" => MailIn(k.queue) = {}
BY ClientTypes DEF Sound, Orderly, Unused

\* The host is found, and the server has to greet.
Up(k) == [k EXCEPT !.socket = "up", !.owes = TRUE]
LEMMA Connecting ==
    ASSUME NEW k, NEW a, Sound(k, a), k.socket = "connecting"
    PROVE  /\ Sound(Up(k), a) /\ ~Up(k).waiting /\ Up(k).signals = k.signals
           /\ Honest(k, a) => Honest(Up(k), a)
<1> DEFINE l == Up(k)
<1>1. k \in Clients /\ a \in 0..1 /\ ~k.waiting /\ QuitLast(k.queue) /\ (a = 1 => MailIn(k.queue) = {})
  BY WithSocket DEF Sound
<1>2. l \in Clients /\ l.queue = k.queue /\ l.stage = k.stage /\ l.waiting = k.waiting
      /\ l.failed = k.failed /\ l.socket = "up" /\ l.signals = k.signals
      /\ l.inProgress = k.inProgress /\ l.line = k.line
  BY <1>1 DEF Clients, Up
<1> HIDE DEF l
<1>3. Orderly(l, a)
  BY <1>1, <1>2 DEF Sound, Orderly
<1>4. Sound(l, a)
  BY <1>1, <1>2, <1>3 DEF Sound, Accepting
<1>5. Honest(k, a) => Honest(l, a)
  BY <1>2 DEF Honest
<1> QED
  BY <1>1, <1>2, <1>4, <1>5 DEF l

\* The server answers; if that accepts the message, it has not been accepted before.
Answered(k, line) == [k EXCEPT !.line = line, !.owes = FALSE]
AcceptedNow(k, a, line) == IF line = "ok" /\ Accepting(k) THEN a + 1 ELSE a
LEMMA Answering ==
    ASSUME NEW k, NEW a, Sound(k, a), k.socket = "up", k.owes, NEW line \in {"ok", "no", "later"}
    PROVE  LET l == Answered(k, line)
               b == AcceptedNow(k, a, line)
           IN  /\ Sound(l, b) /\ b >= a /\ ~l.waiting /\ l.signals = k.signals
               /\ Honest(k, a) => Honest(l, b)
<1> DEFINE l == Answered(k, line)
           b == AcceptedNow(k, a, line)
<1>1. k \in Clients /\ a \in 0..1 /\ ~k.waiting /\ QuitLast(k.queue) /\ k.queue \in Seq(SmtpCommands)
  BY WithSocket
<1>2. l \in Clients /\ l.queue = k.queue /\ l.stage = k.stage /\ l.waiting = k.waiting
      /\ l.failed = k.failed /\ l.socket = "up" /\ l.signals = k.signals
      /\ l.inProgress = k.inProgress /\ l.line = line /\ ~l.owes
  BY <1>1 DEF Clients, Answered
<1> HIDE DEF l
<1>3. a = 1 => MailIn(k.queue) = {}
  BY DEF Sound
<1>4. Accepting(k) => MailIn(k.queue) # {}
  BY <1>1, HeadIsFirst DEF Accepting, MailIn
<1>5. Accepting(l) <=> Accepting(k)
  BY <1>2 DEF Accepting
<1>6. b \in 0..1 /\ b >= a /\ (b = 1 /\ a = 0 => line = "ok" /\ Accepting(k)) /\ (a = 1 => b = 1)
      /\ (line = "ok" /\ Accepting(k) => b = 1)
  BY <1>1, <1>3, <1>4 DEF AcceptedNow
<1> HIDE DEF b
<1>7. Orderly(l, b)
  BY <1>1, <1>2, <1>6 DEF Sound, Orderly
<1>8. Sound(l, b)
  BY <1>1, <1>2, <1>3, <1>5, <1>6, <1>7 DEF Sound
<1>9. Honest(k, a) => Honest(l, b)
  BY <1>1, <1>2, <1>6 DEF Honest
<1> QED
  BY <1>1, <1>2, <1>6, <1>8, <1>9 DEF l, b

\* The connection breaks: an error, and the QUIT of a client that is disconnected is no success.
LEMMA Breaking ==
    ASSUME NEW k, NEW a, Sound(k, a), k.socket # "idle"
    PROVE  LET l == OnError(k)
           IN  Sound(l, a) /\ ~l.waiting /\ (Honest(k, a) => Honest(l, a))
<1> DEFINE m == HandleError(k)
<1>1. k \in Clients /\ a \in 0..1 /\ ~k.waiting /\ QuitLast(k.queue)
  BY WithSocket
<1>2. Same(k, m) /\ m.failed /\ (Silent(k) => Silent(m))
  BY <1>1, Handling
<1> HIDE DEF m
<1>3. m \in Clients /\ ~m.waiting /\ QuitLast(m.queue)
  BY <1>1, <1>2 DEF Same
<1>4. Honest(k, a) => (a = 0 => Silent(m))
  BY <1>2 DEF Honest, Silent
<1>5. OnError(k) = OnDisconnected(m)
  BY DEF OnError, m
<1> QED
  BY <1>1, <1>2, <1>3, <1>4, <1>5, Disconnecting

\* The connection is closed after QUIT.
LEMMA Closing ==
    ASSUME NEW k, NEW a, Sound(k, a), k.socket # "idle"
    PROVE  LET l == OnDisconnected(k)
           IN  Sound(l, a) /\ ~l.waiting /\ (Honest(k, a) => Honest(l, a))
<1>1. k \in Clients /\ a \in 0..1 /\ ~k.waiting /\ QuitLast(k.queue)
  BY WithSocket
<1>2. Honest(k, a) => (a = 0 => Silent(k) /\ (k.failed \/ MailIn(k.queue) # {}))
  BY DEF Honest, Silent
<1> QED
  BY <1>1, <1>2, Disconnecting

\* An answer is read.
Read(k) == [k EXCEPT !.line = ""]
LEMMA Reading ==
    ASSUME NEW k, NEW a, Sound(k, a), k.socket = "up"
    PROVE  LET l == Read(k)
           IN  /\ l \in Clients /\ l.queue = k.queue /\ l.stage = k.stage /\ ~l.waiting
               /\ l.failed = k.failed /\ l.socket = "up" /\ l.signals = k.signals
               /\ l.inProgress = k.inProgress /\ l.line = ""
               /\ (a = 1 => MailIn(k.queue) = {}) => Sound(l, a)
               /\ Honest(k, a) => Honest(l, a)
<1> DEFINE l == Read(k)
<1>1. k \in Clients /\ a \in 0..1 /\ ~k.waiting /\ QuitLast(k.queue) /\ k.queue \in Seq(SmtpCommands)
  BY WithSocket
<1>2. l \in Clients /\ l.queue = k.queue /\ l.stage = k.stage /\ ~l.waiting
      /\ l.failed = k.failed /\ l.socket = "up" /\ l.signals = k.signals
      /\ l.inProgress = k.inProgress /\ l.line = ""
  BY <1>1 DEF Clients, Read
<1> HIDE DEF l
<1>3. Orderly(l, a)
  BY <1>1, <1>2 DEF Sound, Orderly
<1>4. (a = 1 => MailIn(k.queue) = {}) => Sound(l, a)
  BY <1>1, <1>2, <1>3 DEF Sound
<1>5. Honest(k, a) => Honest(l, a)
  BY <1>2 DEF Honest
<1> QED
  BY <1>2, <1>4, <1>5 DEF l

\* The next line of the command at the head is sent.
On(k, stage) == [Read(k) EXCEPT !.stage = stage, !.owes = TRUE]
LEMMA GoingOn ==
    ASSUME NEW k, NEW a, Sound(k, a), k.socket = "up", a = 1 => MailIn(k.queue) = {},
           NEW stage \in 0..3, k.queue # <<>> /\ Head(k.queue) = "burl" => stage <= 2
    PROVE  LET l == On(k, stage)
           IN  Sound(l, a) /\ ~l.waiting /\ (Honest(k, a) => Honest(l, a))
<1> DEFINE m == Read(k)
           l == On(k, stage)
<1>1. a \in 0..1 /\ QuitLast(k.queue) /\ k.queue \in Seq(SmtpCommands)
  BY WithSocket
<1>2. m \in Clients /\ m.queue = k.queue /\ ~m.waiting
      /\ m.failed = k.failed /\ m.socket = "up" /\ m.signals = k.signals
      /\ m.inProgress = k.inProgress /\ m.line = ""
  BY Reading
<1>3. l = [m EXCEPT !.stage = stage, !.owes = TRUE]
  BY DEF On
<1> HIDE DEF m, l
<1>4. l \in Clients /\ l.queue = k.queue /\ l.stage = stage /\ ~l.waiting
      /\ l.failed = k.failed /\ l.socket = "up" /\ l.signals = k.signals
      /\ l.inProgress = k.inProgress /\ l.line = ""
  BY <1>2, <1>3 DEF Clients
<1>5. Orderly(l, a)
  BY <1>1, <1>4 DEF Sound, Orderly
<1>6. Sound(l, a)
  BY <1>1, <1>4, <1>5 DEF Sound
<1>7. Honest(k, a) => Honest(l, a)
  BY <1>4 DEF Honest
<1> QED
  BY <1>4, <1>6, <1>7 DEF l

\* A command is done, or the message is accepted, and the next one begins.
LEMMA GoingOver ==
    ASSUME NEW k, NEW a, Sound(k, a), k.socket = "up", k.queue # <<>>, NEW atOnce \in BOOLEAN,
           \/ Head(k.queue) \notin {"mail", "burl"}
           \/ Accepting(k) /\ k.line = "ok"
    PROVE  LET l == ProcessNext(Read(k), atOnce)
           IN  Sound(l, a) /\ ~l.waiting /\ l.socket # "idle" /\ (Honest(k, a) => Honest(l, a))
<1> DEFINE m == Read(k)
<1>1. k \in Clients /\ a \in 0..1 /\ QuitLast(k.queue) /\ OneMail(k.queue) /\ k.queue \in Seq(SmtpCommands)
  BY WithSocket
<1>2. m \in Clients /\ m.queue = k.queue /\ ~m.waiting
      /\ m.failed = k.failed /\ m.socket = "up" /\ m.signals = k.signals
      /\ m.inProgress = k.inProgress
  BY Reading
<1> HIDE DEF m
<1>3. MailIn(k.queue) # {} => k.inProgress
  BY DEF Sound, Orderly
<1>4. 1 \in MailIn(k.queue) <=> Head(k.queue) \in {"mail", "burl"}
  <2>1. Head(k.queue) = k.queue[1] /\ 1 \in DOMAIN k.queue
    BY <1>1, HeadIsFirst
  <2> QED
    BY <2>1 DEF MailIn
<1>4a. /\ OneMail(k.queue) /\ 1 \in MailIn(k.queue) => MailIn(Tail(k.queue)) = {}
       /\ 1 \notin MailIn(k.queue) /\ MailIn(k.queue) # {} => MailIn(Tail(k.queue)) # {}
       /\ MailIn(k.queue) = {} => MailIn(Tail(k.queue)) = {}
  BY <1>1, Dequeuing
<1>4b. Accepting(k) => Head(k.queue) \in {"mail", "burl"}
  BY DEF Accepting
<1>5. Rest(m) = IF k.inProgress THEN Tail(k.queue) ELSE k.queue
  BY <1>2 DEF Rest
<1>6. a = 1 => MailIn(Rest(m)) = {}
  BY <1>1, <1>3, <1>4, <1>4a, <1>4b, <1>5 DEF Sound
<1>7. Ready(m, a)
  BY <1>1, <1>2, <1>6 DEF Ready
<1>8. a = 0 => 1 \notin MailIn(k.queue)
  BY <1>4 DEF Sound
<1>9. Honest(k, a) => (a = 0 => Silent(m) /\ (m.failed \/ MailIn(Rest(m)) # {}))
  <2> SUFFICES ASSUME Honest(k, a), a = 0 PROVE Silent(m) /\ (m.failed \/ MailIn(Rest(m)) # {})
    OBVIOUS
  <2>1. Silent(m)
    BY <1>2 DEF Honest, Silent
  <2>2. k.failed \/ MailIn(k.queue) # {}
    BY DEF Honest
  <2>3. MailIn(k.queue) # {} => MailIn(Rest(m)) # {}
    BY <1>3, <1>4a, <1>5, <1>8
  <2> QED
    BY <1>2, <2>1, <2>2, <2>3
<1> DEFINE l == ProcessNext(m, atOnce)
<1>10. /\ Sound(l, a) /\ (l.waiting <=> m.waiting) /\ (m.socket # "idle" => l.socket # "idle")
       /\ (a = 0 => Silent(m) /\ (\/ m.failed \/ MailIn(Rest(m)) # {} \/ Rest(m) = <<>>
                                  \/ m.socket = "idle" /\ Stuck(Rest(m)))) => Honest(l, a)
  BY <1>7, Processing
<1>11. l = ProcessNext(Read(k), atOnce)
  BY DEF m
<1> HIDE DEF l
<1> QED
  BY <1>2, <1>9, <1>10, <1>11

\* The server refuses a command: an error, once.
LEMMA Refusing ==
    ASSUME NEW k, NEW a, Sound(k, a), k.socket = "up", a = 1 => MailIn(k.queue) = {}
    PROVE  LET l == HandleDone(Read(k), FALSE)
           IN  /\ Same(Read(k), l) /\ l.failed /\ Sound(l, a) /\ ~l.waiting
               /\ Honest(k, a) => (a = 0 => Silent(l)) /\ Honest(l, a)
<1> DEFINE m == Read(k)
           l == HandleDone(m, FALSE)
<1>1. m \in Clients /\ ~m.waiting /\ Sound(m, a) /\ (Honest(k, a) => Honest(m, a))
  BY Reading
<1> HIDE DEF m
<1>2. Same(m, l) /\ l.failed /\ (Silent(m) => Silent(l))
  BY <1>1, Handling
<1> HIDE DEF l
<1>3. Sound(l, a) /\ ~l.waiting
  BY <1>1, <1>2, SameIsSound DEF Same
<1>4. Honest(k, a) => (a = 0 => Silent(l)) /\ Honest(l, a)
  BY <1>1, <1>2 DEF Honest, Silent
<1> QED
  BY <1>2, <1>3, <1>4 DEF l, m

\* _q_readFromSocket: with 421, "sent" may be said of a message that nobody has accepted.
LEMMA Receiving ==
    ASSUME NEW k, NEW a, Sound(k, a), k.socket = "up", NEW atOnce \in BOOLEAN
    PROVE  LET l == Received(k, atOnce)
           IN  Sound(l, a) /\ ~l.waiting /\ (Honest(k, a) /\ k.line # "later" => Honest(l, a))
<1> DEFINE read == Read(k)
           head == Head(k.queue)
           done == ProcessNext(read, atOnce)
           refused == HandleDone(read, FALSE)
           l == Received(k, atOnce)
           Good(x) == Sound(x, a) /\ ~x.waiting /\ (Honest(k, a) /\ k.line # "later" => Honest(x, a))
<1>1. k \in Clients /\ a \in 0..1 /\ QuitLast(k.queue) /\ OneMail(k.queue) /\ k.queue \in Seq(SmtpCommands)
      /\ k.stage \in 0..3 /\ (a = 1 /\ ~Accepting(k) => MailIn(k.queue) = {})
      /\ (a = 1 /\ k.line # "ok" => MailIn(k.queue) = {})
  BY WithSocket, ClientTypes
<1>2. l = IF k.queue = <<>> THEN read
          ELSE CASE head = "connect" /\ k.stage = 0 -> IF k.line = "ok" THEN On(k, 1) ELSE read
               [] head = "connect" /\ k.stage = 1 -> IF k.line = "ok" THEN done ELSE On(k, 2)
               [] head = "starttls" /\ k.line = "ok" -> IF k.stage = 0 THEN On(k, 1) ELSE done
               [] head = "auth" /\ k.line = "ok" -> done
               [] head \in {"starttls", "auth"} /\ k.line # "ok" -> refused
               [] head \in {"mail", "burl"} /\ k.line = "ok" ->
                      IF Accepting(k) THEN done ELSE On(k, k.stage + 1)
               [] head \in {"mail", "burl"} /\ k.line = "later" /\ k.stage = 0 ->
                      ProcessNext(HandleDone(done, FALSE), atOnce)
               [] head \in {"mail", "burl"} /\ k.line # "ok" /\ ~(k.line = "later" /\ k.stage = 0) ->
                      ProcessNext(refused, atOnce)
               [] OTHER -> read
  BY DEF Received, Read, On
<1>3. (a = 1 => MailIn(k.queue) = {}) => Good(read)
  BY Reading
<1>4. ASSUME NEW stage \in 0..3, a = 1 => MailIn(k.queue) = {},
             k.queue # <<>> /\ head = "burl" => stage <= 2
      PROVE  Good(On(k, stage))
  BY <1>4, GoingOn
<1>5. k.queue # <<>> /\ (head \notin {"mail", "burl"} \/ (Accepting(k) /\ k.line = "ok"))
         => Good(done) /\ done.socket # "idle"
  BY GoingOver
<1>6. (a = 1 => MailIn(k.queue) = {}) => /\ Good(refused) /\ Same(read, refused) /\ refused.failed
                                         /\ (Honest(k, a) => (a = 0 => Silent(refused)))
  BY Refusing
<1>7. Accepting(k) => head \in {"mail", "burl"}
  BY DEF Accepting
<1>8. k.queue # <<>> /\ head \in {"mail", "burl"} /\ a = 1 => Accepting(k) /\ k.line = "ok"
  <2> SUFFICES ASSUME k.queue # <<>>, head \in {"mail", "burl"}, MailIn(k.queue) = {} PROVE FALSE
    BY <1>1
  <2>1. Head(k.queue) = k.queue[1] /\ 1 \in DOMAIN k.queue
    BY <1>1, HeadIsFirst
  <2> QED
    BY <2>1 DEF MailIn
<1> HIDE DEF read, done, refused, l
<1>9. CASE k.queue = <<>> \/ head \notin {"mail", "burl"}
  <2>1. a = 1 => MailIn(k.queue) = {}
    BY <1>1, <1>7, <1>9 DEF Accepting
  <2>2. Good(read) /\ Good(refused)
    BY <1>3, <1>6, <2>1
  <2>3. k.queue # <<>> => Good(done)
    BY <1>5, <1>9
  <2>4. k.queue # <<>> => Good(On(k, 1)) /\ Good(On(k, 2))
    <3>1. 1 \in 0..3 /\ 2 \in 0..3
      OBVIOUS
    <3>2. 1 <= 2 /\ 2 <= 2
      OBVIOUS
    <3> HIDE DEF Good
    <3> QED
      BY <1>4, <2>1, <3>1, <3>2
  <2> HIDE DEF Good
  <2>5. Good(l)
    BY <1>2, <1>9, <2>2, <2>3, <2>4
  <2> QED
    BY <2>5 DEF Good, l
<1>10. CASE k.queue # <<>> /\ head \in {"mail", "burl"} /\ k.line = "ok"
  <2>1. CASE Accepting(k)
    <3>1. l = done
      BY <1>2, <1>10, <2>1
    <3> QED
      BY <1>5, <1>10, <2>1, <3>1 DEF l
  <2>2. CASE ~Accepting(k)
    <3>1. l = On(k, k.stage + 1)
      BY <1>2, <1>10, <2>2
    <3>2. head = "burl" => k.stage <= 2
      BY <1>10 DEF Sound, Orderly
    <3>3. k.stage + 1 \in 0..3 /\ (head = "burl" => k.stage + 1 <= 2)
      BY <1>1, <1>10, <2>2, <3>2 DEF Accepting, LastStage
    <3>4. a = 1 => MailIn(k.queue) = {}
      BY <1>1, <2>2
    <3> QED
      BY <1>4, <3>1, <3>3, <3>4 DEF l
  <2> QED
    BY <2>1, <2>2
<1>11. CASE k.queue # <<>> /\ head \in {"mail", "burl"} /\ k.line # "ok"
  <2>1. a = 0
    BY <1>1, <1>8, <1>11
  <2>2. Good(refused) /\ Same(read, refused) /\ refused.failed /\ (Honest(k, a) => Silent(refused))
    BY <1>6, <2>1
  <2>3. read \in Clients /\ read.socket = "up" /\ read.queue = k.queue
    BY Reading DEF read
  <2>4. refused \in Clients /\ refused.socket = "up" /\ refused.queue = k.queue /\ ~refused.waiting
    BY <2>2, <2>3 DEF Same
  <2>5. CASE ~(k.line = "later" /\ k.stage = 0)
    <3>1. l = ProcessNext(refused, atOnce)
      BY <1>2, <1>11, <2>5
    <3>2. Ready(refused, a)
      BY <1>1, <2>1, <2>4 DEF Ready
    <3> QED
      BY <2>1, <2>2, <2>4, <3>1, <3>2, Processing DEF l
  <2>6. CASE k.line = "later" /\ k.stage = 0
    <3> DEFINE after == HandleDone(done, FALSE)
    <3>1. l = ProcessNext(after, atOnce)
      BY <1>2, <1>11, <2>6
    <3>2. Sound(read, a)
      <4>1. a = 1 => MailIn(k.queue) = {}
        BY <2>1
      <4> QED
        BY <1>3, <4>1
    <3>3. Ready(read, a)
      <4>1. read.socket # "idle"
        BY <2>3
      <4>2. ~read.waiting /\ QuitLast(read.queue) /\ OneMail(read.queue)
        BY <3>2, <4>1, WithSocket
      <4> QED
        BY <1>1, <2>1, <2>3, <4>1, <4>2 DEF Ready
    <3>4. Sound(done, a) /\ done.socket # "idle" /\ done \in Clients
      <4>1. Sound(ProcessNext(read, atOnce), a)
            /\ (read.socket # "idle" => ProcessNext(read, atOnce).socket # "idle")
        BY <3>3, Processing
      <4>2. done = ProcessNext(read, atOnce)
        BY DEF done
      <4>3. Sound(done, a) /\ done.socket # "idle"
        BY <2>3, <4>1, <4>2
      <4> QED
        BY <4>3 DEF Sound, Orderly
    <3>5. Same(done, after)
      BY <3>4, Handling
    <3> HIDE DEF after
    <3>6. Sound(after, a) /\ after.socket # "idle"
      BY <3>4, <3>5, SameIsSound DEF Same
    <3>7. Ready(after, a)
      BY <2>1, <3>6 DEF Ready, Sound, Orderly, Unused
    <3> QED
      BY <2>6, <3>1, <3>6, <3>7, Processing, WithSocket DEF l
  <2> QED
    BY <2>5, <2>6
<1> QED
  BY <1>9, <1>10, <1>11

----------------------------------------------------------------------------
(* The dialog for one message. *)

\* The dialog for one message, queued behind nothing or behind the QUIT of a cancellation.
LEMMA DialogQueued ==
    ASSUME NEW q \in Seq(SmtpCommands), OnlyQuits(q), NEW command \in {"mail", "burl"}
    PROVE  LET r == q \o Dialog(command)
           IN  /\ r \in Seq(SmtpCommands) /\ r # <<>> /\ MailIn(r) # {} /\ OneMail(r)
               /\ q = <<>> => QuitLast(r) /\ Head(r) = "connect"
               /\ q # <<>> => Head(r) = "quit"
<1> DEFINE first == <<"connect">> \o (IF config.startTls THEN <<"starttls">> ELSE <<>>)
                    \o (IF config.auth # "none" THEN <<"auth">> ELSE <<>>)
           last == <<command, "quit">>
           d == first \o last
           r == q \o d
<1>1. first \in Seq(SmtpCommands) /\ MailIn(first) = {} /\ first # <<>> /\ first[1] = "connect"
      /\ \A i \in DOMAIN first : first[i] # "quit"
  <2> DEFINE Opening == {"connect", "starttls", "auth"}
             tls == IF config.startTls THEN <<"starttls">> ELSE <<>>
             auth == IF config.auth # "none" THEN <<"auth">> ELSE <<>>
             two == <<"connect">> \o tls
  <2>1. <<"connect">> \in Seq(Opening) /\ Len(<<"connect">>) = 1 /\ <<"connect">>[1] = "connect"
        /\ tls \in Seq(Opening) /\ auth \in Seq(Opening)
    <3>1. <<>> \in Seq(Opening)
      BY EmptySeq
    <3>2. <<"starttls">> \in Seq(Opening) /\ <<"auth">> \in Seq(Opening) /\ <<"connect">> \in Seq(Opening)
      OBVIOUS
    <3>3. Len(<<"connect">>) = 1 /\ <<"connect">>[1] = "connect"
      OBVIOUS
    <3> HIDE DEF Opening
    <3> QED
      BY <3>1, <3>2, <3>3
  <2> HIDE DEF tls, auth, Opening
  <2>2. two \in Seq(Opening) /\ Len(two) \in Nat /\ Len(two) > 0 /\ two[1] = "connect"
    BY <2>1, Joining
  <2> HIDE DEF two
  <2>3. two \o auth \in Seq(Opening) /\ Len(two \o auth) \in Nat /\ Len(two \o auth) > 0
        /\ (two \o auth)[1] = "connect"
    BY <2>1, <2>2, Joining
  <2>4. first = two \o auth
    BY DEF first, two, tls, auth
  <2> HIDE DEF first
  <2>5. first \in Seq(Opening) /\ Len(first) > 0 /\ first[1] = "connect"
    BY <2>3, <2>4
  <2>6. \A i \in DOMAIN first : first[i] \in Opening
    BY <2>5, ElementOfSeq, LenProperties
  <2>7. first \in Seq(SmtpCommands)
    BY <2>5 DEF Opening, SmtpCommands
  <2>8. first # <<>>
    BY <2>5, EmptySeq
  <2> QED
    BY <2>5, <2>6, <2>7, <2>8 DEF Opening, MailIn
<1>2. last \in Seq(SmtpCommands) /\ Len(last) = 2 /\ last[1] = command /\ last[2] = "quit"
  BY DEF SmtpCommands
<1> HIDE DEF first, last
<1>3. /\ d \in Seq(SmtpCommands) /\ Len(first) \in Nat /\ Len(first) > 0
      /\ DOMAIN first = 1..Len(first) /\ DOMAIN d = 1..(Len(first) + 2) /\ Len(d) = Len(first) + 2
      /\ \A i \in 1..Len(first) : d[i] = first[i]
      /\ d[Len(first) + 1] = command /\ d[Len(first) + 2] = "quit"
  <2>1. Len(first) > 0 /\ Len(first) \in Nat
    BY <1>1, LenProperties, EmptySeq
  <2>2. /\ d \in Seq(SmtpCommands) /\ Len(d) = Len(first) + Len(last)
        /\ DOMAIN d = 1..(Len(first) + Len(last)) /\ DOMAIN first = 1..Len(first)
        /\ \A i \in 1..Len(first) : d[i] = first[i]
        /\ \A i \in 1..Len(last) : d[Len(first) + i] = last[i]
    <3>1. first \in Seq(SmtpCommands) /\ last \in Seq(SmtpCommands)
      BY <1>1, <1>2
    <3>2. d \in Seq(SmtpCommands)
      BY <3>1, Joining
    <3>3. Len(d) = Len(first) + Len(last)
      BY <3>1, Joining
    <3>4. DOMAIN d = 1..(Len(first) + Len(last)) /\ DOMAIN first = 1..Len(first)
      BY <3>1, Joining
    <3>5. \A i \in 1..Len(first) : d[i] = first[i]
      BY <3>1, Joining
    <3>6. \A i \in 1..Len(last) : d[Len(first) + i] = last[i]
      BY <3>1, Joining
    <3> QED
      BY <3>2, <3>3, <3>4, <3>5, <3>6
  <2> HIDE DEF d
  <2> QED
    BY <1>2, <2>1, <2>2
<1>4. MailIn(d) = {Len(first) + 1}
  BY <1>1, <1>3 DEF MailIn
<1>5. QuitLast(d)
  BY <1>1, <1>3, <1>4 DEF QuitLast
<1>6. d # <<>> /\ Head(d) = "connect"
  BY <1>1, <1>3, EmptySeq, HeadIsFirst
<1> HIDE DEF d
<1>7. /\ r \in Seq(SmtpCommands) /\ Len(q) \in Nat /\ DOMAIN q = 1..Len(q)
      /\ DOMAIN r = 1..(Len(q) + Len(first) + 2)
      /\ \A i \in 1..Len(q) : r[i] = q[i]
      /\ \A i \in 1..(Len(first) + 2) : r[Len(q) + i] = d[i]
  <2>1. /\ r \in Seq(SmtpCommands) /\ Len(q) \in Nat /\ DOMAIN q = 1..Len(q)
        /\ DOMAIN r = 1..(Len(q) + Len(d))
        /\ \A i \in 1..Len(q) : r[i] = q[i]
        /\ \A i \in 1..Len(d) : r[Len(q) + i] = d[i]
    <3>1. r \in Seq(SmtpCommands) /\ Len(q) \in Nat /\ DOMAIN q = 1..Len(q)
      BY <1>3, Joining
    <3>2. DOMAIN r = 1..(Len(q) + Len(d))
      <4>1. Len(r) = Len(q) + Len(d)
        BY <1>3, Joining
      <4> HIDE DEF r
      <4> QED
        BY <3>1, <4>1, LenProperties
    <3>3. \A i \in 1..Len(q) : r[i] = q[i]
      BY <1>3, Joining
    <3>4. \A i \in 1..Len(d) : r[Len(q) + i] = d[i]
      BY <1>3, Joining
    <3> QED
      BY <3>1, <3>2, <3>3, <3>4
  <2> HIDE DEF r
  <2> QED
    BY <1>3, <2>1
<1>8. q = <<>> => r = d
  BY <1>3, ConcatEmptySeq
<1>9. q # <<>> => Head(r) = "quit" /\ r # <<>>
  <2>1. q # <<>> => r # <<>> /\ r[1] = "quit"
    BY <1>3, <1>7, EmptySeq DEF OnlyQuits
  <2> QED
    BY <2>1, <1>7, HeadIsFirst
<1>10. MailIn(r) = {Len(q) + Len(first) + 1}
  <2>1. \A i \in 1..Len(q) : i \notin MailIn(r)
    BY <1>7 DEF OnlyQuits, MailIn
  <2>2. \A i \in 1..(Len(first) + 2) : Len(q) + i \in MailIn(r) <=> i = Len(first) + 1
    BY <1>3, <1>4, <1>7 DEF MailIn
  <2>3. \A i \in DOMAIN r : i \in 1..Len(q) \/ \E j \in 1..(Len(first) + 2) : i = Len(q) + j
    <3> TAKE i \in DOMAIN r
    <3>1. i - Len(q) \in 1..(Len(first) + 2) \/ i \in 1..Len(q)
      BY <1>3, <1>7
    <3> QED
      BY <1>3, <1>7, <3>1
  <2>4. MailIn(r) \subseteq DOMAIN r
    BY DEF MailIn
  <2> QED
    BY <1>3, <1>7, <2>1, <2>2, <2>3, <2>4
<1>11. OneMail(r) /\ MailIn(r) # {}
  BY <1>10 DEF OneMail
<1>12. r = q \o Dialog(command)
  BY DEF Dialog, r, d, first, last
<1> QED
  BY <1>5, <1>6, <1>7, <1>8, <1>9, <1>11, <1>12

\* SMTP::sendContinueGotPassword: the message is given to a client that waits, and to no other.
LEMMA Continuing ==
    ASSUME NEW k, NEW a, Sound(k, a), k.waiting, NEW command \in {"mail", "burl"}
    PROVE  LET l == SendContinueGotPassword(k, Dialog(command))
           IN  /\ Sound(l, a) /\ ~l.waiting
               /\ l.signals = k.signals
               /\ Stopped(k) => Stopped(l)
               /\ Honest(k, a) => Honest(l, a)
<1> DEFINE q == k.queue \o Dialog(command)
           given == [k EXCEPT !.waiting = FALSE]
           queued == Filled(given, q)
           l == SendContinueGotPassword(k, Dialog(command))
<1>1. k \in Clients /\ k.queue \in Seq(SmtpCommands) /\ k.failed \in BOOLEAN /\ k.inProgress \in BOOLEAN
      /\ Unused(k) /\ a = 0 /\ OnlyQuits(k.queue)
  BY ClientTypes DEF Sound, Orderly, Unused
<1>2. /\ q \in Seq(SmtpCommands) /\ q # <<>> /\ MailIn(q) # {} /\ OneMail(q)
      /\ k.queue = <<>> => QuitLast(q) /\ Head(q) = "connect"
      /\ k.queue # <<>> => Head(q) = "quit"
  BY <1>1, DialogQueued
<1>3. given \in Clients /\ ~given.waiting /\ given.queue = k.queue /\ given.stage = k.stage
      /\ given.failed = k.failed /\ given.socket = k.socket /\ given.signals = k.signals
      /\ given.inProgress = k.inProgress /\ given.line = k.line
  BY <1>1 DEF Clients
<1>4. l = IF k.inProgress THEN queued ELSE ProcessNext(queued, FALSE)
  <2> HIDE DEF given
  <2> QED
    BY <1>3 DEF SendContinueGotPassword, Enqueue, Filled, given
<1> HIDE DEF q, given, l
<1>5. queued \in Clients /\ queued.queue = q /\ ~queued.waiting
      /\ queued.failed = k.failed /\ queued.socket = "idle" /\ queued.signals = k.signals
      /\ queued.inProgress = k.inProgress
  BY <1>1, <1>2, <1>3, Filling DEF Unused
<1> HIDE DEF queued
<1>6. CASE k.inProgress
  <2>1. l = queued /\ k.queue # <<>>
    BY <1>4, <1>6 DEF Sound, Orderly
  <2>2a. Head(l.queue) = "quit" /\ ~Accepting(l)
    BY <1>2, <1>5, <2>1 DEF Accepting
  <2>2b. Orderly(l, a)
    <3>1. l \in Clients /\ l.inProgress /\ l.queue # <<>> /\ OneMail(l.queue)
      <4>1. l = queued
        BY <2>1
      <4> QED
        BY <1>2, <1>5, <1>6, <4>1
    <3>3. a \in 0..1
      BY <1>1
    <3>2. l.socket = "idle" /\ Head(l.queue) = "quit" /\ ~l.waiting
      BY <1>5, <2>1, <2>2a
    <3> QED
      BY <3>1, <3>2, <3>3 DEF Orderly
  <2>2. Sound(l, a)
    BY <1>1, <2>2a, <2>2b DEF Sound
  <2>3. ~l.waiting /\ Stopped(l)
    BY <1>2, <1>5, <1>6, <2>1, <2>2a DEF Stopped, Stuck
  <2>4. Honest(k, a) => Honest(l, a)
    BY <1>5, <2>1 DEF Honest
  <2> QED
    BY <1>5, <2>1, <2>2, <2>3, <2>4 DEF l
<1>7. CASE ~k.inProgress
  <2>1. l = ProcessNext(queued, FALSE) /\ Rest(queued) = q
    BY <1>4, <1>5, <1>7 DEF Rest
  <2>2. QuitLast(q) \/ Stuck(q)
    BY <1>2 DEF Stuck
  <2>2a. Ready(queued, a)
    BY <1>1, <1>2, <1>5, <1>7, <2>1, <2>2 DEF Ready
  <2>2b. MailIn(Rest(queued)) # {}
    BY <1>2, <2>1
  <2>3. /\ Sound(l, a) /\ (l.waiting <=> queued.waiting)
        /\ l.signals = queued.signals
        /\ Silent(queued) => Honest(l, a)
    BY <1>2, <1>5, <1>7, <2>1, <2>2a, <2>2b, Processing
  <2>4. Honest(k, a) => Silent(queued)
    BY <1>1, <1>5 DEF Honest, Silent
  <2> QED
    BY <1>5, <1>7, <2>3, <2>4 DEF Stopped, l
<1> QED
  BY <1>6, <1>7

----------------------------------------------------------------------------
(* The slots of Submission. *)

Nows == [sub : Submissions, tasks : SUBSET Tasks, enabled : BOOLEAN,
         window : {"open", "closing", "closed"}]
Flag == Task("flags", attempt, 0)

\* What signals may do: the flags task may be started, and the window closes.
Follows(n, m) ==
    /\ m \in Nows /\ m.window \in {n.window, "closing"}
    /\ m.tasks = n.tasks \/ m.tasks = n.tasks \cup {Flag}
\* Nothing is said to be sent that was not before.
Modest(n, m) == m.tasks = n.tasks /\ m.sub.state \in {n.sub.state, "FAILED"}

LEMMA Failing ==
    ASSUME NEW n \in Nows
    PROVE  /\ GotError(n) \in Nows /\ GotError(n).tasks = n.tasks /\ GotError(n).window = n.window
           /\ GotError(n).sub.state = "FAILED"
<1> DEFINE s == [n.sub EXCEPT !.state = "FAILED"]
<1>1. s \in Submissions /\ s.state = "FAILED"
  BY DEF Nows, Submissions, States
<1>2. GotError(n) = [n EXCEPT !.sub = s, !.enabled = TRUE]
  BY DEF GotError, Nows
<1> HIDE DEF s
<1> QED
  BY <1>1, <1>2 DEF Nows

LEMMA Sending ==
    ASSUME NEW n \in Nows, attempt \in Texts
    PROVE  Flag \in Tasks /\ Follows(n, Sent(n)) /\ Follows(n, Succeeded(n)) /\ Succeeded(n).tasks = n.tasks
<1> DEFINE s == [n.sub EXCEPT !.state = "SENT"]
           u == [n.sub EXCEPT !.state = "UPDATING_FLAGS"]
<1>1. s \in Submissions /\ u \in Submissions
  BY DEF Nows, Submissions, States
<1>2. Flag \in Tasks
  BY DEF Flag, Task, Tasks
<1>3. Succeeded(n) = [n EXCEPT !.sub = s, !.window = "closing"]
  BY DEF Succeeded, Nows
<1>4. Sent(n) = IF config.reply THEN [n EXCEPT !.sub = u, !.tasks = n.tasks \cup {Flag}] ELSE Succeeded(n)
  BY DEF Sent, Nows, Flag
<1> HIDE DEF s, u
<1>5. Follows(n, Succeeded(n)) /\ Succeeded(n).tasks = n.tasks
  BY <1>1, <1>3 DEF Follows, Nows
<1>6. Follows(n, [n EXCEPT !.sub = u, !.tasks = n.tasks \cup {Flag}])
  BY <1>1, <1>2 DEF Follows, Nows
<1> QED
  BY <1>2, <1>4, <1>5, <1>6

LEMMA HandlingOne ==
    ASSUME NEW n, NEW m, Follows(n, m), attempt \in Texts, NEW x \in {"sent", "error"}
    PROVE  Follows(n, Handle(m, x)) /\ (x # "sent" /\ Modest(n, m) => Modest(n, Handle(m, x)))
<1>1. m \in Nows
  BY DEF Follows
<1>2. Follows(m, Sent(m)) /\ GotError(m) \in Nows /\ GotError(m).tasks = m.tasks
      /\ GotError(m).window = m.window /\ GotError(m).sub.state = "FAILED"
  BY <1>1, Failing, Sending
<1> QED
  BY <1>2 DEF Handle, Follows, Modest

\* The signals of an MSA, in their order. Induction over their number is by a least
\* counterexample.
LEMMA HandlingAll ==
    ASSUME NEW n \in Nows, attempt \in Texts, NEW s \in Seq({"sent", "error"})
    PROVE  LET m == HandleAll(n, s)
           IN  Follows(n, m) /\ ((\A i \in DOMAIN s : s[i] # "sent") => Modest(n, m))
<1> DEFINE N == Len(s)
           Steps(f, j) == f = [i \in 0..j |-> IF i = 0 THEN n ELSE Handle(f[i - 1], s[i])]
           Bad == {j \in 0..N : ~ \E f : Steps(f, j)}
           after == CHOOSE f : Steps(f, N)
           silent == \A i \in DOMAIN s : s[i] # "sent"
           Fine(m) == Follows(n, m) /\ (silent => Modest(n, m))
           Worse == {j \in 0..N : ~ Fine(after[j])}
<1>1. N \in Nat /\ DOMAIN s = 1..N /\ \A i \in 1..N : s[i] \in {"sent", "error"}
  BY LenProperties, ElementOfSeq
<1>2. HandleAll(n, s) = after[N]
  BY DEF HandleAll
<1> HIDE DEF N
<1>3. Bad = {}
  <2> SUFFICES ASSUME Bad # {} PROVE FALSE
    OBVIOUS
  <2>0. Bad \subseteq 0..N
    OBVIOUS
  <2>1. PICK j \in Bad : \A y \in Bad : j <= y
    <3> HIDE DEF Bad
    <3> QED
      BY <1>1, <2>0, LeastElement
  <2>2. j # 0
    <3>1. Steps([i \in 0..0 |-> n], 0)
      BY DEF Steps
    <3> QED
      BY <3>1
  <2>3. j \in Nat /\ j - 1 \in 0..N /\ j - 1 \notin Bad
    <3> HIDE DEF Bad
    <3> QED
      BY <1>1, <2>0, <2>1, <2>2
  <2>4. PICK f : Steps(f, j - 1)
    BY <2>3
  <2> DEFINE g == [i \in 0..j |-> IF i = j THEN Handle(f[j - 1], s[j]) ELSE f[i]]
  <2>5. \A i \in 0..(j - 1) : f[i] = IF i = 0 THEN n ELSE Handle(f[i - 1], s[i])
    BY <2>3, <2>4
  <2>6. \A i \in 0..j : g[i] = IF i = 0 THEN n ELSE Handle(g[i - 1], s[i])
    BY <2>2, <2>3, <2>5
  <2>7. Steps(g, j)
    BY <2>6
  <2> QED
    BY <2>1, <2>7
<1>4. Steps(after, N)
  BY <1>1, <1>3
<1> HIDE DEF after
<1>5. after[0] = n /\ \A i \in 1..N : after[i] = Handle(after[i - 1], s[i])
  BY <1>1, <1>4
<1> HIDE DEF Steps, Bad
<1>6. Worse = {}
  <2> SUFFICES ASSUME Worse # {} PROVE FALSE
    OBVIOUS
  <2>1. PICK j \in Worse : \A y \in Worse : j <= y
    BY <1>1, LeastElement
  <2>2. j # 0
    BY <1>5, <2>1 DEF Follows, Modest
  <2>3. j \in 1..N /\ j - 1 \in 0..N /\ j - 1 \notin Worse
    BY <1>1, <2>1, <2>2
  <2>4. Fine(after[j - 1]) /\ after[j] = Handle(after[j - 1], s[j])
    BY <1>5, <2>3
  <2>5. Fine(after[j])
    BY <1>1, <2>3, <2>4, HandlingOne
  <2> QED
    BY <2>1, <2>5
<1> QED
  BY <1>1, <1>2, <1>6

----------------------------------------------------------------------------
(* The inductive invariant. *)

\* An MSA and how it sends: only sendmail has a process, and only SMTP uses the client. What
\* was cancelled is stopped.
MsaSound(kind, m) ==
    /\ m \in Msas /\ Sound(m.client, m.accepted) /\ m.client.signals = <<>>
    /\ m.cancelled => Stopped(m.client) /\ m.accepted = 0
    /\ kind # "smtp" => Unused(m.client) /\ ~m.client.waiting /\ ~m.cancelled
    /\ m.process # "none" => kind = "sendmail" /\ m.accepted = 0
MsasSound(kind, ms) == ms \in Seq(Msas) /\ \A i \in DOMAIN ms : MsaSound(kind, ms[i])
Truthful(ms) == \A i \in DOMAIN ms : Honest(ms[i].client, ms[i].accepted)
Delivered(ms) == \E i \in DOMAIN ms : ms[i].accepted > 0

\* Tasks that may create an MSA, and tasks that send for one: each for its own.
Pending(ts) == {t \in ts : t.kind = "append" \/ (t.kind = "genurlauth" /\ ~t.done)}
Submits(ts) == {t \in ts : t.kind = "submit"}
Room(ts, n, most) == IsFiniteSet(ts) /\ Cardinality(Pending(ts)) + n <= most
Assigned(kind, ts, ms) ==
    /\ \A t \in Submits(ts) : /\ kind = "imap" /\ t.msa \in DOMAIN ms
                              /\ ms[t.msa].accepted = IF t.done THEN 1 ELSE 0
    /\ \A t, u \in Submits(ts) : t.msa = u.msa => t = u
\* The user is told, or will be, that the message is sent.
Claims(s, ts) == s.state = "SENT" \/ \E t \in ts : t.kind = "flags"

Inv ==
    /\ TypeOK
    /\ MsasSound(config.kind, msas) /\ (excuses = {} => Truthful(msas))
    /\ Room(tasks, Len(msas), attempt) /\ Assigned(config.kind, tasks, msas)
    /\ excuses = {} /\ window # "closed" /\ Claims(sub, tasks) => Delivered(msas)
    /\ window = "closed" => tasks = {} /\ msas = <<>>

LEMMA Adding ==
    ASSUME NEW ms \in Seq(Msas), NEW m \in Msas
    PROVE  LET ns == Append(ms, m)
           IN  /\ ns \in Seq(Msas) /\ Len(ns) = Len(ms) + 1 /\ Len(ms) \in Nat
               /\ DOMAIN ms = 1..Len(ms) /\ DOMAIN ns = 1..(Len(ms) + 1)
               /\ \A i \in 1..Len(ms) : ns[i] = ms[i]
               /\ ns[Len(ms) + 1] = m
<1> DEFINE ns == Append(ms, m)
<1>1. ns \in Seq(Msas) /\ Len(ns) = Len(ms) + 1 /\ ns[Len(ms) + 1] = m
      /\ \A i \in 1..Len(ms) : ns[i] = ms[i]
  BY AppendProperties
<1> HIDE DEF ns
<1>2. Len(ms) \in Nat /\ DOMAIN ms = 1..Len(ms) /\ DOMAIN ns = 1..(Len(ms) + 1)
  BY <1>1, LenProperties
<1> QED
  BY <1>1, <1>2 DEF ns

\* One more MSA, which has sent nothing yet, with or without a task that sends for it.
LEMMA OneMore ==
    ASSUME NEW kind, NEW ms, MsasSound(kind, ms), NEW m, MsaSound(kind, m), m.accepted = 0
    PROVE  LET ns == Append(ms, m)
           IN  /\ MsasSound(kind, ns) /\ Len(ns) = Len(ms) + 1
               /\ Truthful(ms) /\ Honest(m.client, m.accepted) => Truthful(ns)
               /\ Delivered(ms) => Delivered(ns)
               /\ \A ts : Assigned(kind, ts, ms) => Assigned(kind, ts, ns)
               /\ \A ts, t : /\ Assigned(kind, ts, ms) /\ kind = "imap" /\ ~t.done
                             /\ t.msa = Len(ms) + 1
                             => Assigned(kind, ts \cup {t}, ns)
<1> DEFINE ns == Append(ms, m)
<1>1. ms \in Seq(Msas) /\ m \in Msas
  BY DEF MsasSound, MsaSound
<1>2. /\ ns \in Seq(Msas) /\ Len(ns) = Len(ms) + 1 /\ Len(ms) \in Nat
      /\ DOMAIN ms = 1..Len(ms) /\ DOMAIN ns = 1..(Len(ms) + 1)
      /\ \A i \in 1..Len(ms) : ns[i] = ms[i]
      /\ ns[Len(ms) + 1] = m
  BY <1>1, Adding
<1> HIDE DEF ns
<1>3. \A i \in DOMAIN ns : (i \in DOMAIN ms /\ ns[i] = ms[i]) \/ ns[i] = m
  BY <1>2
<1>4. MsasSound(kind, ns)
  BY <1>2, <1>3 DEF MsasSound
<1>5. Truthful(ms) /\ Honest(m.client, m.accepted) => Truthful(ns)
  BY <1>3 DEF Truthful
<1>6. Delivered(ms) => Delivered(ns)
  BY <1>2 DEF Delivered
<1>7. ASSUME NEW ts, Assigned(kind, ts, ms) PROVE Assigned(kind, ts, ns)
  BY <1>2, <1>7 DEF Assigned
<1>8. ASSUME NEW ts, NEW t, Assigned(kind, ts, ms), kind = "imap", ~t.done, t.msa = Len(ms) + 1
      PROVE  Assigned(kind, ts \cup {t}, ns)
  <2>1. \A u \in Submits(ts \cup {t}) : u \in Submits(ts) \/ u = t
    BY DEF Submits
  <2>2. \A u \in Submits(ts) : u.msa \in 1..Len(ms) /\ ns[u.msa] = ms[u.msa] /\ u.msa # t.msa
    BY <1>2, <1>8 DEF Assigned
  <2>3. t.msa \in DOMAIN ns /\ ns[t.msa].accepted = 0
    BY <1>2, <1>8
  <2>4. \A u \in Submits(ts) : u.msa \in DOMAIN ns /\ ns[u.msa].accepted = IF u.done THEN 1 ELSE 0
    BY <1>2, <1>8, <2>2 DEF Assigned
  <2>5. \A u, v \in Submits(ts) : u.msa = v.msa => u = v
    BY <1>8 DEF Assigned
  <2> QED
    BY <1>8, <2>1, <2>2, <2>3, <2>4, <2>5 DEF Assigned
<1> QED
  BY <1>2, <1>4, <1>5, <1>6, <1>7, <1>8 DEF ns

\* One MSA becomes another.
LEMMA OneChanges ==
    ASSUME NEW kind, NEW ms, MsasSound(kind, ms), NEW i \in DOMAIN ms,
           NEW m, MsaSound(kind, m), m.accepted >= ms[i].accepted
    PROVE  LET ns == [ms EXCEPT ![i] = m]
           IN  /\ MsasSound(kind, ns) /\ Len(ns) = Len(ms) /\ DOMAIN ns = DOMAIN ms /\ ns[i] = m
               /\ \A j \in DOMAIN ms : j # i => ns[j] = ms[j]
               /\ Truthful(ms) /\ Honest(m.client, m.accepted) => Truthful(ns)
               /\ Delivered(ms) => Delivered(ns)
               /\ m.accepted > 0 => Delivered(ns)
               /\ m.accepted = ms[i].accepted =>
                      \A ts : Assigned(kind, ts, ms) => Assigned(kind, ts, ns)
<1> DEFINE ns == [ms EXCEPT ![i] = m]
<1>1. ms \in Seq(Msas) /\ m \in Msas /\ Len(ms) \in Nat /\ DOMAIN ms = 1..Len(ms)
  BY LenProperties DEF MsasSound, MsaSound
<1>2. /\ ns \in Seq(Msas) /\ Len(ns) = Len(ms) /\ DOMAIN ns = DOMAIN ms
      /\ ns[i] = m /\ \A j \in DOMAIN ms : j # i => ns[j] = ms[j]
  BY <1>1, ExceptSeq
<1> HIDE DEF ns
<1>3. MsasSound(kind, ns)
  BY <1>2 DEF MsasSound
<1>4. Truthful(ms) /\ Honest(m.client, m.accepted) => Truthful(ns)
  BY <1>2 DEF Truthful
<1>2a. \A j \in DOMAIN ms : ms[j] \in Msas
  BY <1>1, ElementOfSeq
<1>6. \A j \in DOMAIN ms : ms[j].accepted \in Nat
  BY <1>2a DEF Msas
<1>5. \A j \in DOMAIN ms : ns[j].accepted >= ms[j].accepted
  BY <1>2, <1>6
<1>7. m.accepted \in Nat
  BY <1>1 DEF Msas
<1>7a. \A j \in DOMAIN ns : ns[j].accepted \in Nat
  BY <1>2, <1>6, <1>7
<1>8. Delivered(ms) => Delivered(ns)
  BY <1>2, <1>5, <1>6, <1>7a DEF Delivered
<1>9. m.accepted > 0 => Delivered(ns)
  BY <1>2 DEF Delivered
<1>10. ASSUME m.accepted = ms[i].accepted, NEW ts, Assigned(kind, ts, ms)
       PROVE  Assigned(kind, ts, ns)
  BY <1>2, <1>10 DEF Assigned
<1> QED
  BY <1>2, <1>3, <1>4, <1>8, <1>9, <1>10 DEF ns

\* How the number of pending tasks changes.
LEMMA Counting ==
    ASSUME NEW ts, IsFiniteSet(ts), NEW us, IsFiniteSet(us)
    PROVE  /\ Cardinality(Pending(ts)) \in Nat /\ Cardinality(Pending(us)) \in Nat
           /\ Pending(us) \subseteq Pending(ts) => Cardinality(Pending(us)) <= Cardinality(Pending(ts))
           /\ \A t : Pending(us) \subseteq Pending(ts) \cup {t}
                        => Cardinality(Pending(us)) <= Cardinality(Pending(ts)) + 1
           /\ \A t \in Pending(ts) : Pending(us) \subseteq Pending(ts) \ {t}
                        => Cardinality(Pending(us)) + 1 <= Cardinality(Pending(ts))
           /\ \A t \in Pending(ts) : \A u : Pending(us) \subseteq (Pending(ts) \ {t}) \cup {u}
                        => Cardinality(Pending(us)) <= Cardinality(Pending(ts))
<1> DEFINE P == Pending(ts)
           Q == Pending(us)
<1>1. IsFiniteSet(P) /\ IsFiniteSet(Q)
  <2>1. P \in SUBSET ts /\ Q \in SUBSET us
    BY DEF Pending
  <2> QED
    BY <2>1, FS_Subset
<1> HIDE DEF P, Q
<1>2. Cardinality(P) \in Nat /\ Cardinality(Q) \in Nat
  BY <1>1, FS_CardinalityType
<1>3. ASSUME NEW R, IsFiniteSet(R), Q \subseteq R
      PROVE  Cardinality(R) \in Nat /\ Cardinality(Q) <= Cardinality(R)
  BY <1>3, FS_Subset, FS_CardinalityType
<1>4. \A t : IsFiniteSet(P \cup {t}) /\ Cardinality(P \cup {t}) <= Cardinality(P) + 1
  BY <1>1, <1>2, FS_AddElement
<1>5. \A t \in P : IsFiniteSet(P \ {t}) /\ Cardinality(P \ {t}) = Cardinality(P) - 1
  BY <1>1, <1>2, FS_RemoveElement
<1>6. \A t \in P : \A u : /\ IsFiniteSet((P \ {t}) \cup {u})
                          /\ Cardinality((P \ {t}) \cup {u}) <= Cardinality(P)
  <2> TAKE t \in P
  <2> TAKE u
  <2>1. IsFiniteSet(P \ {t}) /\ Cardinality(P \ {t}) = Cardinality(P) - 1
    BY <1>5
  <2> DEFINE R == P \ {t}
  <2>2. IsFiniteSet(R) /\ Cardinality(R) = Cardinality(P) - 1
    BY <2>1
  <2> HIDE DEF R
  <2>3. IsFiniteSet(R \cup {u})
        /\ Cardinality(R \cup {u}) = IF u \in R THEN Cardinality(R) ELSE Cardinality(R) + 1
    BY <2>2, FS_AddElement
  <2>4. Cardinality(R \cup {u}) <= Cardinality(P)
    BY <1>2, <2>2, <2>3
  <2> QED
    BY <2>3, <2>4 DEF R
<1>7. Q \subseteq P => Cardinality(Q) <= Cardinality(P)
  BY <1>1, <1>3
<1>8. \A t : Q \subseteq P \cup {t} => Cardinality(Q) <= Cardinality(P) + 1
  <2> TAKE t
  <2> DEFINE R == P \cup {t}
  <2>1. IsFiniteSet(R) /\ Cardinality(R) <= Cardinality(P) + 1
    BY <1>4
  <2> HIDE DEF R
  <2>2. Q \subseteq R => Cardinality(Q) <= Cardinality(P) + 1
    BY <1>2, <1>3, <2>1
  <2> QED
    BY <2>2 DEF R
<1>9. \A t \in P : Q \subseteq P \ {t} => Cardinality(Q) + 1 <= Cardinality(P)
  <2> TAKE t \in P
  <2> DEFINE R == P \ {t}
  <2>1. IsFiniteSet(R) /\ Cardinality(R) = Cardinality(P) - 1
    BY <1>5
  <2> HIDE DEF R
  <2>2. Q \subseteq R => Cardinality(Q) + 1 <= Cardinality(P)
    BY <1>2, <1>3, <2>1
  <2> QED
    BY <2>2 DEF R
<1>10. \A t \in P : \A u : Q \subseteq (P \ {t}) \cup {u} => Cardinality(Q) <= Cardinality(P)
  <2> TAKE t \in P
  <2> TAKE u
  <2> DEFINE R == (P \ {t}) \cup {u}
  <2>1. IsFiniteSet(R) /\ Cardinality(R) <= Cardinality(P)
    BY <1>6
  <2> HIDE DEF R
  <2>2. Q \subseteq R => Cardinality(Q) <= Cardinality(P)
    BY <1>2, <1>3, <2>1
  <2> QED
    BY <2>2 DEF R
<1> QED
  BY <1>2, <1>7, <1>8, <1>9, <1>10 DEF P, Q

\* The flags task makes no MSA and sends nothing.
LEMMA FlagAdds ==
    ASSUME NEW ts, NEW n, NEW most, Room(ts, n, most), NEW kind, NEW ms, Assigned(kind, ts, ms)
    PROVE  Room(ts \cup {Flag}, n, most) /\ Assigned(kind, ts \cup {Flag}, ms)
<1>1. Pending(ts \cup {Flag}) = Pending(ts) /\ Submits(ts \cup {Flag}) = Submits(ts)
  BY DEF Pending, Submits, Flag, Task
<1>2. IsFiniteSet(ts \cup {Flag})
  BY FS_AddElement DEF Room
<1> QED
  BY <1>1, <1>2 DEF Room, Assigned

----------------------------------------------------------------------------
(* A new MSA. *)

\* A client that has been given nothing, waiting for the password or not.
Waiting == [NewClient EXCEPT !.waiting = TRUE]
LEMMA NewIsSound ==
    /\ Sound(NewClient, 0) /\ Unused(NewClient) /\ ~NewClient.waiting /\ NewClient.signals = <<>>
    /\ Honest(NewClient, 0)
    /\ Sound(Waiting, 0) /\ Waiting.waiting /\ Waiting.signals = <<>> /\ Honest(Waiting, 0)
<1> DEFINE Fresh(k) == /\ k \in Clients /\ k.queue = <<>> /\ k.stage = 0 /\ ~k.inProgress /\ ~k.failed
                       /\ k.socket = "idle" /\ k.line = "" /\ k.signals = <<>>
<1>1. <<>> \in Seq(SmtpCommands) /\ <<>> \in Seq({"sent", "error"}) /\ DOMAIN <<>> = {}
  BY EmptySeq, NoCommands
<1>2. Fresh(NewClient) /\ ~NewClient.waiting
  BY <1>1 DEF NewClient, Clients
<1>3. Fresh(Waiting) /\ Waiting.waiting
  BY <1>2 DEF Waiting, Clients
<1>4. ASSUME NEW k, Fresh(k)
      PROVE  Sound(k, 0) /\ Unused(k) /\ Honest(k, 0)
  <2>1. Orderly(k, 0) /\ Unused(k)
    <3>1. MailIn(k.queue) = {} /\ OneMail(k.queue) /\ QuitLast(k.queue) /\ OnlyQuits(k.queue)
      BY <1>4, NoCommands
    <3>2. 0 \in 0..1
      OBVIOUS
    <3> QED
      BY <1>4, <3>1, <3>2 DEF Orderly, Unused
  <2>2. ~Accepting(k)
    BY <1>4 DEF Accepting
  <2>3. Honest(k, 0)
    BY <1>1, <1>4 DEF Honest
  <2> QED
    BY <2>1, <2>2, <2>3 DEF Sound
<1> QED
  BY <1>2, <1>3, <1>4

\* The fields of a new MSA that matter.
IsNew(m) == m \in Msas /\ m.client = NewClient /\ m.process = "none" /\ m.accepted = 0 /\ ~m.cancelled
LEMMA NewMsaIsNew ==
    ASSUME NEW s \in Submissions, attempt' \in Texts
    PROVE  IsNew(NewMsa(s)) /\ NewMsa(s).command \in {"mail", "burl"}
<1> DEFINE text == IF UsesBurl(s) THEN s.url ELSE s.raw
           command == IF UsesBurl(s) THEN "burl" ELSE "mail"
<1>1. text \in Texts /\ command \in {"mail", "burl"}
  BY DEF Submissions
<1>2. NewClient \in Clients
  BY NewIsSound DEF Sound, Orderly
<1>3. NewMsa(s) = [client |-> NewClient, attempt |-> attempt', text |-> text, command |-> command,
                   process |-> "none", accepted |-> 0, cancelled |-> FALSE]
  BY DEF NewMsa
<1> HIDE DEF text, command
<1> QED
  BY <1>1, <1>2, <1>3 DEF IsNew, Msas

\* A new MSA, as the four ways of sending leave it.
LEMMA MsaOfItsKind ==
    ASSUME NEW m, IsNew(m), NEW kind
    PROVE  /\ MsaSound(kind, m) /\ Honest(m.client, m.accepted)
           /\ \A text \in Texts :
                 LET n == [m EXCEPT !.text = text]
                 IN  MsaSound(kind, n) /\ n.accepted = 0 /\ Honest(n.client, n.accepted)
           /\ kind = "sendmail" =>
                 LET n == [m EXCEPT !.process = "running"]
                 IN  MsaSound(kind, n) /\ n.accepted = 0 /\ Honest(n.client, n.accepted)
           /\ kind = "smtp" =>
                 \A k \in Clients : Sound(k, 0) /\ k.signals = <<>> /\ Honest(k, 0) =>
                    LET n == [m EXCEPT !.client = k]
                    IN  MsaSound(kind, n) /\ n.accepted = 0 /\ Honest(n.client, n.accepted)
<1> USE DEF IsNew
<1>1. MsaSound(kind, m) /\ Honest(m.client, m.accepted)
  BY NewIsSound DEF MsaSound
<1>2. ASSUME NEW text \in Texts
      PROVE  LET n == [m EXCEPT !.text = text]
             IN  MsaSound(kind, n) /\ n.accepted = 0 /\ Honest(n.client, n.accepted)
  <2> DEFINE n == [m EXCEPT !.text = text]
  <2>1. n \in Msas /\ n.client = NewClient /\ n.process = "none" /\ n.accepted = 0 /\ ~n.cancelled
    BY <1>2 DEF Msas
  <2> HIDE DEF n
  <2>2. MsaSound(kind, n) /\ n.accepted = 0 /\ Honest(n.client, n.accepted)
    BY <2>1, NewIsSound DEF MsaSound
  <2> QED
    BY <2>2 DEF n
<1>3. ASSUME kind = "sendmail"
      PROVE  LET n == [m EXCEPT !.process = "running"]
             IN  MsaSound(kind, n) /\ n.accepted = 0 /\ Honest(n.client, n.accepted)
  <2> DEFINE n == [m EXCEPT !.process = "running"]
  <2>1. n \in Msas /\ n.client = NewClient /\ n.accepted = 0 /\ ~n.cancelled
    BY DEF Msas
  <2> HIDE DEF n
  <2>2. MsaSound(kind, n) /\ n.accepted = 0 /\ Honest(n.client, n.accepted)
    BY <1>3, <2>1, NewIsSound DEF MsaSound
  <2> QED
    BY <2>2 DEF n
<1>4. ASSUME kind = "smtp", NEW k \in Clients, Sound(k, 0), k.signals = <<>>, Honest(k, 0)
      PROVE  LET n == [m EXCEPT !.client = k]
             IN  MsaSound(kind, n) /\ n.accepted = 0 /\ Honest(n.client, n.accepted)
  <2> DEFINE n == [m EXCEPT !.client = k]
  <2>1. n \in Msas /\ n.client = k /\ n.process = "none" /\ n.accepted = 0 /\ ~n.cancelled
    BY <1>4 DEF Msas
  <2> HIDE DEF n
  <2>2. MsaSound(kind, n) /\ n.accepted = 0 /\ Honest(n.client, n.accepted)
    BY <1>4, <2>1 DEF MsaSound
  <2> QED
    BY <2>2 DEF n
<1> QED
  BY <1>1, <1>2, <1>3, <1>4

\* What slotInvokeMsaNow does to the rest of the state.
LEMMA InvokeMsaAdds ==
    ASSUME NEW n \in Nows, config \in AllConfigs, attempt' \in Texts, dialogs \in Nat,
           msas \in Seq(Msas), InvokeMsa(n)
    PROVE  /\ \E m : /\ msas' = Append(msas, m) /\ MsaSound(config.kind, m) /\ m.accepted = 0
                     /\ Honest(m.client, m.accepted)
           /\ sub' \in Submissions /\ sub'.state \in {"SUBMITTING", "FAILED"}
           /\ enabled' \in BOOLEAN /\ window' = n.window /\ dialogs' \in Nat
           /\ \/ tasks' = n.tasks
              \/ /\ config.kind = "imap"
                 /\ \E text \in Texts : tasks' = n.tasks \cup {Task("submit", text, Len(msas) + 1)}
<1> DEFINE s == n.sub
           submitting == [n EXCEPT !.sub.state = "SUBMITTING"]
           asking == [submitting EXCEPT !.tasks = @ \cup {Task("submit", s.uid, Len(msas) + 1)}]
           msa == NewMsa(s)
           kind == config.kind
           given == SendContinueGotPassword(Waiting, Dialog(msa.command))
           sound(m) == MsaSound(kind, m) /\ m.accepted = 0 /\ Honest(m.client, m.accepted)
<1>1. s \in Submissions /\ s.uid \in Texts /\ s.uidReceived \in BOOLEAN
  BY DEF Nows, Submissions
<1>2. IsNew(msa) /\ msa.command \in {"mail", "burl"} /\ sound(msa)
  BY <1>1, NewMsaIsNew, MsaOfItsKind DEF IsNew
<1>3. submitting \in Nows /\ submitting.window = n.window /\ submitting.tasks = n.tasks
      /\ submitting.sub.state = "SUBMITTING" /\ submitting.enabled = n.enabled
  BY DEF Nows, Submissions, States
<1>4. GotError(submitting) \in Nows /\ GotError(submitting).tasks = n.tasks
      /\ GotError(submitting).window = n.window /\ GotError(submitting).sub.state = "FAILED"
  BY <1>3, Failing
<1>5. asking = [submitting EXCEPT !.tasks = n.tasks \cup {Task("submit", s.uid, Len(msas) + 1)}]
  BY <1>3
<1>6. kind \in {"smtp", "sendmail", "imap"} /\ config.auth \in {"none", "stored", "ask"}
  BY DEF AllConfigs
<1> DEFINE Effects ==
             /\ sub' \in Submissions /\ sub'.state \in {"SUBMITTING", "FAILED"}
             /\ enabled' \in BOOLEAN /\ window' = n.window
<1> HIDE DEF submitting, asking
<1>7. Update(submitting) \/ Update(GotError(submitting)) => Effects /\ tasks' = n.tasks
  BY <1>3, <1>4 DEF Update, Nows
<1>8. Update(asking) => Effects /\ tasks' = n.tasks \cup {Task("submit", s.uid, Len(msas) + 1)}
  BY <1>3, <1>5 DEF Update, Nows
<1> HIDE DEF Effects, msa
<1>9. CASE kind = "imap"
  <2>1. CASE s.uidReceived
    <3>1. msas' = Append(msas, [msa EXCEPT !.text = s.uid]) /\ Update(asking) /\ dialogs' = dialogs
      BY <1>9, <2>1 DEF InvokeMsa, ImapSubmit, msa, asking, submitting
    <3>2. sound([msa EXCEPT !.text = s.uid])
      BY <1>1, <1>2, MsaOfItsKind
    <3> QED
      BY <1>1, <1>8, <1>9, <3>1, <3>2 DEF Effects
  <2>2. CASE ~s.uidReceived
    <3>1. msas' = Append(msas, msa) /\ Update(GotError(submitting)) /\ dialogs' = dialogs
      BY <1>9, <2>2 DEF InvokeMsa, ImapSubmit, msa, submitting
    <3> QED
      BY <1>2, <1>7, <3>1 DEF Effects
  <2> QED
    BY <2>1, <2>2
<1>10. CASE kind = "sendmail"
  <2>1. CASE UsesBurl(s)
    <3>1. msas' = Append(msas, msa) /\ Update(GotError(submitting)) /\ dialogs' = dialogs
      BY <1>10, <2>1 DEF InvokeMsa, ImapSubmit, msa, submitting
    <3> QED
      BY <1>2, <1>7, <3>1 DEF Effects
  <2>2. CASE ~UsesBurl(s)
    <3>1. msas' = Append(msas, [msa EXCEPT !.process = "running"]) /\ Update(submitting)
          /\ dialogs' = dialogs
      BY <1>10, <2>2 DEF InvokeMsa, ImapSubmit, msa, submitting
    <3>2. sound([msa EXCEPT !.process = "running"])
      BY <1>2, <1>10, MsaOfItsKind
    <3> QED
      BY <1>7, <3>1, <3>2 DEF Effects
  <2> QED
    BY <2>1, <2>2
<1>11. CASE kind = "smtp"
  <2>1. CASE config.auth = "ask"
    <3>1. msas' = Append(msas, [msa EXCEPT !.client = Waiting]) /\ Update(submitting)
          /\ dialogs' = dialogs + 1
      BY <1>11, <2>1 DEF InvokeMsa, ImapSubmit, msa, submitting, Waiting
    <3>2. Waiting \in Clients
      BY NewIsSound DEF Sound, Orderly
    <3>3. sound([msa EXCEPT !.client = Waiting])
      BY <1>2, <1>11, <3>2, NewIsSound, MsaOfItsKind
    <3>4. dialogs' \in Nat
      BY <3>1
    <3> QED
      BY <1>7, <3>1, <3>3, <3>4 DEF Effects
  <2>2. CASE config.auth # "ask"
    <3>1. msas' = Append(msas, [msa EXCEPT !.client = given]) /\ Update(submitting)
          /\ dialogs' = dialogs
      BY <1>11, <2>2 DEF InvokeMsa, ImapSubmit, msa, submitting, Waiting
    <3>2. Sound(given, 0) /\ given.signals = <<>> /\ Honest(given, 0)
      BY <1>2, NewIsSound, Continuing
    <3>3. given \in Clients
      BY <3>2 DEF Sound, Orderly
    <3> HIDE DEF given
    <3>4. sound([msa EXCEPT !.client = given])
      BY <1>2, <1>11, <3>2, <3>3, MsaOfItsKind
    <3> QED
      BY <1>7, <3>1, <3>4 DEF Effects
  <2> QED
    BY <2>1, <2>2
<1> QED
  BY <1>6, <1>9, <1>10, <1>11

LEMMA Invoking ==
    ASSUME Inv, window # "closed", NEW n \in Nows, n.window = window, attempt' \in Texts,
           Room(n.tasks, Len(msas) + 1, attempt'), Submits(n.tasks) = Submits(tasks),
           \A t \in n.tasks : t.kind = "flags" => t \in tasks,
           config' = config, excuses' = excuses, InvokeMsa(n)
    PROVE  Inv'
<1> DEFINE kind == config.kind
<1>1. /\ TypeOK /\ MsasSound(kind, msas) /\ (excuses = {} => Truthful(msas))
      /\ Assigned(kind, tasks, msas) /\ config \in AllConfigs
      /\ excuses = {} /\ window # "closed" /\ Claims(sub, tasks) => Delivered(msas)
  BY ConfigAssumption DEF Inv, TypeOK
<1>2. msas \in Seq(Msas) /\ Len(msas) \in Nat
  BY <1>1, LenProperties DEF MsasSound
<1>3. /\ \E m : /\ msas' = Append(msas, m) /\ MsaSound(kind, m) /\ m.accepted = 0
                /\ Honest(m.client, m.accepted)
      /\ sub' \in Submissions /\ sub'.state \in {"SUBMITTING", "FAILED"}
      /\ enabled' \in BOOLEAN /\ window' = n.window /\ dialogs' \in Nat
      /\ \/ tasks' = n.tasks
         \/ /\ kind = "imap"
            /\ \E text \in Texts : tasks' = n.tasks \cup {Task("submit", text, Len(msas) + 1)}
  BY <1>1, <1>2, InvokeMsaAdds DEF TypeOK
<1>4. PICK m : /\ msas' = Append(msas, m) /\ MsaSound(kind, m) /\ m.accepted = 0
               /\ Honest(m.client, m.accepted)
  BY <1>3
<1>5. /\ MsasSound(kind, msas') /\ Len(msas') = Len(msas) + 1
      /\ Truthful(msas) => Truthful(msas')
      /\ Delivered(msas) => Delivered(msas')
      /\ \A ts : Assigned(kind, ts, msas) => Assigned(kind, ts, msas')
      /\ \A ts, t : /\ Assigned(kind, ts, msas) /\ kind = "imap" /\ ~t.done
                    /\ t.msa = Len(msas) + 1
                    => Assigned(kind, ts \cup {t}, msas')
  BY <1>1, <1>4, OneMore
<1>6. Assigned(kind, n.tasks, msas)
  BY <1>1 DEF Assigned
<1>7. n.tasks \subseteq Tasks /\ IsFiniteSet(n.tasks)
  BY DEF Nows, Room
<1>8. /\ tasks' \subseteq Tasks /\ Room(tasks', Len(msas'), attempt') /\ Assigned(kind, tasks', msas')
      /\ \A t \in tasks' : t.kind = "flags" => t \in tasks
  <2>1. CASE tasks' = n.tasks
    BY <1>5, <1>6, <1>7, <2>1
  <2>2. ASSUME kind = "imap", NEW text \in Texts,
               tasks' = n.tasks \cup {Task("submit", text, Len(msas) + 1)}
        PROVE  /\ tasks' \subseteq Tasks /\ Room(tasks', Len(msas'), attempt')
               /\ Assigned(kind, tasks', msas')
               /\ \A t \in tasks' : t.kind = "flags" => t \in tasks
    <3> DEFINE t == Task("submit", text, Len(msas) + 1)
    <3>1. t \in Tasks /\ t.kind = "submit" /\ ~t.done /\ t.msa = Len(msas) + 1
      BY <1>2 DEF Task, Tasks
    <3> HIDE DEF t
    <3>2. tasks' = n.tasks \cup {t}
      BY <2>2 DEF t
    <3>3. Assigned(kind, tasks', msas')
      BY <1>5, <1>6, <2>2, <3>1, <3>2
    <3>4. Pending(tasks') = Pending(n.tasks)
      BY <3>1, <3>2 DEF Pending
    <3>5. IsFiniteSet(tasks')
      BY <1>7, <3>2, FS_AddElement
    <3>6. Room(tasks', Len(msas'), attempt')
      BY <1>5, <3>4, <3>5 DEF Room
    <3> QED
      BY <1>7, <3>1, <3>2, <3>3, <3>6
  <2> QED
    BY <1>3, <2>1, <2>2
<1>9. excuses' = {} /\ Claims(sub', tasks') => Delivered(msas')
  <2>1. Claims(sub', tasks') => Claims(sub, tasks)
    BY <1>3, <1>8 DEF Claims
  <2> QED
    BY <1>1, <1>5, <2>1
<1>10. TypeOK'
  BY <1>1, <1>3, <1>5, <1>8 DEF TypeOK, MsasSound
<1> QED
  BY <1>1, <1>3, <1>5, <1>8, <1>9, <1>10 DEF Inv

\* A slot that creates no MSA.
LEMMA NotInvoking ==
    ASSUME Inv, window # "closed", NEW n \in Nows, n.window \in {window, "closing"}, attempt' \in Texts,
           Room(n.tasks, Len(msas), attempt'), Assigned(config.kind, n.tasks, msas),
           excuses = {} /\ Claims(n.sub, n.tasks) => Delivered(msas),
           config' = config, excuses' = excuses, NoMsa(n)
    PROVE  Inv'
<1>1. sub' = n.sub /\ tasks' = n.tasks /\ enabled' = n.enabled /\ window' = n.window
      /\ msas' = msas /\ dialogs' = dialogs
  BY DEF NoMsa, Update
<1>2. sub' \in Submissions /\ tasks' \subseteq Tasks /\ enabled' \in BOOLEAN
  BY <1>1 DEF Nows
<1>3. TypeOK'
  BY <1>1, <1>2 DEF Inv, TypeOK
<1> QED
  BY <1>1, <1>3 DEF Inv

----------------------------------------------------------------------------
(* The user sends. *)

LEMMA NowIsNow ==
    ASSUME Inv
    PROVE  /\ Now \in Nows /\ Now.sub = sub /\ Now.tasks = tasks /\ Now.enabled = enabled
           /\ Now.window = window /\ config \in AllConfigs
           /\ IsFiniteSet(tasks) /\ Len(msas) \in Nat /\ DOMAIN msas = 1..Len(msas) /\ attempt \in Texts
           /\ Texts \subseteq Nat /\ Cardinality(Pending(tasks)) \in Nat
           /\ msas # <<>> \/ tasks # {} => window # "closed"
<1>1. msas \in Seq(Msas) /\ attempt \in Texts
  BY DEF Inv, TypeOK
<1>2. Len(msas) \in Nat /\ DOMAIN msas = 1..Len(msas)
  BY <1>1, LenProperties
<1>3. IsFiniteSet(tasks) /\ Cardinality(Pending(tasks)) \in Nat
  BY Counting DEF Inv, Room
<1>4. Now \in Nows /\ Now.sub = sub /\ Now.tasks = tasks /\ Now.enabled = enabled /\ Now.window = window
  BY DEF Now, Nows, Inv, TypeOK
<1> QED
  BY <1>1, <1>2, <1>3, <1>4, ConfigAssumption, AttemptAssumption DEF Inv, TypeOK, Texts

LEMMA SendKeeps == Inv /\ Send => Inv'
<1> SUFFICES ASSUME Inv, Send PROVE Inv'
  OBVIOUS
<1>1. PICK save \in BOOLEAN, burl \in BOOLEAN, built \in BOOLEAN :
         LET useBurl == burl /\ config.urlauth
             raw == IF BuildLocally(useBurl) /\ built THEN attempt + 1 ELSE 0
             started == [Now EXCEPT !.enabled = FALSE, !.sub.burl = useBurl, !.sub.raw = raw]
         IN  /\ window = "open" /\ enabled /\ attempt < MaxAttempts
             /\ ImapSubmit \/ burl => save
             /\ attempt' = attempt + 1
             /\ CASE ~built -> NoMsa(GotError(started))
                  [] built /\ save ->
                         NoMsa([started EXCEPT !.sub.state = "SAVING", !.sub.uidReceived = FALSE,
                                               !.sub.urlReceived = FALSE,
                                               !.tasks = @ \cup {Task("append", attempt + 1, 0)}])
                  [] OTHER -> InvokeMsa(started)
             /\ UNCHANGED <<config, excuses>>
  BY DEF Send
<1> DEFINE useBurl == burl /\ config.urlauth
           raw == IF BuildLocally(useBurl) /\ built THEN attempt + 1 ELSE 0
           started == [Now EXCEPT !.enabled = FALSE, !.sub.burl = useBurl, !.sub.raw = raw]
           append == Task("append", attempt + 1, 0)
           saving == [started EXCEPT !.sub.state = "SAVING", !.sub.uidReceived = FALSE,
                                     !.sub.urlReceived = FALSE, !.tasks = @ \cup {append}]
<1>2. /\ Now \in Nows /\ Now.sub = sub /\ Now.tasks = tasks /\ Now.enabled = enabled
      /\ Now.window = window /\ config \in AllConfigs
      /\ IsFiniteSet(tasks) /\ Len(msas) \in Nat /\ attempt \in Texts /\ Texts \subseteq Nat
      /\ Cardinality(Pending(tasks)) \in Nat
  BY NowIsNow
<1>3. attempt' \in Texts /\ attempt + 1 \in Texts /\ attempt' = attempt + 1 /\ 0 \in Texts
      /\ window = "open" /\ config' = config /\ excuses' = excuses
  BY <1>1, <1>2, AttemptAssumption DEF Texts
<1>4. useBurl \in BOOLEAN /\ raw \in Texts
  BY <1>2, <1>3 DEF AllConfigs
<1> HIDE DEF useBurl, raw
<1>5. started \in Nows /\ started.tasks = tasks /\ started.window = window
      /\ started.sub \in Submissions /\ started.sub.state = sub.state
  BY <1>2, <1>4 DEF Nows, Submissions
<1>6. append \in Tasks /\ append.kind = "append"
  BY <1>3, AttemptAssumption DEF Task, Tasks
<1> HIDE DEF append, started
<1>7. saving \in Nows /\ saving.tasks = tasks \cup {append} /\ saving.window = window
      /\ saving.sub.state = "SAVING"
  BY <1>5, <1>6 DEF Nows, Submissions, States
<1> HIDE DEF saving
<1>8. Room(tasks, Len(msas), attempt) /\ Assigned(config.kind, tasks, msas)
      /\ (excuses = {} /\ Claims(sub, tasks) => Delivered(msas))
  BY <1>3 DEF Inv
<1>9. Room(tasks, Len(msas) + 1, attempt')
  BY <1>2, <1>3, <1>8 DEF Room
<1>10. Room(tasks, Len(msas), attempt')
  BY <1>2, <1>3, <1>8 DEF Room
<1>11. CASE ~built
  <2>1. NoMsa(GotError(started))
    BY <1>1, <1>11 DEF started, useBurl, raw
  <2>2. GotError(started) \in Nows /\ GotError(started).tasks = tasks
        /\ GotError(started).window = window /\ GotError(started).sub.state = "FAILED"
    BY <1>5, Failing
  <2>3. Claims(GotError(started).sub, tasks) => Claims(sub, tasks)
    BY <2>2 DEF Claims
  <2> QED
    BY <1>3, <1>8, <1>10, <2>1, <2>2, <2>3, NotInvoking
<1>12. CASE built /\ save
  <2>1. NoMsa(saving)
    BY <1>1, <1>12 DEF started, useBurl, raw, saving, append
  <2>2. Claims(saving.sub, saving.tasks) => Claims(sub, tasks)
    BY <1>6, <1>7 DEF Claims
  <2>3. Submits(saving.tasks) = Submits(tasks)
    BY <1>6, <1>7 DEF Submits
  <2>4. IsFiniteSet(saving.tasks) /\ Pending(saving.tasks) \subseteq Pending(tasks) \cup {append}
    BY <1>2, <1>7, FS_AddElement DEF Pending
  <2>5. Room(saving.tasks, Len(msas), attempt')
    <3>1. Cardinality(Pending(saving.tasks)) \in Nat
          /\ Cardinality(Pending(saving.tasks)) <= Cardinality(Pending(tasks)) + 1
      BY <1>2, <2>4, Counting
    <3> QED
      BY <1>2, <1>3, <1>8, <2>4, <3>1 DEF Room
  <2>6. Assigned(config.kind, saving.tasks, msas)
    BY <1>8, <2>3 DEF Assigned
  <2> QED
    BY <1>3, <1>7, <1>8, <2>1, <2>2, <2>5, <2>6, NotInvoking
<1>13. CASE built /\ ~save
  <2>1. InvokeMsa(started)
    BY <1>1, <1>13 DEF started, useBurl, raw
  <2> QED
    BY <1>3, <1>5, <1>9, <2>1, Invoking
<1> QED
  BY <1>11, <1>12, <1>13

----------------------------------------------------------------------------
(* The IMAP tasks. *)

\* A task goes away, or is done: nothing is asked for twice.
LEMMA Leaving ==
    ASSUME Inv, NEW t \in tasks
    PROVE  LET us == tasks \ {t}
           IN  /\ us \subseteq Tasks /\ Room(us, Len(msas), attempt) /\ Assigned(config.kind, us, msas)
               /\ t \in Pending(tasks) => Room(us, Len(msas) + 1, attempt)
               /\ t.kind # "submit" => Submits(us) = Submits(tasks)
<1> DEFINE us == tasks \ {t}
<1>1. /\ IsFiniteSet(tasks) /\ Len(msas) \in Nat /\ attempt \in Nat
      /\ Cardinality(Pending(tasks)) \in Nat
      /\ Room(tasks, Len(msas), attempt) /\ Assigned(config.kind, tasks, msas) /\ tasks \subseteq Tasks
  BY NowIsNow DEF Inv, TypeOK
<1>2. us \subseteq Tasks /\ IsFiniteSet(us)
  BY <1>1, FS_RemoveElement
<1>3. Pending(us) \subseteq Pending(tasks) /\ Pending(us) \subseteq Pending(tasks) \ {t}
  BY DEF Pending
<1>4. Submits(us) \subseteq Submits(tasks) /\ (t.kind # "submit" => Submits(us) = Submits(tasks))
  BY DEF Submits
<1> HIDE DEF us
<1>5. /\ Cardinality(Pending(us)) \in Nat
      /\ Cardinality(Pending(us)) <= Cardinality(Pending(tasks))
      /\ t \in Pending(tasks) => Cardinality(Pending(us)) + 1 <= Cardinality(Pending(tasks))
  BY <1>1, <1>2, <1>3, Counting
<1>6. Room(us, Len(msas), attempt) /\ (t \in Pending(tasks) => Room(us, Len(msas) + 1, attempt))
  BY <1>1, <1>2, <1>5 DEF Room
<1>7. Assigned(config.kind, us, msas)
  BY <1>1, <1>4 DEF Assigned
<1> QED
  BY <1>2, <1>4, <1>6, <1>7 DEF us

LEMMA WithoutIsNow ==
    ASSUME Inv, NEW t \in tasks
    PROVE  /\ Without(t) \in Nows /\ Without(t).tasks = tasks \ {t} /\ Without(t).window = window
           /\ Without(t).sub = sub /\ Without(t).sub \in Submissions /\ Without(t).enabled = enabled
BY NowIsNow DEF Without, Nows

\* A task ends and is not replaced.
LEMMA EndingKeeps ==
    ASSUME Inv, NEW t \in tasks, UrlAuthCompleted(t) \/ TaskFails(t) PROVE Inv'
<1> DEFINE n == Without(t)
<1>1. n \in Nows /\ n.tasks = tasks \ {t} /\ n.window = window /\ n.sub = sub
  BY WithoutIsNow
<1>2. Room(n.tasks, Len(msas), attempt) /\ Assigned(config.kind, n.tasks, msas)
  BY <1>1, Leaving
<1>3. window # "closed" /\ attempt \in Texts
  BY NowIsNow
<1>4. Claims(sub, n.tasks) => Claims(sub, tasks)
  BY <1>1 DEF Claims
<1>5. excuses = {} /\ Claims(sub, tasks) => Delivered(msas)
  BY <1>3 DEF Inv
<1>6. CASE UrlAuthCompleted(t)
  <2>1. NoMsa(n) /\ config' = config /\ excuses' = excuses /\ attempt' = attempt
    BY <1>6 DEF UrlAuthCompleted, Elsewhere
  <2> HIDE DEF n
  <2> QED
    BY <1>1, <1>2, <1>3, <1>4, <1>5, <2>1, NotInvoking
<1>7. CASE TaskFails(t)
  <2>1. NoMsa(GotError(n)) /\ config' = config /\ excuses' = excuses /\ attempt' = attempt
    BY <1>7 DEF TaskFails, Elsewhere
  <2> HIDE DEF n
  <2>2. GotError(n) \in Nows /\ GotError(n).tasks = n.tasks /\ GotError(n).window = window
        /\ GotError(n).sub.state = "FAILED"
    BY <1>1, Failing
  <2>3. Claims(GotError(n).sub, n.tasks) => Claims(sub, tasks)
    BY <1>4, <2>2 DEF Claims
  <2> QED
    BY <1>2, <1>3, <1>5, <2>1, <2>2, <2>3, NotInvoking
<1> QED
  BY <1>6, <1>7

\* The flags are updated: they are those of a message that has been delivered.
LEMMA FlagsKeep ==
    ASSUME Inv, NEW t \in tasks, FlagsUpdated(t) PROVE Inv'
<1> DEFINE n == Without(t)
<1>1. n \in Nows /\ n.tasks = tasks \ {t} /\ n.window = window
  BY WithoutIsNow
<1>2. Room(n.tasks, Len(msas), attempt) /\ Assigned(config.kind, n.tasks, msas)
  BY <1>1, Leaving
<1>3. window # "closed" /\ attempt \in Texts
  BY NowIsNow
<1>4. Claims(sub, tasks) /\ (excuses = {} => Delivered(msas))
  BY <1>3 DEF Inv, Claims, FlagsUpdated
<1>5. NoMsa(Succeeded(n)) /\ config' = config /\ excuses' = excuses /\ attempt' = attempt
  BY DEF FlagsUpdated, Elsewhere
<1> HIDE DEF n
<1>6. Succeeded(n) \in Nows /\ Succeeded(n).window \in {window, "closing"} /\ Succeeded(n).tasks = n.tasks
  BY <1>1, <1>3, Sending DEF Follows
<1> QED
  BY <1>2, <1>3, <1>4, <1>5, <1>6, NotInvoking

\* The message has been submitted, and the task is the one that did it.
LEMMA SubmitKeeps ==
    ASSUME Inv, NEW t \in tasks, SubmitCompleted(t) PROVE Inv'
<1> DEFINE n == Without(t)
<1>1. n \in Nows /\ n.tasks = tasks \ {t} /\ n.window = window
  BY WithoutIsNow
<1>2. Room(n.tasks, Len(msas), attempt) /\ Assigned(config.kind, n.tasks, msas)
  BY <1>1, Leaving
<1>3. window # "closed" /\ attempt \in Texts
  BY NowIsNow
<1>4. Delivered(msas)
  BY DEF Inv, Assigned, Submits, SubmitCompleted, Delivered
<1>5. NoMsa(Sent(n)) /\ config' = config /\ excuses' = excuses /\ attempt' = attempt
  BY DEF SubmitCompleted, Elsewhere
<1> HIDE DEF n
<1>6. Sent(n) \in Nows /\ Sent(n).window \in {window, "closing"} /\ Flag \in Tasks
      /\ (Sent(n).tasks = n.tasks \/ Sent(n).tasks = n.tasks \cup {Flag})
  BY <1>1, <1>3, Sending DEF Follows
<1>7. Room(Sent(n).tasks, Len(msas), attempt) /\ Assigned(config.kind, Sent(n).tasks, msas)
  BY <1>2, <1>6, FlagAdds
<1> QED
  BY <1>3, <1>4, <1>5, <1>6, <1>7, NotInvoking

\* The message is in the mailbox, and its UID is known or not.
LEMMA AppendKeeps ==
    ASSUME Inv, NEW t \in tasks, AppendSucceeded(t) PROVE Inv'
<1>1. PICK uid \in {0, t.text} :
         LET known == [Without(t) EXCEPT !.sub.uid = IF uid = 0 THEN @ ELSE uid]
             received == [known EXCEPT !.sub.uidReceived = TRUE]
         IN  /\ Running(t) /\ t.kind = "append" /\ Elsewhere
             /\ CASE known.sub.uid = 0 -> InvokeMsa([known EXCEPT !.sub.burl = FALSE])
                  [] known.sub.uid # 0 /\ known.sub.burl ->
                         NoMsa([received EXCEPT !.sub.state = "PREPARING_URLAUTH",
                                                !.tasks = @ \cup {Task("genurlauth", known.sub.uid, 0)}])
                  [] OTHER -> InvokeMsa(received)
  BY DEF AppendSucceeded
<1> DEFINE known == [Without(t) EXCEPT !.sub.uid = IF uid = 0 THEN @ ELSE uid]
           received == [known EXCEPT !.sub.uidReceived = TRUE]
           plain == [known EXCEPT !.sub.burl = FALSE]
           url == Task("genurlauth", known.sub.uid, 0)
           asking == [received EXCEPT !.sub.state = "PREPARING_URLAUTH", !.tasks = @ \cup {url}]
           us == tasks \ {t}
<1>2. /\ Without(t) \in Nows /\ Without(t).tasks = us /\ Without(t).window = window
      /\ Without(t).sub \in Submissions /\ Without(t).sub = sub
  BY WithoutIsNow
<1>3. window # "closed" /\ attempt \in Texts /\ t \in Tasks /\ IsFiniteSet(tasks)
      /\ Cardinality(Pending(tasks)) \in Nat /\ Len(msas) \in Nat /\ attempt \in Nat
  BY NowIsNow DEF Inv, TypeOK
<1>4. uid \in Texts /\ t.kind = "append" /\ t \in Pending(tasks)
      /\ config' = config /\ excuses' = excuses /\ attempt' = attempt
  <2>1. t.text \in Texts
    BY <1>3 DEF Tasks
  <2>2. 0 \in Texts
    BY AttemptAssumption DEF Texts
  <2>3. t.kind = "append" /\ t \in Pending(tasks)
    BY <1>1 DEF Pending
  <2> QED
    BY <1>1, <2>1, <2>2, <2>3 DEF Elsewhere
<1>5. /\ us \subseteq Tasks /\ Assigned(config.kind, us, msas) /\ Room(us, Len(msas) + 1, attempt)
      /\ Submits(us) = Submits(tasks)
  BY <1>4, Leaving
<1>6. known \in Nows /\ known.tasks = us /\ known.window = window /\ known.sub \in Submissions
      /\ known.sub.uid \in Texts /\ known.sub.state = sub.state
  <2> HIDE DEF us
  <2> QED
    BY <1>2, <1>4 DEF Nows, Submissions
<1> HIDE DEF known, us
<1>7. received \in Nows /\ received.tasks = us /\ received.window = window /\ received.sub \in Submissions
  BY <1>6 DEF Nows, Submissions
<1>8. plain \in Nows /\ plain.tasks = us /\ plain.window = window
  BY <1>6 DEF Nows, Submissions
<1>9. url \in Tasks /\ url.kind = "genurlauth" /\ url.text = known.sub.uid
  BY <1>6 DEF Task, Tasks
<1> HIDE DEF received, plain, url
<1>10. asking \in Nows /\ asking.tasks = us \cup {url} /\ asking.window = window
       /\ asking.sub.state = "PREPARING_URLAUTH"
  BY <1>7, <1>9 DEF Nows, Submissions, States
<1> HIDE DEF asking
<1>11. \A u \in us : u \in tasks
  BY DEF us
<1>12. CASE known.sub.uid = 0
  <2>1. InvokeMsa(plain)
    BY <1>1, <1>12 DEF known, plain
  <2> QED
    BY <1>3, <1>4, <1>5, <1>8, <1>11, <2>1, Invoking
<1>13. CASE known.sub.uid # 0 /\ known.sub.burl
  <2>1. NoMsa(asking)
    BY <1>1, <1>13 DEF known, received, url, asking
  <2>2. Claims(asking.sub, asking.tasks) => Claims(sub, tasks)
    BY <1>9, <1>10, <1>11 DEF Claims
  <2>3. excuses = {} /\ Claims(sub, tasks) => Delivered(msas)
    BY <1>3 DEF Inv
  <2>4. Submits(asking.tasks) = Submits(us)
    BY <1>9, <1>10 DEF Submits
  <2>5. Assigned(config.kind, asking.tasks, msas)
    BY <1>5, <2>4 DEF Assigned
  <2>6. IsFiniteSet(us)
    BY <1>5 DEF Room
  <2>7. IsFiniteSet(asking.tasks) /\ Pending(asking.tasks) \subseteq Pending(us) \cup {url}
    BY <1>10, <2>6, FS_AddElement DEF Pending
  <2>8. /\ Cardinality(Pending(us)) \in Nat /\ Cardinality(Pending(asking.tasks)) \in Nat
        /\ Cardinality(Pending(asking.tasks)) <= Cardinality(Pending(us)) + 1
    BY <2>6, <2>7, Counting
  <2>9. Room(asking.tasks, Len(msas), attempt)
    BY <1>3, <1>5, <2>7, <2>8 DEF Room
  <2> QED
    BY <1>3, <1>4, <1>10, <2>1, <2>2, <2>3, <2>5, <2>9, NotInvoking
<1>14. CASE known.sub.uid # 0 /\ ~known.sub.burl
  <2>1. InvokeMsa(received)
    BY <1>1, <1>14 DEF known, received
  <2> QED
    BY <1>3, <1>4, <1>5, <1>7, <1>11, <2>1, Invoking
<1> QED
  BY <1>12, <1>13, <1>14

\* A task that is done and not yet complete.
LEMMA DoneIsNow ==
    ASSUME Inv, NEW t \in tasks
    PROVE  LET d == [t EXCEPT !.done = TRUE]
           IN  /\ d \in Tasks /\ d.kind = t.kind /\ d.done /\ d.msa = t.msa
               /\ Done(t) \in Nows /\ Done(t).tasks = (tasks \ {t}) \cup {d} /\ Done(t).window = window
               /\ Done(t).sub = sub /\ Done(t).sub \in Submissions /\ Done(t).enabled = enabled
               /\ IsFiniteSet(Done(t).tasks) /\ Pending(Done(t).tasks) \subseteq Pending(tasks \ {t}) \cup {d}
               /\ Claims(sub, Done(t).tasks) => Claims(sub, tasks)
<1> DEFINE d == [t EXCEPT !.done = TRUE]
<1>1. t \in Tasks /\ Now \in Nows /\ Now.tasks = tasks /\ Now.window = window /\ Now.sub = sub
      /\ Now.enabled = enabled /\ IsFiniteSet(tasks)
  BY NowIsNow DEF Inv, TypeOK
<1>2. d \in Tasks /\ d.kind = t.kind /\ d.done /\ d.msa = t.msa
  BY <1>1 DEF Tasks
<1>3. Done(t) = [Now EXCEPT !.tasks = (tasks \ {t}) \cup {d}]
  BY <1>1 DEF Done
<1> HIDE DEF d
<1>4. /\ Done(t) \in Nows /\ Done(t).tasks = (tasks \ {t}) \cup {d} /\ Done(t).window = window
      /\ Done(t).sub = sub /\ Done(t).sub \in Submissions /\ Done(t).enabled = enabled
  BY <1>1, <1>2, <1>3 DEF Nows
<1>5. IsFiniteSet((tasks \ {t}) \cup {d})
  <2>1. IsFiniteSet(tasks \ {t})
    BY <1>1, FS_RemoveElement
  <2> QED
    BY <2>1, FS_AddElement
<1>6. Pending((tasks \ {t}) \cup {d}) \subseteq Pending(tasks \ {t}) \cup {d}
  BY DEF Pending
<1>7. Claims(sub, (tasks \ {t}) \cup {d}) => Claims(sub, tasks)
  BY <1>2 DEF Claims
<1> QED
  BY <1>2, <1>4, <1>5, <1>6, <1>7 DEF d

\* The server has made a URL, or none.
LEMMA UrlKeeps ==
    ASSUME Inv, NEW t \in tasks, UrlAuthReceived(t) PROVE Inv'
<1>1. PICK url \in {0, t.text} :
         LET got == [Done(t) EXCEPT !.sub.url = url, !.sub.urlReceived = @ \/ url # 0]
         IN  /\ Running(t) /\ t.kind = "genurlauth" /\ ~t.done /\ Elsewhere
             /\ IF url = 0 THEN NoMsa(GotError(got)) ELSE InvokeMsa(got)
  BY DEF UrlAuthReceived
<1> DEFINE d == [t EXCEPT !.done = TRUE]
           got == [Done(t) EXCEPT !.sub.url = url, !.sub.urlReceived = @ \/ url # 0]
           us == (tasks \ {t}) \cup {d}
<1>2. /\ d \in Tasks /\ d.kind = t.kind /\ d.done
      /\ Done(t) \in Nows /\ Done(t).tasks = us /\ Done(t).window = window
      /\ Done(t).sub \in Submissions /\ IsFiniteSet(us) /\ Done(t).sub = sub
      /\ Claims(sub, us) => Claims(sub, tasks)
  BY DoneIsNow
<1>3. window # "closed" /\ attempt \in Texts /\ t \in Tasks /\ url \in Texts /\ t \in Pending(tasks)
      /\ config' = config /\ excuses' = excuses /\ attempt' = attempt /\ t.kind = "genurlauth"
  <2>1. window # "closed" /\ attempt \in Texts /\ t \in Tasks
    BY NowIsNow DEF Inv, TypeOK
  <2>2. t.text \in Texts
    BY <2>1 DEF Tasks
  <2>3. 0 \in Texts
    BY AttemptAssumption DEF Texts
  <2>4. t.kind = "genurlauth" /\ t \in Pending(tasks)
    BY <1>1 DEF Pending
  <2> QED
    BY <1>1, <2>1, <2>2, <2>3, <2>4 DEF Elsewhere
<1>4. Room(tasks \ {t}, Len(msas) + 1, attempt) /\ Assigned(config.kind, tasks \ {t}, msas)
      /\ Submits(tasks \ {t}) = Submits(tasks)
  BY <1>3, Leaving
<1> HIDE DEF d
<1>5. Pending(us) = Pending(tasks \ {t}) /\ Submits(us) = Submits(tasks)
      /\ \A u \in us : u.kind = "flags" => u \in tasks
  BY <1>2, <1>3, <1>4 DEF Pending, Submits
<1> HIDE DEF us
<1>6. Room(us, Len(msas) + 1, attempt) /\ Assigned(config.kind, us, msas)
  BY <1>2, <1>4, <1>5 DEF Room, Assigned
<1>7. Room(us, Len(msas), attempt)
  BY <1>6, NowIsNow, Counting DEF Room
<1>8. got \in Nows /\ got.tasks = us /\ got.window = window /\ got.sub.state = sub.state
  BY <1>2, <1>3 DEF Nows, Submissions
<1> HIDE DEF got
<1>9. CASE url = 0
  <2>1. NoMsa(GotError(got))
    BY <1>1, <1>9 DEF got
  <2>2. GotError(got) \in Nows /\ GotError(got).tasks = us /\ GotError(got).window = window
        /\ GotError(got).sub.state = "FAILED"
    BY <1>8, Failing
  <2>3. Claims(GotError(got).sub, us) => Claims(sub, tasks)
    BY <1>2, <2>2 DEF Claims
  <2>4. excuses = {} /\ Claims(sub, tasks) => Delivered(msas)
    BY <1>3 DEF Inv
  <2> QED
    BY <1>3, <1>6, <1>7, <2>1, <2>2, <2>3, <2>4, NotInvoking
<1>10. CASE url # 0
  <2>1. InvokeMsa(got)
    BY <1>1, <1>10 DEF got
  <2> QED
    BY <1>3, <1>5, <1>6, <1>8, <2>1, Invoking
<1> QED
  BY <1>9, <1>10

\* The server takes the message, for the first time.
LEMMA SubmittedKeeps ==
    ASSUME Inv, NEW t \in tasks, Submitted(t) PROVE Inv'
<1> DEFINE i == t.msa
           m == [msas[i] EXCEPT !.accepted = 1]
           d == [t EXCEPT !.done = TRUE]
           us == (tasks \ {t}) \cup {d}
           kind == config.kind
<1>1. /\ t.kind = "submit" /\ ~t.done /\ Update(Done(t))
      /\ msas' = [msas EXCEPT ![i].accepted = @ + 1]
      /\ dialogs' = dialogs /\ config' = config /\ attempt' = attempt /\ excuses' = excuses
  BY DEF Submitted, Elsewhere
<1>2. /\ d \in Tasks /\ d.kind = t.kind /\ d.done /\ d.msa = t.msa
      /\ Done(t) \in Nows /\ Done(t).tasks = us /\ Done(t).window = window
      /\ Done(t).sub = sub /\ Done(t).enabled = enabled
      /\ IsFiniteSet(us) /\ Pending(us) \subseteq Pending(tasks \ {t}) \cup {d}
  BY DoneIsNow
<1>3. MsasSound(kind, msas) /\ Assigned(kind, tasks, msas) /\ (excuses = {} => Truthful(msas))
  BY DEF Inv
<1>4. t \in Submits(tasks)
  BY <1>1 DEF Submits
<1>5. kind = "imap" /\ i \in DOMAIN msas /\ msas[i].accepted = 0
      /\ \A u, v \in Submits(tasks) : u.msa = v.msa => u = v
  BY <1>1, <1>3, <1>4 DEF Assigned
<1>6. MsaSound(kind, msas[i])
  BY <1>3, <1>5 DEF MsasSound
<1>7. msas' = [msas EXCEPT ![i] = m]
  BY <1>1, <1>5
<1>8. m \in Msas /\ m.client = msas[i].client /\ m.accepted = 1 /\ m.process = msas[i].process
      /\ m.cancelled = msas[i].cancelled
  BY <1>6 DEF MsaSound, Msas
<1> HIDE DEF m
<1>9. Sound(m.client, 1)
  <2>1. /\ Sound(m.client, 0) /\ Unused(m.client) /\ ~m.client.waiting
        /\ m.client \in Clients /\ m.client.queue \in Seq(SmtpCommands)
    BY <1>5, <1>6, <1>8, ClientTypes DEF MsaSound, Sound, Orderly
  <2>2. MailIn(m.client.queue) = {} /\ (m.client.queue # <<>> => Head(m.client.queue) = "quit")
    BY <2>1, HeadIsFirst DEF Unused, OnlyQuits, MailIn
  <2>3. 1 \in 0..1
    OBVIOUS
  <2>4. Orderly(m.client, 1)
    BY <2>1, <2>3 DEF Sound, Orderly
  <2> QED
    BY <2>2, <2>4 DEF Sound, Accepting
<1>10. MsaSound(kind, m) /\ Honest(m.client, m.accepted)
  BY <1>5, <1>6, <1>8, <1>9 DEF MsaSound, Honest
<1>11. m.accepted >= msas[i].accepted /\ m.accepted > 0
  BY <1>5, <1>8
<1>12. /\ MsasSound(kind, msas') /\ Len(msas') = Len(msas) /\ DOMAIN msas' = DOMAIN msas /\ msas'[i] = m
       /\ \A j \in DOMAIN msas : j # i => msas'[j] = msas[j]
       /\ Truthful(msas) => Truthful(msas')
       /\ Delivered(msas')
  <2> HIDE DEF i, kind
  <2> DEFINE ns == [msas EXCEPT ![i] = m]
  <2>1. /\ MsasSound(kind, ns) /\ Len(ns) = Len(msas) /\ DOMAIN ns = DOMAIN msas /\ ns[i] = m
        /\ \A j \in DOMAIN msas : j # i => ns[j] = msas[j]
        /\ Truthful(msas) /\ Honest(m.client, m.accepted) => Truthful(ns)
        /\ m.accepted > 0 => Delivered(ns)
    BY <1>3, <1>5, <1>10, <1>11, OneChanges
  <2> HIDE DEF ns
  <2>2. msas' = ns
    BY <1>7 DEF ns
  <2> QED
    BY <1>10, <1>11, <2>1, <2>2
<1>13. sub' = sub /\ tasks' = us /\ enabled' = enabled /\ window' = window
  BY <1>1, <1>2 DEF Update
<1>14. us \subseteq Tasks
  BY <1>2 DEF Inv, TypeOK
<1>15. Assigned(kind, us, msas')
  <2>1. \A u \in Submits(us) : u = d \/ (u \in Submits(tasks) /\ u # t)
    BY DEF Submits
  <2>2. \A u \in Submits(tasks) : u # t => u.msa # i
    BY <1>4, <1>5
  <2>3. \A u \in Submits(tasks) : u.msa \in DOMAIN msas /\ msas[u.msa].accepted = IF u.done THEN 1 ELSE 0
    BY <1>3 DEF Assigned
  <2> HIDE DEF d, us
  <2>4. \A u \in Submits(us) : u.msa \in DOMAIN msas' /\ msas'[u.msa].accepted = IF u.done THEN 1 ELSE 0
    BY <1>2, <1>5, <1>8, <1>12, <2>1, <2>2, <2>3
  <2>5. \A u, v \in Submits(us) : u.msa = v.msa => u = v
    BY <1>2, <1>5, <2>1, <2>2
  <2> QED
    BY <1>5, <2>4, <2>5 DEF Assigned
<1>16. Room(us, Len(msas), attempt)
  <2>1. Pending(us) = Pending(tasks \ {t})
    BY <1>1, <1>2 DEF Pending
  <2>2. Room(tasks \ {t}, Len(msas), attempt)
    BY Leaving
  <2> QED
    BY <1>2, <2>1, <2>2 DEF Room
<1> HIDE DEF us
<1>17. TypeOK'
  BY <1>1, <1>12, <1>13, <1>14 DEF Inv, TypeOK, MsasSound
<1>18. window # "closed"
  BY NowIsNow
<1> QED
  BY <1>1, <1>3, <1>12, <1>13, <1>15, <1>16, <1>17, <1>18 DEF Inv

----------------------------------------------------------------------------
(* The MSAs. *)

\* One MSA has changed, and its signals have been handled.
Concludes(i, m, n) ==
    /\ MsaSound(config.kind, m) /\ m.accepted >= msas[i].accepted
    /\ m.accepted = msas[i].accepted \/ config.kind # "imap"
    /\ msas' = [msas EXCEPT ![i] = m]
    /\ config' = config /\ attempt' = attempt /\ dialogs' = dialogs
    /\ excuses \subseteq excuses' /\ excuses' \subseteq {"later", "crash"}
    /\ excuses' = {} => Honest(m.client, m.accepted)
    /\ Follows(Now, n) /\ Update(n)
    /\ excuses' = {} => Modest(Now, n) \/ m.accepted > 0
LEMMA Concluding ==
    ASSUME Inv, NEW i \in DOMAIN msas, NEW m, NEW n, Concludes(i, m, n)
    PROVE  Inv'
<1> DEFINE kind == config.kind
           ns == [msas EXCEPT ![i] = m]
<1>1. /\ MsasSound(kind, msas) /\ Assigned(kind, tasks, msas) /\ (excuses = {} => Truthful(msas))
      /\ Room(tasks, Len(msas), attempt)
      /\ excuses = {} /\ window # "closed" /\ Claims(sub, tasks) => Delivered(msas)
  BY DEF Inv
<1>2. /\ Now \in Nows /\ Now.sub = sub /\ Now.tasks = tasks /\ Now.window = window
      /\ window # "closed" /\ attempt \in Texts
  <2>1. msas # <<>>
    BY EmptySeq
  <2> QED
    BY <2>1, NowIsNow
<1>3. /\ MsasSound(kind, ns) /\ Len(ns) = Len(msas) /\ DOMAIN ns = DOMAIN msas
      /\ Truthful(msas) /\ Honest(m.client, m.accepted) => Truthful(ns)
      /\ Delivered(msas) => Delivered(ns)
      /\ m.accepted > 0 => Delivered(ns)
      /\ ns[i] = m /\ \A j \in DOMAIN msas : j # i => ns[j] = msas[j]
  <2>1. MsaSound(kind, m)
    BY DEF Concludes
  <2> HIDE DEF kind
  <2>2. MsasSound(kind, msas) /\ m.accepted >= msas[i].accepted
    BY <1>1 DEF Concludes
  <2>3. /\ MsasSound(kind, ns) /\ Len(ns) = Len(msas) /\ DOMAIN ns = DOMAIN msas /\ ns[i] = m
        /\ \A j \in DOMAIN msas : j # i => ns[j] = msas[j]
        /\ Truthful(msas) /\ Honest(m.client, m.accepted) => Truthful(ns)
        /\ Delivered(msas) => Delivered(ns)
        /\ m.accepted > 0 => Delivered(ns)
    BY <2>1, <2>2, OneChanges
  <2> HIDE DEF ns
  <2> QED
    BY <2>3
<1>4. msas' = ns
  BY DEF Concludes
<1> HIDE DEF ns
<1>5. Assigned(kind, tasks, ns)
  BY <1>1, <1>3 DEF Assigned, Concludes
<1>6. /\ sub' = n.sub /\ tasks' = n.tasks /\ enabled' = n.enabled /\ window' = n.window
      /\ n \in Nows /\ n.window \in {window, "closing"}
      /\ n.tasks = tasks \/ n.tasks = tasks \cup {Flag}
  BY <1>2 DEF Update, Follows, Concludes
<1>7. Room(n.tasks, Len(msas), attempt) /\ Assigned(kind, n.tasks, ns)
  <2>1. Room(tasks \cup {Flag}, Len(msas), attempt) /\ Assigned(kind, tasks \cup {Flag}, ns)
    BY <1>1, <1>5, FlagAdds
  <2> QED
    BY <1>1, <1>5, <1>6, <2>1
<1>8. Modest(Now, n) => (Claims(n.sub, n.tasks) => Claims(sub, tasks))
  BY <1>2 DEF Modest, Claims
<1>9. /\ excuses' = {} => excuses = {} /\ Honest(m.client, m.accepted)
                            /\ (Modest(Now, n) \/ m.accepted > 0)
      /\ excuses' \subseteq {"later", "crash"}
      /\ config' = config /\ attempt' = attempt /\ dialogs' = dialogs
  BY DEF Concludes
<1>10. excuses' = {} /\ Claims(n.sub, n.tasks) => Delivered(ns)
  BY <1>1, <1>2, <1>3, <1>8, <1>9
<1>11. TypeOK'
  BY <1>3, <1>4, <1>6, <1>9 DEF Inv, TypeOK, MsasSound, Nows
<1> QED
  BY <1>1, <1>2, <1>3, <1>4, <1>6, <1>7, <1>9, <1>10, <1>11 DEF Inv

\* A client with a socket belongs to an MSA of SMTP that nobody has cancelled in time.
LEMMA WithClient ==
    ASSUME Inv, NEW i \in DOMAIN msas, msas[i].client.socket # "idle"
    PROVE  /\ config.kind = "smtp" /\ MsaSound(config.kind, msas[i]) /\ msas[i] \in Msas
           /\ ~msas[i].cancelled /\ msas[i].process = "none" /\ msas[i].client.signals = <<>>
           /\ Sound(msas[i].client, msas[i].accepted) /\ msas[i].client \in Clients
           /\ excuses = {} => Honest(msas[i].client, msas[i].accepted)
<1>1. MsaSound(config.kind, msas[i])
  BY DEF Inv, MsasSound
<1>2. excuses = {} => Honest(msas[i].client, msas[i].accepted)
  BY DEF Inv, Truthful
<1>3. config.kind = "smtp" /\ msas[i] \in Msas /\ ~msas[i].cancelled
  BY <1>1 DEF MsaSound, Unused, Stopped, Msas
<1>4. msas[i].process = "none" /\ msas[i].client \in Clients
  BY <1>1, <1>3 DEF MsaSound, Msas
<1> QED
  BY <1>1, <1>2, <1>3, <1>4 DEF MsaSound

\* Its signals have been handled.
LEMMA Quieting ==
    ASSUME NEW k, NEW a, Sound(k, a)
    PROVE  LET l == Quiet(k)
           IN  /\ Sound(l, a) /\ Same(k, l) /\ l.signals = <<>>
               /\ Honest(k, a) => Honest(l, a)
<1> DEFINE l == Quiet(k)
<1>1. k \in Clients /\ <<>> \in Seq({"sent", "error"}) /\ DOMAIN <<>> = {}
  BY EmptySeq DEF Sound, Orderly
<1>2. Same(k, l) /\ l.signals = <<>> /\ l.failed = k.failed
  BY <1>1 DEF Quiet, Same, Clients
<1> HIDE DEF l
<1>3. Sound(l, a)
  BY <1>2, SameIsSound
<1>4. Honest(k, a) => Honest(l, a)
  BY <1>1, <1>2 DEF Honest, Same
<1> QED
  BY <1>2, <1>3, <1>4 DEF l

LEMMA Becoming ==
    ASSUME Inv, NEW i \in DOMAIN msas, msas[i].client.socket # "idle",
           NEW k, Sound(k, msas[i].accepted), ~k.waiting, Becomes(i, k),
           excuses \subseteq excuses', excuses' \subseteq {"later", "crash"},
           excuses' = {} => Honest(k, msas[i].accepted)
    PROVE  Inv'
<1> DEFINE a == msas[i].accepted
           l == Quiet(k)
           m == [msas[i] EXCEPT !.client = l]
           n == HandleAll(Now, k.signals)
<1>1. /\ config.kind = "smtp" /\ MsaSound(config.kind, msas[i]) /\ msas[i] \in Msas
      /\ ~msas[i].cancelled /\ msas[i].process = "none"
  BY WithClient
<1>2. Sound(l, a) /\ l.signals = <<>> /\ (Honest(k, a) => Honest(l, a)) /\ l \in Clients
  BY Quieting DEF Same
<1>3. k.signals \in Seq({"sent", "error"}) /\ a \in 0..1
  BY ClientTypes DEF Sound, Orderly
<1>4. /\ msas' = [msas EXCEPT ![i] = m] /\ Update(n)
      /\ config' = config /\ attempt' = attempt /\ dialogs' = dialogs
  BY DEF Becomes
<1> HIDE DEF l
<1>5. m \in Msas /\ m.client = l /\ m.accepted = a /\ m.process = "none" /\ ~m.cancelled
  BY <1>1, <1>2 DEF Msas
<1> HIDE DEF m
<1>6. MsaSound(config.kind, m)
  BY <1>1, <1>2, <1>5 DEF MsaSound
<1>7. Now \in Nows /\ attempt \in Texts
  BY NowIsNow
<1>8. Follows(Now, n) /\ ((\A j \in DOMAIN k.signals : k.signals[j] # "sent") => Modest(Now, n))
  BY <1>3, <1>7, HandlingAll
<1> HIDE DEF n
<1>9. excuses' = {} => Modest(Now, n) \/ m.accepted > 0
  BY <1>3, <1>5, <1>8 DEF Honest
<1>10. m.accepted >= msas[i].accepted /\ m.accepted = msas[i].accepted
  BY <1>3, <1>5
<1>11. excuses' = {} => Honest(m.client, m.accepted)
  BY <1>2, <1>5
<1> HIDE DEF a
<1> QED
  BY <1>4, <1>6, <1>8, <1>9, <1>10, <1>11, Concluding DEF Concludes

\* The socket's events.
LEMMA SocketKeeps ==
    ASSUME Inv, NEW i \in DOMAIN msas,
           Connected(i) \/ Receive(i) \/ Break(i) \/ Disconnected(i)
    PROVE  Inv'
<1> DEFINE k == msas[i].client
           a == msas[i].accepted
<1>1. k.socket # "idle"
  BY DEF Connected, Receive, Break, Disconnected
<1>2. Sound(k, a) /\ (excuses = {} => Honest(k, a)) /\ excuses \subseteq {"later", "crash"}
  BY <1>1, WithClient DEF Inv, TypeOK
<1>3. CASE Connected(i)
  <2>1. Becomes(i, Up(k)) /\ excuses' = excuses /\ k.socket = "connecting"
    BY <1>3 DEF Connected, Up
  <2>2. Sound(Up(k), a) /\ ~Up(k).waiting /\ (Honest(k, a) => Honest(Up(k), a))
    BY <1>2, <2>1, Connecting
  <2> QED
    BY <1>1, <1>2, <2>1, <2>2, Becoming
<1>4. CASE Break(i)
  <2>1. Becomes(i, OnError(k)) /\ excuses' = excuses
    BY <1>4 DEF Break
  <2>2. Sound(OnError(k), a) /\ ~OnError(k).waiting /\ (Honest(k, a) => Honest(OnError(k), a))
    BY <1>1, <1>2, Breaking
  <2> QED
    BY <1>1, <1>2, <2>1, <2>2, Becoming
<1>5. CASE Disconnected(i)
  <2>1. Becomes(i, OnDisconnected(k)) /\ excuses' = excuses
    BY <1>5 DEF Disconnected
  <2>2. Sound(OnDisconnected(k), a) /\ ~OnDisconnected(k).waiting
        /\ (Honest(k, a) => Honest(OnDisconnected(k), a))
    BY <1>1, <1>2, Closing
  <2> QED
    BY <1>1, <1>2, <2>1, <2>2, Becoming
<1>6. CASE Receive(i)
  <2>1. PICK atOnce \in BOOLEAN :
          /\ k.socket = "up" /\ Becomes(i, Received(k, atOnce))
          /\ excuses' = excuses \cup {e \in {"later"} : k.line = "later"}
    BY <1>6 DEF Receive
  <2> DEFINE l == Received(k, atOnce)
  <2>2. Sound(l, a) /\ ~l.waiting /\ (Honest(k, a) /\ k.line # "later" => Honest(l, a))
    BY <1>2, <2>1, Receiving
  <2>3. excuses \subseteq excuses' /\ excuses' \subseteq {"later", "crash"}
        /\ (excuses' = {} => excuses = {} /\ k.line # "later")
    BY <1>2, <2>1
  <2>4. Becomes(i, l)
    BY <2>1
  <2> HIDE DEF l
  <2> QED
    BY <1>1, <1>2, <2>2, <2>3, <2>4, Becoming
<1> QED
  BY <1>3, <1>4, <1>5, <1>6

LEMMA NowFollows ==
    ASSUME Inv
    PROVE  /\ Follows(Now, Now) /\ Modest(Now, Now)
           /\ Follows(Now, GotError(Now)) /\ Modest(Now, GotError(Now)) /\ Follows(Now, Sent(Now))
BY NowIsNow, Failing, Sending DEF Follows, Modest

\* The server's answer.
LEMMA ReplyKeeps ==
    ASSUME Inv, NEW i \in DOMAIN msas, Reply(i) PROVE Inv'
<1> DEFINE k == msas[i].client
           a == msas[i].accepted
<1>1. PICK line \in {"ok", "no", "later"} :
         /\ k.socket = "up" /\ k.owes
         /\ msas' = [msas EXCEPT ![i].client = [@ EXCEPT !.line = line, !.owes = FALSE],
                                 ![i].accepted = IF line = "ok" /\ Accepting(k) THEN @ + 1 ELSE @]
         /\ UNCHANGED <<sub, tasks, enabled, window, dialogs>> /\ Elsewhere
  BY DEF Reply
<1>2. /\ config.kind = "smtp" /\ MsaSound(config.kind, msas[i]) /\ msas[i] \in Msas
      /\ ~msas[i].cancelled /\ msas[i].process = "none" /\ k.signals = <<>>
      /\ Sound(k, a) /\ (excuses = {} => Honest(k, a))
  BY <1>1, WithClient
<1> DEFINE l == Answered(k, line)
           b == AcceptedNow(k, a, line)
           m == [msas[i] EXCEPT !.client = l, !.accepted = b]
<1>3. Sound(l, b) /\ b >= a /\ ~l.waiting /\ l.signals = k.signals /\ (Honest(k, a) => Honest(l, b))
  BY <1>1, <1>2, Answering
<1>4. msas' = [msas EXCEPT ![i] = m]
  BY <1>1 DEF Answered, AcceptedNow
<1> HIDE DEF l, b
<1>5. l \in Clients /\ b \in Nat
  <2>1. l \in Clients /\ b \in 0..1
    BY <1>3 DEF Sound, Orderly
  <2> QED
    BY <2>1
<1>6. m \in Msas /\ m.client = l /\ m.accepted = b /\ m.process = "none" /\ ~m.cancelled
  BY <1>2, <1>5 DEF Msas
<1> HIDE DEF m
<1>7. MsaSound(config.kind, m)
  BY <1>2, <1>3, <1>6 DEF MsaSound
<1>8. Update(Now) /\ config' = config /\ attempt' = attempt /\ dialogs' = dialogs /\ excuses' = excuses
  BY <1>1, NowIsNow DEF Update, Elsewhere
<1>9. excuses \subseteq {"later", "crash"}
  BY DEF Inv, TypeOK
<1>10. Concludes(i, m, Now)
  BY <1>2, <1>3, <1>4, <1>6, <1>7, <1>8, <1>9, NowFollows DEF Concludes
<1> QED
  BY <1>10, Concluding

\* A client that has been given nothing to send does not contradict a message that somebody
\* else has sent.
LEMMA UnusedIsSound ==
    ASSUME NEW k, Sound(k, 0), Unused(k), ~k.waiting PROVE Sound(k, 1)
<1>1. k \in Clients /\ k.queue \in Seq(SmtpCommands)
  BY ClientTypes DEF Sound, Orderly
<1>2. MailIn(k.queue) = {} /\ (k.queue # <<>> => Head(k.queue) = "quit")
  BY <1>1, HeadIsFirst DEF Unused, OnlyQuits, MailIn
<1>3. 1 \in 0..1
  OBVIOUS
<1>4. Orderly(k, 1)
  BY <1>3 DEF Sound, Orderly
<1> QED
  BY <1>2, <1>4 DEF Sound, Accepting

\* Sendmail fails, or ends.
LEMMA ProcessKeeps ==
    ASSUME Inv, NEW i \in DOMAIN msas, ProcessError(i) \/ ProcessFinished(i) PROVE Inv'
<1> DEFINE kind == config.kind
           k == msas[i].client
<1>1. MsaSound(kind, msas[i]) /\ (excuses = {} => Honest(k, msas[i].accepted))
      /\ excuses \subseteq {"later", "crash"} /\ msas[i].process # "none"
  BY DEF Inv, TypeOK, MsasSound, Truthful, ProcessError, ProcessFinished
<1>2. msas[i] \in Msas /\ kind = "sendmail" /\ msas[i].accepted = 0
      /\ Unused(k) /\ ~k.waiting /\ ~msas[i].cancelled /\ k.signals = <<>> /\ Sound(k, 0)
  BY <1>1 DEF MsaSound
<1>3. CASE ProcessError(i)
  <2>1. PICK why \in {"start", "write", "crash"} :
          /\ msas' = [msas EXCEPT ![i].process = IF why = "start" THEN "none" ELSE "failing"]
          /\ excuses' = excuses \cup {e \in {"crash"} : why = "crash"}
          /\ Update(GotError(Now)) /\ UNCHANGED <<dialogs, config, attempt>>
    BY <1>3 DEF ProcessError
  <2> DEFINE p == IF why = "start" THEN "none" ELSE "failing"
             m == [msas[i] EXCEPT !.process = p]
  <2>2. msas' = [msas EXCEPT ![i] = m] /\ p \in {"none", "running", "failing"}
    BY <2>1
  <2> HIDE DEF p
  <2>3. m \in Msas /\ m.client = k /\ m.accepted = 0 /\ ~m.cancelled
    BY <1>2, <2>2 DEF Msas
  <2> HIDE DEF m
  <2>4. MsaSound(kind, m)
    BY <1>2, <2>3 DEF MsaSound
  <2>5. excuses \subseteq excuses' /\ excuses' \subseteq {"later", "crash"}
        /\ (excuses' = {} => excuses = {})
    BY <1>1, <2>1
  <2>6. Concludes(i, m, GotError(Now))
    <3>1. Follows(Now, GotError(Now)) /\ Modest(Now, GotError(Now))
      BY NowFollows
    <3>2. m.accepted >= msas[i].accepted /\ m.accepted = msas[i].accepted
      BY <1>2, <2>3
    <3>3. excuses' = {} => Honest(m.client, m.accepted)
      BY <1>1, <1>2, <2>3, <2>5
    <3> QED
      BY <2>1, <2>2, <2>4, <2>5, <3>1, <3>2, <3>3 DEF Concludes
  <2> QED
    BY <2>6, Concluding
<1>4. CASE ProcessFinished(i)
  <2>1. PICK sent \in BOOLEAN, accepted \in BOOLEAN :
          /\ sent /\ "crash" \notin excuses => accepted
          /\ msas' = [msas EXCEPT ![i].process = "none", ![i].accepted = IF accepted THEN @ + 1 ELSE @]
          /\ Update(IF sent THEN Sent(Now) ELSE GotError(Now)) /\ UNCHANGED dialogs /\ Elsewhere
    BY <1>4 DEF ProcessFinished
  <2> DEFINE a == IF accepted THEN 1 ELSE 0
             m == [msas[i] EXCEPT !.process = "none", !.accepted = a]
             n == IF sent THEN Sent(Now) ELSE GotError(Now)
  <2>2. msas' = [msas EXCEPT ![i] = m] /\ a \in Nat /\ (a = 0 \/ a = 1) /\ (accepted => a = 1)
    <3>1. a \in Nat /\ (a = 0 \/ a = 1) /\ (accepted => a = 1)
      OBVIOUS
    <3>2. (IF accepted THEN msas[i].accepted + 1 ELSE msas[i].accepted) = a
      BY <1>2
    <3> QED
      BY <2>1, <3>1, <3>2
  <2> HIDE DEF a
  <2>3. m \in Msas /\ m.client = k /\ m.accepted = a /\ m.process = "none" /\ ~m.cancelled
    BY <1>2, <2>2 DEF Msas
  <2> HIDE DEF m
  <2>4. Sound(k, a)
    BY <1>2, <2>2, UnusedIsSound
  <2>5. MsaSound(kind, m)
    BY <1>2, <2>3, <2>4 DEF MsaSound
  <2>6. Follows(Now, n) /\ Update(n) /\ (excuses = {} => Modest(Now, n) \/ m.accepted > 0)
    BY <2>1, <2>2, <2>3, NowFollows
  <2>7. excuses = {} => Honest(m.client, m.accepted)
    BY <1>1, <1>2, <2>2, <2>3 DEF Honest
  <2>8. m.accepted >= msas[i].accepted
    BY <1>2, <2>2, <2>3
  <2>9. excuses' = excuses /\ config' = config /\ attempt' = attempt /\ dialogs' = dialogs
    BY <2>1 DEF Elsewhere
  <2> HIDE DEF n
  <2>10. Concludes(i, m, n)
    BY <1>1, <1>2, <2>2, <2>5, <2>6, <2>7, <2>8, <2>9 DEF Concludes
  <2> QED
    BY <2>10, Concluding
<1> QED
  BY <1>3, <1>4

----------------------------------------------------------------------------
(* The dialog for the password, and the window. *)

\* What answering a dialog makes of one MSA: nothing is sent by it.
Answers(m, n) ==
    /\ MsaSound(config.kind, n) /\ n.accepted = m.accepted
    /\ Honest(m.client, m.accepted) => Honest(n.client, n.accepted)
LEMMA AllAnswer ==
    ASSUME Inv, NEW n, n \in {Now, GotError(Now)}, Update(n), Elsewhere, dialogs' \in Nat,
           DOMAIN msas' = DOMAIN msas, msas' = [i \in DOMAIN msas |-> msas'[i]],
           \A i \in DOMAIN msas : Answers(msas[i], msas'[i]), window # "closed"
    PROVE  Inv'
<1> DEFINE kind == config.kind
           ns == msas'
<1>1. /\ MsasSound(kind, msas) /\ Assigned(kind, tasks, msas) /\ (excuses = {} => Truthful(msas))
      /\ Room(tasks, Len(msas), attempt)
      /\ excuses = {} /\ window # "closed" /\ Claims(sub, tasks) => Delivered(msas)
  BY DEF Inv
<1>2. /\ Now \in Nows /\ Now.sub = sub /\ Now.tasks = tasks /\ Now.window = window
      /\ Len(msas) \in Nat /\ DOMAIN msas = 1..Len(msas)
  BY NowIsNow
<1>3. DOMAIN ns = DOMAIN msas /\ ns = [i \in DOMAIN msas |-> ns[i]]
      /\ \A i \in DOMAIN msas : Answers(msas[i], ns[i])
  OBVIOUS
<1> HIDE DEF ns
<1>4. \A i \in DOMAIN msas : /\ MsaSound(kind, ns[i]) /\ ns[i].accepted = msas[i].accepted
                             /\ Honest(msas[i].client, msas[i].accepted)
                                  => Honest(ns[i].client, ns[i].accepted)
  BY <1>3 DEF Answers
<1>5. ns \in [1..Len(msas) -> Msas]
  BY <1>2, <1>3, <1>4 DEF MsaSound
<1>6. ns \in Seq(Msas) /\ Len(ns) = Len(msas)
  BY <1>2, <1>5, FiniteFunctionIsSeq
<1>7. MsasSound(kind, ns)
  BY <1>3, <1>4, <1>6 DEF MsasSound
<1>8. Truthful(msas) => Truthful(ns)
  BY <1>3, <1>4 DEF Truthful
<1>9. Delivered(msas) => Delivered(ns)
  BY <1>3, <1>4 DEF Delivered
<1>10. Assigned(kind, tasks, ns)
  BY <1>1, <1>3, <1>4 DEF Assigned
<1>11. n \in Nows /\ n.tasks = tasks /\ n.window = window /\ n.sub.state \in {sub.state, "FAILED"}
  BY <1>2, Failing
<1>12. msas' = ns
  BY DEF ns
<1>13. sub' = n.sub /\ tasks' = tasks /\ enabled' = n.enabled /\ window' = window
       /\ config' = config /\ attempt' = attempt /\ excuses' = excuses
  BY <1>11 DEF Update, Elsewhere
<1>14. Claims(sub', tasks') => Claims(sub, tasks)
  BY <1>11, <1>13 DEF Claims
<1>15. TypeOK'
  BY <1>6, <1>11, <1>12, <1>13 DEF Inv, TypeOK, Nows
<1> QED
  BY <1>1, <1>6, <1>7, <1>8, <1>9, <1>10, <1>12, <1>13, <1>14, <1>15 DEF Inv

LEMMA SetPasswordKeeps == Inv /\ SetPassword => Inv'
<1> SUFFICES ASSUME Inv, SetPassword PROVE Inv'
  OBVIOUS
<1> DEFINE G(i) == [msas[i] EXCEPT !.client = SendContinueGotPassword(@, Dialog(msas[i].command))]
           F(i) == IF msas[i].client.waiting THEN G(i) ELSE msas[i]
<1>1. msas' = [i \in DOMAIN msas |-> F(i)] /\ window # "closed" /\ Elsewhere
  BY DEF SetPassword
<1>2. Update(Now) /\ dialogs' \in Nat
  BY DEF SetPassword, Update, Now, Inv, TypeOK
<1>3. ASSUME NEW i \in DOMAIN msas PROVE Answers(msas[i], F(i))
  <2> DEFINE k == msas[i].client
             a == msas[i].accepted
             l == SendContinueGotPassword(k, Dialog(msas[i].command))
  <2>1. MsaSound(config.kind, msas[i])
    BY DEF Inv, MsasSound
  <2>2. CASE ~k.waiting
    BY <2>1, <2>2 DEF Answers
  <2>3. CASE k.waiting
    <3>1. msas[i] \in Msas /\ config.kind = "smtp" /\ Sound(k, a) /\ k.signals = <<>>
          /\ (msas[i].cancelled => Stopped(k) /\ a = 0)
          /\ (msas[i].process # "none" => config.kind = "sendmail" /\ a = 0)
      BY <2>1, <2>3 DEF MsaSound
    <3>2. msas[i].command \in {"mail", "burl"}
      BY <3>1 DEF Msas
    <3>3. Sound(l, a) /\ ~l.waiting /\ l.signals = k.signals /\ (Stopped(k) => Stopped(l))
          /\ (Honest(k, a) => Honest(l, a))
      BY <2>3, <3>1, <3>2, Continuing
    <3>4. F(i) = [msas[i] EXCEPT !.client = l]
      BY <2>3, <3>1 DEF Msas
    <3> HIDE DEF l, F
    <3>5. l \in Clients
      BY <3>3 DEF Sound, Orderly
    <3>6. F(i) \in Msas /\ F(i).client = l /\ F(i).accepted = a /\ F(i).cancelled = msas[i].cancelled
          /\ F(i).process = msas[i].process
      BY <3>1, <3>4, <3>5 DEF Msas
    <3>7. MsaSound(config.kind, F(i))
      BY <3>1, <3>3, <3>6 DEF MsaSound
    <3> QED
      BY <3>3, <3>6, <3>7 DEF Answers
  <2> QED
    BY <2>2, <2>3
<1> HIDE DEF F
<1>4. DOMAIN msas' = DOMAIN msas /\ msas' = [i \in DOMAIN msas |-> msas'[i]]
      /\ \A i \in DOMAIN msas : msas'[i] = F(i)
  BY <1>1
<1> QED
  BY <1>1, <1>4, <1>2, <1>3, AllAnswer

LEMMA CancelPasswordKeeps == Inv /\ CancelPassword => Inv'
<1> SUFFICES ASSUME Inv, CancelPassword PROVE Inv'
  OBVIOUS
<1> DEFINE F(i) == [msas[i] EXCEPT !.client = Quiet(Cancel(@)), !.cancelled = @ \/ msas[i].client.waiting]
           n == IF \A i \in DOMAIN msas : Cancel(msas[i].client).signals = <<>> THEN Now ELSE GotError(Now)
<1>1. msas' = [i \in DOMAIN msas |-> F(i)] /\ window # "closed" /\ Elsewhere
  BY DEF CancelPassword
<1>2. Update(n) /\ dialogs' \in Nat
  <2>1. dialogs \in Nat /\ dialogs > 0 /\ dialogs' = dialogs - 1
    BY DEF CancelPassword, Inv, TypeOK
  <2>2. Update(n)
    BY Zenon DEF CancelPassword
  <2> QED
    BY <2>1, <2>2
<1>2a. n \in {Now, GotError(Now)}
  OBVIOUS
<1>3. ASSUME NEW i \in DOMAIN msas PROVE Answers(msas[i], F(i))
  <2> DEFINE k == msas[i].client
             a == msas[i].accepted
             j == Cancel(k)
             l == Quiet(j)
             c == msas[i].cancelled \/ k.waiting
  <2>1. MsaSound(config.kind, msas[i])
    BY DEF Inv, MsasSound
  <2>2. msas[i] \in Msas /\ Sound(k, a) /\ (k.waiting => Unused(k) /\ a = 0) /\ k.waiting \in BOOLEAN
    BY <2>1, ClientTypes DEF MsaSound, Sound, Orderly
  <2>3. /\ Sound(j, a) /\ (j.waiting <=> k.waiting)
        /\ Unused(k) => Unused(j) /\ Stopped(j)
        /\ Stopped(k) => Stopped(j)
        /\ Honest(k, a) => Honest(j, a)
    BY <2>2, Cancelling
  <2>4. F(i) = [msas[i] EXCEPT !.client = l, !.cancelled = c]
    BY <2>2 DEF Msas
  <2> HIDE DEF j
  <2>5. Sound(l, a) /\ Same(j, l) /\ l.signals = <<>> /\ (Honest(j, a) => Honest(l, a))
    BY <2>3, Quieting
  <2>6. (Unused(j) => Unused(l)) /\ (Stopped(j) => Stopped(l)) /\ (l.waiting <=> j.waiting)
    BY <2>5 DEF Same, Unused, Stopped
  <2> HIDE DEF l, F
  <2>7. l \in Clients
    BY <2>5 DEF Same
  <2>8. c \in BOOLEAN
    BY <2>2 DEF Msas
  <2>9. F(i) \in Msas /\ F(i).client = l /\ F(i).accepted = a /\ F(i).cancelled = c
        /\ F(i).process = msas[i].process
    <3> HIDE DEF c
    <3> QED
      BY <2>2, <2>4, <2>7, <2>8 DEF Msas
  <2>10. c => Stopped(l) /\ a = 0
    BY <2>1, <2>2, <2>3, <2>6 DEF MsaSound
  <2>11. config.kind # "smtp" => Unused(l) /\ ~l.waiting /\ ~c
    BY <2>1, <2>3, <2>6 DEF MsaSound
  <2> HIDE DEF c
  <2>12. MsaSound(config.kind, F(i))
    BY <2>1, <2>5, <2>9, <2>10, <2>11 DEF MsaSound
  <2> QED
    BY <2>3, <2>5, <2>9, <2>12 DEF Answers
<1> HIDE DEF F, n
<1>4. DOMAIN msas' = DOMAIN msas /\ msas' = [i \in DOMAIN msas |-> msas'[i]]
      /\ \A i \in DOMAIN msas : msas'[i] = F(i)
  BY <1>1
<1> QED
  BY <1>1, <1>4, <1>2, <1>2a, <1>3, AllAnswer

\* Nothing is left of a closed composer.
LEMMA NothingLeft ==
    /\ <<>> \in Seq(Msas) /\ DOMAIN <<>> = {} /\ Len(<<>>) = 0
    /\ \A kind : MsasSound(kind, <<>>) /\ Assigned(kind, {}, <<>>)
    /\ Truthful(<<>>) /\ \A n \in Nat : Room({}, 0, n)
<1>1. <<>> \in Seq(Msas) /\ DOMAIN <<>> = {} /\ Len(<<>>) = 0
  BY EmptySeq
<1>2. Pending({}) = {} /\ Submits({}) = {} /\ IsFiniteSet({}) /\ Cardinality({}) = 0
  BY FS_EmptySet DEF Pending, Submits
<1> QED
  BY <1>1, <1>2 DEF MsasSound, Assigned, Truthful, Room

LEMMA CloseWindowKeeps == Inv /\ CloseWindow => Inv'
<1> SUFFICES ASSUME Inv, CloseWindow PROVE Inv'
  OBVIOUS
<1>1. /\ window' = "closed" /\ dialogs' = 0 /\ msas' = <<>> /\ tasks' = {}
      /\ sub' = sub /\ enabled' = enabled /\ config' = config /\ attempt' = attempt /\ excuses' = excuses
  BY DEF CloseWindow, Elsewhere
<1>2. attempt \in Nat
  BY NowIsNow
<1>3. TypeOK'
  BY <1>1, NothingLeft DEF Inv, TypeOK
<1>4. Room(tasks', Len(msas'), attempt')
  BY <1>1, <1>2, NothingLeft
<1> QED
  BY <1>1, <1>3, <1>4, NothingLeft DEF Inv

----------------------------------------------------------------------------
(* The theorems. *)

LEMMA InitInv == Init => Inv
<1> SUFFICES ASSUME Init PROVE Inv
  OBVIOUS
<1>1. config \in Configs /\ msas = <<>> /\ tasks = {} /\ dialogs = 0 /\ attempt = 0
      /\ enabled = TRUE /\ window = "open" /\ excuses = {}
  BY DEF Init
<1>2. 0 \in Texts
  BY AttemptAssumption DEF Texts
<1>3. sub \in Submissions /\ sub.state = "INIT"
  BY <1>2 DEF Init, Submissions, States
<1>4. TypeOK
  BY <1>1, <1>2, <1>3, NothingLeft DEF TypeOK
<1>5. ~Claims(sub, tasks)
  BY <1>1, <1>3 DEF Claims
<1> QED
  BY <1>1, <1>4, <1>5, NothingLeft DEF Inv

LEMMA InvStep == Inv /\ [Next]_vars => Inv'
<1> SUFFICES ASSUME Inv, [Next]_vars PROVE Inv'
  OBVIOUS
<1>1. CASE Send \/ SetPassword \/ CancelPassword \/ CloseWindow
  BY <1>1, SendKeeps, SetPasswordKeeps, CancelPasswordKeeps, CloseWindowKeeps
<1>2. CASE \E t \in tasks : UrlAuthReceived(t) \/ Submitted(t) \/ TaskEnds(t)
  BY <1>2, UrlKeeps, SubmittedKeeps, AppendKeeps, EndingKeeps, SubmitKeeps, FlagsKeep DEF TaskEnds
<1>3. CASE \E i \in DOMAIN msas : MsaWorks(i)
  BY <1>3, SocketKeeps, ReplyKeeps, ProcessKeeps DEF MsaWorks
<1>4. CASE UNCHANGED vars
  <2>1. UNCHANGED <<config, sub, msas, tasks, dialogs, attempt, enabled, window, excuses>>
    BY <1>4 DEF vars
  <2> QED
    BY <2>1 DEF Inv, TypeOK
<1> QED
  BY <1>1, <1>2, <1>3, <1>4 DEF Next

LEMMA InvHolds == Spec => []Inv
<1> QED
  BY InitInv, InvStep, PTL DEF Spec

\* An attempt has at most one MSA, and this one delivers its message at most once, and not
\* at all if its dialog was cancelled while it waited.
LEMMA InvOncePerAttempt == Inv => OncePerAttempt
<1> SUFFICES ASSUME Inv PROVE OncePerAttempt
  OBVIOUS
<1>1. TypeOK
  BY DEF Inv
<1>2. Len(msas) <= attempt
  <2>1. Len(msas) \in Nat /\ attempt \in Nat /\ Cardinality(Pending(tasks)) \in Nat
    BY NowIsNow
  <2>2. Cardinality(Pending(tasks)) + Len(msas) <= attempt
    BY DEF Inv, Room
  <2> QED
    BY <2>1, <2>2
<1>3. ASSUME NEW i \in DOMAIN msas
      PROVE  msas[i].accepted <= IF msas[i].cancelled THEN 0 ELSE 1
  <2>1. MsaSound(config.kind, msas[i])
    BY DEF Inv, MsasSound
  <2>2. msas[i].accepted \in 0..1 /\ (msas[i].cancelled => msas[i].accepted = 0)
    BY <2>1 DEF MsaSound, Sound, Orderly
  <2> QED
    BY <2>2
<1> QED
  BY <1>1, <1>2, <1>3 DEF OncePerAttempt

\* One press of "Send" delivers the message at most once, for every account, every answer of
\* the servers and any number of attempts: SMTP::sendContinueGotPassword gives it only to an MSA
\* that waits for the password, and QwwSmtpClient dequeues what has been accepted.
THEOREM AttemptsDeliverOnce == Spec => []OncePerAttempt
<1> QED
  BY InvHolds, InvOncePerAttempt, PTL

LEMMA InvSentIsDelivered == Inv => SentIsDelivered
BY DEF Inv, SentIsDelivered, Claims, Delivered

\* What the user is told is sent has been accepted by somebody (Submission::sent), however the
\* signals of the MSAs of several attempts and the flags of the original message are interleaved.
THEOREM SentMeansDelivered == Spec => []SentIsDelivered
<1> QED
  BY InvHolds, InvSentIsDelivered, PTL
=============================================================================
