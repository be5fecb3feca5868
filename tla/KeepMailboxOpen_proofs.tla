----------------------- MODULE KeepMailboxOpen_proofs -----------------------
(***************************************************************************)
(* IDLE in order, the launcher's knowledge and the clean hand-over, for    *)
(* every value of the constants.  The inductive invariant IInv counts: each*)
(* IDLE is on its way to the server, with it, or answered, exactly once;   *)
(* and Fits says where DONE may stand in the queue of the Parser.          *)
(***************************************************************************)
EXTENDS KeepMailboxOpen, ProofFacts

\* DONE exactly where the Parser is in the middle of an IDLE: p at the start of a
\* queue q, and after each IDLE in it.
Fits(p, q) == \A i \in DOMAIN q : (q[i] = "DONE") = (IF i = 1 THEN p ELSE q[i - 1] = "IDLE")
EndsIdling(p, q) == IF q = <<>> THEN p ELSE q[Len(q)] = "IDLE"

Bad == {"execute", "enterIdle", "idleCompleted", "continuation"}
Written == Commands \cup {"IDLE", "DONE"}

\* What holds of the client by itself.
Shape(k) ==
    /\ k.idling => k.idleCommandRunning
    /\ k.tagIdle <=> k.idleCommandRunning
    /\ k.idleCommandRunning => k.launcher
    /\ k.delayedEnter => k.launcher
    /\ k.waitForInitialIdle => k.parserIdling
    /\ Fits(k.parserIdling, k.cmdQueue)
    /\ k.idling <=> EndsIdling(k.parserIdling, k.cmdQueue)
    /\ k.active <= k.running
    /\ Has(k.posted, "terminate") => ~k.idleCommandRunning
    /\ k.over => /\ ~k.idleCommandRunning /\ ~k.delayedEnter /\ ~k.requested
                 /\ k.waiting = 0 /\ k.running = 0

One(b) == IF b THEN 1 ELSE 0

\* An IDLE is one of: on its way, with the server, or answered; and the client
\* counts its unanswered commands.
Balanced(k, ts, sv, tc, rq) ==
    /\ Count(ts, "IDLE") + Count(k.cmdQueue, "IDLE") + One(sv = "idle")
       + Count(tc, "OK_IDLE") + Count(rq, "OK_IDLE")
       + Count(tc, "NO_IDLE") + Count(rq, "NO_IDLE") = One(k.idleCommandRunning)
    /\ Count(ts, "IDLE") + Count(tc, "+") + Count(tc, "NO_IDLE") + Count(rq, "NO_IDLE")
       = One(k.waitForInitialIdle)
    /\ Count(ts, "TASK") + Count(k.cmdQueue, "TASK")
       + Count(tc, "OK_TASK") + Count(rq, "OK_TASK") = k.active
    /\ Count(ts, "UID_FETCH") + Count(k.cmdQueue, "UID_FETCH")
       + Count(tc, "OK_UID_FETCH") + Count(rq, "OK_UID_FETCH") = k.arrivals

\* The Parser's view of the lines that it has sent.
Knows(p, ts, sv, tc, rq) ==
    /\ sv = "idle" /\ ts = <<>> => p
    /\ p => \/ ts # <<>> /\ ts[Len(ts)] = "IDLE"
            \/ Count(ts, "IDLE") = 0 /\ Count(ts, "DONE") = 0
    /\ ~ServerEndsIdle =>
         /\ \A i \in DOMAIN ts : ts[i] = "DONE" => i = 1 /\ sv = "idle"
         /\ p => \/ sv = "idle" \/ Count(ts, "IDLE") # 0
                 \/ Count(tc, "NO_IDLE") # 0 \/ Count(rq, "NO_IDLE") # 0

\* A continuation comes before the end of its IDLE.
InTurn(sv, tc) ==
    /\ Count(tc, "+") # 0 => sv = "idle" \/ Count(tc, "OK_IDLE") # 0
    /\ \A i, j \in DOMAIN tc : tc[i] = "+" /\ tc[j] = "OK_IDLE" => i < j

\* The server is never in the middle of an IDLE when anything but DONE comes.
ServerFits(ts, sv) ==
    /\ sv # "confused"
    /\ \A i \in DOMAIN ts : ts[i] = "IDLE" => i = Len(ts)
    /\ sv = "idle" /\ ts # <<>> => ts[1] = "DONE"

Handed(k, ts, sv) ==
    IF k.over
    THEN /\ sv # "idle" /\ Count(ts, "IDLE") = 0 /\ Count(k.cmdQueue, "IDLE") = 0
         /\ ServerEndsIdle \/ (Count(ts, "DONE") = 0 /\ Count(k.cmdQueue, "DONE") = 0)
         /\ \A i \in DOMAIN (ts \o k.cmdQueue) :
              (ts \o k.cmdQueue)[i] = "SELECT" => i = Len(ts \o k.cmdQueue)
    ELSE Count(ts, "SELECT") = 0 /\ Count(k.cmdQueue, "SELECT") = 0

Prot(k, ts, sv, tc, rq) ==
    /\ Shape(k) /\ Balanced(k, ts, sv, tc, rq)
    /\ Knows(k.parserIdling, ts, sv, tc, rq) /\ InTurn(sv, tc)

\* All of it, with the types; what a failed client leaves of it is in IInv.
Environment(ts, sv, tc, rq) ==
    /\ ts \in Seq(Written) /\ sv \in {"ready", "idle", "confused"}
    /\ tc \in Seq(Lines) /\ rq \in Seq(Lines \ {"+"})
    /\ ServerFits(ts, sv)
Good(k, ts, sv, tc, rq) ==
    /\ k \in Client /\ k.failed \notin Bad /\ Environment(ts, sv, tc, rq)
    /\ Handed(k, ts, sv) /\ Prot(k, ts, sv, tc, rq)

IInv ==
    /\ TypeOK /\ ServerFits(toServer, server) /\ Handed(c, toServer, server)
    /\ c.failed \notin Bad
    /\ Alive => Prot(c, toServer, server, toClient, respQueue)

----------------------------------------------------------------------------
(* Sequences of commands and lines. *)

\* The types of a client's fields.
LEMMA ClientFields ==
    ASSUME NEW k \in Client
    PROVE  /\ k.shouldExit \in BOOLEAN /\ k.over \in BOOLEAN /\ k.lingers \in BOOLEAN
           /\ k.requested \in BOOLEAN /\ k.launcher \in BOOLEAN /\ k.idling \in BOOLEAN
           /\ k.idleCommandRunning \in BOOLEAN /\ k.tagIdle \in BOOLEAN
           /\ k.delayedEnter \in BOOLEAN /\ k.renewal \in BOOLEAN
           /\ k.parserIdling \in BOOLEAN /\ k.waitForInitialIdle \in BOOLEAN
           /\ k.waiting \in Nat /\ k.running \in Nat /\ k.active \in Nat /\ k.arrivals \in Nat
           /\ k.cmdQueue \in Seq(Written)
           /\ k.posted \in Seq({"slotActivateTasks", "terminate"})
           /\ k.failed \in Failures
BY DEF Client, Written

\* Appending to a queue that fits.
LEMMA FitsAppend ==
    ASSUME NEW p \in BOOLEAN, NEW q \in Seq(Written), NEW x \in Written, Fits(p, q),
           (x = "DONE") = EndsIdling(p, q)
    PROVE  Fits(p, Append(q, x)) /\ EndsIdling(p, Append(q, x)) = (x = "IDLE")
<1> DEFINE r == Append(q, x)
<1>1. /\ Len(q) \in Nat /\ Len(r) = Len(q) + 1 /\ DOMAIN r = 1..(Len(q) + 1) /\ DOMAIN q = 1..Len(q)
      /\ r[Len(q) + 1] = x /\ r # <<>>
  OBVIOUS
<1>2. \A i \in DOMAIN q : r[i] = q[i]
  OBVIOUS
<1> HIDE DEF r
<1>3. ASSUME NEW i \in DOMAIN r
      PROVE  (r[i] = "DONE") = (IF i = 1 THEN p ELSE r[i - 1] = "IDLE")
  <2>1. CASE i \in DOMAIN q
    <3>1. i # 1 => i - 1 \in DOMAIN q /\ r[i - 1] = q[i - 1]
      BY <1>1, <1>2, <2>1
    <3>2. (q[i] = "DONE") = (IF i = 1 THEN p ELSE q[i - 1] = "IDLE")
      BY <2>1 DEF Fits
    <3> QED
      BY <1>2, <2>1, <3>1, <3>2
  <2>2. CASE i = Len(q) + 1
    <3>1. CASE q = <<>>
      <4>1. i = 1 /\ r[i] = x
        BY <1>1, <2>2, <3>1
      <4> QED
        BY <3>1, <4>1 DEF EndsIdling
    <3>2. CASE q # <<>>
      <4>1. i # 1 /\ r[i] = x /\ i - 1 = Len(q) /\ Len(q) \in DOMAIN q
        BY <1>1, <2>2, <3>2
      <4>2. r[i - 1] = q[Len(q)]
        BY <1>2, <4>1
      <4> QED
        BY <3>2, <4>1, <4>2 DEF EndsIdling
    <3> QED
      BY <3>1, <3>2
  <2> QED
    BY <1>1, <2>1, <2>2
<1> QED
  BY <1>1, <1>3 DEF Fits, EndsIdling, r

\* Nothing but tasks: they fit where the queue does not end with IDLE.
LEMMA FitsTasks ==
    ASSUME NEW p \in BOOLEAN, NEW q \in Seq(Written), NEW n \in Nat, Fits(p, q),
           ~EndsIdling(p, q)
    PROVE  LET r == q \o [i \in 1..n |-> "TASK"]
           IN r \in Seq(Written) /\ Fits(p, r) /\ ~EndsIdling(p, r)
<1> DEFINE t == [i \in 1..n |-> "TASK"]
           r == q \o t
<1>1. t \in Seq(Written) /\ Len(t) = n /\ r \in Seq(Written)
  <2>1. t \in [1..n -> Written]
    BY DEF Written, Commands
  <2>2. t \in Seq(Written) /\ Len(t) = n
    BY <2>1, FiniteFunctionIsSeq
  <2> QED
    BY <2>2
<1>2. /\ Len(q) \in Nat /\ Len(r) = Len(q) + n /\ DOMAIN r = 1..(Len(q) + n) /\ DOMAIN q = 1..Len(q)
      /\ \A i \in 1..Len(r) : r[i] = IF i <= Len(q) THEN q[i] ELSE t[i - Len(q)]
  BY <1>1, ConcatProperties
<1>3. \A i \in DOMAIN q : r[i] = q[i]
  BY <1>2
<1>4. \A i \in DOMAIN r : i > Len(q) => r[i] = "TASK"
  BY <1>2
<1> HIDE DEF r, t
<1>5. ASSUME NEW i \in DOMAIN r
      PROVE  (r[i] = "DONE") = (IF i = 1 THEN p ELSE r[i - 1] = "IDLE")
  <2>1. CASE i \in DOMAIN q
    <3>1. i # 1 => i - 1 \in DOMAIN q /\ r[i - 1] = q[i - 1]
      BY <1>2, <1>3, <2>1
    <3>2. (q[i] = "DONE") = (IF i = 1 THEN p ELSE q[i - 1] = "IDLE")
      BY <2>1 DEF Fits
    <3> QED
      BY <1>3, <2>1, <3>1, <3>2
  <2>2. CASE i > Len(q)
    <3>1. r[i] = "TASK"
      BY <1>4, <2>2
    <3>2. CASE i = 1
      <4>1. q = <<>>
        BY <1>2, <2>2, <3>2
      <4> QED
        BY <3>1, <3>2, <4>1 DEF EndsIdling
    <3>3. CASE i # 1 /\ i - 1 > Len(q)
      <4>1. i - 1 \in DOMAIN r
        BY <1>2, <3>3
      <4>2. r[i - 1] = "TASK"
        BY <1>4, <3>3, <4>1
      <4> QED
        BY <3>1, <3>3, <4>2
    <3>4. CASE i # 1 /\ i - 1 = Len(q)
      <4>1. q # <<>> /\ Len(q) \in DOMAIN q
        BY <1>2, <3>4
      <4>2. r[i - 1] = q[Len(q)]
        BY <1>3, <3>4, <4>1
      <4> QED
        BY <3>1, <3>4, <4>1, <4>2 DEF EndsIdling
    <3> QED
      BY <1>2, <2>2, <3>2, <3>3, <3>4
  <2> QED
    BY <1>2, <2>1, <2>2
<1>6. ~EndsIdling(p, r)
  <2>1. CASE n = 0
    <3>1. Len(r) = Len(q) /\ (r = <<>>) = (q = <<>>)
      BY <1>1, <1>2, <2>1
    <3>2. q # <<>> => r[Len(r)] = q[Len(q)]
      BY <1>2, <1>3, <3>1
    <3> QED
      BY <3>1, <3>2 DEF EndsIdling
  <2>2. CASE n # 0
    <3>1. r # <<>> /\ Len(r) \in DOMAIN r /\ Len(r) > Len(q)
      BY <1>1, <1>2, <2>2
    <3> QED
      BY <1>4, <3>1 DEF EndsIdling
  <2> QED
    BY <2>1, <2>2
<1> QED
  BY <1>1, <1>5, <1>6 DEF Fits, r, t

----------------------------------------------------------------------------
(* What the methods do to a client whose protocol is in order. *)

USE DEF One

\* Calls waiting in the event loop.
LEMMA PostedCalls ==
    ASSUME NEW S, NEW s \in Seq(S), NEW a \in S, NEW x
    PROVE  /\ Has(Append(s, a), x) <=> Has(s, x) \/ a = x
           /\ s # <<>> => (Has(s, x) <=> Has(Tail(s), x) \/ Head(s) = x)
<1>1. /\ Len(s) \in Nat /\ DOMAIN s = 1..Len(s) /\ DOMAIN Append(s, a) = 1..(Len(s) + 1)
      /\ Append(s, a)[Len(s) + 1] = a /\ \A i \in 1..Len(s) : Append(s, a)[i] = s[i]
  OBVIOUS
<1>2. Has(Append(s, a), x) <=> Has(s, x) \/ a = x
  <2>1. ASSUME Has(Append(s, a), x) PROVE Has(s, x) \/ a = x
    <3>1. PICK i \in 1..(Len(s) + 1) : Append(s, a)[i] = x
      BY <1>1, <2>1 DEF Has
    <3>2. CASE i = Len(s) + 1
      BY <1>1, <3>1, <3>2
    <3>3. CASE i # Len(s) + 1
      <4>1. i \in 1..Len(s)
        BY <1>1, <3>3
      <4> QED
        BY <1>1, <3>1, <4>1 DEF Has
    <3> QED
      BY <3>2, <3>3
  <2>2. ASSUME Has(s, x) PROVE Has(Append(s, a), x)
    <3>1. PICK i \in 1..Len(s) : s[i] = x
      BY <1>1, <2>2 DEF Has
    <3>2. i \in 1..(Len(s) + 1)
      BY <1>1
    <3> QED
      BY <1>1, <3>1, <3>2 DEF Has
  <2>3. ASSUME a = x PROVE Has(Append(s, a), x)
    <3>1. Len(s) + 1 \in 1..(Len(s) + 1)
      BY <1>1
    <3> QED
      BY <1>1, <2>3, <3>1 DEF Has
  <2> QED
    BY <2>1, <2>2, <2>3
<1>3. ASSUME s # <<>> PROVE Has(s, x) <=> Has(Tail(s), x) \/ Head(s) = x
  <2>1. /\ Len(s) >= 1 /\ Head(s) = s[1] /\ DOMAIN Tail(s) = 1..(Len(s) - 1)
        /\ \A i \in 1..(Len(s) - 1) : Tail(s)[i] = s[i + 1]
    BY <1>1, <1>3
  <2>2. ASSUME Has(s, x) PROVE Has(Tail(s), x) \/ Head(s) = x
    <3>1. PICK i \in 1..Len(s) : s[i] = x
      BY <1>1, <2>2 DEF Has
    <3>2. i = 1 \/ (i - 1 \in 1..(Len(s) - 1) /\ (i - 1) + 1 = i)
      BY <1>1
    <3>3. i = 1 => Head(s) = x
      BY <2>1, <3>1
    <3>4. i - 1 \in 1..(Len(s) - 1) => Tail(s)[i - 1] = x
      BY <2>1, <3>1, <3>2
    <3> QED
      BY <2>1, <3>2, <3>3, <3>4 DEF Has
  <2>3. ASSUME Has(Tail(s), x) PROVE Has(s, x)
    <3>1. PICK i \in 1..(Len(s) - 1) : Tail(s)[i] = x
      BY <2>1, <2>3 DEF Has
    <3>2. i + 1 \in 1..Len(s) /\ s[i + 1] = x
      BY <1>1, <2>1, <3>1
    <3> QED
      BY <1>1, <3>2 DEF Has
  <2>4. ASSUME Head(s) = x PROVE Has(s, x)
    <3>1. 1 \in 1..Len(s) /\ s[1] = x
      BY <1>1, <2>1, <2>4
    <3> QED
      BY <1>1, <3>1 DEF Has
  <2> QED
    BY <2>2, <2>3, <2>4
<1> QED
  BY <1>2, <1>3

\* All the numbers that Balanced adds up are numbers.
LEMMA CountTypes ==
    ASSUME NEW k, NEW ts, NEW sv, NEW tc, NEW rq, Good(k, ts, sv, tc, rq), NEW x
    PROVE  /\ Count(ts, x) \in Nat /\ Count(k.cmdQueue, x) \in Nat
           /\ Count(tc, x) \in Nat /\ Count(rq, x) \in Nat
BY ClientFields, CountNat DEF Good, Environment

\* Arithmetic: a sum of naturals that is zero.
LEMMA SumZero ==
    \A a, b, d, e, f, g, h \in Nat :
        a + b + h + d + e + f + g = 0 =>
            a = 0 /\ b = 0 /\ d = 0 /\ e = 0 /\ f = 0 /\ g = 0 /\ h = 0
OBVIOUS

\* While no IDLE runs, the server does not idle and nobody speaks of IDLE.
LEMMA NoToken ==
    ASSUME NEW k, NEW ts, NEW sv, NEW tc, NEW rq, Good(k, ts, sv, tc, rq),
           ~k.idleCommandRunning
    PROVE  /\ sv # "idle" /\ ~k.idling /\ ~k.waitForInitialIdle
           /\ Count(ts, "IDLE") = 0 /\ Count(k.cmdQueue, "IDLE") = 0
           /\ Count(tc, "OK_IDLE") = 0 /\ Count(rq, "OK_IDLE") = 0
           /\ Count(tc, "NO_IDLE") = 0 /\ Count(rq, "NO_IDLE") = 0 /\ Count(tc, "+") = 0
<1> DEFINE i == One(sv = "idle")
<1>1. Count(ts, "IDLE") + Count(k.cmdQueue, "IDLE") + i
      + Count(tc, "OK_IDLE") + Count(rq, "OK_IDLE")
      + Count(tc, "NO_IDLE") + Count(rq, "NO_IDLE") = 0
  BY DEF Good, Prot, Balanced
<1>1a. Count(ts, "IDLE") + Count(tc, "+") + Count(tc, "NO_IDLE") + Count(rq, "NO_IDLE")
       = One(k.waitForInitialIdle)
  BY DEF Good, Prot, Balanced
<1>2. \A x : /\ Count(ts, x) \in Nat /\ Count(k.cmdQueue, x) \in Nat
             /\ Count(tc, x) \in Nat /\ Count(rq, x) \in Nat
  BY CountTypes
<1>2a. k.waitForInitialIdle \in BOOLEAN
  BY ClientFields DEF Good
<1>2b. i \in Nat /\ (sv = "idle" => i = 1)
  OBVIOUS
<1> HIDE DEF i
<1>3. /\ sv # "idle" /\ Count(ts, "IDLE") = 0 /\ Count(k.cmdQueue, "IDLE") = 0
      /\ Count(tc, "OK_IDLE") = 0 /\ Count(rq, "OK_IDLE") = 0
      /\ Count(tc, "NO_IDLE") = 0 /\ Count(rq, "NO_IDLE") = 0
  <2> DEFINE a == Count(ts, "IDLE")       b == Count(k.cmdQueue, "IDLE")
             d == Count(tc, "OK_IDLE")    e == Count(rq, "OK_IDLE")
             f == Count(tc, "NO_IDLE")    g == Count(rq, "NO_IDLE")
  <2>1. /\ a \in Nat /\ b \in Nat /\ d \in Nat /\ e \in Nat /\ f \in Nat /\ g \in Nat
        /\ i \in Nat
    BY <1>2, <1>2b
  <2>2. a + b + i + d + e + f + g = 0
    BY <1>1
  <2> HIDE DEF a, b, d, e, f, g
  <2>3. a = 0 /\ b = 0 /\ i = 0 /\ d = 0 /\ e = 0 /\ f = 0 /\ g = 0
    BY <2>1, <2>2, SumZero
  <2>4. sv # "idle"
    BY <1>2b, <2>3
  <2> QED
    BY <2>3, <2>4 DEF a, b, d, e, f, g
<1>4. Count(tc, "+") = 0
  BY <1>3 DEF Good, Prot, InTurn
<1>5. ~k.waitForInitialIdle
  BY <1>1a, <1>2a, <1>3, <1>4
<1>6. ~k.idling
  BY DEF Good, Prot, Shape
<1> QED
  BY <1>3, <1>4, <1>5, <1>6

\* A step that keeps what the counts are about needs only Shape.
LEMMA Kept ==
    ASSUME NEW k, NEW ts, NEW sv, NEW tc, NEW rq, Good(k, ts, sv, tc, rq),
           NEW l \in Client, l.failed \notin Bad, Shape(l),
           l.over = k.over, l.idleCommandRunning = k.idleCommandRunning,
           l.waitForInitialIdle = k.waitForInitialIdle, l.parserIdling = k.parserIdling,
           l.active = k.active, l.arrivals = k.arrivals, l.cmdQueue = k.cmdQueue
    PROVE  Good(l, ts, sv, tc, rq)
<1>1. Handed(l, ts, sv)
  BY DEF Good, Handed
<1>2. Balanced(l, ts, sv, tc, rq)
  BY DEF Good, Prot, Balanced
<1> QED
  BY <1>1, <1>2 DEF Good, Prot

\* A step that queues a command of its own, too.
LEMMA Queued ==
    ASSUME NEW k, NEW ts, NEW sv, NEW tc, NEW rq, Good(k, ts, sv, tc, rq),
           NEW x \in Written \ {"SELECT"},
           NEW l \in Client, l.failed \notin Bad, Shape(l), ~k.over, ~l.over,
           l.waitForInitialIdle = k.waitForInitialIdle, l.parserIdling = k.parserIdling,
           l.cmdQueue = Append(k.cmdQueue, x),
           l.active = k.active + One(x = "TASK"),
           l.arrivals = k.arrivals + One(x = "UID_FETCH"),
           One(l.idleCommandRunning) = One(k.idleCommandRunning) + One(x = "IDLE")
    PROVE  Good(l, ts, sv, tc, rq)
<1>1. \A y : Count(l.cmdQueue, y) = Count(k.cmdQueue, y) + One(x = y)
  <2>1. k.cmdQueue \in Seq(Written)
    BY ClientFields DEF Good
  <2>2. \A y : Count(Append(k.cmdQueue, x), y) = Count(k.cmdQueue, y) + (IF x = y THEN 1 ELSE 0)
    BY <2>1, CountAppend
  <2> QED
    BY <2>2
<1>2. \A y : /\ Count(ts, y) \in Nat /\ Count(k.cmdQueue, y) \in Nat
             /\ Count(tc, y) \in Nat /\ Count(rq, y) \in Nat
  BY CountTypes
<1>3. Handed(l, ts, sv)
  <2>1. Count(l.cmdQueue, "SELECT") = Count(k.cmdQueue, "SELECT")
    <3>1. Count(l.cmdQueue, "SELECT") = Count(k.cmdQueue, "SELECT") + One(x = "SELECT")
      BY <1>1
    <3>2. One(x = "SELECT") = 0 /\ Count(k.cmdQueue, "SELECT") \in Nat
      BY <1>2
    <3> QED
      BY <3>1, <3>2
  <2> QED
    BY <2>1 DEF Good, Handed
<1>4. Balanced(l, ts, sv, tc, rq)
  <2>1. /\ Count(l.cmdQueue, "IDLE") = Count(k.cmdQueue, "IDLE") + One(x = "IDLE")
        /\ Count(l.cmdQueue, "TASK") = Count(k.cmdQueue, "TASK") + One(x = "TASK")
        /\ Count(l.cmdQueue, "UID_FETCH") = Count(k.cmdQueue, "UID_FETCH") + One(x = "UID_FETCH")
    BY <1>1
  <2> DEFINE i == One(sv = "idle")
  <2>2. /\ One(x = "IDLE") \in Nat /\ One(x = "TASK") \in Nat /\ One(x = "UID_FETCH") \in Nat
        /\ i \in Nat
    OBVIOUS
  <2>3. Balanced(k, ts, sv, tc, rq)
    BY DEF Good, Prot
  <2>3a. Count(ts, "IDLE") + Count(k.cmdQueue, "IDLE") + i
         + Count(tc, "OK_IDLE") + Count(rq, "OK_IDLE")
         + Count(tc, "NO_IDLE") + Count(rq, "NO_IDLE") = One(k.idleCommandRunning)
    BY <2>3 DEF Balanced
  <2> HIDE DEF i
  <2>4. /\ Count(ts, "IDLE") \in Nat /\ Count(k.cmdQueue, "IDLE") \in Nat
        /\ Count(tc, "OK_IDLE") \in Nat /\ Count(rq, "OK_IDLE") \in Nat
        /\ Count(tc, "NO_IDLE") \in Nat /\ Count(rq, "NO_IDLE") \in Nat
    BY <1>2
  <2>5. /\ Count(ts, "TASK") \in Nat /\ Count(k.cmdQueue, "TASK") \in Nat
        /\ Count(tc, "OK_TASK") \in Nat /\ Count(rq, "OK_TASK") \in Nat
    BY <1>2
  <2>6. /\ Count(ts, "UID_FETCH") \in Nat /\ Count(k.cmdQueue, "UID_FETCH") \in Nat
        /\ Count(tc, "OK_UID_FETCH") \in Nat /\ Count(rq, "OK_UID_FETCH") \in Nat
    BY <1>2
  <2>7. Count(ts, "IDLE") + Count(l.cmdQueue, "IDLE") + i
        + Count(tc, "OK_IDLE") + Count(rq, "OK_IDLE")
        + Count(tc, "NO_IDLE") + Count(rq, "NO_IDLE") = One(l.idleCommandRunning)
    BY <2>1, <2>2, <2>3a, <2>4, SMTT(30)
  <2>8. Count(ts, "TASK") + Count(l.cmdQueue, "TASK")
        + Count(tc, "OK_TASK") + Count(rq, "OK_TASK") = l.active
    BY <2>1, <2>2, <2>3, <2>5 DEF Balanced
  <2>9. Count(ts, "UID_FETCH") + Count(l.cmdQueue, "UID_FETCH")
        + Count(tc, "OK_UID_FETCH") + Count(rq, "OK_UID_FETCH") = l.arrivals
    BY <2>1, <2>2, <2>3, <2>6 DEF Balanced
  <2> QED
    BY <2>3, <2>7, <2>8, <2>9 DEF Balanced, i
<1> QED
  BY <1>3, <1>4 DEF Good, Prot

\* The fields that no break of IDLE and no request for message data touches.
Apart(k, l) ==
    /\ l.over = k.over /\ l.running = k.running /\ l.active = k.active
    /\ l.arrivals = k.arrivals /\ l.launcher = k.launcher /\ l.tagIdle = k.tagIdle
    /\ l.idleCommandRunning = k.idleCommandRunning /\ l.failed = k.failed
    /\ l.parserIdling = k.parserIdling /\ l.waitForInitialIdle = k.waitForInitialIdle

\* Whoever breaks or cancels IDLE may queue something afterwards.
LEMMA BreakOrCancelGood ==
    ASSUME NEW k, NEW ts, NEW sv, NEW tc, NEW rq, Good(k, ts, sv, tc, rq)
    PROVE  LET l == BreakOrCancelPossibleIdle(k)
           IN /\ Good(l, ts, sv, tc, rq) /\ ~l.idling /\ Apart(k, l)
              /\ l.waiting = k.waiting /\ l.requested = k.requested /\ l.posted = k.posted
              /\ l.shouldExit = k.shouldExit
<1>1. k \in Client /\ k.failed \notin Bad /\ Shape(k)
  BY DEF Good, Prot
<1>2. CASE ~k.launcher
  <2>1. BreakOrCancelPossibleIdle(k) = k /\ ~k.idling
    BY <1>1, <1>2 DEF BreakOrCancelPossibleIdle, Shape
  <2> QED
    BY <2>1 DEF Apart
<1>3. CASE k.launcher /\ ~k.idling
  <2> DEFINE l == [k EXCEPT !.delayedEnter = FALSE]
  <2>1. BreakOrCancelPossibleIdle(k) = l
    BY <1>3 DEF BreakOrCancelPossibleIdle, FinishIdle
  <2>2. l \in Client
    BY <1>1 DEF Client
  <2>3. /\ Apart(k, l) /\ ~l.delayedEnter /\ l.waiting = k.waiting
        /\ l.requested = k.requested /\ l.posted = k.posted /\ l.idling = k.idling
        /\ l.cmdQueue = k.cmdQueue /\ l.shouldExit = k.shouldExit
    BY <1>1 DEF Apart, Client
  <2> HIDE DEF l
  <2>4. Shape(l)
    BY <1>1, <2>3 DEF Shape, Apart
  <2>5. Good(l, ts, sv, tc, rq)
    BY <1>1, <2>2, <2>3, <2>4, Kept DEF Apart
  <2> QED
    BY <1>3, <2>1, <2>3, <2>5
<1>4. CASE k.launcher /\ k.idling
  <2> DEFINE l == [k EXCEPT !.renewal = FALSE, !.idling = FALSE,
                            !.cmdQueue = Append(k.cmdQueue, "DONE")]
  <2>1. BreakOrCancelPossibleIdle(k) = l
    BY <1>1, <1>4 DEF BreakOrCancelPossibleIdle, FinishIdle, Queue, Client
  <2>1a. k.cmdQueue \in Seq(Written) /\ "DONE" \in Written \ {"SELECT"} /\ k.parserIdling \in BOOLEAN
    BY <1>1, ClientFields DEF Written, Commands
  <2>1b. Append(k.cmdQueue, "DONE") \in Seq(Written)
    BY <2>1a
  <2>2. l \in Client
    BY <1>1, <2>1b DEF Client, Written
  <2>3. /\ Apart(k, l) /\ ~l.idling /\ l.waiting = k.waiting /\ l.delayedEnter = k.delayedEnter
        /\ l.requested = k.requested /\ l.posted = k.posted
        /\ l.cmdQueue = Append(k.cmdQueue, "DONE") /\ l.shouldExit = k.shouldExit
    BY <1>1 DEF Apart, Client
  <2> HIDE DEF l
  <2>4. Fits(l.parserIdling, l.cmdQueue) /\ ~EndsIdling(l.parserIdling, l.cmdQueue)
    <3>1. Fits(k.parserIdling, k.cmdQueue) /\ EndsIdling(k.parserIdling, k.cmdQueue) \in BOOLEAN
          /\ EndsIdling(k.parserIdling, k.cmdQueue)
      BY <1>1, <1>4, <2>1a DEF Shape, EndsIdling
    <3>2. ("DONE" = "DONE") = EndsIdling(k.parserIdling, k.cmdQueue)
      BY <3>1
    <3>3. /\ Fits(k.parserIdling, Append(k.cmdQueue, "DONE"))
          /\ EndsIdling(k.parserIdling, Append(k.cmdQueue, "DONE")) = ("DONE" = "IDLE")
      BY <2>1a, <3>1, <3>2, FitsAppend
    <3> QED
      BY <2>3, <3>3 DEF Apart
  <2>5. Shape(l) /\ ~k.over /\ ~l.over
    BY <1>1, <1>4, <2>3, <2>4 DEF Shape, Apart
  <2>6. Good(l, ts, sv, tc, rq)
    <3>1. /\ l.active = k.active + One("DONE" = "TASK")
          /\ l.arrivals = k.arrivals + One("DONE" = "UID_FETCH")
          /\ One(l.idleCommandRunning) = One(k.idleCommandRunning) + One("DONE" = "IDLE")
      BY <1>1, <2>3, ClientFields DEF Apart
    <3> QED
      BY <1>1, <2>1a, <2>2, <2>3, <2>5, <3>1, Queued DEF Apart
  <2> QED
    BY <2>1, <2>3, <2>6
<1> QED
  BY <1>2, <1>3, <1>4

\* The requests become one task that waits.
LEMMA AddDependentTaskGood ==
    ASSUME NEW k, NEW ts, NEW sv, NEW tc, NEW rq, Good(k, ts, sv, tc, rq), ~k.over
    PROVE  LET l == AddDependentTask(k)
           IN Good(l, ts, sv, tc, rq) /\ ~l.idling /\ Apart(k, l)
<1> DEFINE b == BreakOrCancelPossibleIdle(k)
           l == [b EXCEPT !.waiting = b.waiting + 1,
                          !.posted = Append(b.posted, "slotActivateTasks")]
<1>1. Good(b, ts, sv, tc, rq) /\ ~b.idling /\ Apart(k, b)
  BY BreakOrCancelGood
<1>2. b \in Client /\ b.failed \notin Bad /\ Shape(b)
  BY <1>1 DEF Good, Prot
<1> HIDE DEF b
<1>3. AddDependentTask(k) = l
  BY <1>2 DEF AddDependentTask, Client, b
<1>4. /\ b.posted \in Seq({"slotActivateTasks", "terminate"}) /\ b.waiting \in Nat
      /\ Append(b.posted, "slotActivateTasks") \in Seq({"slotActivateTasks", "terminate"})
  BY <1>2, ClientFields
<1>5. l \in Client
  <2> DEFINE w == b.waiting + 1
             p == Append(b.posted, "slotActivateTasks")
  <2>1. w \in Nat /\ p \in Seq({"slotActivateTasks", "terminate"})
    BY <1>4
  <2> HIDE DEF w, p
  <2>2. [b EXCEPT !.waiting = w, !.posted = p] \in Client
    BY <1>2, <2>1 DEF Client
  <2> QED
    BY <2>2 DEF w, p
<1>6. /\ Apart(b, l) /\ l.idling = b.idling /\ l.delayedEnter = b.delayedEnter
      /\ l.posted = Append(b.posted, "slotActivateTasks") /\ l.cmdQueue = b.cmdQueue
  BY <1>2 DEF Apart, Client
<1> HIDE DEF l
<1>7. ~l.over /\ ~b.over
  BY <1>1, <1>6 DEF Apart
<1>8. Has(l.posted, "terminate") <=> Has(b.posted, "terminate")
  <2>1. "slotActivateTasks" \in {"slotActivateTasks", "terminate"}
    OBVIOUS
  <2>2. Has(Append(b.posted, "slotActivateTasks"), "terminate")
          <=> Has(b.posted, "terminate") \/ "slotActivateTasks" = "terminate"
    BY <1>4, <2>1, PostedCalls
  <2> QED
    BY <1>6, <2>2
<1>9. Shape(l)
  BY <1>2, <1>6, <1>7, <1>8 DEF Shape, Apart
<1>10. Good(l, ts, sv, tc, rq)
  BY <1>1, <1>2, <1>5, <1>6, <1>9, Kept DEF Apart
<1>11. Apart(k, l)
  BY <1>1, <1>6 DEF Apart
<1> QED
  BY <1>1, <1>3, <1>6, <1>10, <1>11

\* Asking for the requested messages breaks IDLE first.
LEMMA FetchRequestedGood ==
    ASSUME NEW k, NEW ts, NEW sv, NEW tc, NEW rq, Good(k, ts, sv, tc, rq)
    PROVE  LET l == FetchRequested(k)
           IN Good(l, ts, sv, tc, rq) /\ (~k.idling => ~l.idling) /\ Apart(k, l)
<1>1. CASE ~k.requested
  BY <1>1 DEF FetchRequested, Apart
<1>2. CASE k.requested
  <2> DEFINE b == BreakOrCancelPossibleIdle(k)
             n == [b EXCEPT !.requested = FALSE]
             l == AddDependentTask(n)
  <2>1. Good(b, ts, sv, tc, rq) /\ ~b.idling /\ Apart(k, b)
    BY BreakOrCancelGood
  <2>2. b \in Client /\ b.failed \notin Bad /\ Shape(b)
    BY <2>1 DEF Good, Prot
  <2>3. ~k.over
    BY <1>2 DEF Good, Prot, Shape
  <2> HIDE DEF b
  <2>4. FetchRequested(k) = l
    BY <1>2 DEF FetchRequested, b
  <2>5. n \in Client
    BY <2>2 DEF Client
  <2>6. /\ Apart(b, n) /\ n.idling = b.idling /\ n.delayedEnter = b.delayedEnter
        /\ n.posted = b.posted /\ n.cmdQueue = b.cmdQueue
    BY <2>2 DEF Apart, Client
  <2> HIDE DEF n
  <2>7. ~n.over /\ ~b.over
    BY <2>1, <2>3, <2>6 DEF Apart
  <2>8. Shape(n)
    BY <2>2, <2>6, <2>7 DEF Shape, Apart
  <2>9. Good(n, ts, sv, tc, rq)
    BY <2>1, <2>2, <2>5, <2>6, <2>8, Kept DEF Apart
  <2>10. Good(l, ts, sv, tc, rq) /\ ~l.idling /\ Apart(n, l)
    BY <2>7, <2>9, AddDependentTaskGood
  <2>11. Apart(k, l)
    <3> HIDE DEF l
    <3> QED
      BY <2>1, <2>6, <2>10 DEF Apart
  <2> QED
    BY <2>4, <2>10, <2>11
<1> QED
  BY <1>1, <1>2

\* The delay of IDLE starts: nothing is sent yet.
LEMMA EnterIdleLaterGood ==
    ASSUME NEW k, NEW ts, NEW sv, NEW tc, NEW rq, Good(k, ts, sv, tc, rq), ~k.over, k.launcher
    PROVE  LET l == EnterIdleLater(k)
           IN Good(l, ts, sv, tc, rq) /\ Apart(k, l) /\ l.idling = k.idling /\ l.waiting = k.waiting
<1> DEFINE l == [k EXCEPT !.delayedEnter = TRUE]
<1>1. k \in Client /\ k.failed \notin Bad /\ Shape(k)
  BY DEF Good, Prot
<1>2. l \in Client
  BY <1>1 DEF Client
<1>3. /\ Apart(k, l) /\ l.idling = k.idling /\ l.posted = k.posted /\ l.cmdQueue = k.cmdQueue
      /\ l.waiting = k.waiting
  BY <1>1 DEF Apart, Client
<1>4. EnterIdleLater(k) = IF k.idling THEN k ELSE l
  BY DEF EnterIdleLater
<1> HIDE DEF l
<1>5. Shape(l)
  BY <1>1, <1>3 DEF Shape, Apart
<1>6. Good(l, ts, sv, tc, rq)
  BY <1>1, <1>2, <1>3, <1>5, Kept DEF Apart
<1>7. Apart(k, k)
  BY DEF Apart
<1> QED
  BY <1>3, <1>4, <1>6, <1>7

\* How many tasks activateTasks starts.
LEMMA StartedType ==
    ASSUME NEW k \in Client
    PROVE  Started(k) \in Nat /\ Started(k) <= k.waiting
<1>1. k.waiting \in Nat /\ k.active \in Nat /\ LimitActiveTasks \in Nat
  BY ClientFields, LimitAssumption
<1>2. FreeSlots(k) \in Int
  BY <1>1 DEF FreeSlots
<1>3. k.waiting > FreeSlots(k) /\ FreeSlots(k) > 0 => FreeSlots(k) \in Nat /\ FreeSlots(k) <= k.waiting
  BY <1>1, <1>2
<1> HIDE DEF FreeSlots
<1> QED
  BY <1>1, <1>2, <1>3 DEF Started

\* Starting n tasks outside of IDLE, each with its command.
LEMMA StartTasks ==
    ASSUME NEW k, NEW ts, NEW sv, NEW tc, NEW rq, Good(k, ts, sv, tc, rq),
           ~k.over, ~k.idling, NEW n \in Nat, n <= k.waiting
    PROVE  LET l == [k EXCEPT !.waiting = k.waiting - n, !.running = k.running + n,
                              !.active = k.active + n,
                              !.cmdQueue = k.cmdQueue \o [i \in 1..n |-> "TASK"]]
           IN Good(l, ts, sv, tc, rq) /\ l.over = k.over /\ l.launcher = k.launcher
<1> DEFINE w == k.waiting - n
           r == k.running + n
           a == k.active + n
           t == [i \in 1..n |-> "TASK"]
           q == k.cmdQueue \o t
           l == [k EXCEPT !.waiting = w, !.running = r, !.active = a, !.cmdQueue = q]
<1>1. k \in Client /\ k.failed \notin Bad /\ Shape(k)
  BY DEF Good, Prot
<1>2. /\ k.cmdQueue \in Seq(Written) /\ k.parserIdling \in BOOLEAN
      /\ k.waiting \in Nat /\ k.running \in Nat /\ k.active \in Nat
  BY <1>1, ClientFields
<1>3. w \in Nat /\ r \in Nat /\ a \in Nat /\ a <= r
  BY <1>1, <1>2 DEF Shape
<1>4. ~EndsIdling(k.parserIdling, k.cmdQueue) /\ Fits(k.parserIdling, k.cmdQueue)
  BY <1>1 DEF Shape
<1>5. q \in Seq(Written) /\ Fits(k.parserIdling, q) /\ ~EndsIdling(k.parserIdling, q)
  BY <1>2, <1>4, FitsTasks
<1>6. t \in Seq(Written)
  <2>1. t \in [1..n -> Written]
    BY DEF Written, Commands
  <2> QED
    BY <2>1, FiniteFunctionIsSeq
<1>7. \A y : Count(q, y) = Count(k.cmdQueue, y) + (IF "TASK" = y THEN n ELSE 0)
  <2>1. ASSUME NEW y PROVE Count(t, y) = IF "TASK" = y THEN n ELSE 0
    <3>1. Alike(t, n, "TASK")
      BY DEF Alike
    <3> HIDE DEF t
    <3>2. ("TASK" = y => Count(t, y) = n) /\ ("TASK" # y => Count(t, y) = 0)
      BY <3>1, CountAlike
    <3> QED
      BY <3>2
  <2>2. q = k.cmdQueue \o t
    OBVIOUS
  <2> HIDE DEF t, q
  <2>3. \A y : Count(k.cmdQueue \o t, y) = Count(k.cmdQueue, y) + Count(t, y)
    BY <1>2, <1>6, CountConcat
  <2> QED
    BY <2>1, <2>2, <2>3
<1> HIDE DEF w, r, a, t, q
<1>8. l \in Client
  BY <1>1, <1>3, <1>5 DEF Client, Written
<1>9. /\ l.over = k.over /\ l.launcher = k.launcher /\ l.idling = k.idling
      /\ l.idleCommandRunning = k.idleCommandRunning /\ l.tagIdle = k.tagIdle
      /\ l.delayedEnter = k.delayedEnter /\ l.waitForInitialIdle = k.waitForInitialIdle
      /\ l.parserIdling = k.parserIdling /\ l.posted = k.posted /\ l.failed = k.failed
      /\ l.cmdQueue = q /\ l.active = a /\ l.running = r /\ l.arrivals = k.arrivals
  BY <1>1 DEF Client
<1> HIDE DEF l
<1>10. Shape(l)
  BY <1>1, <1>3, <1>5, <1>9 DEF Shape
<1>11. /\ Count(l.cmdQueue, "IDLE") = Count(k.cmdQueue, "IDLE")
       /\ Count(l.cmdQueue, "SELECT") = Count(k.cmdQueue, "SELECT")
       /\ Count(l.cmdQueue, "UID_FETCH") = Count(k.cmdQueue, "UID_FETCH")
       /\ Count(l.cmdQueue, "TASK") = Count(k.cmdQueue, "TASK") + n
  <2>1. /\ Count(k.cmdQueue, "IDLE") \in Nat /\ Count(k.cmdQueue, "SELECT") \in Nat
        /\ Count(k.cmdQueue, "UID_FETCH") \in Nat /\ Count(k.cmdQueue, "TASK") \in Nat
    BY CountTypes
  <2>2. /\ Count(q, "IDLE") = Count(k.cmdQueue, "IDLE") + (IF "TASK" = "IDLE" THEN n ELSE 0)
        /\ Count(q, "SELECT") = Count(k.cmdQueue, "SELECT") + (IF "TASK" = "SELECT" THEN n ELSE 0)
        /\ Count(q, "UID_FETCH")
             = Count(k.cmdQueue, "UID_FETCH") + (IF "TASK" = "UID_FETCH" THEN n ELSE 0)
        /\ Count(q, "TASK") = Count(k.cmdQueue, "TASK") + (IF "TASK" = "TASK" THEN n ELSE 0)
    BY <1>7
  <2>3. /\ Count(q, "IDLE") = Count(k.cmdQueue, "IDLE") + 0
        /\ Count(q, "SELECT") = Count(k.cmdQueue, "SELECT") + 0
        /\ Count(q, "UID_FETCH") = Count(k.cmdQueue, "UID_FETCH") + 0
        /\ Count(q, "TASK") = Count(k.cmdQueue, "TASK") + n
    BY <2>2
  <2>4. \A m \in Nat : m + 0 = m
    OBVIOUS
  <2> QED
    BY <1>9, <2>1, <2>3, <2>4
<1>12. Handed(l, ts, sv)
  BY <1>9, <1>11 DEF Good, Handed
<1>13. Balanced(l, ts, sv, tc, rq)
  <2>1. Balanced(k, ts, sv, tc, rq)
    BY DEF Good, Prot
  <2>2. Count(ts, "TASK") + Count(l.cmdQueue, "TASK")
        + Count(tc, "OK_TASK") + Count(rq, "OK_TASK") = l.active
    <3> DEFINE x == Count(ts, "TASK")      y == Count(k.cmdQueue, "TASK")
               u == Count(tc, "OK_TASK")   v == Count(rq, "OK_TASK")
    <3>1. x \in Nat /\ y \in Nat /\ u \in Nat /\ v \in Nat
      BY CountTypes
    <3>2. x + y + u + v = k.active
      BY <2>1 DEF Balanced
    <3> HIDE DEF x, y, u, v
    <3>3. x + (y + n) + u + v = a
      BY <1>2, <3>1, <3>2 DEF a
    <3> QED
      BY <1>9, <1>11, <3>3 DEF x, y, u, v
  <2> QED
    BY <1>9, <1>11, <2>1, <2>2 DEF Balanced
<1>14. Good(l, ts, sv, tc, rq)
  BY <1>8, <1>9, <1>10, <1>12, <1>13 DEF Good, Prot
<1> QED
  BY <1>9, <1>14 DEF l, w, r, a, t, q

\* activateTasks has broken IDLE before it starts any task.
LEMMA ActivateTasksGood ==
    ASSUME NEW k, NEW ts, NEW sv, NEW tc, NEW rq, Good(k, ts, sv, tc, rq)
    PROVE  Good(ActivateTasks(k), ts, sv, tc, rq)
<1>1. CASE k.over \/ k.failed # "none"
  BY <1>1 DEF ActivateTasks
<1>2. CASE ~(k.over \/ k.failed # "none")
  <2> DEFINE b == BreakOrCancelPossibleIdle(k)
             ready == FetchRequested(b)
             n == Started(ready)
             on == [ready EXCEPT !.waiting = @ - n, !.running = @ + n, !.active = @ + n,
                                 !.cmdQueue = @ \o [i \in 1..n |-> "TASK"]]
             on2 == [ready EXCEPT !.waiting = ready.waiting - n, !.running = ready.running + n,
                                  !.active = ready.active + n,
                                  !.cmdQueue = ready.cmdQueue \o [i \in 1..n |-> "TASK"]]
  <2>1. Good(b, ts, sv, tc, rq) /\ ~b.idling /\ Apart(k, b)
    BY BreakOrCancelGood
  <2> HIDE DEF b
  <2>2. Good(ready, ts, sv, tc, rq) /\ ~ready.idling /\ Apart(b, ready)
    BY <2>1, FetchRequestedGood
  <2> HIDE DEF ready
  <2>3. ready \in Client /\ ~ready.over
    BY <1>2, <2>1, <2>2 DEF Good, Apart
  <2>4. n \in Nat /\ n <= ready.waiting
    BY <2>3, StartedType
  <2> HIDE DEF n
  <2>5. Good(on2, ts, sv, tc, rq) /\ ~on2.over
    BY <2>2, <2>3, <2>4, StartTasks
  <2>6. on = on2
    BY <2>3 DEF Client
  <2> HIDE DEF on2
  <2>7. Good(on, ts, sv, tc, rq) /\ ~on.over
    BY <2>5, <2>6
  <2>8. ActivateTasks(k) = IF CanRunIdleRightNow(on) THEN EnterIdleLater(on) ELSE on
    BY <1>2 DEF ActivateTasks, b, ready, n
  <2> HIDE DEF on
  <2>9. CanRunIdleRightNow(on) => on.launcher
    BY DEF CanRunIdleRightNow
  <2> QED
    BY <2>7, <2>8, <2>9, EnterIdleLaterGood
<1> QED
  BY <1>1, <1>2

\* Without an IDLE, a server that never ends IDLE by itself has no DONE to come.
LEMMA NoDone ==
    ASSUME NEW k, NEW ts, NEW sv, NEW tc, NEW rq, Good(k, ts, sv, tc, rq),
           ~k.idleCommandRunning, ~ServerEndsIdle
    PROVE  Count(ts, "DONE") = 0 /\ Count(k.cmdQueue, "DONE") = 0
<1>1. /\ k.cmdQueue \in Seq(Written) /\ ts \in Seq(Written) /\ k.parserIdling \in BOOLEAN
      /\ Fits(k.parserIdling, k.cmdQueue) /\ Knows(k.parserIdling, ts, sv, tc, rq)
  BY ClientFields DEF Good, Environment, Prot, Shape
<1>2. /\ sv # "idle" /\ Count(ts, "IDLE") = 0 /\ Count(k.cmdQueue, "IDLE") = 0
      /\ Count(tc, "NO_IDLE") = 0 /\ Count(rq, "NO_IDLE") = 0
  BY NoToken
<1>3. (\A i \in DOMAIN ts : ts[i] # "DONE") /\ ~k.parserIdling
  BY <1>1, <1>2 DEF Knows
<1>4. ASSUME NEW i \in DOMAIN k.cmdQueue PROVE k.cmdQueue[i] # "DONE"
  <2>1. (k.cmdQueue[i] = "DONE") = (IF i = 1 THEN k.parserIdling ELSE k.cmdQueue[i - 1] = "IDLE")
    BY <1>1 DEF Fits
  <2>2. i # 1 => i - 1 \in DOMAIN k.cmdQueue
    BY <1>1
  <2>3. \A j \in DOMAIN k.cmdQueue : k.cmdQueue[j] # "IDLE"
    BY <1>1, <1>2, CountNat
  <2> QED
    BY <1>3, <2>1, <2>2, <2>3
<1> QED
  BY <1>1, <1>3, <1>4, CountNat

\* SELECT is the last that is sent where there was none.
LEMMA SelectLast ==
    ASSUME NEW s \in Seq(Written), NEW q \in Seq(Written),
           Count(s, "SELECT") = 0, Count(q, "SELECT") = 0
    PROVE  LET r == s \o Append(q, "SELECT")
           IN \A i \in DOMAIN r : r[i] = "SELECT" => i = Len(r)
<1> DEFINE t == Append(q, "SELECT")
           r == s \o t
<1>1. (\A i \in DOMAIN s : s[i] # "SELECT") /\ (\A i \in DOMAIN q : q[i] # "SELECT")
  BY CountNat
<1>2. "SELECT" \in Written
  BY DEF Written, Commands
<1>3. /\ t \in Seq(Written) /\ Len(t) = Len(q) + 1
      /\ \A i \in 1..Len(t) : t[i] = IF i <= Len(q) THEN q[i] ELSE "SELECT"
  BY <1>2
<1>4. /\ Len(s) \in Nat /\ Len(q) \in Nat /\ DOMAIN s = 1..Len(s) /\ DOMAIN q = 1..Len(q)
  OBVIOUS
<1> HIDE DEF t
<1>5. /\ DOMAIN r = 1..(Len(s) + Len(t)) /\ Len(r) = Len(s) + Len(t)
      /\ \A i \in 1..Len(r) : r[i] = IF i <= Len(s) THEN s[i] ELSE t[i - Len(s)]
  <2>1. /\ s \o t \in Seq(Written) /\ Len(s \o t) = Len(s) + Len(t)
        /\ \A i \in 1..(Len(s) + Len(t)) : (s \o t)[i] = IF i <= Len(s) THEN s[i] ELSE t[i - Len(s)]
    BY <1>3, ConcatProperties
  <2>2. DOMAIN (s \o t) = 1..Len(s \o t)
    BY <2>1
  <2> QED
    BY <2>1, <2>2
<1> HIDE DEF r
<1>6. ASSUME NEW i \in DOMAIN r, r[i] = "SELECT" PROVE i = Len(r)
  <2>1. ~(i <= Len(s))
    BY <1>1, <1>4, <1>5, <1>6
  <2>2. i - Len(s) \in 1..Len(t) /\ t[i - Len(s)] = "SELECT"
    BY <1>3, <1>4, <1>5, <1>6, <2>1
  <2>3. ~(i - Len(s) <= Len(q))
    <3>1. i - Len(s) <= Len(q) => i - Len(s) \in DOMAIN q /\ t[i - Len(s)] = q[i - Len(s)]
      BY <1>3, <1>4, <2>2
    <3> QED
      BY <1>1, <2>2, <3>1
  <2> QED
    BY <1>3, <1>4, <1>5, <2>2, <2>3
<1> QED
  BY <1>6 DEF r, t

\* terminate() hands over a connection on which no IDLE is left: SELECT is queued last.
LEMMA TerminateGood ==
    ASSUME NEW k, NEW ts, NEW sv, NEW tc, NEW rq, Good(k, ts, sv, tc, rq),
           ~k.idleCommandRunning
    PROVE  Good(Terminate(k), ts, sv, tc, rq)
<1>1. k \in Client /\ k.failed \notin Bad /\ Shape(k)
  BY DEF Good, Prot
<1>2. CASE k.over
  BY <1>2 DEF Terminate
<1>3. CASE ~k.over /\ (k.waiting > 0 \/ k.requested \/ k.running > 0)
  <2> DEFINE l == [k EXCEPT !.failed = "terminate"]
  <2>1. Terminate(k) = l
    BY <1>3 DEF Terminate, Fail
  <2>2. l \in Client /\ l.failed \notin Bad
    BY <1>1 DEF Client, Failures, Bad
  <2>3. /\ Apart(k, [l EXCEPT !.failed = k.failed]) /\ l.posted = k.posted
        /\ l.cmdQueue = k.cmdQueue /\ l.waiting = k.waiting /\ l.requested = k.requested
        /\ l.idling = k.idling /\ l.delayedEnter = k.delayedEnter
        /\ l.over = k.over /\ l.running = k.running /\ l.active = k.active
        /\ l.arrivals = k.arrivals /\ l.launcher = k.launcher /\ l.tagIdle = k.tagIdle
        /\ l.idleCommandRunning = k.idleCommandRunning
        /\ l.parserIdling = k.parserIdling /\ l.waitForInitialIdle = k.waitForInitialIdle
    BY <1>1 DEF Apart, Client
  <2> HIDE DEF l
  <2>4. Shape(l)
    BY <1>1, <2>3 DEF Shape
  <2> QED
    BY <2>1, <2>2, <2>3, <2>4, Kept
<1>4. CASE ~k.over /\ ~(k.waiting > 0 \/ k.requested \/ k.running > 0)
  <2> DEFINE q == Append(k.cmdQueue, "SELECT")
             l == [k EXCEPT !.over = TRUE, !.delayedEnter = FALSE, !.renewal = FALSE,
                            !.cmdQueue = q]
  <2>1. Terminate(k) = l
    BY <1>1, <1>4 DEF Terminate, Queue, Client
  <2>2. /\ k.cmdQueue \in Seq(Written) /\ k.parserIdling \in BOOLEAN
        /\ k.waiting = 0 /\ k.running = 0 /\ ~k.requested /\ ts \in Seq(Written)
    BY <1>1, <1>4, ClientFields DEF Good, Environment
  <2>3. "SELECT" \in Written
    BY DEF Written, Commands
  <2>4. q \in Seq(Written)
    BY <2>2, <2>3
  <2>5. \A y : Count(q, y) = Count(k.cmdQueue, y) + (IF "SELECT" = y THEN 1 ELSE 0)
    BY <2>2, <2>3, CountAppend
  <2>6. Fits(k.parserIdling, q) /\ ~EndsIdling(k.parserIdling, q)
    <3>1. Fits(k.parserIdling, k.cmdQueue) /\ ~EndsIdling(k.parserIdling, k.cmdQueue)
      BY <1>1 DEF Shape
    <3>2. EndsIdling(k.parserIdling, k.cmdQueue) \in BOOLEAN
      BY <2>2 DEF EndsIdling
    <3>3. ("SELECT" = "DONE") = EndsIdling(k.parserIdling, k.cmdQueue)
      BY <3>1, <3>2
    <3>4. Fits(k.parserIdling, q) /\ EndsIdling(k.parserIdling, q) = ("SELECT" = "IDLE")
      BY <2>2, <2>3, <3>1, <3>3, FitsAppend
    <3> QED
      BY <3>4
  <2>7. \A i \in DOMAIN (ts \o q) : (ts \o q)[i] = "SELECT" => i = Len(ts \o q)
    <3>1. Count(ts, "SELECT") = 0 /\ Count(k.cmdQueue, "SELECT") = 0
      BY <1>4 DEF Good, Handed
    <3> QED
      BY <2>2, <3>1, SelectLast
  <2> HIDE DEF q
  <2>8. l \in Client
    BY <1>1, <2>4 DEF Client, Written
  <2>9. /\ l.over /\ l.cmdQueue = q /\ ~l.delayedEnter /\ l.failed = k.failed
        /\ l.waiting = k.waiting /\ l.requested = k.requested /\ l.posted = k.posted
        /\ l.idling = k.idling /\ l.running = k.running /\ l.active = k.active
        /\ l.arrivals = k.arrivals /\ l.launcher = k.launcher /\ l.tagIdle = k.tagIdle
        /\ l.idleCommandRunning = k.idleCommandRunning
        /\ l.parserIdling = k.parserIdling /\ l.waitForInitialIdle = k.waitForInitialIdle
    BY <1>1 DEF Client
  <2> HIDE DEF l
  <2>10. Shape(l)
    BY <1>1, <2>2, <2>6, <2>9 DEF Shape
  <2>11. /\ Count(q, "IDLE") = Count(k.cmdQueue, "IDLE")
         /\ Count(q, "DONE") = Count(k.cmdQueue, "DONE")
         /\ Count(q, "UID_FETCH") = Count(k.cmdQueue, "UID_FETCH")
         /\ Count(q, "TASK") = Count(k.cmdQueue, "TASK")
    <3>1. /\ Count(k.cmdQueue, "IDLE") \in Nat /\ Count(k.cmdQueue, "DONE") \in Nat
          /\ Count(k.cmdQueue, "UID_FETCH") \in Nat /\ Count(k.cmdQueue, "TASK") \in Nat
      BY CountTypes
    <3>2. /\ Count(q, "IDLE") = Count(k.cmdQueue, "IDLE") + 0
          /\ Count(q, "DONE") = Count(k.cmdQueue, "DONE") + 0
          /\ Count(q, "UID_FETCH") = Count(k.cmdQueue, "UID_FETCH") + 0
          /\ Count(q, "TASK") = Count(k.cmdQueue, "TASK") + 0
      BY <2>5
    <3>3. \A m \in Nat : m + 0 = m
      OBVIOUS
    <3> QED
      BY <3>1, <3>2, <3>3
  <2>12. Handed(l, ts, sv)
    <3>1. sv # "idle" /\ Count(ts, "IDLE") = 0 /\ Count(q, "IDLE") = 0
      BY <2>11, NoToken
    <3>2. ServerEndsIdle \/ (Count(ts, "DONE") = 0 /\ Count(q, "DONE") = 0)
      BY <2>11, NoDone
    <3> QED
      BY <2>7, <2>9, <3>1, <3>2 DEF Handed
  <2>13. Balanced(l, ts, sv, tc, rq)
    BY <2>9, <2>11 DEF Good, Prot, Balanced
  <2>14. Good(l, ts, sv, tc, rq)
    BY <1>1, <2>8, <2>9, <2>10, <2>12, <2>13 DEF Good, Prot
  <2> QED
    BY <2>1, <2>14
<1> QED
  BY <1>2, <1>3, <1>4

\* The end of a task: terminate, or the next tasks, or IDLE later.
LEMMA SlotTaskDeletedGood ==
    ASSUME NEW k, NEW ts, NEW sv, NEW tc, NEW rq, Good(k, ts, sv, tc, rq)
    PROVE  Good(SlotTaskDeleted(k), ts, sv, tc, rq)
<1>1. CASE k.over
  BY <1>1 DEF SlotTaskDeleted
<1>2. CASE ~k.over /\ IsReadyToTerminate(k)
  <2>1. ~k.idleCommandRunning
    BY <1>2 DEF IsReadyToTerminate, HasPendingInternalActions, Good, Prot, Shape
  <2>2. Good(Terminate(k), ts, sv, tc, rq)
    BY <2>1, TerminateGood
  <2>3. SlotTaskDeleted(k) = ActivateTasks(Terminate(k))
    BY <1>2 DEF SlotTaskDeleted
  <2> QED
    BY <2>2, <2>3, ActivateTasksGood
<1>3. CASE ~k.over /\ ~IsReadyToTerminate(k) /\ CanRunIdleRightNow(k)
  <2>1. k.launcher
    BY <1>3 DEF CanRunIdleRightNow
  <2>2. Good(EnterIdleLater(k), ts, sv, tc, rq)
    BY <1>3, <2>1, EnterIdleLaterGood
  <2>3. SlotTaskDeleted(k) = ActivateTasks(EnterIdleLater(k))
    BY <1>3 DEF SlotTaskDeleted
  <2> QED
    BY <2>2, <2>3, ActivateTasksGood
<1>4. CASE ~k.over /\ ~IsReadyToTerminate(k) /\ ~CanRunIdleRightNow(k)
  <2>1. SlotTaskDeleted(k) = ActivateTasks(k)
    BY <1>4 DEF SlotTaskDeleted
  <2> QED
    BY <2>1, ActivateTasksGood
<1> QED
  BY <1>1, <1>2, <1>3, <1>4

\* EXISTS breaks IDLE before the UIDs of the arrivals are asked for.
LEMMA HandleNumberResponseGood ==
    ASSUME NEW k, NEW ts, NEW sv, NEW tc, NEW rq, Good(k, ts, sv, tc, rq)
    PROVE  Good(HandleNumberResponse(k), ts, sv, tc, rq)
<1>1. CASE k.over
  BY <1>1 DEF HandleNumberResponse
<1>2. CASE ~k.over
  <2> DEFINE b == BreakOrCancelPossibleIdle(k)
             n == b.arrivals + 1
             q == Append(b.cmdQueue, "UID_FETCH")
             l == [b EXCEPT !.arrivals = n, !.cmdQueue = q]
  <2>1. Good(b, ts, sv, tc, rq) /\ ~b.idling /\ Apart(k, b)
    BY BreakOrCancelGood
  <2>2. b \in Client /\ b.failed \notin Bad /\ Shape(b) /\ ~b.over
    BY <1>2, <2>1 DEF Good, Prot, Apart
  <2> HIDE DEF b
  <2>3. HandleNumberResponse(k) = l
    BY <1>2, <2>2 DEF HandleNumberResponse, Queue, b, Client
  <2>4. /\ b.cmdQueue \in Seq(Written) /\ b.arrivals \in Nat /\ b.active \in Nat
        /\ b.parserIdling \in BOOLEAN /\ b.idleCommandRunning \in BOOLEAN
    BY <2>2, ClientFields
  <2>5. "UID_FETCH" \in Written \ {"SELECT"}
    BY DEF Written, Commands
  <2>6. q \in Seq(Written) /\ n \in Nat
    BY <2>4, <2>5
  <2>7. Fits(b.parserIdling, q) /\ ~EndsIdling(b.parserIdling, q)
    <3>1. Fits(b.parserIdling, b.cmdQueue) /\ ~EndsIdling(b.parserIdling, b.cmdQueue)
      BY <2>1, <2>2 DEF Shape
    <3>2. EndsIdling(b.parserIdling, b.cmdQueue) \in BOOLEAN
      BY <2>4 DEF EndsIdling
    <3>3. ("UID_FETCH" = "DONE") = EndsIdling(b.parserIdling, b.cmdQueue)
      BY <3>1, <3>2
    <3>4. Fits(b.parserIdling, q) /\ EndsIdling(b.parserIdling, q) = ("UID_FETCH" = "IDLE")
      BY <2>4, <2>5, <3>1, <3>3, FitsAppend
    <3> QED
      BY <3>4
  <2> HIDE DEF q, n
  <2>8. l \in Client
    BY <2>2, <2>6 DEF Client, Written
  <2>9. /\ l.cmdQueue = q /\ l.arrivals = n /\ l.failed = b.failed /\ l.over = b.over
        /\ l.delayedEnter = b.delayedEnter
        /\ l.waiting = b.waiting /\ l.requested = b.requested /\ l.posted = b.posted
        /\ l.idling = b.idling /\ l.running = b.running /\ l.active = b.active
        /\ l.launcher = b.launcher /\ l.tagIdle = b.tagIdle
        /\ l.idleCommandRunning = b.idleCommandRunning
        /\ l.parserIdling = b.parserIdling /\ l.waitForInitialIdle = b.waitForInitialIdle
    BY <2>2 DEF Client
  <2> HIDE DEF l
  <2>10. Shape(l)
    BY <2>1, <2>2, <2>7, <2>9 DEF Shape
  <2>11. /\ l.active = b.active + One("UID_FETCH" = "TASK")
         /\ l.arrivals = b.arrivals + One("UID_FETCH" = "UID_FETCH")
         /\ One(l.idleCommandRunning) = One(b.idleCommandRunning) + One("UID_FETCH" = "IDLE")
    BY <2>4, <2>9 DEF n
  <2>12. Good(l, ts, sv, tc, rq)
    BY <2>1, <2>2, <2>5, <2>8, <2>9, <2>10, <2>11, Queued DEF q
  <2> QED
    BY <2>3, <2>12
<1> QED
  BY <1>1, <1>2

----------------------------------------------------------------------------
(* What a response does to a client whose protocol is in order. *)

\* Arithmetic: a sum of naturals that is at most one.
LEMMA SumOne ==
    \A a, b, h, d, e, f, g \in Nat :
        a + b + h + d + e + f + g <= 1 =>
            /\ a # 0 => a = 1 /\ b = 0 /\ h = 0 /\ d = 0 /\ e = 0 /\ f = 0 /\ g = 0
            /\ b # 0 => a = 0 /\ b = 1 /\ h = 0 /\ d = 0 /\ e = 0 /\ f = 0 /\ g = 0
            /\ h # 0 => a = 0 /\ b = 0 /\ h = 1 /\ d = 0 /\ e = 0 /\ f = 0 /\ g = 0
            /\ d # 0 => a = 0 /\ b = 0 /\ h = 0 /\ d = 1 /\ e = 0 /\ f = 0 /\ g = 0
            /\ e # 0 => a = 0 /\ b = 0 /\ h = 0 /\ d = 0 /\ e = 1 /\ f = 0 /\ g = 0
            /\ f # 0 => a = 0 /\ b = 0 /\ h = 0 /\ d = 0 /\ e = 0 /\ f = 1 /\ g = 0
            /\ g # 0 => a = 0 /\ b = 0 /\ h = 0 /\ d = 0 /\ e = 0 /\ f = 0 /\ g = 1
OBVIOUS

\* An IDLE is in one place: the sum of Balanced, place by place.
LEMMA OnePlace ==
    ASSUME NEW k, NEW ts, NEW sv, NEW tc, NEW rq, Good(k, ts, sv, tc, rq)
    PROVE  LET a == Count(ts, "IDLE")       b == Count(k.cmdQueue, "IDLE")
               h == One(sv = "idle")
               d == Count(tc, "OK_IDLE")    e == Count(rq, "OK_IDLE")
               f == Count(tc, "NO_IDLE")    g == Count(rq, "NO_IDLE")
           IN /\ a # 0 => /\ a = 1 /\ b = 0 /\ sv # "idle" /\ d = 0 /\ e = 0 /\ f = 0 /\ g = 0
                          /\ k.idleCommandRunning
              /\ b # 0 => /\ a = 0 /\ b = 1 /\ sv # "idle" /\ d = 0 /\ e = 0 /\ f = 0 /\ g = 0
                          /\ k.idleCommandRunning
              /\ sv = "idle" => /\ a = 0 /\ b = 0 /\ d = 0 /\ e = 0 /\ f = 0 /\ g = 0
                                /\ k.idleCommandRunning
              /\ d # 0 => /\ a = 0 /\ b = 0 /\ sv # "idle" /\ d = 1 /\ e = 0 /\ f = 0 /\ g = 0
                          /\ k.idleCommandRunning
              /\ e # 0 => /\ a = 0 /\ b = 0 /\ sv # "idle" /\ d = 0 /\ e = 1 /\ f = 0 /\ g = 0
                          /\ k.idleCommandRunning
              /\ f # 0 => /\ a = 0 /\ b = 0 /\ sv # "idle" /\ d = 0 /\ e = 0 /\ f = 1 /\ g = 0
                          /\ k.idleCommandRunning
              /\ g # 0 => /\ a = 0 /\ b = 0 /\ sv # "idle" /\ d = 0 /\ e = 0 /\ f = 0 /\ g = 1
                          /\ k.idleCommandRunning
<1> DEFINE a == Count(ts, "IDLE")       b == Count(k.cmdQueue, "IDLE")
           h == One(sv = "idle")
           d == Count(tc, "OK_IDLE")    e == Count(rq, "OK_IDLE")
           f == Count(tc, "NO_IDLE")    g == Count(rq, "NO_IDLE")
           n == One(k.idleCommandRunning)
<1>1. a \in Nat /\ b \in Nat /\ d \in Nat /\ e \in Nat /\ f \in Nat /\ g \in Nat
  BY CountTypes
<1>2. h \in Nat /\ (sv = "idle" => h = 1) /\ (sv # "idle" => h = 0)
  OBVIOUS
<1>3. n \in Nat /\ n <= 1 /\ (~k.idleCommandRunning => n = 0)
  OBVIOUS
<1>4. a + b + h + d + e + f + g = n
  BY DEF Good, Prot, Balanced
<1> HIDE DEF a, b, h, d, e, f, g, n
<1>5. /\ a # 0 => a = 1 /\ b = 0 /\ h = 0 /\ d = 0 /\ e = 0 /\ f = 0 /\ g = 0
      /\ b # 0 => a = 0 /\ b = 1 /\ h = 0 /\ d = 0 /\ e = 0 /\ f = 0 /\ g = 0
      /\ h # 0 => a = 0 /\ b = 0 /\ h = 1 /\ d = 0 /\ e = 0 /\ f = 0 /\ g = 0
      /\ d # 0 => a = 0 /\ b = 0 /\ h = 0 /\ d = 1 /\ e = 0 /\ f = 0 /\ g = 0
      /\ e # 0 => a = 0 /\ b = 0 /\ h = 0 /\ d = 0 /\ e = 1 /\ f = 0 /\ g = 0
      /\ f # 0 => a = 0 /\ b = 0 /\ h = 0 /\ d = 0 /\ e = 0 /\ f = 1 /\ g = 0
      /\ g # 0 => a = 0 /\ b = 0 /\ h = 0 /\ d = 0 /\ e = 0 /\ f = 0 /\ g = 1
  <2>1. h \in Nat /\ n <= 1
    BY <1>2, <1>3
  <2>2. a + b + h + d + e + f + g <= 1
    BY <1>4, <2>1
  <2> QED
    BY <1>1, <2>1, <2>2, SumOne
<1>6. ~k.idleCommandRunning => a = 0 /\ b = 0 /\ h = 0 /\ d = 0 /\ e = 0 /\ f = 0 /\ g = 0
  <2>1. ~k.idleCommandRunning => a + b + h + d + e + f + g = 0
    BY <1>3, <1>4
  <2>2. h \in Nat
    BY <1>2
  <2> QED
    BY <1>1, <2>1, <2>2, SumZero
<1>7. sv = "idle" <=> h # 0
  BY <1>2
<1> QED
  BY <1>5, <1>6, <1>7 DEF a, b, d, e, f, g

\* Taking a response that counts for nothing from the queue.
LEMMA TakeOther ==
    ASSUME NEW k, NEW ts, NEW sv, NEW tc, NEW rq, Good(k, ts, sv, tc, rq), rq # <<>>,
           Head(rq) \notin {"OK_TASK", "OK_UID_FETCH", "OK_IDLE", "NO_IDLE"}
    PROVE  Good(k, ts, sv, tc, Tail(rq))
<1>1. rq \in Seq(Lines \ {"+"}) /\ Tail(rq) \in Seq(Lines \ {"+"})
  BY DEF Good, Environment
<1>2. \A y : Count(Tail(rq), y) \in Nat
             /\ Count(rq, y) = Count(Tail(rq), y) + (IF Head(rq) = y THEN 1 ELSE 0)
  BY <1>1, CountTail, CountNat
<1>3. /\ Count(rq, "OK_TASK") = Count(Tail(rq), "OK_TASK")
      /\ Count(rq, "OK_UID_FETCH") = Count(Tail(rq), "OK_UID_FETCH")
      /\ Count(rq, "OK_IDLE") = Count(Tail(rq), "OK_IDLE")
      /\ Count(rq, "NO_IDLE") = Count(Tail(rq), "NO_IDLE")
  <2>1. ASSUME NEW y, Head(rq) # y PROVE Count(rq, y) = Count(Tail(rq), y)
    <3>1. Count(rq, y) = Count(Tail(rq), y) + 0 /\ Count(Tail(rq), y) \in Nat
      BY <1>2, <2>1
    <3>2. \A m \in Nat : m + 0 = m
      OBVIOUS
    <3> QED
      BY <3>1, <3>2
  <2> QED
    BY <2>1
<1> QED
  BY <1>1, <1>3 DEF Good, Environment, Prot, Balanced, Knows

\* The answer to a task, or to the UID FETCH for arrivals.
LEMMA TakeAnswer ==
    ASSUME NEW k, NEW ts, NEW sv, NEW tc, NEW rq, Good(k, ts, sv, tc, rq), rq # <<>>
    PROVE  /\ Head(rq) = "OK_TASK" =>
                /\ k.active # 0
                /\ Good([k EXCEPT !.active = k.active - 1], ts, sv, tc, Tail(rq))
           /\ Head(rq) = "OK_UID_FETCH" =>
                /\ k.arrivals # 0
                /\ Good([k EXCEPT !.arrivals = k.arrivals - 1], ts, sv, tc, Tail(rq))
<1>1. rq \in Seq(Lines \ {"+"}) /\ Tail(rq) \in Seq(Lines \ {"+"})
  BY DEF Good, Environment
<1>2. \A y : Count(Tail(rq), y) \in Nat
             /\ Count(rq, y) = Count(Tail(rq), y) + (IF Head(rq) = y THEN 1 ELSE 0)
  BY <1>1, CountTail, CountNat
<1>3. ASSUME NEW y, Head(rq) # y PROVE Count(rq, y) = Count(Tail(rq), y)
  <2>1. Count(rq, y) = Count(Tail(rq), y) + 0 /\ Count(Tail(rq), y) \in Nat
    BY <1>2, <1>3
  <2>2. \A m \in Nat : m + 0 = m
    OBVIOUS
  <2> QED
    BY <2>1, <2>2
<1>4. k \in Client /\ k.failed \notin Bad /\ Shape(k) /\ Balanced(k, ts, sv, tc, rq)
  BY DEF Good, Prot
<1>5. k.active \in Nat /\ k.arrivals \in Nat /\ k.running \in Nat
  BY <1>4, ClientFields
<1>6. ASSUME Head(rq) = "OK_TASK"
      PROVE  k.active # 0 /\ Good([k EXCEPT !.active = k.active - 1], ts, sv, tc, Tail(rq))
  <2> DEFINE n == k.active - 1
             l == [k EXCEPT !.active = n]
  <2>1. /\ n \in Nat /\ n <= k.running /\ k.active # 0
        /\ Count(ts, "TASK") + Count(k.cmdQueue, "TASK")
           + Count(tc, "OK_TASK") + Count(Tail(rq), "OK_TASK") = n
    <3> DEFINE x == Count(ts, "TASK")      y == Count(k.cmdQueue, "TASK")
               u == Count(tc, "OK_TASK")   v == Count(rq, "OK_TASK")
               w == Count(Tail(rq), "OK_TASK")
    <3>1. x \in Nat /\ y \in Nat /\ u \in Nat /\ v \in Nat
      BY CountTypes
    <3>2. x + y + u + v = k.active /\ k.active <= k.running
      BY <1>4 DEF Balanced, Shape
    <3>3. w \in Nat /\ v = w + 1
      BY <1>2, <1>6
    <3> HIDE DEF x, y, u, v, w
    <3>4. n \in Nat /\ n <= k.running /\ k.active # 0 /\ x + y + u + w = n
      BY <1>5, <3>1, <3>2, <3>3
    <3> QED
      BY <3>4 DEF x, y, u, w
  <2> HIDE DEF n
  <2>2. l \in Client
    BY <1>4, <2>1 DEF Client
  <2>3. /\ l.cmdQueue = k.cmdQueue /\ l.arrivals = k.arrivals /\ l.failed = k.failed
        /\ l.over = k.over /\ l.delayedEnter = k.delayedEnter /\ l.active = n
        /\ l.waiting = k.waiting /\ l.requested = k.requested /\ l.posted = k.posted
        /\ l.idling = k.idling /\ l.running = k.running /\ l.launcher = k.launcher
        /\ l.tagIdle = k.tagIdle /\ l.idleCommandRunning = k.idleCommandRunning
        /\ l.parserIdling = k.parserIdling /\ l.waitForInitialIdle = k.waitForInitialIdle
    BY <1>4 DEF Client
  <2> HIDE DEF l
  <2>4. Shape(l)
    BY <1>4, <2>1, <2>3 DEF Shape
  <2>5. Balanced(l, ts, sv, tc, Tail(rq))
    BY <1>3, <1>4, <1>6, <2>1, <2>3 DEF Balanced
  <2>6. Knows(k.parserIdling, ts, sv, tc, Tail(rq))
    <3>1. Count(rq, "NO_IDLE") = Count(Tail(rq), "NO_IDLE")
      BY <1>3, <1>6
    <3> QED
      BY <3>1 DEF Good, Prot, Knows
  <2>7. Good(l, ts, sv, tc, Tail(rq))
    BY <1>1, <1>4, <2>2, <2>3, <2>4, <2>5, <2>6 DEF Good, Environment, Prot, Handed
  <2> QED
    BY <2>1, <2>7 DEF l, n
<1>7. ASSUME Head(rq) = "OK_UID_FETCH"
      PROVE  k.arrivals # 0 /\ Good([k EXCEPT !.arrivals = k.arrivals - 1], ts, sv, tc, Tail(rq))
  <2> DEFINE n == k.arrivals - 1
             l == [k EXCEPT !.arrivals = n]
  <2>1. /\ n \in Nat /\ k.arrivals # 0
        /\ Count(ts, "UID_FETCH") + Count(k.cmdQueue, "UID_FETCH")
           + Count(tc, "OK_UID_FETCH") + Count(Tail(rq), "OK_UID_FETCH") = n
    <3> DEFINE x == Count(ts, "UID_FETCH")      y == Count(k.cmdQueue, "UID_FETCH")
               u == Count(tc, "OK_UID_FETCH")   v == Count(rq, "OK_UID_FETCH")
               w == Count(Tail(rq), "OK_UID_FETCH")
    <3>1. x \in Nat /\ y \in Nat /\ u \in Nat /\ v \in Nat
      BY CountTypes
    <3>2. x + y + u + v = k.arrivals
      BY <1>4 DEF Balanced
    <3>3. w \in Nat /\ v = w + 1
      BY <1>2, <1>7
    <3> HIDE DEF x, y, u, v, w
    <3>4. n \in Nat /\ k.arrivals # 0 /\ x + y + u + w = n
      BY <1>5, <3>1, <3>2, <3>3
    <3> QED
      BY <3>4 DEF x, y, u, w
  <2> HIDE DEF n
  <2>2. l \in Client
    BY <1>4, <2>1 DEF Client
  <2>3. /\ l.cmdQueue = k.cmdQueue /\ l.arrivals = n /\ l.failed = k.failed
        /\ l.over = k.over /\ l.delayedEnter = k.delayedEnter /\ l.active = k.active
        /\ l.waiting = k.waiting /\ l.requested = k.requested /\ l.posted = k.posted
        /\ l.idling = k.idling /\ l.running = k.running /\ l.launcher = k.launcher
        /\ l.tagIdle = k.tagIdle /\ l.idleCommandRunning = k.idleCommandRunning
        /\ l.parserIdling = k.parserIdling /\ l.waitForInitialIdle = k.waitForInitialIdle
    BY <1>4 DEF Client
  <2> HIDE DEF l
  <2>4. Shape(l)
    BY <1>4, <2>3 DEF Shape
  <2>5. Balanced(l, ts, sv, tc, Tail(rq))
    BY <1>3, <1>4, <1>7, <2>1, <2>3 DEF Balanced
  <2>6. Knows(k.parserIdling, ts, sv, tc, Tail(rq))
    <3>1. Count(rq, "NO_IDLE") = Count(Tail(rq), "NO_IDLE")
      BY <1>3, <1>7
    <3> QED
      BY <3>1 DEF Good, Prot, Knows
  <2>7. Good(l, ts, sv, tc, Tail(rq))
    BY <1>1, <1>4, <2>2, <2>3, <2>4, <2>5, <2>6 DEF Good, Environment, Prot, Handed
  <2> QED
    BY <2>1, <2>7 DEF l, n
<1> QED
  BY <1>6, <1>7

\* What is left of the numbers when the last word of an IDLE is handled.
LEMMA LastWord ==
    ASSUME NEW k, NEW ts, NEW sv, NEW tc, NEW rq, Good(k, ts, sv, tc, rq), rq # <<>>,
           Head(rq) \in {"OK_IDLE", "NO_IDLE"}
    PROVE  /\ k.idleCommandRunning /\ sv # "idle" /\ ~k.over
           /\ Count(ts, "IDLE") = 0 /\ Count(k.cmdQueue, "IDLE") = 0
           /\ Count(tc, "OK_IDLE") = 0 /\ Count(Tail(rq), "OK_IDLE") = 0
           /\ Count(tc, "NO_IDLE") = 0 /\ Count(Tail(rq), "NO_IDLE") = 0
           /\ Count(tc, "+") = 0
           /\ Head(rq) = "OK_IDLE" => ~k.waitForInitialIdle /\ Count(rq, "NO_IDLE") = 0
           /\ Count(rq, "OK_TASK") = Count(Tail(rq), "OK_TASK")
           /\ Count(rq, "OK_UID_FETCH") = Count(Tail(rq), "OK_UID_FETCH")
           /\ k.idling => k.cmdQueue = <<>> /\ k.parserIdling
<1>1. rq \in Seq(Lines \ {"+"}) /\ Tail(rq) \in Seq(Lines \ {"+"})
  BY DEF Good, Environment
<1>2. \A y : Count(Tail(rq), y) \in Nat
             /\ Count(rq, y) = Count(Tail(rq), y) + (IF Head(rq) = y THEN 1 ELSE 0)
  BY <1>1, CountTail, CountNat
<1>3. ASSUME NEW y, Head(rq) # y PROVE Count(rq, y) = Count(Tail(rq), y)
  <2>1. Count(rq, y) = Count(Tail(rq), y) + 0 /\ Count(Tail(rq), y) \in Nat
    BY <1>2, <1>3
  <2>2. \A m \in Nat : m + 0 = m
    OBVIOUS
  <2> QED
    BY <2>1, <2>2
<1>4. ASSUME NEW y, Head(rq) = y
      PROVE  Count(rq, y) # 0 /\ (Count(rq, y) = 1 => Count(Tail(rq), y) = 0)
  <2> DEFINE m == Count(Tail(rq), y)
             n == Count(rq, y)
  <2>1. m \in Nat /\ n = m + 1
    BY <1>2, <1>4
  <2> HIDE DEF m, n
  <2>2. n # 0 /\ (n = 1 => m = 0)
    BY <2>1
  <2> QED
    BY <2>2 DEF m, n
<1>5. /\ k.idleCommandRunning /\ sv # "idle"
      /\ Count(ts, "IDLE") = 0 /\ Count(k.cmdQueue, "IDLE") = 0
      /\ Count(tc, "OK_IDLE") = 0 /\ Count(Tail(rq), "OK_IDLE") = 0
      /\ Count(tc, "NO_IDLE") = 0 /\ Count(Tail(rq), "NO_IDLE") = 0
      /\ Head(rq) = "OK_IDLE" => Count(rq, "NO_IDLE") = 0
  <2>1. CASE Head(rq) = "OK_IDLE"
    <3>1. Count(rq, "OK_IDLE") # 0 /\ (Count(rq, "OK_IDLE") = 1 => Count(Tail(rq), "OK_IDLE") = 0)
      BY <1>4, <2>1
    <3>2. Count(rq, "NO_IDLE") = Count(Tail(rq), "NO_IDLE")
      BY <1>3, <2>1
    <3> QED
      BY <3>1, <3>2, OnePlace
  <2>2. CASE Head(rq) = "NO_IDLE"
    <3>1. Count(rq, "NO_IDLE") # 0 /\ (Count(rq, "NO_IDLE") = 1 => Count(Tail(rq), "NO_IDLE") = 0)
      BY <1>4, <2>2
    <3>2. Count(rq, "OK_IDLE") = Count(Tail(rq), "OK_IDLE")
      BY <1>3, <2>2
    <3> QED
      BY <2>2, <3>1, <3>2, OnePlace
  <2> QED
    BY <2>1, <2>2
<1>6. Count(tc, "+") = 0
  BY <1>5 DEF Good, Prot, InTurn
<1>7. Head(rq) = "OK_IDLE" => ~k.waitForInitialIdle
  <2>1. k.waitForInitialIdle \in BOOLEAN
    BY ClientFields DEF Good
  <2>2. Count(ts, "IDLE") + Count(tc, "+") + Count(tc, "NO_IDLE") + Count(rq, "NO_IDLE")
        = One(k.waitForInitialIdle)
    BY DEF Good, Prot, Balanced
  <2> QED
    BY <1>5, <1>6, <2>1, <2>2
<1>8. k.idling => k.cmdQueue = <<>> /\ k.parserIdling
  <2>1. k.cmdQueue \in Seq(Written) /\ (k.idling <=> EndsIdling(k.parserIdling, k.cmdQueue))
    BY ClientFields DEF Good, Prot, Shape
  <2>2. \A i \in DOMAIN k.cmdQueue : k.cmdQueue[i] # "IDLE"
    BY <1>5, <2>1, CountNat
  <2>3. k.cmdQueue # <<>> => Len(k.cmdQueue) \in DOMAIN k.cmdQueue
    BY <2>1
  <2> QED
    BY <2>1, <2>2, <2>3 DEF EndsIdling
<1>9. ~k.over
  BY <1>5 DEF Good, Prot, Shape
<1>10. /\ Count(rq, "OK_TASK") = Count(Tail(rq), "OK_TASK")
       /\ Count(rq, "OK_UID_FETCH") = Count(Tail(rq), "OK_UID_FETCH")
  BY <1>3
<1> QED
  BY <1>5, <1>6, <1>7, <1>8, <1>9, <1>10

\* With the tag forgotten the protocol is in order again: idle is over for l, which is
\* k without its IDLE.
LEMMA EndOfIdle ==
    ASSUME NEW k, NEW ts, NEW sv, NEW tc, NEW rq, Good(k, ts, sv, tc, rq), rq # <<>>,
           Head(rq) \in {"OK_IDLE", "NO_IDLE"},
           NEW l \in Client, l.failed \notin Bad,
           ~l.idleCommandRunning, ~l.tagIdle, ~l.idling, ~l.waitForInitialIdle,
           l.parserIdling = (IF k.idling THEN FALSE ELSE k.parserIdling),
           Head(rq) = "NO_IDLE" => k.idling,
           l.delayedEnter => k.delayedEnter /\ l.launcher, l.cmdQueue = k.cmdQueue,
           l.active = k.active, l.running = k.running, l.arrivals = k.arrivals,
           l.over = k.over
    PROVE  Good(l, ts, sv, tc, Tail(rq)) /\ ~l.over
<1>1. k \in Client /\ Shape(k) /\ Balanced(k, ts, sv, tc, rq)
      /\ k.idling \in BOOLEAN /\ k.parserIdling \in BOOLEAN
  BY ClientFields DEF Good, Prot
<1>2. /\ k.idleCommandRunning /\ sv # "idle" /\ ~k.over
      /\ Count(ts, "IDLE") = 0 /\ Count(k.cmdQueue, "IDLE") = 0
      /\ Count(tc, "OK_IDLE") = 0 /\ Count(Tail(rq), "OK_IDLE") = 0
      /\ Count(tc, "NO_IDLE") = 0 /\ Count(Tail(rq), "NO_IDLE") = 0
      /\ Count(tc, "+") = 0
      /\ Head(rq) = "OK_IDLE" => ~k.waitForInitialIdle /\ Count(rq, "NO_IDLE") = 0
      /\ Count(rq, "OK_TASK") = Count(Tail(rq), "OK_TASK")
      /\ Count(rq, "OK_UID_FETCH") = Count(Tail(rq), "OK_UID_FETCH")
      /\ k.idling => k.cmdQueue = <<>> /\ k.parserIdling
  BY LastWord
<1>3. Fits(l.parserIdling, l.cmdQueue) /\ ~EndsIdling(l.parserIdling, l.cmdQueue)
  <2>1. CASE k.idling
    <3>1. l.cmdQueue = <<>> /\ ~l.parserIdling
      BY <1>2, <2>1
    <3> QED
      BY <3>1 DEF Fits, EndsIdling
  <2>2. CASE ~k.idling
    BY <1>1, <2>2 DEF Shape
  <2> QED
    BY <2>1, <2>2
<1>4. Shape(l)
  BY <1>1, <1>2, <1>3 DEF Shape
<1>5. Balanced(l, ts, sv, tc, Tail(rq))
  BY <1>1, <1>2 DEF Balanced
<1>6. Knows(l.parserIdling, ts, sv, tc, Tail(rq))
  <2>1. CASE k.idling
    BY <1>2, <2>1 DEF Good, Prot, Knows
  <2>2. CASE ~k.idling
    <3>1. Head(rq) = "OK_IDLE" /\ l.parserIdling = k.parserIdling
      BY <2>2
    <3>2. Count(Tail(rq), "NO_IDLE") = Count(rq, "NO_IDLE")
      BY <1>2, <3>1
    <3> QED
      BY <3>1, <3>2 DEF Good, Prot, Knows
  <2> QED
    BY <2>1, <2>2
<1>7. Handed(l, ts, sv)
  BY <1>2 DEF Good, Handed
<1>8. Environment(ts, sv, tc, Tail(rq)) /\ InTurn(sv, tc)
  <2>1. rq \in Seq(Lines \ {"+"}) /\ Tail(rq) \in Seq(Lines \ {"+"})
    BY DEF Good, Environment
  <2> QED
    BY <2>1 DEF Good, Prot, Environment
<1> QED
  BY <1>2, <1>4, <1>5, <1>6, <1>7, <1>8 DEF Good, Prot

\* The IdleLauncher and the Keep at the tagged answer to IDLE: no assertion of
\* idleCommandCompleted or of the Parser fails.
LEMMA IdleTagGood ==
    ASSUME NEW k, NEW ts, NEW sv, NEW tc, NEW rq, Good(k, ts, sv, tc, rq), rq # <<>>,
           NEW kind \in {"OK", "NO"}, Head(rq) = IF kind = "OK" THEN "OK_IDLE" ELSE "NO_IDLE",
           k.failed = "none"
    PROVE  LET l == HandleIdleTag(k, kind)
           IN /\ l \in Client /\ l.failed \notin Bad /\ Handed(l, ts, sv)
              /\ l.failed = "none" => Good(l, ts, sv, tc, Tail(rq))
<1>1. k \in Client /\ Shape(k) /\ Handed(k, ts, sv)
  BY DEF Good, Prot
<1>2. /\ k.idleCommandRunning /\ ~k.over
      /\ Head(rq) = "OK_IDLE" => ~k.waitForInitialIdle
      /\ k.idling => k.cmdQueue = <<>> /\ k.parserIdling
  BY LastWord
<1>3. ASSUME NEW l, Good(l, ts, sv, tc, Tail(rq)), ~l.idleCommandRunning
      PROVE  LET d == IF IsReadyToTerminate(l) THEN Terminate(l) ELSE l
             IN Good(d, ts, sv, tc, Tail(rq))
  BY <1>3, TerminateGood
<1>4. CASE kind = "OK"
  <2> DEFINE e == [(IF k.idling THEN EndedByServer(k) ELSE k) EXCEPT !.idleCommandRunning = FALSE]
             d == [e EXCEPT !.tagIdle = FALSE]
             later == IF CanRunIdleRightNow(e) THEN EnterIdleLater(e) ELSE e
             cleared == [later EXCEPT !.tagIdle = FALSE]
  <2>1. IdleCommandCompleted(k) = e
    BY <1>2, <1>4 DEF IdleCommandCompleted
  <2>2. e \in Client
    BY <1>1, ZenonT(60) DEF EndedByServer, Client
  <2>3. /\ ~e.idleCommandRunning /\ ~e.idling /\ e.failed = "none"
        /\ e.parserIdling = (IF k.idling THEN FALSE ELSE k.parserIdling)
        /\ e.delayedEnter = k.delayedEnter /\ e.launcher = k.launcher
        /\ e.cmdQueue = k.cmdQueue /\ e.active = k.active /\ e.running = k.running
        /\ e.arrivals = k.arrivals /\ e.over = k.over
        /\ e.waitForInitialIdle = k.waitForInitialIdle
    BY <1>1 DEF EndedByServer, Client
  <2> HIDE DEF e
  <2>4. d \in Client
    BY <2>2 DEF Client
  <2>5. /\ ~d.idleCommandRunning /\ ~d.idling /\ d.failed = "none" /\ ~d.tagIdle
        /\ d.parserIdling = (IF k.idling THEN FALSE ELSE k.parserIdling)
        /\ d.delayedEnter = k.delayedEnter /\ d.launcher = k.launcher
        /\ d.cmdQueue = k.cmdQueue /\ d.active = k.active /\ d.running = k.running
        /\ d.arrivals = k.arrivals /\ d.over = k.over
        /\ d.waitForInitialIdle = k.waitForInitialIdle
    BY <2>2, <2>3 DEF Client
  <2>6. Good(d, ts, sv, tc, Tail(rq)) /\ ~d.over
    <3>1. k.delayedEnter => k.launcher
      BY <1>1 DEF Shape
    <3>2. d.failed \notin Bad
      BY <2>5 DEF Bad
    <3>3. Head(rq) = "OK_IDLE"
      BY <1>4
    <3> QED
      BY <1>2, <2>4, <2>5, <3>1, <3>2, <3>3, EndOfIdle
  <2>7. HandleIdleTag(k, kind) = IF IsReadyToTerminate(cleared) THEN Terminate(cleared) ELSE cleared
    <3>1. later.failed = "none"
      BY <2>2, <2>3 DEF EnterIdleLater, Client
    <3> HIDE DEF later
    <3>2. HandleIdleTag(k, kind) = IdleFinished(later)
      BY <1>4, <2>1, <2>3 DEF HandleIdleTag, later
    <3> QED
      BY <3>2 DEF IdleFinished
  <2>8. cleared = IF CanRunIdleRightNow(e) THEN EnterIdleLater(d) ELSE d
    BY <2>2, <2>3, <2>5 DEF EnterIdleLater, Client
  <2>9. CanRunIdleRightNow(e) => d.launcher
    BY <2>3, <2>5 DEF CanRunIdleRightNow
  <2> HIDE DEF d, cleared
  <2>10. Good(cleared, ts, sv, tc, Tail(rq)) /\ ~cleared.idleCommandRunning
    BY <2>5, <2>6, <2>8, <2>9, EnterIdleLaterGood DEF Apart
  <2>11. Good(HandleIdleTag(k, kind), ts, sv, tc, Tail(rq))
    BY <1>3, <2>7, <2>10
  <2> QED
    BY <2>11 DEF Good
<1>5. CASE kind = "NO"
  <2>1. CASE ~k.idling \/ ~k.idleCommandRunning \/ ~k.waitForInitialIdle
    <3> DEFINE l == [k EXCEPT !.failed = "idleFailed"]
    <3>1. IdleCommandFailed(k) = l
      BY <2>1 DEF IdleCommandFailed, Fail
    <3>2. l \in Client /\ l.failed = "idleFailed"
      BY <1>1 DEF Client, Failures
    <3>3. HandleIdleTag(k, kind) = l
      BY <1>5, <3>1, <3>2 DEF HandleIdleTag
    <3>4. l.over = k.over /\ l.cmdQueue = k.cmdQueue
      BY <1>1 DEF Client
    <3> HIDE DEF l
    <3>5. Handed(l, ts, sv)
      BY <1>1, <3>4 DEF Handed
    <3>6. l.failed \notin Bad /\ l.failed # "none"
      BY <3>2 DEF Bad
    <3> QED
      BY <3>2, <3>3, <3>5, <3>6
  <2>2. CASE ~(~k.idling \/ ~k.idleCommandRunning \/ ~k.waitForInitialIdle)
    <3> DEFINE e == [k EXCEPT !.idling = FALSE, !.idleCommandRunning = FALSE, !.renewal = FALSE,
                              !.delayedEnter = FALSE, !.waitForInitialIdle = FALSE,
                              !.parserIdling = FALSE, !.launcher = FALSE]
               d == [e EXCEPT !.tagIdle = FALSE]
    <3>1. IdleCommandFailed(k) = e
      BY <2>2 DEF IdleCommandFailed
    <3>2. d \in Client
      BY <1>1 DEF Client
    <3>3. /\ ~d.idleCommandRunning /\ ~d.idling /\ d.failed = "none" /\ ~d.tagIdle
          /\ ~d.parserIdling /\ ~d.delayedEnter /\ ~d.waitForInitialIdle
          /\ d.cmdQueue = k.cmdQueue /\ d.active = k.active /\ d.running = k.running
          /\ d.arrivals = k.arrivals /\ d.over = k.over /\ e.failed = "none"
      BY <1>1 DEF Client
    <3>4. HandleIdleTag(k, kind) = IF IsReadyToTerminate(d) THEN Terminate(d) ELSE d
      BY <1>5, <3>1, <3>3 DEF HandleIdleTag, IdleFinished
    <3> HIDE DEF d, e
    <3>5. Good(d, ts, sv, tc, Tail(rq))
      <4>1. d.failed \notin Bad
        BY <3>3 DEF Bad
      <4>2. Head(rq) = "NO_IDLE" /\ k.idling
        BY <1>5, <2>2
      <4>3. d.parserIdling = (IF k.idling THEN FALSE ELSE k.parserIdling)
        BY <3>2, <3>3, <4>2, ClientFields
      <4> QED
        BY <3>2, <3>3, <4>1, <4>2, <4>3, EndOfIdle
    <3>6. Good(HandleIdleTag(k, kind), ts, sv, tc, Tail(rq))
      BY <1>3, <3>3, <3>4, <3>5
    <3> QED
      BY <3>6 DEF Good
  <2> QED
    BY <2>1, <2>2
<1> QED
  BY <1>4, <1>5

\* Whatever the response, the handlers keep a client in order, or end it by a failure
\* that is not one of those in Bad; also then the hand-over stays clean.
LEMMA DispatchGood ==
    ASSUME NEW k, NEW ts, NEW sv, NEW tc, NEW rq, Good(k, ts, sv, tc, rq), rq # <<>>,
           k.failed = "none"
    PROVE  LET l == Dispatch(k, Head(rq))
           IN /\ l \in Client /\ l.failed \notin Bad /\ Handed(l, ts, sv)
              /\ l.failed = "none" => Good(l, ts, sv, tc, Tail(rq))
<1> DEFINE resp == Head(rq)
<1>1. k \in Client /\ Shape(k) /\ Handed(k, ts, sv)
  BY DEF Good, Prot
<1>2. ASSUME NEW l, Good(l, ts, sv, tc, Tail(rq))
      PROVE  l \in Client /\ l.failed \notin Bad /\ Handed(l, ts, sv)
  BY <1>2 DEF Good
<1>3. CASE resp = "EXISTS"
  <2>1. Good(k, ts, sv, tc, Tail(rq))
    BY <1>3, TakeOther
  <2>2. Good(HandleNumberResponse(k), ts, sv, tc, Tail(rq))
    BY <2>1, HandleNumberResponseGood
  <2>3. Dispatch(k, resp) = HandleNumberResponse(k)
    BY <1>3 DEF Dispatch
  <2> QED
    BY <1>2, <2>2, <2>3
<1>4. CASE resp = "FETCH"
  <2>1. Good(k, ts, sv, tc, Tail(rq))
    BY <1>4, TakeOther
  <2>2. Dispatch(k, resp) = k
    BY <1>4 DEF Dispatch
  <2> QED
    BY <1>2, <2>1, <2>2
<1>5. CASE resp = "OK_TASK"
  <2>1. Good([k EXCEPT !.active = k.active - 1], ts, sv, tc, Tail(rq))
    BY <1>5, TakeAnswer
  <2>2. Dispatch(k, resp) = [k EXCEPT !.active = k.active - 1]
    BY <1>5 DEF Dispatch
  <2> QED
    BY <1>2, <2>1, <2>2
<1>6. CASE resp = "OK_UID_FETCH" /\ k.lingers
  <2> DEFINE d == [k EXCEPT !.arrivals = k.arrivals - 1]
  <2>1. Good(d, ts, sv, tc, Tail(rq))
    BY <1>6, TakeAnswer
  <2>2. Dispatch(k, resp) = SlotTaskDeleted(d)
    BY <1>6 DEF Dispatch, ArrivalsFinished
  <2> HIDE DEF d
  <2>3. Good(SlotTaskDeleted(d), ts, sv, tc, Tail(rq))
    BY <2>1, SlotTaskDeletedGood
  <2> QED
    BY <1>2, <2>2, <2>3
<1>7. CASE resp = "OK_IDLE" /\ k.lingers
  <2>1. Dispatch(k, resp) = HandleIdleTag(k, "OK")
    BY <1>7 DEF Dispatch
  <2>2. "OK" \in {"OK", "NO"} /\ Head(rq) = IF "OK" = "OK" THEN "OK_IDLE" ELSE "NO_IDLE"
    BY <1>7
  <2> QED
    BY <2>1, <2>2, IdleTagGood
<1>8. CASE resp = "NO_IDLE" /\ k.lingers
  <2>1. Dispatch(k, resp) = HandleIdleTag(k, "NO")
    BY <1>8 DEF Dispatch
  <2>2. "NO" \in {"OK", "NO"} /\ Head(rq) = IF "NO" = "OK" THEN "OK_IDLE" ELSE "NO_IDLE"
    BY <1>8
  <2> QED
    BY <2>1, <2>2, IdleTagGood
<1>9. CASE /\ resp # "EXISTS" /\ resp # "FETCH" /\ resp # "OK_TASK"
           /\ ~(resp = "OK_UID_FETCH" /\ k.lingers)
           /\ ~(resp = "OK_IDLE" /\ k.lingers) /\ ~(resp = "NO_IDLE" /\ k.lingers)
  <2> DEFINE l == [k EXCEPT !.failed = "unhandled"]
  <2>1. Dispatch(k, resp) = l
    BY <1>9 DEF Dispatch, Fail
  <2>2. l \in Client /\ l.failed = "unhandled" /\ l.over = k.over /\ l.cmdQueue = k.cmdQueue
    BY <1>1 DEF Client, Failures
  <2> HIDE DEF l
  <2>3. Handed(l, ts, sv)
    BY <1>1, <2>2 DEF Handed
  <2>4. l.failed \notin Bad /\ l.failed # "none"
    BY <2>2 DEF Bad
  <2> QED
    BY <2>1, <2>2, <2>3, <2>4
<1> QED
  BY <1>3, <1>4, <1>5, <1>6, <1>7, <1>8, <1>9

----------------------------------------------------------------------------
(* The steps of the client. *)

\* As long as the client has not failed, IInv is Good of the current state.
LEMMA IInvGood ==
    /\ IInv /\ Alive => Good(c, toServer, server, toClient, respQueue)
    /\ Good(c, toServer, server, toClient, respQueue)
         /\ requests \in 0..MaxRequests /\ exists \in 0..MaxExists => IInv
BY DEF IInv, Alive, Good, Environment, TypeOK, Written

\* A step of the client alone.
LEMMA ClientStep ==
    ASSUME IInv, Good(c', toServer, server, toClient, respQueue),
           UNCHANGED <<toServer, server, toClient, respQueue, exists>>,
           requests' \in 0..MaxRequests
    PROVE  IInv'
<1>1. Good(c', toServer', server', toClient', respQueue')
  OBVIOUS
<1>2. exists' \in 0..MaxExists
  BY DEF IInv, TypeOK
<1> QED
  BY <1>1, <1>2 DEF IInv, Alive, Good, Environment, TypeOK, Written

\* The user asks for message data.
LEMMA RequestKeeps == ASSUME IInv, Request PROVE IInv'
<1> DEFINE l == [c EXCEPT !.requested = TRUE]
<1>1. Good(c, toServer, server, toClient, respQueue) /\ ~c.over /\ c' = l
  BY IInvGood DEF Request
<1>2. c \in Client /\ c.failed \notin Bad /\ Shape(c)
  BY <1>1 DEF Good, Prot
<1>3. l \in Client
  BY <1>2 DEF Client
<1>4. /\ Apart(c, l) /\ l.waiting = c.waiting /\ l.posted = c.posted /\ l.idling = c.idling
      /\ l.cmdQueue = c.cmdQueue /\ l.delayedEnter = c.delayedEnter
  BY <1>2 DEF Apart, Client
<1> HIDE DEF l
<1>5. Shape(l)
  BY <1>1, <1>2, <1>4 DEF Shape, Apart
<1>6. Good(l, toServer, server, toClient, respQueue)
  BY <1>1, <1>2, <1>3, <1>4, <1>5, Kept DEF Apart
<1>7. requests' \in 0..MaxRequests
  <2>1. requests \in 0..MaxRequests /\ MaxRequests \in Nat
    BY BoundAssumption DEF IInv, TypeOK
  <2>2. requests < MaxRequests /\ requests' = requests + 1
    BY DEF Request
  <2> QED
    BY <2>1, <2>2
<1> QED
  BY <1>1, <1>6, <1>7, ClientStep DEF Request

\* The timer of the requests.
LEMMA FetchTimerKeeps == ASSUME IInv, FetchTimer PROVE IInv'
<1>1. Good(c', toServer, server, toClient, respQueue)
  BY IInvGood, FetchRequestedGood DEF FetchTimer
<1>2. requests' \in 0..MaxRequests
  BY DEF IInv, TypeOK, FetchTimer
<1> QED
  BY <1>1, <1>2, ClientStep DEF FetchTimer

\* Another mailbox wants the connection.
LEMMA OtherMailboxKeeps == ASSUME IInv, OtherMailbox PROVE IInv'
<1> DEFINE b == BreakOrCancelPossibleIdle(c)
           e == [b EXCEPT !.shouldExit = TRUE]
           leaving == FetchRequested(e)
           p == Append(leaving.posted, "terminate")
           l == [leaving EXCEPT !.posted = p]
<1>1. Good(c, toServer, server, toClient, respQueue) /\ ~c.over
  BY IInvGood DEF OtherMailbox
<1>2. Good(b, toServer, server, toClient, respQueue) /\ Apart(c, b)
  BY <1>1, BreakOrCancelGood
<1>3. b \in Client /\ b.failed \notin Bad /\ Shape(b)
  BY <1>2 DEF Good, Prot
<1> HIDE DEF b
<1>4. e \in Client
  BY <1>3 DEF Client
<1>5. /\ Apart(b, e) /\ e.waiting = b.waiting /\ e.posted = b.posted /\ e.idling = b.idling
      /\ e.requested = b.requested /\ e.cmdQueue = b.cmdQueue /\ e.delayedEnter = b.delayedEnter
  BY <1>3 DEF Apart, Client
<1> HIDE DEF e
<1>6. Shape(e)
  BY <1>3, <1>5 DEF Shape, Apart
<1>7. Good(e, toServer, server, toClient, respQueue)
  BY <1>2, <1>3, <1>4, <1>5, <1>6, Kept DEF Apart
<1>8. Good(leaving, toServer, server, toClient, respQueue) /\ Apart(e, leaving)
  BY <1>7, FetchRequestedGood
<1>9. leaving \in Client /\ leaving.failed \notin Bad /\ Shape(leaving)
  BY <1>8 DEF Good, Prot
<1>10. c' = IF HasPendingInternalActions(leaving) THEN leaving ELSE l
  <2>1. c' = IF HasPendingInternalActions(leaving) THEN leaving
             ELSE [leaving EXCEPT !.posted = Append(@, "terminate")]
    BY DEF OtherMailbox, b, e
  <2> HIDE DEF leaving
  <2> QED
    BY <1>9, <2>1 DEF Client
<1> HIDE DEF leaving
<1>11. leaving.posted \in Seq({"slotActivateTasks", "terminate"}) /\ p \in Seq({"slotActivateTasks", "terminate"})
  BY <1>9, ClientFields
<1> HIDE DEF p
<1>12. l \in Client
  BY <1>9, <1>11 DEF Client
<1>13. /\ Apart(leaving, l) /\ l.waiting = leaving.waiting /\ l.posted = p
       /\ l.idling = leaving.idling /\ l.requested = leaving.requested
       /\ l.cmdQueue = leaving.cmdQueue /\ l.delayedEnter = leaving.delayedEnter
  BY <1>9 DEF Apart, Client
<1> HIDE DEF l
<1>14. ASSUME ~HasPendingInternalActions(leaving)
       PROVE  Good(l, toServer, server, toClient, respQueue)
  <2>1. ~leaving.idleCommandRunning
    BY <1>9, <1>14 DEF HasPendingInternalActions, Shape
  <2>2. Shape(l)
    BY <1>9, <1>13, <2>1 DEF Shape, Apart
  <2> QED
    BY <1>8, <1>9, <1>12, <1>13, <2>2, Kept DEF Apart
<1>15. Good(c', toServer, server, toClient, respQueue)
  BY <1>8, <1>10, <1>14
<1>16. requests' \in 0..MaxRequests
  BY DEF IInv, TypeOK, OtherMailbox
<1> QED
  BY <1>15, <1>16, ClientStep DEF OtherMailbox

\* The zero-timeout calls: terminate() is only posted where no IDLE command is
\* running, and nothing starts one before it runs.
LEMMA PostedKeeps == ASSUME IInv, Posted PROVE IInv'
<1> DEFINE k == [c EXCEPT !.posted = Tail(c.posted)]
<1>1. Good(c, toServer, server, toClient, respQueue) /\ c.posted # <<>>
  BY IInvGood DEF Posted
<1>2. c \in Client /\ c.failed \notin Bad /\ Shape(c)
  BY <1>1 DEF Good, Prot
<1>3. c.posted \in Seq({"slotActivateTasks", "terminate"})
  BY <1>2, ClientFields
<1>4. Tail(c.posted) \in Seq({"slotActivateTasks", "terminate"})
  BY <1>1, <1>3
<1>5. Has(c.posted, "terminate") <=> Has(Tail(c.posted), "terminate") \/ Head(c.posted) = "terminate"
  <2>1. "terminate" \in {"slotActivateTasks", "terminate"}
    OBVIOUS
  <2> QED
    BY <1>1, <1>3, <2>1, PostedCalls
<1>6. k \in Client
  BY <1>2, <1>4 DEF Client
<1>7. /\ Apart(c, k) /\ k.waiting = c.waiting /\ k.posted = Tail(c.posted)
      /\ k.idling = c.idling /\ k.requested = c.requested
      /\ k.cmdQueue = c.cmdQueue /\ k.delayedEnter = c.delayedEnter
  BY <1>2 DEF Apart, Client
<1>8. c' = IF Head(c.posted) = "terminate" THEN Terminate(k) ELSE ActivateTasks(k)
  BY <1>2 DEF Posted, Client
<1> HIDE DEF k
<1>9. Shape(k)
  BY <1>2, <1>5, <1>7 DEF Shape, Apart
<1>10. Good(k, toServer, server, toClient, respQueue)
  BY <1>1, <1>2, <1>6, <1>7, <1>9, Kept DEF Apart
<1>11. Head(c.posted) = "terminate" => ~k.idleCommandRunning
  BY <1>2, <1>5, <1>7 DEF Shape, Apart
<1>12. Good(c', toServer, server, toClient, respQueue)
  BY <1>8, <1>10, <1>11, TerminateGood, ActivateTasksGood
<1>13. requests' \in 0..MaxRequests
  BY DEF IInv, TypeOK, Posted
<1> QED
  BY <1>12, <1>13, ClientStep DEF Posted

\* A finished task is destroyed.
LEMMA TaskDestroyedKeeps == ASSUME IInv, TaskDestroyed PROVE IInv'
<1> DEFINE n == c.running - 1
           k == [c EXCEPT !.running = n]
<1>1. Good(c, toServer, server, toClient, respQueue) /\ c.running > c.active
  BY IInvGood DEF TaskDestroyed
<1>2. c \in Client /\ c.failed \notin Bad /\ Shape(c) /\ c.running \in Nat /\ c.active \in Nat
  BY <1>1, ClientFields DEF Good, Prot
<1>3. n \in Nat /\ c.active <= n /\ ~c.over
  BY <1>1, <1>2 DEF Shape
<1>4. c' = SlotTaskDeleted(k)
  BY DEF TaskDestroyed
<1> HIDE DEF n
<1>5. k \in Client
  BY <1>2, <1>3 DEF Client
<1>6. /\ k.over = c.over /\ k.active = c.active /\ k.running = n
      /\ k.arrivals = c.arrivals /\ k.launcher = c.launcher /\ k.tagIdle = c.tagIdle
      /\ k.idleCommandRunning = c.idleCommandRunning /\ k.failed = c.failed
      /\ k.parserIdling = c.parserIdling /\ k.waitForInitialIdle = c.waitForInitialIdle
      /\ k.waiting = c.waiting /\ k.posted = c.posted /\ k.idling = c.idling
      /\ k.requested = c.requested /\ k.cmdQueue = c.cmdQueue /\ k.delayedEnter = c.delayedEnter
  BY <1>2 DEF Client
<1> HIDE DEF k
<1>7. Shape(k)
  BY <1>2, <1>3, <1>6 DEF Shape
<1>8. Good(k, toServer, server, toClient, respQueue)
  BY <1>1, <1>2, <1>5, <1>6, <1>7, Kept
<1>9. Good(c', toServer, server, toClient, respQueue)
  BY <1>4, <1>8, SlotTaskDeletedGood
<1>10. requests' \in 0..MaxRequests
  BY DEF IInv, TypeOK, TaskDestroyed
<1> QED
  BY <1>9, <1>10, ClientStep DEF TaskDestroyed

\* The delay is over: no IDLE runs, so the assertions of slotEnterIdleNow hold.
LEMMA DelayedEnterKeeps == ASSUME IInv, DelayedEnter PROVE IInv'
<1> DEFINE s == [c EXCEPT !.delayedEnter = FALSE, !.renewal = FALSE]
           q == Append(s.cmdQueue, "IDLE")
           l == [s EXCEPT !.tagIdle = TRUE, !.renewal = TRUE, !.idling = TRUE,
                          !.idleCommandRunning = TRUE, !.cmdQueue = q]
<1>1. Good(c, toServer, server, toClient, respQueue) /\ c.delayedEnter /\ c.posted = <<>>
  BY IInvGood DEF DelayedEnter, Quiet
<1>2. c \in Client /\ c.failed \notin Bad /\ Shape(c)
  BY <1>1 DEF Good, Prot
<1>3. ~c.over /\ c.launcher
  BY <1>1, <1>2, ClientFields DEF Shape
<1>4. s \in Client
  BY <1>2 DEF Client
<1>5. /\ Apart(c, s) /\ s.waiting = c.waiting /\ s.posted = c.posted /\ s.idling = c.idling
      /\ s.requested = c.requested /\ s.cmdQueue = c.cmdQueue /\ ~s.delayedEnter
  BY <1>2 DEF Apart, Client
<1>6. c' = IF c.idleCommandRunning THEN EnterIdleLater(s) ELSE EnterIdle(s)
  BY DEF DelayedEnter, SlotEnterIdleNow
<1> HIDE DEF s
<1>7. Shape(s)
  BY <1>2, <1>5 DEF Shape, Apart
<1>8. Good(s, toServer, server, toClient, respQueue)
  BY <1>1, <1>2, <1>4, <1>5, <1>7, Kept DEF Apart
<1>9. ~s.over /\ s.launcher
  BY <1>3, <1>5 DEF Apart
<1>10. Good(EnterIdleLater(s), toServer, server, toClient, respQueue)
  BY <1>8, <1>9, EnterIdleLaterGood
<1>11. ASSUME ~c.idleCommandRunning
       PROVE  Good(EnterIdle(s), toServer, server, toClient, respQueue)
  <2>1. ~s.idling /\ ~s.tagIdle /\ ~s.idleCommandRunning
    BY <1>5, <1>7, <1>11 DEF Shape, Apart
  <2>2. EnterIdle(s) = l
    BY <1>4, <2>1 DEF EnterIdle, Queue, Client
  <2>3. /\ s.cmdQueue \in Seq(Written) /\ s.parserIdling \in BOOLEAN
        /\ s.active \in Nat /\ s.arrivals \in Nat
    BY <1>4, ClientFields
  <2>4. "IDLE" \in Written \ {"SELECT"}
    BY DEF Written
  <2>5. q \in Seq(Written)
    BY <2>3, <2>4
  <2>6. Fits(s.parserIdling, q) /\ EndsIdling(s.parserIdling, q)
    <3>1. Fits(s.parserIdling, s.cmdQueue) /\ ~EndsIdling(s.parserIdling, s.cmdQueue)
      BY <1>7, <2>1 DEF Shape
    <3>2. EndsIdling(s.parserIdling, s.cmdQueue) \in BOOLEAN
      BY <2>3 DEF EndsIdling
    <3>3. ("IDLE" = "DONE") = EndsIdling(s.parserIdling, s.cmdQueue)
      BY <3>1, <3>2
    <3>4. Fits(s.parserIdling, q) /\ EndsIdling(s.parserIdling, q) = ("IDLE" = "IDLE")
      BY <2>3, <2>4, <3>1, <3>3, FitsAppend
    <3> QED
      BY <3>4
  <2> HIDE DEF q
  <2>7. l \in Client
    BY <1>4, <2>5 DEF Client, Written
  <2>8. /\ l.over = s.over /\ l.active = s.active /\ l.running = s.running
        /\ l.arrivals = s.arrivals /\ l.launcher = s.launcher /\ l.tagIdle
        /\ l.idleCommandRunning /\ l.failed = s.failed
        /\ l.parserIdling = s.parserIdling /\ l.waitForInitialIdle = s.waitForInitialIdle
        /\ l.waiting = s.waiting /\ l.posted = s.posted /\ l.idling
        /\ l.requested = s.requested /\ l.cmdQueue = q /\ l.delayedEnter = s.delayedEnter
    BY <1>4 DEF Client
  <2> HIDE DEF l
  <2>9. ~Has(l.posted, "terminate")
    <3>1. l.posted = <<>>
      BY <1>1, <1>5, <2>8
    <3> QED
      BY <3>1 DEF Has
  <2>10. Shape(l)
    BY <1>7, <1>9, <2>6, <2>8, <2>9 DEF Shape
  <2>11. /\ l.active = s.active + One("IDLE" = "TASK")
         /\ l.arrivals = s.arrivals + One("IDLE" = "UID_FETCH")
         /\ One(l.idleCommandRunning) = One(s.idleCommandRunning) + One("IDLE" = "IDLE")
    <3>1. s.active + 0 = s.active /\ s.arrivals + 0 = s.arrivals
      BY <2>3
    <3> QED
      BY <2>1, <2>8, <3>1
  <2>12. l.failed \notin Bad
    BY <1>2, <1>5, <2>8 DEF Apart
  <2>13. Good(l, toServer, server, toClient, respQueue)
    BY <1>8, <1>9, <2>4, <2>7, <2>8, <2>10, <2>11, <2>12, Queued DEF q
  <2> QED
    BY <2>2, <2>13
<1>12. Good(c', toServer, server, toClient, respQueue)
  BY <1>6, <1>10, <1>11
<1>13. requests' \in 0..MaxRequests
  BY DEF IInv, TypeOK, DelayedEnter
<1> QED
  BY <1>12, <1>13, ClientStep DEF DelayedEnter

\* 29 minutes are over: a DONE for an IDLE that runs.
LEMMA RenewalKeeps == ASSUME IInv, Renewal PROVE IInv'
<1> DEFINE b == IF c.idling THEN FinishIdle(c) ELSE c
           l == [b EXCEPT !.renewal = FALSE]
<1>1. Good(c, toServer, server, toClient, respQueue) /\ c' = l
  BY IInvGood DEF Renewal
<1>2. c \in Client /\ Shape(c)
  BY <1>1 DEF Good, Prot
<1>3. Good(b, toServer, server, toClient, respQueue)
  <2>1. CASE c.idling
    <3>1. c.launcher
      BY <1>2, <2>1 DEF Shape
    <3>2. BreakOrCancelPossibleIdle(c) = b
      BY <2>1, <3>1 DEF BreakOrCancelPossibleIdle
    <3> HIDE DEF b
    <3>3. Good(BreakOrCancelPossibleIdle(c), toServer, server, toClient, respQueue)
      BY <1>1, BreakOrCancelGood
    <3> QED
      BY <3>2, <3>3
  <2>2. CASE ~c.idling
    BY <1>1, <2>2
  <2> QED
    BY <2>1, <2>2
<1> HIDE DEF b
<1>4. b \in Client /\ b.failed \notin Bad /\ Shape(b)
  BY <1>3 DEF Good, Prot
<1>5. l \in Client
  BY <1>4 DEF Client
<1>6. /\ Apart(b, l) /\ l.waiting = b.waiting /\ l.posted = b.posted /\ l.idling = b.idling
      /\ l.requested = b.requested /\ l.cmdQueue = b.cmdQueue /\ l.delayedEnter = b.delayedEnter
  BY <1>4 DEF Apart, Client
<1> HIDE DEF l
<1>7. Shape(l)
  BY <1>4, <1>6 DEF Shape, Apart
<1>8. Good(l, toServer, server, toClient, respQueue)
  BY <1>3, <1>4, <1>5, <1>6, <1>7, Kept DEF Apart
<1>9. requests' \in 0..MaxRequests
  BY DEF IInv, TypeOK, Renewal
<1> QED
  BY <1>1, <1>8, <1>9, ClientStep DEF Renewal

\* The Model handles a response.
LEMMA HandleResponseKeeps == ASSUME IInv, HandleResponse PROVE IInv'
<1> DEFINE h == Dispatch(c, Head(respQueue))
           l == [h EXCEPT !.lingers = ~h.over]
<1>1. /\ Good(c, toServer, server, toClient, respQueue) /\ respQueue # <<>>
      /\ c.failed = "none" /\ c' = l /\ respQueue' = Tail(respQueue)
  BY IInvGood DEF HandleResponse, Alive
<1>2. /\ h \in Client /\ h.failed \notin Bad /\ Handed(h, toServer, server)
      /\ h.failed = "none" => Good(h, toServer, server, toClient, Tail(respQueue))
  BY <1>1, DispatchGood
<1> HIDE DEF h
<1>3. l \in Client
  <2>1. h.over \in BOOLEAN
    BY <1>2, ClientFields
  <2> QED
    BY <1>2, <2>1 DEF Client
<1>4. /\ Apart(h, l) /\ l.waiting = h.waiting /\ l.posted = h.posted /\ l.idling = h.idling
      /\ l.requested = h.requested /\ l.cmdQueue = h.cmdQueue /\ l.delayedEnter = h.delayedEnter
  BY <1>2 DEF Apart, Client
<1> HIDE DEF l
<1>5. Handed(l, toServer, server) /\ l.failed \notin Bad
  BY <1>2, <1>4 DEF Handed, Apart
<1>6. ASSUME l.failed = "none"
      PROVE  Good(l, toServer, server, toClient, Tail(respQueue))
  <2>1. Good(h, toServer, server, toClient, Tail(respQueue)) /\ Shape(h)
    BY <1>2, <1>4, <1>6 DEF Apart, Good, Prot
  <2>2. Shape(l)
    BY <1>4, <2>1 DEF Shape, Apart
  <2> QED
    BY <1>3, <1>4, <1>5, <2>1, <2>2, Kept DEF Apart
<1>7. TypeOK'
  <2>1. respQueue' \in Seq(Lines \ {"+"})
    BY <1>1 DEF IInv, TypeOK
  <2> QED
    BY <1>1, <1>3, <2>1 DEF IInv, TypeOK, HandleResponse
<1>8. ServerFits(toServer, server)' /\ Handed(c, toServer, server)' /\ (c.failed \notin Bad)'
  BY <1>1, <1>5 DEF IInv, HandleResponse
<1>9. (Alive => Prot(c, toServer, server, toClient, respQueue))'
  BY <1>1, <1>6 DEF Alive, Good, HandleResponse
<1> QED
  BY <1>7, <1>8, <1>9 DEF IInv

\* The queue q is sent up to n, its first IDLE or its end: s goes, r stays.
FirstIdle(q, n) ==
    /\ n \in 1..Len(q) /\ \A j \in 1..(n - 1) : q[j] # "IDLE"
    /\ n = Len(q) \/ q[n] = "IDLE"
Split(p, q, s, r, n) ==
    /\ s \in Seq(Written) /\ r \in Seq(Written) /\ q = s \o r
    /\ n \in Nat \ {0} /\ Len(s) = n /\ s # <<>>
    /\ \A i \in 1..n : (s[i] = "DONE") <=> i = 1 /\ p
    /\ \A i \in 1..n : (p /\ \A j \in 1..(i - 1) : q[j] # "DONE") <=> i = 1 /\ p
    /\ ~(p /\ \A j \in 1..n : q[j] # "DONE")
    /\ Fits(s[n] = "IDLE", r) /\ EndsIdling(s[n] = "IDLE", r) = EndsIdling(p, q)
    /\ \A i \in 1..n : s[i] = "IDLE" => i = n

\* What executeCommands sends of a queue that fits: everything up to the first IDLE.
LEMMA FitsSend ==
    ASSUME NEW p \in BOOLEAN, NEW q \in Seq(Written), q # <<>>, Fits(p, q),
           NEW n, FirstIdle(q, n)
    PROVE  Split(p, q, SubSeq(q, 1, n), SubSeq(q, n + 1, Len(q)), n)
<1> DEFINE s == SubSeq(q, 1, n)
           r == SubSeq(q, n + 1, Len(q))
           m == Len(q)
<1>1. m \in Nat /\ DOMAIN q = 1..m /\ n \in Nat /\ 1 <= n /\ n <= m
  BY DEF FirstIdle
<1>0. /\ \A j \in 1..(n - 1) : q[j] # "IDLE"
      /\ n = Len(q) \/ q[n] = "IDLE"
  BY DEF FirstIdle
<1>2. /\ s \in Seq(Written) /\ Len(s) = n /\ DOMAIN s = 1..n /\ \A i \in 1..n : s[i] = q[i]
  <2>1. n \in 1..Len(q)
    BY DEF FirstIdle
  <2> QED
    BY <2>1
<1>2a. s = SubSeq(q, 1, n) /\ r = SubSeq(q, n + 1, m)
  OBVIOUS
<1>2b. m = Len(q)
  OBVIOUS
<1> HIDE DEF s, r, m
<1>3. /\ r \in Seq(Written) /\ Len(r) = m - n /\ DOMAIN r = 1..(m - n)
      /\ \A i \in 1..(m - n) : r[i] = q[n + i]
  <2>1. n + 1 \in Int /\ m \in Int /\ \A i \in (n + 1)..m : q[i] \in Written
    <3>1. \A i \in (n + 1)..m : i \in 1..m
      BY <1>1
    <3>2. \A i \in DOMAIN q : q[i] \in Written
      OBVIOUS
    <3> QED
      BY <1>1, <3>1, <3>2
  <2>2. /\ SubSeq(q, n + 1, m) \in Seq(Written)
        /\ Len(SubSeq(q, n + 1, m)) = IF n + 1 <= m THEN m - (n + 1) + 1 ELSE 0
        /\ \A i \in 1..(m - (n + 1) + 1) : SubSeq(q, n + 1, m)[i] = q[(n + 1) + i - 1]
    BY <2>1, SubSeqProperties
  <2>3. /\ (IF n + 1 <= m THEN m - (n + 1) + 1 ELSE 0) = m - n
        /\ m - (n + 1) + 1 = m - n /\ \A i \in 1..(m - n) : (n + 1) + i - 1 = n + i
    BY <1>1
  <2>5. r \in Seq(Written) /\ Len(r) = m - n /\ \A i \in 1..(m - n) : r[i] = q[n + i]
    BY <1>2a, <2>2, <2>3
  <2> QED
    BY <2>5
<1>4. q = s \o r
  <2>1. 1 \in 1..(m + 1) /\ n \in (1 - 1)..m /\ m \in n..m
    BY <1>1
  <2>2. SubSeq(q, 1, n) \o SubSeq(q, n + 1, m) = SubSeq(q, 1, m)
    BY <1>2b, <2>1, ConcatAdjacentSubSeq
  <2>3. SubSeq(q, 1, m) = q
    BY <1>2b, SubSeqFull
  <2> QED
    BY <1>2a, <2>2, <2>3
<1>5. s # <<>> /\ (r = <<>> <=> n = m)
  <2>1. s # <<>>
    BY <1>1, <1>2
  <2>2. r = <<>> <=> Len(r) = 0
    BY <1>3
  <2> QED
    BY <1>1, <1>3, <2>1, <2>2
<1>6. \A i \in 1..m : (q[i] = "DONE") = (IF i = 1 THEN p ELSE q[i - 1] = "IDLE")
  BY <1>1 DEF Fits
<1>7. \A i \in 1..n : (q[i] = "DONE") <=> i = 1 /\ p
  <2>1. \A i \in 1..n : i # 1 => i - 1 \in 1..(n - 1)
    BY <1>1
  <2>2. \A i \in 1..n : i \in 1..m
    BY <1>1
  <2> QED
    BY <1>0, <1>6, <2>1, <2>2
<1>8. 1 \in 1..n /\ 1 \in 1..m
  BY <1>1
<1>9. \A i \in 1..n : (p /\ \A j \in 1..(i - 1) : q[j] # "DONE") <=> i = 1 /\ p
  <2>1. ASSUME NEW i \in 1..n, i # 1, p PROVE ~(\A j \in 1..(i - 1) : q[j] # "DONE")
    <3>1. 1 \in 1..(i - 1)
      BY <1>1, <2>1
    <3> QED
      BY <1>7, <1>8, <2>1, <3>1
  <2>2. \A j \in 1..(1 - 1) : q[j] # "DONE"
    OBVIOUS
  <2> QED
    BY <2>1, <2>2
<1>10. ~(p /\ \A j \in 1..n : q[j] # "DONE")
  BY <1>7, <1>8
<1>11. Fits(s[n] = "IDLE", r)
  <2>1. ASSUME NEW i \in 1..(m - n)
        PROVE  (r[i] = "DONE") = (IF i = 1 THEN s[n] = "IDLE" ELSE r[i - 1] = "IDLE")
    <3>1. n + i \in 1..m /\ n + i # 1 /\ (n + i) - 1 = n + (i - 1) /\ (i = 1 => (n + i) - 1 = n)
      BY <1>1
    <3>2. (q[n + i] = "DONE") = (q[(n + i) - 1] = "IDLE")
      BY <1>6, <3>1
    <3>3. n \in 1..n /\ s[n] = q[n]
      BY <1>1, <1>2
    <3>4. i # 1 => i - 1 \in 1..(m - n) /\ r[i - 1] = q[n + (i - 1)]
      BY <1>1, <1>3
    <3> QED
      BY <1>3, <3>1, <3>2, <3>3, <3>4
  <2> QED
    BY <1>3, <2>1 DEF Fits
<1>12. EndsIdling(s[n] = "IDLE", r) = EndsIdling(p, q)
  <2>1. EndsIdling(p, q) = (q[m] = "IDLE")
    BY DEF EndsIdling, m
  <2>2. CASE n = m
    <3>1. EndsIdling(s[n] = "IDLE", r) = (s[n] = "IDLE")
      BY <1>5, <2>2 DEF EndsIdling
    <3>2. n \in 1..n
      BY <1>1
    <3> QED
      BY <1>2, <2>1, <2>2, <3>1, <3>2
  <2>3. CASE n # m
    <3>1. EndsIdling(s[n] = "IDLE", r) = (r[m - n] = "IDLE")
      BY <1>3, <1>5, <2>3 DEF EndsIdling
    <3>2. m - n \in 1..(m - n) /\ n + (m - n) = m
      BY <1>1, <2>3
    <3> QED
      BY <1>3, <2>1, <3>1, <3>2
  <2> QED
    BY <2>2, <2>3
<1>13. \A i \in 1..n : s[i] = "IDLE" => i = n
  <2>1. \A i \in 1..n : i # n => i \in 1..(n - 1)
    BY <1>1
  <2> QED
    BY <1>0, <1>2, <2>1
<1>14. \A i \in 1..n : (s[i] = "DONE") <=> i = 1 /\ p
  BY <1>2, <1>7
<1>15. n \in Nat \ {0}
  BY <1>1
<1>16. Split(p, q, s, r, n)
  BY <1>2, <1>3, <1>4, <1>5, <1>9, <1>10, <1>11, <1>12, <1>13, <1>14, <1>15 DEF Split
<1> QED
  BY <1>16 DEF s, r, m

\* The first IDLE in the queue, or its end.
LEMMA SendableIs ==
    ASSUME NEW k \in Client, k.cmdQueue # <<>>, k = c
    PROVE  FirstIdle(k.cmdQueue, Sendable)
<1> DEFINE q == k.cmdQueue
           idles == {i \in 1..Len(q) : q[i] = "IDLE"}
<1>1. q \in Seq(Written) /\ Len(q) \in Nat /\ Len(q) >= 1
  BY ClientFields
<1>2. Sendable = IF idles = {} THEN Len(q) ELSE CHOOSE i \in idles : \A j \in idles : i <= j
  BY DEF Sendable
<1>3. idles \subseteq 0..Len(q) /\ \A i \in idles : i \in 1..Len(q) /\ q[i] = "IDLE"
  BY <1>1
<1>4. \A i \in 1..Len(q) : q[i] = "IDLE" => i \in idles
  OBVIOUS
<1> HIDE DEF idles, q
<1>5. CASE idles = {}
  <2>1. Sendable = Len(q)
    BY <1>2, <1>5
  <2>2. \A j \in 1..(Len(q) - 1) : j \in 1..Len(q)
    BY <1>1
  <2>3. Len(q) \in 1..Len(q)
    BY <1>1
  <2> QED
    BY <1>4, <1>5, <2>1, <2>2, <2>3 DEF q, FirstIdle
<1>6. CASE idles # {}
  <2>1. \E i \in idles : \A j \in idles : i <= j
    BY <1>1, <1>3, <1>6, LeastElement
  <2>2. Sendable \in idles /\ \A j \in idles : Sendable <= j
    BY <1>2, <1>6, <2>1
  <2>3. Sendable \in 1..Len(q) /\ q[Sendable] = "IDLE"
    BY <1>3, <2>2
  <2>4. \A j \in 1..(Sendable - 1) : j \in 1..Len(q) /\ ~(Sendable <= j)
    BY <1>1, <2>3
  <2> QED
    BY <1>4, <2>2, <2>3, <2>4 DEF q, FirstIdle
<1> QED
  BY <1>5, <1>6

\* The concatenation of two sequences of commands, place by place.
LEMMA ConcatWritten ==
    \A s, t \in Seq(Written) :
       /\ s \o t \in Seq(Written) /\ Len(s \o t) = Len(s) + Len(t)
       /\ \A i \in 1..(Len(s) + Len(t)) :
            (s \o t)[i] = IF i <= Len(s) THEN s[i] ELSE t[i - Len(s)]
BY ConcatProperties

\* l is k after the Parser has sent all but r; idles: IDLE was the last.
Shortened(k, l, r, idles) ==
    /\ l \in Client /\ l.failed = k.failed /\ l.cmdQueue = r
    /\ l.waitForInitialIdle = idles /\ l.parserIdling = idles
    /\ l.over = k.over /\ l.active = k.active /\ l.running = k.running
    /\ l.arrivals = k.arrivals /\ l.launcher = k.launcher /\ l.tagIdle = k.tagIdle
    /\ l.idleCommandRunning = k.idleCommandRunning /\ l.waiting = k.waiting
    /\ l.posted = k.posted /\ l.idling = k.idling /\ l.requested = k.requested
    /\ l.delayedEnter = k.delayedEnter

\* The Parser sends what it may: no assertion of executeACommand fails, and the server
\* gets DONE first when it idles and IDLE last.
LEMMA SendGood ==
    ASSUME NEW k, NEW ts, NEW sv, NEW tc, NEW rq, Good(k, ts, sv, tc, rq),
           ~k.waitForInitialIdle, NEW s, NEW r, NEW n,
           Split(k.parserIdling, k.cmdQueue, s, r, n), NEW l, Shortened(k, l, r, s[n] = "IDLE")
    PROVE  Good(l, ts \o s, sv, tc, rq)
<1>a. /\ s \in Seq(Written) /\ r \in Seq(Written)
      /\ k.cmdQueue = s \o r /\ n \in Nat \ {0} /\ Len(s) = n /\ s # <<>>
      /\ \A i \in 1..n : (s[i] = "DONE") <=> i = 1 /\ k.parserIdling
      /\ \A i \in 1..n : s[i] = "IDLE" => i = n
      /\ Fits(s[n] = "IDLE", r)
      /\ EndsIdling(s[n] = "IDLE", r) = EndsIdling(k.parserIdling, k.cmdQueue)
  BY DEF Split
<1>b. /\ l \in Client /\ l.failed = k.failed /\ l.cmdQueue = r
      /\ l.waitForInitialIdle = (s[n] = "IDLE") /\ l.parserIdling = (s[n] = "IDLE")
      /\ l.over = k.over /\ l.active = k.active /\ l.running = k.running
      /\ l.arrivals = k.arrivals /\ l.launcher = k.launcher /\ l.tagIdle = k.tagIdle
      /\ l.idleCommandRunning = k.idleCommandRunning /\ l.waiting = k.waiting
      /\ l.posted = k.posted /\ l.idling = k.idling /\ l.requested = k.requested
      /\ l.delayedEnter = k.delayedEnter
  BY DEF Shortened
<1> USE <1>a, <1>b
<1>1. /\ k \in Client /\ Shape(k) /\ Balanced(k, ts, sv, tc, rq) /\ Handed(k, ts, sv)
      /\ Knows(k.parserIdling, ts, sv, tc, rq) /\ ServerFits(ts, sv)
      /\ k.parserIdling \in BOOLEAN /\ ts \in Seq(Written) /\ Len(ts) \in Nat
      /\ k.waitForInitialIdle \in BOOLEAN
  BY ClientFields DEF Good, Prot, Environment
<1>2. /\ DOMAIN s = 1..n /\ DOMAIN ts = 1..Len(ts)
      /\ ts \o s \in Seq(Written) /\ Len(ts \o s) = Len(ts) + n
      /\ DOMAIN (ts \o s) = 1..(Len(ts) + n)
      /\ \A i \in 1..(Len(ts) + n) : (ts \o s)[i] = IF i <= Len(ts) THEN ts[i] ELSE s[i - Len(ts)]
  <2>1. ts \in Seq(Written) /\ s \in Seq(Written)
    BY <1>1
  <2>2. /\ ts \o s \in Seq(Written) /\ Len(ts \o s) = Len(ts) + Len(s)
        /\ \A i \in 1..(Len(ts) + Len(s)) :
             (ts \o s)[i] = IF i <= Len(ts) THEN ts[i] ELSE s[i - Len(ts)]
    BY <2>1, ConcatWritten
  <2> QED
    BY <1>1, <2>2
<1>3. Count(ts, "IDLE") = 0 /\ Count(tc, "+") = 0 /\ Count(tc, "NO_IDLE") = 0 /\ Count(rq, "NO_IDLE") = 0
  <2> DEFINE a == Count(ts, "IDLE")  b == Count(tc, "+")
             d == Count(tc, "NO_IDLE")  e == Count(rq, "NO_IDLE")
  <2>1. a \in Nat /\ b \in Nat /\ d \in Nat /\ e \in Nat
    BY CountTypes
  <2>2. a + b + d + e = 0
    BY <1>1 DEF Balanced
  <2> HIDE DEF a, b, d, e
  <2>3. a = 0 /\ b = 0 /\ d = 0 /\ e = 0
    BY <2>1, <2>2
  <2> QED
    BY <2>3 DEF a, b, d, e
<1>4. \A i \in DOMAIN ts : ts[i] # "IDLE"
  BY <1>1, <1>3, CountNat
<1>5. Count(s, "IDLE") = One(s[n] = "IDLE")
  <2>1. n \in 1..n
    OBVIOUS
  <2>2. CASE s[n] = "IDLE"
    <3>1. {i \in DOMAIN s : s[i] = "IDLE"} = {n}
      BY <1>2, <2>1, <2>2
    <3>2. Cardinality({n}) = 1
      BY FS_Singleton
    <3>3. Count(s, "IDLE") = 1
      BY <3>1, <3>2 DEF Count
    <3> QED
      BY <2>2, <3>3
  <2>3. CASE s[n] # "IDLE"
    <3>1. {i \in DOMAIN s : s[i] = "IDLE"} = {}
      BY <1>2, <2>3
    <3> QED
      BY <2>3, <3>1, FS_EmptySet DEF Count
  <2> QED
    BY <2>2, <2>3
<1>6. \A y : /\ Count(ts, y) \in Nat /\ Count(s, y) \in Nat /\ Count(r, y) \in Nat
             /\ Count(tc, y) \in Nat /\ Count(rq, y) \in Nat
             /\ Count(k.cmdQueue, y) = Count(s, y) + Count(r, y)
             /\ Count(ts \o s, y) = Count(ts, y) + Count(s, y)
  <2>1. \A y : Count(s, y) \in Nat /\ Count(r, y) \in Nat
    BY CountNat
  <2>2. \A y : /\ Count(s \o r, y) = Count(s, y) + Count(r, y)
               /\ Count(ts \o s, y) = Count(ts, y) + Count(s, y)
    BY <1>1, CountConcat
  <2>3. \A y : Count(ts, y) \in Nat /\ Count(tc, y) \in Nat /\ Count(rq, y) \in Nat
    BY CountTypes
  <2> QED
    BY <2>1, <2>2, <2>3
<1>7. ASSUME NEW y PROVE Count(ts \o s, y) + Count(r, y) = Count(ts, y) + Count(k.cmdQueue, y)
  <2> DEFINE a == Count(ts, y)  b == Count(s, y)  d == Count(r, y)
  <2>1. a \in Nat /\ b \in Nat /\ d \in Nat
    BY <1>6
  <2>2. Count(ts \o s, y) = a + b /\ Count(k.cmdQueue, y) = b + d
    BY <1>6
  <2> HIDE DEF a, b, d
  <2>3. (a + b) + d = a + (b + d)
    BY <2>1
  <2> QED
    BY <2>2, <2>3 DEF a, d
<1>8. Shape(l)
  BY <1>1 DEF Shape
<1>9. Balanced(l, ts \o s, sv, tc, rq)
  <2>1. /\ Count(ts \o s, "IDLE") + Count(r, "IDLE") + One(sv = "idle")
           + Count(tc, "OK_IDLE") + Count(rq, "OK_IDLE")
           + Count(tc, "NO_IDLE") + Count(rq, "NO_IDLE") = One(k.idleCommandRunning)
        /\ Count(ts \o s, "TASK") + Count(r, "TASK")
           + Count(tc, "OK_TASK") + Count(rq, "OK_TASK") = k.active
        /\ Count(ts \o s, "UID_FETCH") + Count(r, "UID_FETCH")
           + Count(tc, "OK_UID_FETCH") + Count(rq, "OK_UID_FETCH") = k.arrivals
    BY <1>1, <1>7 DEF Balanced
  <2>2. Count(ts \o s, "IDLE") + Count(tc, "+") + Count(tc, "NO_IDLE") + Count(rq, "NO_IDLE")
        = One(s[n] = "IDLE")
    <3>0. Count(ts \o s, "IDLE") = Count(ts, "IDLE") + Count(s, "IDLE")
      BY <1>6
    <3>1. Count(ts \o s, "IDLE") = 0 + One(s[n] = "IDLE")
      BY <1>3, <1>5, <3>0
    <3>2. One(s[n] = "IDLE") \in Nat
      OBVIOUS
    <3>3. \A x \in Nat : (0 + x) + 0 + 0 + 0 = x
      OBVIOUS
    <3> QED
      BY <1>3, <3>1, <3>2, <3>3
  <2> QED
    BY <2>1, <2>2 DEF Balanced
<1>10. ts \o s # <<>> /\ (ts \o s)[Len(ts \o s)] = s[n]
  <2>1. Len(ts) + n \in 1..(Len(ts) + n) /\ ~(Len(ts) + n <= Len(ts)) /\ (Len(ts) + n) - Len(ts) = n
    BY <1>1
  <2> QED
    BY <1>2, <2>1
<1>11. ~ServerEndsIdle /\ k.parserIdling => sv = "idle"
  BY <1>1, <1>3 DEF Knows
<1>12. sv = "idle" /\ k.parserIdling => ts = <<>>
  <2>1. ASSUME sv = "idle", k.parserIdling, ts # <<>> PROVE FALSE
    <3>1. ts[1] = "DONE" /\ 1 \in DOMAIN ts
      BY <1>1, <2>1 DEF ServerFits
    <3>2. Count(ts, "DONE") # 0
      BY <1>1, <3>1, CountNat
    <3>3. Len(ts) \in DOMAIN ts
      BY <1>1, <2>1
    <3> QED
      BY <1>1, <1>4, <2>1, <3>2, <3>3 DEF Knows
  <2> QED
    BY <2>1
<1>13. Knows(s[n] = "IDLE", ts \o s, sv, tc, rq)
  <2>1. ASSUME ~ServerEndsIdle, NEW i \in DOMAIN (ts \o s), (ts \o s)[i] = "DONE"
        PROVE  i = 1 /\ sv = "idle"
    <3>1. CASE i <= Len(ts)
      <4>1. i \in DOMAIN ts /\ ts[i] = "DONE"
        BY <1>1, <1>2, <2>1, <3>1
      <4> QED
        BY <1>1, <2>1, <4>1 DEF Knows
    <3>2. CASE ~(i <= Len(ts))
      <4>1. i - Len(ts) \in 1..n /\ s[i - Len(ts)] = "DONE"
        BY <1>1, <1>2, <2>1, <3>2
      <4>2. i - Len(ts) = 1 /\ k.parserIdling
        BY <4>1
      <4>3. ts = <<>> /\ sv = "idle"
        BY <1>11, <1>12, <2>1, <4>2
      <4> QED
        BY <1>1, <1>2, <4>2, <4>3
    <3> QED
      BY <3>1, <3>2
  <2>2. s[n] = "IDLE" => Count(ts \o s, "IDLE") # 0
    <3>1. ASSUME s[n] = "IDLE" PROVE Count(ts \o s, "IDLE") # 0
      <4>1. Count(ts \o s, "IDLE") = 0 + 1
        BY <1>3, <1>5, <1>6, <3>1
      <4> QED
        BY <4>1
    <3> QED
      BY <3>1
  <2> QED
    BY <1>10, <2>1, <2>2 DEF Knows
<1>14. ServerFits(ts \o s, sv)
  <2>1. ASSUME NEW i \in DOMAIN (ts \o s), (ts \o s)[i] = "IDLE" PROVE i = Len(ts \o s)
    <3>1. ~(i <= Len(ts))
      <4>1. i <= Len(ts) => i \in DOMAIN ts /\ (ts \o s)[i] = ts[i]
        BY <1>1, <1>2
      <4> QED
        BY <1>4, <2>1, <4>1
    <3>2. i - Len(ts) \in 1..n /\ s[i - Len(ts)] = "IDLE"
      BY <1>1, <1>2, <2>1, <3>1
    <3>3. i - Len(ts) = n
      BY <3>2
    <3>4. i \in Nat
      BY <1>1, <1>2
    <3> QED
      BY <1>1, <1>2, <3>3, <3>4
  <2>2. sv = "idle" => (ts \o s)[1] = "DONE"
    <3>1. CASE ts # <<>>
      <4>1. 1 <= Len(ts) /\ 1 \in 1..(Len(ts) + n)
        BY <1>1, <3>1
      <4>2. (ts \o s)[1] = ts[1]
        BY <1>2, <4>1
      <4> QED
        BY <1>1, <3>1, <4>2 DEF ServerFits
    <3>2. CASE ts = <<>>
      <4>1. sv = "idle" => k.parserIdling
        BY <1>1, <3>2 DEF Knows
      <4>2. 1 \in 1..n /\ 1 \in 1..(Len(ts) + n) /\ ~(1 <= Len(ts)) /\ 1 - Len(ts) = 1
        BY <3>2
      <4>3. (ts \o s)[1] = s[1]
        BY <1>2, <4>2
      <4> QED
        BY <4>1, <4>2, <4>3
    <3> QED
      BY <3>1, <3>2
  <2> QED
    BY <1>1, <2>1, <2>2 DEF ServerFits
<1>15. Handed(l, ts \o s, sv)
  <2>1. CASE ~k.over
    <3>1. Count(ts, "SELECT") = 0 /\ Count(k.cmdQueue, "SELECT") = 0
      BY <1>1, <2>1 DEF Handed
    <3> DEFINE a == Count(ts \o s, "SELECT")   b == Count(r, "SELECT")
    <3>2. a + b = 0 + 0
      BY <1>7, <3>1
    <3>3. a \in Nat /\ b \in Nat
      BY <1>2, CountNat
    <3> HIDE DEF a, b
    <3>4. a = 0 /\ b = 0
      BY <3>2, <3>3
    <3> QED
      BY <2>1, <3>4 DEF Handed, a, b
  <2>2. CASE k.over
    <3>1. /\ sv # "idle" /\ Count(ts, "IDLE") = 0 /\ Count(k.cmdQueue, "IDLE") = 0
          /\ ServerEndsIdle \/ (Count(ts, "DONE") = 0 /\ Count(k.cmdQueue, "DONE") = 0)
          /\ \A i \in DOMAIN (ts \o k.cmdQueue) :
               (ts \o k.cmdQueue)[i] = "SELECT" => i = Len(ts \o k.cmdQueue)
      BY <1>1, <2>2 DEF Handed
    <3>2. ASSUME NEW y, Count(ts, y) = 0, Count(k.cmdQueue, y) = 0
          PROVE  Count(ts \o s, y) = 0 /\ Count(r, y) = 0
      <4> DEFINE a == Count(ts \o s, y)   b == Count(r, y)
      <4>1. a + b = 0 + 0
        BY <1>7, <3>2
      <4>2. a \in Nat /\ b \in Nat
        BY <1>2, CountNat
      <4> HIDE DEF a, b
      <4>3. a = 0 /\ b = 0
        BY <4>1, <4>2
      <4> QED
        BY <4>3 DEF a, b
    <3>3. (ts \o s) \o r = ts \o k.cmdQueue
      <4>0. ts \in Seq(Written)
        BY <1>1
      <4>1. (ts \o s) \o r = ts \o (s \o r)
        BY <4>0, ConcatAssociative, SMTT(30)
      <4> QED
        BY <4>1
    <3>4. Count(ts \o s, "IDLE") = 0 /\ Count(r, "IDLE") = 0
      BY <3>1, <3>2
    <3>5. ServerEndsIdle \/ (Count(ts \o s, "DONE") = 0 /\ Count(r, "DONE") = 0)
      BY <3>1, <3>2
    <3> HIDE DEF Handed
    <3>6. \A i \in DOMAIN ((ts \o s) \o r) :
            ((ts \o s) \o r)[i] = "SELECT" => i = Len((ts \o s) \o r)
      BY <3>1, <3>3
    <3> QED
      BY <2>2, <3>1, <3>4, <3>5, <3>6 DEF Handed
  <2> QED
    BY <2>1, <2>2
<1> QED
  BY <1>2, <1>8, <1>9, <1>13, <1>14, <1>15 DEF Good, Prot, Environment

\* The Parser sends: DONE stands exactly where the Parser idles, so that neither of
\* the assertions in executeACommand fails.
LEMMA ExecuteCommandsKeeps == ASSUME IInv, ExecuteCommands PROVE IInv'
<1> DEFINE n == Sendable
           q == c.cmdQueue
           p == c.parserIdling
           s == SubSeq(q, 1, n)
           r == SubSeq(q, n + 1, Len(q))
           l == [c EXCEPT !.cmdQueue = r, !.waitForInitialIdle = (s[n] = "IDLE"),
                          !.parserIdling = (s[n] = "IDLE")]
<1>1. /\ Good(c, toServer, server, toClient, respQueue) /\ q # <<>> /\ ~c.waitForInitialIdle
      /\ c \in Client /\ Fits(p, q) /\ p \in BOOLEAN /\ q \in Seq(Written) /\ Len(q) \in Nat
  BY IInvGood, ClientFields DEF ExecuteCommands, Good, Prot, Shape
<1>2. FirstIdle(q, n)
  BY <1>1, SendableIs
<1>3. Split(p, q, s, r, n)
  <2> HIDE DEF n, q, p
  <2> QED
    BY <1>1, <1>2, FitsSend
<1>4. /\ c' = l /\ toServer' = toServer \o s
      /\ UNCHANGED <<server, toClient, respQueue, requests, exists>>
  <2>1. ~(\E i \in 1..n : (s[i] = "DONE") # IdlingBefore(i))
    <3>1. \A i \in 1..n : IdlingBefore(i) <=> i = 1 /\ p
      BY <1>3 DEF IdlingBefore, Split
    <3>2. \A i \in 1..n : IdlingBefore(i) \in BOOLEAN /\ (s[i] = "DONE") \in BOOLEAN
      BY DEF IdlingBefore
    <3>3. \A i \in 1..n : (s[i] = "DONE") <=> i = 1 /\ p
      BY <1>3 DEF Split
    <3> HIDE DEF s, n, p
    <3> QED
      BY <3>1, <3>2, <3>3
  <2>2. IdlingBefore(n + 1) = FALSE
    <3>1. (n + 1) - 1 = n
      BY <1>3 DEF Split
    <3> QED
      BY <1>3, <3>1 DEF IdlingBefore, Split
  <2>3. (s[n] = "IDLE" \/ IdlingBefore(n + 1)) = (s[n] = "IDLE")
    BY <2>2
  <2> QED
    BY <2>1, <2>3 DEF ExecuteCommands
<1>5. Shortened(c, l, r, s[n] = "IDLE")
  <2>1. r \in Seq(Written)
    BY <1>3 DEF Split
  <2> HIDE DEF r, s, n
  <2>2. (s[n] = "IDLE") \in BOOLEAN
    OBVIOUS
  <2>3. l \in Client
    BY <1>1, <2>1, <2>2 DEF Client, Written
  <2> QED
    BY <1>1, <2>3 DEF Client, Shortened
<1>6. Good(l, toServer \o s, server, toClient, respQueue)
  <2> HIDE DEF l, r, s, n
  <2> QED
    BY <1>1, <1>3, <1>5, SendGood
<1> HIDE DEF l, r, s, n
<1> QED
  BY <1>4, <1>6 DEF IInv, Alive, Good, Environment, TypeOK, Written

\* A line moves from the wire to the queue of responses.
LEMMA ReadOther ==
    ASSUME NEW k, NEW ts, NEW sv, NEW tc, NEW rq, Good(k, ts, sv, tc, rq), tc # <<>>,
           Head(tc) # "+"
    PROVE  Good(k, ts, sv, Tail(tc), Append(rq, Head(tc)))
<1> DEFINE x == Head(tc)
           u == Tail(tc)
           v == Append(rq, x)
<1>1. /\ tc \in Seq(Lines) /\ rq \in Seq(Lines \ {"+"}) /\ u \in Seq(Lines)
      /\ x \in Lines \ {"+"} /\ v \in Seq(Lines \ {"+"})
  <2>1. tc \in Seq(Lines) /\ rq \in Seq(Lines \ {"+"})
    BY DEF Good, Environment
  <2>2. Tail(tc) \in Seq(Lines) /\ Head(tc) \in Lines
    BY <2>1
  <2> QED
    BY <2>1, <2>2
<1>2. ASSUME NEW y
      PROVE  /\ Count(tc, y) = Count(u, y) + (IF x = y THEN 1 ELSE 0)
             /\ Count(v, y) = Count(rq, y) + (IF x = y THEN 1 ELSE 0)
             /\ Count(u, y) \in Nat /\ Count(v, y) \in Nat
             /\ Count(tc, y) \in Nat /\ Count(rq, y) \in Nat
  <2>1. tc \in Seq(Lines) /\ u \in Seq(Lines) /\ Count(tc, y) = Count(u, y) + (IF x = y THEN 1 ELSE 0)
    BY <1>1, CountTail
  <2>2. rq \in Seq(Lines) /\ v \in Seq(Lines) /\ x \in Lines
    BY <1>1
  <2>3. Count(v, y) = Count(rq, y) + (IF x = y THEN 1 ELSE 0)
    BY <2>2, CountAppend
  <2> HIDE DEF u, v, x
  <2> QED
    BY <2>1, <2>2, <2>3, CountNat
<1>3. /\ Len(tc) \in Nat /\ DOMAIN tc = 1..Len(tc) /\ 1 \in DOMAIN tc /\ x = tc[1]
      /\ DOMAIN u = 1..(Len(tc) - 1) /\ \A i \in DOMAIN u : u[i] = tc[i + 1] /\ i + 1 \in DOMAIN tc
  BY <1>1
<1> HIDE DEF x, u, v
<1>4. ASSUME NEW y
      PROVE  Count(u, y) + Count(v, y) = Count(tc, y) + Count(rq, y)
  <2> DEFINE a == Count(tc, y)  b == Count(u, y)  d == Count(v, y)  e == Count(rq, y)
             i == IF x = y THEN 1 ELSE 0
  <2>1. a = b + i /\ d = e + i /\ a \in Nat /\ b \in Nat /\ d \in Nat /\ e \in Nat
    BY <1>2
  <2>2. i \in Nat
    OBVIOUS
  <2> HIDE DEF a, b, d, e, i
  <2>3. b + d = a + e
    BY <2>1, <2>2
  <2> QED
    BY <2>3 DEF a, b, d, e
<1>5. ASSUME NEW y, x # y PROVE Count(u, y) = Count(tc, y) /\ Count(v, y) = Count(rq, y)
  <2>1. /\ Count(tc, y) = Count(u, y) + 0 /\ Count(v, y) = Count(rq, y) + 0
        /\ Count(u, y) \in Nat /\ Count(rq, y) \in Nat
    BY <1>2, <1>5
  <2>2. \A m \in Nat : m + 0 = m
    OBVIOUS
  <2> QED
    BY <2>1, <2>2
<1>6. Count(u, "+") = Count(tc, "+")
  BY <1>1, <1>5
<1>7. \A a, t, r, s, w \in Nat : t + r = s + w => a + t + r = a + s + w
  OBVIOUS
<1>8. Balanced(k, ts, sv, u, v)
  <2>0. Balanced(k, ts, sv, tc, rq) /\ k.cmdQueue \in Seq(Written) /\ ts \in Seq(Written)
    BY ClientFields DEF Good, Prot, Environment
  <2>1. ASSUME NEW y, NEW z, NEW m,
               Count(ts, y) + Count(k.cmdQueue, y) + Count(tc, z) + Count(rq, z) = m
        PROVE  Count(ts, y) + Count(k.cmdQueue, y) + Count(u, z) + Count(v, z) = m
    <3> DEFINE a == Count(ts, y)  b == Count(k.cmdQueue, y)
               d == Count(tc, z)  e == Count(rq, z)  f == Count(u, z)  g == Count(v, z)
    <3>1. a \in Nat /\ b \in Nat /\ d \in Nat /\ e \in Nat /\ f \in Nat /\ g \in Nat
      BY <1>2, <2>0, CountNat
    <3>2. f + g = d + e /\ a + b + d + e = m
      BY <1>4, <2>1
    <3> HIDE DEF a, b, d, e, f, g
    <3>3. a + b + f + g = m
      BY <3>1, <3>2
    <3> QED
      BY <3>3 DEF a, b, f, g
  <2>2. Count(ts, "IDLE") + Count(k.cmdQueue, "IDLE") + One(sv = "idle")
        + Count(u, "OK_IDLE") + Count(v, "OK_IDLE")
        + Count(u, "NO_IDLE") + Count(v, "NO_IDLE") = One(k.idleCommandRunning)
    <3> DEFINE a == Count(ts, "IDLE")  b == Count(k.cmdQueue, "IDLE")  h == One(sv = "idle")
               d == Count(tc, "OK_IDLE")  e == Count(rq, "OK_IDLE")
               f == Count(tc, "NO_IDLE")  g == Count(rq, "NO_IDLE")
               d2 == Count(u, "OK_IDLE")  e2 == Count(v, "OK_IDLE")
               f2 == Count(u, "NO_IDLE")  g2 == Count(v, "NO_IDLE")
               n == One(k.idleCommandRunning)
    <3>1. /\ a \in Nat /\ b \in Nat /\ d \in Nat /\ e \in Nat /\ f \in Nat /\ g \in Nat
          /\ d2 \in Nat /\ e2 \in Nat /\ f2 \in Nat /\ g2 \in Nat
      BY <1>2, <2>0, CountNat
    <3>2. h \in Nat
      OBVIOUS
    <3>3. d2 + e2 = d + e /\ f2 + g2 = f + g
      BY <1>4
    <3>4. a + b + h + d + e + f + g = n
      BY <2>0 DEF Balanced
    <3> HIDE DEF a, b, h, d, e, f, g, d2, e2, f2, g2, n
    <3>5. a + b + h + d2 + e2 + f2 + g2 = n
      BY <3>1, <3>2, <3>3, <3>4
    <3> QED
      BY <3>5 DEF a, b, h, d2, e2, f2, g2, n
  <2>3. Count(ts, "IDLE") + Count(u, "+") + Count(u, "NO_IDLE") + Count(v, "NO_IDLE")
        = One(k.waitForInitialIdle)
    <3> DEFINE a == Count(ts, "IDLE")  b == Count(tc, "+")
               f == Count(tc, "NO_IDLE")  g == Count(rq, "NO_IDLE")
               f2 == Count(u, "NO_IDLE")  g2 == Count(v, "NO_IDLE")
               n == One(k.waitForInitialIdle)
    <3>1. a \in Nat /\ b \in Nat /\ f \in Nat /\ g \in Nat /\ f2 \in Nat /\ g2 \in Nat
      BY <1>2, <2>0, CountNat
    <3>2. f2 + g2 = f + g
      BY <1>4
    <3>3. a + b + f + g = n
      BY <2>0 DEF Balanced
    <3> HIDE DEF a, b, f, g, f2, g2, n
    <3>4. a + b + f2 + g2 = n
      BY <3>1, <3>2, <3>3
    <3> QED
      BY <1>6, <3>4 DEF a, b, f2, g2, n
  <2> QED
    BY <2>0, <2>1, <2>2, <2>3 DEF Balanced
<1>9. Count(tc, "NO_IDLE") # 0 \/ Count(rq, "NO_IDLE") # 0
        => Count(u, "NO_IDLE") # 0 \/ Count(v, "NO_IDLE") # 0
  <2> DEFINE f == Count(tc, "NO_IDLE")  g == Count(rq, "NO_IDLE")
             f2 == Count(u, "NO_IDLE")  g2 == Count(v, "NO_IDLE")
  <2>1. f \in Nat /\ g \in Nat /\ f2 \in Nat /\ g2 \in Nat /\ f2 + g2 = f + g
    BY <1>2, <1>4
  <2> HIDE DEF f, g, f2, g2
  <2>2. f # 0 \/ g # 0 => f2 # 0 \/ g2 # 0
    BY <2>1
  <2> QED
    BY <2>2 DEF f, g, f2, g2
<1>10. Knows(k.parserIdling, ts, sv, u, v)
  BY <1>9 DEF Good, Prot, Knows
<1>11. InTurn(sv, u)
  <2>1. /\ Count(tc, "+") # 0 => sv = "idle" \/ Count(tc, "OK_IDLE") # 0
        /\ \A i, j \in DOMAIN tc : tc[i] = "+" /\ tc[j] = "OK_IDLE" => i < j
    BY DEF Good, Prot, InTurn
  <2>2. ASSUME Count(u, "+") # 0 PROVE sv = "idle" \/ Count(u, "OK_IDLE") # 0
    <3>1. CASE x = "OK_IDLE"
      <4>1. PICK i \in DOMAIN tc : tc[i] = "+"
        BY <1>1, <1>6, <2>2, CountNat
      <4>2. i < 1
        BY <1>3, <2>1, <3>1, <4>1
      <4> QED
        BY <1>3, <4>1, <4>2
    <3>2. CASE x # "OK_IDLE"
      BY <1>5, <1>6, <2>1, <2>2, <3>2
    <3> QED
      BY <3>1, <3>2
  <2>3. ASSUME NEW i \in DOMAIN u, NEW j \in DOMAIN u, u[i] = "+", u[j] = "OK_IDLE"
        PROVE  i < j
    <3>1. i + 1 < j + 1
      BY <1>3, <2>1, <2>3
    <3> QED
      BY <1>3, <3>1
  <2> QED
    BY <2>2, <2>3 DEF InTurn
<1>12. Good(k, ts, sv, u, v)
  BY <1>1, <1>8, <1>10, <1>11 DEF Good, Prot, Environment
<1> QED
  BY <1>12 DEF u, v, x

\* The continuation finds a Parser that waits for it, and is the last of its IDLE.
LEMMA ReadContinuation ==
    ASSUME NEW k, NEW ts, NEW sv, NEW tc, NEW rq, Good(k, ts, sv, tc, rq), tc # <<>>,
           Head(tc) = "+"
    PROVE  /\ k.waitForInitialIdle
           /\ Good([k EXCEPT !.waitForInitialIdle = FALSE], ts, sv, Tail(tc), rq)
<1> DEFINE u == Tail(tc)
           l == [k EXCEPT !.waitForInitialIdle = FALSE]
<1>1. tc \in Seq(Lines) /\ u \in Seq(Lines)
  <2>1. tc \in Seq(Lines)
    BY DEF Good, Environment
  <2> QED
    BY <2>1
<1>2. ASSUME NEW y
      PROVE  Count(tc, y) = Count(u, y) + (IF Head(tc) = y THEN 1 ELSE 0) /\ Count(u, y) \in Nat
  BY <1>1, CountTail, CountNat
<1>3. ASSUME NEW y, y # "+" PROVE Count(u, y) = Count(tc, y)
  <2>1. Count(tc, y) = Count(u, y) + 0 /\ Count(u, y) \in Nat
    BY <1>2, <1>3
  <2>2. \A m \in Nat : m + 0 = m
    OBVIOUS
  <2> QED
    BY <2>1, <2>2
<1>4. /\ k \in Client /\ k.failed \notin Bad /\ Shape(k) /\ Balanced(k, ts, sv, tc, rq)
      /\ k.waitForInitialIdle \in BOOLEAN
  BY ClientFields DEF Good, Prot
<1>5. /\ k.waitForInitialIdle /\ Count(ts, "IDLE") = 0 /\ Count(u, "+") = 0
      /\ Count(tc, "NO_IDLE") = 0 /\ Count(rq, "NO_IDLE") = 0
  <2> DEFINE a == Count(ts, "IDLE")  b == Count(tc, "+")  e == Count(u, "+")
             f == Count(tc, "NO_IDLE")  g == Count(rq, "NO_IDLE")
             n == One(k.waitForInitialIdle)
  <2>1. a \in Nat /\ b \in Nat /\ f \in Nat /\ g \in Nat
    BY CountTypes
  <2>2. e \in Nat /\ b = e + 1
    BY <1>2
  <2>3. a + b + f + g = n
    BY <1>4 DEF Balanced
  <2>4. n \in 0..1 /\ (n # 0 => k.waitForInitialIdle)
    BY <1>4
  <2> HIDE DEF a, b, e, f, g, n
  <2>5. n # 0 /\ a = 0 /\ e = 0 /\ f = 0 /\ g = 0
    BY <2>1, <2>2, <2>3, <2>4
  <2> QED
    BY <2>4, <2>5 DEF a, e, f, g
<1>6. l \in Client
  BY <1>4 DEF Client
<1>7. /\ l.cmdQueue = k.cmdQueue /\ l.arrivals = k.arrivals /\ l.failed = k.failed
      /\ l.over = k.over /\ l.delayedEnter = k.delayedEnter /\ l.active = k.active
      /\ l.waiting = k.waiting /\ l.requested = k.requested /\ l.posted = k.posted
      /\ l.idling = k.idling /\ l.running = k.running /\ l.launcher = k.launcher
      /\ l.tagIdle = k.tagIdle /\ l.idleCommandRunning = k.idleCommandRunning
      /\ l.parserIdling = k.parserIdling /\ l.waitForInitialIdle = FALSE
  BY <1>4 DEF Client
<1> HIDE DEF l
<1>8. Shape(l)
  BY <1>4, <1>7 DEF Shape
<1>8a. Count(u, "OK_IDLE") = Count(tc, "OK_IDLE") /\ Count(u, "NO_IDLE") = Count(tc, "NO_IDLE")
  BY <1>3
<1>9. Balanced(l, ts, sv, u, rq)
  <2>1. Count(u, "OK_TASK") = Count(tc, "OK_TASK")
    BY <1>3
  <2>2. Count(u, "OK_UID_FETCH") = Count(tc, "OK_UID_FETCH")
    BY <1>3
  <2>3. Count(ts, "IDLE") + Count(u, "+") + Count(u, "NO_IDLE") + Count(rq, "NO_IDLE") = 0
    <3>1. 0 + 0 + 0 + 0 = 0
      OBVIOUS
    <3> QED
      BY <1>5, <1>8a, <3>1
  <2> QED
    BY <1>4, <1>7, <1>8a, <2>1, <2>2, <2>3 DEF Balanced
<1>10. Knows(k.parserIdling, ts, sv, u, rq)
  BY <1>8a DEF Good, Prot, Knows
<1>11. InTurn(sv, u)
  <2>1. \A i \in DOMAIN u : u[i] # "+"
    BY <1>1, <1>5, CountNat
  <2> QED
    BY <1>5, <2>1 DEF InTurn
<1>12. Good(l, ts, sv, u, rq)
  BY <1>1, <1>4, <1>6, <1>7, <1>8, <1>9, <1>10, <1>11 DEF Good, Prot, Environment, Handed
<1> QED
  BY <1>5, <1>12 DEF l, u

\* The Parser reads a line.
LEMMA ReadLineKeeps == ASSUME IInv, ReadLine PROVE IInv'
<1>1. /\ Good(c, toServer, server, toClient, respQueue) /\ toClient # <<>>
      /\ toClient' = Tail(toClient) /\ UNCHANGED <<toServer, server, requests, exists>>
  BY IInvGood DEF ReadLine
<1>2. Good(c', toServer, server, Tail(toClient), respQueue')
  <2>1. CASE Head(toClient) = "+"
    <3>1. /\ c.waitForInitialIdle
          /\ Good([c EXCEPT !.waitForInitialIdle = FALSE], toServer, server, Tail(toClient), respQueue)
      BY <1>1, <2>1, ReadContinuation
    <3> QED
      BY <2>1, <3>1 DEF ReadLine
  <2>2. CASE Head(toClient) # "+"
    <3>1. Good(c, toServer, server, Tail(toClient), Append(respQueue, Head(toClient)))
      BY <1>1, <2>2, ReadOther
    <3> QED
      BY <2>2, <3>1 DEF ReadLine
  <2> QED
    BY <2>1, <2>2
<1> QED
  BY <1>1, <1>2 DEF IInv, Alive, Good, Environment, TypeOK, Written

----------------------------------------------------------------------------
(* The steps of the server. *)

\* One element more or less, in numbers.
LEMMA CountMore ==
    ASSUME NEW S, NEW s \in Seq(S), NEW a \in S, NEW y
    PROVE  /\ a # y => Count(Append(s, a), y) = Count(s, y)
           /\ a = y => Count(Append(s, a), y) = Count(s, y) + 1
<1>1. Count(Append(s, a), y) = Count(s, y) + (IF a = y THEN 1 ELSE 0) /\ Count(s, y) \in Nat
  BY CountAppend, CountNat
<1>2. \A m \in Nat : m + 0 = m
  OBVIOUS
<1> QED
  BY <1>1, <1>2

\* ... and without its head.
LEMMA CountLess ==
    ASSUME NEW S, NEW s \in Seq(S), s # <<>>, NEW y
    PROVE  /\ Head(s) # y => Count(Tail(s), y) = Count(s, y)
           /\ Head(s) = y => Count(s, y) = Count(Tail(s), y) + 1
<1>1. Tail(s) \in Seq(S)
  OBVIOUS
<1>2. Count(s, y) = Count(Tail(s), y) + (IF Head(s) = y THEN 1 ELSE 0) /\ Count(Tail(s), y) \in Nat
  BY <1>1, CountTail, CountNat
<1>3. \A m \in Nat : m + 0 = m
  OBVIOUS
<1> QED
  BY <1>2, <1>3

\* What the server takes leaves the rest in order, also after a failure of the client:
\* an IDLE is the last thing that it hears.
LEMMA TailFits ==
    ASSUME NEW k \in Client, NEW ts \in Seq(Written), NEW sv, ts # <<>>,
           ServerFits(ts, sv), Handed(k, ts, sv),
           NEW sv2, sv2 = "ready" \/ (sv2 = "idle" /\ Head(ts) = "IDLE")
    PROVE  /\ Tail(ts) \in Seq(Written) /\ ServerFits(Tail(ts), sv2) /\ Handed(k, Tail(ts), sv2)
           /\ Head(ts) = "IDLE" => Tail(ts) = <<>> /\ ~k.over
<1> DEFINE u == Tail(ts)
           n == Len(ts)
           q == k.cmdQueue
<1>1. /\ n \in Nat /\ n >= 1 /\ DOMAIN ts = 1..n /\ Head(ts) = ts[1] /\ 1 \in DOMAIN ts
      /\ u \in Seq(Written) /\ Len(u) = n - 1 /\ DOMAIN u = 1..(n - 1)
      /\ \A i \in 1..(n - 1) : u[i] = ts[i + 1]
  OBVIOUS
<1>2. q \in Seq(Written) /\ Len(q) \in Nat /\ k.over \in BOOLEAN
  BY ClientFields
<1>3. \A y : Count(ts, y) = 0 => Count(u, y) = 0 /\ Head(ts) # y
  <2>1. ASSUME NEW y, Count(ts, y) = 0 PROVE Count(u, y) = 0 /\ Head(ts) # y
    <3>1. Head(ts) = y => Count(ts, y) = Count(u, y) + 1
      BY CountLess
    <3>2. Count(u, y) \in Nat
      BY <1>1, CountNat
    <3>3. \A m \in Nat : m + 1 # 0
      OBVIOUS
    <3>4. Head(ts) # y
      BY <2>1, <3>1, <3>2, <3>3
    <3> QED
      BY <2>1, <3>4, CountLess
  <2> QED
    BY <2>1
<1> HIDE DEF u, n, q
<1>4. Head(ts) = "IDLE" => u = <<>> /\ ~k.over
  <2>1. ASSUME Head(ts) = "IDLE" PROVE u = <<>> /\ ~k.over
    <3>1. n = 1
      BY <1>1, <2>1 DEF ServerFits, n
    <3>2. u = <<>>
      BY <1>1, <3>1
    <3>3. k.over => Count(ts, "IDLE") = 0
      BY DEF Handed
    <3> QED
      BY <1>3, <2>1, <3>2, <3>3
  <2> QED
    BY <2>1
<1>5. ServerFits(u, sv2)
  <2>1. ASSUME NEW i \in DOMAIN u, u[i] = "IDLE" PROVE i = Len(u)
    <3>1. i + 1 \in 1..n /\ ts[i + 1] = "IDLE"
      BY <1>1, <2>1
    <3>2. i + 1 = n
      BY <1>1, <3>1 DEF ServerFits, n
    <3> QED
      BY <1>1, <3>2
  <2> QED
    BY <1>4, <2>1 DEF ServerFits
<1>6. Handed(k, u, sv2)
  <2>1. CASE k.over
    <3>1. /\ Count(ts, "IDLE") = 0 /\ Count(q, "IDLE") = 0
          /\ ServerEndsIdle \/ (Count(ts, "DONE") = 0 /\ Count(q, "DONE") = 0)
          /\ \A i \in DOMAIN (ts \o q) : (ts \o q)[i] = "SELECT" => i = Len(ts \o q)
      BY <2>1 DEF Handed, q
    <3>2. /\ DOMAIN (ts \o q) = 1..(n + Len(q)) /\ Len(ts \o q) = n + Len(q)
          /\ \A i \in 1..(n + Len(q)) : (ts \o q)[i] = IF i <= n THEN ts[i] ELSE q[i - n]
      <4>1. /\ ts \o q \in Seq(Written) /\ Len(ts \o q) = Len(ts) + Len(q)
            /\ \A i \in 1..(Len(ts) + Len(q)) :
                 (ts \o q)[i] = IF i <= Len(ts) THEN ts[i] ELSE q[i - Len(ts)]
        BY <1>2, ConcatWritten
      <4> QED
        BY <1>2, <4>1 DEF n
    <3>3. /\ DOMAIN (u \o q) = 1..((n - 1) + Len(q)) /\ Len(u \o q) = (n - 1) + Len(q)
          /\ \A i \in 1..((n - 1) + Len(q)) :
               (u \o q)[i] = IF i <= n - 1 THEN u[i] ELSE q[i - (n - 1)]
      <4>1. /\ u \o q \in Seq(Written) /\ Len(u \o q) = Len(u) + Len(q)
            /\ \A i \in 1..(Len(u) + Len(q)) :
                 (u \o q)[i] = IF i <= Len(u) THEN u[i] ELSE q[i - Len(u)]
        BY <1>1, <1>2, ConcatWritten
      <4> QED
        BY <1>1, <1>2, <4>1
    <3>4. ASSUME NEW i \in DOMAIN (u \o q), (u \o q)[i] = "SELECT" PROVE i = Len(u \o q)
      <4>0. i \in 1..((n - 1) + Len(q)) /\ i \in Nat
        BY <1>1, <1>2, <3>3
      <4>1. i + 1 \in 1..(n + Len(q)) /\ (i <= n - 1 <=> i + 1 <= n) /\ (i + 1) - n = i - (n - 1)
        BY <1>1, <1>2, <4>0
      <4>2. (ts \o q)[i + 1] = (u \o q)[i]
        <5>1. CASE i <= n - 1
          <6>1. i \in 1..(n - 1)
            BY <1>1, <4>0, <5>1
          <6> QED
            BY <1>1, <3>2, <3>3, <4>0, <4>1, <5>1, <6>1
        <5>2. CASE ~(i <= n - 1)
          BY <3>2, <3>3, <4>0, <4>1, <5>2
        <5> QED
          BY <5>1, <5>2
      <4>3. i + 1 = n + Len(q)
        BY <3>1, <3>2, <3>4, <4>1, <4>2
      <4> QED
        BY <1>1, <1>2, <3>3, <4>0, <4>3
    <3>5. sv2 # "idle"
      BY <1>4, <2>1
    <3>6. Count(u, "IDLE") = 0 /\ (ServerEndsIdle \/ Count(u, "DONE") = 0)
      BY <1>3, <3>1
    <3> QED
      BY <2>1, <3>1, <3>4, <3>5, <3>6 DEF Handed, q
  <2>2. CASE ~k.over
    BY <1>3, <2>2 DEF Handed
  <2> QED
    BY <2>1, <2>2
<1> QED
  BY <1>1, <1>4, <1>5, <1>6 DEF u

\* A line at the end leaves the continuation before the end of its IDLE.
LEMMA InTurnSays ==
    ASSUME NEW sv, NEW tc \in Seq(Lines), NEW x \in Lines \ {"+"}, InTurn(sv, tc),
           NEW sv2, sv2 = sv \/ x = "OK_IDLE"
    PROVE  InTurn(sv2, Append(tc, x))
<1> DEFINE u == Append(tc, x)
           n == Len(tc)
<1>1. /\ n \in Nat /\ DOMAIN tc = 1..n /\ DOMAIN u = 1..(n + 1) /\ u[n + 1] = x
      /\ \A i \in 1..n : u[i] = tc[i] /\ i \in 1..(n + 1)
  OBVIOUS
<1>2. Count(u, "+") = Count(tc, "+")
  BY CountMore
<1>3. Count(u, "OK_IDLE") = 0 => Count(tc, "OK_IDLE") = 0 /\ x # "OK_IDLE"
  <2>1. Count(tc, "OK_IDLE") \in Nat
    BY CountNat
  <2>2. \A m \in Nat : m + 1 # 0
    OBVIOUS
  <2> QED
    BY <2>1, <2>2, CountMore
<1> HIDE DEF u, n
<1>4. ASSUME NEW i \in DOMAIN u, NEW j \in DOMAIN u, u[i] = "+", u[j] = "OK_IDLE" PROVE i < j
  <2>1. i \in 1..n
    BY <1>1, <1>4
  <2>2. CASE j \in 1..n
    BY <1>1, <1>4, <2>1, <2>2 DEF InTurn
  <2>3. CASE j = n + 1
    BY <1>1, <2>1, <2>3
  <2> QED
    BY <1>1, <2>2, <2>3
<1>5. Count(u, "+") # 0 => sv2 = "idle" \/ Count(u, "OK_IDLE") # 0
  BY <1>2, <1>3 DEF InTurn
<1>6. InTurn(sv2, u)
  BY <1>4, <1>5 DEF InTurn
<1> QED
  BY <1>6 DEF u

\* A line that counts for nothing.
LEMMA SaysOther ==
    ASSUME NEW k, NEW ts, NEW sv, NEW tc, NEW rq, Good(k, ts, sv, tc, rq),
           NEW x \in {"EXISTS", "FETCH", "BAD"}
    PROVE  Good(k, ts, sv, Append(tc, x), rq)
<1> DEFINE u == Append(tc, x)
<1>1. tc \in Seq(Lines) /\ x \in Lines \ {"+"} /\ x \in Lines /\ u \in Seq(Lines)
  BY DEF Good, Environment, Lines
<1>2. /\ Count(u, "+") = Count(tc, "+")
      /\ Count(u, "OK_IDLE") = Count(tc, "OK_IDLE")
      /\ Count(u, "NO_IDLE") = Count(tc, "NO_IDLE")
      /\ Count(u, "OK_TASK") = Count(tc, "OK_TASK")
      /\ Count(u, "OK_UID_FETCH") = Count(tc, "OK_UID_FETCH")
  BY <1>1, CountMore
<1>3. InTurn(sv, u)
  BY <1>1, InTurnSays DEF Good, Prot
<1> HIDE DEF u
<1>4. Balanced(k, ts, sv, u, rq) /\ Knows(k.parserIdling, ts, sv, u, rq)
  BY <1>2 DEF Good, Prot, Balanced, Knows
<1>5. Good(k, ts, sv, u, rq)
  BY <1>1, <1>3, <1>4 DEF Good, Prot, Environment
<1> QED
  BY <1>5 DEF u

\* The Parser's view after a word that is not IDLE was heard outside of IDLE.
LEMMA HearsKnows ==
    ASSUME NEW p, NEW ts \in Seq(Written), NEW tc, NEW rq, ts # <<>>,
           Knows(p, ts, "ready", tc, rq), Head(ts) # "IDLE",
           NEW tc2, Count(tc2, "NO_IDLE") = Count(tc, "NO_IDLE")
    PROVE  Knows(p, Tail(ts), "ready", tc2, rq)
<1> DEFINE u == Tail(ts)
           n == Len(ts)
<1>1. /\ n \in Nat /\ n >= 1 /\ DOMAIN ts = 1..n /\ Head(ts) = ts[1] /\ 1 \in DOMAIN ts
      /\ u \in Seq(Written) /\ Len(u) = n - 1 /\ DOMAIN u = 1..(n - 1)
      /\ \A i \in 1..(n - 1) : u[i] = ts[i + 1]
  OBVIOUS
<1>2. Count(u, "IDLE") = Count(ts, "IDLE")
  BY CountLess
<1>3. Count(ts, "DONE") = 0 => Count(u, "DONE") = 0
  <2>1. Head(ts) = "DONE" => Count(ts, "DONE") # 0
    BY <1>1, CountNat
  <2> QED
    BY <2>1, CountLess
<1> HIDE DEF u, n
<1>4. ts[n] = "IDLE" => u # <<>> /\ u[Len(u)] = "IDLE"
  <2>1. ASSUME ts[n] = "IDLE" PROVE u # <<>> /\ u[Len(u)] = "IDLE"
    <3>1. n # 1
      BY <1>1, <2>1
    <3>2. n - 1 \in 1..(n - 1) /\ (n - 1) + 1 = n
      BY <1>1, <3>1
    <3>3. u[n - 1] = "IDLE"
      BY <1>1, <2>1, <3>2
    <3> QED
      BY <1>1, <3>1, <3>3
  <2> QED
    BY <2>1
<1>5. ~ServerEndsIdle => \A i \in DOMAIN u : u[i] # "DONE"
  <2>1. ~ServerEndsIdle => \A i \in DOMAIN ts : ts[i] # "DONE"
    BY DEF Knows
  <2>2. \A i \in DOMAIN u : i + 1 \in DOMAIN ts /\ u[i] = ts[i + 1]
    BY <1>1
  <2> QED
    BY <2>1, <2>2
<1>6. Knows(p, u, "ready", tc2, rq)
  BY <1>2, <1>3, <1>4, <1>5 DEF Knows, n
<1> QED
  BY <1>6 DEF u

\* A word that counts for nothing, heard outside of IDLE.
LEMMA HearsOther ==
    ASSUME NEW k, NEW ts, NEW tc, NEW rq, Good(k, ts, "ready", tc, rq), ts # <<>>,
           Head(ts) \in {"SELECT", "DONE"}
    PROVE  Good(k, Tail(ts), "ready", tc, rq)
<1> DEFINE u == Tail(ts)
<1>1. /\ k \in Client /\ ts \in Seq(Written) /\ ServerFits(ts, "ready") /\ Handed(k, ts, "ready")
      /\ Knows(k.parserIdling, ts, "ready", tc, rq)
  BY DEF Good, Environment, Prot
<1>2. u \in Seq(Written) /\ ServerFits(u, "ready") /\ Handed(k, u, "ready")
  BY <1>1, TailFits
<1>3. /\ Count(u, "IDLE") = Count(ts, "IDLE") /\ Count(u, "TASK") = Count(ts, "TASK")
      /\ Count(u, "UID_FETCH") = Count(ts, "UID_FETCH")
  BY <1>1, CountLess
<1>4. Knows(k.parserIdling, u, "ready", tc, rq)
  BY <1>1, HearsKnows
<1> HIDE DEF u
<1>5. Balanced(k, u, "ready", tc, rq)
  BY <1>3 DEF Good, Prot, Balanced
<1>6. Good(k, u, "ready", tc, rq)
  BY <1>1, <1>2, <1>4, <1>5 DEF Good, Prot, Environment
<1> QED
  BY <1>6 DEF u

\* The server answers a command outside of IDLE.
LEMMA AnswerGood ==
    ASSUME NEW k, NEW ts, NEW tc, NEW rq, Good(k, ts, "ready", tc, rq), ts # <<>>,
           NEW z, \/ Head(ts) = "TASK" /\ z = "OK_TASK"
                  \/ Head(ts) = "UID_FETCH" /\ z = "OK_UID_FETCH"
    PROVE  Good(k, Tail(ts), "ready", Append(tc, z), rq)
<1> DEFINE u == Tail(ts)
           v == Append(tc, z)
           x == Head(ts)
<1>1. /\ k \in Client /\ ts \in Seq(Written) /\ ServerFits(ts, "ready") /\ Handed(k, ts, "ready")
      /\ Knows(k.parserIdling, ts, "ready", tc, rq) /\ tc \in Seq(Lines)
      /\ Balanced(k, ts, "ready", tc, rq) /\ InTurn("ready", tc)
  BY DEF Good, Environment, Prot
<1>1a. z \in Lines /\ z \in Lines \ {"+"} /\ v \in Seq(Lines)
  BY <1>1 DEF Lines
<1>2. u \in Seq(Written) /\ ServerFits(u, "ready") /\ Handed(k, u, "ready")
  BY <1>1, TailFits
<1>3. ASSUME NEW y, NEW w
      PROVE  /\ x # y => Count(u, y) = Count(ts, y)
             /\ x = y => Count(ts, y) = Count(u, y) + 1
             /\ z # w => Count(v, w) = Count(tc, w)
             /\ z = w => Count(v, w) = Count(tc, w) + 1
             /\ Count(u, y) \in Nat /\ Count(tc, w) \in Nat
             /\ Count(k.cmdQueue, y) \in Nat /\ Count(rq, w) \in Nat
  <2>1. /\ x # y => Count(u, y) = Count(ts, y)
        /\ x = y => Count(ts, y) = Count(u, y) + 1
    BY <1>1, CountLess
  <2>2. /\ z # w => Count(v, w) = Count(tc, w)
        /\ z = w => Count(v, w) = Count(tc, w) + 1
    BY <1>1, <1>1a, CountMore
  <2>3. Count(u, y) \in Nat
    BY <1>2, CountNat
  <2>4. Count(tc, w) \in Nat /\ Count(rq, w) \in Nat /\ Count(k.cmdQueue, y) \in Nat
    BY CountTypes
  <2> HIDE DEF u, v, x
  <2> QED
    BY <2>1, <2>2, <2>3, <2>4
<1>4. Knows(k.parserIdling, u, "ready", v, rq)
  <2>1. Count(v, "NO_IDLE") = Count(tc, "NO_IDLE") /\ x # "IDLE"
    BY <1>3
  <2> QED
    BY <1>1, <2>1, HearsKnows
<1>5. InTurn("ready", v)
  BY <1>1, <1>1a, InTurnSays
<1> HIDE DEF u, v, x
<1>6. ASSUME NEW y, NEW w, NEW m, x = y, z = w,
             Count(ts, y) + Count(k.cmdQueue, y) + Count(tc, w) + Count(rq, w) = m
      PROVE  Count(u, y) + Count(k.cmdQueue, y) + Count(v, w) + Count(rq, w) = m
  <2> DEFINE a == Count(ts, y)  b == Count(k.cmdQueue, y)
             d == Count(tc, w)  e == Count(rq, w)  f == Count(u, y)  g == Count(v, w)
  <2>1. a = f + 1 /\ g = d + 1 /\ b \in Nat /\ d \in Nat /\ e \in Nat /\ f \in Nat
    BY <1>3, <1>6
  <2>2. a + b + d + e = m
    BY <1>6
  <2> HIDE DEF a, b, d, e, f, g
  <2>3. f + b + g + e = m
    BY <2>1, <2>2
  <2> QED
    BY <2>3 DEF b, e, f, g
<1>7. Balanced(k, u, "ready", v, rq)
  <2>1. /\ Count(u, "IDLE") = Count(ts, "IDLE") /\ Count(v, "+") = Count(tc, "+")
        /\ Count(v, "OK_IDLE") = Count(tc, "OK_IDLE")
        /\ Count(v, "NO_IDLE") = Count(tc, "NO_IDLE")
    <3>1. x # "IDLE" /\ z # "+" /\ z # "OK_IDLE" /\ z # "NO_IDLE"
      BY DEF x
    <3> QED
      BY <1>3, <3>1
  <2>2. Count(u, "TASK") + Count(k.cmdQueue, "TASK")
        + Count(v, "OK_TASK") + Count(rq, "OK_TASK") = k.active
    <3>0. Count(ts, "TASK") + Count(k.cmdQueue, "TASK")
          + Count(tc, "OK_TASK") + Count(rq, "OK_TASK") = k.active
      BY <1>1 DEF Balanced
    <3>1. CASE x = "TASK"
      <4>1. z = "OK_TASK"
        BY <3>1 DEF x
      <4> QED
        BY <1>6, <3>0, <3>1, <4>1
    <3>2. CASE x # "TASK"
      <4>1. z # "OK_TASK"
        BY <3>2 DEF x
      <4>2. Count(u, "TASK") = Count(ts, "TASK") /\ Count(v, "OK_TASK") = Count(tc, "OK_TASK")
        BY <1>3, <3>2, <4>1
      <4> QED
        BY <3>0, <4>2
    <3> QED
      BY <3>1, <3>2
  <2>3. Count(u, "UID_FETCH") + Count(k.cmdQueue, "UID_FETCH")
        + Count(v, "OK_UID_FETCH") + Count(rq, "OK_UID_FETCH") = k.arrivals
    <3>0. Count(ts, "UID_FETCH") + Count(k.cmdQueue, "UID_FETCH")
          + Count(tc, "OK_UID_FETCH") + Count(rq, "OK_UID_FETCH") = k.arrivals
      BY <1>1 DEF Balanced
    <3>1. CASE x = "UID_FETCH"
      <4>1. z = "OK_UID_FETCH"
        BY <3>1 DEF x
      <4> QED
        BY <1>6, <3>0, <3>1, <4>1
    <3>2. CASE x # "UID_FETCH"
      <4>1. z # "OK_UID_FETCH"
        BY <3>2 DEF x
      <4>2. Count(u, "UID_FETCH") = Count(ts, "UID_FETCH")
            /\ Count(v, "OK_UID_FETCH") = Count(tc, "OK_UID_FETCH")
        BY <1>3, <3>2, <4>1
      <4> QED
        BY <3>0, <4>2
    <3> QED
      BY <3>1, <3>2
  <2> QED
    BY <1>1, <2>1, <2>2, <2>3 DEF Balanced
<1>8. Good(k, u, "ready", v, rq)
  BY <1>1, <1>1a, <1>2, <1>4, <1>5, <1>7 DEF Good, Prot, Environment
<1> QED
  BY <1>8 DEF u, v

\* The server hears IDLE: it idles and says so, or it refuses.
LEMMA HearsIdle ==
    ASSUME NEW k, NEW ts, NEW tc, NEW rq, Good(k, ts, "ready", tc, rq), ts # <<>>,
           Head(ts) = "IDLE"
    PROVE  /\ Good(k, Tail(ts), "idle", Append(tc, "+"), rq)
           /\ Good(k, Tail(ts), "ready", Append(tc, "NO_IDLE"), rq)
<1> DEFINE u == Tail(ts)
           v == Append(tc, "+")
           w == Append(tc, "NO_IDLE")
<1>1. /\ k \in Client /\ ts \in Seq(Written) /\ ServerFits(ts, "ready") /\ Handed(k, ts, "ready")
      /\ Shape(k) /\ tc \in Seq(Lines) /\ rq \in Seq(Lines \ {"+"}) /\ k.failed \notin Bad
      /\ Balanced(k, ts, "ready", tc, rq) /\ InTurn("ready", tc)
      /\ k.waitForInitialIdle \in BOOLEAN
  BY ClientFields DEF Good, Environment, Prot
<1>2. /\ u = <<>> /\ u \in Seq(Written)
      /\ ServerFits(u, "idle") /\ Handed(k, u, "idle")
      /\ ServerFits(u, "ready") /\ Handed(k, u, "ready")
  BY <1>1, TailFits
<1>3. /\ "+" \in Lines /\ "NO_IDLE" \in Lines /\ "NO_IDLE" \in Lines \ {"+"}
      /\ v \in Seq(Lines) /\ w \in Seq(Lines)
  BY <1>1 DEF Lines
<1>4. \A y : Count(u, y) = 0
  BY <1>2, CountNone
<1>5. /\ Count(ts, "TASK") = 0 /\ Count(ts, "UID_FETCH") = 0
      /\ Count(ts, "IDLE") = 1
  <2>1. Count(ts, "TASK") = 0 /\ Count(ts, "UID_FETCH") = 0
    BY <1>1, <1>4, CountLess
  <2>2. Count(ts, "IDLE") = Count(u, "IDLE") + 1
    BY <1>1, CountLess
  <2>3. Count(ts, "IDLE") = 0 + 1
    BY <1>4, <2>2
  <2> QED
    BY <2>1, <2>3
<1>6. /\ Count(k.cmdQueue, "IDLE") = 0 /\ Count(tc, "OK_IDLE") = 0 /\ Count(rq, "OK_IDLE") = 0
      /\ Count(tc, "NO_IDLE") = 0 /\ Count(rq, "NO_IDLE") = 0 /\ k.idleCommandRunning
  <2>1. Count(ts, "IDLE") # 0
    BY <1>5
  <2> QED
    BY <2>1, OnePlace
<1>7. Count(tc, "+") = 0 /\ k.waitForInitialIdle
  <2> DEFINE b == Count(tc, "+")
             n == One(k.waitForInitialIdle)
  <2>1. 1 + b + 0 + 0 = n
    BY <1>1, <1>5, <1>6 DEF Balanced
  <2>2. b \in Nat
    BY CountTypes
  <2>3. n \in 0..1 /\ (n # 0 => k.waitForInitialIdle)
    BY <1>1
  <2> HIDE DEF b, n
  <2>4. n # 0 /\ b = 0
    BY <2>1, <2>2, <2>3
  <2> QED
    BY <2>3, <2>4 DEF b
<1>8. k.parserIdling
  BY <1>1, <1>7 DEF Shape
<1>9. /\ Count(v, "OK_IDLE") = 0 /\ Count(v, "NO_IDLE") = 0
      /\ Count(v, "OK_TASK") = Count(tc, "OK_TASK")
      /\ Count(v, "OK_UID_FETCH") = Count(tc, "OK_UID_FETCH")
      /\ Count(v, "+") = 1
  <2>1. Count(v, "+") = 0 + 1
    BY <1>1, <1>3, <1>7, CountMore
  <2> QED
    BY <1>1, <1>3, <1>6, <2>1, CountMore
<1>10. /\ Count(w, "OK_IDLE") = 0 /\ Count(w, "+") = 0
       /\ Count(w, "OK_TASK") = Count(tc, "OK_TASK")
       /\ Count(w, "OK_UID_FETCH") = Count(tc, "OK_UID_FETCH")
       /\ Count(w, "NO_IDLE") = 1
  <2>1. Count(w, "NO_IDLE") = 0 + 1
    BY <1>1, <1>3, <1>6, CountMore
  <2> QED
    BY <1>1, <1>3, <1>6, <1>7, <2>1, CountMore
<1>11. /\ Count(u, "IDLE") = 0 /\ Count(u, "DONE") = 0 /\ Count(u, "TASK") = Count(ts, "TASK")
       /\ Count(u, "UID_FETCH") = Count(ts, "UID_FETCH") /\ DOMAIN u = {}
  BY <1>2, <1>4, <1>5
<1> HIDE DEF u, v, w
<1>12. Balanced(k, u, "idle", v, rq)
  <2>1. 0 + 0 + 1 + 0 + 0 + 0 + 0 = 1 /\ 0 + 1 + 0 + 0 = 1
    OBVIOUS
  <2>2. One("idle" = "idle") = 1 /\ One(k.idleCommandRunning) = 1 /\ One(k.waitForInitialIdle) = 1
    BY <1>6, <1>7
  <2>3. Count(u, "IDLE") + Count(k.cmdQueue, "IDLE") + One("idle" = "idle")
        + Count(v, "OK_IDLE") + Count(rq, "OK_IDLE")
        + Count(v, "NO_IDLE") + Count(rq, "NO_IDLE") = One(k.idleCommandRunning)
    BY <1>6, <1>9, <1>11, <2>1, <2>2
  <2>4. Count(u, "IDLE") + Count(v, "+") + Count(v, "NO_IDLE") + Count(rq, "NO_IDLE")
        = One(k.waitForInitialIdle)
    BY <1>6, <1>9, <1>11, <2>1, <2>2
  <2> QED
    BY <1>1, <1>9, <1>11, <2>3, <2>4 DEF Balanced
<1>13. Balanced(k, u, "ready", w, rq)
  <2>1. 0 + 0 + 0 + 0 + 0 + 1 + 0 = 1 /\ 0 + 0 + 1 + 0 = 1
    OBVIOUS
  <2>2. One("ready" = "idle") = 0 /\ One(k.idleCommandRunning) = 1 /\ One(k.waitForInitialIdle) = 1
    BY <1>6, <1>7
  <2>3. Count(u, "IDLE") + Count(k.cmdQueue, "IDLE") + One("ready" = "idle")
        + Count(w, "OK_IDLE") + Count(rq, "OK_IDLE")
        + Count(w, "NO_IDLE") + Count(rq, "NO_IDLE") = One(k.idleCommandRunning)
    BY <1>6, <1>10, <1>11, <2>1, <2>2
  <2>4. Count(u, "IDLE") + Count(w, "+") + Count(w, "NO_IDLE") + Count(rq, "NO_IDLE")
        = One(k.waitForInitialIdle)
    BY <1>6, <1>10, <1>11, <2>1, <2>2
  <2> QED
    BY <1>1, <1>10, <1>11, <2>3, <2>4 DEF Balanced
<1>14. Knows(k.parserIdling, u, "idle", v, rq) /\ Knows(k.parserIdling, u, "ready", w, rq)
  BY <1>8, <1>10, <1>11 DEF Knows
<1>15. InTurn("idle", v) /\ InTurn("ready", w)
  <2>1. (\A j \in DOMAIN v : v[j] # "OK_IDLE") /\ (\A i \in DOMAIN w : w[i] # "+")
    BY <1>3, <1>9, <1>10, CountNat
  <2> QED
    BY <1>10, <2>1 DEF InTurn
<1>16. Good(k, u, "idle", v, rq) /\ Good(k, u, "ready", w, rq)
  BY <1>1, <1>2, <1>3, <1>12, <1>13, <1>14, <1>15 DEF Good, Prot, Environment
<1> QED
  BY <1>16 DEF u, v, w

\* IDLE ends, because of DONE or by itself: its answer takes the server's place.
LEMMA EndsIdle ==
    ASSUME NEW k, NEW ts, NEW tc, NEW rq, Good(k, ts, "idle", tc, rq),
           NEW u, \/ ts # <<>> /\ Head(ts) = "DONE" /\ u = Tail(ts)
                  \/ ServerEndsIdle /\ u = ts
    PROVE  Good(k, u, "ready", Append(tc, "OK_IDLE"), rq)
<1> DEFINE v == Append(tc, "OK_IDLE")
<1>1. /\ k \in Client /\ ts \in Seq(Written) /\ ServerFits(ts, "idle") /\ Handed(k, ts, "idle")
      /\ Shape(k) /\ tc \in Seq(Lines) /\ rq \in Seq(Lines \ {"+"}) /\ k.failed \notin Bad
      /\ Balanced(k, ts, "idle", tc, rq) /\ InTurn("idle", tc)
      /\ Knows(k.parserIdling, ts, "idle", tc, rq)
  BY DEF Good, Environment, Prot
<1>2. u \in Seq(Written) /\ ServerFits(u, "ready") /\ Handed(k, u, "ready")
  <2>1. CASE ts # <<>> /\ Head(ts) = "DONE" /\ u = Tail(ts)
    BY <1>1, <2>1, TailFits
  <2>2. CASE u = ts
    <3>1. ServerFits(ts, "ready") /\ Handed(k, ts, "ready")
      BY <1>1 DEF ServerFits, Handed
    <3> QED
      BY <1>1, <2>2, <3>1
  <2> QED
    BY <2>1, <2>2
<1>3. "OK_IDLE" \in Lines /\ "OK_IDLE" \in Lines \ {"+"} /\ v \in Seq(Lines)
  BY <1>1 DEF Lines
<1>4. /\ Count(u, "IDLE") = Count(ts, "IDLE") /\ Count(u, "TASK") = Count(ts, "TASK")
      /\ Count(u, "UID_FETCH") = Count(ts, "UID_FETCH")
  BY <1>1, CountLess
<1>5. /\ Count(ts, "IDLE") = 0 /\ Count(k.cmdQueue, "IDLE") = 0
      /\ Count(tc, "OK_IDLE") = 0 /\ Count(rq, "OK_IDLE") = 0
      /\ Count(tc, "NO_IDLE") = 0 /\ Count(rq, "NO_IDLE") = 0 /\ k.idleCommandRunning
  BY OnePlace
<1>6. /\ Count(v, "+") = Count(tc, "+") /\ Count(v, "NO_IDLE") = 0
      /\ Count(v, "OK_TASK") = Count(tc, "OK_TASK")
      /\ Count(v, "OK_UID_FETCH") = Count(tc, "OK_UID_FETCH")
      /\ Count(v, "OK_IDLE") = 1
  <2>1. Count(v, "OK_IDLE") = 0 + 1
    BY <1>1, <1>3, <1>5, CountMore
  <2> QED
    BY <1>1, <1>3, <1>5, <2>1, CountMore
<1>7. InTurn("ready", v)
  BY <1>1, <1>3, InTurnSays
<1> HIDE DEF v
<1>8. Balanced(k, u, "ready", v, rq)
  <2>1. 0 + 0 + 0 + 1 + 0 + 0 + 0 = 1
    OBVIOUS
  <2>2. One("ready" = "idle") = 0 /\ One(k.idleCommandRunning) = 1
    BY <1>5
  <2>3. Count(u, "IDLE") + Count(k.cmdQueue, "IDLE") + One("ready" = "idle")
        + Count(v, "OK_IDLE") + Count(rq, "OK_IDLE")
        + Count(v, "NO_IDLE") + Count(rq, "NO_IDLE") = One(k.idleCommandRunning)
    BY <1>4, <1>5, <1>6, <2>1, <2>2
  <2> QED
    BY <1>1, <1>4, <1>5, <1>6, <2>3 DEF Balanced
<1>9. Knows(k.parserIdling, u, "ready", v, rq)
  <2>1. CASE ts # <<>> /\ Head(ts) = "DONE" /\ u = Tail(ts)
    <3>1. /\ Len(ts) \in Nat /\ Len(ts) >= 1 /\ DOMAIN ts = 1..Len(ts) /\ ts[1] = "DONE"
          /\ DOMAIN u = 1..(Len(ts) - 1) /\ \A i \in 1..(Len(ts) - 1) : u[i] = ts[i + 1]
      BY <1>1, <2>1
    <3>2. 1 \in DOMAIN ts /\ Len(ts) \in DOMAIN ts
      BY <3>1
    <3>3. Count(ts, "DONE") # 0 /\ ts[Len(ts)] # "IDLE"
      BY <1>1, <1>5, <3>1, <3>2, CountNat
    <3>4. ~k.parserIdling
      BY <1>1, <3>3 DEF Knows
    <3>5. ~ServerEndsIdle => \A i \in DOMAIN u : u[i] # "DONE"
      <4>1. \A i \in DOMAIN u : i + 1 \in DOMAIN ts /\ i + 1 # 1 /\ u[i] = ts[i + 1]
        BY <3>1
      <4> QED
        BY <1>1, <4>1 DEF Knows
    <3> QED
      BY <3>4, <3>5 DEF Knows
  <2>2. CASE ServerEndsIdle /\ u = ts
    BY <1>1, <2>2 DEF Knows
  <2> QED
    BY <2>1, <2>2
<1>10. Good(k, u, "ready", v, rq)
  BY <1>1, <1>2, <1>3, <1>7, <1>8, <1>9 DEF Good, Prot, Environment
<1> QED
  BY <1>10 DEF v

\* A step of the server, whether the client still reads or not.
LEMMA ServerStep ==
    ASSUME IInv, UNCHANGED <<c, respQueue, requests>>, exists' \in 0..MaxExists,
           toServer' \in Seq(Written), ServerFits(toServer', server'),
           server' \in {"ready", "idle"}, Handed(c, toServer', server'),
           toClient' \in Seq(Lines),
           Good(c, toServer, server, toClient, respQueue)
              => Good(c, toServer', server', toClient', respQueue)
    PROVE  IInv'
<1>1. TypeOK'
  BY DEF IInv, TypeOK, Written
<1>2. (Alive => Prot(c, toServer, server, toClient, respQueue))'
  BY IInvGood DEF Alive, Good
<1> QED
  BY <1>1, <1>2 DEF IInv

\* The server obeys: it is never confused, because the first word it hears in the
\* middle of an IDLE is DONE.
LEMMA ServerActsKeeps == ASSUME IInv, ServerActs PROVE IInv'
<1>1. /\ c \in Client /\ toServer \in Seq(Written) /\ toClient \in Seq(Lines)
      /\ ServerFits(toServer, server) /\ Handed(c, toServer, server)
      /\ server \in {"ready", "idle"} /\ exists \in 0..MaxExists
  BY DEF IInv, TypeOK, Written, ServerFits
<1>2. /\ UNCHANGED <<c, respQueue, requests, exists>> /\ exists' \in 0..MaxExists
      /\ UNCHANGED <<c, respQueue, requests>>
  BY <1>1 DEF ServerActs
<1>3. \A x \in Lines, y \in Lines :
        /\ toClient \o <<x>> = Append(toClient, x) /\ Append(toClient, x) \in Seq(Lines)
        /\ toClient \o <<x, y>> = Append(Append(toClient, x), y)
        /\ Append(Append(toClient, x), y) \in Seq(Lines)
  BY <1>1
<1>3a. {"+", "NO_IDLE", "OK_IDLE", "BAD", "OK_TASK", "FETCH", "OK_UID_FETCH"} \subseteq Lines
  BY DEF Lines
<1>4. CASE Idle
  <2>1. /\ toServer # <<>> /\ Head(toServer) = "IDLE" /\ toServer' = Tail(toServer)
        /\ server = "ready"
        /\ \/ toClient' = Append(toClient, "+") /\ server' = "idle"
           \/ toClient' = Append(toClient, "NO_IDLE") /\ server' = "ready"
    BY <1>3, <1>3a, <1>4 DEF Idle, Hears, Says
  <2>2. toServer' \in Seq(Written) /\ ServerFits(toServer', server') /\ Handed(c, toServer', server')
    BY <1>1, <2>1, TailFits
  <2>3. Good(c, toServer, server, toClient, respQueue)
          => Good(c, toServer', server', toClient', respQueue)
    BY <2>1, HearsIdle
  <2>4. toClient' \in Seq(Lines) /\ server' \in {"ready", "idle"}
    BY <1>3, <1>3a, <2>1
  <2> QED
    BY <1>2, <2>2, <2>3, <2>4, ServerStep
<1>5. CASE Done
  <2>1. /\ toServer # <<>> /\ Head(toServer) = "DONE" /\ toServer' = Tail(toServer)
        /\ server' = "ready"
        /\ \/ toClient' = Append(toClient, "OK_IDLE") /\ server = "idle"
           \/ toClient' = Append(toClient, "BAD") /\ server = "ready"
    BY <1>1, <1>3, <1>3a, <1>5 DEF Done, Hears, Says
  <2>2. toServer' \in Seq(Written) /\ ServerFits(toServer', server') /\ Handed(c, toServer', server')
    BY <1>1, <2>1, TailFits
  <2>3. Good(c, toServer, server, toClient, respQueue)
          => Good(c, toServer', server', toClient', respQueue)
    BY <2>1, EndsIdle, HearsOther, SaysOther
  <2>4. toClient' \in Seq(Lines) /\ server' \in {"ready", "idle"}
    BY <1>3, <1>3a, <2>1
  <2> QED
    BY <1>2, <2>2, <2>3, <2>4, ServerStep
<1>6. CASE Answer
  <2>1. ASSUME toServer # <<>>, Head(toServer) \in Commands \cup {"IDLE"} PROVE server = "ready"
    <3>1. Head(toServer) = toServer[1] /\ Head(toServer) # "DONE"
      BY <1>1, <2>1 DEF Commands
    <3> QED
      BY <1>1, <2>1, <3>1 DEF ServerFits
  <2>2. /\ toServer # <<>> /\ toServer' = Tail(toServer)
        /\ server = "ready" /\ server' = "ready"
        /\ \/ Head(toServer) = "TASK" /\ toClient' = Append(toClient, "OK_TASK")
           \/ Head(toServer) = "UID_FETCH" /\ toClient' = Append(toClient, "OK_UID_FETCH")
           \/ /\ Head(toServer) = "UID_FETCH"
              /\ toClient' = Append(Append(toClient, "FETCH"), "OK_UID_FETCH")
           \/ Head(toServer) = "SELECT" /\ toClient' = toClient
    <3>1. ~(\E command \in Commands \cup {"IDLE"} : Hears(command) /\ server = "idle")
      BY <2>1 DEF Hears
    <3> QED
      BY <1>3, <1>3a, <1>6, <3>1 DEF Answer, Hears, Says
  <2>3. toServer' \in Seq(Written) /\ ServerFits(toServer', server') /\ Handed(c, toServer', server')
    BY <1>1, <2>2, TailFits
  <2>4. ASSUME Good(c, toServer, "ready", toClient, respQueue)
        PROVE  Good(c, toServer', "ready", toClient', respQueue)
    <3>1. CASE Head(toServer) = "TASK" /\ toClient' = Append(toClient, "OK_TASK")
      BY <2>2, <2>4, <3>1, AnswerGood
    <3>2. CASE Head(toServer) = "UID_FETCH" /\ toClient' = Append(toClient, "OK_UID_FETCH")
      BY <2>2, <2>4, <3>2, AnswerGood
    <3>3. CASE /\ Head(toServer) = "UID_FETCH"
               /\ toClient' = Append(Append(toClient, "FETCH"), "OK_UID_FETCH")
      <4>1. Good(c, toServer, "ready", Append(toClient, "FETCH"), respQueue)
        BY <2>4, SaysOther
      <4> QED
        BY <2>2, <3>3, <4>1, AnswerGood
    <3>4. CASE Head(toServer) = "SELECT" /\ toClient' = toClient
      BY <2>2, <2>4, <3>4, HearsOther
    <3> QED
      BY <2>2, <3>1, <3>2, <3>3, <3>4
  <2>5. toClient' \in Seq(Lines) /\ server' \in {"ready", "idle"}
    BY <1>1, <1>3, <1>3a, <2>2
  <2> QED
    BY <1>2, <2>2, <2>3, <2>4, <2>5, ServerStep
<1> QED
  BY <1>4, <1>5, <1>6 DEF ServerActs

\* The server ends IDLE by itself.
LEMMA ServerEndsKeeps == ASSUME IInv, ServerEnds PROVE IInv'
<1>1. /\ c \in Client /\ toServer \in Seq(Written) /\ toClient \in Seq(Lines)
      /\ ServerFits(toServer, server) /\ Handed(c, toServer, server) /\ exists \in 0..MaxExists
  BY DEF IInv, TypeOK, Written, ServerFits
<1>2. /\ UNCHANGED <<c, respQueue, requests>> /\ exists' \in 0..MaxExists
      /\ toServer' = toServer /\ ServerEndsIdle /\ server = "idle" /\ server' = "ready"
  BY <1>1 DEF ServerEnds, EndIdle
<1>3. toClient' = Append(toClient, "OK_IDLE") /\ toClient' \in Seq(Lines)
  <2>1. "OK_IDLE" \in Lines
    BY DEF Lines
  <2> QED
    BY <1>1, <2>1 DEF ServerEnds, EndIdle, Says
<1>4. ServerFits(toServer', server') /\ Handed(c, toServer', server')
  BY <1>1, <1>2 DEF ServerFits, Handed
<1>5. Good(c, toServer, server, toClient, respQueue)
        => Good(c, toServer', server', toClient', respQueue)
  BY <1>2, <1>3, EndsIdle
<1> QED
  BY <1>1, <1>2, <1>3, <1>4, <1>5, ServerStep

\* The server announces messages, at any time.
LEMMA NewMessagesKeeps == ASSUME IInv, NewMessages PROVE IInv'
<1>1. /\ c \in Client /\ toServer \in Seq(Written) /\ toClient \in Seq(Lines)
      /\ ServerFits(toServer, server) /\ Handed(c, toServer, server) /\ exists \in 0..MaxExists
      /\ server \in {"ready", "idle"}
  BY DEF IInv, TypeOK, Written, ServerFits
<1>2. UNCHANGED <<c, respQueue, requests>> /\ UNCHANGED <<toServer, server>>
  BY DEF NewMessages
<1>3. exists' \in 0..MaxExists
  <2>1. exists < MaxExists /\ exists' = exists + 1 /\ MaxExists \in Nat
    BY BoundAssumption DEF NewMessages
  <2> QED
    BY <1>1, <2>1
<1>4. toClient' = Append(toClient, "EXISTS") /\ toClient' \in Seq(Lines)
  <2>1. "EXISTS" \in Lines
    BY DEF Lines
  <2> QED
    BY <1>1, <2>1 DEF NewMessages, Says
<1>5. Good(c, toServer, server, toClient, respQueue)
        => Good(c, toServer', server', toClient', respQueue)
  BY <1>2, <1>4, SaysOther
<1>6. toServer' \in Seq(Written) /\ ServerFits(toServer', server') /\ Handed(c, toServer', server')
      /\ server' \in {"ready", "idle"}
  BY <1>1, <1>2
<1> QED
  BY <1>2, <1>3, <1>4, <1>5, <1>6, ServerStep

----------------------------------------------------------------------------
(* The theorems. *)

\* Just after perform(), nothing is under way.
LEMMA InitIInv == Init => IInv
<1> SUFFICES ASSUME Init PROVE IInv
  OBVIOUS
<1>1. c \in Client
  <2>1. <<>> \in Seq(Commands \cup {"IDLE", "DONE"}) /\ <<>> \in Seq({"slotActivateTasks", "terminate"})
    OBVIOUS
  <2> QED
    BY <2>1 DEF Init, Client, Failures
<1>2. TypeOK
  <2>1. <<>> \in Seq(Commands \cup {"IDLE", "DONE"}) /\ <<>> \in Seq(Lines) /\ <<>> \in Seq(Lines \ {"+"})
    OBVIOUS
  <2>2. 0 \in 0..MaxRequests /\ 0 \in 0..MaxExists
    BY BoundAssumption
  <2> QED
    BY <1>1, <2>1, <2>2 DEF Init, TypeOK
<1>3. DOMAIN <<>> = {}
  OBVIOUS
<1>4. ServerFits(toServer, server)
  BY <1>3 DEF Init, ServerFits
<1>5. Handed(c, toServer, server)
  BY CountNone DEF Init, Handed
<1>6. Shape(c)
  BY <1>3 DEF Init, Shape, Fits, EndsIdling, Has
<1>7. Balanced(c, toServer, server, toClient, respQueue)
  <2>1. 0 + 0 + 0 + 0 + 0 + 0 + 0 = 0 /\ 0 + 0 + 0 + 0 = 0
    OBVIOUS
  <2>2. \A x : Count(toServer, x) = 0 /\ Count(toClient, x) = 0 /\ Count(respQueue, x) = 0
               /\ Count(c.cmdQueue, x) = 0
    BY CountNone DEF Init
  <2>3. /\ One(server = "idle") = 0 /\ One(c.idleCommandRunning) = 0
        /\ One(c.waitForInitialIdle) = 0 /\ c.active = 0 /\ c.arrivals = 0
    BY DEF Init
  <2> QED
    BY <2>1, <2>2, <2>3 DEF Balanced
<1>8. Knows(c.parserIdling, toServer, server, toClient, respQueue) /\ InTurn(server, toClient)
  BY <1>3, CountNone DEF Init, Knows, InTurn
<1>9. c.failed \notin Bad
  BY DEF Init, Bad
<1> QED
  BY <1>2, <1>4, <1>5, <1>6, <1>7, <1>8, <1>9 DEF IInv, Prot

\* Each step keeps the inductive invariant.
LEMMA NextIInv == IInv /\ [Next]_vars => IInv'
<1> SUFFICES ASSUME IInv, [Next]_vars PROVE IInv'
  OBVIOUS
<1>1. CASE UNCHANGED vars
  BY <1>1 DEF IInv, Alive, TypeOK, vars
<1>2. CASE Request
  BY <1>2, RequestKeeps
<1>3. CASE OtherMailbox
  BY <1>3, OtherMailboxKeeps
<1>4. CASE EventLoop
  <2>1. CASE Posted
    BY <2>1, PostedKeeps
  <2>2. CASE FetchTimer
    BY <2>2, FetchTimerKeeps
  <2>3. CASE TaskDestroyed
    BY <2>3, TaskDestroyedKeeps
  <2>4. CASE ExecuteCommands
    BY <2>4, ExecuteCommandsKeeps
  <2>5. CASE ReadLine
    BY <2>5, ReadLineKeeps
  <2>6. CASE HandleResponse
    BY <2>6, HandleResponseKeeps
  <2> QED
    BY <1>4, <2>1, <2>2, <2>3, <2>4, <2>5, <2>6 DEF EventLoop
<1>5. CASE DelayedEnter
  BY <1>5, DelayedEnterKeeps
<1>6. CASE Renewal
  BY <1>6, RenewalKeeps
<1>7. CASE ServerActs
  BY <1>7, ServerActsKeeps
<1>8. CASE ServerEnds
  BY <1>8, ServerEndsKeeps
<1>9. CASE NewMessages
  BY <1>9, NewMessagesKeeps
<1> QED
  BY <1>1, <1>2, <1>3, <1>4, <1>5, <1>6, <1>7, <1>8, <1>9 DEF Next

\* The inductive invariant holds in every reachable state.
THEOREM Inductive == Spec => []IInv
BY InitIInv, NextIInv, PTL DEF Spec

\* IDLE in order: no assertion of the Parser or of the IdleLauncher fails, and the
\* server never hears anything but DONE in the middle of an IDLE.
THEOREM IdleInOrderHolds == Spec => []IdleInOrder
<1>1. IInv => IdleInOrder
  BY DEF IInv, IdleInOrder, ServerFits, Bad
<1> QED
  BY <1>1, Inductive, PTL

\* The places of a word in what is sent and about to be sent.
LEMMA InSent ==
    ASSUME NEW ts \in Seq(Written), NEW q \in Seq(Written)
    PROVE  /\ Len(ts) \in Nat /\ Len(q) \in Nat /\ Len(ts \o q) = Len(ts) + Len(q)
           /\ DOMAIN (ts \o q) = 1..(Len(ts) + Len(q))
           /\ \A i \in 1..Len(ts) : i \in DOMAIN (ts \o q) /\ (ts \o q)[i] = ts[i]
           /\ \A i \in 1..Len(q) : /\ Len(ts) + i \in DOMAIN (ts \o q)
                                   /\ (ts \o q)[Len(ts) + i] = q[i]
           /\ \A i \in DOMAIN (ts \o q) : \/ i \in 1..Len(ts)
                                          \/ i - Len(ts) \in 1..Len(q) /\ Len(ts) + (i - Len(ts)) = i
<1>1. /\ Len(ts) \in Nat /\ Len(q) \in Nat
      /\ ts \o q \in Seq(Written) /\ Len(ts \o q) = Len(ts) + Len(q)
      /\ \A i \in 1..(Len(ts) + Len(q)) :
           (ts \o q)[i] = IF i <= Len(ts) THEN ts[i] ELSE q[i - Len(ts)]
  <2>1. Len(ts) \in Nat /\ Len(q) \in Nat
    OBVIOUS
  <2> QED
    BY <2>1, ConcatWritten
<1> DEFINE m == Len(ts)  n == Len(q)  r == ts \o q
<1>2. DOMAIN r = 1..(m + n)
  BY <1>1
<1> HIDE DEF m, n, r
<1>3. ASSUME NEW i \in 1..m PROVE i \in DOMAIN r /\ r[i] = ts[i]
  <2>1. i \in 1..(m + n) /\ i <= m
    BY <1>1 DEF m, n
  <2> QED
    BY <1>1, <1>2, <2>1 DEF m, n, r
<1>4. ASSUME NEW i \in 1..n PROVE m + i \in DOMAIN r /\ r[m + i] = q[i]
  <2>1. m + i \in 1..(m + n) /\ ~(m + i <= m) /\ (m + i) - m = i
    BY <1>1 DEF m, n
  <2> QED
    BY <1>1, <1>2, <2>1 DEF m, n, r
<1>5. ASSUME NEW i \in DOMAIN r PROVE i \in 1..m \/ (i - m \in 1..n /\ m + (i - m) = i)
  BY <1>1, <1>2 DEF m, n
<1> QED
  BY <1>1, <1>2, <1>3, <1>4, <1>5 DEF m, n, r

\* Whether a word is among them, in numbers.
LEMMA HasSent ==
    ASSUME NEW ts \in Seq(Written), NEW q \in Seq(Written), NEW x
    PROVE  Has(ts \o q, x) <=> Count(ts, x) # 0 \/ Count(q, x) # 0
<1>1. Count(ts, x) # 0 <=> \E i \in 1..Len(ts) : ts[i] = x
  BY CountNat
<1>2. Count(q, x) # 0 <=> \E i \in 1..Len(q) : q[i] = x
  BY CountNat
<1>3. ASSUME Has(ts \o q, x) PROVE Count(ts, x) # 0 \/ Count(q, x) # 0
  <2>1. PICK i \in DOMAIN (ts \o q) : (ts \o q)[i] = x
    BY <1>3 DEF Has
  <2>2. i \in 1..Len(ts) \/ (i - Len(ts) \in 1..Len(q) /\ Len(ts) + (i - Len(ts)) = i)
    BY InSent
  <2>3. CASE i \in 1..Len(ts)
    BY <1>1, <2>1, <2>3, InSent
  <2>4. CASE i - Len(ts) \in 1..Len(q) /\ Len(ts) + (i - Len(ts)) = i
    <3>1. (ts \o q)[Len(ts) + (i - Len(ts))] = q[i - Len(ts)]
      BY <2>4, InSent
    <3> QED
      BY <1>2, <2>1, <2>4, <3>1
  <2> QED
    BY <2>2, <2>3, <2>4
<1>4. ASSUME Count(ts, x) # 0 PROVE Has(ts \o q, x)
  BY <1>1, <1>4, InSent DEF Has
<1>5. ASSUME Count(q, x) # 0 PROVE Has(ts \o q, x)
  <2>1. PICK i \in 1..Len(q) : q[i] = x
    BY <1>2, <1>5
  <2>2. Len(ts) + i \in DOMAIN (ts \o q) /\ (ts \o q)[Len(ts) + i] = q[i]
    BY InSent
  <2> QED
    BY <2>1, <2>2 DEF Has
<1> QED
  BY <1>3, <1>4, <1>5

\* The mailbox is handed over cleanly: nothing of IDLE is left and SELECT is the last
\* thing that is sent.
THEOREM CleanHandOverHolds == Spec => []CleanHandOver
<1>1. IInv => CleanHandOver
  <2> SUFFICES ASSUME IInv, c.over PROVE CleanHandOver
    BY DEF CleanHandOver
  <2>1. toServer \in Seq(Written) /\ c.cmdQueue \in Seq(Written)
    BY ClientFields DEF IInv, TypeOK, Written
  <2>2. /\ server # "idle" /\ Count(toServer, "IDLE") = 0 /\ Count(c.cmdQueue, "IDLE") = 0
        /\ ServerEndsIdle \/ (Count(toServer, "DONE") = 0 /\ Count(c.cmdQueue, "DONE") = 0)
        /\ \A i \in DOMAIN Sent : Sent[i] = "SELECT" => i = Len(Sent)
    BY DEF IInv, Handed, Sent
  <2>3. ~Has(Sent, "IDLE") /\ (ServerEndsIdle \/ ~Has(Sent, "DONE"))
    BY <2>1, <2>2, HasSent DEF Sent
  <2> QED
    BY <2>2, <2>3 DEF CleanHandOver
<1> QED
  BY <1>1, Inductive, PTL

\* ... and the same of the lines that are coming.
LEMMA HasComing ==
    ASSUME NEW rq \in Seq(Lines), NEW tc \in Seq(Lines), NEW x,
           Count(rq, x) # 0 \/ Count(tc, x) # 0
    PROVE  Has(rq \o tc, x)
<1>1. Count(rq \o tc, x) = Count(rq, x) + Count(tc, x) /\ rq \o tc \in Seq(Lines)
  BY CountConcat
<1> DEFINE a == Count(rq, x)  b == Count(tc, x)
<1>2. a \in Nat /\ b \in Nat /\ (a # 0 \/ b # 0)
  BY CountNat
<1>3. Count(rq \o tc, x) = a + b
  BY <1>1
<1> HIDE DEF a, b
<1>4. a + b # 0
  BY <1>2
<1>5. Count(rq \o tc, x) # 0
  BY <1>3, <1>4
<1> QED
  BY <1>1, <1>5, CountNat DEF Has

\* The launcher and the server agree as soon as what is under way has arrived.
THEOREM LauncherKnowsHolds == Spec => []LauncherKnows
<1>1. IInv => LauncherKnows
  <2> SUFFICES ASSUME IInv, Alive PROVE LauncherKnows
    BY DEF LauncherKnows
  <2> DEFINE q == c.cmdQueue
             p == c.parserIdling
             n == Len(Sent)
             words == {i \in DOMAIN Sent : Sent[i] \in {"IDLE", "DONE"}}
  <2>1. /\ Good(c, toServer, server, toClient, respQueue) /\ c \in Client
        /\ toServer \in Seq(Written) /\ q \in Seq(Written)
        /\ toClient \in Seq(Lines) /\ respQueue \in Seq(Lines)
        /\ Shape(c) /\ Balanced(c, toServer, server, toClient, respQueue)
        /\ Knows(p, toServer, server, toClient, respQueue) /\ ServerFits(toServer, server)
    <3>1. Good(c, toServer, server, toClient, respQueue) /\ c \in Client
      BY IInvGood DEF Good
    <3>2. respQueue \in Seq(Lines \ {"+"})
      BY <3>1 DEF Good, Environment
    <3>3. respQueue \in Seq(Lines)
      BY <3>2
    <3> QED
      BY <3>1, <3>3, ClientFields DEF Good, Environment, Prot
  <2>2. LastIdleWord = IF words = {} THEN "none"
                       ELSE Sent[CHOOSE i \in words : \A j \in words : j <= i]
    BY DEF LastIdleWord
  <2>3. /\ Len(toServer) \in Nat /\ Len(q) \in Nat /\ n = Len(toServer) + Len(q)
        /\ DOMAIN Sent = 1..n
        /\ \A i \in 1..Len(toServer) : Sent[i] = toServer[i]
        /\ \A i \in 1..Len(q) : Sent[Len(toServer) + i] = q[i]
    BY <2>1, InSent DEF Sent
  <2>4. ASSUME n \in DOMAIN Sent, Sent[n] = "IDLE" PROVE LastIdleWord = "IDLE"
    <3>1. n \in words /\ \A j \in words : j <= n
      BY <2>3, <2>4
    <3>2. \A i \in words : (\A j \in words : j <= i) => i = n
      BY <2>3, <3>1
    <3> HIDE DEF words, n
    <3>3. (CHOOSE i \in words : \A j \in words : j <= i) = n
      BY <3>1, <3>2
    <3> QED
      BY <2>2, <2>4, <3>1, <3>3
  <2>5. ASSUME c.idling
        PROVE  \/ LastIdleWord = "IDLE"
               \/ /\ LastIdleWord = "none"
                  /\ server = "idle" \/ Has(Coming, "OK_IDLE") \/ Has(Coming, "NO_IDLE")
    <3>1. EndsIdling(p, q)
      BY <2>1, <2>5 DEF Shape
    <3>2. CASE q # <<>>
      <4>1. Len(q) \in 1..Len(q) /\ n \in 1..n /\ q[Len(q)] = "IDLE"
        BY <2>3, <3>1, <3>2 DEF EndsIdling
      <4>2. Sent[n] = "IDLE"
        BY <2>3, <4>1
      <4> QED
        BY <2>3, <2>4, <4>1, <4>2
    <3>3. CASE q = <<>> /\ toServer # <<>> /\ toServer[Len(toServer)] = "IDLE"
      <4>1. Len(toServer) \in 1..Len(toServer) /\ n = Len(toServer) /\ n \in 1..n
        BY <2>3, <3>3
      <4>2. Sent[n] = "IDLE"
        BY <2>3, <3>3, <4>1
      <4> QED
        BY <2>3, <2>4, <4>1, <4>2
    <3>4. CASE q = <<>> /\ Count(toServer, "IDLE") = 0 /\ Count(toServer, "DONE") = 0
      <4>1. Count(q, "IDLE") = 0 /\ Count(q, "DONE") = 0
        BY <3>4, CountNone
      <4>2. ~Has(Sent, "IDLE") /\ ~Has(Sent, "DONE")
        BY <2>1, <3>4, <4>1, HasSent DEF Sent
      <4>3. LastIdleWord = "none"
        BY <2>2, <4>2 DEF Has
      <4>4. c.idleCommandRunning
        BY <2>1, <2>5 DEF Shape
      <4>5. \/ server = "idle"
            \/ Count(toClient, "OK_IDLE") # 0 \/ Count(respQueue, "OK_IDLE") # 0
            \/ Count(toClient, "NO_IDLE") # 0 \/ Count(respQueue, "NO_IDLE") # 0
        <5>1. 0 + 0 + 0 + 0 + 0 + 0 + 0 = 0
          OBVIOUS
        <5>2. One(c.idleCommandRunning) = 1 /\ (server # "idle" => One(server = "idle") = 0)
          BY <4>4
        <5>3. Count(toServer, "IDLE") + Count(q, "IDLE") + One(server = "idle")
              + Count(toClient, "OK_IDLE") + Count(respQueue, "OK_IDLE")
              + Count(toClient, "NO_IDLE") + Count(respQueue, "NO_IDLE") = 1
          BY <2>1, <5>2 DEF Balanced
        <5> QED
          BY <3>4, <4>1, <5>1, <5>2, <5>3
      <4> QED
        BY <2>1, <4>3, <4>5, HasComing DEF Coming
    <3>5. q = <<>> => p
      BY <3>1 DEF EndsIdling
    <3> QED
      BY <2>1, <3>2, <3>3, <3>4, <3>5 DEF Knows
  <2>6. ASSUME server = "idle", ~c.idling PROVE Has(Sent, "DONE")
    <3>1. CASE toServer # <<>>
      <4>1. toServer[1] = "DONE" /\ 1 \in DOMAIN toServer
        BY <2>1, <2>6, <3>1 DEF ServerFits
      <4>2. Count(toServer, "DONE") # 0
        BY <2>1, <4>1, CountNat
      <4> QED
        BY <2>1, <4>2, HasSent DEF Sent
    <3>2. CASE toServer = <<>>
      <4>1. p /\ ~EndsIdling(p, q) /\ Fits(p, q)
        BY <2>1, <2>6, <3>2 DEF Knows, Shape
      <4>2. q # <<>>
        BY <4>1 DEF EndsIdling
      <4>3. 1 \in DOMAIN q
        BY <2>1, <4>2
      <4>4. q[1] = "DONE"
        BY <4>1, <4>3 DEF Fits
      <4>5. Count(q, "DONE") # 0
        BY <2>1, <4>3, <4>4, CountNat
      <4> QED
        BY <2>1, <4>5, HasSent DEF Sent
    <3> QED
      BY <3>1, <3>2
  <2> QED
    BY <2>5, <2>6 DEF LauncherKnows
<1> QED
  BY <1>1, Inductive, PTL

=============================================================================
