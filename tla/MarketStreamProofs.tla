------------------------- MODULE MarketStreamProofs -------------------------
(* Proofs about MarketStream, for every number of sessions, bars, attempts  *)
(* and faults.  A step of the stream is a function of one session, so the   *)
(* proof has two layers: lemmas that say what each function makes of a      *)
(* sound session, and the step of the system, which needs only that.        *)
EXTENDS MarketStream, FiniteSetTheorems, SequenceTheorems, TLAPS

Early == {"connecting", "awaiting_connected", "authenticating", "subscribing"}

(* What holds of a session that was started, also inside a handler.         *)
Sound(s) ==
  /\ s \in Session
  /\ s.state # "idle"
  /\ s.end = "none" <=> s.state # "closed"
  /\ s.state = "closing" => s.deadline = "close" /\ s.sock = "closing"
  /\ s.state = "closed" => s.deadline = "none" /\ s.queue = <<>> /\ s.sock \in {"none", "closed"}
  /\ s.flight # NoBar => s.outstanding > 0

(* What each stage adds when no handler runs: an open stage has its timer,  *)
(* nothing is queued before the subscription, the count is exact after it.  *)
Staged(s) ==
  /\ s.state \in Early =>
       /\ s.deadline \notin {"none", "close"} /\ s.sock \in {"opening", "open"}
       /\ s.queue = <<>> /\ s.outstanding = 0 /\ s.flight = NoBar /\ ~s.watch
  /\ s.state = "subscribed" =>
       /\ s.deadline = "none" /\ s.sock \in {"opening", "open"}
       /\ s.watch \/ s.flight # NoBar
       /\ s.outstanding = Len(s.queue) + (IF s.flight = NoBar THEN 0 ELSE 1)
  /\ s.state \in {"connecting", "awaiting_connected"} => s.status = "connecting"
  /\ s.state \in {"authenticating", "subscribing"} => s.status = "authenticating"
  /\ s.state = "subscribed" => s.status = "subscribed"

Right(s) == s = Idle \/ (Sound(s) /\ Staged(s))

Live(s) == s.state \notin {"idle", "closed"}

(* One session at a time: the supervisor watches the live one.              *)
SessionsRight ==
  \A i \in Sessions :
    /\ Right(ses[i])
    /\ ses[i] = Idle <=> i > cur
    /\ Live(ses[i]) <=> i = cur /\ sup.pc = "watch"

(* What the supervisor shows is what its session reported last.             *)
ShownRight ==
  /\ sup.pc = "start" => cur = 0 /\ sup.attempt = 0 /\ conn = "connecting"
  /\ sup.pc = "watch" => cur \in Sessions /\ conn = ses[cur].status
  /\ sup.pc = "sleep" => cur \in Sessions /\ conn = "reconnecting"
  /\ sup.result = "exhausted" => sup.pc = "ended"

(* Nothing came before the subscription, bars of a later session come later *)
(* and the bar in flight was logged.                                        *)
BarsRight ==
  /\ \A j, k \in DOMAIN arrived : j < k => arrived[j] <= arrived[k]
  /\ \A i \in Sessions :
       /\ ses[i].state \in Early \cup {"idle"} => Came(i) = {}
       /\ ses[i].state = "subscribed" /\ ses[i].flight # NoBar => ses[i].flight.id \in Logged(i)

(* Session n has a attempts behind it that delivered nothing, and they are  *)
(* all since the last that did, or since the first.                         *)
Silent == {i \in Nat : Barren(i)}

Counted(n, a) ==
  /\ n - a = 1 \/ (n - a > 1 /\ n - a \notin Silent)
  /\ \A i \in (n - a + 1)..n : i \in Silent

CountRight ==
  /\ sup.pc = "watch" => Counted(cur, sup.attempt)
  /\ sup.pc = "sleep" => sup.attempt > 0 /\ Counted(cur + 1, sup.attempt)

FailedRight ==
  \A i \in Sessions : ses[i].callback \/ ses[i].malformed =>
    i = cur /\ sup.pc \in {"watch", "ended"}

IInv ==
  /\ TypeOK /\ SessionsRight /\ ShownRight /\ BarsRight /\ CountRight /\ FailedRight
  /\ BarsInOrder /\ RetryBudget

(* What Fail makes of a session: it shuts it and delivers nothing.          *)
Fails(s, t) ==
  /\ Sound(t) /\ Shut(t)
  /\ t.flight = s.flight /\ t.status = s.status
  /\ t.callback = s.callback /\ t.malformed = s.malformed
  /\ s.state = "closed" => t.state = "closed" /\ t.end = s.end
  /\ s.state # "closed" /\ t.end = "retry" => ~t.callback /\ ~t.malformed

(* What every handler makes of a started session.                           *)
Follows(s, t) ==
  /\ Sound(t) /\ Staged(t)
  /\ s.state = "closed" =>
       t.state = "closed" /\ t.end = s.end /\ t.callback = s.callback /\ t.malformed = s.malformed
  /\ s.state # "closed" /\ t.end = "retry" => ~t.callback /\ ~t.malformed
  /\ t.state \in Early => s.state \in Early
  /\ \/ t.status = s.status
     \/ s.status = "connecting" /\ t.status = "authenticating"
     \/ s.status = "authenticating" /\ t.status = "subscribed"

(* What it does with the bars, if q is the queue with the bar that arrived. *)
Takes(s, q, t) ==
  \/ t.state # "subscribed" /\ t.flight \in {NoBar, s.flight}
  \/ /\ s.state = "subscribing" /\ t.state = "subscribed"
     /\ t.queue = <<>> /\ t.flight = NoBar
  \/ /\ s.state = "subscribed" /\ t.state = "subscribed"
     /\ t.queue = q /\ t.flight \in {NoBar, s.flight}
  \/ /\ s.state = "subscribed" /\ t.state = "subscribed"
     /\ q # <<>> /\ t.flight = Head(q) /\ t.queue = Tail(q)

(* The sets a session's fields range over stay closed in the proofs below;  *)
(* these are the members the handlers assign.                               *)
LEMMA Members ==
  /\ {"connecting", "awaiting_connected", "authenticating", "subscribing", "subscribed",
      "closing", "closed"} \subseteq States
  /\ {"none", "connect", "authenticate", "subscribe", "close"} \subseteq Deadlines
  /\ {"none", "opening", "open", "closing", "closed"} \subseteq Sockets
  /\ {"connecting", "authenticating", "subscribed"} \subseteq Statuses
  /\ {"none", "stopped", "retry", "terminal"} \subseteq Ends
  /\ {"authentication", "backpressure", "cancelled", "entitlement", "protocol",
      "subscription", "timeout", "transport"} \subseteq Categories
  /\ <<>> \in Seq(Bar)
BY DEF States, Deadlines, Sockets, Statuses, Ends, Categories

LEMMA SettleFails ==
  ASSUME NEW s \in Session, s.state # "closed", s.sock \in {"none", "closed"},
         s.flight # NoBar => s.outstanding > 0, NEW e
  PROVE  Fails(s, Settle(s, e)) /\ Settle(s, e).state = "closed"
<1> DEFINE t == Settle(s, e)
<1>1. Outcome(s, e) \in {"stopped", "retry", "terminal"}
  BY DEF Outcome
<1>2. Outcome(s, e) = "retry" => ~s.callback /\ ~s.malformed
  BY DEF Outcome, Session
<1>3. t \in Session /\ t.state = "closed"
  BY <1>1, Members DEF Settle, Session
<1>4. t.end = Outcome(s, e) /\ t.deadline = "none" /\ t.queue = <<>> /\ t.sock = s.sock
  BY DEF Settle, Session
<1>5. /\ t.flight = s.flight /\ t.outstanding = s.outstanding /\ t.status = s.status
      /\ t.callback = s.callback /\ t.malformed = s.malformed
  BY DEF Settle, Session
<1> HIDE DEF t
<1>6. Sound(t) /\ Shut(t)
  BY <1>1, <1>3, <1>4, <1>5 DEF Sound, Shut
<1>7. Fails(s, t)
  BY <1>2, <1>3, <1>4, <1>5, <1>6 DEF Fails
<1> QED
  BY <1>3, <1>7 DEF t

LEMMA FailFails ==
  ASSUME NEW s, Sound(s), NEW e \in Categories, NEW x
  PROVE  Fails(s, Fail(s, e, x))
<1>1. s \in Session
  BY DEF Sound
<1>2. CASE s.state = "closed"
  BY <1>1, <1>2 DEF Fail, Fails, Shut, Sound
<1>3. CASE s.state = "closing"
  <2>1. CASE s.err # "none"
    BY <1>1, <1>3, <2>1 DEF Fail, Fails, Shut, Sound
  <2>2. CASE s.err = "none"
    <3> DEFINE t == [s EXCEPT !.err = e]
    <3>1. Fail(s, e, x) = t
      BY <1>3, <2>2 DEF Fail
    <3>2. t \in Session
      BY <1>1 DEF Session
    <3>3. /\ t.state = s.state /\ t.end = s.end /\ t.deadline = s.deadline
          /\ t.sock = s.sock /\ t.flight = s.flight /\ t.outstanding = s.outstanding
          /\ t.status = s.status /\ t.callback = s.callback /\ t.malformed = s.malformed
      BY <1>1 DEF Session
    <3> HIDE DEF t
    <3> QED
      BY <1>3, <3>1, <3>2, <3>3 DEF Fails, Shut, Sound
  <2> QED
    BY <2>1, <2>2
<1>4. CASE s.state \notin {"closed", "closing"}
  <2> DEFINE c == [s EXCEPT !.state = "closing", !.err = e, !.deadline = "close"]
             d == [c EXCEPT !.sock = "closed"]
             t == [c EXCEPT !.sock = "closing"]
  <2>1. Fail(s, e, x) = IF "close" \in x THEN Settle(d, e) ELSE t
    BY <1>4 DEF Fail, Close
  <2>a. c \in Session
    BY <1>1, Members DEF Session
  <2>b. /\ c.state = "closing" /\ c.deadline = "close" /\ c.end = s.end
        /\ c.flight = s.flight /\ c.outstanding = s.outstanding
        /\ c.status = s.status /\ c.callback = s.callback /\ c.malformed = s.malformed
    BY <1>1 DEF Session
  <2> HIDE DEF c
  <2>2. /\ d \in Session /\ d.state = "closing" /\ d.sock = "closed" /\ d.end = s.end
        /\ d.flight = s.flight /\ d.outstanding = s.outstanding
        /\ d.status = s.status /\ d.callback = s.callback /\ d.malformed = s.malformed
    BY <2>a, <2>b, Members DEF Session
  <2>3. /\ t \in Session /\ t.state = "closing" /\ t.sock = "closing" /\ t.end = s.end
        /\ t.flight = s.flight /\ t.outstanding = s.outstanding /\ t.deadline = "close"
        /\ t.status = s.status /\ t.callback = s.callback /\ t.malformed = s.malformed
    BY <2>a, <2>b, Members DEF Session
  <2> HIDE DEF d, t
  <2>4. CASE "close" \in x
    <3>1. Fails(d, Settle(d, e))
      BY <2>2, SettleFails DEF Sound
    <3> QED
      BY <1>4, <2>1, <2>2, <2>4, <3>1 DEF Fails
  <2>5. CASE "close" \notin x
    BY <1>4, <2>1, <2>3, <2>5 DEF Fails, Sound, Shut
  <2> QED
    BY <2>4, <2>5
<1> QED
  BY <1>2, <1>3, <1>4

(* A shut session owes its stage nothing, so a failed one follows, whatever *)
(* the handler did to the session before it failed it.                      *)
LEMMA FailsFollow ==
  ASSUME NEW s, NEW u, NEW t, NEW q,
         Fails(u, t), s.state # "closed", u.state # "closed", u.flight \in {NoBar, s.flight},
         \/ u.status = s.status
         \/ s.status = "connecting" /\ u.status = "authenticating"
         \/ s.status = "authenticating" /\ u.status = "subscribed"
  PROVE  Follows(s, t) /\ Takes(s, q, t)
BY DEF Fails, Follows, Takes, Shut, Staged, Early

LEMMA FailFollows ==
  ASSUME NEW s, Sound(s), s.state # "closed", NEW e \in Categories, NEW x, NEW q
  PROVE  Follows(s, Fail(s, e, x)) /\ Takes(s, q, Fail(s, e, x))
<1>1. Fails(s, Fail(s, e, x))
  BY FailFails
<1> QED
  BY <1>1, FailsFollow

(* A session that delivers nothing at the moment and may take the next bar. *)
Ready(s) ==
  /\ Sound(s) /\ s.state = "subscribed" /\ s.deadline = "none" /\ s.sock \in {"opening", "open"}
  /\ s.status = "subscribed" /\ s.flight = NoBar /\ s.outstanding = Len(s.queue)
  /\ s.queue = <<>> => s.watch

LEMMA DroppingFails ==
  ASSUME NEW s, NEW t, Fails(s, t)
  PROVE  Fails(s, [t EXCEPT !.queue = <<>>])
<1> DEFINE r == [t EXCEPT !.queue = <<>>]
<1>1. t \in Session
  BY DEF Fails, Sound
<1>2. r \in Session
  BY <1>1, Members DEF Session
<1>3. /\ r.state = t.state /\ r.end = t.end /\ r.deadline = t.deadline /\ r.sock = t.sock
      /\ r.flight = t.flight /\ r.outstanding = t.outstanding /\ r.status = t.status
      /\ r.callback = t.callback /\ r.malformed = t.malformed /\ r.queue = <<>>
  BY <1>1 DEF Session
<1> HIDE DEF r
<1>4. Fails(s, r)
  BY <1>2, <1>3 DEF Fails, Sound, Shut
<1> QED
  BY <1>4 DEF r

LEMMA TakeNextFollows ==
  ASSUME NEW s, Ready(s), NEW x
  PROVE  Follows(s, TakeNext(s, x)) /\ Takes(s, s.queue, TakeNext(s, x))
<1>1. s \in Session /\ s.state = "subscribed" /\ s.flight = NoBar /\ s.end = "none"
  BY DEF Ready, Sound
<1>2. CASE s.queue = <<>>
  <2>1. TakeNext(s, x) = s
    BY <1>2 DEF TakeNext
  <2>2. Staged(s)
    BY <1>2 DEF Ready, Staged, Early
  <2>3. Follows(s, s) /\ Takes(s, s.queue, s)
    BY <1>1, <2>2 DEF Follows, Takes, Ready, Early
  <2> QED
    BY <2>1, <2>3
<1>3. CASE s.queue # <<>>
  <2> DEFINE bar == Head(s.queue)
             taken == [s EXCEPT !.queue = Tail(s.queue), !.watch = FALSE]
  <2>1. /\ s.queue \in Seq(Bar) /\ bar \in Bar /\ Tail(s.queue) \in Seq(Bar)
        /\ Len(s.queue) = Len(Tail(s.queue)) + 1 /\ Len(Tail(s.queue)) \in Nat
        /\ s.outstanding = Len(s.queue) /\ s.outstanding \in 0..QueueCapacity
    <3>1. s.queue \in Seq(Bar) /\ s.outstanding \in 0..QueueCapacity
      BY <1>1 DEF Session
    <3>2. s.outstanding = Len(s.queue)
      BY DEF Ready
    <3> QED
      BY <1>3, <3>1, <3>2
  <2>2. taken \in Session
    BY <1>1, <2>1 DEF Session
  <2>3. /\ taken.queue = Tail(s.queue) /\ taken.state = s.state /\ taken.end = s.end
        /\ taken.flight = s.flight /\ taken.outstanding = s.outstanding
        /\ taken.deadline = s.deadline /\ taken.sock = s.sock /\ taken.status = s.status
        /\ taken.callback = s.callback /\ taken.malformed = s.malformed
    BY <1>1 DEF Session
  <2>4. TakeNext(s, x) =
          IF bar.ok /\ ~s.callback THEN [taken EXCEPT !.flight = bar]
          ELSE [Fail([taken EXCEPT !.malformed = @ \/ ~bar.ok, !.outstanding = @ - 1],
                     "transport", x) EXCEPT !.queue = <<>>]
    BY <1>3 DEF TakeNext
  <2>5. bar # NoBar
    BY <2>1 DEF Bar, NoBar
  <2>6. CASE bar.ok /\ ~s.callback
    <3> DEFINE t == [taken EXCEPT !.flight = bar]
    <3> HIDE DEF taken
    <3>1. t \in Session
      BY <2>1, <2>2 DEF Session
    <3>2. /\ t.flight = bar /\ t.queue = taken.queue /\ t.state = taken.state
          /\ t.end = taken.end /\ t.outstanding = taken.outstanding
          /\ t.deadline = taken.deadline /\ t.sock = taken.sock /\ t.status = taken.status
      BY <2>2 DEF Session
    <3> HIDE DEF t, bar
    <3>3. Sound(t)
      BY <1>1, <2>1, <2>3, <3>1, <3>2 DEF Sound
    <3>4. Staged(t)
      BY <1>1, <2>1, <2>3, <2>5, <3>2 DEF Staged, Ready, Early
    <3>5. Follows(s, t) /\ Takes(s, s.queue, t)
      BY <1>1, <1>3, <2>3, <3>2, <3>3, <3>4 DEF Follows, Takes, Early, bar
    <3>6. TakeNext(s, x) = t
      BY <2>4, <2>6 DEF t
    <3> QED
      BY <3>5, <3>6
  <2>7. CASE ~(bar.ok /\ ~s.callback)
    <3> DEFINE u == [taken EXCEPT !.malformed = @ \/ ~bar.ok, !.outstanding = @ - 1]
    <3>1. (taken.malformed \/ ~bar.ok) \in BOOLEAN
      BY <2>2, <2>1 DEF Session, Bar
    <3> HIDE DEF taken
    <3>2. taken.outstanding - 1 \in 0..QueueCapacity
      <4>1. s.outstanding - 1 \in 0..QueueCapacity
        BY <2>1, BoundsAssumption
      <4> QED
        BY <2>3, <4>1
    <3>3. u \in Session
      BY <2>2, <3>1, <3>2 DEF Session
    <3>4. /\ u.flight = taken.flight /\ u.state = taken.state /\ u.end = taken.end
          /\ u.status = taken.status
      BY <2>2 DEF Session
    <3>5. TakeNext(s, x) = [Fail(u, "transport", x) EXCEPT !.queue = <<>>]
      BY <2>4, <2>7
    <3> HIDE DEF u
    <3>6. Sound(u)
      BY <1>1, <2>3, <3>3, <3>4 DEF Sound
    <3>7. Fails(u, TakeNext(s, x))
      BY <3>5, <3>6, Members, FailFails, DroppingFails
    <3> QED
      BY <1>1, <2>3, <3>4, <3>7, FailsFollow
  <2> QED
    BY <2>6, <2>7
<1> QED
  BY <1>2, <1>3

LEMMA HandleBarFollows ==
  ASSUME NEW s, Sound(s), Staged(s), s.state # "closed", NEW bar \in Bar, NEW x
  PROVE  /\ Follows(s, HandleBar(s, bar, x))
         /\ Takes(s, IF Accepts(s) THEN Append(s.queue, bar) ELSE s.queue, HandleBar(s, bar, x))
<1>1. s \in Session
  BY DEF Sound
<1>2. CASE ~Accepts(s)
  <2>1. HandleBar(s, bar, x)
          = Fail(s, IF s.state = "subscribed" THEN "backpressure" ELSE "protocol", x)
    BY <1>2 DEF HandleBar
  <2>2. (IF s.state = "subscribed" THEN "backpressure" ELSE "protocol") \in Categories
    BY DEF Categories
  <2> QED
    BY <1>2, <2>1, <2>2, FailFollows
<1>3. CASE Accepts(s)
  <2> DEFINE q == Append(s.queue, bar)
             r == [s EXCEPT !.queue = q, !.outstanding = s.outstanding + 1]
  <2>1. s.state = "subscribed" /\ s.outstanding < QueueCapacity
    BY <1>3 DEF Accepts
  <2>2. /\ s.queue \in Seq(Bar) /\ s.outstanding \in Nat
        /\ s.outstanding + 1 \in 0..QueueCapacity
    BY <1>1, <2>1, BoundsAssumption DEF Session
  <2>3. q \in Seq(Bar) /\ Len(q) = Len(s.queue) + 1 /\ q # <<>> /\ Len(s.queue) \in Nat
    BY <2>2
  <2> HIDE DEF q
  <2>4. r \in Session
    BY <1>1, <2>2, <2>3 DEF Session
  <2>5. /\ r.queue = q /\ r.outstanding = s.outstanding + 1 /\ r.state = s.state
        /\ r.end = s.end /\ r.deadline = s.deadline /\ r.sock = s.sock /\ r.status = s.status
        /\ r.flight = s.flight /\ r.watch = s.watch
    BY <1>1 DEF Session
  <2>6. HandleBar(s, bar, x) = IF r.flight = NoBar THEN TakeNext(r, x) ELSE r
    BY <1>3, <2>5 DEF HandleBar, q
  <2> HIDE DEF r
  <2>7. Sound(r)
    BY <2>1, <2>2, <2>4, <2>5 DEF Sound
  <2>8. CASE s.flight = NoBar
    <3>1. Ready(r)
      BY <2>1, <2>3, <2>5, <2>7, <2>8 DEF Ready, Staged
    <3>2. Follows(r, TakeNext(r, x)) /\ Takes(r, q, TakeNext(r, x))
      BY <3>1, <2>5, TakeNextFollows
    <3>3. Follows(s, TakeNext(r, x)) /\ Takes(s, q, TakeNext(r, x))
      BY <3>2, <2>1, <2>5 DEF Follows, Takes, Early
    <3> QED
      BY <1>3, <2>5, <2>6, <2>8, <3>3 DEF q
  <2>9. CASE s.flight # NoBar
    <3>1. Staged(r)
      BY <2>1, <2>2, <2>3, <2>5, <2>9 DEF Staged, Early
    <3>2. r.end = "none"
      BY <2>1, <2>5, <2>7 DEF Sound
    <3>3. Follows(s, r) /\ Takes(s, q, r)
      BY <2>1, <2>5, <2>7, <3>1, <3>2 DEF Follows, Takes, Early
    <3> QED
      BY <1>3, <2>5, <2>6, <2>9, <3>3 DEF q
  <2> QED
    BY <2>8, <2>9
<1> QED
  BY <1>2, <1>3

LEMMA DeliveredFollows ==
  ASSUME NEW s, Sound(s), Staged(s), s.flight # NoBar, NEW ok \in BOOLEAN, NEW x
  PROVE  Follows(s, Delivered(s, ok, x)) /\ Takes(s, s.queue, Delivered(s, ok, x))
<1> DEFINE d == [s EXCEPT !.flight = NoBar, !.watch = TRUE, !.outstanding = s.outstanding - 1,
                          !.callback = s.callback \/ (~ok /\ s.state # "closed")]
           f == IF ok \/ Shut(s) THEN d ELSE Fail(d, "transport", x)
<1>1. /\ s \in Session /\ s.state \notin Early \cup {"idle"}
      /\ s.state \in {"subscribed", "closing", "closed"} /\ s.queue \in Seq(Bar)
  BY DEF Sound, Staged, Session, States, Early
<1>2. s.outstanding - 1 \in 0..QueueCapacity
  BY <1>1, BoundsAssumption DEF Sound, Session
<1>3. d \in Session
  <2>1. (s.callback \/ (~ok /\ s.state # "closed")) \in BOOLEAN
    BY <1>1 DEF Session
  <2> QED
    BY <1>1, <1>2, <2>1 DEF Session
<1>4. /\ d.flight = NoBar /\ d.watch /\ d.outstanding = s.outstanding - 1
      /\ d.callback = (s.callback \/ (~ok /\ s.state # "closed")) /\ d.malformed = s.malformed
      /\ d.state = s.state /\ d.end = s.end /\ d.deadline = s.deadline /\ d.sock = s.sock
      /\ d.status = s.status /\ d.queue = s.queue
  BY <1>1 DEF Session
<1>5. Delivered(s, ok, x) = IF Shut(f) THEN [f EXCEPT !.queue = <<>>] ELSE TakeNext(f, x)
  <2>1. Shut(d) <=> Shut(s)
    BY <1>4 DEF Shut
  <2> QED
    BY <2>1 DEF Delivered, Shut
<1> HIDE DEF d
<1>6. Sound(d)
  BY <1>3, <1>4 DEF Sound
<1>7. CASE s.state = "closed"
  <2>1. f = d /\ Shut(d) /\ Delivered(s, ok, x) = [d EXCEPT !.queue = <<>>]
    BY <1>4, <1>5, <1>7 DEF Shut
  <2>2. d.callback = s.callback
    BY <1>1, <1>4, <1>7 DEF Session
  <2>3. Fails(d, d)
    BY <1>4, <1>6, <1>7, <2>1 DEF Fails
  <2>4. Fails(d, Delivered(s, ok, x))
    BY <2>1, <2>3, DroppingFails
  <2> QED
    BY <1>1, <1>4, <1>7, <2>2, <2>4 DEF Fails, Follows, Takes, Staged, Shut, Early
<1>8. CASE s.state = "closing"
  <2>1. f = d /\ Shut(d) /\ Delivered(s, ok, x) = [d EXCEPT !.queue = <<>>]
    BY <1>4, <1>5, <1>8 DEF Shut
  <2>2. Fails(d, d)
    BY <1>4, <1>6, <1>8, <2>1 DEF Fails, Sound
  <2>3. Fails(d, Delivered(s, ok, x))
    BY <2>1, <2>2, DroppingFails
  <2> QED
    BY <1>4, <1>8, <2>3, FailsFollow
<1>9. CASE s.state = "subscribed" /\ ok
  <2>1. f = d /\ ~Shut(d)
    BY <1>4, <1>9 DEF Shut
  <2>2. Len(d.queue) \in Nat
    BY <1>1, <1>4
  <2>3. Ready(d)
    BY <1>1, <1>4, <1>6, <1>9, <2>2 DEF Ready, Staged, Session
  <2>4. Follows(d, TakeNext(d, x)) /\ Takes(d, d.queue, TakeNext(d, x))
    BY <2>3, TakeNextFollows
  <2> QED
    BY <1>4, <1>5, <1>9, <2>1, <2>4 DEF Follows, Takes, Early
<1>10. CASE s.state = "subscribed" /\ ~ok
  <2>1. Fails(d, Fail(d, "transport", x)) /\ f = Fail(d, "transport", x)
    BY <1>6, <1>10, FailFails, Members DEF Shut
  <2>2. Fails(d, Delivered(s, ok, x))
    <3>1. Shut(f)
      BY <2>1 DEF Fails
    <3> HIDE DEF f
    <3> QED
      BY <1>5, <2>1, <3>1, DroppingFails
  <2> QED
    BY <1>4, <1>10, <2>2, FailsFollow
<1> QED
  BY <1>1, <1>7, <1>8, <1>9, <1>10

LEMMA SentFollows ==
  ASSUME NEW s, NEW r, NEW x, NEW q,
         s.state \in Early, Sound(r), Staged(r), r.state \in Early,
         \/ r.status = s.status
         \/ s.status = "connecting" /\ r.status = "authenticating"
  PROVE  Follows(s, Sent(r, x)) /\ Takes(s, q, Sent(r, x))
<1>1. r.flight = NoBar /\ r.state # "closed" /\ s.state # "closed" /\ r.end = "none"
      /\ r.state # "subscribed"
  BY DEF Staged, Early, Sound
<1>2. CASE "send" \in x
  <2>1. Fails(r, Fail(r, "transport", x)) /\ Sent(r, x) = Fail(r, "transport", x)
    BY <1>2, FailFails, Members DEF Sent
  <2> QED
    BY <1>1, <2>1, FailsFollow
<1>3. CASE "send" \notin x
  BY <1>1, <1>3 DEF Sent, Follows, Takes
<1> QED
  BY <1>2, <1>3

LEMMA HandleConnectedFollows ==
  ASSUME NEW s, Sound(s), Staged(s), s.state # "closed", NEW x, NEW q
  PROVE  Follows(s, HandleConnected(s, x)) /\ Takes(s, q, HandleConnected(s, x))
<1>1. CASE s.state # "awaiting_connected"
  BY <1>1, FailFollows, Members DEF HandleConnected
<1>2. CASE s.state = "awaiting_connected"
  <2> DEFINE o == Reported(s, "authenticating", x)
             r == [o EXCEPT !.state = "authenticating", !.deadline = "authenticate"]
  <2>1. s \in Session
    BY DEF Sound
  <2>2. o \in Session
    BY <2>1, Members DEF Reported, Session
  <2>3. /\ o.status = "authenticating" /\ o.end = s.end /\ o.queue = s.queue /\ o.watch = s.watch
        /\ o.outstanding = s.outstanding /\ o.flight = s.flight /\ o.sock = s.sock
    BY <2>1 DEF Reported, Session
  <2> HIDE DEF o
  <2>4. r \in Session
    BY <2>2, Members DEF Session
  <2>5. /\ r.state = "authenticating" /\ r.deadline = "authenticate" /\ r.status = o.status
        /\ r.end = o.end /\ r.queue = o.queue /\ r.watch = o.watch
        /\ r.outstanding = o.outstanding /\ r.flight = o.flight /\ r.sock = o.sock
    BY <2>2 DEF Session
  <2>6. HandleConnected(s, x) = Sent(r, x)
    BY <1>2 DEF HandleConnected, o
  <2> HIDE DEF r
  <2>7. Sound(r) /\ Staged(r) /\ r.state \in Early
    BY <1>2, <2>3, <2>4, <2>5 DEF Sound, Staged, Early
  <2>8. s.status = "connecting" /\ r.status = "authenticating" /\ s.state \in Early
    BY <1>2, <2>3, <2>5 DEF Staged, Early
  <2> QED
    BY <2>6, <2>7, <2>8, SentFollows
<1> QED
  BY <1>1, <1>2

LEMMA HandleAuthenticatedFollows ==
  ASSUME NEW s, Sound(s), Staged(s), s.state # "closed", NEW x, NEW q
  PROVE  Follows(s, HandleAuthenticated(s, x)) /\ Takes(s, q, HandleAuthenticated(s, x))
<1>1. CASE s.state # "authenticating"
  BY <1>1, FailFollows, Members DEF HandleAuthenticated
<1>2. CASE s.state = "authenticating"
  <2> DEFINE r == [s EXCEPT !.state = "subscribing", !.deadline = "subscribe"]
  <2>1. s \in Session
    BY DEF Sound
  <2>2. r \in Session
    BY <2>1, Members DEF Session
  <2>3. /\ r.state = "subscribing" /\ r.deadline = "subscribe" /\ r.status = s.status
        /\ r.end = s.end /\ r.queue = s.queue /\ r.watch = s.watch
        /\ r.outstanding = s.outstanding /\ r.flight = s.flight /\ r.sock = s.sock
    BY <2>1 DEF Session
  <2>4. HandleAuthenticated(s, x) = Sent(r, x)
    BY <1>2 DEF HandleAuthenticated
  <2> HIDE DEF r
  <2>5. Sound(r) /\ Staged(r) /\ r.state \in Early /\ s.state \in Early
    BY <1>2, <2>2, <2>3 DEF Sound, Staged, Early
  <2> QED
    BY <2>3, <2>4, <2>5, SentFollows
<1> QED
  BY <1>1, <1>2

LEMMA HandleSubscriptionFollows ==
  ASSUME NEW s, Sound(s), Staged(s), s.state # "closed", NEW list \in Approved, NEW x, NEW q
  PROVE  /\ Follows(s, HandleSubscription(s, list, x))
         /\ Takes(s, q, HandleSubscription(s, list, x))
<1>1. CASE s.state # "subscribing"
  BY <1>1, FailFollows, Members DEF HandleSubscription
<1>2. CASE s.state = "subscribing"
  <2> DEFINE o == Reported(s, "subscribed", x)
             r == [o EXCEPT !.state = "subscribed", !.deadline = "none",
                            !.watch = TRUE, !.scope = list]
  <2>1. s \in Session
    BY DEF Sound
  <2>2. o \in Session
    BY <2>1, Members DEF Reported, Session
  <2>3. /\ o.status = "subscribed" /\ o.end = s.end /\ o.queue = s.queue
        /\ o.outstanding = s.outstanding /\ o.flight = s.flight /\ o.sock = s.sock
    BY <2>1 DEF Reported, Session
  <2> HIDE DEF o
  <2>4. r \in Session
    BY <2>2, Members DEF Session
  <2>5. /\ r.state = "subscribed" /\ r.deadline = "none" /\ r.status = o.status
        /\ r.end = o.end /\ r.queue = o.queue /\ r.watch = TRUE
        /\ r.outstanding = o.outstanding /\ r.flight = o.flight /\ r.sock = o.sock
    BY <2>2 DEF Session
  <2>6. HandleSubscription(s, list, x) = r
    BY <1>2 DEF HandleSubscription, o
  <2> HIDE DEF r
  <2>7. /\ s.queue = <<>> /\ s.outstanding = 0 /\ s.flight = NoBar /\ s.end = "none"
        /\ s.sock \in {"opening", "open"} /\ s.status = "authenticating"
    BY <1>2 DEF Sound, Staged, Early
  <2>8. Sound(r) /\ Staged(r)
    <3>1. Len(r.queue) = 0
      BY <2>3, <2>5, <2>7
    <3> QED
      BY <2>3, <2>4, <2>5, <2>7, <3>1 DEF Sound, Staged, Early
  <2>9. Follows(s, r) /\ Takes(s, q, r)
    BY <1>2, <2>3, <2>5, <2>7, <2>8 DEF Follows, Takes, Early
  <2> QED
    BY <2>6, <2>9
<1> QED
  BY <1>1, <1>2

Errors == {"authentication", "backpressure", "entitlement", "subscription", "transport", "other"}

(* What the decoder makes of whatever the provider sends.                   *)
LEMMA DecodeKinds ==
  ASSUME TypeOK, NEW raw \in Raw, raw.T = "b" => Len(arrived) < MaxBars
  PROVE  \/ Decode(raw).kind \in {"connected", "authenticated"}
         \/ Decode(raw).kind = "subscription" /\ Decode(raw).bars \in Approved
         \/ Decode(raw).kind = "error" /\ Decode(raw).code \in Errors
         \/ /\ Decode(raw).kind = "bar" /\ Decode(raw).bar \in Bar
            /\ Decode(raw).bar.id = Len(arrived) + 1 /\ Len(arrived) < MaxBars
         \/ Decode(raw).kind = "malformed"
<1>1. CASE raw.T = "success"
  <2>1. raw.msg \in {"connected", "authenticated"}
    BY <1>1 DEF Raw
  <2>2. Decode(raw) = [kind |-> raw.msg]
    BY <1>1 DEF Decode
  <2> QED
    BY <2>1, <2>2
<1>2. CASE raw.T = "subscription"
  <2>1. Decode(raw) = DecodeSubscription(raw)
    BY <1>2 DEF Decode
  <2> QED
    BY <2>1 DEF DecodeSubscription
<1>3. CASE raw.T = "error"
  <2>1. raw.code \in Errors
    BY <1>3 DEF Raw, Errors
  <2>2. Decode(raw) = [kind |-> "error", code |-> raw.code]
    BY <1>3 DEF Decode
  <2> QED
    BY <2>1, <2>2
<1>4. CASE raw.T = "b" /\ raw.body # "unreadable"
  <2> DEFINE bar == [id |-> Len(arrived) + 1, ok |-> raw.body = "valid"]
  <2>1. Decode(raw) = [kind |-> "bar", bar |-> bar]
    BY <1>4 DEF Decode
  <2>2. Len(arrived) \in Nat
    BY DEF TypeOK
  <2>3. bar \in Bar /\ bar.id = Len(arrived) + 1
    BY <1>4, <2>2, BoundsAssumption DEF Bar
  <2> HIDE DEF bar
  <2> QED
    BY <1>4, <2>1, <2>3
<1>5. CASE raw.T = "unreadable" \/ (raw.T = "b" /\ raw.body = "unreadable")
  <2>1. Decode(raw) = [kind |-> "malformed", reason |-> "other"]
    BY <1>5 DEF Decode
  <2> QED
    BY <2>1
<1> QED
  <2>1. raw.T \in {"success", "subscription", "error", "b", "unreadable"}
    BY DEF Raw
  <2> QED
    BY <2>1, <1>1, <1>2, <1>3, <1>4, <1>5

Arrives(s, item) == item.kind = "bar" /\ Accepts(s)

LEMMA HandleItemFollows ==
  ASSUME TypeOK, NEW s, Sound(s), Staged(s), s.state # "closed", NEW x,
         NEW raw \in Raw, raw.T = "b" => Len(arrived) < MaxBars
  PROVE  /\ Follows(s, HandleItem(s, Decode(raw), x))
         /\ Takes(s, IF Arrives(s, Decode(raw)) THEN Append(s.queue, Decode(raw).bar) ELSE s.queue,
                  HandleItem(s, Decode(raw), x))
<1> DEFINE item == Decode(raw)
           q == IF Arrives(s, item) THEN Append(s.queue, item.bar) ELSE s.queue
<1>1. CASE item.kind = "connected"
  <2>1. HandleItem(s, item, x) = HandleConnected(s, x)
    BY <1>1 DEF HandleItem
  <2> QED
    BY <2>1, HandleConnectedFollows
<1>2. CASE item.kind = "authenticated"
  <2>1. HandleItem(s, item, x) = HandleAuthenticated(s, x)
    BY <1>2 DEF HandleItem
  <2> QED
    BY <2>1, HandleAuthenticatedFollows
<1>3. CASE item.kind = "subscription" /\ item.bars \in Approved
  <2>1. HandleItem(s, item, x) = HandleSubscription(s, item.bars, x)
    BY <1>3 DEF HandleItem
  <2> QED
    BY <1>3, <2>1, HandleSubscriptionFollows
<1>4. CASE item.kind = "error" /\ item.code \in Errors
  <2>1. HandleItem(s, item, x) = Fail(s, ErrorCategory(item.code, s.state), x)
    BY <1>4 DEF HandleItem
  <2>2. ErrorCategory(item.code, s.state) \in Categories
    BY Members DEF ErrorCategory
  <2> QED
    BY <2>1, <2>2, FailFollows
<1>5. CASE item.kind = "bar" /\ item.bar \in Bar
  <2>1. HandleItem(s, item, x) = HandleBar(s, item.bar, x)
    BY <1>5 DEF HandleItem
  <2>2. q = IF Accepts(s) THEN Append(s.queue, item.bar) ELSE s.queue
    BY <1>5 DEF Arrives
  <2>3. /\ Follows(s, HandleBar(s, item.bar, x))
        /\ Takes(s, IF Accepts(s) THEN Append(s.queue, item.bar) ELSE s.queue,
                 HandleBar(s, item.bar, x))
    <3> HIDE DEF item
    <3> QED
      BY <1>5, HandleBarFollows
  <2>4. Follows(s, HandleItem(s, item, x)) /\ Takes(s, q, HandleItem(s, item, x))
    <3> HIDE DEF item, q
    <3> QED
      BY <2>1, <2>2, <2>3
  <2> QED
    BY <2>4
<1>6. CASE item.kind = "malformed"
  <2> DEFINE e == IF s.state = "subscribing" /\ item.reason = "invalid_subscription"
                  THEN "subscription" ELSE "protocol"
  <2>1. HandleItem(s, item, x) = Fail(s, e, x)
    BY <1>6 DEF HandleItem
  <2>2. e \in Categories
    BY Members
  <2> HIDE DEF e
  <2> QED
    BY <2>1, <2>2, FailFollows
<1> QED
  BY <1>1, <1>2, <1>3, <1>4, <1>5, <1>6, DecodeKinds

LEMMA OpenFollows ==
  ASSUME NEW s, Sound(s), Staged(s), s.state = "connecting"
  PROVE  LET t == [s EXCEPT !.sock = "open", !.state = "awaiting_connected"]
         IN  Follows(s, t) /\ Takes(s, s.queue, t)
<1> DEFINE t == [s EXCEPT !.sock = "open", !.state = "awaiting_connected"]
<1>1. s \in Session
  BY DEF Sound
<1>2. t \in Session
  BY <1>1, Members DEF Session
<1>3. /\ t.state = "awaiting_connected" /\ t.sock = "open" /\ t.end = s.end
      /\ t.deadline = s.deadline /\ t.queue = s.queue /\ t.outstanding = s.outstanding
      /\ t.flight = s.flight /\ t.watch = s.watch /\ t.status = s.status
  BY <1>1 DEF Session
<1> HIDE DEF t
<1>4. Sound(t) /\ Staged(t)
  BY <1>2, <1>3 DEF Sound, Staged, Early
<1>5. Follows(s, t) /\ Takes(s, s.queue, t)
  BY <1>3, <1>4 DEF Follows, Takes, Early, Sound
<1> QED
  BY <1>5 DEF t

LEMMA CloseFollows ==
  ASSUME NEW s, Sound(s), s.state # "closed", NEW e, NEW q
  PROVE  LET t == Settle([s EXCEPT !.sock = "closed"], e)
         IN  Follows(s, t) /\ Takes(s, q, t)
<1> DEFINE u == [s EXCEPT !.sock = "closed"]
<1>1. s \in Session
  BY DEF Sound
<1>2. u \in Session
  BY <1>1, Members DEF Session
<1>3. /\ u.state = s.state /\ u.sock = "closed" /\ u.flight = s.flight
      /\ u.outstanding = s.outstanding /\ u.status = s.status
  BY <1>1 DEF Session
<1> HIDE DEF u
<1>4. Fails(u, Settle(u, e))
  BY <1>2, <1>3, SettleFails DEF Sound
<1>5. Follows(s, Settle(u, e)) /\ Takes(s, q, Settle(u, e))
  BY <1>3, <1>4, FailsFollow
<1> QED
  BY <1>5 DEF u

LEMMA ExpireFollows ==
  ASSUME NEW s, Sound(s), Staged(s), s.deadline # "none", NEW x, NEW q
  PROVE  Follows(s, Expire(s, x)) /\ Takes(s, q, Expire(s, x))
<1>1. s.state # "closed"
  BY DEF Sound
<1>2. CASE s.deadline = "close"
  <2>1. Expire(s, x) = Settle([s EXCEPT !.sock = "closed"], s.err)
    BY <1>2 DEF Expire
  <2> QED
    BY <1>1, <2>1, CloseFollows
<1>3. CASE s.deadline # "close"
  <2> DEFINE u == [s EXCEPT !.deadline = "none"]
  <2>1. s \in Session /\ s.state # "closing"
    BY <1>3 DEF Sound
  <2>2. u \in Session
    BY <2>1, Members DEF Session
  <2>3. /\ u.state = s.state /\ u.sock = s.sock /\ u.flight = s.flight /\ u.end = s.end
        /\ u.outstanding = s.outstanding /\ u.status = s.status
    BY <2>1 DEF Session
  <2>4. Expire(s, x) = Fail(u, "timeout", x)
    BY <1>3 DEF Expire
  <2> HIDE DEF u
  <2>5. Sound(u)
    BY <1>1, <2>1, <2>2, <2>3 DEF Sound
  <2>6. Fails(u, Fail(u, "timeout", x))
    BY <2>5, FailFails, Members
  <2> QED
    BY <1>1, <2>3, <2>4, <2>6, FailsFollow
<1> QED
  BY <1>2, <1>3

LEMMA InactivityFollows ==
  ASSUME NEW s, Sound(s), NEW x, NEW q, NEW threw \in BOOLEAN
  PROVE  LET t == Fail([s EXCEPT !.watch = FALSE, !.inactive = TRUE,
                          !.callback = s.callback \/ (threw /\ s.state # "closed")],
                       "cancelled", x)
         IN  Follows(s, t) /\ Takes(s, q, t)
<1> DEFINE u == [s EXCEPT !.watch = FALSE, !.inactive = TRUE,
                          !.callback = s.callback \/ (threw /\ s.state # "closed")]
           t == Fail(u, "cancelled", x)
<1>1. s \in Session
  BY DEF Sound
<1>2. (s.callback \/ (threw /\ s.state # "closed")) \in BOOLEAN
  BY <1>1 DEF Session
<1>3. u \in Session
  BY <1>1, <1>2 DEF Session
<1>4. /\ u.state = s.state /\ u.sock = s.sock /\ u.flight = s.flight /\ u.end = s.end
      /\ u.outstanding = s.outstanding /\ u.status = s.status /\ u.deadline = s.deadline
      /\ u.queue = s.queue /\ u.malformed = s.malformed
      /\ u.callback = (s.callback \/ (threw /\ s.state # "closed"))
  BY <1>1 DEF Session
<1>5. s.state = "closed" => u.callback = s.callback
  BY <1>1, <1>4 DEF Session
<1> HIDE DEF u
<1>6. Sound(u)
  BY <1>3, <1>4 DEF Sound
<1>7. Fails(u, t)
  BY <1>6, FailFails, Members
<1> HIDE DEF t
<1>8. Follows(s, t) /\ Takes(s, q, t)
  <2>1. CASE s.state = "closed"
    BY <1>4, <1>5, <1>7, <2>1 DEF Fails, Follows, Takes, Staged, Shut, Early
  <2>2. CASE s.state # "closed"
    BY <1>4, <1>7, <2>2, FailsFollow
  <2> QED
    BY <2>1, <2>2
<1> QED
  BY <1>8 DEF t, u

LEMMA CancelFollows ==
  ASSUME NEW s, Sound(s), s.state # "closed", NEW x, NEW q
  PROVE  LET t == Fail([s EXCEPT !.cancelled = TRUE], "cancelled", x)
         IN  Follows(s, t) /\ Takes(s, q, t) /\ Shut(t) /\ t.status = s.status /\ t.flight = s.flight
<1> DEFINE u == [s EXCEPT !.cancelled = TRUE]
<1>1. s \in Session
  BY DEF Sound
<1>2. u \in Session
  BY <1>1 DEF Session
<1>3. /\ u.state = s.state /\ u.sock = s.sock /\ u.flight = s.flight /\ u.end = s.end
      /\ u.outstanding = s.outstanding /\ u.status = s.status /\ u.deadline = s.deadline
      /\ u.queue = s.queue
  BY <1>1 DEF Session
<1> HIDE DEF u
<1>4. Sound(u)
  BY <1>2, <1>3 DEF Sound
<1>5. Fails(u, Fail(u, "cancelled", x))
  BY <1>4, FailFails, Members
<1>6. LET t == Fail(u, "cancelled", x) IN
        Follows(s, t) /\ Takes(s, q, t) /\ Shut(t) /\ t.status = s.status /\ t.flight = s.flight
  <2>1. Follows(s, Fail(u, "cancelled", x)) /\ Takes(s, q, Fail(u, "cancelled", x))
    BY <1>3, <1>5, FailsFollow
  <2> QED
    BY <1>3, <1>5, <2>1 DEF Fails
<1> QED
  BY <1>6 DEF u

-----------------------------------------------------------------------------
(* The step of the system.                                                  *)

Supervisor == [pc : {"start", "watch", "sleep", "ended"},
               attempt : 0..MaximumAttempts,
               result : {"none", "stopped", "failed", "exhausted"}]

(* A step that takes the started session i to t; q is its queue with the    *)
(* bar that arrived, if one did.                                            *)
Moves(i, t, q) ==
  /\ i \in Sessions /\ ses[i] # Idle
  /\ Follows(ses[i], t) /\ Takes(ses[i], q, t)
  /\ \/ arrived' = arrived /\ q = ses[i].queue
     \/ /\ arrived' = Append(arrived, i) /\ ses[i].state = "subscribed"
        /\ \E bar \in Bar : bar.id = Len(arrived) + 1 /\ q = Append(ses[i].queue, bar)
  /\ ses' = [ses EXCEPT ![i] = t]
  /\ log' = IF Started(i, t) THEN Append(log, [ses |-> i, id |-> t.flight.id]) ELSE log
  /\ cur' = cur
  /\ IF i # cur \/ ses[i].end # "none" THEN UNCHANGED <<sup, conn>>
     ELSE IF t.end # "none" THEN React(t.end)
     ELSE /\ sup' = IF Started(i, t) THEN [sup EXCEPT !.attempt = 0] ELSE sup
          /\ conn' = t.status
  /\ faults' \in 0..MaxFaults /\ aborted' \in BOOLEAN

LEMMA StartedSession ==
  ASSUME IInv, NEW i \in Sessions, ses[i] # Idle
  PROVE  /\ Sound(ses[i]) /\ Staged(ses[i]) /\ i <= cur
         /\ Live(ses[i]) <=> ses[i].state # "closed"
         /\ Live(ses[i]) <=> ses[i].end = "none"
         /\ Live(ses[i]) <=> i = cur /\ sup.pc = "watch"
<1>1. Sound(ses[i]) /\ Staged(ses[i]) /\ ~(i > cur)
  BY DEF IInv, SessionsRight, Right
<1>2. i <= cur
  BY <1>1, BoundsAssumption DEF IInv, TypeOK, Sessions
<1>3. Live(ses[i]) <=> i = cur /\ sup.pc = "watch"
  BY DEF IInv, SessionsRight
<1> QED
  BY <1>1, <1>2, <1>3 DEF Sound, Live

(* The bars of the queue, with the one that just arrived.                   *)
QueueRight(i, q) ==
  /\ q \in Seq(Bar)
  /\ Logged(i) \cup {q[k].id : k \in DOMAIN q} = Came(i)'
  /\ \A a \in Logged(i), k \in DOMAIN q : a < q[k].id
  /\ \A j, k \in DOMAIN q : j < k => q[j].id < q[k].id

LEMMA LogTypes ==
  ASSUME TypeOK
  PROVE  /\ arrived \in Seq(Sessions) /\ DOMAIN arrived = 1..Len(arrived) /\ Len(arrived) \in Nat
         /\ DOMAIN log = 1..Len(log) /\ Len(log) \in Nat
         /\ \A k \in DOMAIN log : log[k] \in [ses : Sessions, id : 1..MaxBars]
         /\ \A k \in DOMAIN log : log[k].ses \in Sessions /\ log[k].id \in 1..MaxBars
         /\ \A i \in Sessions : \A a \in Logged(i) : a \in 1..MaxBars
         /\ \A i \in Sessions : Came(i) \subseteq 1..Len(arrived)
         /\ \A k \in DOMAIN log : log[k].id \in Logged(log[k].ses)
<1>1. /\ arrived \in Seq(Sessions) /\ DOMAIN arrived = 1..Len(arrived) /\ Len(arrived) \in Nat
      /\ log \in Seq([ses : Sessions, id : 1..MaxBars])
      /\ DOMAIN log = 1..Len(log) /\ Len(log) \in Nat
  BY DEF TypeOK
<1>2. \A k \in DOMAIN log : log[k] \in [ses : Sessions, id : 1..MaxBars]
  <2> DEFINE E == [ses : Sessions, id : 1..MaxBars]
  <2>1. log \in Seq(E)
    BY <1>1
  <2> HIDE DEF E
  <2>2. \A k \in DOMAIN log : log[k] \in E
    BY <2>1
  <2> QED
    BY <2>2 DEF E
<1>3. \A k \in DOMAIN log : log[k].ses \in Sessions /\ log[k].id \in 1..MaxBars
  BY <1>2
<1>4. \A i \in Sessions : \A a \in Logged(i) : a \in 1..MaxBars
  BY <1>3 DEF Logged
<1>5. \A i \in Sessions : Came(i) \subseteq 1..Len(arrived)
  BY <1>1 DEF Came
<1>6. \A k \in DOMAIN log : log[k].id \in Logged(log[k].ses)
  BY DEF Logged
<1> QED
  BY <1>1, <1>2, <1>3, <1>4, <1>5, <1>6

LEMMA CameMoves ==
  ASSUME IInv, NEW i, NEW t, NEW q, Moves(i, t, q)
  PROVE  /\ arrived' \in Seq(Sessions) /\ Len(arrived) <= Len(arrived')
         /\ \A j \in Sessions : j # i => Came(j)' = Came(j)
         /\ \/ arrived' = arrived /\ Came(i)' = Came(i) /\ q = ses[i].queue
            \/ /\ Came(i)' = Came(i) \cup {Len(arrived) + 1} /\ arrived' = Append(arrived, i)
               /\ ses[i].state = "subscribed"
               /\ \E bar \in Bar : bar.id = Len(arrived) + 1 /\ q = Append(ses[i].queue, bar)
<1>1. /\ arrived \in Seq(Sessions) /\ DOMAIN arrived = 1..Len(arrived) /\ Len(arrived) \in Nat
  BY LogTypes DEF IInv
<1>2. CASE arrived' = arrived /\ q = ses[i].queue
  BY <1>1, <1>2 DEF Came
<1>3. CASE /\ arrived' = Append(arrived, i) /\ ses[i].state = "subscribed"
           /\ \E bar \in Bar : bar.id = Len(arrived) + 1 /\ q = Append(ses[i].queue, bar)
  <2>1. i \in Sessions
    BY DEF Moves
  <2>2. /\ arrived' \in Seq(Sessions) /\ Len(arrived') = Len(arrived) + 1
        /\ DOMAIN arrived' = 1..(Len(arrived) + 1) /\ arrived'[Len(arrived) + 1] = i
        /\ \A k \in 1..Len(arrived) : arrived'[k] = arrived[k]
    BY <1>1, <1>3, <2>1
  <2>3. Came(i)' = Came(i) \cup {Len(arrived) + 1}
    BY <1>1, <2>2 DEF Came
  <2>4. \A j \in Sessions : j # i => Came(j)' = Came(j)
    BY <1>1, <2>2 DEF Came
  <2>5. Len(arrived) <= Len(arrived')
    BY <1>1, <2>2
  <2> QED
    BY <1>3, <2>2, <2>3, <2>4, <2>5
<1> QED
  BY <1>2, <1>3 DEF Moves

LEMMA QueueMoves ==
  ASSUME IInv, NEW i, NEW t, NEW q, Moves(i, t, q), ses[i].state = "subscribed"
  PROVE  QueueRight(i, q)
<1>1. /\ arrived \in Seq(Sessions) /\ DOMAIN arrived = 1..Len(arrived) /\ Len(arrived) \in Nat
      /\ Came(i) \subseteq 1..Len(arrived) /\ i \in Sessions
  BY LogTypes DEF IInv, Moves
<1>2. ses[i].queue \in Seq(Bar) /\ DOMAIN ses[i].queue = 1..Len(ses[i].queue)
      /\ Len(ses[i].queue) \in Nat
  BY <1>1 DEF IInv, TypeOK, Session
<1>3. /\ Logged(i) \cup Queued(i) = Came(i)
      /\ \A a \in Logged(i), b \in Queued(i) : a < b
      /\ \A j, k \in DOMAIN ses[i].queue : j < k => ses[i].queue[j].id < ses[i].queue[k].id
  BY <1>1 DEF IInv, BarsInOrder, RestIsQueued
<1>4. CASE arrived' = arrived /\ Came(i)' = Came(i) /\ q = ses[i].queue
  BY <1>2, <1>3, <1>4 DEF QueueRight, Queued
<1>5. CASE /\ Came(i)' = Came(i) \cup {Len(arrived) + 1} /\ arrived' = Append(arrived, i)
           /\ \E bar \in Bar : bar.id = Len(arrived) + 1 /\ q = Append(ses[i].queue, bar)
  <2> DEFINE n == Len(ses[i].queue)
  <2>1. PICK bar \in Bar : bar.id = Len(arrived) + 1 /\ q = Append(ses[i].queue, bar)
    BY <1>5
  <2>2. /\ q \in Seq(Bar) /\ DOMAIN q = 1..(n + 1) /\ q[n + 1].id = Len(arrived) + 1
        /\ \A k \in 1..n : q[k] = ses[i].queue[k]
    BY <1>2, <2>1
  <2>3. \A k \in 1..n : ses[i].queue[k].id \in Queued(i) /\ ses[i].queue[k].id \in Came(i)
    BY <1>2, <1>3 DEF Queued
  <2>4. \A k \in 1..n : ses[i].queue[k].id < Len(arrived) + 1
    BY <1>1, <2>3
  <2>5. {q[k].id : k \in DOMAIN q} = Queued(i) \cup {Len(arrived) + 1}
    <3>1. Queued(i) = {q[k].id : k \in 1..n}
      BY <1>2, <2>2 DEF Queued
    <3>2. 1..(n + 1) = (1..n) \cup {n + 1}
      BY <1>2
    <3>3. {q[k].id : k \in (1..n) \cup {n + 1}} = {q[k].id : k \in 1..n} \cup {q[n + 1].id}
      OBVIOUS
    <3> QED
      BY <2>2, <3>1, <3>2, <3>3
  <2>6. \A a \in Logged(i), k \in DOMAIN q : a < q[k].id
    <3>1. \A a \in Logged(i) : a < Len(arrived) + 1
      BY <1>1, <1>3
    <3> QED
      BY <1>2, <1>3, <2>2, <2>3, <3>1
  <2>7. \A j, k \in DOMAIN q : j < k => q[j].id < q[k].id
    <3>1. SUFFICES ASSUME NEW j \in 1..(n + 1), NEW k \in 1..(n + 1), j < k
          PROVE  q[j].id < q[k].id
      BY <2>2
    <3>2. j \in 1..n
      BY <1>2, <3>1
    <3>3. CASE k \in 1..n
      BY <1>2, <1>3, <2>2, <3>1, <3>2, <3>3
    <3>4. CASE k = n + 1
      BY <2>2, <2>4, <3>2, <3>4
    <3> QED
      BY <1>2, <3>3, <3>4
  <2> QED
    BY <1>3, <1>5, <2>2, <2>5, <2>6, <2>7 DEF QueueRight
<1> QED
  BY <1>4, <1>5, CameMoves

(* A bar is handed over exactly when a subscribed session takes the head of *)
(* its queue, and it is later than every bar handed over before.            *)
LEMMA HandsOver ==
  ASSUME IInv, NEW i, NEW t, NEW q, Moves(i, t, q)
  PROVE  /\ Started(i, t) =>
              /\ ses[i].state = "subscribed" /\ t.state = "subscribed" /\ q # <<>>
              /\ t.flight = Head(q) /\ t.queue = Tail(q) /\ t.flight \in Bar
              /\ \A k \in DOMAIN log : log[k].id < t.flight.id
         /\ ~Started(i, t) /\ t.state = "subscribed" =>
              \/ /\ ses[i].state = "subscribed" /\ t.queue = q
                 /\ t.flight \in {NoBar, ses[i].flight}
              \/ ses[i].state = "subscribing" /\ t.queue = <<>> /\ t.flight = NoBar
<1> DEFINE s == ses[i]
<1>1. i \in Sessions /\ s # Idle /\ Takes(s, q, t)
  BY DEF Moves
<1>2. Started(i, t) <=> t.flight # NoBar /\ t.flight # s.flight
  BY DEF Started
<1>3. ASSUME s.state = "subscribed", q # <<>>, t.flight = Head(q)
      PROVE  t.flight \in Bar /\ (\A k \in DOMAIN log : log[k].id < t.flight.id) /\ Started(i, t)
  <2>1. QueueRight(i, q)
    BY <1>3, QueueMoves
  <2>2. 1 \in DOMAIN q /\ q[1] = t.flight /\ t.flight \in Bar
    BY <1>3, <2>1 DEF QueueRight
  <2>3. \A a \in Logged(i) : a < t.flight.id
    BY <2>1, <2>2 DEF QueueRight
  <2>4. t.flight.id \in Came(i)' /\ t.flight.id \in 1..MaxBars
    BY <2>1, <2>2 DEF QueueRight, Bar
  <2>5. i = cur
    BY <1>1, <1>3, StartedSession DEF Live
  <2>6. ASSUME NEW k \in DOMAIN log PROVE log[k].id < t.flight.id
    <3> DEFINE j == log[k].ses
               a == log[k].id
    <3>1. j \in Sessions /\ a \in Logged(j) /\ a \in 1..MaxBars
      BY LogTypes DEF IInv
    <3>2. a \in Came(j) /\ Came(j) \subseteq 1..Len(arrived) /\ Len(arrived) \in Nat
      BY <3>1, LogTypes DEF IInv, BarsInOrder, HandedInOrder
    <3>3. a \in DOMAIN arrived /\ arrived[a] = j
      BY <3>2 DEF Came
    <3>4. CASE j = i
      BY <2>3, <3>1, <3>4
    <3>5. CASE j # i
      <4>1. j < i
        <5>1. ses[j].state # "idle"
          BY <3>1, <3>2 DEF IInv, BarsRight
        <5>2. ses[j] # Idle
          BY <5>1 DEF Idle
        <5>3. j <= cur
          BY <3>1, <5>2, StartedSession
        <5> QED
          BY <1>1, <2>5, <3>1, <3>5, <5>3, BoundsAssumption DEF Sessions
      <4>2. CASE t.flight.id = Len(arrived) + 1
        BY <3>2, <4>2
      <4>3. CASE t.flight.id \in Came(i)
        <5>1. t.flight.id \in DOMAIN arrived /\ arrived[t.flight.id] = i
          BY <4>3 DEF Came
        <5>2. ASSUME a > t.flight.id PROVE FALSE
          <6>1. arrived[t.flight.id] <= arrived[a]
            BY <3>3, <5>1, <5>2 DEF IInv, BarsRight
          <6> QED
            BY <1>1, <3>1, <3>3, <4>1, <5>1, <6>1, BoundsAssumption DEF Sessions
        <5>3. a # t.flight.id
          BY <3>3, <3>5, <5>1
        <5> QED
          BY <2>4, <3>1, <5>2, <5>3, BoundsAssumption
      <4> QED
        BY <2>4, <4>2, <4>3, CameMoves
    <3> QED
      BY <3>4, <3>5
  <2>7. t.flight # NoBar
    BY <2>2 DEF Bar, NoBar
  <2>8. t.flight # s.flight
    <3>1. SUFFICES ASSUME t.flight = s.flight PROVE FALSE
      OBVIOUS
    <3>2. s.flight.id \in Logged(i)
      BY <1>1, <1>3, <2>7, <3>1 DEF IInv, BarsRight
    <3> QED
      BY <2>3, <2>4, <3>1, <3>2
  <2> QED
    BY <1>2, <2>2, <2>6, <2>7, <2>8
<1> QED
  BY <1>1, <1>2, <1>3 DEF Takes

(* The log after the step.                                                  *)
LEMMA LogMoves ==
  ASSUME IInv, NEW i, NEW t, NEW q, Moves(i, t, q)
  PROVE  /\ log' \in Seq([ses : Sessions, id : 1..MaxBars])
         /\ \A j \in Sessions : j # i => Logged(j)' = Logged(j)
         /\ ~Started(i, t) => Logged(i)' = Logged(i) /\ log' = log
         /\ Started(i, t) => Logged(i)' = Logged(i) \cup {t.flight.id}
         /\ \A j : j # i => (Barren(j)' <=> Barren(j))
         /\ Started(i, t) => ~Barren(i)'
         /\ \A j, k \in DOMAIN log' : j < k => log'[j].id < log'[k].id
<1> DEFINE E == [ses : Sessions, id : 1..MaxBars]
           n == Len(log)
<1>1. log \in Seq(E) /\ DOMAIN log = 1..n /\ n \in Nat
  BY LogTypes DEF IInv, TypeOK
<1>2. \A j, k \in DOMAIN log : j < k => log[j].id < log[k].id
  BY DEF IInv, BarsInOrder, HandedInOrder
<1>3. CASE ~Started(i, t)
  <2>1. log' = log
    BY <1>3 DEF Moves
  <2> QED
    BY <1>1, <1>2, <1>3, <2>1 DEF Logged, Barren
<1>4. CASE Started(i, t)
  <2> DEFINE e == [ses |-> i, id |-> t.flight.id]
  <2>1. log' = Append(log, e) /\ i \in Sessions
    BY <1>4 DEF Moves
  <2>2. t.flight \in Bar /\ \A k \in DOMAIN log : log[k].id < t.flight.id
    BY <1>4, HandsOver
  <2>3. e \in E
    BY <2>1, <2>2 DEF Bar
  <2>4. e.ses = i /\ e.id = t.flight.id
    OBVIOUS
  <2> HIDE DEF E, e
  <2>5. /\ log' \in Seq(E) /\ DOMAIN log' = 1..(n + 1) /\ log'[n + 1] = e
        /\ \A k \in 1..n : log'[k] = log[k]
    BY <1>1, <2>1, <2>3
  <2>6. n + 1 \in DOMAIN log' /\ \A k \in DOMAIN log' : k \in DOMAIN log \/ k = n + 1
    BY <1>1, <2>5
  <2>7. \A k \in DOMAIN log : k \in DOMAIN log' /\ log'[k] = log[k]
    BY <1>1, <2>5
  <2>8. \A j \in Sessions : j # i => Logged(j)' = Logged(j)
    BY <2>4, <2>5, <2>6, <2>7 DEF Logged
  <2>9. Logged(i)' = Logged(i) \cup {t.flight.id}
    BY <2>4, <2>5, <2>6, <2>7 DEF Logged
  <2>10. (\A j : j # i => (Barren(j)' <=> Barren(j))) /\ ~Barren(i)'
    BY <2>4, <2>5, <2>6, <2>7 DEF Barren
  <2>11. \A j, k \in DOMAIN log' : j < k => log'[j].id < log'[k].id
    <3>1. SUFFICES ASSUME NEW j \in 1..(n + 1), NEW k \in 1..(n + 1), j < k
          PROVE  log'[j].id < log'[k].id
      BY <2>5
    <3>2. j \in DOMAIN log
      BY <1>1, <3>1
    <3>3. CASE k \in DOMAIN log
      BY <1>2, <2>7, <3>1, <3>2, <3>3
    <3>4. CASE k = n + 1
      BY <2>2, <2>4, <2>5, <2>7, <3>2, <3>4
    <3> QED
      BY <1>1, <3>3, <3>4
  <2> QED
    BY <1>4, <2>5, <2>8, <2>9, <2>10, <2>11 DEF E
<1> QED
  BY <1>3, <1>4

LEMMA OtherSessions ==
  ASSUME IInv, NEW i, NEW t, NEW q, Moves(i, t, q)
  PROVE  /\ ses'[i] = t /\ \A j \in Sessions : j # i => ses'[j] = ses[j]
         /\ i \in Sessions /\ t \in Session /\ ses' \in [Sessions -> Session]
<1>1. i \in Sessions /\ t \in Session /\ ses \in [Sessions -> Session]
  BY DEF Moves, Follows, Sound, IInv, TypeOK
<1> QED
  BY <1>1 DEF Moves

LEMMA OrderMoves ==
  ASSUME IInv, NEW i, NEW t, NEW q, Moves(i, t, q)
  PROVE  HandedInOrder'
<1>1. \A j \in Sessions :
        /\ Logged(j) \subseteq Came(j)
        /\ \A a \in Came(j), b \in Logged(j) : a < b => a \in Logged(j)
  BY DEF IInv, BarsInOrder, HandedInOrder
<1>2. /\ Came(i) \subseteq 1..Len(arrived) /\ Len(arrived) \in Nat /\ i \in Sessions
      /\ \A a \in Logged(i) : a \in 1..MaxBars
  BY LogTypes DEF IInv, Moves
<1>3. ASSUME NEW j \in Sessions
      PROVE  /\ Logged(j)' \subseteq Came(j)'
             /\ \A a \in Came(j)', b \in Logged(j)' : a < b => a \in Logged(j)'
  <2>1. CASE j # i
    <3>1. Logged(j)' = Logged(j) /\ Came(j)' = Came(j)
      BY <2>1, LogMoves, CameMoves
    <3> QED
      BY <1>1, <3>1
  <2>2. CASE j = i /\ ~Started(i, t)
    <3>1. Logged(i)' = Logged(i)
      BY <2>2, LogMoves
    <3>2. Came(i)' = Came(i) \/ Came(i)' = Came(i) \cup {Len(arrived) + 1}
      BY CameMoves
    <3>3. \A b \in Logged(i) : b <= Len(arrived)
      BY <1>1, <1>2
    <3> QED
      BY <1>1, <1>2, <2>2, <3>1, <3>2, <3>3, BoundsAssumption
  <2>3. CASE j = i /\ Started(i, t)
    <3>1. Logged(i)' = Logged(i) \cup {t.flight.id} /\ t.flight \in Bar /\ q # <<>>
          /\ t.flight = Head(q)
      BY <2>3, LogMoves, HandsOver
    <3>2. QueueRight(i, q)
      BY <2>3, HandsOver, QueueMoves
    <3>3. /\ q \in Seq(Bar) /\ DOMAIN q = 1..Len(q) /\ Len(q) \in Nat /\ q[1] = t.flight
          /\ 1 \in DOMAIN q
      BY <3>1, <3>2 DEF QueueRight
    <3>4. Logged(i)' \subseteq Came(i)'
      BY <3>1, <3>2, <3>3 DEF QueueRight
    <3>5. ASSUME NEW a \in Came(i)', NEW b \in Logged(i)', a < b
          PROVE  a \in Logged(i)'
      <4>1. CASE a \in Logged(i)
        BY <3>1, <4>1
      <4>2. CASE a \notin Logged(i)
        <5>1. PICK k \in DOMAIN q : a = q[k].id
          BY <3>2, <4>2 DEF QueueRight
        <5>2. k # 1 => t.flight.id < a
          BY <3>2, <3>3, <5>1 DEF QueueRight
        <5>3. t.flight.id \in Nat /\ a \in Nat
          <6>1. q[k] \in Bar
            BY <3>3, <5>1
          <6>2. \A bar \in Bar : bar.id \in Nat
            BY BoundsAssumption DEF Bar
          <6> QED
            BY <3>1, <5>1, <6>1, <6>2
        <5>4. CASE b = t.flight.id
          BY <3>1, <3>3, <3>5, <5>1, <5>2, <5>3, <5>4
        <5>5. CASE b \in Logged(i)
          <6>1. b < a /\ b \in Nat
            BY <1>2, <3>2, <5>1, <5>5, BoundsAssumption DEF QueueRight
          <6> QED
            BY <3>5, <5>3, <6>1
        <5> QED
          BY <3>1, <5>4, <5>5
      <4> QED
        BY <4>1, <4>2
    <3> QED
      BY <2>3, <3>4, <3>5
  <2> QED
    BY <2>1, <2>2, <2>3
<1>4. \A j, k \in DOMAIN log' : j < k => log'[j].id < log'[k].id
  BY LogMoves
<1> QED
  BY <1>3, <1>4 DEF HandedInOrder

LEMMA RestMoves ==
  ASSUME IInv, NEW i, NEW t, NEW q, Moves(i, t, q)
  PROVE  RestIsQueued'
<1>1. SUFFICES ASSUME NEW j \in Sessions, ses'[j].state = "subscribed"
      PROVE  /\ Logged(j)' \cup Queued(j)' = Came(j)'
             /\ \A a \in Logged(j)', b \in Queued(j)' : a < b
             /\ \A m, n \in DOMAIN ses'[j].queue : m < n =>
                  ses'[j].queue[m].id < ses'[j].queue[n].id
             /\ ses'[j].outstanding
                  = Len(ses'[j].queue) + (IF ses'[j].flight = NoBar THEN 0 ELSE 1)
  BY DEF RestIsQueued
<1>2. CASE j # i
  <2>1. ses'[j] = ses[j] /\ Logged(j)' = Logged(j) /\ Came(j)' = Came(j)
    BY <1>2, OtherSessions, LogMoves, CameMoves
  <2>2. Queued(j)' = Queued(j)
    BY <2>1 DEF Queued
  <2> QED
    BY <1>1, <2>1, <2>2 DEF IInv, BarsInOrder, RestIsQueued
<1>3. CASE j = i
  <2>1. /\ ses'[i] = t /\ t.state = "subscribed" /\ i \in Sessions /\ t \in Session
        /\ Queued(i)' = {t.queue[k].id : k \in DOMAIN t.queue}
    BY <1>1, <1>3, OtherSessions DEF Queued
  <2>2. t.outstanding = Len(t.queue) + (IF t.flight = NoBar THEN 0 ELSE 1)
    BY <2>1 DEF Moves, Follows, Staged
  <2>3. CASE ~Started(i, t) /\ ses[i].state = "subscribing"
    <3>1. t.queue = <<>> /\ Logged(i)' = Logged(i)
      BY <2>1, <2>3, HandsOver, LogMoves
    <3>2. Came(i)' = Came(i) /\ Came(i) = {}
      BY <2>1, <2>3, CameMoves DEF IInv, BarsRight, Early
    <3>3. Logged(i) = {}
      BY <2>1, <3>2 DEF IInv, BarsInOrder, HandedInOrder
    <3>4. DOMAIN t.queue = {} /\ Queued(i)' = {}
      BY <2>1, <3>1
    <3> QED
      BY <1>3, <2>1, <2>2, <3>1, <3>2, <3>3, <3>4
  <2>4. CASE ~Started(i, t) /\ ses[i].state # "subscribing"
    <3>1. ses[i].state = "subscribed" /\ t.queue = q /\ Logged(i)' = Logged(i)
      BY <2>1, <2>4, HandsOver, LogMoves
    <3>2. QueueRight(i, q)
      BY <3>1, QueueMoves
    <3> QED
      BY <1>3, <2>1, <2>2, <3>1, <3>2 DEF QueueRight
  <2>5. CASE Started(i, t)
    <3>1. /\ q # <<>> /\ t.flight = Head(q) /\ t.queue = Tail(q)
          /\ Logged(i)' = Logged(i) \cup {t.flight.id}
      BY <2>5, HandsOver, LogMoves
    <3>2. QueueRight(i, q)
      BY <2>5, HandsOver, QueueMoves
    <3> DEFINE n == Len(q) - 1
    <3>3. /\ q \in Seq(Bar) /\ DOMAIN q = 1..(n + 1) /\ n \in Nat /\ q[1] = t.flight
          /\ DOMAIN t.queue = 1..n /\ \A k \in 1..n : t.queue[k] = q[k + 1]
      BY <3>1, <3>2 DEF QueueRight
    <3> HIDE DEF n
    <3>4. \A k \in 1..n : k + 1 \in DOMAIN q /\ 1 < k + 1
      BY <3>3
    <3>5. \A k \in DOMAIN q : k = 1 \/ (k - 1 \in 1..n /\ t.queue[k - 1] = q[k])
      BY <3>3
    <3>6. {q[k].id : k \in DOMAIN q} = {t.flight.id} \cup Queued(i)'
      <4>1. \A k \in DOMAIN q : q[k].id \in {t.flight.id} \cup Queued(i)'
        BY <2>1, <3>3, <3>5
      <4>2. \A k \in DOMAIN t.queue : \E m \in DOMAIN q : t.queue[k].id = q[m].id
        BY <3>3, <3>4
      <4>3. 1 \in DOMAIN q /\ q[1].id = t.flight.id
        BY <3>3
      <4>4. \A b \in Queued(i)' : \E m \in DOMAIN q : b = q[m].id
        BY <2>1, <4>2
      <4> QED
        BY <4>1, <4>3, <4>4
    <3>7. Logged(i)' \cup Queued(i)' = Came(i)'
      BY <3>1, <3>2, <3>6 DEF QueueRight
    <3>8. \A a \in Logged(i)', b \in Queued(i)' : a < b
      <4>1. SUFFICES ASSUME NEW a \in Logged(i)', NEW k \in 1..n
            PROVE  a < t.queue[k].id
        BY <2>1, <3>3
      <4>2. t.queue[k] = q[k + 1] /\ k + 1 \in DOMAIN q /\ 1 \in DOMAIN q /\ 1 < k + 1
        BY <3>3, <3>4
      <4> QED
        BY <3>1, <3>2, <3>3, <4>2 DEF QueueRight
    <3>9. \A m, k \in DOMAIN t.queue : m < k => t.queue[m].id < t.queue[k].id
      <4>1. SUFFICES ASSUME NEW m \in 1..n, NEW k \in 1..n, m < k
            PROVE  t.queue[m].id < t.queue[k].id
        BY <3>3
      <4>2. m + 1 < k + 1 /\ m + 1 \in DOMAIN q /\ k + 1 \in DOMAIN q
        BY <3>3, <4>1
      <4> QED
        BY <3>2, <3>3, <4>2 DEF QueueRight
    <3> QED
      BY <1>3, <2>1, <2>2, <3>7, <3>8, <3>9
  <2> QED
    BY <2>3, <2>4, <2>5
<1> QED
  BY <1>2, <1>3

LEMMA BarsMove ==
  ASSUME IInv, NEW i, NEW t, NEW q, Moves(i, t, q)
  PROVE  BarsRight'
<1>1. \A j, k \in DOMAIN arrived' : j < k => arrived'[j] <= arrived'[k]
  <2>1. /\ arrived \in Seq(Sessions) /\ DOMAIN arrived = 1..Len(arrived) /\ Len(arrived) \in Nat
    BY LogTypes DEF IInv
  <2>2. \A j, k \in DOMAIN arrived : j < k => arrived[j] <= arrived[k]
    BY DEF IInv, BarsRight
  <2>3. CASE arrived' = arrived
    BY <2>2, <2>3
  <2>4. CASE arrived' = Append(arrived, i) /\ ses[i].state = "subscribed"
    <3>1. i \in Sessions /\ ses[i] # Idle
      BY DEF Moves
    <3>2. i = cur
      BY <2>4, <3>1, StartedSession DEF Live
    <3>3. ASSUME NEW k \in DOMAIN arrived PROVE arrived[k] <= i
      <4>1. arrived[k] \in Sessions /\ k \in Came(arrived[k])
        BY <2>1 DEF Came
      <4>2. ses[arrived[k]] # Idle
        BY <4>1 DEF IInv, BarsRight, Idle
      <4> QED
        BY <3>2, <4>1, <4>2, StartedSession
    <3>4. /\ DOMAIN arrived' = 1..(Len(arrived) + 1) /\ arrived'[Len(arrived) + 1] = i
          /\ \A k \in 1..Len(arrived) : arrived'[k] = arrived[k]
      BY <2>1, <2>4, <3>1
    <3>5. SUFFICES ASSUME NEW j \in 1..(Len(arrived) + 1), NEW k \in 1..(Len(arrived) + 1), j < k
          PROVE  arrived'[j] <= arrived'[k]
      BY <3>4
    <3>6. j \in 1..Len(arrived)
      BY <2>1, <3>5
    <3>7. CASE k \in 1..Len(arrived)
      BY <2>1, <2>2, <3>4, <3>5, <3>6, <3>7
    <3>8. CASE k = Len(arrived) + 1
      BY <2>1, <3>3, <3>4, <3>6, <3>8
    <3> QED
      BY <2>1, <3>7, <3>8
  <2> QED
    BY <2>3, <2>4, CameMoves
<1>2. ASSUME NEW j \in Sessions
      PROVE  /\ ses'[j].state \in Early \cup {"idle"} => Came(j)' = {}
             /\ ses'[j].state = "subscribed" /\ ses'[j].flight # NoBar =>
                  ses'[j].flight.id \in Logged(j)'
  <2>1. CASE j # i
    <3>1. ses'[j] = ses[j] /\ Logged(j)' = Logged(j) /\ Came(j)' = Came(j)
      BY <2>1, OtherSessions, LogMoves, CameMoves
    <3> QED
      BY <3>1 DEF IInv, BarsRight
  <2>2. CASE j = i
    <3>1. ses'[i] = t /\ i \in Sessions /\ t.state # "idle"
      BY OtherSessions DEF Moves, Follows, Sound
    <3>2. ASSUME t.state \in Early PROVE Came(i)' = {}
      <4>1. ses[i].state \in Early
        BY <3>2 DEF Moves, Follows
      <4> QED
        BY <3>1, <4>1, CameMoves DEF IInv, BarsRight, Early
    <3>3. ASSUME t.state = "subscribed", t.flight # NoBar PROVE t.flight.id \in Logged(i)'
      <4>1. CASE Started(i, t)
        BY <4>1, LogMoves
      <4>2. CASE ~Started(i, t)
        BY <3>1, <3>3, <4>2, HandsOver, LogMoves DEF IInv, BarsRight
      <4> QED
        BY <4>1, <4>2
    <3> QED
      BY <2>2, <3>1, <3>2, <3>3
  <2> QED
    BY <2>1, <2>2
<1> QED
  BY <1>1, <1>2 DEF BarsRight

(* What the supervisor makes of the end of a session.                       *)
LEMMA ReactEffect ==
  ASSUME TypeOK, NEW end \in {"stopped", "retry", "terminal"}, React(end)
  PROVE  /\ sup' \in Supervisor /\ sup'.pc \in {"ended", "sleep"}
         /\ sup'.pc = "ended" => conn' \in {"stopped", "terminal_failure"}
         /\ sup'.pc = "sleep" =>
              /\ end = "retry" /\ conn' = "reconnecting" /\ sup'.attempt = sup.attempt + 1
              /\ sup'.result = sup.result
         /\ sup'.result = "exhausted" =>
              sup'.pc = "sleep" \/ (sup'.pc = "ended" /\ sup.attempt = MaximumAttempts)
<1>1. /\ sup \in Supervisor /\ sup.attempt \in 0..MaximumAttempts /\ MaximumAttempts \in Nat
  BY BoundsAssumption DEF TypeOK, Supervisor
<1>2. CASE end = "stopped"
  BY <1>1, <1>2 DEF React, Ended, Supervisor
<1>3. CASE end = "terminal"
  BY <1>1, <1>3 DEF React, Ended, Supervisor
<1>4. CASE end = "retry" /\ sup.attempt + 1 > MaximumAttempts
  <2>1. sup.attempt = MaximumAttempts
    BY <1>1, <1>4
  <2>2. Ended("terminal_failure", "exhausted")
    BY <1>4 DEF React, GiveUp
  <2> QED
    BY <1>1, <2>1, <2>2 DEF Ended, Supervisor
<1>5. CASE end = "retry" /\ ~(sup.attempt + 1 > MaximumAttempts)
  <2>1. sup' = [sup EXCEPT !.pc = "sleep", !.attempt = sup.attempt + 1] /\ conn' = "reconnecting"
    BY <1>5 DEF React, GiveUp
  <2>2. sup.attempt + 1 \in 0..MaximumAttempts
    BY <1>1, <1>5
  <2> QED
    BY <1>1, <1>5, <2>1, <2>2 DEF Supervisor
<1> QED
  BY <1>2, <1>3, <1>4, <1>5

(* The three ways a step of a session concerns the supervisor.              *)
LEMMA SupMoves ==
  ASSUME IInv, NEW i, NEW t, NEW q, Moves(i, t, q)
  PROVE  /\ sup \in Supervisor /\ sup' \in Supervisor
         /\ \/ /\ ~Live(ses[i]) /\ ~Live(t) /\ UNCHANGED <<sup, conn, log>>
               /\ t.callback = ses[i].callback /\ t.malformed = ses[i].malformed
            \/ /\ Live(ses[i]) /\ ~Live(t) /\ i = cur /\ sup.pc = "watch" /\ log' = log
               /\ t.end \in {"stopped", "retry", "terminal"} /\ React(t.end)
               /\ t.end = "retry" => ~t.callback /\ ~t.malformed
            \/ /\ Live(ses[i]) /\ Live(t) /\ i = cur /\ sup.pc = "watch" /\ sup'.pc = "watch"
               /\ sup'.result = sup.result /\ conn' = t.status
               /\ sup'.attempt = IF Started(i, t) THEN 0 ELSE sup.attempt
<1> DEFINE s == ses[i]
<1>1. /\ i \in Sessions /\ s # Idle /\ Follows(s, t) /\ Sound(t)
      /\ sup \in Supervisor /\ sup.attempt \in 0..MaximumAttempts
      /\ MaximumAttempts \in Nat
  BY BoundsAssumption DEF Moves, Follows, IInv, TypeOK, Supervisor
<1>2. /\ Live(s) <=> s.state # "closed"
      /\ Live(s) <=> s.end = "none"
      /\ Live(s) <=> i = cur /\ sup.pc = "watch"
  BY <1>1, StartedSession
<1>3. Live(t) <=> t.end = "none"
  BY <1>1 DEF Live, Sound
<1>4. Started(i, t) => s.state = "subscribed" /\ t.state = "subscribed"
  BY HandsOver
<1>5. ~Started(i, t) => log' = log
  BY DEF Moves
<1>6. CASE ~Live(s)
  <2>1. UNCHANGED <<sup, conn>>
    BY <1>2, <1>6 DEF Moves
  <2>2. t.state = "closed" /\ t.callback = s.callback /\ t.malformed = s.malformed
    BY <1>1, <1>2, <1>6 DEF Follows
  <2> QED
    BY <1>1, <1>4, <1>5, <1>6, <2>1, <2>2 DEF Live
<1>7. CASE Live(s) /\ ~Live(t)
  <2>1. React(t.end)
    BY <1>2, <1>3, <1>7 DEF Moves
  <2>2. t.end \in {"stopped", "retry", "terminal"}
    BY <1>1, <1>3, <1>7 DEF Sound, Session, Ends
  <2>3. log' = log
    BY <1>4, <1>5, <1>7 DEF Live
  <2>4. t.end = "retry" => ~t.callback /\ ~t.malformed
    BY <1>1, <1>2, <1>7 DEF Follows
  <2>5. sup' \in Supervisor
    BY <2>1, <2>2, ReactEffect DEF IInv
  <2> QED
    BY <1>1, <1>2, <1>7, <2>1, <2>2, <2>3, <2>4, <2>5
<1>8. CASE Live(s) /\ Live(t)
  <2>1. sup' = (IF Started(i, t) THEN [sup EXCEPT !.attempt = 0] ELSE sup) /\ conn' = t.status
    BY <1>2, <1>3, <1>8 DEF Moves
  <2>2. sup' \in Supervisor /\ sup'.pc = sup.pc /\ sup'.result = sup.result
        /\ sup'.attempt = IF Started(i, t) THEN 0 ELSE sup.attempt
    BY <1>1, <2>1 DEF Supervisor
  <2> QED
    BY <1>1, <1>2, <1>8, <2>1, <2>2
<1> QED
  BY <1>6, <1>7, <1>8

(* No bar of a session still to come was handed over.                       *)
LEMMA FutureBarren ==
  ASSUME IInv, NEW n \in Nat, n > cur
  PROVE  Barren(n)
<1>1. SUFFICES ASSUME NEW k \in DOMAIN log, log[k].ses = n PROVE FALSE
  BY DEF Barren
<1>2. n \in Sessions /\ log[k].id \in Logged(n)
  BY <1>1, LogTypes DEF IInv
<1>3. ses[n] = Idle
  BY <1>2 DEF IInv, SessionsRight
<1>4. Came(n) = {}
  BY <1>2, <1>3 DEF IInv, BarsRight, Idle
<1> QED
  BY <1>2, <1>4 DEF IInv, BarsInOrder, HandedInOrder

(* A session that failed leaves the count right: one attempt more for the   *)
(* next session, or a budget that is spent.                                 *)
LEMMA ReactCounts ==
  ASSUME TypeOK, NEW end \in {"stopped", "retry", "terminal"}, React(end), log' = log,
         cur' \in Nat, Counted(cur', sup.attempt), Barren(cur' + 1)
  PROVE  /\ CountRight'
         /\ sup'.result = "exhausted" /\ sup'.pc = "ended" =>
              cur' >= MaximumAttempts /\ \A i \in (cur' - MaximumAttempts + 1)..cur' : Barren(i)'
<1>1. PICK n \in Nat, a \in 0..MaximumAttempts : n = cur' /\ a = sup.attempt
  BY DEF TypeOK
<1>2. MaximumAttempts \in Nat /\ a \in Nat
  BY BoundsAssumption
<1>3. Silent' = Silent /\ (\A i : Barren(i)' <=> Barren(i)) /\ n + 1 \in Silent
  <2>1. \A i : Barren(i)' <=> Barren(i)
    BY DEF Barren
  <2>2. Silent' = Silent
    BY <2>1 DEF Silent
  <2>3. Barren(n + 1)
    BY <1>1
  <2>4. n + 1 \in Silent
    <3> DEFINE m == n + 1
    <3>1. m \in Nat
      OBVIOUS
    <3>2. Barren(m)
      BY <2>3
    <3> HIDE DEF m
    <3>3. m \in Silent
      BY <3>1, <3>2 DEF Silent
    <3> QED
      BY <3>3 DEF m
  <2> QED
    BY <2>1, <2>2, <2>4
<1>4. /\ n - a = 1 \/ (n - a > 1 /\ n - a \notin Silent)
      /\ \A i \in (n - a + 1)..n : i \in Silent
  BY <1>1 DEF Counted
<1>5. ASSUME sup'.pc = "sleep" PROVE sup'.attempt > 0 /\ Counted(cur + 1, sup.attempt)'
  <2>1. sup'.attempt = a + 1 /\ cur' = n
    BY <1>1, <1>5, ReactEffect
  <2>2. (n + 1) - (a + 1) = n - a /\ a + 1 > 0
    BY <1>2
  <2>3. \A i \in (n - a + 1)..(n + 1) : i \in Silent
    <3>1. \A i \in (n - a + 1)..(n + 1) : i \in (n - a + 1)..n \/ i = n + 1
      BY <1>2
    <3> QED
      BY <1>3, <1>4, <3>1
  <2>4. Counted(n + 1, a + 1)
    BY <1>4, <2>2, <2>3 DEF Counted
  <2>5. Counted(cur + 1, sup.attempt)'
    BY <1>3, <2>1, <2>4 DEF Counted
  <2> QED
    BY <2>1, <2>2, <2>5
<1>6. sup'.pc # "watch"
  BY ReactEffect
<1>7. ASSUME sup'.result = "exhausted", sup'.pc = "ended"
      PROVE  n >= MaximumAttempts /\ \A i \in (n - MaximumAttempts + 1)..n : Barren(i)'
  <2>1. a = MaximumAttempts
    BY <1>1, <1>7, ReactEffect
  <2>2. n >= MaximumAttempts
    BY <1>2, <1>4, <2>1
  <2>3. \A i \in (n - MaximumAttempts + 1)..n : Barren(i)
    BY <1>4, <2>1 DEF Silent
  <2> QED
    BY <1>3, <2>2, <2>3
<1> QED
  BY <1>1, <1>5, <1>6, <1>7 DEF CountRight

LEMMA CountMoves ==
  ASSUME IInv, NEW i, NEW t, NEW q, Moves(i, t, q)
  PROVE  CountRight' /\ RetryBudget'
<1>1. /\ cur' = cur /\ cur \in 0..MaxSessions /\ cur \in Nat /\ MaximumAttempts \in Nat
      /\ sup \in Supervisor /\ sup.attempt \in 0..MaximumAttempts /\ TypeOK /\ i \in Sessions
  BY BoundsAssumption DEF IInv, TypeOK, Moves, Supervisor
<1>2. CountRight /\ RetryBudget /\ ShownRight
  BY DEF IInv
<1>3. \A j : ~Barren(j) => ~Barren(j)'
  <2>1. SUFFICES ASSUME NEW j, ~Barren(j) PROVE ~Barren(j)'
    OBVIOUS
  <2>2. CASE j # i
    BY <2>1, <2>2, LogMoves
  <2>3. CASE j = i /\ Started(i, t)
    BY <2>3, LogMoves
  <2>4. CASE ~Started(i, t)
    <3>1. log' = log
      BY <2>4, LogMoves
    <3> QED
      BY <2>1, <3>1 DEF Barren
  <2> QED
    BY <2>2, <2>3, <2>4
<1>4. cur' > MaximumAttempts + 1 =>
        \E j \in (cur' - MaximumAttempts)..(cur' - 1) : ~Barren(j)'
  BY <1>1, <1>2, <1>3 DEF RetryBudget
<1>5. CASE UNCHANGED <<sup, conn, log>>
  <2>1. Silent' = Silent /\ \A j : Barren(j)' <=> Barren(j)
    BY <1>5 DEF Barren, Silent
  <2>2. CountRight'
    BY <1>1, <1>2, <1>5, <2>1 DEF CountRight, Counted
  <2>3. RetryBudget'
    BY <1>1, <1>2, <1>4, <1>5, <2>1 DEF RetryBudget
  <2> QED
    BY <2>2, <2>3
<1>6. CASE /\ sup.pc = "watch" /\ log' = log
           /\ t.end \in {"stopped", "retry", "terminal"} /\ React(t.end)
  <2>1. Counted(cur', sup.attempt) /\ sup.result # "exhausted"
    BY <1>1, <1>2, <1>6 DEF CountRight, ShownRight
  <2>2. Barren(cur' + 1)
    <3>1. cur + 1 \in Nat /\ cur + 1 > cur
      BY <1>1
    <3> QED
      BY <1>1, <3>1, FutureBarren
  <2>3. /\ CountRight'
        /\ sup'.result = "exhausted" /\ sup'.pc = "ended" =>
             cur' >= MaximumAttempts /\ \A j \in (cur' - MaximumAttempts + 1)..cur' : Barren(j)'
    BY <1>1, <1>6, <2>1, <2>2, ReactCounts
  <2>4. sup'.result = "exhausted" => sup'.pc = "ended"
    BY <1>1, <1>6, <2>1, ReactEffect
  <2> QED
    BY <1>4, <2>3, <2>4 DEF RetryBudget
<1>7. CASE /\ i = cur /\ sup.pc = "watch" /\ sup'.pc = "watch" /\ sup'.result = sup.result
           /\ sup'.attempt = IF Started(i, t) THEN 0 ELSE sup.attempt
  <2>1. Counted(cur, sup.attempt) /\ sup.result # "exhausted"
    BY <1>2, <1>7 DEF CountRight, ShownRight
  <2>2. CASE Started(i, t)
    <3>1. ~Barren(i)' /\ i >= 1
      BY <1>1, <2>2, LogMoves DEF Sessions
    <3>2. i \notin Silent'
      BY <3>1 DEF Silent
    <3>3. Counted(cur, sup.attempt)'
      <4>1. cur' = i /\ sup'.attempt = 0 /\ i \in Nat
        BY <1>1, <1>7, <2>2
      <4>2. i - 0 = 1 \/ (i - 0 > 1 /\ i - 0 \notin Silent')
        BY <3>1, <3>2, <4>1
      <4>3. (i - 0 + 1)..i = {}
        BY <4>1
      <4> QED
        BY <4>1, <4>2, <4>3 DEF Counted
    <3> QED
      BY <1>4, <1>7, <2>1, <3>3 DEF CountRight, RetryBudget
  <2>3. CASE ~Started(i, t)
    <3>1. Silent' = Silent
      BY <2>3, LogMoves DEF Barren, Silent
    <3>2. Counted(cur, sup.attempt)'
      BY <1>1, <1>7, <2>1, <2>3, <3>1 DEF Counted
    <3> QED
      BY <1>4, <1>7, <2>1, <3>2 DEF CountRight, RetryBudget
  <2> QED
    BY <2>2, <2>3
<1> QED
  BY <1>5, <1>6, <1>7, SupMoves

LEMMA SessionsMove ==
  ASSUME IInv, NEW i, NEW t, NEW q, Moves(i, t, q)
  PROVE  SessionsRight' /\ ShownRight' /\ FailedRight'
<1>1. /\ ses'[i] = t /\ i \in Sessions /\ ses[i] # Idle /\ cur' = cur
      /\ \A j \in Sessions : j # i => ses'[j] = ses[j]
  BY OtherSessions DEF Moves
<1>2. Sound(t) /\ Staged(t) /\ i <= cur
  BY <1>1, StartedSession DEF Moves, Follows
<1>3. Right(t) /\ t # Idle /\ ~(i > cur)
  BY <1>1, <1>2, BoundsAssumption DEF Right, Sound, Idle, Sessions, IInv, TypeOK
<1>4. Live(ses[i]) <=> i = cur /\ sup.pc = "watch"
  BY <1>1 DEF IInv, SessionsRight
<1>5. SessionsRight'
  <2>1. SUFFICES ASSUME NEW j \in Sessions
        PROVE  /\ Right(ses'[j])
               /\ ses'[j] = Idle <=> j > cur
               /\ Live(ses'[j]) <=> j = cur /\ sup'.pc = "watch"
    BY <1>1 DEF SessionsRight, Right, Sound, Staged, Live, Shut
  <2>2. CASE j = i
    <3>1. Live(t) <=> i = cur /\ sup'.pc = "watch"
      <4>1. CASE ~Live(ses[i]) /\ ~Live(t) /\ UNCHANGED <<sup, conn, log>>
        BY <1>4, <4>1
      <4>2. CASE /\ Live(ses[i]) /\ ~Live(t) /\ React(t.end)
                 /\ t.end \in {"stopped", "retry", "terminal"}
        BY <4>2, ReactEffect DEF IInv
      <4>3. CASE Live(ses[i]) /\ Live(t) /\ i = cur /\ sup'.pc = "watch"
        BY <4>3
      <4> QED
        BY <4>1, <4>2, <4>3, SupMoves
    <3> QED
      BY <1>1, <1>3, <2>2, <3>1
  <2>3. CASE j # i
    <3>1. ses'[j] = ses[j]
      BY <1>1, <2>3
    <3>2. /\ Right(ses[j]) /\ (ses[j] = Idle <=> j > cur)
          /\ (Live(ses[j]) <=> j = cur /\ sup.pc = "watch")
      BY DEF IInv, SessionsRight
    <3>3. j = cur => sup' = sup
      BY <1>4, <2>3, SupMoves
    <3> QED
      BY <3>1, <3>2, <3>3, <2>3, SupMoves
  <2> QED
    BY <2>2, <2>3
<1>6. ShownRight'
  <2>1. CASE ~Live(ses[i]) /\ UNCHANGED <<sup, conn, log>>
    <3>1. sup.pc = "watch" => ses'[cur] = ses[cur]
      BY <1>1, <1>4, <2>1 DEF IInv, ShownRight
    <3> QED
      BY <1>1, <2>1, <3>1 DEF IInv, ShownRight
  <2>2. CASE /\ i = cur /\ sup.pc = "watch" /\ React(t.end)
             /\ t.end \in {"stopped", "retry", "terminal"}
    <3>1. sup.result # "exhausted"
      BY <2>2 DEF IInv, ShownRight
    <3> QED
      BY <1>1, <2>2, <3>1, ReactEffect DEF IInv, ShownRight
  <2>3. CASE /\ i = cur /\ sup.pc = "watch" /\ sup'.pc = "watch" /\ sup'.result = sup.result
             /\ conn' = t.status
    <3>1. sup.result # "exhausted"
      BY <2>3 DEF IInv, ShownRight
    <3> QED
      BY <1>1, <2>3, <3>1 DEF ShownRight
  <2> QED
    BY <2>1, <2>2, <2>3, SupMoves
<1>7. FailedRight'
  <2>1. SUFFICES ASSUME NEW j \in Sessions, ses'[j].callback \/ ses'[j].malformed
        PROVE  j = cur /\ sup'.pc \in {"watch", "ended"}
    BY <1>1 DEF FailedRight
  <2>2. CASE j # i
    <3>1. j = cur /\ sup.pc \in {"watch", "ended"}
      BY <1>1, <2>1, <2>2 DEF IInv, FailedRight
    <3>2. sup' = sup
      BY <1>4, <2>2, <3>1, SupMoves
    <3> QED
      BY <3>1, <3>2
  <2>3. CASE j = i
    <3>1. t.callback \/ t.malformed
      BY <1>1, <2>1, <2>3
    <3>2. CASE /\ UNCHANGED <<sup, conn, log>>
               /\ t.callback = ses[i].callback /\ t.malformed = ses[i].malformed
      BY <1>1, <2>3, <3>1, <3>2 DEF IInv, FailedRight
    <3>3. CASE /\ i = cur /\ React(t.end) /\ t.end \in {"stopped", "retry", "terminal"}
               /\ t.end = "retry" => ~t.callback /\ ~t.malformed
      BY <2>3, <3>1, <3>3, ReactEffect DEF IInv
    <3>4. CASE i = cur /\ sup'.pc = "watch"
      BY <2>3, <3>4
    <3> QED
      BY <3>2, <3>3, <3>4, SupMoves
  <2> QED
    BY <2>2, <2>3
<1> QED
  BY <1>5, <1>6, <1>7

LEMMA TypeMoves ==
  ASSUME IInv, NEW i, NEW t, NEW q, Moves(i, t, q)
  PROVE  TypeOK'
<1>1. ses' \in [Sessions -> Session] /\ i \in Sessions /\ t \in Session
  BY OtherSessions
<1>2. sup' \in Supervisor /\ cur' \in 0..MaxSessions
  BY SupMoves DEF Moves, IInv, TypeOK
<1>3. conn' \in {"connecting", "authenticating", "subscribed", "reconnecting",
                 "stopped", "terminal_failure"}
  <2>1. CASE UNCHANGED <<sup, conn, log>>
    BY <2>1 DEF IInv, TypeOK
  <2>2. CASE React(t.end) /\ t.end \in {"stopped", "retry", "terminal"}
    BY <2>2, ReactEffect DEF IInv
  <2>3. CASE conn' = t.status
    BY <1>1, <2>3 DEF Session, Statuses
  <2> QED
    BY <2>1, <2>2, <2>3, SupMoves
<1>4. arrived' \in Seq(Sessions) /\ log' \in Seq([ses : Sessions, id : 1..MaxBars])
  BY CameMoves, LogMoves
<1>5. faults' \in 0..MaxFaults /\ aborted' \in BOOLEAN
  BY DEF Moves
<1> QED
  BY <1>1, <1>2, <1>3, <1>4, <1>5 DEF TypeOK, Supervisor

(* The state shown moves along the table of the contract.                   *)
LEMMA ContractMoves ==
  ASSUME IInv, NEW i, NEW t, NEW q, Moves(i, t, q)
  PROVE  [Contract!Move]_conn
<1> DEFINE s == ses[i]
<1>1. i \in Sessions /\ s # Idle /\ Follows(s, t)
  BY DEF Moves
<1>2. s.status \in Statuses /\ t.status \in Statuses
  BY <1>1, StartedSession DEF Follows, Sound, Session
<1>3. sup.pc = "watch" /\ i = cur => conn = s.status
  BY DEF IInv, ShownRight
<1>4. CASE UNCHANGED <<sup, conn, log>>
  BY <1>4
<1>5. CASE /\ i = cur /\ sup.pc = "watch" /\ React(t.end)
           /\ t.end \in {"stopped", "retry", "terminal"}
  <2>1. conn \in Statuses
    BY <1>2, <1>3, <1>5
  <2>2. conn' \in {"stopped", "terminal_failure", "reconnecting"}
    BY <1>5, ReactEffect DEF IInv
  <2> QED
    BY <2>1, <2>2 DEF Contract!Move, Contract!Table, Statuses
<1>6. CASE i = cur /\ sup.pc = "watch" /\ conn' = t.status
  BY <1>1, <1>3, <1>6 DEF Contract!Move, Contract!Table, Follows
<1> QED
  BY <1>4, <1>5, <1>6, SupMoves

LEMMA MovesKeep ==
  ASSUME IInv, NEW i, NEW t, NEW q, Moves(i, t, q)
  PROVE  IInv' /\ [Contract!Move]_conn
BY TypeMoves, SessionsMove, BarsMove, CountMoves, OrderMoves, RestMoves, ContractMoves
   DEF IInv, BarsInOrder

(* A new session, or one whose socket could not be created.                 *)
Opens(t) ==
  /\ sup.pc \in {"start", "sleep"} /\ cur < MaxSessions /\ cur' = cur + 1
  /\ ses' = [ses EXCEPT ![cur + 1] = t] /\ Sound(t) /\ Staged(t)
  /\ \/ /\ t.state = "connecting" /\ t.status = "connecting"
        /\ sup' = [sup EXCEPT !.pc = "watch"] /\ conn' = "connecting"
     \/ t.state = "closed" /\ ~t.callback /\ ~t.malformed /\ React("retry")
  /\ arrived' = arrived /\ log' = log
  /\ faults' \in 0..MaxFaults /\ aborted' \in BOOLEAN

LEMMA OpensSup ==
  ASSUME IInv, NEW t, Opens(t)
  PROVE  /\ sup \in Supervisor /\ sup' \in Supervisor
         /\ cur \in Nat /\ cur + 1 \in Sessions /\ cur' = cur + 1 /\ cur' \in 0..MaxSessions
         /\ MaximumAttempts \in Nat
         /\ sup.result # "exhausted"
         /\ conn \in {"connecting", "reconnecting"}
         /\ \/ /\ t.state = "connecting" /\ t.status = "connecting" /\ conn' = "connecting"
               /\ sup'.pc = "watch" /\ sup'.attempt = sup.attempt /\ sup'.result = sup.result
            \/ /\ t.state = "closed" /\ ~t.callback /\ ~t.malformed /\ React("retry")
               /\ sup'.pc \in {"ended", "sleep"}
               /\ conn' \in {"stopped", "terminal_failure", "reconnecting"}
<1>1. sup \in Supervisor /\ cur \in 0..MaxSessions /\ TypeOK
  BY DEF IInv, TypeOK, Supervisor
<1>2. cur \in Nat /\ cur + 1 \in Sessions /\ cur' = cur + 1 /\ cur' \in 0..MaxSessions
      /\ MaximumAttempts \in Nat
  BY <1>1, BoundsAssumption DEF Opens, Sessions
<1>3. sup.result # "exhausted" /\ conn \in {"connecting", "reconnecting"}
  BY DEF IInv, ShownRight, Opens
<1>4. CASE /\ t.state = "connecting" /\ t.status = "connecting"
           /\ sup' = [sup EXCEPT !.pc = "watch"] /\ conn' = "connecting"
  BY <1>1, <1>2, <1>3, <1>4 DEF Supervisor
<1>5. CASE t.state = "closed" /\ ~t.callback /\ ~t.malformed /\ React("retry")
  <2>1. /\ sup' \in Supervisor /\ sup'.pc \in {"ended", "sleep"}
        /\ conn' \in {"stopped", "terminal_failure", "reconnecting"}
    BY <1>1, <1>5, ReactEffect
  <2> QED
    BY <1>1, <1>2, <1>3, <1>5, <2>1
<1> QED
  BY <1>4, <1>5 DEF Opens

LEMMA OpensCounts ==
  ASSUME IInv, NEW t, Opens(t)
  PROVE  CountRight' /\ RetryBudget'
<1>1. /\ sup \in Supervisor /\ sup.attempt \in 0..MaximumAttempts /\ MaximumAttempts \in Nat
      /\ cur \in Nat /\ cur' = cur + 1 /\ sup.result # "exhausted" /\ TypeOK
  BY OpensSup DEF IInv, Supervisor
<1>2. Silent' = Silent /\ \A j : Barren(j)' <=> Barren(j)
  BY DEF Opens, Barren, Silent
<1>3. Counted(cur + 1, sup.attempt)
  <2>1. CASE sup.pc = "sleep"
    BY <2>1 DEF IInv, CountRight
  <2>2. CASE sup.pc = "start"
    <3>1. cur = 0 /\ sup.attempt = 0
      BY <2>2 DEF IInv, ShownRight
    <3> QED
      BY <3>1 DEF Counted
  <2> QED
    BY <2>1, <2>2 DEF Opens
<1>4. cur' > MaximumAttempts + 1 =>
        \E j \in (cur' - MaximumAttempts)..(cur' - 1) : ~Barren(j)'
  <2>1. SUFFICES ASSUME cur + 1 > MaximumAttempts + 1
        PROVE  \E j \in (cur + 1 - MaximumAttempts)..cur : ~Barren(j)
    BY <1>1, <1>2
  <2> DEFINE j == (cur + 1) - sup.attempt
  <2>2. sup.attempt > 0
    BY <1>1, <2>1 DEF IInv, ShownRight, CountRight, Opens
  <2>3. j \in (cur + 1 - MaximumAttempts)..cur /\ j # 1 /\ j \in Nat
    BY <1>1, <2>1, <2>2
  <2>4. j \notin Silent
    <3>1. j = 1 \/ (j > 1 /\ j \notin Silent)
      BY <1>3 DEF Counted
    <3> QED
      BY <2>3, <3>1
  <2> HIDE DEF j
  <2>5. ~Barren(j)
    BY <2>3, <2>4 DEF Silent
  <2> QED
    BY <2>3, <2>5
<1>5. CASE sup'.pc = "watch" /\ sup'.attempt = sup.attempt /\ sup'.result = sup.result
  <2>1. Counted(cur, sup.attempt)'
    BY <1>1, <1>2, <1>3, <1>5 DEF Counted
  <2> QED
    BY <1>1, <1>4, <1>5, <2>1 DEF CountRight, RetryBudget
<1>6. CASE React("retry")
  <2>1. Barren(cur + 2)
    <3>1. cur + 2 \in Nat /\ cur + 2 > cur
      BY <1>1
    <3> QED
      BY <3>1, FutureBarren
  <2>2. cur' \in Nat /\ Counted(cur', sup.attempt) /\ Barren(cur' + 1)
    <3>1. cur' + 1 = cur + 2 /\ cur' \in Nat
      BY <1>1
    <3> QED
      BY <1>1, <1>3, <2>1, <3>1
  <2>3. log' = log
    BY DEF Opens
  <2>4. /\ CountRight'
        /\ sup'.result = "exhausted" /\ sup'.pc = "ended" =>
             cur' >= MaximumAttempts /\ \A i \in (cur' - MaximumAttempts + 1)..cur' : Barren(i)'
    BY <1>1, <1>6, <2>2, <2>3, ReactCounts
  <2>5. sup'.result = "exhausted" => sup'.pc = "ended"
    BY <1>1, <1>6, ReactEffect
  <2> QED
    BY <1>4, <2>4, <2>5 DEF RetryBudget
<1> QED
  BY <1>5, <1>6, OpensSup

LEMMA OpensKeep ==
  ASSUME IInv, NEW t, Opens(t)
  PROVE  IInv' /\ [Contract!Move]_conn
<1> DEFINE i == cur + 1
<1>1. /\ i \in Sessions /\ cur \in Nat /\ cur' = i /\ cur' \in 0..MaxSessions
      /\ sup' \in Supervisor
  BY OpensSup
<1>2. /\ ses \in [Sessions -> Session] /\ t \in Session /\ TypeOK
      /\ arrived' = arrived /\ log' = log /\ Sound(t) /\ Staged(t)
  BY DEF IInv, TypeOK, Opens, Sound
<1>3. ses'[i] = t /\ (\A j \in Sessions : j # i => ses'[j] = ses[j])
      /\ ses' \in [Sessions -> Session]
  BY <1>1, <1>2 DEF Opens
<1>4. ses[i] = Idle
  BY <1>1 DEF IInv, SessionsRight
<1>5. TypeOK'
  <2>1. conn' \in {"connecting", "authenticating", "subscribed", "reconnecting",
                   "stopped", "terminal_failure"}
    BY OpensSup
  <2>2. faults' \in 0..MaxFaults /\ aborted' \in BOOLEAN
    BY DEF Opens
  <2> QED
    BY <1>1, <1>2, <1>3, <2>1, <2>2 DEF TypeOK, Supervisor
<1>6. SessionsRight'
  <2>1. SUFFICES ASSUME NEW j \in Sessions
        PROVE  /\ Right(ses'[j])
               /\ ses'[j] = Idle <=> j > i
               /\ Live(ses'[j]) <=> j = i /\ sup'.pc = "watch"
    BY <1>1 DEF SessionsRight, Right, Sound, Staged, Live, Shut
  <2>2. CASE j = i
    <3>1. Right(t) /\ t # Idle
      BY <1>2 DEF Right, Sound, Idle
    <3>2. Live(t) <=> sup'.pc = "watch"
      BY OpensSup DEF Live
    <3> QED
      BY <1>1, <1>3, <2>2, <3>1, <3>2
  <2>3. CASE j # i
    <3>1. ses'[j] = ses[j] /\ Right(ses[j]) /\ (ses[j] = Idle <=> j > cur) /\ ~Live(ses[j])
      BY <1>3, <2>3 DEF IInv, SessionsRight, Opens
    <3>2. j > cur <=> j > i
      BY <1>1, <2>3, BoundsAssumption DEF Sessions
    <3> QED
      BY <2>3, <3>1, <3>2
  <2> QED
    BY <2>2, <2>3
<1>7. ShownRight'
  <2>1. CASE sup'.pc = "watch" /\ sup'.result = sup.result /\ conn' = t.status
    BY <1>1, <1>3, <2>1, OpensSup DEF ShownRight
  <2>2. CASE React("retry")
    BY <1>1, <1>2, <2>2, OpensSup, ReactEffect DEF ShownRight
  <2> QED
    BY <2>1, <2>2, OpensSup
<1>8. /\ \A j \in Sessions : Came(j)' = Came(j) /\ Logged(j)' = Logged(j)
      /\ t.state # "subscribed" /\ Came(i) = {}
  <2>1. \A j \in Sessions : Came(j)' = Came(j) /\ Logged(j)' = Logged(j)
    BY <1>2 DEF Came, Logged
  <2>2. Came(i) = {}
    BY <1>1, <1>4 DEF IInv, BarsRight, Idle
  <2> QED
    BY <2>1, <2>2, OpensSup
<1>9. BarsRight'
  <2>1. \A j \in Sessions :
          /\ ses'[j].state \in Early \cup {"idle"} => Came(j)' = {}
          /\ ses'[j].state = "subscribed" /\ ses'[j].flight # NoBar =>
               ses'[j].flight.id \in Logged(j)'
    BY <1>3, <1>8 DEF IInv, BarsRight
  <2> QED
    BY <1>2, <2>1 DEF IInv, BarsRight
<1>10. FailedRight'
  BY <1>1, <1>3, OpensSup DEF IInv, FailedRight, Opens
<1>11. BarsInOrder'
  <2>1. HandedInOrder'
    BY <1>2, <1>8 DEF IInv, BarsInOrder, HandedInOrder
  <2>2. RestIsQueued'
    <3>1. \A j \in Sessions : j # i => Queued(j)' = Queued(j)
      BY <1>3 DEF Queued
    <3> QED
      BY <1>3, <1>8, <3>1 DEF IInv, BarsInOrder, RestIsQueued
  <2> QED
    BY <2>1, <2>2 DEF BarsInOrder
<1>12. [Contract!Move]_conn
  BY OpensSup DEF Contract!Move, Contract!Table
<1> QED
  BY <1>5, <1>6, <1>7, <1>9, <1>10, <1>11, <1>12, OpensCounts DEF IInv

-----------------------------------------------------------------------------
(* Each action of the stream is one of these steps.                         *)

Calls == {"create", "status", "send", "close", "inactivity", "event"}

LEMMA FaultsCounted ==
  ASSUME TypeOK, NEW calls \in SUBSET Calls, NEW x \in Thrown(calls)
  PROVE  faults + Cardinality(x) \in 0..MaxFaults
<1>1. IsFiniteSet(Calls)
  <2>1. IsFiniteSet({})
    BY FS_EmptySet
  <2>2. IsFiniteSet({} \cup {"create"})
    BY <2>1, FS_AddElement
  <2>3. IsFiniteSet(({} \cup {"create"}) \cup {"status"})
    BY <2>2, FS_AddElement
  <2>4. IsFiniteSet((({} \cup {"create"}) \cup {"status"}) \cup {"send"})
    BY <2>3, FS_AddElement
  <2>5. IsFiniteSet(((({} \cup {"create"}) \cup {"status"}) \cup {"send"}) \cup {"close"})
    BY <2>4, FS_AddElement
  <2>6. IsFiniteSet((((({} \cup {"create"}) \cup {"status"}) \cup {"send"}) \cup {"close"})
                     \cup {"inactivity"})
    BY <2>5, FS_AddElement
  <2>7. IsFiniteSet(((((({} \cup {"create"}) \cup {"status"}) \cup {"send"}) \cup {"close"})
                      \cup {"inactivity"}) \cup {"event"})
    BY <2>6, FS_AddElement
  <2>8. Calls = (((((({} \cup {"create"}) \cup {"status"}) \cup {"send"}) \cup {"close"})
                   \cup {"inactivity"}) \cup {"event"})
    BY DEF Calls
  <2> QED
    BY <2>7, <2>8
<1>2. x \in SUBSET Calls /\ faults + Cardinality(x) <= MaxFaults
  BY DEF Thrown
<1>3. Cardinality(x) \in Nat
  BY <1>1, <1>2, FS_Subset, FS_CardinalityType
<1> QED
  BY <1>2, <1>3, BoundsAssumption DEF TypeOK

(* Become is a step of one session once its arrival is known.               *)
LEMMA BecomeMoves ==
  ASSUME IInv, NEW i \in Sessions, ses[i] # Idle, NEW t, NEW q, NEW x,
         Become(i, t, x), Follows(ses[i], t), Takes(ses[i], q, t),
         faults + Cardinality(x) \in 0..MaxFaults,
         \/ arrived' = arrived /\ q = ses[i].queue
         \/ /\ arrived' = Append(arrived, i) /\ ses[i].state = "subscribed"
            /\ \E bar \in Bar : bar.id = Len(arrived) + 1 /\ q = Append(ses[i].queue, bar)
  PROVE  Moves(i, t, q)
BY DEF Become, Moves, IInv, TypeOK

LEMMA ConnectStep ==
  ASSUME IInv, sup.pc \in {"start", "sleep"}, Connect
  PROVE  IInv' /\ [Contract!Move]_conn
<1>1. PICK x \in Thrown({"create", "status"}) :
        LET i == cur + 1
            o == [Reported(Idle, "connecting", x) EXCEPT
                    !.state = "connecting", !.deadline = "connect", !.sock = "opening"] IN
        /\ cur < MaxSessions
        /\ cur' = i
        /\ faults' = faults + Cardinality(x)
        /\ IF "create" \notin x
           THEN /\ ses' = [ses EXCEPT ![i] = o]
                /\ sup' = [sup EXCEPT !.pc = "watch"]
                /\ conn' = "connecting"
           ELSE /\ ses' = [ses EXCEPT ![i] = Settle(Idle, "transport")]
                /\ React("retry")
        /\ UNCHANGED <<aborted, arrived, log>>
  BY DEF Connect
<1>2. faults' \in 0..MaxFaults /\ aborted' \in BOOLEAN
  <2>1. {"create", "status"} \in SUBSET Calls
    BY DEF Calls
  <2> QED
    BY <1>1, <2>1, FaultsCounted DEF IInv, TypeOK
<1>3. Idle \in Session
  BY Members, BoundsAssumption DEF Session, Idle, States
<1>4. CASE "create" \notin x
  <2> DEFINE r == Reported(Idle, "connecting", x)
             o == [r EXCEPT !.state = "connecting", !.deadline = "connect", !.sock = "opening"]
  <2>1. r \in Session
    BY <1>3, Members DEF Reported, Session
  <2>2. /\ r.status = "connecting" /\ r.end = "none" /\ r.queue = <<>> /\ r.watch = FALSE
        /\ r.outstanding = 0 /\ r.flight = NoBar
    BY DEF Reported, Idle
  <2> HIDE DEF r
  <2>3. o \in Session
    BY <2>1, Members DEF Session
  <2>4. /\ o.state = "connecting" /\ o.deadline = "connect" /\ o.sock = "opening"
        /\ o.status = r.status /\ o.end = r.end /\ o.queue = r.queue /\ o.watch = r.watch
        /\ o.outstanding = r.outstanding /\ o.flight = r.flight
    BY <2>1 DEF Session
  <2>5. ses' = [ses EXCEPT ![cur + 1] = o]
    BY <1>1, <1>4 DEF r
  <2> HIDE DEF o
  <2>6. Sound(o) /\ Staged(o)
    BY <2>2, <2>3, <2>4 DEF Sound, Staged, Early
  <2>7. Opens(o)
    BY <1>1, <1>2, <1>4, <2>2, <2>4, <2>5, <2>6 DEF Opens
  <2> QED
    BY <2>7, OpensKeep
<1>5. CASE "create" \in x
  <2> DEFINE t == Settle(Idle, "transport")
  <2>1. Idle.state # "closed" /\ Idle.sock = "none" /\ Idle.flight = NoBar
        /\ ~Idle.callback /\ ~Idle.malformed
    BY DEF Idle
  <2>2. Fails(Idle, t) /\ t.state = "closed"
    BY <1>3, <2>1, SettleFails
  <2> HIDE DEF t
  <2>3. Sound(t) /\ Staged(t) /\ ~t.callback /\ ~t.malformed
    BY <2>1, <2>2 DEF Fails, Staged, Early
  <2>4. Opens(t)
    BY <1>1, <1>2, <1>5, <2>2, <2>3 DEF Opens, t
  <2> QED
    BY <2>4, OpensKeep
<1> QED
  BY <1>4, <1>5

LEMMA AbortStep ==
  ASSUME IInv, Abort
  PROVE  IInv' /\ [Contract!Move]_conn
<1>1. aborted' = TRUE /\ UNCHANGED <<cur, arrived, log>> /\ TypeOK
  BY DEF Abort, IInv
<1>2. CASE sup.pc = "watch"
  <2>1. cur \in Sessions /\ ses[cur] # Idle /\ conn = ses[cur].status /\ Live(ses[cur])
    BY <1>2 DEF IInv, ShownRight, SessionsRight, Live, Idle
  <2>2. Sound(ses[cur]) /\ ses[cur].state # "closed" /\ ses[cur].end = "none"
    BY <2>1, StartedSession
  <2>3. PICK x \in Thrown({"close"}) :
          LET t == Fail([ses[cur] EXCEPT !.cancelled = TRUE], "cancelled", x) IN
          /\ ses' = [ses EXCEPT ![cur] = t]
          /\ faults' = faults + Cardinality(x)
          /\ IF t.end # "none" THEN React(t.end) ELSE UNCHANGED <<sup, conn>>
    BY <1>2 DEF Abort
  <2> DEFINE t == Fail([ses[cur] EXCEPT !.cancelled = TRUE], "cancelled", x)
             q == ses[cur].queue
  <2>4. /\ Follows(ses[cur], t) /\ Takes(ses[cur], q, t) /\ Shut(t)
        /\ t.status = ses[cur].status /\ t.flight = ses[cur].flight
    BY <2>2, CancelFollows
  <2>5. /\ ses' = [ses EXCEPT ![cur] = t] /\ faults' = faults + Cardinality(x)
        /\ IF t.end # "none" THEN React(t.end) ELSE UNCHANGED <<sup, conn>>
    BY <2>3
  <2>6. faults' \in 0..MaxFaults
    <3>1. {"close"} \in SUBSET Calls
      BY DEF Calls
    <3> QED
      BY <1>1, <2>3, <3>1, FaultsCounted
  <2> HIDE DEF t
  <2>7. ~Started(cur, t)
    BY <2>4 DEF Started
  <2>8. Moves(cur, t, q)
    BY <1>1, <2>1, <2>2, <2>4, <2>5, <2>6, <2>7 DEF Moves
  <2> QED
    BY <2>8, MovesKeep
<1>3. CASE sup.pc # "watch"
  <2>1. UNCHANGED <<ses, conn, faults>>
        /\ sup' = IF sup.pc = "ended" THEN sup
                  ELSE [sup EXCEPT !.pc = "ended", !.result = "stopped"]
    BY <1>3 DEF Abort
  <2>2. sup \in Supervisor
    BY <1>1 DEF TypeOK, Supervisor
  <2>3. sup' \in Supervisor /\ sup'.pc = "ended"
        /\ (sup'.result = "exhausted" => sup.result = "exhausted")
    BY <1>3, <2>1, <2>2 DEF Supervisor
  <2>4. TypeOK'
    BY <1>1, <2>1, <2>3 DEF TypeOK, Supervisor
  <2>5. SessionsRight'
    BY <1>1, <1>3, <2>1, <2>3 DEF IInv, SessionsRight, Right, Sound, Staged, Live, Shut
  <2>6. ShownRight' /\ CountRight' /\ FailedRight'
    BY <1>1, <2>1, <2>3 DEF IInv, ShownRight, CountRight, FailedRight
  <2>7. BarsRight' /\ BarsInOrder'
    <3>1. \A j \in Sessions :
            Came(j)' = Came(j) /\ Logged(j)' = Logged(j) /\ Queued(j)' = Queued(j)
      BY <1>1, <2>1 DEF Came, Logged, Queued
    <3>2. BarsRight'
      BY <1>1, <2>1, <3>1 DEF IInv, BarsRight
    <3>3. HandedInOrder'
      BY <1>1, <3>1 DEF IInv, BarsInOrder, HandedInOrder
    <3>4. RestIsQueued'
      BY <2>1, <3>1 DEF IInv, BarsInOrder, RestIsQueued
    <3> QED
      BY <3>2, <3>3, <3>4 DEF BarsInOrder
  <2>8. RetryBudget'
    BY <1>1, <2>3 DEF IInv, RetryBudget, Barren
  <2> QED
    BY <2>1, <2>4, <2>5, <2>6, <2>7, <2>8 DEF IInv
<1> QED
  BY <1>2, <1>3

LEMMA SocketOpensStep ==
  ASSUME IInv, NEW i \in Sessions, SocketOpens(i)
  PROVE  IInv' /\ [Contract!Move]_conn
<1> DEFINE t == [ses[i] EXCEPT !.sock = "open", !.state = "awaiting_connected"]
<1>1. /\ ses[i].state = "connecting" /\ Become(i, t, {}) /\ arrived' = arrived
  BY DEF SocketOpens
<1>2. ses[i] # Idle /\ Sound(ses[i]) /\ Staged(ses[i])
  BY <1>1, StartedSession DEF Idle
<1>3. Follows(ses[i], t) /\ Takes(ses[i], ses[i].queue, t)
  BY <1>1, <1>2, OpenFollows
<1>4. faults + Cardinality({}) \in 0..MaxFaults
  BY FS_EmptySet, BoundsAssumption DEF IInv, TypeOK
<1> HIDE DEF t
<1>5. Moves(i, t, ses[i].queue)
  BY <1>1, <1>2, <1>3, <1>4, BecomeMoves
<1> QED
  BY <1>5, MovesKeep

LEMMA MessageStep ==
  ASSUME IInv, NEW i \in Sessions, Message(i)
  PROVE  IInv' /\ [Contract!Move]_conn
<1>1. PICK raw \in Raw, x \in Thrown({"send", "close", "status"}) :
        LET t == HandleItem(ses[i], Decode(raw), x) IN
        /\ ses[i].sock = "open" /\ ~Shut(ses[i])
        /\ raw.T = "b" => Len(arrived) < MaxBars
        /\ Become(i, t, x)
        /\ arrived' = IF Decode(raw).kind = "bar" /\ Accepts(ses[i])
                      THEN Append(arrived, i) ELSE arrived
  BY DEF Message
<1> DEFINE s == ses[i]
           item == Decode(raw)
           t == HandleItem(s, item, x)
           q == IF Arrives(s, item) THEN Append(s.queue, item.bar) ELSE s.queue
<1>2. s # Idle /\ Sound(s) /\ Staged(s) /\ s.state # "closed"
  BY <1>1, StartedSession DEF Idle, Shut
<1>3. Follows(s, t) /\ Takes(s, q, t)
  BY <1>1, <1>2, HandleItemFollows DEF IInv
<1>4. faults + Cardinality(x) \in 0..MaxFaults
  <2>1. {"send", "close", "status"} \in SUBSET Calls
    BY DEF Calls
  <2> QED
    BY <1>1, <2>1, FaultsCounted DEF IInv
<1>5. Become(i, t, x) /\ arrived' = IF Arrives(s, item) THEN Append(arrived, i) ELSE arrived
  BY <1>1 DEF Arrives
<1>6. Arrives(s, item) => /\ s.state = "subscribed"
                          /\ item.bar \in Bar /\ item.bar.id = Len(arrived) + 1
  BY <1>1, DecodeKinds DEF Arrives, Accepts, IInv
<1> HIDE DEF t, item
<1>7. \/ arrived' = arrived /\ q = s.queue
      \/ /\ arrived' = Append(arrived, i) /\ s.state = "subscribed"
         /\ \E bar \in Bar : bar.id = Len(arrived) + 1 /\ q = Append(s.queue, bar)
  BY <1>5, <1>6
<1>8. Follows(s, t) /\ Takes(s, q, t) /\ Become(i, t, x)
  BY <1>3, <1>5 DEF t, item
<1> HIDE DEF q
<1>9. Moves(i, t, q)
  BY <1>2, <1>4, <1>7, <1>8, BecomeMoves
<1> QED
  BY <1>9, MovesKeep

LEMMA SocketFailsStep ==
  ASSUME IInv, NEW i \in Sessions, SocketFails(i)
  PROVE  IInv' /\ [Contract!Move]_conn
<1>1. PICK x \in Thrown({"close"}) :
        /\ ses[i].sock \in {"opening", "open"} /\ ~Shut(ses[i])
        /\ Become(i, Fail(ses[i], "transport", x), x)
        /\ arrived' = arrived
  BY DEF SocketFails
<1> DEFINE t == Fail(ses[i], "transport", x)
<1>2. ses[i] # Idle /\ Sound(ses[i]) /\ ses[i].state # "closed"
  BY <1>1, StartedSession DEF Idle, Shut
<1>3. Follows(ses[i], t) /\ Takes(ses[i], ses[i].queue, t)
  BY <1>2, FailFollows, Members
<1>4. faults + Cardinality(x) \in 0..MaxFaults
  <2>1. {"close"} \in SUBSET Calls
    BY DEF Calls
  <2> QED
    BY <1>1, <2>1, FaultsCounted DEF IInv
<1> HIDE DEF t
<1>5. Become(i, t, x)
  BY <1>1 DEF t
<1>6. Moves(i, t, ses[i].queue)
  BY <1>1, <1>2, <1>3, <1>4, <1>5, BecomeMoves
<1> QED
  BY <1>6, MovesKeep

LEMMA SocketClosesStep ==
  ASSUME IInv, NEW i \in Sessions, SocketCloses(i)
  PROVE  IInv' /\ [Contract!Move]_conn
<1> DEFINE e == IF ses[i].state = "closing" THEN ses[i].err ELSE "transport"
           t == Settle([ses[i] EXCEPT !.sock = "closed"], e)
<1>1. /\ ses[i].sock \in {"opening", "open", "closing"} /\ Become(i, t, {})
      /\ arrived' = arrived
  BY DEF SocketCloses
<1>2. ses[i] # Idle /\ Sound(ses[i])
  BY <1>1, StartedSession DEF Idle
<1>3. ses[i].state # "closed"
  BY <1>1, <1>2 DEF Sound
<1>4. Follows(ses[i], t) /\ Takes(ses[i], ses[i].queue, t)
  <2> HIDE DEF e
  <2> QED
    BY <1>2, <1>3, CloseFollows
<1>5. faults + Cardinality({}) \in 0..MaxFaults
  BY FS_EmptySet, BoundsAssumption DEF IInv, TypeOK
<1> HIDE DEF t
<1>6. Moves(i, t, ses[i].queue)
  BY <1>1, <1>2, <1>4, <1>5, BecomeMoves
<1> QED
  BY <1>6, MovesKeep

LEMMA DeadlineStep ==
  ASSUME IInv, NEW i \in Sessions, DeadlineFires(i)
  PROVE  IInv' /\ [Contract!Move]_conn
<1>1. PICK x \in Thrown({"close"}) :
        /\ ses[i].deadline # "none" /\ Become(i, Expire(ses[i], x), x) /\ arrived' = arrived
  BY DEF DeadlineFires
<1> DEFINE t == Expire(ses[i], x)
<1>2. ses[i] # Idle /\ Sound(ses[i]) /\ Staged(ses[i])
  BY <1>1, StartedSession DEF Idle
<1>3. Follows(ses[i], t) /\ Takes(ses[i], ses[i].queue, t)
  BY <1>1, <1>2, ExpireFollows
<1>4. faults + Cardinality(x) \in 0..MaxFaults
  <2>1. {"close"} \in SUBSET Calls
    BY DEF Calls
  <2> QED
    BY <1>1, <2>1, FaultsCounted DEF IInv
<1> HIDE DEF t
<1>5. Become(i, t, x)
  BY <1>1 DEF t
<1>6. Moves(i, t, ses[i].queue)
  BY <1>1, <1>2, <1>3, <1>4, <1>5, BecomeMoves
<1> QED
  BY <1>6, MovesKeep

LEMMA InactivityStep ==
  ASSUME IInv, NEW i \in Sessions, InactivityFires(i)
  PROVE  IInv' /\ [Contract!Move]_conn
<1>1. PICK x \in Thrown({"inactivity", "close"}) :
        /\ ses[i].watch
        /\ Become(i, Fail([ses[i] EXCEPT !.watch = FALSE, !.inactive = TRUE,
                             !.callback = @ \/ ("inactivity" \in x /\ ses[i].state # "closed")],
                          "cancelled", x), x)
        /\ arrived' = arrived
  BY DEF InactivityFires
<1> DEFINE threw == "inactivity" \in x
           t == Fail([ses[i] EXCEPT !.watch = FALSE, !.inactive = TRUE,
                        !.callback = ses[i].callback \/ (threw /\ ses[i].state # "closed")],
                     "cancelled", x)
<1>2. ses[i] # Idle /\ Sound(ses[i])
  BY <1>1, StartedSession DEF Idle
<1>3. Follows(ses[i], t) /\ Takes(ses[i], ses[i].queue, t)
  <2>1. threw \in BOOLEAN
    OBVIOUS
  <2> HIDE DEF threw
  <2> QED
    BY <1>2, <2>1, InactivityFollows
<1>4. faults + Cardinality(x) \in 0..MaxFaults
  <2>1. {"inactivity", "close"} \in SUBSET Calls
    BY DEF Calls
  <2> QED
    BY <1>1, <2>1, FaultsCounted DEF IInv
<1>5. Become(i, t, x)
  BY <1>1
<1> HIDE DEF t
<1>6. Moves(i, t, ses[i].queue)
  BY <1>1, <1>2, <1>3, <1>4, <1>5, BecomeMoves
<1> QED
  BY <1>6, MovesKeep

LEMMA PublishStep ==
  ASSUME IInv, NEW i \in Sessions, PublishEnds(i)
  PROVE  IInv' /\ [Contract!Move]_conn
<1>1. PICK x \in Thrown({"event", "close"}) :
        /\ ses[i].flight # NoBar /\ Become(i, Delivered(ses[i], "event" \notin x, x), x)
        /\ arrived' = arrived
  BY DEF PublishEnds
<1> DEFINE ok == "event" \notin x
           t == Delivered(ses[i], ok, x)
<1>2. ses[i] # Idle /\ Sound(ses[i]) /\ Staged(ses[i])
  BY <1>1, StartedSession DEF Idle
<1>3. Follows(ses[i], t) /\ Takes(ses[i], ses[i].queue, t)
  <2>1. ok \in BOOLEAN
    OBVIOUS
  <2> HIDE DEF ok
  <2> QED
    BY <1>1, <1>2, <2>1, DeliveredFollows
<1>4. faults + Cardinality(x) \in 0..MaxFaults
  <2>1. {"event", "close"} \in SUBSET Calls
    BY DEF Calls
  <2> QED
    BY <1>1, <2>1, FaultsCounted DEF IInv
<1>5. Become(i, t, x)
  BY <1>1
<1> HIDE DEF t
<1>6. Moves(i, t, ses[i].queue)
  BY <1>1, <1>2, <1>3, <1>4, <1>5, BecomeMoves
<1> QED
  BY <1>6, MovesKeep

LEMMA InitHolds == Init => IInv
<1> SUFFICES ASSUME Init PROVE IInv
  OBVIOUS
<1>1. \A i \in Sessions : ses[i] = Idle
  BY DEF Init
<1>2. Idle \in Session
  BY Members, BoundsAssumption DEF Session, Idle, States
<1>3. /\ cur = 0 /\ sup.pc = "start" /\ sup.attempt = 0 /\ sup.result = "none"
      /\ conn = "connecting" /\ arrived = <<>> /\ log = <<>> /\ DOMAIN log = {}
      /\ DOMAIN arrived = {}
  BY DEF Init
<1>4. TypeOK
  <2> DEFINE E == [ses : Sessions, id : 1..MaxBars]
  <2>1. log \in Seq(E) /\ arrived \in Seq(Sessions)
    <3> HIDE DEF E
    <3> QED
      BY <1>3
  <2>2. ses \in [Sessions -> Session]
    BY <1>2 DEF Init
  <2>3. cur \in 0..MaxSessions /\ faults \in 0..MaxFaults
    BY BoundsAssumption DEF Init
  <2>4. sup \in Supervisor
    BY BoundsAssumption DEF Init, Supervisor
  <2>5. aborted \in BOOLEAN /\ conn = "connecting"
    BY DEF Init
  <2> QED
    BY <2>1, <2>2, <2>3, <2>4, <2>5 DEF TypeOK, Supervisor
<1>5. SessionsRight
  <2>1. Idle.state = "idle"
    BY DEF Idle
  <2>2. \A i \in Sessions : i > cur
    BY <1>3, BoundsAssumption DEF Sessions
  <2> QED
    BY <1>1, <1>3, <2>1, <2>2 DEF SessionsRight, Right, Live
<1>6. \A i \in Sessions : Came(i) = {} /\ Logged(i) = {}
  BY <1>3 DEF Came, Logged
<1>7. ShownRight /\ CountRight /\ FailedRight
  BY <1>1, <1>3 DEF ShownRight, CountRight, FailedRight, Idle
<1>8. BarsRight /\ BarsInOrder
  <2>1. \A i \in Sessions : ses[i].state = "idle"
    BY <1>1 DEF Idle
  <2>2. BarsRight
    BY <1>3, <1>6, <2>1 DEF BarsRight
  <2>3. HandedInOrder
    BY <1>3, <1>6 DEF HandedInOrder
  <2>4. RestIsQueued
    BY <2>1 DEF RestIsQueued
  <2> QED
    BY <2>2, <2>3, <2>4 DEF BarsInOrder
<1>9. RetryBudget
  BY <1>3, BoundsAssumption DEF RetryBudget
<1> QED
  BY <1>4, <1>5, <1>7, <1>8, <1>9 DEF IInv

LEMMA NextKeeps == IInv /\ Next => IInv' /\ [Contract!Move]_conn
<1> SUFFICES ASSUME IInv, Next PROVE IInv' /\ [Contract!Move]_conn
  OBVIOUS
<1>1. CASE Start \/ Wake
  BY <1>1, ConnectStep DEF Start, Wake
<1>2. CASE Abort
  BY <1>2, AbortStep
<1>3. CASE \E i \in Sessions :
             \/ SocketOpens(i) \/ Message(i) \/ SocketFails(i) \/ SocketCloses(i)
             \/ DeadlineFires(i) \/ InactivityFires(i) \/ PublishEnds(i)
  BY <1>3, SocketOpensStep, MessageStep, SocketFailsStep, SocketClosesStep,
     DeadlineStep, InactivityStep, PublishStep
<1> QED
  BY <1>1, <1>2, <1>3 DEF Next

LEMMA StutterKeeps == IInv /\ UNCHANGED vars => IInv' /\ [Contract!Move]_conn
<1> SUFFICES ASSUME IInv, UNCHANGED vars PROVE IInv' /\ [Contract!Move]_conn
  OBVIOUS
<1>1. \A i \in Sessions :
        Came(i)' = Came(i) /\ Logged(i)' = Logged(i) /\ Queued(i)' = Queued(i)
  BY DEF vars, Came, Logged, Queued
<1>0. UNCHANGED <<ses, cur, sup, aborted, conn, arrived, log, faults>>
  BY DEF vars
<1>2. TypeOK' /\ SessionsRight' /\ ShownRight' /\ FailedRight'
  <2>1. TypeOK'
    BY <1>0 DEF IInv, TypeOK
  <2>2. SessionsRight'
    BY <1>0 DEF IInv, SessionsRight, Right, Sound, Staged, Live, Shut
  <2> QED
    BY <1>0, <2>1, <2>2 DEF IInv, ShownRight, FailedRight
<1>3. BarsRight' /\ HandedInOrder' /\ RestIsQueued'
  <2>1. BarsRight' /\ HandedInOrder'
    BY <1>0, <1>1 DEF IInv, BarsRight, BarsInOrder, HandedInOrder
  <2>2. RestIsQueued'
    BY <1>0, <1>1 DEF IInv, BarsInOrder, RestIsQueued
  <2> QED
    BY <2>1, <2>2
<1>4. CountRight' /\ RetryBudget'
  BY DEF IInv, vars, CountRight, Counted, Silent, Barren, RetryBudget
<1> QED
  BY <1>2, <1>3, <1>4 DEF IInv, BarsInOrder, vars

-----------------------------------------------------------------------------
(* The theorems.                                                            *)

(* The inductive invariant holds of every behaviour of the stream, for any  *)
(* number of sessions, bars, attempts and failing calls.                    *)
THEOREM Invariance == Spec => []IInv
<1>1. IInv /\ [Next]_vars => IInv'
  BY NextKeeps, StutterKeeps
<1> QED
  BY <1>1, InitHolds, PTL DEF Spec

(* Every variable has its type; a confirmed subscription names exactly the  *)
(* approved symbols (decodeSubscription).                                   *)
THEOREM TypeCorrect == Spec => []TypeOK
BY Invariance, PTL DEF IInv

(* A session that has not settled has an armed timer or a bar whose end     *)
(* arms it, one that has settled holds no socket, and no two are live.      *)
THEOREM SessionsAreAlwaysWatched == Spec => []SessionsAreWatched
<1>1. IInv => SessionsAreWatched
  <2> SUFFICES ASSUME IInv PROVE SessionsAreWatched
    OBVIOUS
  <2>1. \A i \in Sessions :
          /\ ses[i] = Idle \/ (Sound(ses[i]) /\ Staged(ses[i]))
          /\ Live(ses[i]) => i = cur
    BY DEF IInv, SessionsRight, Right
  <2>2. EverySessionIsWatched
    <3>1. SUFFICES ASSUME NEW i \in Sessions
          PROVE  /\ ses[i].state \in Early \cup {"closing"} => ses[i].deadline # "none"
                 /\ ses[i].state = "subscribed" => ses[i].watch \/ ses[i].flight # NoBar
      BY DEF EverySessionIsWatched, Early
    <3>2. CASE ses[i] = Idle
      BY <3>2 DEF Idle, Early
    <3>3. CASE Sound(ses[i]) /\ Staged(ses[i])
      BY <3>3 DEF Sound, Staged
    <3> QED
      BY <2>1, <3>2, <3>3
  <2>3. OneConnection
    BY <2>1 DEF OneConnection, Sound, Live, Idle
  <2> QED
    BY <2>2, <2>3 DEF SessionsAreWatched
<1> QED
  BY <1>1, Invariance, PTL

(* The runtime is handed the bars in the order they arrived, each once and  *)
(* none left out, and the queue of a subscribed session holds the rest.     *)
THEOREM BarsAlwaysInOrder == Spec => []BarsInOrder
BY Invariance, PTL DEF IInv

(* The supervisor gives up after exactly the attempts its policy allows,    *)
(* and a bar that failed is never followed by another session.              *)
THEOREM FailuresAreAlwaysBounded == Spec => []FailuresAreBounded
<1>1. IInv => FailuresAreBounded
  <2>1. FailedRight => FailedBarEndsStream
    BY DEF FailedRight, FailedBarEndsStream
  <2> QED
    BY <2>1 DEF IInv, FailuresAreBounded
<1> QED
  BY <1>1, Invariance, PTL

(* The state shown to the operator is a behaviour of the contract: it       *)
(* starts where the contract starts, and each step is one of its table or   *)
(* leaves it alone (transitionMarketDataConnection).                        *)
THEOREM ImplementsContract == Spec => FollowsContract
<1>1. Init => Contract!Init
  BY DEF Init, Contract!Init
<1>2. IInv /\ [Next]_vars => [Contract!Move]_conn
  BY NextKeeps, StutterKeeps
<1> QED
  BY <1>1, <1>2, Invariance, PTL DEF Spec, FollowsContract, Contract!Spec
=============================================================================
