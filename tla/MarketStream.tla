---------------------------- MODULE MarketStream ----------------------------
(* The live market-data stream: MarketDataStreamSupervisor reconnects,      *)
(* AlpacaMarketDataAdapter watches one connection and AlpacaWebSocketSession *)
(* owns its socket.  The sockets, the provider behind them, every timer and *)
(* the callbacks of the runtime are the environment.                        *)
(*                                                                          *)
(* Node runs one callback at a time and then every promise that has         *)
(* settled, so one step is one callback (an event of a socket, a timer that *)
(* fires, the end of a publish) with everything that follows from it: when  *)
(* a session settles, its adapter reports the state and the supervisor      *)
(* decides in the same step.  Only the delivery of a bar, which waits for   *)
(* Redis, spans steps, and it may outlive its session.                      *)
EXTENDS Integers, Sequences, SequencesExt, FiniteSetsExt

CONSTANTS
  Symbol,           \* ALPACA_BAR_SYMBOLS
  Acknowledged,     \* lists of symbols a subscription answer may carry
  QueueCapacity,    \* queueCapacity
  MaximumAttempts,  \* reconnectPolicy.maximumAttempts
  MaxSessions,      \* bound on the sessions ever opened
  MaxBars,          \* bound on the bars the provider sends
  MaxFaults         \* bound on calls of the environment that throw

ASSUME BoundsAssumption ==
  /\ QueueCapacity \in Nat \ {0} /\ MaximumAttempts \in Nat \ {0}
  /\ MaxSessions \in Nat \ {0} /\ MaxBars \in Nat /\ MaxFaults \in Nat
  /\ Acknowledged \subseteq Seq(Symbol)

VARIABLES
  ses,      \* the adapter and session of every connection so far
  cur,      \* the connection the supervisor awaits; 0 before the first
  sup,      \* MarketDataStreamSupervisor
  aborted,  \* whether the supervisor's signal is aborted
  conn,     \* connectionState of the runtime
  arrived,  \* the session that accepted each bar, in order of arrival
  log,      \* the bars handed to the runtime, in order
  faults

vars == <<ses, cur, sup, aborted, conn, arrived, log, faults>>

Sessions == 1..MaxSessions
Categories == {"authentication", "backpressure", "cancelled", "entitlement",
               "protocol", "subscription", "timeout", "transport"}
States == {"idle", "connecting", "awaiting_connected", "authenticating",
           "subscribing", "subscribed", "closing", "closed"}
Bar == [id : 1..MaxBars, ok : BOOLEAN]
NoBar == [id |-> 0, ok |-> TRUE]

Deadlines == {"none", "connect", "authenticate", "subscribe", "close"}
Sockets == {"none", "opening", "open", "closing", "closed"}
Statuses == {"connecting", "authenticating", "subscribed"}
Ends == {"none", "stopped", "retry", "terminal"}

(* The lists that name exactly the approved symbols, each once.             *)
Approved == {list \in Acknowledged : Len(list) = Cardinality(Symbol) /\ ToSet(list) = Symbol}

Session ==
  [state : States,
   err : Categories \cup {"none"},        \* #pendingCloseError
   deadline : Deadlines,
   queue : Seq(Bar),
   outstanding : 0..QueueCapacity,        \* #outstandingBars
   flight : Bar \cup {NoBar},             \* the bar whose callback is awaited
   scope : {<<>>} \cup Approved,           \* the list the provider confirmed
   sock : Sockets,
   watch : BOOLEAN,                       \* inactivityTimer is armed
   inactive : BOOLEAN,                    \* lifecycle.inactivityTriggered
   cancelled : BOOLEAN,                   \* lifecycle.cancellationRequested
   callback : BOOLEAN,                    \* callbackFailure, read until done
   malformed : BOOLEAN,                   \* normalizationFailure
   status : Statuses,
   end : Ends]

TypeOK ==
  /\ ses \in [Sessions -> Session]
  /\ cur \in 0..MaxSessions
  /\ sup \in [pc : {"start", "watch", "sleep", "ended"},
              attempt : 0..MaximumAttempts,
              result : {"none", "stopped", "failed", "exhausted"}]
  /\ aborted \in BOOLEAN
  /\ conn \in {"connecting", "authenticating", "subscribed", "reconnecting",
               "stopped", "terminal_failure"}
  /\ arrived \in Seq(Sessions)
  /\ log \in Seq([ses : Sessions, id : 1..MaxBars])
  /\ faults \in 0..MaxFaults

Idle == [state |-> "idle", err |-> "none", deadline |-> "none", queue |-> <<>>,
         outstanding |-> 0, flight |-> NoBar, scope |-> <<>>, sock |-> "none",
         watch |-> FALSE, inactive |-> FALSE, cancelled |-> FALSE,
         callback |-> FALSE, malformed |-> FALSE, status |-> "connecting", end |-> "none"]

Init ==
  /\ ses = [i \in Sessions |-> Idle]
  /\ cur = 0
  /\ sup = [pc |-> "start", attempt |-> 0, result |-> "none"]
  /\ aborted = FALSE
  /\ conn = "connecting"
  /\ arrived = <<>> /\ log = <<>>
  /\ faults = 0

(* The calls among the given ones that throw in this step.                  *)
Thrown(calls) == {x \in SUBSET calls : faults + Cardinality(x) <= MaxFaults}

Shut(s) == s.state \in {"closing", "closed"}

-----------------------------------------------------------------------------
(* The session, as functions of its record.  x is the set of calls that     *)
(* throw.                                                                   *)

Retryable == {"backpressure", "timeout", "transport", "cancelled"}

\* Mutant of Outcome: inactivity is looked at before a failed callback.
OutcomeInactiveFirst(s, e) ==
  CASE s.cancelled                  -> "stopped"
    [] ~s.cancelled /\ s.inactive   -> "retry"
    [] OTHER -> IF s.callback \/ s.malformed \/ e \notin Retryable THEN "terminal" ELSE "retry"

(* How done ends: the failure of a callback goes before that of a bar,      *)
(* before inactivity, before the category of the session's own error.       *)
Outcome(s, e) ==
  CASE s.cancelled                                    -> "stopped"
    [] ~s.cancelled /\ (s.callback \/ s.malformed)    -> "terminal"
    [] ~s.cancelled /\ ~(s.callback \/ s.malformed)   ->
         IF s.inactive \/ e \in Retryable THEN "retry" ELSE "terminal"

(* settle, and the adapter's done, which clears the inactivity timer.       *)
Settle(s, e) ==
  [s EXCEPT !.state = "closed", !.end = Outcome(s, e), !.deadline = "none",
            !.queue = <<>>, !.watch = FALSE, !.err = "none", !.scope = <<>>]

\* Mutant of Close: the close deadline is not armed.
CloseUnbounded(s, e, x) ==
  LET c == [s EXCEPT !.state = "closing", !.err = e, !.deadline = "none"] IN
  IF "close" \in x THEN Settle([c EXCEPT !.sock = "closed"], e)
                   ELSE [c EXCEPT !.sock = "closing"]

Close(s, e, x) ==
  LET c == [s EXCEPT !.state = "closing", !.err = e, !.deadline = "close"] IN
  IF "close" \in x THEN Settle([c EXCEPT !.sock = "closed"], e)
                   ELSE [c EXCEPT !.sock = "closing"]

Fail(s, e, x) ==
  CASE s.state = "closed"  -> s
    [] s.state = "closing" -> IF s.err = "none" THEN [s EXCEPT !.err = e] ELSE s
    [] OTHER               -> Close(s, e, x)

(* The loop of drainQueue takes the next bar.  A bar that does not          *)
(* normalize, or that follows a failed callback, fails the session, and     *)
(* the loop then drops what is queued.                                      *)
TakeNext(s, x) ==
  IF s.queue = <<>> THEN s
  ELSE LET bar == Head(s.queue)
           taken == [s EXCEPT !.queue = Tail(@), !.watch = FALSE] IN
       IF bar.ok /\ ~s.callback
       THEN [taken EXCEPT !.flight = bar]
       ELSE [Fail([taken EXCEPT !.malformed = @ \/ ~bar.ok, !.outstanding = @ - 1],
                  "transport", x) EXCEPT !.queue = <<>>]

\* Mutant of HandleBar: a bar is started while another is in flight.
HandleBarAtOnce(s, bar, x) ==
  IF s.state # "subscribed" THEN Fail(s, "protocol", x)
  ELSE TakeNext([s EXCEPT !.queue = <<bar>> \o @, !.outstanding = @ + 1], x)

Accepts(s) == s.state = "subscribed" /\ s.outstanding < QueueCapacity

HandleBar(s, bar, x) ==
  IF ~Accepts(s)
  THEN Fail(s, IF s.state = "subscribed" THEN "backpressure" ELSE "protocol", x)
  ELSE LET q == [s EXCEPT !.queue = Append(@, bar), !.outstanding = @ + 1] IN
       IF s.flight = NoBar THEN TakeNext(q, x) ELSE q

\* Mutant of Delivered: the inactivity timer is not armed again after a bar.
DeliveredUnwatched(s, ok, x) ==
  LET d == [s EXCEPT !.flight = NoBar, !.outstanding = @ - 1,
                     !.callback = @ \/ (~ok /\ s.state # "closed")]
      f == IF ok \/ Shut(s) THEN d ELSE Fail(d, "transport", x) IN
  IF Shut(f) THEN [f EXCEPT !.queue = <<>>] ELSE TakeNext(f, x)

(* onBar returns or throws.  Whatever it does, it arms the inactivity timer *)
(* again; that the session may have settled meanwhile it does not check.    *)
Delivered(s, ok, x) ==
  LET d == [s EXCEPT !.flight = NoBar, !.watch = TRUE, !.outstanding = @ - 1,
                     !.callback = @ \/ (~ok /\ s.state # "closed")]
      f == IF ok \/ Shut(s) THEN d ELSE Fail(d, "transport", x) IN
  IF Shut(f) THEN [f EXCEPT !.queue = <<>>] ELSE TakeNext(f, x)

(* The session reports a lifecycle state and sends its next request.        *)
Reported(s, status, x) ==
  [s EXCEPT !.status = status, !.callback = @ \/ "status" \in x]

Sent(s, x) == IF "send" \in x THEN Fail(s, "transport", x) ELSE s

HandleConnected(s, x) ==
  IF s.state # "awaiting_connected" THEN Fail(s, "protocol", x)
  ELSE Sent([Reported(s, "authenticating", x) EXCEPT
               !.state = "authenticating", !.deadline = "authenticate"], x)

HandleAuthenticated(s, x) ==
  IF s.state # "authenticating" THEN Fail(s, "protocol", x)
  ELSE Sent([s EXCEPT !.state = "subscribing", !.deadline = "subscribe"], x)

HandleSubscription(s, list, x) ==
  IF s.state # "subscribing" THEN Fail(s, "protocol", x)
  ELSE [Reported(s, "subscribed", x) EXCEPT
          !.state = "subscribed", !.deadline = "none", !.watch = TRUE, !.scope = list]

ErrorCategory(code, state) ==
  IF code \in {"backpressure", "transport", "entitlement"} THEN code
  ELSE IF code = "authentication" \/ state = "authenticating" THEN "authentication"
  ELSE IF code = "subscription" \/ state = "subscribing" THEN "subscription"
  ELSE "protocol"

-----------------------------------------------------------------------------
(* What the provider may send, and how AlpacaFrameDecoder classifies it.    *)
(* An error code stands for the set of codes it belongs to.                 *)

Raw ==
  [T : {"success"}, msg : {"connected", "authenticated"}] \cup
  [T : {"subscription"}, bars : Acknowledged, extra : BOOLEAN] \cup
  [T : {"error"}, code : {"authentication", "backpressure", "entitlement", "subscription",
                          "transport", "other"}] \cup
  [T : {"b"}, body : {"valid", "invalid", "unreadable"}] \cup
  [T : {"unreadable"}]

\* Mutant of DecodeSubscription: a list that names a symbol twice is accepted.
DecodeSubscriptionLoosely(raw) ==
  IF ~raw.extra /\ Len(raw.bars) = Cardinality(Symbol)
  THEN [kind |-> "subscription", bars |-> raw.bars]
  ELSE [kind |-> "malformed", reason |-> "invalid_subscription"]

(* No other channel may be named.                                           *)
DecodeSubscription(raw) ==
  IF ~raw.extra /\ raw.bars \in Approved
  THEN [kind |-> "subscription", bars |-> raw.bars]
  ELSE [kind |-> "malformed", reason |-> "invalid_subscription"]

(* An invalid bar is one that decodes and then fails normalizeAlpacaBar.    *)
Decode(raw) ==
  CASE raw.T = "success"      -> [kind |-> raw.msg]
    [] raw.T = "subscription" -> DecodeSubscription(raw)
    [] raw.T = "error"        -> [kind |-> "error", code |-> raw.code]
    [] raw.T = "b" /\ raw.body # "unreadable" ->
         [kind |-> "bar", bar |-> [id |-> Len(arrived) + 1, ok |-> raw.body = "valid"]]
    [] raw.T = "unreadable" \/ (raw.T = "b" /\ raw.body = "unreadable") ->
         [kind |-> "malformed", reason |-> "other"]

HandleItem(s, item, x) ==
  CASE item.kind = "connected"     -> HandleConnected(s, x)
    [] item.kind = "authenticated" -> HandleAuthenticated(s, x)
    [] item.kind = "subscription"  -> HandleSubscription(s, item.bars, x)
    [] item.kind = "error"         -> Fail(s, ErrorCategory(item.code, s.state), x)
    [] item.kind = "bar"           -> HandleBar(s, item.bar, x)
    [] item.kind = "malformed"     ->
         Fail(s, IF s.state = "subscribing" /\ item.reason = "invalid_subscription"
                 THEN "subscription" ELSE "protocol", x)

-----------------------------------------------------------------------------
(* The supervisor, after a step that took session i to t.                   *)

Ended(state, result) ==
  sup' = [sup EXCEPT !.pc = "ended", !.result = result] /\ conn' = state

\* Mutant of GiveUp: one attempt more than the policy allows.
GiveUpLate(attempt) == attempt > MaximumAttempts + 1

(* calculateReconnectDecision; delays are not modelled.                     *)
GiveUp(attempt) == attempt > MaximumAttempts

\* Mutant of React: a retry is not reported before the next connection.
ReactSilently(end) ==
  CASE end = "stopped"  -> Ended("stopped", "stopped")
    [] end = "terminal" -> Ended("terminal_failure", "failed")
    [] end = "retry"    ->
         IF GiveUp(sup.attempt + 1) THEN Ended("terminal_failure", "exhausted")
         ELSE /\ sup' = [sup EXCEPT !.pc = "sleep", !.attempt = @ + 1]
              /\ UNCHANGED conn

React(end) ==
  CASE end = "stopped"  -> Ended("stopped", "stopped")
    [] end = "terminal" -> Ended("terminal_failure", "failed")
    [] end = "retry"    ->
         IF GiveUp(sup.attempt + 1) THEN Ended("terminal_failure", "exhausted")
         ELSE /\ sup' = [sup EXCEPT !.pc = "sleep", !.attempt = @ + 1]
              /\ conn' = "reconnecting"

(* A bar handed over resets the count of attempts before it is published.   *)
Started(i, t) == t.flight # NoBar /\ t.flight # ses[i].flight

Become(i, t, x) ==
  /\ ses' = [ses EXCEPT ![i] = t]
  /\ log' = IF Started(i, t) THEN Append(log, [ses |-> i, id |-> t.flight.id]) ELSE log
  /\ faults' = faults + Cardinality(x)
  /\ IF i # cur \/ ses[i].end # "none" THEN UNCHANGED <<sup, conn>>
     ELSE IF t.end # "none" THEN React(t.end)
     ELSE /\ sup' = IF Started(i, t) THEN [sup EXCEPT !.attempt = 0] ELSE sup
          /\ conn' = t.status
  /\ UNCHANGED <<cur, aborted>>

(* connect: run creates the socket, or the factory throws.                  *)
Connect ==
  \E x \in Thrown({"create", "status"}) :
    LET i == cur + 1
        o == [Reported(Idle, "connecting", x) EXCEPT
                !.state = "connecting", !.deadline = "connect", !.sock = "opening"] IN
    /\ cur < MaxSessions
    /\ cur' = i
    /\ faults' = faults + Cardinality(x)
    /\ IF "create" \notin x
       THEN /\ ses' = [ses EXCEPT ![i] = o]
            /\ sup' = [sup EXCEPT !.pc = "watch"]
            /\ conn' = "connecting"
       ELSE /\ ses' = [ses EXCEPT ![i] = Settle(Idle, "transport")]
            /\ React("retry")
    /\ UNCHANGED <<aborted, arrived, log>>

(* run, and the end of the wait between two attempts.                       *)
Start == sup.pc = "start" /\ ~aborted /\ Connect
Wake == sup.pc = "sleep" /\ ~aborted /\ Connect

(* stop, or the signal of the runtime: a wait ends at once, and a session   *)
(* is cancelled through its signal before cancel asks it to stop.           *)
Abort ==
  /\ ~aborted
  /\ aborted' = TRUE
  /\ IF sup.pc = "watch"
     THEN \E x \in Thrown({"close"}) :
            LET t == Fail([ses[cur] EXCEPT !.cancelled = TRUE], "cancelled", x) IN
            /\ ses' = [ses EXCEPT ![cur] = t]
            /\ faults' = faults + Cardinality(x)
            /\ IF t.end # "none" THEN React(t.end) ELSE UNCHANGED <<sup, conn>>
     ELSE /\ sup' = IF sup.pc = "ended" THEN sup
                    ELSE [sup EXCEPT !.pc = "ended", !.result = "stopped"]
          /\ UNCHANGED <<ses, conn, faults>>
  /\ UNCHANGED <<cur, arrived, log>>

-----------------------------------------------------------------------------
(* The socket.                                                              *)

SocketOpens(i) ==
  /\ ses[i].sock = "opening" /\ ses[i].state = "connecting"
  /\ Become(i, [ses[i] EXCEPT !.sock = "open", !.state = "awaiting_connected"], {})
  /\ UNCHANGED arrived

(* One item of a frame.  A bar is counted as arrived when it is accepted.   *)
Message(i) ==
  \E raw \in Raw, x \in Thrown({"send", "close", "status"}) :
    LET t == HandleItem(ses[i], Decode(raw), x) IN
    /\ ses[i].sock = "open" /\ ~Shut(ses[i])
    /\ raw.T = "b" => Len(arrived) < MaxBars
    /\ Become(i, t, x)
    /\ arrived' = IF Decode(raw).kind = "bar" /\ Accepts(ses[i])
                  THEN Append(arrived, i) ELSE arrived

SocketFails(i) ==
  \E x \in Thrown({"close"}) :
    /\ ses[i].sock \in {"opening", "open"} /\ ~Shut(ses[i])
    /\ Become(i, Fail(ses[i], "transport", x), x)
    /\ UNCHANGED arrived

(* The close event, asked for or not.                                       *)
SocketCloses(i) ==
  /\ ses[i].sock \in {"opening", "open", "closing"}
  /\ Become(i, Settle([ses[i] EXCEPT !.sock = "closed"],
                      IF ses[i].state = "closing" THEN ses[i].err ELSE "transport"), {})
  /\ UNCHANGED arrived

-----------------------------------------------------------------------------
(* Timers and the callback of the runtime.                                  *)

\* Mutant of Expire: a socket that does not close in time is left open.
ExpireUnterminated(s, x) ==
  IF s.deadline = "close" THEN Settle(s, s.err)
  ELSE Fail([s EXCEPT !.deadline = "none"], "timeout", x)

Expire(s, x) ==
  IF s.deadline = "close" THEN Settle([s EXCEPT !.sock = "closed"], s.err)
  ELSE Fail([s EXCEPT !.deadline = "none"], "timeout", x)

DeadlineFires(i) ==
  \E x \in Thrown({"close"}) :
    /\ ses[i].deadline # "none"
    /\ Become(i, Expire(ses[i], x), x)
    /\ UNCHANGED arrived

(* The inactivity callback, then cancel on the session.                     *)
InactivityFires(i) ==
  \E x \in Thrown({"inactivity", "close"}) :
    /\ ses[i].watch
    /\ Become(i, Fail([ses[i] EXCEPT !.watch = FALSE, !.inactive = TRUE,
                         !.callback = @ \/ ("inactivity" \in x /\ ses[i].state # "closed")],
                      "cancelled", x), x)
    /\ UNCHANGED arrived

(* The runtime has published the bar in flight, or failed to.               *)
PublishEnds(i) ==
  \E x \in Thrown({"event", "close"}) :
    /\ ses[i].flight # NoBar
    /\ Become(i, Delivered(ses[i], "event" \notin x, x), x)
    /\ UNCHANGED arrived

Next ==
  \/ Start \/ Wake \/ Abort
  \/ \E i \in Sessions :
       \/ SocketOpens(i) \/ Message(i) \/ SocketFails(i) \/ SocketCloses(i)
       \/ DeadlineFires(i) \/ InactivityFires(i) \/ PublishEnds(i)

(* A timer that is armed fires and a publish ends; the provider and the     *)
(* network owe nothing.                                                     *)
Fairness ==
  /\ WF_vars(Start) /\ WF_vars(Wake)
  /\ \A i \in Sessions :
       WF_vars(DeadlineFires(i)) /\ WF_vars(InactivityFires(i)) /\ WF_vars(PublishEnds(i))

Spec == Init /\ [][Next]_vars /\ Fairness

-----------------------------------------------------------------------------
(* Properties.                                                              *)

(* A session that has not settled cannot be forgotten: each stage has its   *)
(* deadline, and a subscribed session has its inactivity timer or a bar     *)
(* whose end will arm it (armDeadline, armInactivity).                      *)
EverySessionIsWatched ==
  \A i \in Sessions : LET s == ses[i] IN
    /\ s.state \in {"connecting", "awaiting_connected", "authenticating", "subscribing",
                    "closing"} => s.deadline # "none"
    /\ s.state = "subscribed" => s.watch \/ s.flight # NoBar

(* A session that has settled holds no socket, so with one session at a     *)
(* time the provider never sees two connections (settle, beginClose, the    *)
(* supervisor's loop).                                                      *)
OneConnection ==
  /\ \A i \in Sessions : ses[i].state = "closed" => ses[i].sock \in {"none", "closed"}
  /\ \A i, j \in Sessions :
       ses[i].state \notin {"idle", "closed"} /\ ses[j].state \notin {"idle", "closed"}
         => i = j

(* Each session is watched until it settles, and alone until then.          *)
SessionsAreWatched == EverySessionIsWatched /\ OneConnection

Came(i) == {k \in DOMAIN arrived : arrived[k] = i}
Logged(i) == {log[k].id : k \in {n \in DOMAIN log : log[n].ses = i}}
Queued(i) == {ses[i].queue[k].id : k \in DOMAIN ses[i].queue}

(* The runtime is handed bars in the order they arrived, each once, and     *)
(* none of a session that came before another of that session is left out.  *)
HandedInOrder ==
  /\ \A j, k \in DOMAIN log : j < k => log[j].id < log[k].id
  /\ \A i \in Sessions :
       /\ Logged(i) \subseteq Came(i)
       /\ \A a \in Came(i), b \in Logged(i) : a < b => a \in Logged(i)

(* While a session is subscribed, the bars it did not hand over yet wait in *)
(* its queue, in order, and it counts the ones it still owes an answer.     *)
RestIsQueued ==
  \A i \in Sessions : LET s == ses[i] IN
    s.state = "subscribed" =>
      /\ Logged(i) \cup Queued(i) = Came(i)
      /\ \A a \in Logged(i), b \in Queued(i) : a < b
      /\ \A j, k \in DOMAIN s.queue : j < k => s.queue[j].id < s.queue[k].id
      /\ s.outstanding = Len(s.queue) + (IF s.flight = NoBar THEN 0 ELSE 1)

(* No bar is skipped, repeated or started early, whatever arrives or closes *)
(* while one is published (handleBar, drainQueue, #outstandingBars).        *)
BarsInOrder == HandedInOrder /\ RestIsQueued

Barren(i) == \A k \in DOMAIN log : log[k].ses # i

(* The supervisor gives up only after maximumAttempts retries in a row have *)
(* delivered nothing, and never makes one more than that: a session that    *)
(* delivered a bar starts the count anew with its own failure.              *)
RetryBudget ==
  /\ sup.result = "exhausted" =>
       cur >= MaximumAttempts /\ \A i \in (cur - MaximumAttempts + 1)..cur : Barren(i)
  /\ cur > MaximumAttempts + 1 =>
       \E i \in (cur - MaximumAttempts)..(cur - 1) : ~Barren(i)

(* A bar that could not be published or normalized while its session was    *)
(* not settled is never followed by another session, whatever else happens  *)
(* to the session meanwhile (callbackFailure, normalizationFailure).        *)
FailedBarEndsStream ==
  \A i \in Sessions : ses[i].callback \/ ses[i].malformed => i = cur /\ sup.pc # "sleep"

(* Every failure is counted or ends the stream (the supervisor's loop).     *)
FailuresAreBounded == RetryBudget /\ FailedBarEndsStream

(* phase-2-06: a graceful shutdown cancels timers.                          *)
ShutdownCancelsTimers ==
  sup.result = "stopped" => \A i \in Sessions : ~ses[i].watch /\ ses[i].deadline = "none"

(* The state shown to the operator moves along the table of the contract.   *)
Contract == INSTANCE ConnectionLifecycle WITH state <- conn
FollowsContract == Contract!Spec

(* stop settles, whatever the provider does (closeTimeoutMs).               *)
StopEnds == aborted ~> sup.pc = "ended"

(* A session the provider is silent on is left: it ends unless bars keep    *)
(* arriving, and there are MaxBars of those.                                *)
SessionsEnd == \A i \in Sessions : ses[i].state # "idle" ~> ses[i].state = "closed"

(* Neither a stop nor a silent provider leaves anything open.               *)
StreamSettles == StopEnds /\ SessionsEnd
=============================================================================
