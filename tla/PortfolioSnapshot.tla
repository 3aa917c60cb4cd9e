------------------------- MODULE PortfolioSnapshot -------------------------
(* What the portfolio package makes of one capture: normalization of the    *)
(* raw pages into observations, the contract of a snapshot, its projection, *)
(* its reconciliation with the rows prepared for promotion and its delta    *)
(* with the previous snapshot.                                              *)
(*                                                                          *)
(* An asset stands for its fingerprint, symbol and instrument id, a record  *)
(* for the hash of its canonical text; prices and timestamps that only pass *)
(* through are left out.                                                    *)
EXTENDS Integers, Sequences, FiniteSets, SequencesExt

CONSTANT None  \* null: no asset, class or side

KnownExchange == {"AMEX", "ARCA", "NYSEARCA", "BATS", "NASDAQ", "NYSE"}
OpenStatus == {"accepted", "accepted_for_bidding", "done_for_day", "held", "new",
               "partially_filled", "pending_cancel", "pending_new", "pending_replace",
               "stopped", "suspended"}
TerminalStatus == {"canceled", "expired", "filled", "rejected", "replaced"}

\* Two different things with one key: the uniqueness checks of every layer.
UniqueBy(s, field) == \A i, j \in DOMAIN s : s[i][field] = s[j][field] => i = j

-----------------------------------------------------------------------------
(* Normalization *)

InstrumentForPosition(raw) ==
  IF raw.class = "us_equity" /\ raw.exchange \in KnownExchange THEN raw.asset ELSE None

HoldingSupport(class, currency, instrument, missing) ==
  CASE class # "us_equity" -> "unsupported_asset_class"
    [] class = "us_equity" /\ currency # "USD" -> "unsupported_currency"
    [] class = "us_equity" /\ currency = "USD" /\ instrument = None -> missing
    [] OTHER -> "supported"

\* A position observation; the side is the sign of the quantity.
NormalizePosition(raw, currency) ==
  [asset |-> raw.asset, class |-> raw.class, qty |-> raw.qty, marked |-> raw.marked,
   instrument |-> InstrumentForPosition(raw), currency |-> currency,
   support |-> HoldingSupport(raw.class, currency, InstrumentForPosition(raw),
                 IF raw.class = "us_equity" /\ raw.exchange \notin KnownExchange
                   THEN "unsupported_venue" ELSE "missing_instrument")]

\* One page of orders as the sequence of its orders, each before its legs.
\* Being an mleg structure is decided by the parent, whatever a leg says.
FlattenOrders(raws) ==
  LET Part(raw, role, mleg) ==
        [id |-> raw.id, asset |-> raw.asset, class |-> raw.class, side |-> raw.side,
         legs |-> raw.legs, status |-> raw.status, qty |-> raw.qty, filled |-> raw.filled,
         role |-> role, mleg |-> mleg]
      Parts(raw) == LET mleg == raw.structure = "mleg"
                    IN  <<Part(raw, "parent", mleg)>> \o
                        [i \in DOMAIN raw.legs |-> Part(raw.legs[i], "leg", mleg)]
  IN  FlattenSeq([i \in DOMAIN raws |-> Parts(raws[i])])

\* What the contract demands of a position; its side is the sign of its quantity.
PositionIsSound(p) ==
  /\ p.qty # 0
  /\ p.support = "supported" =>
       p.class = "us_equity" /\ p.currency = "USD" /\ p.instrument # None
  /\ p.support # "unsupported_order_structure"

\* Mutant of OrderIsConsistent: what an order has filled is a position.
FilledIsHeld(o, positions) ==
  o.status \in {"filled", "partially_filled"} => \E p \in positions : p.asset = o.asset

\* Whatever of an order the normalization checks before it builds the observation.
OrderIsConsistent(o, positions) ==
  /\ o.status \in OpenStatus \cup TerminalStatus \cup {"calculated"}
  /\ o.role = "leg" => o.legs = <<>>
  /\ (o.asset = None \/ o.side = None) => o.role = "parent" /\ o.mleg
  /\ o.filled <= o.qty
  /\ o.status = "partially_filled" => o.filled > 0 /\ o.filled < o.qty
  /\ o.status = "filled" => o.filled > 0
  /\ \A p \in positions : p.asset = o.asset => p.class = o.class

\* What the contract demands of an order: only an mleg structure may leave out
\* what it trades, and exactly an mleg structure is unsupported for being one.
OrderIsSound(o) ==
  LET singular == o.asset # None /\ o.class # None /\ o.side # None
  IN  /\ singular \/ (o.mleg /\ o.instrument = None)
      /\ o.mleg <=> o.support = "unsupported_order_structure"
      /\ o.support = "supported" => o.class = "us_equity" /\ o.instrument # None
      /\ o.qty > 0 /\ o.filled \in 0..o.qty

\* An order takes its instrument and its support from the position it is
\* linked to; without one, nothing says where it trades.
NormalizeOrder(o, positions, currency) ==
  LET linked == {p \in positions : p.asset = o.asset}
      instrument == IF linked = {} THEN None ELSE (CHOOSE p \in linked : TRUE).instrument
  IN  [id |-> o.id, asset |-> o.asset, class |-> o.class, side |-> o.side,
       mleg |-> o.mleg, status |-> o.status,
       state |-> IF o.status \in OpenStatus THEN "open"
                 ELSE IF o.status \in TerminalStatus THEN "terminal" ELSE "unknown",
       qty |-> o.qty, filled |-> o.filled,
       instrument |-> instrument,
       support |-> IF o.mleg THEN "unsupported_order_structure"
                   ELSE IF linked # {} THEN (CHOOSE p \in linked : TRUE).support
                   ELSE HoldingSupport(o.class, currency, instrument, "missing_instrument")]

IsAggregate(o) == o.role = "parent" /\ o.mleg

\* linked: the captured order of the fill, or nothing when it was not captured.
FillIsConsistent(f, linked) ==
  /\ IF f.type = "fill" THEN f.leaves = 0 ELSE f.leaves > 0
  /\ \A o \in linked : ~IsAggregate(o) =>
       /\ o.asset \in {None, f.asset} /\ o.side \in {None, f.side}
       /\ f.cum + f.leaves = o.qty

NormalizeFill(f, linked, positions, currency) ==
  [id |-> f.id, order |-> f.order, asset |-> f.asset, side |-> f.side, type |-> f.type,
   qty |-> f.qty, cum |-> f.cum, leaves |-> f.leaves,
   instrument |->
     IF \E o \in linked : ~IsAggregate(o)
       THEN (CHOOSE i \in {NormalizeOrder(o, positions, currency).instrument : o \in linked} : TRUE)
       ELSE None]

\* What the contract demands of a fill.
FillIsSound(f) == f.qty > 0 /\ f.cum >= f.qty /\ f.leaves >= 0

\* normalizeAlpacaCapture of the capture c.
NormalizePositions(c) ==
  {NormalizePosition(raw, c.account.currency) : raw \in ToSet(c.positions)}

Linked(f, orders) == {o \in ToSet(orders) : o.id = f.order}

\* What it checks of the capture, its positions and its flattened orders.
CaptureIsConsistent(c, positions, orders) ==
  /\ UniqueBy(c.positions, "asset")
  /\ UniqueBy(orders, "id")
  /\ \A o \in ToSet(orders) : OrderIsConsistent(o, positions)
  /\ \A f \in ToSet(c.fills) : FillIsConsistent(f, Linked(f, orders)) /\ FillIsSound(f)
  /\ UniqueBy(c.fills, "id")

\* The requests are those of the pages.
NormalizeCapture(c, positions, orders) ==
  LET currency == c.account.currency
  IN  [account |-> c.account, positions |-> positions,
       orders |-> {NormalizeOrder(o, positions, currency) : o \in ToSet(orders)},
       fills |-> {NormalizeFill(f, Linked(f, orders), positions, currency) : f \in ToSet(c.fills)},
       start |-> c.start, requests |-> c.requests,
       baseline |-> c.baseline, windowStart |-> c.windowStart, cutover |-> c.start]

\* createPortfolioSyncSnapshot, which has sorted the observations by identity.
\* (The clock never goes back, so every page was received in the knowledge
\* interval; one identity per resource was checked by the normalization.)
SnapshotIsSound(s) ==
  /\ s.requests # {} /\ s.windowStart <= s.cutover /\ s.start <= s.cutover
  /\ \A p \in s.positions : PositionIsSound(p) /\ p.currency = s.account.currency
  /\ \A o \in s.orders : OrderIsSound(o)

-----------------------------------------------------------------------------
(* Projection, reconciliation and delta *)

\* The aggregates are withheld when one holding cannot be valued.
Projection(snapshot, converged) ==
  [snapshot |-> snapshot,
   state |-> IF /\ converged /\ snapshot.account.currency = "USD"
                /\ \A p \in snapshot.positions : p.support = "supported" /\ p.marked
             THEN "complete" ELSE "incomplete"]

Membership(observations) == {[observation |-> o, support |-> o.support] : o \in observations}

PreparePortfolioProjection(snapshot, result) ==
  [snapshot |-> snapshot, account |-> snapshot.account, result |-> result,
   positions |-> Membership(snapshot.positions), orders |-> Membership(snapshot.orders),
   fills |-> snapshot.fills]

\* The reasons of drift; the rows have converged when there is none.
Drift(snapshot, prepared, expected) ==
  LET Differs(reason, equal) == IF equal THEN {} ELSE {reason}
  IN  UNION {
    Differs("cycle_identity", prepared.snapshot = snapshot),
    Differs("account_observation", prepared.account = snapshot.account),
    Differs("position_membership", {m.observation : m \in prepared.positions} = snapshot.positions),
    Differs("order_membership", {m.observation : m \in prepared.orders} = snapshot.orders),
    Differs("fill_membership", prepared.fills = snapshot.fills),
    Differs("support_classification",
            \A m \in prepared.positions \cup prepared.orders : m.support = m.observation.support),
    Differs("portfolio_result", prepared.result = expected)}

\* Mutant of HasResourceChanges: changes within a collection are not looked for.
Grown(previous, current) == Cardinality(previous) # Cardinality(current)

\* Added, removed or changed: what resourceDiff finds between two collections
\* keyed by identity, as a single answer.
HasResourceChanges(previous, current) == previous # current

SnapshotDelta(previous, current) ==
  IF previous = None THEN "baseline"
  ELSE IF \/ previous.account # current.account
          \/ HasResourceChanges(previous.positions, current.positions)
          \/ HasResourceChanges(previous.orders, current.orders)
          \/ HasResourceChanges(previous.fills, current.fills)
  THEN "changed" ELSE "unchanged"
=============================================================================
