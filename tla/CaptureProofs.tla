----------------------------- MODULE CaptureProofs -----------------------------
(* Proofs about how PortfolioCapture judges a capture, for any accounts,    *)
(* page sizes and bounds, on the invariants PortfolioProofs has of what it  *)
(* reads: two snapshots said to be unchanged stand on an account that was   *)
(* quiet between them, and a capture of an honest provider is accepted,     *)
(* with the evidence of every page it stands on.                            *)
EXTENDS PortfolioProofs

-----------------------------------------------------------------------------
(* An account and what it becomes.                                          *)

\* The orders that were canceled, and how often an account has changed.
CanceledIn(b) == {i \in DOMAIN b.orders : b.orders[i].canceled}
VersionOf(b) == Len(b.orders) + Len(b.fills) + Cardinality(CanceledIn(b))

\* The account c is what the account b may become.
Later(b, c) ==
  /\ IsAccount(b) /\ IsAccount(c)
  /\ Len(b.orders) <= Len(c.orders) /\ Len(b.fills) <= Len(c.fills)
  /\ \A i \in 1 .. Len(b.orders) :
       /\ b.orders[i].canceled => c.orders[i].canceled
       /\ c.orders[i].structure = b.orders[i].structure
       /\ c.orders[i].side = b.orders[i].side /\ c.orders[i].qty = b.orders[i].qty
  /\ \A k \in 1 .. Len(b.fills) : c.fills[k] = b.fills[k]

\* An account may become itself, and what it becomes may go on.
LEMMA LaterSame ==
  ASSUME NEW b, IsAccount(b)
  PROVE  Later(b, b)
BY AccountFacts DEF Later

LEMMA LaterTrans ==
  ASSUME NEW b, NEW c, NEW d, Later(b, c), Later(c, d)
  PROVE  Later(b, d)
<1>1. /\ IsAccount(b) /\ IsAccount(d)
      /\ Len(b.orders) <= Len(c.orders) /\ Len(b.fills) <= Len(c.fills)
      /\ Len(c.orders) <= Len(d.orders) /\ Len(c.fills) <= Len(d.fills)
      /\ Len(b.orders) \in Nat /\ Len(c.orders) \in Nat /\ Len(d.orders) \in Nat
      /\ Len(b.fills) \in Nat /\ Len(c.fills) \in Nat /\ Len(d.fills) \in Nat
  BY AccountFacts DEF Later
<1>2. /\ \A i \in 1 .. Len(b.orders) : i \in 1 .. Len(c.orders)
      /\ \A k \in 1 .. Len(b.fills) : k \in 1 .. Len(c.fills)
  BY <1>1
<1>3. Len(b.orders) <= Len(d.orders) /\ Len(b.fills) <= Len(d.fills)
  BY <1>1
<1> QED
  BY <1>1, <1>2, <1>3 DEF Later

\* What an order has filled never shrinks, and grows with each of its fills.
LEMMA FilledGrows ==
  ASSUME NEW b, NEW c, Later(b, c), NEW i
  PROVE  /\ FilledIn(b, i) <= FilledIn(c, i)
         /\ \A k \in 1 .. Len(c.fills) :
              k \notin 1 .. Len(b.fills) /\ c.fills[k].order = i => FilledIn(b, i) < FilledIn(c, i)
<1> DEFINE m == Len(b.fills)
           n == Len(c.fills)
           S == FillsUpto(b, i, m)
           T == FillsUpto(c, i, n)
<1>1. /\ m \in Nat /\ n \in Nat /\ m <= n /\ \A k \in 1 .. m : c.fills[k] = b.fills[k]
      /\ FilledIn(b, i) = Cardinality(S) /\ FilledIn(c, i) = Cardinality(T)
  BY AccountFacts DEF Later
<1>2. IsFiniteSet(S) /\ IsFiniteSet(T)
  BY <1>1, FillsUptoFinite
<1>3. S \subseteq T /\ S \subseteq 1 .. m
  BY <1>1 DEF FillsUpto
<1>4. \A k \in 1 .. n : c.fills[k].order = i => k \in T
  BY DEF FillsUpto
<1> HIDE DEF S, T, m, n
<1>5. /\ Cardinality(S) <= Cardinality(T) /\ Cardinality(S) \in Nat /\ Cardinality(T) \in Nat
      /\ Cardinality(S) = Cardinality(T) => S = T
  BY <1>2, <1>3, FS_Subset, FS_CardinalityType
<1>6. ASSUME NEW k \in 1 .. n, k \notin 1 .. m, c.fills[k].order = i
      PROVE  Cardinality(S) < Cardinality(T)
  BY <1>3, <1>4, <1>5, <1>6
<1> QED
  BY <1>1, <1>5, <1>6 DEF m, n

\* Nothing has happened in between when no order is new, has filled more or
\* has been canceled.
LEMMA QuietSame ==
  ASSUME NEW d, NEW b, Later(d, b), Len(b.orders) <= Len(d.orders),
         \A i \in 1 .. Len(b.orders) :
           /\ FilledIn(b, i) <= FilledIn(d, i)
           /\ b.orders[i].canceled => d.orders[i].canceled
  PROVE  VersionOf(b) = VersionOf(d)
<1>1. /\ Len(d.orders) \in Nat /\ Len(b.orders) \in Nat /\ Len(d.orders) <= Len(b.orders)
      /\ Len(d.fills) \in Nat /\ Len(b.fills) \in Nat /\ Len(d.fills) <= Len(b.fills)
      /\ DOMAIN b.orders = 1 .. Len(b.orders) /\ DOMAIN d.orders = 1 .. Len(d.orders)
      /\ \A k \in 1 .. Len(b.fills) : b.fills[k].order \in 1 .. Len(b.orders)
      /\ \A i \in 1 .. Len(d.orders) : d.orders[i].canceled => b.orders[i].canceled
      /\ \A i : FilledIn(b, i) \in Nat /\ FilledIn(d, i) \in Nat
  BY AccountFacts DEF Later
<1>2. Len(b.orders) = Len(d.orders)
  BY <1>1
<1>3. Len(b.fills) = Len(d.fills)
  <2>1. SUFFICES ASSUME Len(d.fills) + 1 <= Len(b.fills) PROVE FALSE
    BY <1>1
  <2> DEFINE k == Len(d.fills) + 1
             i == b.fills[k].order
  <2>2. k \in 1 .. Len(b.fills) /\ k \notin 1 .. Len(d.fills)
    BY <1>1, <2>1
  <2>3. i \in 1 .. Len(b.orders)
    BY <1>1, <2>2
  <2>4. FilledIn(d, i) < FilledIn(b, i)
    BY <2>2, FilledGrows
  <2> HIDE DEF i
  <2> QED
    BY <1>1, <2>3, <2>4
<1>4. CanceledIn(b) = CanceledIn(d)
  BY <1>1, <1>2 DEF CanceledIn
<1> QED
  BY <1>2, <1>3, <1>4 DEF VersionOf

\* An order is canceled.
LEMMA CancelIsLater ==
  ASSUME NEW b, IsAccount(b), NEW i \in 1 .. Len(b.orders), FilledIn(b, i) # b.orders[i].qty,
         NEW c, c = [b EXCEPT !.orders[i].canceled = TRUE]
  PROVE  Later(b, c)
<1> DEFINE o == b.orders[i]
           p == [o EXCEPT !.canceled = TRUE]
<1>1. /\ IsAccount(c) /\ c.fills = b.fills /\ Len(c.orders) = Len(b.orders)
      /\ \A x \in 1 .. Len(b.orders) : x # i => c.orders[x] = b.orders[x]
      /\ c.orders[i] = [b.orders[i] EXCEPT !.canceled = TRUE]
  BY CancelKeepsAccount, SMTT(30)
<1>2. c.orders[i] = p
  BY <1>1
<1>3. p.canceled /\ p.structure = o.structure /\ p.side = o.side /\ p.qty = o.qty
  <2>1. o \in OrderRow
    BY AccountFacts
  <2> HIDE DEF o
  <2> QED
    BY <2>1 DEF OrderRow
<1> HIDE DEF p
<1>4. \A x \in 1 .. Len(b.orders) :
        /\ b.orders[x].canceled => c.orders[x].canceled
        /\ c.orders[x].structure = b.orders[x].structure
        /\ c.orders[x].side = b.orders[x].side /\ c.orders[x].qty = b.orders[x].qty
  BY <1>1, <1>2, <1>3
<1>5. Len(b.orders) \in Nat /\ Len(b.fills) \in Nat
  BY AccountFacts
<1> QED
  BY <1>1, <1>4, <1>5 DEF Later

\* The broker account becomes what it may become.
LEMMA GrowthIsLater ==
  ASSUME CInv, \/ PlaceOrder \/ ClockTick \/ \E i : FillOrder(i) \/ CancelOrder(i)
  PROVE  Later(broker, broker')
<1>1. /\ IsAccount(broker) /\ now \in Nat
      /\ Len(broker.orders) \in Nat /\ Len(broker.fills) \in Nat
      /\ \A i \in 1 .. Len(broker.orders) : broker.orders[i] \in OrderRow
  BY BrokerFacts, AccountFacts, BoundFacts DEF CInv
<1>2. CASE PlaceOrder
  <2>1. PICK s \in Structures, side \in {"buy", "sell"}, q \in OrderQty :
          broker' = [broker EXCEPT !.orders =
            Append(@, [structure |-> s, side |-> side, qty |-> q, canceled |-> FALSE])]
    BY <1>2 DEF PlaceOrder
  <2> DEFINE o == [structure |-> s, side |-> side, qty |-> q, canceled |-> FALSE]
  <2>2. o \in OrderRow /\ ~o.canceled
    BY AccountsAssumption, BoundsAssumption DEF OrderRow
  <2>3. broker' = [broker EXCEPT !.orders = Append(@, o)]
    BY <2>1
  <2> HIDE DEF o
  <2>4. /\ IsAccount(broker') /\ broker'.fills = broker.fills /\ Len(broker'.orders) = Len(broker.orders) + 1
        /\ \A i \in 1 .. Len(broker.orders) : broker'.orders[i] = broker.orders[i]
    BY <1>1, <2>2, <2>3, PlaceKeepsAccount
  <2> QED
    BY <1>1, <2>4 DEF Later
<1>3. CASE ClockTick
  <2>1. broker' = broker
    BY <1>3 DEF ClockTick
  <2>2. Later(broker, broker)
    BY <1>1, LaterSame
  <2> QED
    BY <2>1, <2>2
<1>4. ASSUME NEW i, FillOrder(i) PROVE Later(broker, broker')
  <2> DEFINE f == [order |-> i, at |-> now, cum |-> FilledIn(broker, i) + 1]
  <2>1. /\ i \in DOMAIN broker.orders /\ Status(i) \in {"new", "partially_filled"}
        /\ broker' = [broker EXCEPT !.fills = Append(@, f)]
    BY <1>4 DEF FillOrder, Filled
  <2>2. /\ FilledIn(broker, i) # broker.orders[i].qty /\ ~broker.orders[i].canceled
        /\ i \in 1 .. Len(broker.orders)
    BY <2>1, CanTrade
  <2>3. f = [order |-> i, at |-> now, cum |-> FilledIn(broker, i) + 1] /\ now \in Int
    BY <1>1
  <2> HIDE DEF f
  <2>4. /\ IsAccount(broker') /\ broker'.orders = broker.orders
        /\ Len(broker'.fills) = Len(broker.fills) + 1
        /\ \A k \in 1 .. Len(broker.fills) : broker'.fills[k] = broker.fills[k]
    BY <1>1, <2>1, <2>2, <2>3, FillKeepsAccount
  <2> QED
    BY <1>1, <2>4 DEF Later
<1>5. ASSUME NEW i, CancelOrder(i) PROVE Later(broker, broker')
  <2>1. /\ i \in DOMAIN broker.orders /\ Status(i) \in {"new", "partially_filled"}
        /\ broker' = [broker EXCEPT !.orders[i].canceled = TRUE]
    BY <1>5 DEF CancelOrder
  <2>2. FilledIn(broker, i) # broker.orders[i].qty /\ i \in 1 .. Len(broker.orders)
    BY <2>1, CanTrade
  <2> QED
    BY <1>1, <2>1, <2>2, CancelIsLater
<1> QED
  BY <1>2, <1>3, <1>4, <1>5

-----------------------------------------------------------------------------
(* What the pages of a listing show, and when.                              *)

\* The item, or the observation made of it, shows the account x.
ShowsAt(item, x) ==
  /\ item.id[1] \in 1 .. Len(x.orders)
  /\ item.filled = FilledIn(x, item.id[1])
  /\ item.status # "odd" => (item.status = "canceled" <=> x.orders[item.id[1]].canceled)

\* It shows an account that b became and that became c.
ShownBetween(item, b, c) == \E x : Later(b, x) /\ Later(x, c) /\ ShowsAt(item, x)

\* The first page is of the account b, the last one of c.
OrdersDated(pages, b, c) ==
  /\ Later(b, c) /\ pages[1].version = VersionOf(b) /\ Last(pages).version = VersionOf(c)
  /\ OrdersShown(pages, Len(b.orders), Len(c.orders))
  /\ \A p \in 1 .. Len(pages) : \A j \in 1 .. Len(pages[p].items) : ShownBetween(pages[p].items[j], b, c)

\* So are the pages of a listing, for accounts not before d and not after e.
PagesDated(pages, d, e) ==
  pages = <<>> \/ \E b, c : Later(d, b) /\ Later(c, e) /\ OrdersDated(pages, b, c)

\* An order as the provider shows it is what the account says of it.
LEMMA RawOrderShows ==
  ASSUME CInv, NEW i \in 1 .. Len(broker.orders)
  PROVE  ShowsAt(RawOrder(i), broker) /\ ShowsAt([RawOrder(i) EXCEPT !.status = "odd"], broker)
<1> DEFINE item == RawOrder(i)
           odd == [item EXCEPT !.status = "odd"]
<1>1. i \in Nat
  BY BrokerFacts
<1>2. item.id[1] = i /\ odd.id[1] = i /\ odd.status = "odd"
  BY <1>1, RawOrderRules
<1>3. /\ item.status = Status(i) /\ item.filled = FilledIn(broker, i) /\ odd.filled = FilledIn(broker, i)
  <2>1. \A part, structure, asset, class, side, legs :
          LET x == RawPart(i, part, structure, asset, class, side, legs)
          IN  /\ x.status = Status(i) /\ x.filled = FilledIn(broker, i)
              /\ [x EXCEPT !.status = "odd"].filled = FilledIn(broker, i)
    BY DEF RawPart, Filled
  <2>2. \E part, structure, asset, class, side, legs :
          item = RawPart(i, part, structure, asset, class, side, legs)
    <3> DEFINE o == broker.orders[i]
               a == AssetOf(o.structure)
    <3>1. CASE o.structure # "mleg"
      <4>1. item = RawPart(i, "parent", "simple", a, ClassOf(a), o.side, <<>>)
        BY <3>1 DEF RawOrder
      <4> HIDE DEF item, o, a
      <4> QED
        BY <4>1
    <3>2. CASE ~(o.structure # "mleg")
      <4> DEFINE legs == <<RawPart(i, "leg", "simple", a, ClassOf(a), o.side, <<>>)>>
      <4>1. item = RawPart(i, "parent", "mleg", None, None, None, legs)
        BY <3>2 DEF RawOrder
      <4> HIDE DEF item, legs
      <4> QED
        BY <4>1
    <3> QED
      BY <3>1, <3>2
  <2> HIDE DEF item
  <2> QED
    BY <2>1, <2>2
<1>4. Status(i) = "canceled" <=> broker.orders[i].canceled
  <2>1. broker.orders[i].canceled => FilledIn(broker, i) < broker.orders[i].qty
    BY BrokerFacts, AccountFacts
  <2>2. FilledIn(broker, i) \in Nat /\ broker.orders[i].qty \in Nat
    <3>1. broker.orders[i] \in OrderRow /\ FilledIn(broker, i) \in Nat
      BY BrokerFacts, AccountFacts
    <3> QED
      BY <3>1 DEF OrderRow
  <2> QED
    BY <2>1, <2>2 DEF Status, Filled
<1> HIDE DEF item, odd
<1> QED
  BY <1>2, <1>3, <1>4 DEF ShowsAt, item, odd

\* The items of a page that arrives are orders of the account.
LEMMA AnsweredOrders ==
  ASSUME CInv, NEW pages, Cursor(pages) \in Nat,
         NEW flaw \in {"none", "ignored", "unknown"}, flaw = "unknown" => broker.orders # <<>>,
         NEW page, page = AnsweredPage("orders", pages, flaw)
  PROVE  /\ IsSeq(page.items) /\ page.version = VersionOf(broker)
         /\ \A j \in 1 .. Len(page.items) : \E i \in 1 .. Len(broker.orders) :
              page.items[j] \in {RawOrder(i)} \cup
                (IF flaw = "unknown" THEN {[RawOrder(i) EXCEPT !.status = "odd"]} ELSE {})
<1> DEFINE n == Len(broker.orders)
           m == Cursor(pages)
           item == [RawOrder(1) EXCEPT !.status = "odd"]
           all == [k \in 1 .. n |-> RawOrder(k)]
           P == Page("orders", m)
<1>1. /\ n \in Nat /\ DOMAIN broker.orders = 1 .. n /\ broker["orders"] = broker.orders
      /\ page.version = VersionOf(broker)
  BY BrokerFacts DEF AnsweredPage, Version, VersionOf, CanceledIn
<1>2. page.items = CASE flaw = "ignored" -> all
                     [] flaw = "unknown" -> <<item>>
                     [] OTHER            -> P
  BY <1>1 DEF AnsweredPage
<1>3. CASE flaw = "none"
  <2>1. page.items = P
    BY <1>2, <1>3
  <2>2. CASE m > n
    <3>1. P = <<>>
      BY <2>2, EmptyOrdersPage
    <3>2. IsSeq(P) /\ Len(P) = 0
      BY <3>1, EmptyIsSeq
    <3> QED
      BY <1>1, <2>1, <3>2
  <2>3. CASE ~(m > n)
    <3>1. m \in 0 .. n
      BY <1>1, <2>3
    <3>2. /\ IsSeq(P) /\ Len(P) \in 0 .. (n - m)
          /\ \A j \in 1 .. Len(P) : P[j] = RawOrder(m + j)
      BY <3>1, OrdersPage
    <3>3. \A j \in 1 .. Len(P) : m + j \in 1 .. n
      BY <1>1, <3>1, <3>2
    <3> HIDE DEF P, m
    <3> QED
      BY <1>1, <1>3, <2>1, <3>2, <3>3
  <2> QED
    BY <2>2, <2>3
<1>4. CASE flaw = "ignored"
  <2>1. page.items = all /\ \A j \in 1 .. n : all[j] = RawOrder(j)
    BY <1>2, <1>4
  <2>2. IsSeq(all) /\ Len(all) = n
    BY WholeAccount
  <2> HIDE DEF all
  <2> QED
    BY <1>1, <1>4, <2>1, <2>2
<1>5. CASE flaw = "unknown"
  <2>1. page.items = <<item>>
    BY <1>2, <1>5
  <2>2. <<item>> \in Seq({item}) /\ Len(<<item>>) = 1 /\ <<item>>[1] = item
    OBVIOUS
  <2>3. IsSeq(<<item>>)
    BY <2>2, SeqIsSeq
  <2>4. 1 \in 1 .. n
    <3>1. n # 0
      <4>1. broker.orders \in Seq(OrderRow) /\ broker.orders # <<>>
        BY <1>5, BrokerFacts, AccountFacts
      <4> QED
        BY <4>1
    <3> QED
      BY <1>1, <3>1
  <2> HIDE DEF n
  <2> QED
    BY <1>1, <1>5, <2>1, <2>2, <2>3, <2>4
<1> QED
  BY <1>3, <1>4, <1>5

\* More of a listing has been read, later.
LEMMA OrdersAppend ==
  ASSUME NEW pages, IsSeq(pages), NEW page, NEW b, NEW c, NEW e, Later(b, c), Later(c, e),
         pages # <<>> => OrdersDated(pages, b, c),
         pages = <<>> => b = e,
         page.version = VersionOf(e),
         OrdersShown(Append(pages, page), Len(b.orders), Len(e.orders)),
         \A j \in 1 .. Len(page.items) : ShowsAt(page.items[j], e)
  PROVE  OrdersDated(Append(pages, page), b, e)
<1> DEFINE n == Len(pages)
           new == Append(pages, page)
<1>1. /\ IsSeq(new) /\ n \in Nat /\ Len(new) = n + 1 /\ new[n + 1] = page
      /\ \A i \in 1 .. n : new[i] = pages[i]
  BY AppendIsSeq
<1>2. OrdersShown(new, Len(b.orders), Len(e.orders))
  OBVIOUS
<1> HIDE DEF new
<1>3. Later(b, e) /\ Later(e, e)
  BY LaterTrans, LaterSame DEF Later
<1>4. Last(new).version = VersionOf(e)
  BY <1>1 DEF Last
<1>5. new[1].version = VersionOf(b)
  <2>1. CASE n = 0
    BY <1>1, <2>1, SeqDomain
  <2>2. CASE n # 0
    <3>1. 1 \in 1 .. n /\ pages # <<>>
      BY <1>1, <2>2, EmptyIsSeq
    <3> QED
      BY <1>1, <3>1 DEF OrdersDated
  <2> QED
    BY <2>1, <2>2
<1>6. \A p \in 1 .. Len(new) : \A j \in 1 .. Len(new[p].items) : ShownBetween(new[p].items[j], b, e)
  <2>1. TAKE p \in 1 .. Len(new)
  <2>2. CASE p = n + 1
    <3>1. new[p] = page
      BY <1>1, <2>2
    <3> QED
      BY <1>3, <3>1 DEF ShownBetween
  <2>3. CASE p # n + 1
    <3>1. p \in 1 .. n /\ pages # <<>> /\ new[p] = pages[p]
      BY <1>1, <2>3, EmptyIsSeq
    <3>2. \A j \in 1 .. Len(pages[p].items) : ShownBetween(pages[p].items[j], b, c)
      BY <3>1 DEF OrdersDated
    <3>3. \A x : Later(x, c) => Later(x, e)
      BY LaterTrans
    <3> QED
      BY <3>1, <3>2, <3>3 DEF ShownBetween
  <2> QED
    BY <2>2, <2>3
<1> QED
  BY <1>2, <1>3, <1>4, <1>5, <1>6 DEF OrdersDated, new

-----------------------------------------------------------------------------
(* How a read moves.                                                        *)

\* The read of a resource settles; other reads stay or are canceled, and only
\* its failure can be why the attempt is aborted.
Settles(a, r, st, err, pages) ==
  /\ task'[a][r] \in {[st |-> st, err |-> err, pages |-> pages], Failed("cancelled")}
  /\ \A b \in Attempts, q \in Resources :
       b # a \/ q # r => task'[b][q] \in {task[b][q], Failed("cancelled")}
  /\ run'.reason = run.reason \/ (st = "failed" /\ run'.reason = err)

\* It settles for its pages, of which the last one may have been examined.
ReadMove(a, r, pages, st, err) ==
  /\ Settles(a, r, st, err, IF st = "failed" THEN <<>> ELSE pages)
  /\ st \in {"recording", "fetching", "done", "failed"}
  /\ receipts' = receipts \/
       receipts' = receipts \cup {[attempt |-> a, resource |-> r, ordinal |-> Len(pages) - 1]}
  /\ st = "recording" => receipts' = receipts
  /\ st \in {"fetching", "done"} =>
       /\ receipts' = receipts \cup {[attempt |-> a, resource |-> r, ordinal |-> Len(pages) - 1]}
       /\ PageVerdict(r, pages) = IF st = "fetching" THEN "next" ELSE "done"
  /\ IF st = "failed" THEN err \in Causes /\ (faults' = faults => err = PageVerdict(r, pages))
     ELSE err = "none"

\* What it has read with the page that arrives, if one does.
Arrived(a, r, pages, st) ==
  \/ /\ pages = task[a][r].pages
     /\ (task[a][r].st = "recording" /\ st # "recording") \/ (st = "failed" /\ faults' # faults)
  \/ /\ task[a][r].st = "fetching"
     /\ \E flaw \in {"none", "ignored", "unknown"} :
          /\ flaw = "ignored" => r \in {"orders", "fills"}
          /\ flaw = "unknown" => r = "orders" /\ broker.orders # <<>>
          /\ faults' = faults => flaw = "none"
          /\ pages = Append(task[a][r].pages, AnsweredPage(r, task[a][r].pages, flaw))

\* A read goes on, ends or fails.
LEMMA SettleMoves ==
  ASSUME CInv, NEW a \in Attempts, NEW r \in Resources, NEW st, NEW err, NEW pages,
         ReadRight([st |-> st, err |-> err, pages |-> pages]),
         SettleTask(a, r, st, err, pages)
  PROVE  Settles(a, r, st, err, pages)
<1> DEFINE read == [st |-> st, err |-> err, pages |-> pages]
<1>1. ReadsRight(task) /\ run \in RunState
  BY DEF CInv, AttemptRight
<1>2. /\ run' = IF st = "failed" /\ r \in Collections /\ run.reason = "none" /\ a = run.attempt
                THEN [run EXCEPT !.reason = err] ELSE run
      /\ task'[a][r] = Failed("cancelled") \/ task'[a][r] = read
      /\ \A b \in Attempts, q \in Resources :
           b # a \/ q # r => task'[b][q] = Failed("cancelled") \/ task'[b][q] = task[b][q]
  BY <1>1, SettleRules
<1>3. [run EXCEPT !.reason = err].reason = err
  BY <1>1 DEF RunState
<1> HIDE DEF read
<1>4. run'.reason = run.reason \/ (st = "failed" /\ run'.reason = err)
  BY <1>2, <1>3
<1> QED
  BY <1>2, <1>4 DEF Settles, read

\* A page is examined.
LEMMA ExamineMoves ==
  ASSUME CInv, NEW a \in Attempts, NEW r \in Resources, NEW pages,
         IsSeq(pages), Len(pages) \in 1 .. MaxPages,
         ExaminePage(a, r, pages)
  PROVE  \E st, err : ReadMove(a, r, pages, st, err) /\ st # "recording"
<1> DEFINE verdict == PageVerdict(r, pages)
<1>1. /\ receipts' = receipts \cup {[attempt |-> a, resource |-> r, ordinal |-> Len(pages) - 1]}
      /\ IF verdict \in Failures THEN SettleTask(a, r, "failed", verdict, <<>>)
         ELSE SettleTask(a, r, IF verdict = "next" THEN "fetching" ELSE "done", "none", pages)
  BY DEF ExaminePage
<1>2. /\ verdict \in {"done", "next", "malformed_response", "resource_limit"}
      /\ verdict = "next" => Len(pages) < MaxPages
  BY VerdictRange
<1>3. verdict = PageVerdict(r, pages)
  OBVIOUS
<1> HIDE DEF verdict
<1>4. CASE verdict \in Failures
  <2>1. verdict \in Causes
    BY <1>4 DEF Causes
  <2>2. ReadRight(Failed(verdict))
    BY <2>1, FailedIsRight
  <2>3. SettleTask(a, r, "failed", verdict, <<>>)
    BY <1>1, <1>4
  <2>4. Settles(a, r, "failed", verdict, <<>>)
    BY <2>2, <2>3, SettleMoves DEF Failed
  <2>5. ReadMove(a, r, pages, "failed", verdict)
    BY <1>1, <1>3, <2>1, <2>4 DEF ReadMove
  <2> QED
    BY <2>5
<1>5. CASE verdict = "next"
  <2>1. SettleTask(a, r, "fetching", "none", pages)
    BY <1>1, <1>5 DEF Failures
  <2>2. ReadRight([st |-> "fetching", err |-> "none", pages |-> pages])
    <3>1. Len(pages) \in 0 .. (MaxPages - 1)
      BY <1>2, <1>5, BoundFacts
    <3> QED
      BY <3>1 DEF ReadRight
  <2>3. Settles(a, r, "fetching", "none", pages)
    BY <2>1, <2>2, SettleMoves
  <2>4. ReadMove(a, r, pages, "fetching", "none")
    BY <1>1, <1>3, <1>5, <2>3 DEF ReadMove
  <2> QED
    BY <2>4
<1>6. CASE verdict = "done"
  <2>1. SettleTask(a, r, "done", "none", pages)
    BY <1>1, <1>6 DEF Failures
  <2>2. ReadRight([st |-> "done", err |-> "none", pages |-> pages])
    BY DEF ReadRight
  <2>3. Settles(a, r, "done", "none", pages)
    BY <2>1, <2>2, SettleMoves
  <2>4. ReadMove(a, r, pages, "done", "none")
    BY <1>1, <1>3, <1>6, <2>3 DEF ReadMove
  <2> QED
    BY <2>4
<1>7. verdict \in Failures \/ verdict = "next" \/ verdict = "done"
  BY <1>2 DEF Failures
<1> QED
  BY <1>4, <1>5, <1>6, <1>7

\* A read fails at a fault.
LEMMA FailureMoves ==
  ASSUME CInv, NEW a \in Attempts, NEW r \in Resources, NEW err \in Causes,
         SettleTask(a, r, "failed", err, <<>>), receipts' = receipts, faults' # faults
  PROVE  \E st, e : ReadMove(a, r, task[a][r].pages, st, e) /\ Arrived(a, r, task[a][r].pages, st)
<1>1. ReadRight(Failed(err))
  BY FailedIsRight
<1>2. Settles(a, r, "failed", err, <<>>)
  BY <1>1, SettleMoves DEF Failed
<1>3. ReadMove(a, r, task[a][r].pages, "failed", err)
  BY <1>2 DEF ReadMove
<1>4. Arrived(a, r, task[a][r].pages, "failed")
  BY DEF Arrived
<1> QED
  BY <1>3, <1>4

\* Whatever happens to a read.
LEMMA ReadMoves ==
  ASSUME CInv, NEW a \in Attempts, NEW r \in Resources,
         \/ Answer(a, r) \/ RecordReceipt(a, r)
         \/ \E class \in FailureClasses : AnswerFails(a, r, class)
  PROVE  /\ UNCHANGED <<broker, now, captured, snaps, fillRows>> /\ SameAttempt
         /\ a = run.attempt /\ task[a][r].st \in {"fetching", "recording"}
         /\ run.pc \in {"account", "collect"} /\ faults' \in Nat /\ faults <= faults'
         /\ \E pages, st, err : ReadMove(a, r, pages, st, err) /\ Arrived(a, r, pages, st)
<1>1. /\ faults \in Nat /\ ReadRight(task[a][r])
      /\ SameAttempt
      /\ task[a][r].st \in {"fetching", "recording"}
      /\ UNCHANGED <<broker, now, captured, snaps, fillRows>>
  <2>1. faults \in Nat
    BY BoundFacts DEF CInv
  <2>2. ReadRight(task[a][r])
    BY DEF CInv, AttemptRight, ReadsRight
  <2>3. SameAttempt
    BY AnswerStep, RecordStep, AnswerFailsStep
  <2>4. /\ task[a][r].st \in {"fetching", "recording"}
        /\ UNCHANGED <<broker, now, captured, snaps, fillRows>>
    BY DEF Answer, RecordReceipt, AnswerFails, UnchangedWorld
  <2> QED
    BY <2>1, <2>2, <2>3, <2>4
<1>2. a = run.attempt /\ run.pc \in {"account", "collect"}
  BY <1>1, ReadingRules DEF CInv
<1>3. CASE Answer(a, r)
  <2>1. task[a][r].st = "fetching" /\ (faults' = faults \/ faults' \in {faults + 1, faults + 2})
    BY <1>1, <1>3, AnswerCases
  <2>2. PICK flaw \in {"none", "ignored", "unknown"}, slow \in BOOLEAN : \E pages :
           /\ flaw = "ignored" => r \in {"orders", "fills"}
           /\ flaw = "unknown" => r = "orders" /\ broker.orders # <<>>
           /\ faults' = faults => flaw = "none" /\ ~slow
           /\ pages = Append(task[a][r].pages, AnsweredPage(r, task[a][r].pages, flaw))
           /\ IF slow THEN SettleTask(a, r, "recording", "none", pages) /\ UNCHANGED receipts
              ELSE ExaminePage(a, r, pages)
    BY <1>1, <1>3, AnswerCases
  <2>3. PICK pages :
           /\ pages = Append(task[a][r].pages, AnsweredPage(r, task[a][r].pages, flaw))
           /\ IF slow THEN SettleTask(a, r, "recording", "none", pages) /\ UNCHANGED receipts
              ELSE ExaminePage(a, r, pages)
    BY <2>2
  <2>4. IsSeq(pages) /\ Len(pages) \in 1 .. MaxPages
    <3>1. IsSeq(task[a][r].pages) /\ Len(task[a][r].pages) \in 0 .. (MaxPages - 1)
      BY <1>1, <2>1 DEF ReadRight
    <3>2. IsSeq(pages) /\ Len(pages) = Len(task[a][r].pages) + 1
      BY <2>3, <3>1, AppendIsSeq
    <3> QED
      BY <3>1, <3>2, BoundFacts
  <2>5. \A st : Arrived(a, r, pages, st)
    BY <2>1, <2>2, <2>3 DEF Arrived
  <2>6. \E st, err : ReadMove(a, r, pages, st, err)
    <3>1. CASE slow
      <4>1. SettleTask(a, r, "recording", "none", pages) /\ receipts' = receipts
        BY <2>3, <3>1
      <4>2. ReadRight([st |-> "recording", err |-> "none", pages |-> pages])
        BY <2>4 DEF ReadRight
      <4>3. Settles(a, r, "recording", "none", pages)
        BY <4>1, <4>2, SettleMoves
      <4>4. ReadMove(a, r, pages, "recording", "none")
        BY <4>1, <4>3 DEF ReadMove
      <4> QED
        BY <4>4
    <3>2. CASE ~slow
      BY <2>3, <2>4, <3>2, ExamineMoves
    <3> QED
      BY <3>1, <3>2
  <2>7. faults' \in Nat /\ faults <= faults'
    BY <1>1, <2>1
  <2> QED
    BY <1>1, <1>2, <2>5, <2>6, <2>7
<1>4. CASE RecordReceipt(a, r)
  <2> DEFINE pages == task[a][r].pages
  <2>1. /\ task[a][r].st = "recording"
        /\ \/ ExaminePage(a, r, pages) /\ faults' = faults
           \/ /\ faults' = faults + 1 /\ SettleTask(a, r, "failed", "database", <<>>)
              /\ receipts' = receipts
    BY <1>4 DEF RecordReceipt
  <2>2. IsSeq(pages) /\ Len(pages) \in 1 .. MaxPages
    BY <1>1, <2>1 DEF ReadRight
  <2>4. "database" \in Causes
    BY DEF Causes
  <2>5. faults' \in Nat /\ faults <= faults'
    BY <1>1, <2>1
  <2>6. \E st, err : ReadMove(a, r, pages, st, err) /\ Arrived(a, r, pages, st)
    <3>1. CASE ExaminePage(a, r, pages)
      <4>1. \A st : st # "recording" => Arrived(a, r, pages, st)
        BY <2>1 DEF Arrived
      <4> HIDE DEF pages
      <4> QED
        BY <2>2, <3>1, <4>1, ExamineMoves
    <3>2. CASE ~ExaminePage(a, r, pages)
      BY <1>1, <2>1, <2>4, <3>2, FailureMoves
    <3> QED
      BY <3>1, <3>2
  <2> QED
    BY <1>1, <1>2, <2>5, <2>6
<1>5. ASSUME NEW class \in FailureClasses, AnswerFails(a, r, class)
      PROVE  /\ faults' \in Nat /\ faults <= faults'
             /\ \E pages, st, err : ReadMove(a, r, pages, st, err) /\ Arrived(a, r, pages, st)
  <2>1. /\ task[a][r].st = "fetching" /\ faults' = faults + 1
        /\ SettleTask(a, r, "failed", class, <<>>) /\ receipts' = receipts
    BY <1>5 DEF AnswerFails
  <2>2. class \in Causes
    BY BoundFacts DEF Causes
  <2>3. faults' \in Nat /\ faults <= faults' /\ faults' # faults
    BY <1>1, <2>1
  <2>4. \E st, e : ReadMove(a, r, task[a][r].pages, st, e) /\ Arrived(a, r, task[a][r].pages, st)
    BY <2>1, <2>2, <2>3, FailureMoves
  <2> QED
    BY <2>3, <2>4
<1> QED
  BY <1>1, <1>2, <1>3, <1>4, <1>5

-----------------------------------------------------------------------------
(* What the normalization keeps of the pages.                               *)

\* The items of pages, in a sequence; no item comes twice when no page repeats
\* one of its own or of another.
LEMMA ItemsAll ==
  ASSUME NEW pages, IsSeq(pages), \A p \in 1 .. Len(pages) : IsSeq(pages[p].items),
         NEW items, items = PageItems(pages)
  PROVE  /\ IsSeq(items)
         /\ \A e : e \in ToSet(items) <=>
              \E p \in 1 .. Len(pages) : \E j \in 1 .. Len(pages[p].items) : e = pages[p].items[j]
         /\ IsInjective(items) <=>
              /\ \A p \in 1 .. Len(pages) : IsInjective(pages[p].items)
              /\ \A p, q \in 1 .. Len(pages) :
                   p < q => ToSet(pages[p].items) \cap ToSet(pages[q].items) = {}
<1> DEFINE n == Len(pages)
           seqs == [p \in 1 .. n |-> pages[p].items]
<1>1. n \in Nat /\ DOMAIN pages = 1 .. n
  BY SeqDomain
<1>2. items = FlattenSeq(seqs)
  BY <1>1 DEF PageItems
<1>3. seqs = [p \in 1 .. n |-> seqs[p]] /\ \A p \in 1 .. n : seqs[p] = pages[p].items
  OBVIOUS
<1>4. \A p \in 1 .. n : IsSeq(pages[p].items)
  OBVIOUS
<1> HIDE DEF seqs, n
<1>5. IsSeq(seqs) /\ Len(seqs) = n
  BY <1>1, <1>3, MadeIsSeq
<1>6. /\ IsSeq(items) /\ ToSet(items) = AllItems(seqs)
      /\ IsInjective(items) <=> Apart(seqs, n)
  BY <1>2, <1>3, <1>4, <1>5, NestedRules
<1>7. \A e : e \in ToSet(items) <=> \E p \in 1 .. n : e \in ToSet(pages[p].items)
  BY <1>3, <1>5, <1>6 DEF AllItems
<1>8. \A p \in 1 .. n : DOMAIN pages[p].items = 1 .. Len(pages[p].items)
  BY <1>4, SeqDomain
<1>9. \A e : e \in ToSet(items) <=>
        \E p \in 1 .. n : \E j \in 1 .. Len(pages[p].items) : e = pages[p].items[j]
  <2>1. \A p \in 1 .. n : \A e : e \in ToSet(pages[p].items) <=>
          \E j \in 1 .. Len(pages[p].items) : e = pages[p].items[j]
    BY <1>8 DEF ToSet
  <2>2. TAKE e
  <2>3. e \in ToSet(items) <=> \E p \in 1 .. n : e \in ToSet(pages[p].items)
    BY <1>7
  <2>4. ASSUME NEW p \in 1 .. n
        PROVE  e \in ToSet(pages[p].items) <=> \E j \in 1 .. Len(pages[p].items) : e = pages[p].items[j]
    BY <2>1
  <2> QED
    BY ONLY <2>3, <2>4, Zenon
<1>10. Apart(seqs, n) <=>
         /\ \A p \in 1 .. n : IsInjective(pages[p].items)
         /\ \A p, q \in 1 .. n : p < q => ToSet(pages[p].items) \cap ToSet(pages[q].items) = {}
  BY <1>3 DEF Apart
<1> QED
  BY <1>6, <1>9, <1>10 DEF n

\* An order and its legs, as a set.
PartSet(raw) ==
  {PartOf(raw, "parent", raw.structure = "mleg")} \cup
    {PartOf(raw.legs[i], "leg", raw.structure = "mleg") : i \in 1 .. Len(raw.legs)}

\* Nothing else comes of an order, and an order with at most one leg gives
\* nothing twice.
LEMMA PartsAll ==
  ASSUME NEW raw, OrderItem(raw)
  PROVE  /\ IsSeq(PartsOf(raw)) /\ ToSet(PartsOf(raw)) = PartSet(raw)
         /\ Len(raw.legs) <= 1 => IsInjective(PartsOf(raw))
<1> DEFINE mleg == raw.structure = "mleg"
           parent == PartOf(raw, "parent", mleg)
           one == <<parent>>
           n == Len(raw.legs)
           legs == [i \in 1 .. n |-> PartOf(raw.legs[i], "leg", mleg)]
           S == ToSet(one) \cup ToSet(legs)
           both == one \o legs
<1>1. n \in Nat /\ DOMAIN raw.legs = 1 .. n
  BY SeqDomain DEF OrderItem
<1>2. PartsOf(raw) = both
  BY <1>1 DEF PartsOf
<1>3. PartSet(raw) = {parent} \cup {legs[i] : i \in 1 .. n}
  BY DEF PartSet
<1>4. parent.role = "parent" /\ \A i \in 1 .. n : legs[i].role = "leg"
  BY DEF PartOf
<1>5. legs = [i \in 1 .. n |-> legs[i]]
  OBVIOUS
<1> HIDE DEF parent, legs
<1>6. IsSeq(legs) /\ Len(legs) = n /\ DOMAIN legs = 1 .. n
  <2> HIDE DEF n
  <2> QED
    BY <1>1, <1>5, MadeIsSeq
<1>7. IsSeq(one) /\ ToSet(one) = {parent} /\ IsInjective(one)
  <2>1. one \in Seq({parent}) /\ DOMAIN one = {1} /\ one[1] = parent
    OBVIOUS
  <2> QED
    BY <2>1, SeqIsSeq DEF ToSet, IsInjective
<1> HIDE DEF one
<1>8. one \in Seq(S) /\ legs \in Seq(S)
  <2>1. ToSet(one) \subseteq S /\ ToSet(legs) \subseteq S
    OBVIOUS
  <2> HIDE DEF S
  <2> QED
    BY <1>6, <1>7, <2>1, SeqOfMore
<1> HIDE DEF S
<1>9. /\ both \in Seq(S) /\ ToSet(both) = ToSet(one) \cup ToSet(legs)
      /\ IsInjective(both) <=> /\ IsInjective(one) /\ IsInjective(legs)
                               /\ ToSet(one) \cap ToSet(legs) = {}
  BY <1>8, ConcatRules
<1> HIDE DEF both
<1>10. IsSeq(both)
  BY <1>9, SeqIsSeq
<1>11. ToSet(legs) = {legs[i] : i \in 1 .. n}
  BY <1>6 DEF ToSet
<1>12. ToSet(both) = PartSet(raw)
  BY <1>3, <1>7, <1>9, <1>11
<1>13. n <= 1 => IsInjective(both)
  <2>1. ToSet(one) \cap ToSet(legs) = {}
    BY <1>4, <1>7, <1>11
  <2>2. n <= 1 => IsInjective(legs)
    BY <1>1, <1>6 DEF IsInjective
  <2> QED
    BY <1>7, <1>9, <2>1, <2>2
<1> QED
  BY <1>2, <1>10, <1>12, <1>13

\* Flattening gives the parts of all orders, and none twice when no two orders
\* have one number and no order has more than one leg.
LEMMA FlattenAll ==
  ASSUME NEW raws, IsSeq(raws), \A raw \in ToSet(raws) : OrderItem(raw)
  PROVE  /\ IsSeq(FlattenOrders(raws))
         /\ \A o : o \in ToSet(FlattenOrders(raws)) <=> \E raw \in ToSet(raws) : o \in PartSet(raw)
         /\ (/\ \A raw \in ToSet(raws) : Len(raw.legs) <= 1
             /\ \A i, j \in 1 .. Len(raws) : raws[i].id[1] = raws[j].id[1] => i = j)
            => IsInjective(FlattenOrders(raws))
<1> DEFINE n == Len(raws)
           seqs == [i \in 1 .. n |-> PartsOf(raws[i])]
<1>1. /\ n \in Nat /\ DOMAIN raws = 1 .. n
      /\ \A j \in 1 .. n : raws[j] \in ToSet(raws)
      /\ \A e \in ToSet(raws) : \E j \in 1 .. n : e = raws[j]
  BY SeqDomain
<1>2. FlattenOrders(raws) = FlattenSeq(seqs)
  BY <1>1 DEF FlattenOrders, PartsOf, PartOf
<1>3. seqs = [i \in 1 .. n |-> seqs[i]] /\ \A i \in 1 .. n : seqs[i] = PartsOf(raws[i])
  OBVIOUS
<1> HIDE DEF seqs
<1>4. IsSeq(seqs) /\ Len(seqs) = n
  <2> HIDE DEF n
  <2> QED
    BY <1>1, <1>3, MadeIsSeq
<1>5. \A i \in 1 .. n :
        /\ IsSeq(seqs[i]) /\ ToSet(seqs[i]) = PartSet(raws[i])
        /\ Len(raws[i].legs) <= 1 => IsInjective(seqs[i])
        /\ \A o \in ToSet(seqs[i]) : o.id[1] = raws[i].id[1]
  BY <1>1, <1>3, PartsAll, PartsRules
<1>6. /\ IsSeq(FlattenSeq(seqs)) /\ ToSet(FlattenSeq(seqs)) = AllItems(seqs)
      /\ IsInjective(FlattenSeq(seqs)) <=> Apart(seqs, n)
  BY <1>4, <1>5, NestedRules
<1>7. \A o : o \in AllItems(seqs) <=> \E i \in 1 .. n : o \in ToSet(seqs[i])
  BY <1>4 DEF AllItems
<1>8. \A o : o \in AllItems(seqs) <=> \E raw \in ToSet(raws) : o \in PartSet(raw)
  BY <1>1, <1>5, <1>7
<1>9. ASSUME \A raw \in ToSet(raws) : Len(raw.legs) <= 1,
             \A i, j \in 1 .. n : raws[i].id[1] = raws[j].id[1] => i = j
      PROVE  Apart(seqs, n)
  <2>1. \A i \in 1 .. n : IsInjective(seqs[i])
    BY <1>1, <1>5, <1>9
  <2>2. ASSUME NEW i \in 1 .. n, NEW j \in 1 .. n, i < j
        PROVE  ToSet(seqs[i]) \cap ToSet(seqs[j]) = {}
    <3>1. raws[i].id[1] # raws[j].id[1]
      BY <1>1, <1>9, <2>2
    <3> QED
      BY <1>5, <3>1
  <2> QED
    BY <2>1, <2>2 DEF Apart
<1> QED
  BY <1>2, <1>6, <1>8, <1>9

\* An observation that says of an order what the page said.
SameOrder(o, item) == o.id = item.id /\ o.filled = item.filled /\ o.status = item.status

\* The observations say of the orders what the pages said.
OrdersKept(pages, orders) ==
  /\ ~Odd(pages)
  /\ \A p \in 1 .. Len(pages) : \A j \in 1 .. Len(pages[p].items) :
       \E o \in orders : SameOrder(o, pages[p].items[j])
  /\ \A o \in orders : o.id[2] = "parent" =>
       \E p \in 1 .. Len(pages) : \E j \in 1 .. Len(pages[p].items) : SameOrder(o, pages[p].items[j])

\* A parent is what its page said, and only a parent is called one.
LEMMA PartsKept ==
  ASSUME NEW raw, OrderItem(raw)
  PROVE  /\ \E o \in PartSet(raw) : SameOrder(o, raw)
         /\ \A o \in PartSet(raw) : o.id[2] = "parent" => SameOrder(o, raw)
<1> DEFINE mleg == raw.structure = "mleg"
           parent == PartOf(raw, "parent", mleg)
           n == Len(raw.legs)
<1>1. \A x, role, m : SameOrder(PartOf(x, role, m), x)
  BY DEF SameOrder, PartOf
<1>2. DOMAIN raw.legs = 1 .. n
  BY SeqDomain DEF OrderItem
<1>3. \A i \in 1 .. n : raw.legs[i].id[2] = "leg"
  <2>1. TAKE i \in 1 .. n
  <2>2. raw.legs[i].id = <<raw.id[1], "leg">>
    BY <1>2 DEF OrderItem
  <2> QED
    BY <2>2
<1>4. \A i \in 1 .. n : PartOf(raw.legs[i], "leg", mleg).id[2] # "parent"
  BY <1>1, <1>3 DEF SameOrder
<1>5. SameOrder(parent, raw)
  BY <1>1
<1>6. PartSet(raw) = {parent} \cup {PartOf(raw.legs[i], "leg", mleg) : i \in 1 .. n}
  BY DEF PartSet
<1> HIDE DEF parent, n
<1> QED
  BY <1>4, <1>5, <1>6

\* So is a capture that is accepted.
LEMMA CaptureKept ==
  ASSUME NEW raw, Consistent(raw), NEW pages, IsSeq(pages),
         \A p \in 1 .. Len(pages) : PageRight("orders", pages[p]),
         raw.orders = PageItems(pages)
  PROVE  OrdersKept(pages, Normalized(raw).orders)
<1> DEFINE positions == NormalizePositions(raw)
           orders == FlattenOrders(raw.orders)
           currency == raw.account.currency
           flat == ToSet(orders)
           N(o) == NormalizeOrder(o, positions, currency)
           kept == {N(o) : o \in flat}
<1>1. /\ Normalized(raw).orders = kept /\ \A o \in flat : o.status # "odd"
  <2>1. Normalized(raw).orders = kept
    BY DEF Normalized, NormalizeCapture
  <2>2. \A o \in flat : o.status # "odd"
    BY NormalizedRules
  <2> QED
    BY <2>1, <2>2
<1>2. \A o : SameOrder(N(o), o)
  <2> HIDE DEF positions, currency
  <2> QED
    BY DEF NormalizeOrder, SameOrder
<1> HIDE DEF N
<1>3. \A p \in 1 .. Len(pages) : IsSeq(pages[p].items)
  BY DEF PageRight
<1>4. /\ IsSeq(raw.orders)
      /\ \A e : e \in ToSet(raw.orders) <=>
           \E p \in 1 .. Len(pages) : \E j \in 1 .. Len(pages[p].items) : e = pages[p].items[j]
  BY <1>3, ItemsAll, SMTT(30)
<1>5. \A e \in ToSet(raw.orders) : OrderItem(e)
  <2>1. \A p \in 1 .. Len(pages) : DOMAIN pages[p].items = 1 .. Len(pages[p].items)
    BY <1>3, SeqDomain
  <2> QED
    BY <1>4, <2>1 DEF PageRight
<1>6. \A o : o \in flat <=> \E e \in ToSet(raw.orders) : o \in PartSet(e)
  BY <1>4, <1>5, FlattenAll
<1> HIDE DEF flat
<1>7. \A o, x, e : SameOrder(o, x) /\ SameOrder(x, e) => SameOrder(o, e)
  BY DEF SameOrder
<1>8. \A e \in ToSet(raw.orders) : \E o \in kept : SameOrder(o, e)
  BY <1>2, <1>5, <1>6, <1>7, PartsKept, SMTT(30)
<1>9. \A o \in kept : o.id[2] = "parent" => \E e \in ToSet(raw.orders) : SameOrder(o, e)
  <2>1. TAKE o \in kept
  <2>2. PICK x \in flat : o = N(x)
    OBVIOUS
  <2>3. SameOrder(o, x)
    BY <1>2, <2>2
  <2>4. PICK e \in ToSet(raw.orders) : x \in PartSet(e)
    BY <1>6
  <2>5. o.id[2] = "parent" => SameOrder(x, e)
    BY <1>5, <2>3, <2>4, PartsKept DEF SameOrder
  <2> QED
    BY <1>7, <2>3, <2>5
<1>10. ~Odd(pages)
  <2>1. SUFFICES ASSUME Odd(pages) PROVE FALSE
    OBVIOUS
  <2>2. PICK p \in DOMAIN pages : \E j \in DOMAIN pages[p].items : pages[p].items[j].status = "odd"
    BY <2>1 DEF Odd
  <2>3. p \in 1 .. Len(pages) /\ DOMAIN pages[p].items = 1 .. Len(pages[p].items)
    BY <1>3, SeqDomain
  <2>4. PICK e \in ToSet(raw.orders) : e.status = "odd"
    BY <1>4, <2>2, <2>3
  <2>5. PICK x \in PartSet(e) : SameOrder(x, e)
    BY <1>5, PartsKept
  <2> QED
    BY <1>1, <1>6, <2>4, <2>5 DEF SameOrder
<1> HIDE DEF kept
<1>11. OrdersKept(pages, kept)
  <2>1. \A p \in 1 .. Len(pages) : \A j \in 1 .. Len(pages[p].items) :
          \E o \in kept : SameOrder(o, pages[p].items[j])
    BY <1>4, <1>8
  <2>2. \A o \in kept : o.id[2] = "parent" =>
          \E p \in 1 .. Len(pages) : \E j \in 1 .. Len(pages[p].items) : SameOrder(o, pages[p].items[j])
    <3>1. TAKE o \in kept
    <3>2. ASSUME o.id[2] = "parent"
          PROVE  \E p \in 1 .. Len(pages) : \E j \in 1 .. Len(pages[p].items) : SameOrder(o, pages[p].items[j])
      <4>1. PICK e \in ToSet(raw.orders) : SameOrder(o, e)
        BY <1>9, <3>2
      <4>2. PICK p \in 1 .. Len(pages) : \E j \in 1 .. Len(pages[p].items) : e = pages[p].items[j]
        BY <1>4
      <4> QED
        BY <4>1, <4>2
    <3> QED
      BY <3>2
  <2> QED
    BY <1>10, <2>1, <2>2 DEF OrdersKept
<1> QED
  BY <1>1, <1>11

-----------------------------------------------------------------------------
(* Two snapshots that show the same orders.                                 *)

\* The last read of the orders of a snapshot was of the account d.
SnapDated(snap, d) ==
  /\ snap.history.last = VersionOf(d)
  /\ \A o \in snap.observed.orders : o.id[2] = "parent" =>
       o.status # "odd" /\ \E x : Later(x, d) /\ ShowsAt(o, x)

\* The orders of the account that is read next are those of the snapshot.
LEMMA SameOrdersAreQuiet ==
  ASSUME NEW snap, NEW d, SnapDated(snap, d), NEW b, NEW c, Later(d, b),
         NEW pages, IsSeq(pages), pages # <<>>, OrdersDated(pages, b, c),
         \A p \in 1 .. Len(pages) : PageRight("orders", pages[p]),
         ~IsMalformed("orders", pages), Len(Last(pages).items) < PageSize,
         OrdersKept(pages, snap.observed.orders)
  PROVE  pages[1].version = snap.history.last
<1> DEFINE n == Len(b.orders)
<1>1. /\ IsAccount(b) /\ IsAccount(d) /\ n \in Nat /\ Len(d.orders) \in Nat
      /\ \A i : FilledIn(b, i) \in Nat /\ FilledIn(d, i) \in Nat
  BY AccountFacts DEF Later
<1>2. PICK m \in 0 .. Len(c.orders) : OrdersUpto(pages, m, n)
  BY DEF OrdersDated, OrdersShown, OrdersKept
<1>3. Shown(pages) = 1 .. m /\ n <= m /\ m \in Nat
  <2>1. Len(c.orders) \in Nat
    BY AccountFacts DEF OrdersDated, Later
  <2> QED
    BY <1>2, <2>1 DEF OrdersUpto
<1>4. ASSUME NEW i \in 1 .. n
      PROVE  /\ i \in 1 .. Len(d.orders) /\ FilledIn(b, i) <= FilledIn(d, i)
             /\ b.orders[i].canceled => d.orders[i].canceled
  <2>1. i \in Shown(pages)
    BY <1>1, <1>3, <1>4
  <2>2. PICK p \in DOMAIN pages : i \in NumbersOf(pages[p].items)
    BY <2>1 DEF Shown
  <2>3. p \in 1 .. Len(pages)
    BY SeqDomain
  <2>4. PICK j \in DOMAIN pages[p].items : i = pages[p].items[j].id[1]
    BY <2>2 DEF NumbersOf
  <2> DEFINE item == pages[p].items[j]
  <2>5. j \in 1 .. Len(pages[p].items) /\ OrderItem(item)
    BY <2>3, SeqDomain DEF PageRight
  <2>6. PICK x : Later(b, x) /\ ShowsAt(item, x)
    BY <2>3, <2>5 DEF OrdersDated, ShownBetween
  <2>7. PICK o \in snap.observed.orders : SameOrder(o, item)
    BY <2>3, <2>5 DEF OrdersKept
  <2>8. item.id[1] = i /\ item.id[2] = "parent" /\ o.id[1] = i
    <3>1. item.id = <<item.id[1], "parent">>
      BY <2>5 DEF OrderItem
    <3>2. item.id[2] = "parent"
      BY <3>1
    <3> QED
      BY <2>4, <2>7, <3>2 DEF SameOrder
  <2> HIDE DEF item
  <2>9. o.id[2] = "parent"
    BY <2>7, <2>8 DEF SameOrder
  <2>10. PICK y : Later(y, d) /\ ShowsAt(o, y)
    BY <2>9 DEF SnapDated
  <2>11. o.status # "odd" /\ item.status = o.status /\ item.filled = o.filled
    BY <2>7, <2>9 DEF SnapDated, SameOrder
  <2>12. /\ i \in 1 .. Len(y.orders) /\ o.filled = FilledIn(y, i)
         /\ o.status = "canceled" => y.orders[i].canceled
    BY <2>8, <2>10, <2>11 DEF ShowsAt
  <2>13. /\ item.filled = FilledIn(x, i)
         /\ x.orders[i].canceled => item.status = "canceled"
    BY <2>6, <2>8, <2>11 DEF ShowsAt
  <2>14. /\ FilledIn(b, i) <= FilledIn(x, i) /\ FilledIn(y, i) <= FilledIn(d, i)
         /\ FilledIn(x, i) \in Nat /\ FilledIn(y, i) \in Nat
    <3>1. IsAccount(x) /\ IsAccount(y)
      BY <2>6, <2>10 DEF Later
    <3> QED
      BY <2>6, <2>10, <3>1, FilledGrows, AccountFacts
  <2>15. i \in 1 .. Len(d.orders) /\ (y.orders[i].canceled => d.orders[i].canceled)
    <3>1. Len(y.orders) \in Nat
      BY <2>10, AccountFacts DEF Later
    <3> QED
      BY <1>1, <2>10, <2>12, <3>1 DEF Later
  <2>16. b.orders[i].canceled => x.orders[i].canceled
    BY <1>4, <2>6 DEF Later
  <2>17. FilledIn(b, i) <= FilledIn(d, i)
    BY <1>1, <2>11, <2>12, <2>13, <2>14
  <2> QED
    BY <2>11, <2>12, <2>13, <2>15, <2>16, <2>17
<1>5. n <= Len(d.orders)
  <2>1. n # 0 => n \in 1 .. n
    BY <1>1
  <2>2. n # 0 => n \in 1 .. Len(d.orders)
    BY <1>4, <2>1
  <2> QED
    BY <1>1, <2>2
<1>6. VersionOf(b) = VersionOf(d)
  BY <1>4, <1>5, QuietSame
<1> QED
  BY <1>6 DEF OrdersDated, SnapDated

\* The snapshot that is promoted was read of the account c.
LEMMA PromotedIsDated ==
  ASSUME NEW snap, NEW b, NEW c, NEW pages, OrdersDated(pages, b, c),
         \A p \in 1 .. Len(pages) : PageRight("orders", pages[p]), IsSeq(pages),
         snap.history.last = Last(pages).version, OrdersKept(pages, snap.observed.orders)
  PROVE  SnapDated(snap, c)
<1>1. ASSUME NEW o \in snap.observed.orders, o.id[2] = "parent"
      PROVE  o.status # "odd" /\ \E x : Later(x, c) /\ ShowsAt(o, x)
  <2>1. PICK p \in 1 .. Len(pages) : \E j \in 1 .. Len(pages[p].items) : SameOrder(o, pages[p].items[j])
    BY <1>1 DEF OrdersKept
  <2>2. PICK j \in 1 .. Len(pages[p].items) : SameOrder(o, pages[p].items[j])
    BY <2>1
  <2> DEFINE item == pages[p].items[j]
  <2>3. p \in DOMAIN pages /\ j \in DOMAIN pages[p].items
    BY SeqDomain DEF PageRight
  <2>4. item.status # "odd"
    BY <2>3 DEF OrdersKept, Odd
  <2>5. PICK x : Later(x, c) /\ ShowsAt(item, x)
    BY DEF OrdersDated, ShownBetween
  <2>6. SameOrder(o, item)
    BY <2>2
  <2> HIDE DEF item
  <2>7. ShowsAt(o, x)
    BY <2>5, <2>6 DEF ShowsAt, SameOrder
  <2> QED
    BY <2>4, <2>5, <2>6, <2>7 DEF SameOrder
<1> QED
  BY <1>1 DEF SnapDated, OrdersDated

\* The pages of a listing of orders with the one that arrives.
LEMMA DatedAnswer ==
  ASSUME CInv, PagesWhole, NEW a \in Attempts, NEW d, Later(d, broker),
         task[a]["orders"].st = "fetching", PagesDated(task[a]["orders"].pages, d, broker),
         NEW flaw \in {"none", "ignored", "unknown"}, flaw = "unknown" => broker.orders # <<>>,
         NEW pages,
         pages = Append(task[a]["orders"].pages, AnsweredPage("orders", task[a]["orders"].pages, flaw))
  PROVE  PagesDated(pages, d, broker)
<1> DEFINE read == task[a]["orders"]
           old == read.pages
           page == AnsweredPage("orders", old, flaw)
           n == Len(broker.orders)
<1>1. "orders" \in Resources
  BY DEF Resources, Collections
<1>2. /\ IsSeq(old) /\ VerdictKept("orders", read)
      /\ \A p \in 1 .. Len(old) : PageRight("orders", old[p])
  <2>1. ReadRight(read) /\ ReadWhole("orders", read, Seen)
    BY <1>1 DEF CInv, AttemptRight, ReadsRight, PagesWhole
  <2> QED
    BY <2>1 DEF ReadRight, ReadWhole, PagesRight
<1>3. Later(broker, broker) /\ n \in Nat
  BY BrokerFacts, LaterSame
<1>4. PICK b, c : /\ Later(d, b) /\ Later(b, c) /\ Later(c, broker)
                  /\ old # <<>> => OrdersDated(old, b, c)
                  /\ old = <<>> => b = broker
  <2>1. CASE old = <<>>
    BY <1>3, <2>1, SMTT(30)
  <2>2. CASE old # <<>>
    BY <2>2, SMTT(60) DEF PagesDated, OrdersDated
  <2> QED
    BY <2>1, <2>2
<1>5. Len(b.orders) \in Nat /\ Len(b.orders) <= n /\ Len(c.orders) \in Nat /\ Len(c.orders) <= n
  BY <1>3, <1>4, AccountFacts, LaterTrans DEF Later
<1>6. OrdersShown(old, Len(b.orders), n)
  <2>1. CASE old = <<>>
    BY <1>3, <1>5, <2>1, NothingShown
  <2>2. CASE old # <<>>
    <3>1. OrdersShown(old, Len(b.orders), Len(c.orders))
      BY <1>4, <2>2 DEF OrdersDated
    <3>2. 0 .. Len(c.orders) \subseteq 0 .. n
      BY <1>3, <1>5
    <3> QED
      BY <3>1, <3>2 DEF OrdersShown
  <2> QED
    BY <2>1, <2>2
<1>7. read.st = "fetching" /\ IsSeq(read.pages) /\ page = AnsweredPage("orders", read.pages, flaw)
  BY <1>2
<1>8. OrdersShown(Append(old, page), Len(b.orders), n)
  BY <1>2, <1>5, <1>6, <1>7, OrdersAnswered
<1>9. Cursor(old) \in Nat
  <2>1. CASE old = <<>>
    BY <2>1, NothingShown
  <2>2. CASE old # <<>>
    BY <1>2, <1>7, <2>2, GoesOn
  <2> QED
    BY <2>1, <2>2
<1>10. /\ page.version = VersionOf(broker)
       /\ \A j \in 1 .. Len(page.items) : \E i \in 1 .. n :
            page.items[j] \in {RawOrder(i), [RawOrder(i) EXCEPT !.status = "odd"]}
  <2>1. page = AnsweredPage("orders", old, flaw)
    OBVIOUS
  <2> HIDE DEF page, old
  <2>2. /\ page.version = VersionOf(broker)
        /\ \A j \in 1 .. Len(page.items) : \E i \in 1 .. n :
             page.items[j] \in {RawOrder(i)} \cup
               (IF flaw = "unknown" THEN {[RawOrder(i) EXCEPT !.status = "odd"]} ELSE {})
    BY <1>9, <2>1, AnsweredOrders
  <2> QED
    BY <2>2
<1> HIDE DEF page
<1>11. \A j \in 1 .. Len(page.items) : ShowsAt(page.items[j], broker)
  BY <1>10, RawOrderShows
<1>12. pages = Append(old, page)
  BY DEF page
<1> HIDE DEF old
<1>13. OrdersDated(Append(old, page), b, broker)
  BY <1>2, <1>3, <1>4, <1>8, <1>10, <1>11, OrdersAppend
<1> QED
  BY <1>3, <1>4, <1>12, <1>13 DEF PagesDated

-----------------------------------------------------------------------------
(* Unchanged means quiet.                                                   *)

\* The last snapshot was read of the account d, and what is read now is of an
\* account that d has become.
DatedBy(d) ==
  /\ Later(d, broker)
  /\ snaps # <<>> => SnapDated(Last(snaps), d)
  /\ \A a \in Attempts : PagesDated(task[a]["orders"].pages, d, broker)

\* What is about to be stored says of the orders what the pages said.
CapturedKept ==
  run.pc = "store" => OrdersKept(task[run.attempt]["orders"].pages, captured.orders)

QuietRight == UnchangedMeansQuiet /\ CapturedKept /\ \E d : DatedBy(d)

\* Nothing has been read yet.
LEMMA NoPagesDated == \A d, e : PagesDated(<<>>, d, e)
BY DEF PagesDated

LEMMA QuietInit == CaptureInit => QuietRight
<1> SUFFICES ASSUME CaptureInit PROVE QuietRight
  OBVIOUS
<1>1. snaps = <<>> /\ run.pc = "idle" /\ CInv
  BY CaptureInvInit DEF CaptureInit
<1>2. \A a \in Attempts : task[a]["orders"].pages = <<>>
  <2>1. \A a \in Attempts : task[a]["orders"] = Idle
    BY DEF CaptureInit, NoTasks, Attempts, Resources, Collections
  <2> QED
    BY <2>1, FailedIsEmpty
<1>3. DatedBy(broker)
  BY <1>1, <1>2, BrokerFacts, LaterSame, NoPagesDated DEF DatedBy
<1>4. UnchangedMeansQuiet
  BY <1>1, EmptyIsSeq DEF UnchangedMeansQuiet
<1> QED
  BY <1>1, <1>3, <1>4 DEF QuietRight, CapturedKept

\* A step at which no snapshot is promoted and no page is lost that is kept.
LEMMA QuietKept ==
  ASSUME QuietRight, snaps' = snaps, CapturedKept',
         \A d : DatedBy(d) => /\ Later(d, broker')
                              /\ \A a \in Attempts : PagesDated(task'[a]["orders"].pages, d, broker')
  PROVE  QuietRight'
<1>1. PICK d : DatedBy(d)
  BY DEF QuietRight
<1>2. DatedBy(d)'
  BY <1>1 DEF DatedBy
<1>3. UnchangedMeansQuiet'
  BY DEF UnchangedMeansQuiet, QuietRight
<1> QED
  BY <1>2, <1>3 DEF QuietRight

\* Pages stay as they are or are dropped.
LEMMA QuietStays ==
  ASSUME QuietRight, UNCHANGED <<broker, snaps>>, CapturedKept',
         \A a \in Attempts : task'[a]["orders"].pages \in {<<>>, task[a]["orders"].pages}
  PROVE  QuietRight'
<1>1. \A d : DatedBy(d) => /\ Later(d, broker')
                           /\ \A a \in Attempts : PagesDated(task'[a]["orders"].pages, d, broker')
  BY NoPagesDated DEF DatedBy
<1> QED
  BY <1>1, QuietKept

\* The account grows.
LEMMA QuietGrowth ==
  ASSUME CInv, QuietRight, \/ PlaceOrder \/ ClockTick \/ \E i : FillOrder(i) \/ CancelOrder(i)
  PROVE  QuietRight'
<1>1. Later(broker, broker')
  BY GrowthIsLater
<1>2. UNCHANGED <<run, task, captured, snaps>>
  BY GrowthCases DEF Growth, UnchangedWorker
<1>3. \A pages, d : PagesDated(pages, d, broker) => PagesDated(pages, d, broker')
  BY <1>1, LaterTrans DEF PagesDated
<1>4. \A d : DatedBy(d) => /\ Later(d, broker')
                           /\ \A a \in Attempts : PagesDated(task'[a]["orders"].pages, d, broker')
  BY <1>1, <1>2, <1>3, LaterTrans DEF DatedBy
<1>5. CapturedKept'
  BY <1>2 DEF CapturedKept, QuietRight
<1> QED
  BY <1>2, <1>4, <1>5, QuietKept

\* The reads of an attempt.
LEMMA QuietRead ==
  ASSUME CInv, PagesWhole, QuietRight, NEW a \in Attempts, NEW r \in Resources,
         \/ Answer(a, r) \/ RecordReceipt(a, r)
         \/ \E class \in FailureClasses : AnswerFails(a, r, class)
  PROVE  QuietRight'
<1>1. /\ UNCHANGED <<broker, now, captured, snaps, fillRows>> /\ SameAttempt
      /\ run.pc \in {"account", "collect"}
      /\ \E pages, st, err : ReadMove(a, r, pages, st, err) /\ Arrived(a, r, pages, st)
  BY ReadMoves
<1>2. PICK pages, st, err : ReadMove(a, r, pages, st, err) /\ Arrived(a, r, pages, st)
  BY <1>1
<1>3. CapturedKept'
  BY <1>1 DEF CapturedKept, SameAttempt
<1>4. "orders" \in Resources
  BY DEF Resources, Collections
<1>5. \A b \in Attempts : task'[b]["orders"].pages \in
        {<<>>, IF b = a /\ r = "orders" THEN pages ELSE task[b]["orders"].pages}
  <2>1. Settles(a, r, st, err, IF st = "failed" THEN <<>> ELSE pages)
    BY <1>2 DEF ReadMove
  <2>2. task'[a][r].pages \in {<<>>, pages}
    BY <2>1, FailedIsEmpty DEF Settles
  <2>3. \A b \in Attempts : b # a \/ "orders" # r =>
          task'[b]["orders"].pages \in {<<>>, task[b]["orders"].pages}
    BY <1>4, <2>1, FailedIsEmpty DEF Settles
  <2> QED
    BY <2>2, <2>3
<1>6. ASSUME NEW d, DatedBy(d)
      PROVE  /\ Later(d, broker')
             /\ \A b \in Attempts : PagesDated(task'[b]["orders"].pages, d, broker')
  <2>1. r = "orders" => PagesDated(pages, d, broker)
    <3>1. SUFFICES ASSUME r = "orders" PROVE PagesDated(pages, d, broker)
      OBVIOUS
    <3>2. Later(d, broker) /\ PagesDated(task[a]["orders"].pages, d, broker)
      BY <1>6 DEF DatedBy
    <3>3. CASE pages = task[a][r].pages
      BY <3>1, <3>2, <3>3
    <3>4. CASE pages # task[a][r].pages
      <4>1. PICK flaw \in {"none", "ignored", "unknown"} :
              /\ flaw = "unknown" => r = "orders" /\ broker.orders # <<>>
              /\ pages = Append(task[a][r].pages, AnsweredPage(r, task[a][r].pages, flaw))
        BY <1>2, <3>4 DEF Arrived
      <4>2. task[a]["orders"].st = "fetching"
        BY <1>2, <3>1, <3>4 DEF Arrived
      <4> QED
        BY <3>1, <3>2, <4>1, <4>2, DatedAnswer
    <3> QED
      BY <3>3, <3>4
  <2> QED
    BY <1>1, <1>5, <1>6, <2>1, NoPagesDated DEF DatedBy
<1> QED
  BY <1>1, <1>3, <1>6, QuietKept

\* The capture is accepted, or the attempt is over.
LEMMA QuietSettled ==
  ASSUME WInv, QuietRight, CollectionsSettled
  PROVE  QuietRight'
<1>1. CInv /\ PagesWhole
  BY DEF WInv
<1>2. /\ run.pc = "collect" /\ UNCHANGED <<broker, snaps>>
      /\ \A r \in Resources : task[run.attempt][r].st \in {"done", "failed"}
      /\ \/ FailAttempt(run.reason)
         \/ FailAttempt("malformed_response")
         \/ /\ \A r \in Resources : task[run.attempt][r].st = "done"
            /\ captured' = Normalized(Capture) /\ Consistent(Capture)
            /\ run' = [run EXCEPT !.pc = "store"] /\ UNCHANGED task
  BY <1>1, SettledCases
<1>3. ASSUME NEW err \in Errors, FailAttempt(err) PROVE QuietRight'
  <2>1. /\ run'.pc \in {"idle", "delay"}
        /\ \A b \in Attempts, q \in Resources : task'[b][q] = Idle
    BY <1>1, <1>2, <1>3, FailStep
  <2>2. \A b \in Attempts : task'[b]["orders"].pages = <<>>
    BY <2>1, FailedIsEmpty DEF Resources, Collections
  <2> QED
    BY <1>2, <2>1, <2>2, QuietStays DEF CapturedKept
<1>4. CASE FailAttempt(run.reason) \/ FailAttempt("malformed_response")
  <2>1. run.reason \in Errors /\ "malformed_response" \in Errors
    BY <1>1 DEF CInv, RunState, Errors, Failures
  <2> QED
    BY <1>3, <1>4, <2>1
<1>5. CASE /\ \A r \in Resources : task[run.attempt][r].st = "done"
           /\ captured' = Normalized(Capture) /\ Consistent(Capture)
           /\ run' = [run EXCEPT !.pc = "store"] /\ UNCHANGED task
  <2> DEFINE raw == Capture
             pages == task[run.attempt]["orders"].pages
  <2>1. raw.orders = PageItems(pages)
    BY DEF Capture, Items, CurrentTask, PageItems
  <2>2. IsSeq(pages) /\ \A p \in 1 .. Len(pages) : PageRight("orders", pages[p])
    <3>1. run.attempt \in Attempts /\ "orders" \in Resources
      BY <1>1, <1>2 DEF CInv, AttemptRight, PhaseRight, Resources, Collections
    <3>2. ReadRight(task[run.attempt]["orders"]) /\ ReadWhole("orders", task[run.attempt]["orders"], Seen)
      BY <1>1, <3>1 DEF CInv, AttemptRight, ReadsRight, PagesWhole
    <3> QED
      BY <3>2 DEF ReadRight, ReadWhole, PagesRight
  <2>3. OrdersKept(pages, Normalized(raw).orders)
    <3>1. Consistent(raw)
      BY <1>5
    <3> HIDE DEF raw, pages
    <3> QED
      BY <2>1, <2>2, <3>1, CaptureKept
  <2>4. run'.attempt = run.attempt
    BY <1>1, <1>5 DEF CInv, RunState
  <2>5. captured' = Normalized(raw)
    BY <1>5
  <2> HIDE DEF raw
  <2>6. CapturedKept'
    BY <1>5, <2>3, <2>4, <2>5 DEF CapturedKept
  <2> QED
    BY <1>2, <1>5, <2>6, QuietStays
<1> QED
  BY <1>2, <1>4, <1>5

\* A snapshot is promoted with its delta.
LEMMA QuietPromoted ==
  ASSUME WInv, QuietRight, run.pc = "store", UNCHANGED broker,
         NEW projection, snaps' = Append(snaps, SnapshotRow(projection)),
         \A b \in Attempts : task'[b]["orders"].pages = <<>>, run'.pc # "store"
  PROVE  QuietRight'
<1> DEFINE read == task[run.attempt]["orders"]
           pages == read.pages
           snap == SnapshotRow(projection)
           n == Len(snaps)
           first == pages[1].version
<1>1. /\ CInv /\ PagesWhole
  BY DEF WInv
<1>2. /\ IsSeq(pages) /\ pages # <<>> /\ ~IsMalformed("orders", pages)
      /\ Len(Last(pages).items) < PageSize
      /\ \A p \in 1 .. Len(pages) : PageRight("orders", pages[p])
  <2>1. run.attempt \in Attempts /\ "orders" \in Resources
    BY <1>1 DEF CInv, AttemptRight, PhaseRight, Resources, Collections
  <2>2. ReadRight(read) /\ ReadWhole("orders", read, Seen) /\ read.st = "done"
    BY <1>1, <2>1 DEF CInv, AttemptRight, ReadsRight, PhaseRight, PagesWhole
  <2>3. VerdictKept("orders", read) /\ \A p \in 1 .. Len(pages) : PageRight("orders", pages[p])
    BY <2>2 DEF ReadWhole, PagesRight
  <2> HIDE DEF read
  <2> QED
    BY <2>2, <2>3, DoneRules
<1>3. /\ snap.observed.orders = captured.orders
      /\ snap.history.first = first /\ snap.history.last = Last(pages).version
      /\ snap.judged.delta =
           SnapshotDelta(IF snaps = <<>> THEN None ELSE Last(snaps).observed, captured)
  BY DEF SnapshotRow, ObservationRows, JudgementRows, CurrentTask
<1>4. OrdersKept(pages, captured.orders)
  BY DEF QuietRight, CapturedKept
<1>5. PICK d : DatedBy(d)
  BY DEF QuietRight
<1>6. PICK b, c : Later(d, b) /\ Later(c, broker) /\ OrdersDated(pages, b, c)
  <2>1. run.attempt \in Attempts
    BY <1>1 DEF CInv, AttemptRight, PhaseRight
  <2> QED
    BY <1>2, <1>5, <2>1 DEF DatedBy, PagesDated
<1>7. /\ IsSeq(snaps) /\ n \in Nat /\ (snaps = <<>> <=> n = 0)
      /\ snaps' = Append(snaps, snap)
  BY <1>1, SnapFacts
<1> HIDE DEF snap, pages
<1>8. /\ Len(snaps') = n + 1 /\ snaps'[n + 1] = snap
      /\ \A i \in 1 .. n : snaps'[i] = snaps[i]
  BY <1>7, AppendIsSeq
<1>9. Last(snaps') = snap /\ (n # 0 => Last(snaps) = snaps[n])
  BY <1>7, <1>8 DEF Last
<1>10. SnapDated(snap, c)
  BY <1>2, <1>3, <1>4, <1>6, PromotedIsDated
<1>11. DatedBy(c)'
  BY <1>6, <1>9, <1>10, NoPagesDated DEF DatedBy
<1>12. ASSUME n # 0, snap.judged.delta = "unchanged"
       PROVE  snaps[n].history.last = snap.history.first
  <2> DEFINE last == snaps[n]
  <2>1. Last(snaps) = last /\ snaps # <<>>
    BY <1>7, <1>9, <1>12
  <2>2. SnapshotDelta(last.observed, captured) = "unchanged"
    BY <1>3, <1>12, <2>1
  <2>3. last.observed.orders = captured.orders
    BY <2>2 DEF SnapshotDelta, HasResourceChanges
  <2>4. SnapDated(last, d)
    BY <1>5, <2>1 DEF DatedBy
  <2> HIDE DEF last
  <2>5. OrdersKept(pages, last.observed.orders)
    BY <1>4, <2>3
  <2>6. pages[1].version = last.history.last
    BY <1>2, <1>6, <2>4, <2>5, SameOrdersAreQuiet
  <2> QED
    BY <1>3, <2>6 DEF last
<1>13. UnchangedMeansQuiet'
  <2>1. ASSUME NEW k \in 2 .. (n + 1), snaps'[k].judged.delta = "unchanged"
        PROVE  snaps'[k - 1].history.last = snaps'[k].history.first
    <3>1. CASE k = n + 1
      <4>1. n # 0 /\ k - 1 = n /\ n \in 1 .. n
        BY <1>7, <2>1, <3>1
      <4>2. snaps'[k] = snap /\ snaps'[k - 1] = snaps[n]
        BY <1>8, <3>1, <4>1
      <4> QED
        BY <1>12, <2>1, <4>1, <4>2
    <3>2. CASE k # n + 1
      <4>1. k \in 2 .. n /\ k \in 1 .. n /\ k - 1 \in 1 .. n
        BY <1>7, <2>1, <3>2
      <4>2. snaps'[k] = snaps[k] /\ snaps'[k - 1] = snaps[k - 1]
        BY <1>8, <4>1
      <4> QED
        BY <2>1, <4>1, <4>2 DEF QuietRight, UnchangedMeansQuiet
    <3> QED
      BY <3>1, <3>2
  <2> QED
    BY <1>8, <2>1 DEF UnchangedMeansQuiet
<1> QED
  BY <1>11, <1>13 DEF QuietRight, CapturedKept

\* A cycle that has stored its capture ends.
LEMMA QuietComplete ==
  ASSUME WInv, QuietRight, CompleteSync
  PROVE  QuietRight'
<1>1. /\ run'.pc = "idle" /\ \A b \in Attempts, q \in Resources : task'[b][q] = Idle
  BY CompleteStep DEF WInv
<1>2. /\ run.pc = "store" /\ UNCHANGED broker
      /\ snaps' = snaps \/ \E projection : snaps' = Append(snaps, SnapshotRow(projection))
  BY CompleteCases
<1>3. \A b \in Attempts : task'[b]["orders"].pages = <<>>
  BY <1>1, FailedIsEmpty DEF Resources, Collections
<1>4. CASE snaps' = snaps
  BY <1>1, <1>2, <1>3, <1>4, QuietStays DEF CapturedKept
<1>5. ASSUME NEW projection, snaps' = Append(snaps, SnapshotRow(projection)) PROVE QuietRight'
  BY <1>1, <1>2, <1>3, <1>5, QuietPromoted
<1> QED
  BY <1>2, <1>4, <1>5

\* Every step keeps it.
LEMMA QuietStep == WInv /\ QuietRight /\ [CaptureNext]_captureVars => QuietRight'
<1> SUFFICES ASSUME WInv, QuietRight, [CaptureNext]_captureVars PROVE QuietRight'
  OBVIOUS
<1>1. CInv /\ PagesWhole
  BY DEF WInv
<1>2. ASSUME UNCHANGED <<broker, snaps>>, run'.pc # "store",
             \A b \in Attempts, q \in Resources :
               task'[b][q].pages = <<>> \/ task'[b][q] = task[b][q]
      PROVE  QuietRight'
  <2>1. \A a \in Attempts : task'[a]["orders"].pages \in {<<>>, task[a]["orders"].pages}
    BY <1>2 DEF Resources, Collections
  <2> QED
    BY <1>2, <2>1, QuietStays DEF CapturedKept
<1>3. CASE UNCHANGED captureVars
  <2>1. UNCHANGED <<broker, task, snaps, captured, run>>
    BY <1>3 DEF captureVars
  <2> QED
    BY <2>1, QuietStays DEF CapturedKept, QuietRight
<1>4. CASE PlaceOrder \/ ClockTick \/ \E i : FillOrder(i) \/ CancelOrder(i)
  BY <1>1, <1>4, QuietGrowth
<1>5. ASSUME NEW a \in Attempts, NEW r \in Resources,
             \/ Answer(a, r) \/ RecordReceipt(a, r)
             \/ \E class \in FailureClasses : AnswerFails(a, r, class)
      PROVE  QuietRight'
  BY <1>1, <1>5, QuietRead
<1>6. CASE AccountRead
  <2>1. /\ run'.pc = "collect" /\ UNCHANGED <<broker, snaps>> /\ CInv' /\ run'.attempt = run.attempt
        /\ task'[run.attempt]["account"] = task[run.attempt]["account"]
        /\ \A r \in Collections : task'[run.attempt][r] \in {NewRead, Failed("cancelled")}
    BY <1>1, <1>6, AccountReadStep
  <2>2. \A b \in Attempts, q \in Resources : b # run.attempt => task'[b][q] = Idle
    BY <2>1 DEF CInv, AttemptRight, PhaseRight
  <2>3. \A b \in Attempts, q \in Resources :
          task'[b][q].pages = <<>> \/ task'[b][q] = task[b][q]
    BY <2>1, <2>2, FailedIsEmpty DEF Resources
  <2> QED
    BY <1>2, <2>1, <2>3
<1>7. CASE AccountReadFailed
  BY <1>1, <1>2, <1>7, AccountReadFailedStep, FailedIsEmpty
<1>8. CASE CollectionsSettled
  BY <1>8, QuietSettled
<1>9. CASE BeginCycle
  <2>1. /\ run'.pc = "account" /\ UNCHANGED <<broker, snaps>>
        /\ \A b \in Attempts, q \in Resources : task'[b][q] \in {Idle, NewRead}
    BY <1>1, <1>9, BeginStep DEF BeginCycle
  <2> QED
    BY <1>2, <2>1, FailedIsEmpty
<1>10. CASE RetryDelayEnds
  BY <1>1, <1>2, <1>10, RetryStep, FailedIsEmpty
<1>11. CASE CompleteSync
  BY <1>11, QuietComplete
<1>12. CASE Deadline \/ ShutdownSignal
  <2>1. AbortFrame /\ run.pc # "store"
    BY <1>1, <1>12, DeadlineStep, ShutdownStep DEF Deadline, ShutdownSignal, Waiting
  <2> QED
    BY <1>2, <2>1, FailedIsEmpty DEF AbortFrame
<1> QED
  BY <1>3, <1>4, <1>5, <1>6, <1>7, <1>8, <1>9, <1>10, <1>11, <1>12
     DEF CaptureNext, Account, Provider, Worker, Attempts

\* Two snapshots whose delta is "unchanged" have no change of the account
\* between the reads of their orders (reconciliation): the promoted orders show
\* every change that could have happened, however it fell between the pages.
LEMMA UnchangedIsQuiet == CaptureSpec => []UnchangedMeansQuiet
<1>1. CaptureInit => QuietRight
  BY QuietInit
<1>2. WInv /\ QuietRight /\ [CaptureNext]_captureVars => QuietRight'
  BY QuietStep
<1>3. QuietRight => UnchangedMeansQuiet
  BY DEF QuietRight
<1> QED
  BY <1>1, <1>2, <1>3, WholeInvariance, PTL DEF CaptureSpec

-----------------------------------------------------------------------------
(* What an honest provider shows.                                           *)

\* A position of the account.
HonestPosition(x) ==
  /\ x.asset \in {"stock", "option"} /\ x.class = ClassOf(x.asset)
  /\ x.exchange = "NASDAQ" /\ x.qty # 0

\* A status an order of qty may be shown with when filled have been filled.
Sane(status, filled, qty) ==
  /\ status \in {"new", "partially_filled", "filled", "canceled"}
  /\ filled \in 0 .. qty
  /\ status = "partially_filled" => 0 < filled /\ filled < qty
  /\ status = "filled" => filled = qty

\* Part of the order i of the account, as it is shown.
PartAs(i, part, structure, asset, class, side, legs, qty, status, filled) ==
  [id |-> <<i, part>>, structure |-> structure, asset |-> asset, class |-> class, side |-> side,
   legs |-> legs, status |-> status, qty |-> qty, filled |-> filled]

\* The leg of an order that has one.
LegAs(i, o, status, filled) ==
  PartAs(i, "leg", "simple", "option", "us_option", o.side, <<>>, o.qty, status, filled)

\* The order i of the account, as it is shown.
OrderAs(i, o, status, filled) ==
  IF o.structure = "mleg"
  THEN PartAs(i, "parent", "mleg", None, None, None, <<LegAs(i, o, status, filled)>>, o.qty, status, filled)
  ELSE PartAs(i, "parent", "simple", "stock", "us_equity", o.side, <<>>, o.qty, status, filled)

\* An order of the account b, as it is or was.
HonestOrder(item, b) ==
  \E i \in 1 .. Len(b.orders) : \E status, filled :
    Sane(status, filled, b.orders[i].qty) /\ item = OrderAs(i, b.orders[i], status, filled)

\* The fill k of the order o.
FillAs(k, f, o) ==
  [id |-> <<k, "fill">>, order |-> <<f.order, IF o.structure = "mleg" THEN "leg" ELSE "parent">>,
   asset |-> AssetOf(o.structure), side |-> o.side, qty |-> 1, cum |-> f.cum,
   leaves |-> o.qty - f.cum, type |-> IF f.cum = o.qty THEN "fill" ELSE "partial_fill"]

\* A fill of the account b.
HonestFill(item, b) ==
  \E k \in 1 .. Len(b.fills) : item = FillAs(k, b.fills[k], b.orders[b.fills[k].order])

HonestItem(r, item, b) ==
  /\ r = "account" => item.currency = "USD"
  /\ r = "positions" => HonestPosition(item)
  /\ r = "orders" => HonestOrder(item, b)
  /\ r = "fills" => HonestFill(item, b)

\* The numbers of the items only grow.
Ascends(pages) ==
  \A p, q \in 1 .. Len(pages) :
    \A j \in 1 .. Len(pages[p].items), k \in 1 .. Len(pages[q].items) :
      p < q \/ (p = q /\ j < k) => pages[p].items[j].id[1] < pages[q].items[k].id[1]

\* A page of an account that became b.
HonestPage(r, page, b) ==
  /\ IsSeq(page.items)
  /\ \A j \in 1 .. Len(page.items) : HonestItem(r, page.items[j], b)
  /\ r = "account" => Len(page.items) # 0
  /\ r = "positions" =>
       \A j, k \in 1 .. Len(page.items) : page.items[j].asset = page.items[k].asset => j = k
  /\ r \in {"orders", "fills"} => Len(page.items) <= PageSize

\* What has been read of a resource of an account that became b.
HonestPages(r, pages, b) ==
  /\ \A p \in 1 .. Len(pages) : HonestPage(r, pages[p], b)
  /\ r \in {"account", "positions"} => Len(pages) <= 1
  /\ r \in {"orders", "fills"} => Ascends(pages)

\* Nothing has been read.
LEMMA NothingIsHonest == \A r, b : HonestPages(r, <<>>, b)
<1>1. Len(<<>>) = 0 /\ 1 .. 0 = {}
  BY EmptyIsSeq
<1> QED
  BY <1>1 DEF HonestPages, Ascends

\* The positions come in some order, each once.
LEMMA PositionsPage ==
  ASSUME NEW P, P = SetToSeq(RawPositions)
  PROVE  /\ IsSeq(P)
         /\ \A j \in 1 .. Len(P) : HonestPosition(P[j])
         /\ \A j, k \in 1 .. Len(P) : P[j].asset = P[k].asset => j = k
<1> DEFINE position(a) == [asset |-> a, class |-> ClassOf(a), exchange |-> "NASDAQ", marked |-> TRUE,
                           qty |-> Holding(a)]
           held == {a \in {"stock", "option"} : Holding(a) # 0}
           S == {position(a) : a \in held}
           n == Cardinality(S)
<1>1. RawPositions = S
  BY DEF RawPositions
<1>2. \A a : /\ position(a).asset = a /\ position(a).class = ClassOf(a)
             /\ position(a).exchange = "NASDAQ" /\ position(a).qty = Holding(a)
  OBVIOUS
<1> HIDE DEF position
<1>3. IsFiniteSet(S)
  <2>1. IsFiniteSet({position("stock")} \cup {position("option")})
    BY FS_Singleton, FS_AddElement
  <2>2. S \subseteq {position("stock")} \cup {position("option")}
    OBVIOUS
  <2> HIDE DEF S
  <2> QED
    BY <2>1, <2>2, FS_Subset
<1>4. \A e \in S : HonestPosition(e) /\ e = position(e.asset)
  BY <1>2 DEF HonestPosition
<1> HIDE DEF S
<1>5. n \in Nat /\ \E f \in [1 .. n -> S] : IsInjective(f)
  BY <1>3, FS_CardinalityType DEF ExistsBijection, Bijection, Injection
<1>6. P \in [1 .. n -> S] /\ IsInjective(P)
  BY <1>1, <1>5 DEF SetToSeq
<1> HIDE DEF n
<1>7. P = [j \in 1 .. n |-> P[j]] /\ DOMAIN P = 1 .. n /\ \A j \in 1 .. n : P[j] \in S
  BY <1>6
<1>8. IsSeq(P) /\ Len(P) = n
  BY <1>5, <1>7, MadeIsSeq
<1>9. \A j, k \in 1 .. n : P[j].asset = P[k].asset => j = k
  BY <1>4, <1>6, <1>7 DEF IsInjective
<1> QED
  BY <1>4, <1>7, <1>8, <1>9

\* An order that the provider shows is one of the account, as it is.
LEMMA RawOrderHonest ==
  ASSUME CInv, NEW i \in 1 .. Len(broker.orders)
  PROVE  HonestOrder(RawOrder(i), broker)
<1> DEFINE o == broker.orders[i]
           status == Status(i)
           filled == Filled(i)
<1>1. /\ o \in OrderRow /\ filled \in Nat /\ filled <= o.qty
      /\ o.canceled => filled < o.qty
  BY BrokerFacts, AccountFacts DEF Filled
<1>2. o.qty \in Nat \ {0} /\ o.structure \in {"simple", "mleg"} /\ o.canceled \in BOOLEAN
  BY <1>1 DEF OrderRow
<1>3. Sane(status, filled, o.qty)
  <2>1. status = IF filled = o.qty THEN "filled" ELSE IF o.canceled THEN "canceled"
                 ELSE IF filled > 0 THEN "partially_filled" ELSE "new"
    BY DEF Status
  <2> HIDE DEF status, filled, o
  <2> QED
    BY <1>1, <1>2, <2>1 DEF Sane
<1>4. RawOrder(i) = OrderAs(i, o, status, filled)
  <2>1. CASE o.structure = "mleg"
    <3>1. AssetOf(o.structure) = "option" /\ ClassOf("option") = "us_option"
      BY <2>1 DEF AssetOf, ClassOf
    <3>2. RawOrder(i) = RawPart(i, "parent", "mleg", None, None, None,
            <<RawPart(i, "leg", "simple", "option", "us_option", o.side, <<>>)>>)
      BY <2>1, <3>1 DEF RawOrder
    <3> QED
      BY <2>1, <3>2 DEF RawPart, OrderAs, LegAs, PartAs
  <2>2. CASE o.structure # "mleg"
    <3>1. AssetOf(o.structure) = "stock" /\ ClassOf("stock") = "us_equity"
      BY <2>2 DEF AssetOf, ClassOf
    <3>2. RawOrder(i) = RawPart(i, "parent", "simple", "stock", "us_equity", o.side, <<>>)
      BY <2>2, <3>1 DEF RawOrder
    <3> QED
      BY <2>2, <3>2 DEF RawPart, OrderAs, PartAs
  <2> QED
    BY <2>1, <2>2
<1> QED
  BY <1>3, <1>4 DEF HonestOrder

\* So is a fill.
LEMMA RawFillHonest ==
  ASSUME NEW k \in 1 .. Len(broker.fills)
  PROVE  HonestFill(RawFill(k), broker)
BY Zenon DEF HonestFill, FillAs, RawFill

\* What an account was, it was when it has become another one.
LEMMA HonestGrows ==
  ASSUME NEW b, NEW c, Later(b, c), NEW r, NEW pages, HonestPages(r, pages, b)
  PROVE  HonestPages(r, pages, c)
<1>1. /\ \A i \in 1 .. Len(b.orders) :
           /\ i \in 1 .. Len(c.orders) /\ c.orders[i].structure = b.orders[i].structure
           /\ c.orders[i].side = b.orders[i].side /\ c.orders[i].qty = b.orders[i].qty
      /\ \A k \in 1 .. Len(b.fills) :
           /\ k \in 1 .. Len(c.fills) /\ c.fills[k] = b.fills[k]
           /\ b.fills[k].order \in 1 .. Len(b.orders)
  <2>1. /\ Len(b.orders) \in Nat /\ Len(c.orders) \in Nat /\ Len(b.fills) \in Nat /\ Len(c.fills) \in Nat
        /\ \A k \in 1 .. Len(b.fills) : b.fills[k].order \in 1 .. Len(b.orders)
    BY AccountFacts DEF Later
  <2> QED
    BY <2>1 DEF Later
<1>2. ASSUME NEW item, HonestOrder(item, b) PROVE HonestOrder(item, c)
  <2>1. PICK i \in 1 .. Len(b.orders) : \E status, filled :
          Sane(status, filled, b.orders[i].qty) /\ item = OrderAs(i, b.orders[i], status, filled)
    BY <1>2 DEF HonestOrder
  <2> PICK status, filled :
        Sane(status, filled, b.orders[i].qty) /\ item = OrderAs(i, b.orders[i], status, filled)
    BY <2>1
  <2>2. OrderAs(i, b.orders[i], status, filled) = OrderAs(i, c.orders[i], status, filled)
    BY <1>1, <2>1 DEF OrderAs, LegAs
  <2> QED
    BY <1>1, <2>1, <2>2 DEF HonestOrder
<1>3. ASSUME NEW item, HonestFill(item, b) PROVE HonestFill(item, c)
  <2>1. PICK k \in 1 .. Len(b.fills) : item = FillAs(k, b.fills[k], b.orders[b.fills[k].order])
    BY <1>3, SMTT(30) DEF HonestFill
  <2>2. FillAs(k, b.fills[k], b.orders[b.fills[k].order]) = FillAs(k, c.fills[k], c.orders[c.fills[k].order])
    BY <1>1, <2>1, ZenonT(60) DEF FillAs
  <2> QED
    BY <1>1, <2>1, <2>2 DEF HonestFill
<1>4. \A item : HonestItem(r, item, b) => HonestItem(r, item, c)
  BY <1>2, <1>3 DEF HonestItem
<1>5. \A page : HonestPage(r, page, b) => HonestPage(r, page, c)
  BY <1>4 DEF HonestPage
<1> QED
  BY <1>5 DEF HonestPages

\* The number of an item that is shown.
LEMMA HonestNumbers ==
  ASSUME NEW item, NEW b
  PROVE  /\ HonestOrder(item, b) => item.id[1] \in 1 .. Len(b.orders)
         /\ HonestFill(item, b) => item.id[1] \in 1 .. Len(b.fills)
<1>1. ASSUME HonestOrder(item, b) PROVE item.id[1] \in 1 .. Len(b.orders)
  <2>1. PICK i \in 1 .. Len(b.orders) : \E status, filled : item = OrderAs(i, b.orders[i], status, filled)
    BY <1>1 DEF HonestOrder
  <2>2. PICK status, filled : item = OrderAs(i, b.orders[i], status, filled)
    BY <2>1
  <2>3. \A part, structure, asset, class, side, legs, qty, s, f :
          PartAs(i, part, structure, asset, class, side, legs, qty, s, f).id[1] = i
    BY DEF PartAs
  <2>4. item.id[1] = i
    BY <2>2, <2>3 DEF OrderAs
  <2> QED
    BY <2>4
<1>2. ASSUME HonestFill(item, b) PROVE item.id[1] \in 1 .. Len(b.fills)
  BY <1>2 DEF HonestFill, FillAs
<1> QED
  BY <1>1, <1>2

\* No number is beyond the cursor.
LEMMA CursorBound ==
  ASSUME NEW r \in {"orders", "fills"}, NEW pages, IsSeq(pages), pages # <<>>, Ascends(pages),
         \A p \in 1 .. Len(pages) : PageRight(r, pages[p]), Last(pages).items # <<>>,
         NEW p \in 1 .. Len(pages), NEW j \in 1 .. Len(pages[p].items)
  PROVE  pages[p].items[j].id[1] \in Nat /\ pages[p].items[j].id[1] <= Cursor(pages)
<1> DEFINE n == Len(pages)
           last == pages[n]
           k == Len(last.items)
<1>1. n \in Nat /\ n \in 1 .. n /\ Last(pages) = last
  BY SeqDomain DEF Last
<1>2. k \in Nat /\ k \in 1 .. k /\ IsSeq(last.items)
  <2>1. IsSeq(last.items) /\ last.items # <<>>
    BY <1>1 DEF PageRight
  <2> QED
    BY <2>1, SeqDomain
<1>3. Cursor(pages) = last.items[k].id[1]
  BY <1>1 DEF Cursor, Last
<1>4. \A q \in 1 .. n : \A i \in 1 .. Len(pages[q].items) : pages[q].items[i].id[1] \in Nat
  <2>1. \A q \in 1 .. n : DOMAIN pages[q].items = 1 .. Len(pages[q].items)
    BY SeqDomain DEF PageRight
  <2> QED
    BY <2>1 DEF PageRight, OrderItem, FillItem
<1>5. Len(pages[p].items) \in Nat
  BY SeqDomain DEF PageRight
<1>6. CASE p = n /\ j = k
  BY <1>3, <1>4, <1>6
<1>7. CASE ~(p = n /\ j = k)
  <2>1. p < n \/ (p = n /\ j < k)
    BY <1>1, <1>2, <1>5, <1>7
  <2>2. pages[p].items[j].id[1] < pages[n].items[k].id[1]
    <3>1. \A x, y \in 1 .. Len(pages) :
            \A i \in 1 .. Len(pages[x].items), l \in 1 .. Len(pages[y].items) :
              x < y \/ (x = y /\ i < l) => pages[x].items[i].id[1] < pages[y].items[l].id[1]
      BY DEF Ascends
    <3>2. n \in 1 .. Len(pages) /\ k \in 1 .. Len(pages[n].items)
      BY <1>1, <1>2
    <3> HIDE DEF n, k
    <3> QED
      BY <2>1, <3>1, <3>2
  <2>3. pages[p].items[j].id[1] \in Nat /\ pages[n].items[k].id[1] \in Nat
    <3>1. n \in 1 .. n /\ p \in 1 .. n /\ k \in 1 .. Len(pages[n].items)
      BY <1>1, <1>2
    <3> HIDE DEF n, k
    <3> QED
      BY <1>4, <3>1
  <2> DEFINE x == pages[p].items[j].id[1]
             y == pages[n].items[k].id[1]
  <2>4. Cursor(pages) = y
    BY <1>3
  <2> HIDE DEF x, y, n, k
  <2>5. x \in Nat /\ y \in Nat /\ x < y
    BY <2>2, <2>3 DEF x, y
  <2>6. x \in Nat /\ x <= Cursor(pages)
    BY <2>4, <2>5
  <2> QED
    BY <2>6 DEF x
<1> QED
  BY <1>6, <1>7

\* The numbers go on growing with a page that begins after them.
LEMMA AscendsAppend ==
  ASSUME NEW pages, IsSeq(pages), Ascends(pages), NEW page, NEW m \in Nat,
         \A p \in 1 .. Len(pages) : \A j \in 1 .. Len(pages[p].items) :
           pages[p].items[j].id[1] \in Nat /\ pages[p].items[j].id[1] <= m,
         \A j \in 1 .. Len(page.items) : page.items[j].id[1] \in Nat /\ m < page.items[j].id[1],
         \A i, j \in 1 .. Len(page.items) : i < j => page.items[i].id[1] < page.items[j].id[1]
  PROVE  Ascends(Append(pages, page))
<1> DEFINE n == Len(pages)
           new == Append(pages, page)
<1>1. /\ n \in Nat /\ Len(new) = n + 1 /\ new[n + 1] = page
      /\ \A i \in 1 .. n : new[i] = pages[i]
  BY AppendIsSeq
<1> HIDE DEF new
<1>2. ASSUME NEW p \in 1 .. Len(new), NEW q \in 1 .. Len(new),
             NEW j \in 1 .. Len(new[p].items), NEW k \in 1 .. Len(new[q].items),
             p < q \/ (p = q /\ j < k)
      PROVE  new[p].items[j].id[1] < new[q].items[k].id[1]
  <2>1. CASE q = n + 1 /\ p = n + 1
    <3>1. j < k /\ new[p] = page /\ new[q] = page
      BY <1>1, <1>2, <2>1
    <3> QED
      BY <3>1
  <2>2. CASE q = n + 1 /\ p # n + 1
    <3>1. p \in 1 .. n /\ new[p] = pages[p] /\ new[q] = page
      BY <1>1, <2>2
    <3>2. pages[p].items[j].id[1] \in Nat /\ pages[p].items[j].id[1] <= m
      BY <3>1
    <3>3. page.items[k].id[1] \in Nat /\ m < page.items[k].id[1]
      BY <3>1
    <3> QED
      BY <3>1, <3>2, <3>3, SMTT(30)
  <2>3. CASE q # n + 1
    <3>1. p \in 1 .. n /\ q \in 1 .. n
      BY <1>1, <1>2, <2>3
    <3>2. new[p] = pages[p] /\ new[q] = pages[q]
      BY <1>1, <3>1
    <3> QED
      BY <1>2, <3>1, <3>2 DEF Ascends
  <2> QED
    BY <2>1, <2>2, <2>3
<1> QED
  BY <1>2 DEF Ascends, new

\* An honest page is added.
LEMMA HonestAppend ==
  ASSUME NEW r, NEW b, NEW pages, IsSeq(pages), HonestPages(r, pages, b), NEW page, HonestPage(r, page, b),
         r \in {"account", "positions"} => pages = <<>>,
         r \in {"orders", "fills"} => Ascends(Append(pages, page))
  PROVE  HonestPages(r, Append(pages, page), b)
<1> DEFINE n == Len(pages)
           new == Append(pages, page)
<1>1. /\ n \in Nat /\ Len(new) = n + 1 /\ new[n + 1] = page
      /\ \A i \in 1 .. n : new[i] = pages[i]
      /\ pages = <<>> => n = 0
  BY AppendIsSeq, EmptyIsSeq
<1>2. r \in {"orders", "fills"} => Ascends(new)
  OBVIOUS
<1> HIDE DEF new
<1>3. ASSUME NEW p \in 1 .. Len(new) PROVE HonestPage(r, new[p], b)
  <2>1. p = n + 1 \/ p \in 1 .. n
    BY <1>1
  <2> QED
    BY <1>1, <2>1 DEF HonestPages
<1>4. r \in {"account", "positions"} => Len(new) <= 1
  BY <1>1
<1> QED
  BY <1>2, <1>3, <1>4 DEF HonestPages, new

\* The page that an honest provider answers with.
LEMMA HonestAnswer ==
  ASSUME CInv, NEW r \in Resources, NEW read, read.st = "fetching", IsSeq(read.pages),
         VerdictKept(r, read),
         r \in {"orders", "fills"} => \A p \in 1 .. Len(read.pages) : PageRight(r, read.pages[p]),
         HonestPages(r, read.pages, broker),
         NEW page, page = AnsweredPage(r, read.pages, "none")
  PROVE  HonestPages(r, Append(read.pages, page), broker)
<1> DEFINE pages == read.pages
           m == Cursor(pages)
           P == Page(r, m)
<1>1. page.items = P
  BY DEF AnsweredPage
<1>2. r \in {"account", "positions"} => pages = <<>>
  <2>1. \A x : PageVerdict("account", x) # "next" /\ PageVerdict("positions", x) # "next"
    BY DEF PageVerdict
  <2> QED
    BY <2>1 DEF VerdictKept
<1>3. ASSUME r \in {"orders", "fills"}
      PROVE  /\ m \in Nat
             /\ pages = <<>> => m = 0
             /\ pages # <<>> => m \in NumbersOf(Last(pages).items) /\ Last(pages) = pages[Len(pages)]
                                /\ Len(pages) \in 1 .. Len(pages)
             /\ \A p \in 1 .. Len(pages) : \A j \in 1 .. Len(pages[p].items) :
                  pages[p].items[j].id[1] \in Nat /\ pages[p].items[j].id[1] <= m
  <2>1. CASE pages = <<>>
    BY <2>1, NothingShown, EmptyIsSeq
  <2>2. CASE pages # <<>>
    <3>1. /\ Last(pages).items # <<>> /\ m \in NumbersOf(Last(pages).items) /\ m \in Nat
          /\ Last(pages) = pages[Len(pages)] /\ Len(pages) \in 1 .. Len(pages)
      BY <1>3, <2>2, GoesOn
    <3>2. Ascends(pages) /\ \A p \in 1 .. Len(pages) : PageRight(r, pages[p])
      BY <1>3 DEF HonestPages
    <3> HIDE DEF pages, m
    <3>3. \A p \in 1 .. Len(pages) : \A j \in 1 .. Len(pages[p].items) :
            pages[p].items[j].id[1] \in Nat /\ pages[p].items[j].id[1] <= Cursor(pages)
      <4>1. IsSeq(pages)
        BY DEF pages
      <4> QED
        BY <1>3, <2>2, <3>1, <3>2, <4>1, CursorBound
    <3> QED
      BY <2>2, <3>1, <3>3 DEF m
  <2> QED
    BY <2>1, <2>2
<1>4. IsSeq(pages) /\ HonestPages(r, pages, broker)
  OBVIOUS
<1>5. CASE r = "account"
  <2> DEFINE item == [currency |-> "USD", cash |-> 0 - Holding("stock") - Holding("option")]
  <2>1. P = <<item>>
    BY <1>5 DEF Page
  <2>2. item.currency = "USD"
    OBVIOUS
  <2> HIDE DEF item
  <2>3. <<item>> \in Seq({item}) /\ Len(<<item>>) = 1 /\ <<item>>[1] = item
    OBVIOUS
  <2>4. IsSeq(<<item>>)
    BY <2>3, SeqIsSeq
  <2>5. HonestPage(r, page, broker)
    BY <1>1, <1>5, <2>1, <2>2, <2>3, <2>4 DEF HonestPage, HonestItem
  <2> QED
    BY <1>2, <1>4, <1>5, <2>5, HonestAppend
<1>6. CASE r = "positions"
  <2>1. P = SetToSeq(RawPositions)
    BY <1>6 DEF Page
  <2> HIDE DEF P
  <2>2. HonestPage(r, page, broker)
    BY <1>1, <1>6, <2>1, PositionsPage DEF HonestPage, HonestItem
  <2> QED
    BY <1>2, <1>4, <1>6, <2>2, HonestAppend
<1>7. CASE r = "orders"
  <2> DEFINE n == Len(broker.orders)
  <2>1. n \in Nat
    BY BrokerFacts
  <2>2. m \in 0 .. n
    <3>1. CASE pages = <<>>
      BY <1>3, <1>7, <2>1, <3>1
    <3>2. CASE pages # <<>>
      <4> DEFINE last == pages[Len(pages)]
      <4>1. HonestPage(r, last, broker) /\ m \in NumbersOf(last.items)
        BY <1>3, <1>7, <3>2 DEF HonestPages
      <4> HIDE DEF last, m
      <4>2. PICK j \in 1 .. Len(last.items) : m = last.items[j].id[1]
        BY <4>1, SeqDomain DEF NumbersOf, HonestPage
      <4>3. HonestOrder(last.items[j], broker)
        BY <1>7, <4>1 DEF HonestPage, HonestItem
      <4>4. last.items[j].id[1] \in 1 .. n
        BY <4>3, HonestNumbers
      <4> QED
        BY <2>1, <4>2, <4>4
    <3> QED
      BY <3>1, <3>2
  <2>3. P = Page("orders", m)
    BY <1>7
  <2> HIDE DEF P, m, n
  <2>4. /\ IsSeq(P) /\ Len(P) \in 0 .. (n - m) /\ Len(P) <= PageSize
        /\ \A j \in 1 .. Len(P) : P[j].id[1] = m + j /\ P[j] = RawOrder(m + j)
    BY <2>2, <2>3, OrdersPage DEF n
  <2>5. \A j \in 1 .. Len(P) : m + j \in 1 .. n /\ m < m + j /\ m + j \in Nat
    BY <2>1, <2>2, <2>4
  <2>6. HonestPage(r, page, broker)
    <3>1. \A j \in 1 .. Len(P) : HonestOrder(P[j], broker)
      BY <2>4, <2>5, RawOrderHonest DEF n
    <3> QED
      BY <1>1, <1>7, <2>4, <3>1 DEF HonestPage, HonestItem
  <2>7. Ascends(Append(pages, page))
    <3>1. \A i, j \in 1 .. Len(P) : i < j => P[i].id[1] < P[j].id[1]
      <4>1. TAKE i, j \in 1 .. Len(P)
      <4>2. P[i].id[1] = m + i /\ P[j].id[1] = m + j
        BY <2>4
      <4> QED
        BY <2>1, <2>2, <2>4, <4>2
    <3>2. m \in Nat /\ Ascends(pages)
      BY <1>3, <1>7 DEF HonestPages
    <3>3. \A j \in 1 .. Len(P) : P[j].id[1] \in Nat /\ m < P[j].id[1]
      BY <2>4, <2>5
    <3> HIDE DEF pages
    <3> QED
      BY <1>1, <1>3, <1>4, <1>7, <3>1, <3>2, <3>3, AscendsAppend
  <2> QED
    BY <1>2, <1>4, <1>7, <2>6, <2>7, HonestAppend
<1>8. CASE r = "fills"
  <2> DEFINE left == {k \in Window : k > m}
  <2>1. m \in Nat /\ P = Page("fills", m)
    BY <1>3, <1>8
  <2>2. left \subseteq 1 .. Len(broker.fills) /\ \A k \in left : k > m
    BY BrokerFacts DEF Window
  <2>3. left = {k \in Window : k > m}
    OBVIOUS
  <2> HIDE DEF P, m, left
  <2>4. /\ IsSeq(P) /\ Len(P) <= PageSize
        /\ \A j \in 1 .. Len(P) : P[j].id[1] \in left /\ P[j] = RawFill(P[j].id[1])
        /\ \A i, j \in 1 .. Len(P) : i < j => P[i].id[1] < P[j].id[1]
    BY <2>1, <2>3, FillsPage
  <2>5. HonestPage(r, page, broker)
    <3>1. \A j \in 1 .. Len(P) : HonestFill(P[j], broker)
      <4>1. TAKE j \in 1 .. Len(P)
      <4> DEFINE k == P[j].id[1]
      <4>2. k \in 1 .. Len(broker.fills) /\ P[j] = RawFill(k)
        BY <2>2, <2>4
      <4> HIDE DEF k
      <4> QED
        BY <4>2, RawFillHonest
    <3> QED
      BY <1>1, <1>8, <2>4, <3>1 DEF HonestPage, HonestItem
  <2>6. Ascends(Append(pages, page))
    <3>1. \A j \in 1 .. Len(P) : P[j].id[1] \in Nat /\ m < P[j].id[1]
      <4>1. TAKE j \in 1 .. Len(P)
      <4>2. P[j].id[1] \in 1 .. Len(broker.fills) /\ P[j].id[1] > m
        BY <2>2, <2>4
      <4> QED
        BY <2>1, <4>2
    <3>2. Ascends(pages)
      BY <1>8 DEF HonestPages
    <3> HIDE DEF pages
    <3> QED
      BY <1>1, <1>3, <1>4, <1>8, <2>1, <2>4, <3>1, <3>2, AscendsAppend
  <2> QED
    BY <1>2, <1>4, <1>8, <2>5, <2>6, HonestAppend
<1> QED
  BY <1>5, <1>6, <1>7, <1>8 DEF Resources, Collections

\* A number of its own for every item of a page.
NumbersApart(items) == \A i, j \in 1 .. Len(items) : items[i].id[1] = items[j].id[1] => i = j

\* All identifiers of a page are different when no number comes twice.
Tagged(ids, items) ==
  /\ IsSeq(ids)
  /\ \A id \in ToSet(ids) : \E j \in 1 .. Len(items) : id[1] = items[j].id[1]

\* The identifiers of an item bear its number, and an order with one leg has
\* two that differ.
LEMMA ItemTags ==
  ASSUME NEW r \in {"orders", "fills"}, NEW item,
         r = "orders" => OrderItem(item) /\ Len(item.legs) <= 1
  PROVE  /\ IsSeq(ItemIds(r, item)) /\ IsInjective(ItemIds(r, item))
         /\ \A id \in ToSet(ItemIds(r, item)) : id[1] = item.id[1]
<1> DEFINE one == <<item.id>>
           n == Len(item.legs)
           more == [j \in 1 .. n |-> item.legs[j].id]
<1>1. IsSeq(one) /\ ToSet(one) = {item.id} /\ IsInjective(one)
  <2>1. one \in Seq({item.id}) /\ DOMAIN one = {1} /\ one[1] = item.id
    OBVIOUS
  <2> QED
    BY <2>1, SeqIsSeq DEF ToSet, IsInjective
<1>2. CASE r = "orders"
  <2>1. n \in Nat /\ DOMAIN item.legs = 1 .. n /\ n <= 1
    BY <1>2, SeqDomain DEF OrderItem
  <2>2. ItemIds(r, item) = one \o more
    BY <1>2, <2>1 DEF ItemIds
  <2>3. more = [j \in 1 .. n |-> more[j]]
    OBVIOUS
  <2>4. /\ item.id = <<item.id[1], "parent">>
        /\ \A j \in 1 .. n : more[j] = <<item.id[1], "leg">>
    BY <1>2, <2>1 DEF OrderItem
  <2> HIDE DEF n
  <2> HIDE DEF more, one
  <2>5. IsSeq(more) /\ DOMAIN more = 1 .. n /\ IsInjective(more)
    <3>1. IsSeq(more) /\ DOMAIN more = 1 .. n
      BY <2>1, <2>3, MadeIsSeq
    <3> QED
      BY <2>1, <3>1 DEF IsInjective
  <2>6. \A id \in ToSet(more) : id = <<item.id[1], "leg">>
    BY <2>4, <2>5 DEF ToSet
  <2>7. /\ ToSet(one) \cap ToSet(more) = {}
        /\ \A id \in ToSet(one) \cup ToSet(more) : id[1] = item.id[1]
    <3> DEFINE k == item.id[1]
    <3>1. <<k, "leg">> # <<k, "parent">> /\ <<k, "leg">>[1] = k /\ <<k, "parent">>[1] = k
      OBVIOUS
    <3>2. item.id = <<k, "parent">> /\ \A id \in ToSet(more) : id = <<k, "leg">>
      BY <2>4, <2>6
    <3>3. \A id \in ToSet(one) : id = <<k, "parent">>
      BY <1>1, <3>2
    <3> HIDE DEF k
    <3>4. \A id \in ToSet(one) \cup ToSet(more) : id[1] = k
      BY <3>1, <3>2, <3>3
    <3>5. ToSet(one) \cap ToSet(more) = {}
      BY <3>1, <3>2, <3>3
    <3> QED
      BY <3>4, <3>5 DEF k
  <2> DEFINE S == ToSet(one) \cup ToSet(more)
             both == one \o more
  <2>8. one \in Seq(S) /\ more \in Seq(S)
    <3>1. ToSet(one) \subseteq S /\ ToSet(more) \subseteq S
      OBVIOUS
    <3> HIDE DEF S
    <3> QED
      BY <1>1, <2>5, <3>1, SeqOfMore
  <2> HIDE DEF S
  <2>9. /\ both \in Seq(S) /\ ToSet(both) = ToSet(one) \cup ToSet(more)
        /\ IsInjective(both) <=> /\ IsInjective(one) /\ IsInjective(more)
                                 /\ ToSet(one) \cap ToSet(more) = {}
    BY <2>8, ConcatRules
  <2> HIDE DEF both
  <2>10. IsSeq(both) /\ IsInjective(both) /\ \A id \in ToSet(both) : id[1] = item.id[1]
    BY <1>1, <2>5, <2>7, <2>9, SeqIsSeq
  <2> QED
    BY <2>2, <2>10 DEF both
<1>3. CASE r = "fills"
  <2>1. ItemIds(r, item) = one
    BY <1>3 DEF ItemIds
  <2> HIDE DEF one
  <2> QED
    BY <1>1, <2>1
<1> QED
  BY <1>2, <1>3

\* The identifiers of a page, too.
LEMMA PageTags ==
  ASSUME NEW r \in {"orders", "fills"}, NEW page, PageRight(r, page),
         \A j \in 1 .. Len(page.items) : r = "orders" => Len(page.items[j].legs) <= 1,
         NumbersApart(page.items)
  PROVE  Tagged(PageIds(r, page.items), page.items) /\ IsInjective(PageIds(r, page.items))
<1> DEFINE items == page.items
           n == Len(items)
           seqs == [j \in 1 .. n |-> ItemIds(r, items[j])]
<1>1. n \in Nat /\ DOMAIN items = 1 .. n
  BY SeqDomain DEF PageRight
<1>2. \A j \in 1 .. n : r = "orders" => OrderItem(items[j]) /\ Len(items[j].legs) <= 1
  BY <1>1 DEF PageRight
<1>3. PageIds(r, items) = FlattenSeq(seqs)
  BY <1>1 DEF PageIds
<1>4. seqs = [j \in 1 .. n |-> seqs[j]] /\ \A j \in 1 .. n : seqs[j] = ItemIds(r, items[j])
  OBVIOUS
<1>5. \A i, j \in 1 .. n : items[i].id[1] = items[j].id[1] => i = j
  BY DEF NumbersApart
<1> HIDE DEF seqs, n
<1>6. IsSeq(seqs) /\ Len(seqs) = n
  BY <1>1, <1>4, MadeIsSeq
<1>7. \A j \in 1 .. n : /\ IsSeq(seqs[j]) /\ IsInjective(seqs[j])
                        /\ \A id \in ToSet(seqs[j]) : id[1] = items[j].id[1]
  BY <1>2, <1>4, ItemTags
<1>8. /\ IsSeq(FlattenSeq(seqs)) /\ ToSet(FlattenSeq(seqs)) = AllItems(seqs)
      /\ IsInjective(FlattenSeq(seqs)) <=> Apart(seqs, n)
  BY <1>6, <1>7, NestedRules
<1>9. \A id \in AllItems(seqs) : \E j \in 1 .. n : id[1] = items[j].id[1]
  BY <1>6, <1>7 DEF AllItems
<1>10. ASSUME NEW i \in 1 .. n, NEW j \in 1 .. n, i < j
       PROVE  ToSet(seqs[i]) \cap ToSet(seqs[j]) = {}
  <2>1. items[i].id[1] # items[j].id[1]
    BY <1>1, <1>5, <1>10
  <2> QED
    BY <1>7, <2>1
<1>11. Apart(seqs, n)
  BY <1>7, <1>10 DEF Apart
<1> QED
  BY <1>3, <1>8, <1>9, <1>11 DEF Tagged, n

\* An order that is shown has at most one leg.
LEMMA HonestLegs ==
  ASSUME NEW item, NEW b, HonestOrder(item, b)
  PROVE  Len(item.legs) <= 1
<1>1. PICK i \in 1 .. Len(b.orders) : \E status, filled : item = OrderAs(i, b.orders[i], status, filled)
  BY DEF HonestOrder
<1>2. PICK status, filled : item = OrderAs(i, b.orders[i], status, filled)
  BY <1>1
<1> DEFINE leg == LegAs(i, b.orders[i], status, filled)
<1>3. \A part, structure, asset, class, side, legs, qty, s, f :
        PartAs(i, part, structure, asset, class, side, legs, qty, s, f).legs = legs
  BY DEF PartAs
<1>4. item.legs = <<leg>> \/ item.legs = <<>>
  BY <1>2, <1>3 DEF OrderAs
<1> HIDE DEF leg
<1>5. Len(<<leg>>) <= 1 /\ Len(<<>>) <= 1
  OBVIOUS
<1> QED
  BY <1>4, <1>5, Zenon

\* What an honest provider has shown is not malformed (readOrders, readFills).
LEMMA HonestVerdict ==
  ASSUME NEW r \in Resources, NEW b, NEW pages, IsSeq(pages), pages # <<>>, HonestPages(r, pages, b),
         r \in {"orders", "fills"} => \A p \in 1 .. Len(pages) : PageRight(r, pages[p])
  PROVE  PageVerdict(r, pages) # "malformed_response"
<1>1. CASE r \notin {"orders", "fills"}
  BY <1>1 DEF PageVerdict, Resources, Collections
<1>2. CASE r \in {"orders", "fills"}
  <2> DEFINE n == Len(pages)
             seqs == [x \in 1 .. n |-> PageIds(r, pages[x].items)]
  <2>1. n \in Nat /\ DOMAIN pages = 1 .. n /\ Last(pages) = pages[n] /\ n \in 1 .. n
    BY SeqDomain DEF Last
  <2>2. Identifiers(r, pages) = FlattenSeq(seqs)
    BY <2>1 DEF Identifiers, PageIds
  <2>3. seqs = [x \in 1 .. n |-> seqs[x]] /\ \A x \in 1 .. n : seqs[x] = PageIds(r, pages[x].items)
    OBVIOUS
  <2>4. \A x \in 1 .. n : PageRight(r, pages[x]) /\ HonestPage(r, pages[x], b)
    BY <1>2 DEF HonestPages
  <2>5. \A p, q \in 1 .. n :
          \A j \in 1 .. Len(pages[p].items), k \in 1 .. Len(pages[q].items) :
            p < q \/ (p = q /\ j < k) => pages[p].items[j].id[1] < pages[q].items[k].id[1]
    BY <1>2 DEF HonestPages, Ascends
  <2> HIDE DEF seqs, n
  <2>6. IsSeq(seqs) /\ Len(seqs) = n
    BY <2>1, <2>3, MadeIsSeq
  <2>7. \A x \in 1 .. n : /\ Len(pages[x].items) \in Nat
                          /\ \A j \in 1 .. Len(pages[x].items) : pages[x].items[j].id[1] \in Nat
    <3>1. TAKE x \in 1 .. n
    <3>2. PageRight(r, pages[x])
      BY <2>4
    <3> DEFINE items == pages[x].items
    <3>3. Len(items) \in Nat /\ DOMAIN items = 1 .. Len(items)
      BY <3>2, SeqDomain, SMTT(30) DEF PageRight
    <3>4. \A j \in DOMAIN items : items[j].id[1] \in Nat
      BY <3>2 DEF PageRight, OrderItem, FillItem
    <3> QED
      BY <3>3, <3>4
  <2>8. ASSUME NEW x \in 1 .. n
        PROVE  Tagged(seqs[x], pages[x].items) /\ IsInjective(seqs[x])
    <3> DEFINE page == pages[x]
               items == page.items
    <3>1. PageRight(r, page) /\ HonestPage(r, page, b) /\ seqs[x] = PageIds(r, items)
      BY <2>3, <2>4
    <3>2. \A j \in 1 .. Len(items) : r = "orders" => Len(items[j].legs) <= 1
      BY <3>1, HonestLegs DEF HonestPage, HonestItem
    <3>3. NumbersApart(items)
      <4>1. SUFFICES ASSUME NEW i \in 1 .. Len(items), NEW j \in 1 .. Len(items), i < j
                     PROVE  items[i].id[1] < items[j].id[1]
        <5>1. Len(items) \in Nat /\ \A j \in 1 .. Len(items) : items[j].id[1] \in Nat
          BY <2>7
        <5> HIDE DEF items
        <5>2. \A i, j \in 1 .. Len(items) : i < j => items[i].id[1] < items[j].id[1]
          BY <4>1
        <5>3. ASSUME NEW i \in 1 .. Len(items), NEW j \in 1 .. Len(items), items[i].id[1] = items[j].id[1]
              PROVE  i = j
          <6>1. ~(i < j) /\ ~(j < i)
            BY <5>1, <5>2, <5>3
          <6> QED
            BY <5>1, <6>1
        <5> QED
          BY <5>3 DEF NumbersApart
      <4> QED
        BY <2>5, <4>1
    <3> HIDE DEF page
    <3>4. Tagged(PageIds(r, items), items) /\ IsInjective(PageIds(r, items))
      BY <1>2, <3>1, <3>2, <3>3, PageTags
    <3> QED
      BY <3>1, <3>4 DEF page
  <2>9. IsInjective(FlattenSeq(seqs)) <=> Apart(seqs, n)
    BY <2>6, <2>8, NestedRules DEF Tagged
  <2>10. ASSUME NEW p \in 1 .. n, NEW q \in 1 .. n, p < q
         PROVE  ToSet(seqs[p]) \cap ToSet(seqs[q]) = {}
    <3>1. ASSUME NEW id \in ToSet(seqs[p]), id \in ToSet(seqs[q]) PROVE FALSE
      <4>1. PICK j \in 1 .. Len(pages[p].items) : id[1] = pages[p].items[j].id[1]
        BY <2>8, <3>1 DEF Tagged
      <4>2. PICK k \in 1 .. Len(pages[q].items) : id[1] = pages[q].items[k].id[1]
        BY <2>8, <3>1 DEF Tagged
      <4>3. pages[p].items[j].id[1] < pages[q].items[k].id[1]
        BY <2>5, <2>10
      <4>4. pages[p].items[j].id[1] \in Nat
        BY <2>7
      <4> QED
        BY <4>1, <4>2, <4>3, <4>4
    <3> QED
      BY <3>1
  <2>11. IsInjective(Identifiers(r, pages))
    BY <2>2, <2>8, <2>9, <2>10 DEF Apart
  <2>12. ~(Len(Last(pages).items) > PageSize)
    <3>1. HonestPage(r, pages[n], b) /\ Len(pages[n].items) \in Nat
      BY <2>1, <2>4, <2>7
    <3>2. Len(pages[n].items) <= PageSize
      BY <1>2, <3>1 DEF HonestPage
    <3> QED
      BY <2>1, <3>1, <3>2, BoundFacts
  <2> QED
    BY <1>2, <2>11, <2>12 DEF PageVerdict
<1> QED
  BY <1>1, <1>2

-----------------------------------------------------------------------------
(* What an honest provider has shown is accepted.                           *)

\* Two items that one collection may not have both.
SameKey(r, x, y) == IF r = "positions" THEN x.asset = y.asset ELSE x.id[1] = y.id[1]

\* No two items in the pages have one key.
LEMMA HonestKeys ==
  ASSUME NEW r \in Collections, NEW b, NEW pages, HonestPages(r, pages, b), IsSeq(pages),
         r \in {"orders", "fills"} => \A p \in 1 .. Len(pages) : PageRight(r, pages[p]),
         NEW p \in 1 .. Len(pages), NEW q \in 1 .. Len(pages),
         NEW j \in 1 .. Len(pages[p].items), NEW k \in 1 .. Len(pages[q].items),
         SameKey(r, pages[p].items[j], pages[q].items[k])
  PROVE  p = q /\ j = k
<1>1. Len(pages) \in Nat
  BY SeqDomain
<1>2. CASE r = "positions"
  <2>1. p = q
    BY <1>1, <1>2 DEF HonestPages
  <2>2. HonestPage(r, pages[p], b)
    BY DEF HonestPages
  <2> QED
    BY <1>2, <2>1, <2>2 DEF HonestPage, SameKey
<1>3. CASE r \in {"orders", "fills"}
  <2> DEFINE N(x, y) == pages[x].items[y].id[1]
  <2>1. \A x \in 1 .. Len(pages) :
          /\ Len(pages[x].items) \in Nat
          /\ \A y \in 1 .. Len(pages[x].items) : N(x, y) \in Nat
    <3>1. TAKE x \in 1 .. Len(pages)
    <3>2. PageRight(r, pages[x])
      BY <1>3
    <3> DEFINE items == pages[x].items
    <3>3. Len(items) \in Nat /\ DOMAIN items = 1 .. Len(items)
      BY <3>2, SeqDomain, SMTT(30) DEF PageRight
    <3>4. \A y \in DOMAIN items : items[y].id[1] \in Nat
      BY <3>2 DEF PageRight, OrderItem, FillItem
    <3> QED
      BY <3>3, <3>4
  <2>2. \A x, y \in 1 .. Len(pages) :
          \A v \in 1 .. Len(pages[x].items), w \in 1 .. Len(pages[y].items) :
            x < y \/ (x = y /\ v < w) => N(x, v) < N(y, w)
    BY <1>3 DEF HonestPages, Ascends
  <2>3. N(p, j) = N(q, k) /\ N(p, j) \in Nat /\ Len(pages[p].items) \in Nat /\ Len(pages[q].items) \in Nat
    BY <1>3, <2>1 DEF SameKey
  <2> HIDE DEF N
  <2>4. ~(p < q \/ (p = q /\ j < k)) /\ ~(q < p \/ (q = p /\ k < j))
    BY <2>2, <2>3
  <2> QED
    BY <1>1, <2>3, <2>4
<1> QED
  BY <1>2, <1>3 DEF Collections

\* So every item is honest, and has a key of its own.
LEMMA HonestItems ==
  ASSUME NEW r \in Resources, NEW b, NEW pages, HonestPages(r, pages, b), IsSeq(pages),
         r \in {"orders", "fills"} => \A p \in 1 .. Len(pages) : PageRight(r, pages[p]),
         NEW items, items = PageItems(pages)
  PROVE  /\ IsSeq(items) /\ \A e \in ToSet(items) : HonestItem(r, e, b)
         /\ r = "orders" => \A e \in ToSet(items) : OrderItem(e)
         /\ r = "account" /\ pages # <<>> => items[1] \in ToSet(items)
         /\ r \in Collections => \A i, j \in 1 .. Len(items) : SameKey(r, items[i], items[j]) => i = j
<1>1. \A p \in 1 .. Len(pages) :
        /\ IsSeq(pages[p].items) /\ \A j \in 1 .. Len(pages[p].items) : HonestItem(r, pages[p].items[j], b)
        /\ r = "account" => Len(pages[p].items) # 0
  BY DEF HonestPages, HonestPage
<1>2. /\ IsSeq(items)
      /\ \A e : e \in ToSet(items) <=>
           \E p \in 1 .. Len(pages) : \E j \in 1 .. Len(pages[p].items) : e = pages[p].items[j]
  <2>1. \A p \in 1 .. Len(pages) : IsSeq(pages[p].items)
    BY <1>1
  <2> QED
    BY <2>1, ItemsAll
<1>3. \A e \in ToSet(items) : HonestItem(r, e, b)
  BY <1>1, <1>2
<1>4. ASSUME r = "orders" PROVE \A e \in ToSet(items) : OrderItem(e)
  <2>1. \A p \in 1 .. Len(pages) : \A j \in 1 .. Len(pages[p].items) : OrderItem(pages[p].items[j])
    <3>1. TAKE p \in 1 .. Len(pages)
    <3>2. PageRight("orders", pages[p])
      BY <1>4
    <3>3. DOMAIN pages[p].items = 1 .. Len(pages[p].items)
      BY <1>1, SeqDomain
    <3> QED
      BY <3>2, <3>3 DEF PageRight
  <2> QED
    BY <1>2, <2>1
<1>5. ASSUME r = "account", pages # <<>> PROVE items[1] \in ToSet(items)
  <2>1. 1 \in 1 .. Len(pages)
    BY <1>5, SeqDomain
  <2>2. 1 \in 1 .. Len(pages[1].items)
    BY <1>1, <1>5, <2>1, SeqDomain
  <2>3. pages[1].items[1] \in ToSet(items)
    BY <1>2, <2>1, <2>2
  <2>4. 1 \in 1 .. Len(items)
    BY <1>2, <2>3, SeqDomain
  <2> QED
    BY <1>2, <2>4, SeqDomain
<1>6. ASSUME r \in Collections
      PROVE  \A i, j \in 1 .. Len(items) : SameKey(r, items[i], items[j]) => i = j
  <2>1. \A x : SameKey(r, x, x)
    BY DEF SameKey
  <2>2. \A p, q \in 1 .. Len(pages) :
          \A j \in 1 .. Len(pages[p].items), k \in 1 .. Len(pages[q].items) :
            SameKey(r, pages[p].items[j], pages[q].items[k]) => p = q /\ j = k
    BY <1>6, HonestKeys
  <2>3. \A p \in 1 .. Len(pages) : DOMAIN pages[p].items = 1 .. Len(pages[p].items)
    BY <1>1, SeqDomain
  <2>4. \A p \in 1 .. Len(pages) : IsInjective(pages[p].items)
    <3>1. TAKE p \in 1 .. Len(pages)
    <3> DEFINE page == pages[p].items
    <3>2. \A j, k \in 1 .. Len(page) : SameKey(r, page[j], page[k]) => j = k
      BY <2>2
    <3>3. DOMAIN page = 1 .. Len(page)
      BY <2>3
    <3> HIDE DEF page
    <3>4. IsInjective(page)
      BY <2>1, <3>2, <3>3 DEF IsInjective
    <3> QED
      BY <3>4 DEF page
  <2>5. ASSUME NEW p \in 1 .. Len(pages), NEW q \in 1 .. Len(pages), p < q
        PROVE  ToSet(pages[p].items) \cap ToSet(pages[q].items) = {}
    <3>1. ASSUME NEW e \in ToSet(pages[p].items), e \in ToSet(pages[q].items) PROVE FALSE
      <4>1. PICK j \in 1 .. Len(pages[p].items) : e = pages[p].items[j]
        BY <2>3, <3>1 DEF ToSet
      <4>2. PICK k \in 1 .. Len(pages[q].items) : e = pages[q].items[k]
        BY <2>3, <3>1 DEF ToSet
      <4>3. SameKey(r, pages[p].items[j], pages[q].items[k])
        BY <2>1, <4>1, <4>2
      <4>5. p = q
        BY <2>2, <4>3
      <4>4. p \in Nat
        BY SeqDomain
      <4> QED
        BY <2>5, <4>4, <4>5
    <3> QED
      BY <3>1
  <2>6. IsInjective(items)
    <3>1. \A p \in 1 .. Len(pages) : IsSeq(pages[p].items)
      BY <1>1
    <3>2. /\ \A p \in 1 .. Len(pages) : IsInjective(pages[p].items)
          /\ \A p, q \in 1 .. Len(pages) :
               p < q => ToSet(pages[p].items) \cap ToSet(pages[q].items) = {}
      BY <2>4, <2>5
    <3> QED
      BY <3>1, <3>2, ItemsAll
  <2>7. ASSUME NEW i \in 1 .. Len(items), NEW j \in 1 .. Len(items), SameKey(r, items[i], items[j])
        PROVE  i = j
    <3>1. items[i] \in ToSet(items) /\ items[j] \in ToSet(items) /\ DOMAIN items = 1 .. Len(items)
      BY <1>2, SeqDomain
    <3>2. PICK p \in 1 .. Len(pages) : \E x \in 1 .. Len(pages[p].items) : items[i] = pages[p].items[x]
      BY <1>2, <3>1
    <3>3. PICK x \in 1 .. Len(pages[p].items) : items[i] = pages[p].items[x]
      BY <3>2
    <3>4. PICK q \in 1 .. Len(pages) : \E y \in 1 .. Len(pages[q].items) : items[j] = pages[q].items[y]
      BY <1>2, <3>1
    <3>5. PICK y \in 1 .. Len(pages[q].items) : items[j] = pages[q].items[y]
      BY <3>4
    <3>6. p = q /\ x = y
      BY <2>2, <2>7, <3>3, <3>5
    <3>7. items[i] = items[j]
      BY <3>3, <3>5, <3>6
    <3> QED
      BY <2>6, <3>1, <3>7 DEF IsInjective
  <2> QED
    BY <2>7
<1> QED
  BY <1>2, <1>3, <1>4, <1>5, <1>6

\* What an honest position is normalized to.
PositionKnown(p) ==
  /\ p.asset \in {"stock", "option"} /\ p.class = ClassOf(p.asset) /\ p.currency = "USD" /\ p.qty # 0
  /\ p.asset = "stock" => p.support = "supported" /\ p.instrument = "stock"
  /\ p.asset = "option" => p.support = "unsupported_asset_class" /\ p.instrument = None

\* It is.
LEMMA PositionsKnown ==
  ASSUME NEW x, HonestPosition(x)
  PROVE  PositionKnown(NormalizePosition(x, "USD")) /\ PositionIsSound(NormalizePosition(x, "USD"))
<1> DEFINE p == NormalizePosition(x, "USD")
           missing == IF x.class = "us_equity" /\ x.exchange \notin KnownExchange
                        THEN "unsupported_venue" ELSE "missing_instrument"
<1>1. /\ p.asset = x.asset /\ p.class = x.class /\ p.qty = x.qty /\ p.currency = "USD"
      /\ p.instrument = InstrumentForPosition(x)
      /\ p.support = HoldingSupport(x.class, "USD", InstrumentForPosition(x), missing)
  BY DEF NormalizePosition
<1> HIDE DEF p, missing
<1>2. x.asset \in {"stock", "option"} /\ x.class = ClassOf(x.asset) /\ x.exchange \in KnownExchange /\ x.qty # 0
  BY DEF HonestPosition, KnownExchange
<1>3. "stock" # None /\ "option" # None
  BY NoneAssumption
<1>4. CASE x.asset = "stock"
  <2>1. x.class = "us_equity"
    BY <1>2, <1>4 DEF ClassOf
  <2>2. InstrumentForPosition(x) = "stock"
    BY <1>2, <1>4, <2>1 DEF InstrumentForPosition
  <2>3. p.support = "supported" /\ p.instrument = "stock"
    BY <1>1, <1>3, <2>1, <2>2 DEF HoldingSupport
  <2> QED
    BY <1>1, <1>2, <1>3, <1>4, <2>1, <2>3 DEF PositionKnown, PositionIsSound, p
<1>5. CASE x.asset = "option"
  <2>1. x.class = "us_option"
    BY <1>2, <1>5 DEF ClassOf
  <2>2. InstrumentForPosition(x) = None
    BY <2>1 DEF InstrumentForPosition
  <2>3. p.support = "unsupported_asset_class" /\ p.instrument = None
    BY <1>1, <2>1, <2>2 DEF HoldingSupport
  <2> QED
    BY <1>1, <1>2, <1>5, <2>1, <2>3 DEF PositionKnown, PositionIsSound, p
<1> QED
  BY <1>2, <1>4, <1>5

\* A flattened order or leg of the order o of the account, with number i.
Listed(x, i, o) ==
  /\ Sane(x.status, x.filled, o.qty) /\ x.qty = o.qty
  /\ x.role = "leg" => x.legs = <<>>
  /\ IF o.structure = "mleg"
     THEN /\ x.mleg = TRUE
          /\ \/ /\ x.role = "parent" /\ x.id = <<i, "parent">>
                /\ x.asset = None /\ x.class = None /\ x.side = None
             \/ /\ x.role = "leg" /\ x.id = <<i, "leg">>
                /\ x.asset = "option" /\ x.class = "us_option" /\ x.side = o.side
     ELSE /\ x.mleg = FALSE /\ x.role = "parent" /\ x.id = <<i, "parent">>
          /\ x.asset = "stock" /\ x.class = "us_equity" /\ x.side = o.side

\* What is shown of a part.
LEMMA PartShown ==
  ASSUME NEW i, NEW part, NEW structure, NEW asset, NEW class, NEW side, NEW legs, NEW qty,
         NEW status, NEW filled, NEW raw,
         raw = PartAs(i, part, structure, asset, class, side, legs, qty, status, filled)
  PROVE  raw.structure = structure /\ raw.legs = legs
BY DEF PartAs

\* What is made of it.
LEMMA PartFields ==
  ASSUME NEW i, NEW part, NEW structure, NEW asset, NEW class, NEW side, NEW legs, NEW qty,
         NEW status, NEW filled, NEW raw, NEW role, NEW mleg,
         raw = PartAs(i, part, structure, asset, class, side, legs, qty, status, filled)
  PROVE  /\ PartOf(raw, role, mleg).id = <<i, part>> /\ PartOf(raw, role, mleg).asset = asset
         /\ PartOf(raw, role, mleg).class = class /\ PartOf(raw, role, mleg).side = side
         /\ PartOf(raw, role, mleg).legs = legs /\ PartOf(raw, role, mleg).qty = qty
         /\ PartOf(raw, role, mleg).status = status /\ PartOf(raw, role, mleg).filled = filled
         /\ PartOf(raw, role, mleg).role = role /\ PartOf(raw, role, mleg).mleg = mleg
<1>1. /\ raw.structure = structure /\ raw.legs = legs /\ raw.id = <<i, part>> /\ raw.asset = asset
      /\ raw.class = class /\ raw.side = side /\ raw.qty = qty /\ raw.status = status
      /\ raw.filled = filled
  BY DEF PartAs
<1> QED
  BY <1>1 DEF PartOf

\* The parts of an honest order are listed so, and have different identities.
LEMMA PartsListed ==
  ASSUME NEW b, NEW raw, HonestOrder(raw, b)
  PROVE  /\ \A x \in PartSet(raw) : \E i \in 1 .. Len(b.orders) : Listed(x, i, b.orders[i])
         /\ \A x, y \in PartSet(raw) : x.id = y.id => x = y
<1>1. PICK i \in 1 .. Len(b.orders) : \E status, filled :
        Sane(status, filled, b.orders[i].qty) /\ raw = OrderAs(i, b.orders[i], status, filled)
  BY DEF HonestOrder
<1>2. PICK status, filled :
        Sane(status, filled, b.orders[i].qty) /\ raw = OrderAs(i, b.orders[i], status, filled)
  BY <1>1
<1> DEFINE o == b.orders[i]
           leg == LegAs(i, o, status, filled)
           mleg == raw.structure = "mleg"
<1>3. CASE o.structure = "mleg"
  <2> DEFINE x == PartOf(raw, "parent", mleg)
             y == PartOf(leg, "leg", mleg)
  <2>1. raw = PartAs(i, "parent", "mleg", None, None, None, <<leg>>, o.qty, status, filled)
    BY <1>2, <1>3 DEF OrderAs
  <2>2. raw.structure = "mleg" /\ raw.legs = <<leg>> /\ mleg = TRUE
    <3>1. raw.structure = "mleg" /\ raw.legs = <<leg>>
      BY <2>1, PartShown
    <3> QED
      BY <3>1
  <2>11. leg = PartAs(i, "leg", "simple", "option", "us_option", o.side, <<>>, o.qty, status, filled)
    BY DEF LegAs
  <2>12. Sane(status, filled, o.qty)
    BY <1>2
  <2> HIDE DEF leg, mleg, o
  <2>13. /\ x.id = <<i, "parent">> /\ x.asset = None /\ x.class = None /\ x.side = None
         /\ x.qty = o.qty /\ x.status = status /\ x.filled = filled /\ x.role = "parent" /\ x.mleg = mleg
    BY <2>1, PartFields
  <2>14. /\ y.id = <<i, "leg">> /\ y.asset = "option" /\ y.class = "us_option" /\ y.side = o.side
         /\ y.legs = <<>> /\ y.qty = o.qty /\ y.status = status /\ y.filled = filled
         /\ y.role = "leg" /\ y.mleg = mleg
    BY <2>11, PartFields
  <2> HIDE DEF x, y
  <2>3. Listed(x, i, o)
    BY <1>3, <2>2, <2>12, <2>13 DEF Listed
  <2>4. Listed(y, i, o)
    BY <1>3, <2>2, <2>12, <2>14 DEF Listed
  <2>5. x.id = <<i, "parent">> /\ y.id = <<i, "leg">> /\ <<i, "parent">> # <<i, "leg">>
    BY <2>13, <2>14
  <2>6. PartSet(raw) = {x, y}
    <3>1. Len(<<leg>>) = 1 /\ <<leg>>[1] = leg
      OBVIOUS
    <3>2. PartSet(raw) = {x} \cup {PartOf(<<leg>>[k], "leg", mleg) : k \in 1 .. 1}
      BY <2>2, <3>1 DEF PartSet, mleg, x
    <3> QED
      BY <3>1, <3>2 DEF y
  <2>7. \A z \in PartSet(raw) : Listed(z, i, o)
    BY <2>3, <2>4, <2>6
  <2>8. \A z, w \in PartSet(raw) : z.id = w.id => z = w
    BY <2>5, <2>6
  <2> QED
    BY <2>7, <2>8 DEF o
<1>4. CASE o.structure # "mleg"
  <2> DEFINE x == PartOf(raw, "parent", mleg)
  <2>1. raw = PartAs(i, "parent", "simple", "stock", "us_equity", o.side, <<>>, o.qty, status, filled)
    BY <1>2, <1>4 DEF OrderAs
  <2>2. raw.structure # "mleg" /\ raw.legs = <<>> /\ mleg = FALSE
    <3>1. raw.structure = "simple" /\ raw.legs = <<>>
      BY <2>1, PartShown
    <3> QED
      BY <3>1
  <2>11. Sane(status, filled, o.qty)
    BY <1>2
  <2> HIDE DEF mleg, o
  <2>12. /\ x.id = <<i, "parent">> /\ x.asset = "stock" /\ x.class = "us_equity" /\ x.side = o.side
         /\ x.qty = o.qty /\ x.status = status /\ x.filled = filled /\ x.role = "parent" /\ x.mleg = mleg
    BY <2>1, PartFields
  <2> HIDE DEF x
  <2>3. Listed(x, i, o)
    BY <1>4, <2>2, <2>11, <2>12 DEF Listed
  <2>4. PartSet(raw) = {x}
    <3>1. Len(<<>>) = 0 /\ 1 .. 0 = {}
      BY EmptyIsSeq
    <3> QED
      BY <2>2, <3>1 DEF PartSet, mleg, x
  <2>5. \A z \in PartSet(raw) : Listed(z, i, o)
    BY <2>3, <2>4
  <2>6. \A z, w \in PartSet(raw) : z = w
    BY <2>4
  <2> QED
    BY <2>5, <2>6 DEF o
<1> QED
  BY <1>3, <1>4

\* A listed order is consistent with the positions, and its observation sound.
LEMMA ListedIsAccepted ==
  ASSUME NEW x, NEW i, NEW o \in OrderRow, Listed(x, i, o),
         NEW positions, \A p \in positions : PositionKnown(p)
  PROVE  OrderIsConsistent(x, positions) /\ OrderIsSound(NormalizeOrder(x, positions, "USD"))
<1>1. /\ o.qty \in Nat /\ o.qty > 0 /\ o.side \in {"buy", "sell"}
      /\ o.side # None /\ "stock" # None /\ "option" # None /\ "us_equity" # None /\ "us_option" # None
  BY NoneAssumption DEF OrderRow
<1>2. /\ x.status \in {"new", "partially_filled", "filled", "canceled"} /\ x.filled \in 0 .. o.qty
      /\ x.status = "partially_filled" => 0 < x.filled /\ x.filled < o.qty
      /\ x.status = "filled" => x.filled = o.qty
      /\ x.qty = o.qty
  BY DEF Listed, Sane
<1>3. {"new", "partially_filled", "filled", "canceled"} \subseteq OpenStatus \cup TerminalStatus \cup {"calculated"}
  BY DEF OpenStatus, TerminalStatus
<1>4. \/ x.mleg = TRUE /\ x.asset = None /\ x.class = None /\ x.side = None /\ x.role = "parent"
      \/ x.mleg = TRUE /\ x.asset = "option" /\ x.class = "us_option" /\ x.side # None /\ x.role = "leg"
      \/ x.mleg = FALSE /\ x.asset = "stock" /\ x.class = "us_equity" /\ x.side # None /\ x.role = "parent"
  BY <1>1 DEF Listed
<1>5. \A p \in positions : p.asset = x.asset =>
        /\ p.class = x.class
        /\ ~x.mleg => p.support = "supported" /\ p.instrument = "stock"
        /\ x.mleg => p.instrument = None
  BY <1>1, <1>4 DEF PositionKnown, ClassOf
<1>6. OrderIsConsistent(x, positions)
  BY <1>1, <1>2, <1>3, <1>4, <1>5 DEF OrderIsConsistent, Listed
<1>7. OrderIsSound(NormalizeOrder(x, positions, "USD"))
  <2> DEFINE linked == {p \in positions : p.asset = x.asset}
             chosen == CHOOSE p \in linked : TRUE
             instrument == IF linked = {} THEN None ELSE chosen.instrument
             n == NormalizeOrder(x, positions, "USD")
  <2>1. linked # {} => chosen \in linked
    OBVIOUS
  <2>2. linked # {} => /\ ~x.mleg => chosen.support = "supported" /\ chosen.instrument = "stock"
                       /\ x.mleg => chosen.instrument = None
    BY <1>5, <2>1
  <2>3. /\ n.asset = x.asset /\ n.class = x.class /\ n.side = x.side /\ n.mleg = x.mleg
        /\ n.qty = x.qty /\ n.filled = x.filled /\ n.instrument = instrument
        /\ n.support = IF x.mleg THEN "unsupported_order_structure"
                       ELSE IF linked # {} THEN chosen.support
                       ELSE HoldingSupport(x.class, "USD", instrument, "missing_instrument")
    BY DEF NormalizeOrder
  <2> HIDE DEF linked, chosen, n
  <2>4. n.qty > 0 /\ n.filled \in 0 .. n.qty
    BY <1>1, <1>2, <2>3
  <2>5. ASSUME x.mleg = TRUE PROVE OrderIsSound(n)
    <3>1. n.instrument = None /\ n.support = "unsupported_order_structure" /\ n.mleg = TRUE
      BY <2>2, <2>3, <2>5
    <3>2. n.mleg /\ "unsupported_order_structure" # "supported"
      BY <3>1
    <3> QED
      BY <2>4, <3>1, <3>2, Zenon DEF OrderIsSound
  <2>6. ASSUME x.mleg = FALSE PROVE OrderIsSound(n)
    <3>1. x.asset = "stock" /\ x.class = "us_equity" /\ x.side # None
      BY <1>4, <2>6
    <3>2. (n.support = "supported" /\ n.instrument = "stock") \/ n.support = "missing_instrument"
      <4>1. CASE linked = {}
        BY <2>3, <2>6, <3>1, <4>1 DEF HoldingSupport
      <4>2. CASE linked # {}
        BY <2>2, <2>3, <2>6, <4>2
      <4> QED
        BY <4>1, <4>2
    <3>3. /\ n.asset # None /\ n.class # None /\ n.side # None /\ n.mleg = FALSE
          /\ n.support # "unsupported_order_structure"
          /\ n.support = "supported" => n.class = "us_equity" /\ n.instrument # None
      BY <1>1, <2>3, <2>6, <3>1, <3>2
    <3>4. ~n.mleg
      BY <3>3
    <3> QED
      BY <2>4, <3>3, <3>4, Zenon DEF OrderIsSound
  <2> QED
    BY <1>4, <2>5, <2>6 DEF n
<1> QED
  BY <1>6, <1>7

\* A fill has a place among the fills of its order.
LEMMA FillCounts ==
  ASSUME NEW b, IsAccount(b), NEW k \in 1 .. Len(b.fills), NEW f, f = b.fills[k],
         NEW o, o = b.orders[f.order]
  PROVE  f.order \in 1 .. Len(b.orders) /\ o \in OrderRow /\ f.cum \in Nat /\ 1 <= f.cum /\ f.cum <= o.qty
<1> DEFINE S == FillsUpto(b, f.order, k)
           T == FillsUpto(b, f.order, Len(b.fills))
<1>1. /\ Len(b.fills) \in Nat /\ f.order \in 1 .. Len(b.orders) /\ o \in OrderRow
      /\ f.cum = Cardinality(S)
      /\ Cardinality(T) <= o.qty
  <2>1. /\ Len(b.fills) \in Nat /\ f.order \in 1 .. Len(b.orders) /\ f.cum = Cardinality(S)
    BY AccountFacts
  <2>2. o \in OrderRow
    BY <2>1, AccountFacts
  <2>3. FilledIn(b, f.order) <= o.qty /\ FilledIn(b, f.order) = Cardinality(T)
    BY <2>1, AccountFacts
  <2> QED
    BY <2>1, <2>2, <2>3
<1>2. S \subseteq T /\ k \in S
  BY <1>1 DEF FillsUpto
<1>3. IsFiniteSet(S) /\ IsFiniteSet(T) /\ Cardinality(S) \in Nat /\ Cardinality(T) \in Nat
  BY <1>1, FillsUptoFinite
<1> HIDE DEF S, T
<1>4. Cardinality(S) <= Cardinality(T)
  BY <1>2, <1>3, FS_Subset
<1>5. Cardinality(S) # 0
  BY <1>2, <1>3, FS_EmptySet
<1>6. o.qty \in Nat
  BY <1>1 DEF OrderRow
<1> QED
  BY <1>1, <1>3, <1>4, <1>5, <1>6, SMTT(30)

\* An honest fill agrees with the order it is linked to.
LEMMA FillIsAccepted ==
  ASSUME NEW b, IsAccount(b), NEW f, HonestFill(f, b), NEW linked,
         \A x \in linked : x.id = f.order /\ \E i \in 1 .. Len(b.orders) : Listed(x, i, b.orders[i])
  PROVE  FillIsConsistent(f, linked) /\ FillIsSound(f)
<1>1. PICK k \in 1 .. Len(b.fills) : f = FillAs(k, b.fills[k], b.orders[b.fills[k].order])
  BY DEF HonestFill
<1> DEFINE row == b.fills[k]
           o == b.orders[row.order]
           n == row.order
<1>2. n \in 1 .. Len(b.orders) /\ o \in OrderRow /\ row.cum \in Nat /\ 1 <= row.cum /\ row.cum <= o.qty
  BY FillCounts
<1>3. /\ f.order = <<n, IF o.structure = "mleg" THEN "leg" ELSE "parent">>
      /\ f.asset = AssetOf(o.structure) /\ f.side = o.side /\ f.qty = 1 /\ f.cum = row.cum
      /\ f.leaves = o.qty - row.cum /\ f.type = IF row.cum = o.qty THEN "fill" ELSE "partial_fill"
  BY <1>1, Zenon DEF FillAs
<1>4. o.qty \in Nat
  BY <1>2 DEF OrderRow
<1>5. \A x \in linked : x.id = f.order /\ \E i \in 1 .. Len(b.orders) : Listed(x, i, b.orders[i])
  OBVIOUS
<1> HIDE DEF row
<1>6. ASSUME NEW x \in linked
      PROVE  x.asset = f.asset /\ x.side = f.side /\ f.cum + f.leaves = x.qty
  <2>1. PICK i \in 1 .. Len(b.orders) : Listed(x, i, b.orders[i])
    BY <1>5, <1>6
  <2>2. x.id \in {<<i, "parent">>, <<i, "leg">>}
    BY <2>1 DEF Listed
  <2>3. x.id = <<n, IF o.structure = "mleg" THEN "leg" ELSE "parent">>
    BY <1>3, <1>5, <1>6
  <2>4. i = n
    BY <2>2, <2>3
  <2>5. Listed(x, n, o)
    BY <2>1, <2>4
  <2> HIDE DEF o, n
  <2>6. x.asset = AssetOf(o.structure) /\ x.side = o.side
    BY <2>3, <2>5 DEF Listed, AssetOf
  <2>7. x.qty = o.qty
    BY <2>5 DEF Listed
  <2> QED
    BY <1>2, <1>3, <1>4, <2>6, <2>7
<1> HIDE DEF o, n
<1>7. IF f.type = "fill" THEN f.leaves = 0 ELSE f.leaves > 0
  BY <1>2, <1>3, <1>4
<1>8. FillIsSound(f)
  BY <1>2, <1>3, <1>4 DEF FillIsSound
<1> QED
  BY <1>6, <1>7, <1>8 DEF FillIsConsistent

\* The items of one collection have keys of their own.
OwnKeys(r, items) == \A i, j \in 1 .. Len(items) : SameKey(r, items[i], items[j]) => i = j

\* What a capture has collected from an honest provider of the account b.
HonestRaw(raw, b) ==
  /\ raw.account.currency = "USD"
  /\ IsSeq(raw.positions) /\ IsSeq(raw.orders) /\ IsSeq(raw.fills)
  /\ \A e \in ToSet(raw.positions) : HonestPosition(e)
  /\ \A e \in ToSet(raw.orders) : HonestOrder(e, b) /\ OrderItem(e)
  /\ \A e \in ToSet(raw.fills) : HonestFill(e, b)
  /\ OwnKeys("positions", raw.positions) /\ OwnKeys("orders", raw.orders) /\ OwnKeys("fills", raw.fills)
  /\ raw.requests # {} /\ raw.start \in Int /\ raw.windowStart <= raw.start

\* Its orders are flattened to orders and legs with different identities.
LEMMA HonestOrders ==
  ASSUME NEW b, NEW raw, HonestRaw(raw, b),
         NEW orders, orders = FlattenOrders(raw.orders)
  PROVE  /\ IsSeq(orders) /\ UniqueBy(orders, "id")
         /\ \A x \in ToSet(orders) : \E i \in 1 .. Len(b.orders) : Listed(x, i, b.orders[i])
<1> DEFINE raws == raw.orders
<1>1. /\ IsSeq(raws) /\ \A e \in ToSet(raws) : HonestOrder(e, b) /\ OrderItem(e) /\ Len(e.legs) <= 1
      /\ \A i, j \in 1 .. Len(raws) : raws[i].id[1] = raws[j].id[1] => i = j
  BY HonestLegs DEF HonestRaw, OwnKeys, SameKey
<1>2. orders = FlattenOrders(raws)
  OBVIOUS
<1> HIDE DEF raws
<1>3. /\ IsSeq(orders) /\ IsInjective(orders)
      /\ \A x : x \in ToSet(orders) <=> \E e \in ToSet(raws) : x \in PartSet(e)
  BY <1>1, <1>2, FlattenAll
<1>4. \A e \in ToSet(raws) :
        /\ \A x \in PartSet(e) : \E i \in 1 .. Len(b.orders) : Listed(x, i, b.orders[i])
        /\ \A x, y \in PartSet(e) : x.id = y.id => x = y
        /\ \A x \in PartSet(e) : x.id[1] = e.id[1]
  <2>1. TAKE e \in ToSet(raws)
  <2>2. HonestOrder(e, b) /\ OrderItem(e)
    BY <1>1
  <2>3. ToSet(PartsOf(e)) = PartSet(e) /\ \A x \in ToSet(PartsOf(e)) : x.id[1] = e.id[1]
    BY <2>2, PartsAll, PartsRules
  <2> QED
    BY <2>2, <2>3, PartsListed
<1>5. ASSUME NEW x \in ToSet(orders), NEW y \in ToSet(orders), x.id = y.id
      PROVE  x = y
  <2>1. PICK e \in ToSet(raws) : x \in PartSet(e)
    BY <1>3
  <2>2. PICK f \in ToSet(raws) : y \in PartSet(f)
    BY <1>3
  <2>3. e.id[1] = f.id[1]
    BY <1>4, <1>5, <2>1, <2>2
  <2>4. PICK i \in 1 .. Len(raws) : e = raws[i]
    BY <1>1, SeqDomain
  <2>5. PICK j \in 1 .. Len(raws) : f = raws[j]
    BY <1>1, SeqDomain
  <2>6. e = f
    BY <1>1, <2>3, <2>4, <2>5
  <2> QED
    BY <1>4, <1>5, <2>1, <2>2, <2>6
<1>6. UniqueBy(orders, "id")
  <2>1. SUFFICES ASSUME NEW i \in DOMAIN orders, NEW j \in DOMAIN orders, orders[i].id = orders[j].id
                 PROVE  i = j
    BY DEF UniqueBy
  <2>2. orders[i] \in ToSet(orders) /\ orders[j] \in ToSet(orders)
    BY DEF ToSet
  <2>3. orders[i] = orders[j]
    BY <1>5, <2>1, <2>2
  <2> QED
    BY <1>3, <2>3 DEF IsInjective
<1>7. \A x \in ToSet(orders) : \E i \in 1 .. Len(b.orders) : Listed(x, i, b.orders[i])
  BY <1>3, <1>4
<1> QED
  BY <1>3, <1>6, <1>7

\* It is consistent, and normalized to a sound snapshot.
LEMMA HonestRawIsAccepted ==
  ASSUME NEW b, IsAccount(b), NEW raw, HonestRaw(raw, b)
  PROVE  Consistent(raw) /\ SnapshotIsSound(Normalized(raw))
<1> DEFINE positions == NormalizePositions(raw)
           orders == FlattenOrders(raw.orders)
           linked(f) == Linked(f, orders)
           snapshot == Normalized(raw)
<1>1. /\ raw.account.currency = "USD"
      /\ IsSeq(raw.positions) /\ IsSeq(raw.fills)
      /\ \A e \in ToSet(raw.positions) : HonestPosition(e)
      /\ \A e \in ToSet(raw.fills) : HonestFill(e, b)
      /\ raw.requests # {} /\ raw.start \in Int /\ raw.windowStart <= raw.start
  BY DEF HonestRaw
<1>2. \A p \in positions : PositionKnown(p) /\ PositionIsSound(p) /\ p.currency = "USD"
  <2>1. positions = {NormalizePosition(x, "USD") : x \in ToSet(raw.positions)}
    BY <1>1 DEF NormalizePositions
  <2> HIDE DEF positions
  <2> QED
    BY <1>1, <2>1, PositionsKnown DEF PositionKnown
<1>3. /\ UniqueBy(orders, "id")
      /\ \A x \in ToSet(orders) : \E i \in 1 .. Len(b.orders) : Listed(x, i, b.orders[i])
  BY HonestOrders
<1> HIDE DEF positions, orders
<1>4. \A x \in ToSet(orders) : /\ OrderIsConsistent(x, positions)
                               /\ OrderIsSound(NormalizeOrder(x, positions, "USD"))
  <2>1. TAKE x \in ToSet(orders)
  <2>2. PICK i \in 1 .. Len(b.orders) : Listed(x, i, b.orders[i])
    BY <1>3
  <2>3. b.orders[i] \in OrderRow
    BY AccountFacts
  <2> QED
    BY <1>2, <2>2, <2>3, ListedIsAccepted
<1>5. \A f \in ToSet(raw.fills) : FillIsConsistent(f, linked(f)) /\ FillIsSound(f)
  <2>1. TAKE f \in ToSet(raw.fills)
  <2>2. \A x \in linked(f) : x.id = f.order /\ \E i \in 1 .. Len(b.orders) : Listed(x, i, b.orders[i])
    BY <1>3 DEF Linked
  <2>3. HonestFill(f, b)
    BY <1>1
  <2> HIDE DEF linked
  <2> QED
    BY <2>2, <2>3, FillIsAccepted
<1>6. UniqueBy(raw.positions, "asset")
  <2>1. DOMAIN raw.positions = 1 .. Len(raw.positions)
    BY <1>1, SeqDomain
  <2> QED
    BY <2>1 DEF UniqueBy, HonestRaw, OwnKeys, SameKey
<1>7. UniqueBy(raw.fills, "id")
  <2>1. DOMAIN raw.fills = 1 .. Len(raw.fills)
    BY <1>1, SeqDomain
  <2>2. \A i, j \in 1 .. Len(raw.fills) : raw.fills[i].id[1] = raw.fills[j].id[1] => i = j
    BY DEF HonestRaw, OwnKeys, SameKey
  <2> QED
    BY <2>1, <2>2 DEF UniqueBy
<1>8. Consistent(raw)
  BY <1>3, <1>4, <1>5, <1>6, <1>7 DEF Consistent, CaptureIsConsistent, positions, orders
<1>9. /\ snapshot.account = raw.account /\ snapshot.positions = positions
      /\ snapshot.orders = {NormalizeOrder(o, positions, "USD") : o \in ToSet(orders)}
      /\ snapshot.start = raw.start /\ snapshot.requests = raw.requests
      /\ snapshot.windowStart = raw.windowStart /\ snapshot.cutover = raw.start
  <2>1. snapshot = NormalizeCapture(raw, positions, orders)
    BY DEF Normalized, positions, orders
  <2> HIDE DEF snapshot
  <2> QED
    BY <1>1, <2>1 DEF NormalizeCapture
<1> HIDE DEF snapshot
<1>10. \A o \in snapshot.orders : OrderIsSound(o)
  BY <1>4, <1>9
<1>11. SnapshotIsSound(snapshot)
  BY <1>1, <1>2, <1>9, <1>10 DEF SnapshotIsSound
<1> QED
  BY <1>8, <1>11 DEF snapshot

-----------------------------------------------------------------------------
(* The evidence of a capture.                                               *)

\* The pages of a read of which there is a receipt: the last one is written
\* while the read is recording.
Recorded(read) == Len(read.pages) - (IF read.st = "recording" THEN 1 ELSE 0)

\* The ordinals of the receipts of a resource in the attempt in progress.
Ordinals(r) == {x.ordinal : x \in {y \in receipts : y.attempt = run.attempt /\ y.resource = r}}

\* There are receipts of just these pages, unless the read failed.
ReceiptsRight ==
  run.pc \in {"account", "collect"} =>
    \A r \in Resources : task[run.attempt][r].st # "failed" =>
      Ordinals(r) = 0 .. (Recorded(task[run.attempt][r]) - 1)

\* The account and the positions are one page.
OnePage == \A a \in Attempts : \A r \in {"account", "positions"} : Len(task[a][r].pages) <= 1

\* What is about to be stored has its evidence.
StoredRight == run.pc = "store" => EvidenceIsComplete(captured)

EvidenceRight == ReceiptsRight /\ OnePage /\ StoredRight

\* The requests of a capture are its pages.
LEMMA CapturedRequests ==
  ASSUME CInv, run.pc = "collect", \A r \in Resources : task[run.attempt][r].st = "done"
  PROVE  /\ \A r \in Resources : Len(task[run.attempt][r].pages) \in 1 .. MaxPages
         /\ \A e : e \in Capture.requests <=>
              \E r \in Resources : \E o \in 0 .. (Len(task[run.attempt][r].pages) - 1) :
                e = [resource |-> r, ordinal |-> o]
<1> DEFINE reads == task[run.attempt]
           n(r) == Len(reads[r].pages)
           asked == {y \in Resources \X (1 .. MaxPages) : y[2] \in DOMAIN reads[y[1]].pages}
           R(x) == [resource |-> x[1], ordinal |-> x[2] - 1]
<1>1. \A r \in Resources : n(r) \in 1 .. MaxPages /\ DOMAIN reads[r].pages = 1 .. n(r)
  <2>1. run.attempt \in Attempts
    BY DEF CInv, AttemptRight, PhaseRight
  <2>2. \A r \in Resources : ReadRight(reads[r]) /\ reads[r].st = "done"
    BY <2>1 DEF CInv, AttemptRight, ReadsRight
  <2> HIDE DEF reads
  <2> QED
    BY <2>2, SeqDomain DEF ReadRight
<1>2. Capture.requests = {R(x) : x \in asked}
  BY DEF Capture, CurrentTask
<1> HIDE DEF reads
<1>3. MaxPages \in Nat
  BY BoundFacts
<1>4. \A y : y \in asked <=> \E r \in Resources : \E k \in 1 .. n(r) : y = <<r, k>>
  BY <1>1, <1>3
<1>5. \A r, k : R(<<r, k>>) = [resource |-> r, ordinal |-> k - 1]
  OBVIOUS
<1> HIDE DEF asked, R, n
<1>6. ASSUME NEW r \in Resources
      PROVE  /\ \A k \in 1 .. n(r) : k - 1 \in 0 .. (n(r) - 1)
             /\ \A o \in 0 .. (n(r) - 1) : o + 1 \in 1 .. n(r) /\ (o + 1) - 1 = o
  BY <1>1, <1>3
<1>7. ASSUME NEW e, e \in Capture.requests
      PROVE  \E r \in Resources : \E o \in 0 .. (n(r) - 1) : e = [resource |-> r, ordinal |-> o]
  <2>1. PICK x \in asked : e = R(x)
    BY <1>2, <1>7
  <2>2. PICK r \in Resources : \E k \in 1 .. n(r) : x = <<r, k>>
    BY <1>4, <2>1
  <2>3. PICK k \in 1 .. n(r) : x = <<r, k>>
    BY <2>2
  <2>4. e = [resource |-> r, ordinal |-> k - 1]
    BY <1>5, <2>1, <2>3
  <2>5. k - 1 \in 0 .. (n(r) - 1)
    BY <1>6, <2>3
  <2> QED
    BY <2>4, <2>5
<1>8. ASSUME NEW r \in Resources, NEW o \in 0 .. (n(r) - 1)
      PROVE  [resource |-> r, ordinal |-> o] \in Capture.requests
  <2>1. <<r, o + 1>> \in asked /\ R(<<r, o + 1>>) = [resource |-> r, ordinal |-> o]
    BY <1>4, <1>5, <1>6
  <2> QED
    BY <1>2, <2>1
<1> QED
  BY <1>1, <1>7, <1>8 DEF n, reads

\* The ordinals of pages are as many as the pages.
LEMMA CountOrdinals ==
  ASSUME NEW n \in Nat, n >= 1
  PROVE  Cardinality(0 .. (n - 1)) = n
BY FS_Interval

\* The receipts of a capture prove its requests (validateCompleteRequestEvidence).
LEMMA CaptureIsProved ==
  ASSUME CInv, ReceiptsRight, OnePage, run.pc = "collect",
         \A r \in Resources : task[run.attempt][r].st = "done",
         NEW snapshot, snapshot.requests = Capture.requests
  PROVE  EvidenceIsComplete(snapshot)
<1> DEFINE n(r) == Len(task[run.attempt][r].pages)
           final == {x \in receipts : x.attempt = run.attempt}
           ordinals(r) == {x.ordinal : x \in {y \in final : y.resource = r}}
           proved == {[resource |-> x.resource, ordinal |-> x.ordinal] : x \in final}
<1>1. /\ \A r \in Resources : n(r) \in 1 .. MaxPages
      /\ \A e : e \in Capture.requests <=>
           \E r \in Resources : \E o \in 0 .. (n(r) - 1) : e = [resource |-> r, ordinal |-> o]
  BY CapturedRequests
<1>2. \A r \in Resources : ordinals(r) = 0 .. (n(r) - 1)
  <2>1. TAKE r \in Resources
  <2>2. ordinals(r) = Ordinals(r)
    BY DEF Ordinals
  <2>3. Ordinals(r) = 0 .. (Recorded(task[run.attempt][r]) - 1)
    BY DEF ReceiptsRight
  <2>4. Recorded(task[run.attempt][r]) = n(r)
    <3>1. n(r) \in Nat /\ task[run.attempt][r].st = "done"
      BY <1>1, BoundFacts
    <3>2. n(r) - 0 = n(r) /\ "done" # "recording"
      BY <3>1
    <3> QED
      BY <3>1, <3>2 DEF Recorded
  <2> QED
    BY <2>2, <2>3, <2>4
<1>3. n("account") = 1 /\ n("positions") = 1
  <2>1. run.attempt \in Attempts /\ "account" \in Resources /\ "positions" \in Resources
    BY DEF CInv, AttemptRight, PhaseRight, Resources, Collections
  <2>2. n("account") <= 1 /\ n("positions") <= 1
    BY <2>1 DEF OnePage
  <2> HIDE DEF n
  <2> QED
    BY <1>1, <2>1, <2>2, BoundFacts
<1>4. \A x \in final : x.resource \in Resources
  BY DEF CInv
<1>5. \A r, o : o \in ordinals(r) <=> \E x \in final : x.resource = r /\ x.ordinal = o
  OBVIOUS
<1> HIDE DEF n, final, ordinals
<1>6. ordinals("account") = {0} /\ ordinals("positions") = {0}
  <2>1. 0 .. (1 - 1) = {0} /\ "account" \in Resources /\ "positions" \in Resources
    BY DEF Resources, Collections
  <2> QED
    BY <1>2, <1>3, <2>1
<1>7. ASSUME NEW r \in {"orders", "fills"}
      PROVE  ordinals(r) = 0 .. (Cardinality(ordinals(r)) - 1) /\ ordinals(r) # {}
  <2>1. r \in Resources
    BY DEF Resources, Collections
  <2>2. n(r) \in Nat /\ n(r) >= 1
    BY <1>1, <2>1, BoundFacts
  <2>3. Cardinality(0 .. (n(r) - 1)) = n(r)
    BY <2>2, CountOrdinals
  <2>4. 0 \in 0 .. (n(r) - 1)
    BY <2>2
  <2> QED
    BY <1>2, <2>1, <2>3, <2>4
<1>8. proved = snapshot.requests
  <2>1. ASSUME NEW e \in proved PROVE e \in snapshot.requests
    <3>1. PICK x \in final : e = [resource |-> x.resource, ordinal |-> x.ordinal]
      OBVIOUS
    <3>2. x.resource \in Resources /\ x.ordinal \in ordinals(x.resource)
      BY <1>4, <1>5
    <3>3. x.ordinal \in 0 .. (n(x.resource) - 1)
      BY <1>2, <3>2
    <3>4. \E r \in Resources : \E o \in 0 .. (n(r) - 1) : e = [resource |-> r, ordinal |-> o]
      BY <3>1, <3>2, <3>3
    <3> QED
      BY <1>1, <3>4
  <2>2. ASSUME NEW e \in snapshot.requests PROVE e \in proved
    <3>1. PICK r \in Resources : \E o \in 0 .. (n(r) - 1) : e = [resource |-> r, ordinal |-> o]
      BY <1>1
    <3>2. PICK o \in 0 .. (n(r) - 1) : e = [resource |-> r, ordinal |-> o]
      BY <3>1
    <3>3. o \in ordinals(r)
      BY <1>2, <3>2
    <3>4. PICK x \in final : x.resource = r /\ x.ordinal = o
      BY <1>5, <3>3
    <3> QED
      BY <3>2, <3>4
  <2> QED
    BY <2>1, <2>2
<1> HIDE DEF proved
<1>9. /\ ordinals("account") = {0} /\ ordinals("positions") = {0}
      /\ \A r \in {"orders", "fills"} :
           ordinals(r) = 0 .. (Cardinality(ordinals(r)) - 1) /\ ordinals(r) # {}
      /\ proved = snapshot.requests
  BY <1>6, <1>7, <1>8
<1> QED
  BY <1>9 DEF EvidenceIsComplete, final, ordinals, proved

\* The rows say what was observed, so there is no drift (reconciliation).
LEMMA NoDrift ==
  ASSUME NEW snapshot, NEW result, NEW prepared,
         prepared = PreparePortfolioProjection(snapshot, result)
           \/ \E rows : snapshot.fills \subseteq rows
                        /\ prepared = [PreparePortfolioProjection(snapshot, result) EXCEPT
                                         !.fills = snapshot.fills \cap rows]
  PROVE  Drift(snapshot, prepared, result) = {}
<1>1. ASSUME NEW S PROVE {m.observation : m \in Membership(S)} = S
  <2>1. \A o : [observation |-> o, support |-> o.support].observation = o
    OBVIOUS
  <2>2. \A o \in S : [observation |-> o, support |-> o.support] \in Membership(S)
    BY DEF Membership
  <2>3. \A m \in Membership(S) : m.observation \in S
    BY DEF Membership
  <2>4. \A o \in S : \E m \in Membership(S) : m.observation = o
    BY <2>1, <2>2
  <2> QED
    BY ONLY <2>3, <2>4
<1>2. \A S : \A m \in Membership(S) : m.support = m.observation.support
  BY DEF Membership
<1>3. /\ prepared.snapshot = snapshot /\ prepared.account = snapshot.account
      /\ prepared.positions = Membership(snapshot.positions)
      /\ prepared.orders = Membership(snapshot.orders)
      /\ prepared.fills = snapshot.fills /\ prepared.result = result
  <2> DEFINE p == PreparePortfolioProjection(snapshot, result)
  <2>1. /\ p.snapshot = snapshot /\ p.account = snapshot.account
        /\ p.positions = Membership(snapshot.positions) /\ p.orders = Membership(snapshot.orders)
        /\ p.fills = snapshot.fills /\ p.result = result
        /\ p = [snapshot |-> p.snapshot, account |-> p.account, result |-> p.result,
                positions |-> p.positions, orders |-> p.orders, fills |-> p.fills]
    BY DEF PreparePortfolioProjection
  <2> HIDE DEF p
  <2>2. CASE prepared = p
    BY <2>1, <2>2
  <2>3. ASSUME NEW rows, snapshot.fills \subseteq rows,
               prepared = [p EXCEPT !.fills = snapshot.fills \cap rows]
        PROVE  /\ prepared.snapshot = p.snapshot /\ prepared.account = p.account
               /\ prepared.positions = p.positions /\ prepared.orders = p.orders
               /\ prepared.fills = snapshot.fills /\ prepared.result = p.result
    <3>1. snapshot.fills \cap rows = snapshot.fills
      BY <2>3
    <3> QED
      BY <2>1, <2>3, <3>1
  <2>4. prepared = p \/ \E rows : snapshot.fills \subseteq rows
                                  /\ prepared = [p EXCEPT !.fills = snapshot.fills \cap rows]
    BY DEF p
  <2> QED
    BY <2>1, <2>2, <2>3, <2>4
<1>4. /\ {m.observation : m \in prepared.positions} = snapshot.positions
      /\ {m.observation : m \in prepared.orders} = snapshot.orders
      /\ \A m \in prepared.positions \cup prepared.orders : m.support = m.observation.support
  BY <1>1, <1>2, <1>3
<1> QED
  BY <1>3, <1>4, Zenon DEF Drift

-----------------------------------------------------------------------------
(* An honest capture is accepted and stored.                                *)

\* What an honest provider must never be told.
Mistaken == {"malformed_response", "projection_failed"}

\* A capture begins no earlier than the capture of the last snapshot.
CutoverRight ==
  run.pc \in {"account", "collect"} /\ snaps # <<>> => Last(snaps).observed.cutover <= run.start

\* The cycle has not been ended by a mistake, will not be, and its reads are
\* honest.
HonestRight ==
  /\ run.outcome \notin Mistaken
  /\ run.pc = "collect" => run.reason \notin Mistaken
  /\ \A a \in Attempts : \A r \in Resources :
       task[a][r].err \notin Mistaken /\ HonestPages(r, task[a][r].pages, broker)

\* Evidence is complete whatever happens; honesty needs an honest world.
JudgedRight == EvidenceRight /\ CutoverRight /\ (faults = 0 => HonestRight)

\* What settled reads have collected from an honest provider (Capture).
LEMMA HonestCapture ==
  ASSUME WInv, CutoverRight, run.pc = "collect",
         \A r \in Resources : /\ task[run.attempt][r].st = "done"
                              /\ HonestPages(r, task[run.attempt][r].pages, broker)
  PROVE  HonestRaw(Capture, broker)
<1> DEFINE reads == task[run.attempt]
           raw == Capture
<1>1. CInv /\ PagesWhole /\ SnapsWhole /\ run.attempt \in Attempts
  BY DEF WInv, CInv, AttemptRight, PhaseRight
<1>2. /\ "account" \in Resources /\ "positions" \in Resources
      /\ "orders" \in Resources /\ "fills" \in Resources
      /\ "positions" \in Collections /\ "orders" \in Collections /\ "fills" \in Collections
  BY DEF Resources, Collections
<1>3. ASSUME NEW r \in Resources
      PROVE  /\ IsSeq(reads[r].pages) /\ reads[r].pages # <<>> /\ HonestPages(r, reads[r].pages, broker)
             /\ r \in {"orders", "fills"} =>
                  \A p \in 1 .. Len(reads[r].pages) : PageRight(r, reads[r].pages[p])
  <2>1. ReadRight(reads[r]) /\ ReadWhole(r, reads[r], Seen) /\ reads[r].st = "done"
    BY <1>1 DEF CInv, AttemptRight, ReadsRight, PagesWhole
  <2>2. HonestPages(r, reads[r].pages, broker)
    OBVIOUS
  <2> HIDE DEF reads
  <2>3. IsSeq(reads[r].pages) /\ Len(reads[r].pages) \in 1 .. MaxPages
    BY <2>1 DEF ReadRight
  <2>4. reads[r].pages # <<>>
    BY <2>3, EmptyIsSeq
  <2> QED
    BY <2>1, <2>2, <2>3, <2>4 DEF ReadWhole, PagesRight
<1>4. /\ raw.account = PageItems(reads["account"].pages)[1]
      /\ raw.positions = PageItems(reads["positions"].pages)
      /\ raw.orders = PageItems(reads["orders"].pages) /\ raw.fills = PageItems(reads["fills"].pages)
      /\ raw.start = run.start /\ raw.windowStart = WindowStart
  BY DEF Capture, Items, CurrentTask, PageItems
<1>5. raw.requests # {}
  <2>1. Len(task[run.attempt]["account"].pages) \in 1 .. MaxPages
        /\ \A e : e \in Capture.requests <=>
             \E r \in Resources : \E o \in 0 .. (Len(task[run.attempt][r].pages) - 1) :
               e = [resource |-> r, ordinal |-> o]
    BY <1>1, <1>2, CapturedRequests
  <2>2. 0 \in 0 .. (Len(task[run.attempt]["account"].pages) - 1)
    BY <2>1, BoundFacts
  <2>3. [resource |-> "account", ordinal |-> 0] \in Capture.requests
    BY <1>2, <2>1, <2>2
  <2> QED
    BY <2>3
<1>6. run.start \in Int /\ WindowStart <= run.start
  <2>1. run.start \in Nat /\ Overlap \in Nat
    BY <1>1, BoundFacts DEF CInv, RunState
  <2>2. CASE snaps = <<>>
    BY <2>1, <2>2 DEF WindowStart
  <2>3. CASE snaps # <<>>
    <3> DEFINE cut == Last(snaps).observed.cutover
    <3>1. cut \in Nat /\ cut <= run.start
      <4>1. IsSeq(snaps) /\ Len(snaps) \in 1 .. Len(snaps) /\ Last(snaps) = snaps[Len(snaps)]
        BY <1>1, <2>3, SeqDomain DEF CInv, SnapsRight, Last
      <4>2. cut \in Nat
        BY <1>1, <4>1 DEF SnapsWhole, SnapWhole
      <4> QED
        BY <2>3, <4>2 DEF CutoverRight
    <3>2. WindowStart = cut - Overlap
      BY <2>3 DEF WindowStart
    <3> HIDE DEF cut
    <3> QED
      BY <2>1, <3>1, <3>2
  <2> QED
    BY <2>2, <2>3
<1> HIDE DEF reads, raw
<1>7. raw.account.currency = "USD"
  <2> DEFINE items == PageItems(reads["account"].pages)
  <2>1. items = PageItems(reads["account"].pages)
    OBVIOUS
  <2> HIDE DEF items
  <2>2. items[1] \in ToSet(items) /\ \A e \in ToSet(items) : HonestItem("account", e, broker)
    BY <1>2, <1>3, <2>1, HonestItems
  <2> QED
    BY <1>4, <2>1, <2>2 DEF HonestItem
<1>8. /\ IsSeq(raw.positions) /\ OwnKeys("positions", raw.positions)
      /\ \A e \in ToSet(raw.positions) : HonestPosition(e)
  <2>1. /\ IsSeq(raw.positions) /\ \A e \in ToSet(raw.positions) : HonestItem("positions", e, broker)
        /\ \A i, j \in 1 .. Len(raw.positions) :
             SameKey("positions", raw.positions[i], raw.positions[j]) => i = j
    BY <1>2, <1>3, <1>4, HonestItems
  <2> QED
    BY <2>1 DEF HonestItem, OwnKeys
<1>9. /\ IsSeq(raw.orders) /\ OwnKeys("orders", raw.orders)
      /\ \A e \in ToSet(raw.orders) : HonestOrder(e, broker) /\ OrderItem(e)
  <2>1. /\ IsSeq(raw.orders) /\ \A e \in ToSet(raw.orders) : HonestItem("orders", e, broker)
        /\ \A e \in ToSet(raw.orders) : OrderItem(e)
        /\ \A i, j \in 1 .. Len(raw.orders) :
             SameKey("orders", raw.orders[i], raw.orders[j]) => i = j
    BY <1>2, <1>3, <1>4, HonestItems, SMTT(30)
  <2> QED
    BY <2>1 DEF HonestItem, OwnKeys
<1>10. /\ IsSeq(raw.fills) /\ OwnKeys("fills", raw.fills)
       /\ \A e \in ToSet(raw.fills) : HonestFill(e, broker)
  <2>1. /\ IsSeq(raw.fills) /\ \A e \in ToSet(raw.fills) : HonestItem("fills", e, broker)
        /\ \A i, j \in 1 .. Len(raw.fills) :
             SameKey("fills", raw.fills[i], raw.fills[j]) => i = j
    BY <1>2, <1>3, <1>4, HonestItems
  <2> QED
    BY <2>1 DEF HonestItem, OwnKeys
<1>11. HonestRaw(raw, broker)
  BY <1>4, <1>5, <1>6, <1>7, <1>8, <1>9, <1>10 DEF HonestRaw
<1> QED
  BY <1>11 DEF raw

\* It holds initially.
LEMMA JudgedInit == CaptureInit => JudgedRight
<1> SUFFICES ASSUME CaptureInit PROVE JudgedRight
  OBVIOUS
<1>1. run.pc = "idle" /\ run.outcome = "none" /\ run.reason = "none" /\ CInv
  BY CaptureInvInit DEF CaptureInit
<1>2. \A a \in Attempts, r \in Resources : task[a][r] = Idle
  BY DEF CaptureInit, NoTasks, Attempts
<1>3. "account" \in Resources /\ "positions" \in Resources
  BY DEF Resources, Collections
<1>4. EvidenceRight
  BY <1>1, <1>2, <1>3, FailedIsEmpty, EmptyIsSeq DEF EvidenceRight, ReceiptsRight, OnePage, StoredRight
<1>5. HonestRight
  BY <1>1, <1>2, NothingIsHonest, FailedIsEmpty DEF HonestRight, Mistaken, Idle
<1> QED
  BY <1>1, <1>4, <1>5 DEF JudgedRight, CutoverRight

\* Pages are kept or dropped.
LEMMA OnePageKept ==
  ASSUME OnePage, \A b \in Attempts, q \in Resources : task'[b][q].pages \in {<<>>, task[b][q].pages}
  PROVE  OnePage'
<1>1. "account" \in Resources /\ "positions" \in Resources
  BY DEF Resources, Collections
<1> QED
  BY <1>1, EmptyIsSeq DEF OnePage

\* Reads are kept, dropped, canceled or new.
LEMMA HonestKept ==
  ASSUME HonestRight, UNCHANGED broker, run'.outcome \notin Mistaken,
         run'.pc = "collect" => run'.reason \notin Mistaken,
         \A b \in Attempts, q \in Resources :
           task'[b][q] \in {Idle, NewRead, Failed("cancelled"), task[b][q]}
  PROVE  HonestRight'
<1>1. \A x \in {Idle, NewRead, Failed("cancelled")} : x.err \notin Mistaken /\ x.pages = <<>>
  BY DEF Idle, NewRead, Failed, Mistaken
<1>2. \A b \in Attempts : \A q \in Resources :
        task'[b][q].err \notin Mistaken /\ HonestPages(q, task'[b][q].pages, broker)
  BY <1>1, NothingIsHonest DEF HonestRight
<1> QED
  BY <1>2 DEF HonestRight

\* The account grows, or nothing happens.
LEMMA JudgedGrowth ==
  ASSUME CInv, JudgedRight, \/ PlaceOrder \/ ClockTick \/ \E i : FillOrder(i) \/ CancelOrder(i)
  PROVE  JudgedRight'
<1>1. Later(broker, broker')
  BY GrowthIsLater
<1>2. UNCHANGED <<run, task, captured, receipts, snaps, fillRows, faults>>
  BY GrowthCases DEF Growth, UnchangedWorker
<1>3. EvidenceRight'
  BY <1>2, ZenonT(60) DEF JudgedRight, EvidenceRight, ReceiptsRight, OnePage, StoredRight, Ordinals,
              EvidenceIsComplete
<1>4. HonestRight => HonestRight'
  BY <1>1, <1>2, HonestGrows DEF HonestRight
<1> QED
  BY <1>2, <1>3, <1>4 DEF JudgedRight, CutoverRight

\* An attempt is over, or a new one begins.
LEMMA JudgedOver ==
  ASSUME JudgedRight, run'.pc \in {"idle", "delay"}, UNCHANGED broker,
         faults' = 0 => faults = 0,
         faults' = 0 /\ HonestRight => run'.outcome \notin Mistaken,
         \A b \in Attempts, q \in Resources : task'[b][q] = Idle
  PROVE  JudgedRight'
<1>1. OnePage'
  BY FailedIsEmpty, OnePageKept DEF JudgedRight, EvidenceRight
<1>2. EvidenceRight' /\ CutoverRight'
  BY <1>1 DEF EvidenceRight, ReceiptsRight, StoredRight, CutoverRight
<1>3. faults' = 0 => HonestRight'
  BY HonestKept DEF JudgedRight
<1> QED
  BY <1>2, <1>3 DEF JudgedRight

\* Nothing has been read yet, and there is no receipt.
LEMMA NothingRecorded ==
  /\ Recorded(Idle) = 0 /\ Recorded(NewRead) = 0
  /\ Idle.st # "failed" /\ NewRead.st # "failed" /\ Failed("cancelled").st = "failed"
  /\ 0 .. (0 - 1) = {}
<1>1. 0 .. (0 - 1) = {}
  OBVIOUS
<1>2. Idle.st = "idle" /\ NewRead.st = "fetching" /\ Failed("cancelled").st = "failed"
  BY DEF Idle, NewRead, Failed
<1>3. Len(Idle.pages) = 0 /\ Len(NewRead.pages) = 0
  BY FailedIsEmpty, EmptyIsSeq
<1> QED
  BY <1>1, <1>2, <1>3 DEF Recorded

\* An attempt begins.
LEMMA JudgedBegin ==
  ASSUME WInv, JudgedRight, run'.pc = "account", run'.attempt \in Attempts, run'.start = now,
         run'.outcome \notin Mistaken, receipts' = {}, UNCHANGED <<broker, snaps, faults>>,
         \A b \in Attempts, q \in Resources : task'[b][q] \in {Idle, NewRead}
  PROVE  JudgedRight'
<1>1. OnePage'
  BY FailedIsEmpty, OnePageKept DEF JudgedRight, EvidenceRight
<1>2. ReceiptsRight'
  <2>1. \A r : Ordinals(r)' = {}
    BY DEF Ordinals
  <2>2. \A r \in Resources : Recorded(task'[run'.attempt][r]) = 0
    BY NothingRecorded
  <2>3. \A r \in Resources : Ordinals(r)' = 0 .. (Recorded(task'[run'.attempt][r]) - 1)
    BY <2>1, <2>2, NothingRecorded
  <2> QED
    BY <2>3 DEF ReceiptsRight
<1>3. CutoverRight'
  <2>1. ASSUME snaps # <<>> PROVE Last(snaps).observed.cutover <= now
    <3>1. IsSeq(snaps) /\ Len(snaps) \in 1 .. Len(snaps) /\ Last(snaps) = snaps[Len(snaps)]
      BY <2>1, SeqDomain DEF WInv, CInv, SnapsRight, Last
    <3> QED
      BY <3>1 DEF WInv, SnapsWhole
  <2> QED
    BY <2>1 DEF CutoverRight
<1>4. faults' = 0 => HonestRight'
  BY HonestKept DEF JudgedRight
<1> QED
  BY <1>1, <1>2, <1>3, <1>4 DEF JudgedRight, EvidenceRight, StoredRight

\* Receipts stay while reads are kept, canceled or begun.
LEMMA ReceiptsKept ==
  ASSUME ReceiptsRight, receipts' = receipts, run'.attempt = run.attempt,
         run.pc \in {"account", "collect"},
         \A q \in Resources : task'[run.attempt][q].st # "failed" =>
           /\ task[run.attempt][q].st # "failed"
           /\ Recorded(task'[run.attempt][q]) = Recorded(task[run.attempt][q])
  PROVE  ReceiptsRight'
<1>1. \A q : Ordinals(q)' = Ordinals(q)
  BY DEF Ordinals
<1>2. ASSUME NEW q \in Resources, task'[run.attempt][q].st # "failed"
      PROVE  Ordinals(q)' = 0 .. (Recorded(task'[run.attempt][q]) - 1)
  BY <1>1, <1>2 DEF ReceiptsRight
<1> QED
  BY <1>2 DEF ReceiptsRight

\* One read settles or goes on, and the receipts with it.
LEMMA ReadEvidence ==
  ASSUME WInv, EvidenceRight, SameAttempt, NEW a \in Attempts, NEW r \in Resources, a = run.attempt,
         run.pc \in {"account", "collect"}, task[a][r].st \in {"fetching", "recording"},
         NEW pages, NEW st, NEW err, ReadMove(a, r, pages, st, err), Arrived(a, r, pages, st)
  PROVE  ReceiptsRight' /\ OnePage'
<1> DEFINE old == task[a][r]
           n == Recorded(old)
           new == [attempt |-> a, resource |-> r, ordinal |-> Len(pages) - 1]
<1>1. /\ ReadRight(old) /\ VerdictKept(r, old) /\ old.st \in {"fetching", "recording"}
      /\ Settles(a, r, st, err, IF st = "failed" THEN <<>> ELSE pages)
      /\ st \in {"recording", "fetching", "done", "failed"}
  BY DEF WInv, CInv, AttemptRight, ReadsRight, PagesWhole, ReadWhole, ReadMove
<1>2. \/ /\ pages = old.pages
         /\ (old.st = "recording" /\ st # "recording") \/ st = "failed"
      \/ /\ old.st = "fetching"
         /\ \E page : pages = Append(old.pages, page)
  BY Zenon DEF Arrived
<1>3. IsSeq(old.pages) /\ Len(old.pages) \in Nat /\ (old.st = "recording" => 1 <= Len(old.pages))
  <2> HIDE DEF old
  <2>1. IsSeq(old.pages) /\ Len(old.pages) \in Nat
    BY <1>1, SeqDomain DEF ReadRight
  <2>2. old.st = "recording" => Len(old.pages) \in 1 .. MaxPages
    BY <1>1 DEF ReadRight
  <2> QED
    BY <2>1, <2>2, BoundFacts
<1>4. /\ run'.attempt = a /\ run'.pc = run.pc
      /\ Ordinals(r) = 0 .. (n - 1)
      /\ \A q \in Resources : task[a][q].st # "failed" => Ordinals(q) = 0 .. (Recorded(task[a][q]) - 1)
  BY <1>1 DEF EvidenceRight, ReceiptsRight, SameAttempt
<1> HIDE DEF old
<1>5. ASSUME st # "failed"
      PROVE  /\ n \in Nat /\ Len(pages) - 1 = n
             /\ Recorded([st |-> st, err |-> err, pages |-> pages]) = IF st = "recording" THEN n ELSE n + 1
  <2>1. Len(pages) \in Nat /\ Len(pages) - 1 = n /\ n \in Nat
    <3>1. CASE pages = old.pages /\ old.st = "recording"
      BY <1>3, <3>1 DEF Recorded
    <3>2. ASSUME old.st = "fetching", NEW page, pages = Append(old.pages, page)
          PROVE  Len(pages) \in Nat /\ Len(pages) - 1 = n /\ n \in Nat
      <4>1. Len(pages) = Len(old.pages) + 1
        BY <1>3, <3>2, AppendIsSeq
      <4>2. n = Len(old.pages)
        BY <1>3, <3>2 DEF Recorded
      <4> QED
        BY <1>3, <4>1, <4>2
    <3> QED
      BY <1>2, <1>5, <3>1, <3>2
  <2> HIDE DEF n
  <2> QED
    BY <1>1, <1>5, <2>1 DEF Recorded
<1>6. receipts' = receipts \/ receipts' = receipts \cup {new}
  BY DEF ReadMove
<1>7. /\ st = "recording" => receipts' = receipts
      /\ st \in {"fetching", "done"} => receipts' = receipts \cup {new}
  BY DEF ReadMove
<1>8. new.attempt = a /\ new.resource = r /\ new.ordinal = Len(pages) - 1
  OBVIOUS
<1> HIDE DEF new, n
<1>9. \A q \in Resources : q # r => Ordinals(q)' = Ordinals(q)
  BY <1>4, <1>6, <1>8 DEF Ordinals
<1>10. /\ st = "recording" => Ordinals(r)' = Ordinals(r)
       /\ st \in {"fetching", "done"} => Ordinals(r)' = Ordinals(r) \cup {Len(pages) - 1}
  <2>1. st = "recording" => Ordinals(r)' = Ordinals(r)
    BY <1>4, <1>7 DEF Ordinals
  <2>2. ASSUME st \in {"fetching", "done"} PROVE Ordinals(r)' = Ordinals(r) \cup {Len(pages) - 1}
    <3>1. receipts' = receipts \cup {new}
      BY <1>7, <2>2
    <3>2. \A o : o \in Ordinals(r)' <=> \E x \in receipts' : x.attempt = a /\ x.resource = r /\ o = x.ordinal
      BY <1>4 DEF Ordinals
    <3>3. \A o : o \in Ordinals(r) <=> \E x \in receipts : x.attempt = a /\ x.resource = r /\ o = x.ordinal
      BY DEF Ordinals
    <3>4. \A o : o \in Ordinals(r)' <=> o \in Ordinals(r) \/ o = Len(pages) - 1
      BY <1>8, <3>1, <3>2, <3>3
    <3> QED
      BY <3>4
  <2> QED
    BY <2>1, <2>2
<1>11. ASSUME NEW q \in Resources, task'[a][q].st # "failed"
       PROVE  Ordinals(q)' = 0 .. (Recorded(task'[a][q]) - 1)
  <2>1. CASE q # r
    <3>1. task'[a][q] = task[a][q]
      BY <1>1, <1>11, <2>1 DEF Settles, Failed
    <3> QED
      BY <1>4, <1>9, <1>11, <2>1, <3>1
  <2>2. CASE q = r
    <3>1. st # "failed" /\ task'[a][q] = [st |-> st, err |-> err, pages |-> pages]
      BY <1>1, <1>11, <2>2 DEF Settles, Failed
    <3>2. n \in Nat /\ Len(pages) - 1 = n /\ Recorded(task'[a][q]) = IF st = "recording" THEN n ELSE n + 1
      BY <1>5, <3>1
    <3>3. CASE st = "recording"
      BY <1>4, <1>10, <2>2, <3>2, <3>3
    <3>4. CASE st \in {"fetching", "done"}
      <4>1. Ordinals(r)' = (0 .. (n - 1)) \cup {n}
        BY <1>4, <1>10, <3>2, <3>4
      <4>2. (0 .. (n - 1)) \cup {n} = 0 .. ((n + 1) - 1)
        BY <3>2
      <4> QED
        BY <2>2, <3>2, <3>4, <4>1, <4>2
    <3> QED
      BY <1>1, <3>1, <3>3, <3>4
  <2> QED
    BY <2>1, <2>2
<1>12. ReceiptsRight'
  BY <1>4, <1>11 DEF ReceiptsRight
<1>13. r \in {"account", "positions"} => Len(pages) <= 1
  <2>1. SUFFICES ASSUME r \in {"account", "positions"} PROVE Len(pages) <= 1
    OBVIOUS
  <2>2. CASE pages = old.pages
    BY <2>1, <2>2 DEF old, EvidenceRight, OnePage
  <2>3. ASSUME old.st = "fetching", NEW page, pages = Append(old.pages, page) PROVE Len(pages) <= 1
    <3>1. PageVerdict(r, old.pages) # "next"
      BY <2>1 DEF PageVerdict
    <3>2. old.pages = <<>>
      BY <1>1, <2>3, <3>1 DEF VerdictKept
    <3>3. Len(pages) = 0 + 1
      BY <1>3, <2>3, <3>2, AppendIsSeq, EmptyIsSeq
    <3> QED
      BY <3>3
  <2> QED
    BY <1>2, <2>2, <2>3
<1>14. OnePage'
  <2>1. ASSUME NEW b \in Attempts, NEW q \in {"account", "positions"} PROVE Len(task'[b][q].pages) <= 1
    <3>1. q \in Resources /\ Len(<<>>) <= 1
      BY EmptyIsSeq DEF Resources, Collections
    <3>2. CASE b # a \/ q # r
      <4>1. task'[b][q].pages \in {<<>>, task[b][q].pages}
        BY <1>1, <3>1, <3>2, FailedIsEmpty DEF Settles
      <4> QED
        BY <3>1, <4>1 DEF EvidenceRight, OnePage
    <3>3. CASE b = a /\ q = r
      <4>1. task'[b][q].pages \in {<<>>, pages}
        BY <1>1, <3>3, FailedIsEmpty DEF Settles
      <4> QED
        BY <1>13, <3>1, <3>3, <4>1
    <3> QED
      BY <3>2, <3>3
  <2> QED
    BY <2>1 DEF OnePage
<1> QED
  BY <1>12, <1>14

\* A read of an honest provider settles or goes on.
LEMMA ReadHonest ==
  ASSUME WInv, HonestRight, SameAttempt, UNCHANGED broker, faults' = faults,
         NEW a \in Attempts, NEW r \in Resources, task[a][r].st \in {"fetching", "recording"},
         NEW pages, NEW st, NEW err, ReadMove(a, r, pages, st, err), Arrived(a, r, pages, st)
  PROVE  HonestRight'
<1> DEFINE old == task[a][r]
<1>1. /\ CInv /\ PagesWhole /\ ReadRight(old) /\ VerdictKept(r, old) /\ PagesRight(r, old.pages, Seen)
      /\ HonestPages(r, old.pages, broker)
      /\ Settles(a, r, st, err, IF st = "failed" THEN <<>> ELSE pages)
  BY DEF WInv, CInv, AttemptRight, ReadsRight, PagesWhole, ReadWhole, ReadMove, HonestRight
<1>2. /\ IsSeq(pages) /\ pages # <<>> /\ HonestPages(r, pages, broker)
      /\ r \in {"orders", "fills"} => \A p \in 1 .. Len(pages) : PageRight(r, pages[p])
  <2>1. CASE pages = old.pages /\ old.st = "recording"
    <3> HIDE DEF old
    <3>1. IsSeq(pages) /\ Len(pages) \in 1 .. MaxPages
      BY <1>1, <2>1 DEF ReadRight
    <3>2. pages # <<>>
      BY <3>1, EmptyIsSeq
    <3> QED
      BY <1>1, <2>1, <3>1, <3>2 DEF PagesRight
  <2>2. ASSUME old.st = "fetching", pages = Append(old.pages, AnsweredPage(r, old.pages, "none"))
        PROVE  /\ IsSeq(pages) /\ pages # <<>> /\ HonestPages(r, pages, broker)
               /\ r \in {"orders", "fills"} => \A p \in 1 .. Len(pages) : PageRight(r, pages[p])
    <3> DEFINE page == AnsweredPage(r, old.pages, "none")
    <3>1. PagesRight(r, Append(old.pages, page), Seen)
      BY <1>1, <2>2, AnsweredPages
    <3>2. pages = Append(old.pages, page) /\ page = AnsweredPage(r, old.pages, "none")
      BY <2>2
    <3> HIDE DEF old, page
    <3>3. r \in {"orders", "fills"} => \A p \in 1 .. Len(old.pages) : PageRight(r, old.pages[p])
      BY <1>1 DEF PagesRight
    <3>4. IsSeq(old.pages)
      BY <1>1 DEF ReadRight
    <3>5. IsSeq(pages) /\ Len(pages) = Len(old.pages) + 1 /\ Len(old.pages) \in Nat
      BY <3>2, <3>4, AppendIsSeq
    <3>6. pages # <<>>
      BY <3>5, EmptyIsSeq
    <3>7. HonestPages(r, pages, broker)
      BY <1>1, <2>2, <3>2, <3>3, <3>4, HonestAnswer
    <3> QED
      BY <3>1, <3>2, <3>5, <3>6, <3>7 DEF PagesRight
  <2>3. \/ pages = old.pages /\ old.st = "recording"
        \/ old.st = "fetching" /\ pages = Append(old.pages, AnsweredPage(r, old.pages, "none"))
    BY DEF Arrived
  <2> QED
    BY <2>1, <2>2, <2>3
<1>3. err \notin Mistaken
  <2>1. CASE st = "failed"
    <3>1. err = PageVerdict(r, pages)
      BY <2>1 DEF ReadMove
    <3>2. PageVerdict(r, pages) # "malformed_response"
      BY <1>2, HonestVerdict
    <3>3. PageVerdict(r, pages) # "projection_failed"
      BY VerdictRange
    <3> QED
      BY <3>1, <3>2, <3>3 DEF Mistaken
  <2>2. CASE st # "failed"
    BY <2>2 DEF ReadMove, Mistaken
  <2> QED
    BY <2>1, <2>2
<1>4. ASSUME NEW b \in Attempts, NEW q \in Resources
      PROVE  task'[b][q].err \notin Mistaken /\ HonestPages(q, task'[b][q].pages, broker)
  <2>1. Failed("cancelled").err \notin Mistaken /\ HonestPages(q, Failed("cancelled").pages, broker)
    BY NothingIsHonest DEF Failed, Mistaken
  <2>2. CASE b # a \/ q # r
    <3>1. task'[b][q] \in {task[b][q], Failed("cancelled")}
      BY <1>1, <2>2 DEF Settles
    <3> QED
      BY <2>1, <3>1 DEF HonestRight
  <2>3. CASE b = a /\ q = r
    <3> DEFINE kept == IF st = "failed" THEN <<>> ELSE pages
               read == [st |-> st, err |-> err, pages |-> kept]
    <3>1. task'[b][q] \in {read, Failed("cancelled")}
      BY <1>1, <2>3 DEF Settles
    <3>2. HonestPages(r, kept, broker)
      BY <1>2, NothingIsHonest
    <3>3. read.err = err /\ read.pages = kept
      OBVIOUS
    <3> HIDE DEF read, kept
    <3> QED
      BY <1>3, <2>1, <2>3, <3>1, <3>2, <3>3
  <2> QED
    BY <2>2, <2>3
<1>5. run'.outcome \notin Mistaken /\ (run'.pc = "collect" => run'.reason \notin Mistaken)
  <2>1. run'.pc = run.pc /\ run'.outcome = run.outcome /\ run'.reason \in {run.reason, err}
    BY <1>1 DEF SameAttempt, Settles
  <2> QED
    BY <1>3, <2>1 DEF HonestRight
<1> QED
  BY <1>4, <1>5 DEF HonestRight

\* The provider answers or fails, or a receipt is written.
LEMMA JudgedRead ==
  ASSUME WInv, JudgedRight, NEW a \in Attempts, NEW r \in Resources,
         \/ Answer(a, r) \/ RecordReceipt(a, r)
         \/ \E class \in FailureClasses : AnswerFails(a, r, class)
  PROVE  JudgedRight'
<1>1. /\ UNCHANGED <<broker, now, captured, snaps, fillRows>> /\ SameAttempt
      /\ a = run.attempt /\ task[a][r].st \in {"fetching", "recording"}
      /\ run.pc \in {"account", "collect"} /\ faults' \in Nat /\ faults <= faults'
      /\ \E pages, st, err : ReadMove(a, r, pages, st, err) /\ Arrived(a, r, pages, st)
  BY ReadMoves DEF WInv
<1>2. PICK pages, st, err : ReadMove(a, r, pages, st, err) /\ Arrived(a, r, pages, st)
  BY <1>1
<1>3. ReceiptsRight' /\ OnePage'
  BY <1>1, <1>2, ReadEvidence DEF JudgedRight
<1>4. run'.pc = run.pc /\ run'.start = run.start
  BY <1>1 DEF SameAttempt
<1>5. EvidenceRight' /\ CutoverRight'
  BY <1>1, <1>3, <1>4 DEF EvidenceRight, StoredRight, CutoverRight, JudgedRight
<1>6. ASSUME faults' = 0 PROVE HonestRight'
  <2>1. faults = 0 /\ faults' = faults
    BY <1>1, <1>6, BoundFacts DEF WInv, CInv
  <2> QED
    BY <1>1, <1>2, <2>1, ReadHonest DEF JudgedRight
<1> QED
  BY <1>5, <1>6 DEF JudgedRight

\* The account has been read and the collections are read next.
LEMMA JudgedAccountRead ==
  ASSUME WInv, JudgedRight, AccountRead
  PROVE  JudgedRight'
<1>1. /\ run'.pc = "collect" /\ run'.attempt = run.attempt
      /\ run'.start = run.start /\ run'.outcome = run.outcome
      /\ task'[run.attempt]["account"] = task[run.attempt]["account"]
      /\ \A r \in Collections : task'[run.attempt][r] \in {NewRead, Failed("cancelled")}
      /\ UNCHANGED <<broker, receipts, snaps, faults>> /\ CInv'
  BY AccountReadStep DEF WInv
<1>2. run.pc = "account" /\ \A r \in Collections : task[run.attempt][r] = Idle
  BY DEF AccountRead, WInv, CInv, AttemptRight, PhaseRight
<1>3. \A b \in Attempts, q \in Resources :
        task'[b][q] \in {Idle, NewRead, Failed("cancelled"), task[b][q]}
  <2>1. \A b \in Attempts, q \in Resources : b # run.attempt => task'[b][q] = Idle
    BY <1>1 DEF CInv, AttemptRight, PhaseRight
  <2> QED
    BY <1>1, <2>1 DEF Resources
<1>4. OnePage'
  BY <1>3, FailedIsEmpty, OnePageKept DEF JudgedRight, EvidenceRight
<1>5. ReceiptsRight'
  <2>1. ASSUME NEW q \in Resources, task'[run.attempt][q].st # "failed"
        PROVE  /\ task[run.attempt][q].st # "failed"
               /\ Recorded(task'[run.attempt][q]) = Recorded(task[run.attempt][q])
    <3>1. CASE q \in Collections
      BY <1>1, <1>2, <2>1, <3>1, NothingRecorded
    <3>2. CASE q = "account"
      BY <1>1, <2>1, <3>2
    <3> QED
      BY <3>1, <3>2 DEF Resources
  <2> QED
    BY <1>1, <1>2, <2>1, ReceiptsKept DEF JudgedRight, EvidenceRight
<1>6. run'.reason \in {"shutdown", "deadline", "none"}
  BY DEF AccountRead, WInv, CInv, RunState
<1>7. faults' = 0 => HonestRight'
  <2>1. run'.reason \notin Mistaken
    BY <1>6 DEF Mistaken
  <2>2. HonestRight => run'.outcome \notin Mistaken
    BY <1>1 DEF HonestRight
  <2> QED
    BY <1>1, <1>3, <2>1, <2>2, HonestKept DEF JudgedRight
<1>8. CutoverRight'
  BY <1>1, <1>2 DEF CutoverRight, JudgedRight
<1> QED
  BY <1>1, <1>4, <1>5, <1>7, <1>8 DEF JudgedRight, EvidenceRight, StoredRight

\* The deadline or a shutdown cancels the reads in flight.
LEMMA JudgedAbort ==
  ASSUME WInv, JudgedRight, Deadline \/ ShutdownSignal
  PROVE  JudgedRight'
<1>1. AbortFrame /\ run.pc \in {"account", "collect", "delay"} /\ (faults' = 0 => faults = 0 /\ Deadline)
  <2>1. AbortFrame
    BY DeadlineStep, ShutdownStep DEF WInv
  <2>2. run.pc \in {"account", "collect", "delay"}
    BY DEF Deadline, ShutdownSignal, Waiting
  <2>3. faults \in Nat
    BY BoundFacts DEF WInv, CInv
  <2>4. CASE Deadline
    BY <2>1, <2>2, <2>4, DeadlineStep DEF WInv
  <2>5. CASE ShutdownSignal
    BY <2>1, <2>2, <2>3, <2>5, ShutdownStep DEF WInv
  <2> QED
    BY <2>4, <2>5
<1>2. OnePage'
  BY <1>1, FailedIsEmpty, OnePageKept DEF AbortFrame, JudgedRight, EvidenceRight
<1>3. ReceiptsRight'
  <2>1. CASE run.pc = "delay"
    BY <1>1, <2>1 DEF AbortFrame, ReceiptsRight
  <2>2. CASE run.pc \in {"account", "collect"}
    <3>1. run.attempt \in Attempts
      BY <2>2 DEF WInv, CInv, AttemptRight, PhaseRight
    <3>2. \A q \in Resources : task'[run.attempt][q].st # "failed" =>
            task'[run.attempt][q] = task[run.attempt][q]
      BY <1>1, <3>1, NothingRecorded DEF AbortFrame
    <3> QED
      BY <1>1, <2>2, <3>2, ReceiptsKept DEF AbortFrame, JudgedRight, EvidenceRight
  <2> QED
    BY <1>1, <2>1, <2>2
<1>4. EvidenceRight' /\ CutoverRight'
  BY <1>1, <1>2, <1>3 DEF AbortFrame, EvidenceRight, StoredRight, CutoverRight, JudgedRight
<1>5. ASSUME faults' = 0 PROVE HonestRight'
  <2>1. HonestRight /\ Deadline
    BY <1>1, <1>5 DEF JudgedRight
  <2>2. run'.reason \in {"deadline", run.reason}
    BY <2>1 DEF Deadline, WInv, CInv, RunState
  <2>3. run'.pc = "collect" => run'.reason \notin Mistaken
    BY <1>1, <2>1, <2>2 DEF AbortFrame, HonestRight, Mistaken
  <2>4. run'.outcome \notin Mistaken /\ UNCHANGED broker
    BY <1>1, <2>1 DEF AbortFrame, HonestRight
  <2>5. \A b \in Attempts, q \in Resources :
          task'[b][q] \in {Idle, NewRead, Failed("cancelled"), task[b][q]}
    BY <1>1 DEF AbortFrame
  <2> QED
    BY <2>1, <2>3, <2>4, <2>5, HonestKept
<1> QED
  BY <1>4, <1>5 DEF JudgedRight

\* What an attempt fails with is what happened to it, or a timeout.
LEMMA AttemptErrorRules ==
  ASSUME NEW err, err \notin Mistaken
  PROVE  AttemptError(err) \notin Mistaken
BY DEF AttemptError, Mistaken

\* The account could not be read.
LEMMA JudgedAccountReadFailed ==
  ASSUME WInv, JudgedRight, AccountReadFailed
  PROVE  JudgedRight'
<1>1. /\ run'.pc \in {"idle", "delay"}
      /\ run'.outcome = AttemptError(task[run.attempt]["account"].err)
      /\ UNCHANGED <<broker, faults>>
      /\ \A b \in Attempts, q \in Resources : task'[b][q] = Idle
  BY AccountReadFailedStep DEF WInv
<1>2. run.attempt \in Attempts /\ "account" \in Resources
  BY DEF AccountReadFailed, WInv, CInv, AttemptRight, PhaseRight, Resources
<1>3. HonestRight => run'.outcome \notin Mistaken
  BY <1>1, <1>2, AttemptErrorRules DEF HonestRight
<1> QED
  BY <1>1, <1>3, JudgedOver

\* The capture is accepted, or the attempt is over; an honest one is accepted.
LEMMA JudgedSettled ==
  ASSUME WInv, JudgedRight, CollectionsSettled
  PROVE  JudgedRight'
<1>1. /\ run.pc = "collect" /\ UNCHANGED <<broker, now, receipts, snaps, fillRows, faults>>
      /\ \A r \in Resources : task[run.attempt][r].st \in {"done", "failed"}
      /\ \/ FailAttempt(run.reason)
         \/ /\ \A r \in Resources : task[run.attempt][r].st = "done"
            /\ FailAttempt("malformed_response")
            /\ ~Consistent(Capture) \/ ~SnapshotIsSound(Normalized(Capture))
         \/ /\ \A r \in Resources : task[run.attempt][r].st = "done"
            /\ captured' = Normalized(Capture)
            /\ run' = [run EXCEPT !.pc = "store"] /\ UNCHANGED task
  BY SettledCases DEF WInv
<1>2. run.attempt \in Attempts /\ run \in RunState /\ CInv
  BY <1>1 DEF WInv, CInv, AttemptRight, PhaseRight
<1>3. ASSUME NEW err \in Errors, FailAttempt(err), faults = 0 /\ HonestRight => err \notin Mistaken
      PROVE  JudgedRight'
  <2>1. /\ run'.pc \in {"idle", "delay"} /\ run'.outcome = AttemptError(err)
        /\ \A b \in Attempts, q \in Resources : task'[b][q] = Idle
    BY <1>1, <1>2, <1>3, FailStep
  <2>2. faults' = 0 /\ HonestRight => run'.outcome \notin Mistaken
    BY <1>1, <1>3, <2>1, AttemptErrorRules
  <2> QED
    BY <1>1, <2>1, <2>2, JudgedOver
<1>4. CASE FailAttempt(run.reason)
  BY <1>1, <1>2, <1>3, <1>4 DEF RunState, HonestRight
<1>5. CASE /\ \A r \in Resources : task[run.attempt][r].st = "done"
           /\ FailAttempt("malformed_response")
           /\ ~Consistent(Capture) \/ ~SnapshotIsSound(Normalized(Capture))
  <2>1. ASSUME HonestRight PROVE FALSE
    <3>1. HonestRaw(Capture, broker)
      BY <1>1, <1>2, <1>5, <2>1, HonestCapture DEF JudgedRight, HonestRight
    <3>2. IsAccount(broker)
      BY <1>2 DEF CInv, BrokerRight
    <3> QED
      BY <1>5, <3>1, <3>2, HonestRawIsAccepted
  <2>2. "malformed_response" \in Errors
    BY DEF Errors, Failures
  <2> QED
    BY <1>3, <1>5, <2>1, <2>2
<1>6. CASE /\ \A r \in Resources : task[run.attempt][r].st = "done"
           /\ captured' = Normalized(Capture)
           /\ run' = [run EXCEPT !.pc = "store"] /\ UNCHANGED task
  <2>1. run'.pc = "store" /\ run'.attempt = run.attempt /\ run'.outcome = run.outcome
    BY <1>2, <1>6 DEF RunState
  <2>2. captured'.requests = Capture.requests
    <3> DEFINE raw == Capture
    <3>1. captured' = NormalizeCapture(raw, NormalizePositions(raw), FlattenOrders(raw.orders))
      BY <1>6 DEF Normalized
    <3> HIDE DEF raw
    <3>2. captured'.requests = raw.requests
      BY <3>1 DEF NormalizeCapture
    <3> QED
      BY <3>2 DEF raw
  <2>3. EvidenceIsComplete(captured')
    BY <1>1, <1>2, <1>6, <2>2, CaptureIsProved DEF JudgedRight, EvidenceRight
  <2>4. StoredRight'
    BY <1>1, <2>1, <2>3, SMTT(30) DEF StoredRight, EvidenceIsComplete
  <2>5. OnePage'
    BY <1>6 DEF JudgedRight, EvidenceRight, OnePage
  <2>6. EvidenceRight' /\ CutoverRight'
    BY <2>1, <2>4, <2>5 DEF EvidenceRight, ReceiptsRight, CutoverRight
  <2>7. HonestRight => HonestRight'
    BY <1>1, <1>6, <2>1 DEF HonestRight
  <2> QED
    BY <1>1, <2>6, <2>7 DEF JudgedRight
<1> QED
  BY <1>1, <1>4, <1>5, <1>6

\* What is stored has its evidence and no drift, so it is promoted unless the
\* database fails.
LEMMA JudgedComplete ==
  ASSUME WInv, JudgedRight, CompleteSync
  PROVE  JudgedRight'
<1>1. /\ run'.pc = "idle" /\ \A b \in Attempts, q \in Resources : task'[b][q] = Idle
  BY CompleteStep DEF WInv
<1>2. /\ run.pc = "store" /\ UNCHANGED broker
      /\ \/ /\ run' = Ended("projection_failed") /\ UNCHANGED faults
            /\ \/ ~EvidenceIsComplete(captured)
               \/ Drift(captured, PreparePortfolioProjection(captured, None), None) # {}
               \/ \E p, rows : /\ rows = InsertFills(captured)
                               /\ Drift(captured, PersistedProjection(captured, p, rows), p) # {}
         \/ run' = Ended("none") /\ UNCHANGED faults
         \/ run' = Ended("database") /\ faults' = faults + 1
  BY CompleteCases
<1>3. run \in RunState /\ faults \in Nat
  BY BoundFacts DEF WInv, CInv
<1>4. run' # Ended("projection_failed")
  <2>1. EvidenceIsComplete(captured)
    BY <1>2 DEF JudgedRight, EvidenceRight, StoredRight
  <2>2. Drift(captured, PreparePortfolioProjection(captured, None), None) = {}
    BY NoDrift
  <2>3. ASSUME NEW p, NEW rows, rows = InsertFills(captured)
        PROVE  Drift(captured, PersistedProjection(captured, p, rows), p) = {}
    <3> DEFINE prepared == PersistedProjection(captured, p, rows)
    <3>1. captured.fills \subseteq rows
      BY <2>3 DEF InsertFills
    <3>2. prepared = [PreparePortfolioProjection(captured, p) EXCEPT !.fills = captured.fills \cap rows]
      BY DEF PersistedProjection
    <3> HIDE DEF prepared
    <3>3. Drift(captured, prepared, p) = {}
      BY <3>1, <3>2, NoDrift
    <3> QED
      BY <3>3 DEF prepared
  <2>4. /\ Ended("projection_failed").outcome = "projection_failed"
        /\ Ended("none").outcome = "none" /\ Ended("database").outcome = "database"
    BY <1>3, EndedRules DEF Errors
  <2> QED
    BY <1>2, <2>1, <2>2, <2>3, <2>4
<1>5. (faults' = 0 => faults = 0) /\ run'.outcome \notin Mistaken
  <2>1. run' = Ended("none") \/ run' = Ended("database")
    BY <1>2, <1>4
  <2>2. Ended("none").outcome = "none" /\ Ended("database").outcome = "database"
    BY <1>3, EndedRules DEF Errors
  <2>3. faults' \in {faults, faults + 1}
    BY <1>2
  <2> QED
    BY <1>3, <2>1, <2>2, <2>3 DEF Mistaken
<1> QED
  BY <1>1, <1>2, <1>5, JudgedOver

\* The next attempt begins, or the cycle ends with the shutdown.
LEMMA JudgedRetry ==
  ASSUME WInv, JudgedRight, RetryDelayEnds
  PROVE  JudgedRight'
<1>1. /\ CInv' /\ UNCHANGED <<broker, now, snaps, faults>>
      /\ run'.pc \in {"idle", "account"} /\ run'.outcome \in {"shutdown", "none"}
      /\ \A b \in Attempts, q \in Resources : task'[b][q] \in {Idle, NewRead}
      /\ run'.pc = "account" => run'.start = now /\ receipts' = {}
  BY RetryStep DEF WInv
<1>2. run'.outcome \notin Mistaken
  BY <1>1 DEF Mistaken
<1>3. CASE run'.pc = "account"
  <2>1. run'.attempt \in Attempts
    BY <1>1, <1>3 DEF CInv, AttemptRight, PhaseRight
  <2> QED
    BY <1>1, <1>2, <1>3, <2>1, JudgedBegin
<1>4. CASE run'.pc = "idle"
  <2>1. \A b \in Attempts, q \in Resources : task'[b][q] = Idle
    BY <1>1, <1>4 DEF CInv, AttemptRight, PhaseRight, Attempts
  <2> QED
    BY <1>1, <1>2, <1>4, <2>1, JudgedOver
<1> QED
  BY <1>1, <1>3, <1>4

\* Every step keeps it.
LEMMA JudgedStep == WInv /\ JudgedRight /\ [CaptureNext]_captureVars => JudgedRight'
<1> SUFFICES ASSUME WInv, JudgedRight, [CaptureNext]_captureVars PROVE JudgedRight'
  OBVIOUS
<1>1. CInv
  BY DEF WInv
<1>2. CASE UNCHANGED captureVars
  <2>1. UNCHANGED <<broker, now, run, task, captured, receipts, snaps, fillRows, faults>>
    BY <1>2 DEF captureVars
  <2> QED
    BY <2>1, ZenonT(60) DEF JudgedRight, EvidenceRight, ReceiptsRight, OnePage, StoredRight, Ordinals,
                EvidenceIsComplete, CutoverRight, HonestRight
<1>3. CASE PlaceOrder \/ ClockTick \/ \E i : FillOrder(i) \/ CancelOrder(i)
  BY <1>1, <1>3, JudgedGrowth
<1>4. ASSUME NEW a \in Attempts, NEW r \in Resources,
             \/ Answer(a, r) \/ RecordReceipt(a, r)
             \/ \E class \in FailureClasses : AnswerFails(a, r, class)
      PROVE  JudgedRight'
  BY <1>4, JudgedRead
<1>5. CASE AccountRead
  BY <1>5, JudgedAccountRead
<1>6. CASE AccountReadFailed
  BY <1>6, JudgedAccountReadFailed
<1>7. CASE CollectionsSettled
  BY <1>7, JudgedSettled
<1>8. CASE BeginCycle
  <2>1. /\ run'.pc = "account" /\ run'.attempt \in Attempts /\ run'.start = now /\ receipts' = {}
        /\ UNCHANGED <<broker, snaps, faults>>
        /\ \A b \in Attempts, q \in Resources : task'[b][q] \in {Idle, NewRead}
    BY <1>1, <1>8, BeginStep DEF BeginCycle
  <2>2. run'.outcome \notin Mistaken
    <3>1. run'.outcome = "none"
      BY <1>1, <1>8 DEF BeginCycle, StartAttempt, CInv, RunState
    <3> QED
      BY <3>1 DEF Mistaken
  <2> QED
    BY <2>1, <2>2, JudgedBegin
<1>9. CASE RetryDelayEnds
  BY <1>9, JudgedRetry
<1>10. CASE CompleteSync
  BY <1>10, JudgedComplete
<1>11. CASE Deadline \/ ShutdownSignal
  BY <1>11, JudgedAbort
<1> QED
  BY <1>2, <1>3, <1>4, <1>5, <1>6, <1>7, <1>8, <1>9, <1>10, <1>11
     DEF CaptureNext, Account, Provider, Worker, Attempts

\* A capture spread over time is judged as if it were one moment (normalization,
\* reconciliation): an honest capture is accepted, whatever the account did
\* between its pages, and a delta of "unchanged" means that it did nothing
\* between the reads of the orders.
THEOREM CapturesAreJudgedRight == CaptureSpec => []CaptureIsJudgedRight
<1>1. CaptureInit => JudgedRight
  BY JudgedInit
<1>2. WInv /\ JudgedRight /\ [CaptureNext]_captureVars => JudgedRight'
  BY JudgedStep
<1>3. JudgedRight /\ UnchangedMeansQuiet => CaptureIsJudgedRight
  BY DEF JudgedRight, HonestRight, Mistaken, HonestCaptureIsAccepted, CaptureIsJudgedRight
<1> QED
  BY <1>1, <1>2, <1>3, WholeInvariance, UnchangedIsQuiet, PTL DEF CaptureSpec
=============================================================================
