------------------------------- MODULE Ledger -------------------------------
(***************************************************************************)
(* The transaction log and every figure the pages derive from it on each   *)
(* load (queries.py): shipping shares, net invested, realized gains, held  *)
(* copies, order gains and the headline.  A row is one copy of a card.  A  *)
(* card's qty comes from the next Dex import only, which also knows copies *)
(* that no row was ever registered for.  Typed order totals are left out.  *)
(***************************************************************************)
EXTENDS Counting, FiniteSetsExt, SequencesExt

CONSTANTS
  Cards,
  KindsOf,   \* the kinds of rows the instance registers of each card
  Untracked, \* copies of each card that have no row
  Market,    \* each card's market price
  Prices,    \* row prices; 0 is "not priced yet"
  Days,
  MaxOrder,
  Bounds     \* what a behaviour is bounded to: its rows, edits, orders' shippings and fees

VARIABLES
  tx,   \* transactions: [card, kind, day, order, price, fee, ship] of each ID
  qty,  \* of each card, as last imported
  edits,
  bounds
vars == <<tx, qty, edits, bounds>>

Kinds == {"purchase", "sale", "ripped", "in", "out"}
CASH == {"purchase", "sale"}
ACQUIRING == {"purchase", "ripped"}
NoOrder == 0
Orders == 1..MaxOrder

TypeOK ==
  /\ bounds \in Bounds /\ DOMAIN tx \subseteq 1..bounds.rows
  /\ \A t \in DOMAIN tx :
       /\ tx[t].kind \in Kinds /\ tx[t].day \in Days /\ tx[t].order \in Orders \cup {NoOrder}
       /\ tx[t].fee \in 0..Max(bounds.fees) /\ tx[t].ship \in bounds.ships \cup {0}
       /\ tx[t].price \in Prices /\ (tx[t].kind = "ripped" => tx[t].price = 0)
  /\ \A c \in Cards : qty[c] \in 0..(Untracked[c] + bounds.rows)

Init ==
  /\ tx = <<>>
  /\ qty = Untracked
  /\ edits = 0
  /\ bounds \in Bounds

Rows == DOMAIN tx
Ids == [k \in 1..Cardinality(Rows) |-> Nth(Rows, k)]
Earlier(t, u) == tx[t].day < tx[u].day \/ (tx[t].day = tx[u].day /\ t < u)
RowsOf(o) == {t \in Rows : tx[t].order = o}
IsAcquisition(t) == tx[t].kind \in ACQUIRING \cup {"in"}
IsDisposal(t) == tx[t].kind \in {"sale", "out"}
Acquired(c) == {t \in Rows : tx[t].card = c /\ IsAcquisition(t)}
Disposed(c) == {t \in Rows : tx[t].card = c /\ IsDisposal(t)}
Total(f) == Sigma(f, DOMAIN f)
OldestFirst(S) == [i \in 1..Cardinality(S) |-> CHOOSE t \in S : Cardinality({u \in S : Earlier(u, t)}) = i - 1]

-----------------------------------------------------------------------------
(* Net invested *)

\* Mutant: each row is charged its own copy of the shipping.
ShareOwn(t, txs) == IF tx[t].kind \in CASH THEN tx[t].ship ELSE 0

\* Mutant: the shipping of the first row, which may have been added without.
ShareFirst(t, txs) ==
  LET rows == Kept(txs, {u \in RowsOf(tx[t].order) : tx[u].kind \in CASH})
  IN  IF tx[t].kind \in CASH THEN tx[Head(rows)].ship \div Len(rows) ELSE 0

\* shipping_shares(txs)[t]: the order's shipping is the first one found in txs.
Share(t, txs) ==
  LET rows == Kept(txs, {u \in RowsOf(tx[t].order) : tx[u].kind \in CASH})
      ships == Kept(rows, {u \in Rows : tx[u].ship # 0})
      sum == Total([u \in Range(rows) |-> tx[u].price])
  IN  IF tx[t].kind \notin CASH THEN 0
      ELSE IF tx[t].order = NoOrder THEN tx[t].ship
      ELSE IF ships = <<>> THEN 0
      ELSE IF sum > 0 THEN (tx[Head(ships)].ship * tx[t].price) \div sum
      ELSE tx[Head(ships)].ship \div Len(rows)

NetProceeds(t, txs) == tx[t].price - tx[t].fee - Share(t, txs)

\* net_invested_amount()
NetInvested(t, txs) ==
  CASE tx[t].kind = "purchase" -> tx[t].price + tx[t].fee + Share(t, txs)
    [] tx[t].kind = "sale" -> -NetProceeds(t, txs)
    [] OTHER -> 0

\* economic_summary()
TotalBought == Total([t \in {t \in Rows : tx[t].kind = "purchase"} |-> NetInvested(t, Ids)])
TotalSold == Total([t \in {t \in Rows : tx[t].kind = "sale"} |-> NetProceeds(t, Ids)])

Invested == TotalBought - TotalSold

NetInvestedByCard(c) == Total([t \in {t \in Rows : tx[t].card = c} |-> NetInvested(t, Ids)])

\* cash_flow_by_month(), up to a day
CumulativeInvested(day) ==
  LET flow(d) == Total([t \in {t \in Rows : tx[t].day = d /\ tx[t].kind = "purchase"} |-> NetInvested(t, Ids)])
                 - Total([t \in {t \in Rows : tx[t].day = d /\ tx[t].kind = "sale"} |-> NetProceeds(t, Ids)])
  IN  Total([d \in {d \in Days : d <= day} |-> flow(d)])

NetInvestedAt(day) == Total([t \in {t \in Rows : tx[t].kind \in CASH /\ tx[t].day <= day} |-> NetInvested(t, Ids)])

-----------------------------------------------------------------------------
(* Copies *)

\* held_acquisition_ids(): the newest qty rows
Held(c) == {t \in Acquired(c) : Cardinality({u \in Acquired(c) : Earlier(t, u)}) < qty[c]}

\* Mutant: a copy may be acquired after it was disposed of.
UsedAnyDay(c) ==
  LET acquired == Cardinality(Acquired(c))
  IN  [i \in 0..Cardinality(Disposed(c)) |-> IF i <= acquired THEN i ELSE acquired]

\* realized_gains(): how many of a card's copies its first i disposals use up
UsedUp(c) ==
  LET acquisitions == OldestFirst(Acquired(c))
      disposals == OldestFirst(Disposed(c))
      next(n, i) ==
        IF n < Len(acquisitions) /\ tx[acquisitions[n + 1]].day <= tx[disposals[i]].day THEN n + 1 ELSE n
      used[i \in 0..Len(disposals)] == IF i = 0 THEN 0 ELSE next(used[i - 1], i)
  IN  used

\* The copy each of them uses up, the next one
Sources(c) ==
  LET acquisitions == OldestFirst(Acquired(c))
      disposals == OldestFirst(Disposed(c))
      used == UsedUp(c)
  IN  {[by |-> disposals[i], of |-> acquisitions[used[i]]] : i \in {i \in DOMAIN disposals : used[i] # used[i - 1]}}

Sold(c) == {s.of : s \in {s \in Sources(c) : tx[s.by].kind = "sale"}}

-----------------------------------------------------------------------------
(* Gains *)

\* trade_summary()
TradeGain(o) ==
  LET got == {t \in RowsOf(o) : tx[t].kind = "in"}
      gave == {t \in RowsOf(o) : tx[t].kind = "out"}
      above(S) == Total([t \in S |-> Market[tx[t].card] - tx[t].price])
  IN  above(got) - above(gave)

\* Value + Shipping: the Total of an order for which none is typed
AutoTotal(o) ==
  LET ships == {t \in RowsOf(o) : tx[t].ship # 0}
  IN  Total([t \in {t \in RowsOf(o) : tx[t].kind \in CASH} |-> tx[t].price])
      + IF ships = {} THEN 0 ELSE tx[Min(ships)].ship

\* Mutant: every copy counts, held or not.
OrderGainOfAll(o) ==
  Total([t \in {u \in RowsOf(o) : tx[u].kind \in ACQUIRING} |-> Market[tx[t].card]]) - AutoTotal(o) + TradeGain(o)

\* order_gain()
OrderGain(o) ==
  Total([t \in {t \in RowsOf(o) : tx[t].kind \in ACQUIRING /\ t \in Held(tx[t].card)} |-> Market[tx[t].card]])
  - AutoTotal(o) + TradeGain(o)

HasGain(o) == RowsOf(o) # {} /\ \A t \in RowsOf(o) : tx[t].kind # "sale"

TotalValue == Total([c \in Cards |-> qty[c] * Market[c]])

\* gain_summary()
HeadlineGain == TotalValue - Invested

-----------------------------------------------------------------------------
(* The pages' operations *)

NextId == 1 + Max(Rows \cup {0})
NextOrder == 1 + Max({tx[t].order : t \in Rows} \cup {NoOrder})

Row(card, kind, day, order, price, fee, ship) ==
  [card |-> card, kind |-> kind, day |-> day, order |-> order,
   price |-> IF kind = "ripped" THEN 0 ELSE price, fee |-> fee, ship |-> ship]

\* The fee follows the prices, or is the same for each row where none is priced.
Weights(prices) == IF Total(prices) > 0 THEN prices ELSE [i \in DOMAIN prices |-> 1]

\* Mutant: the cents left over go to nobody.
SplitFeesDown(total, prices) ==
  LET w == Weights(prices)
  IN  [i \in DOMAIN w |-> (total * w[i]) \div Total(w)]

\* _split_order_fees(): whole cents, the largest fractions rounded up
SplitFees(total, prices) ==
  LET w == Weights(prices)
      cents == [i \in DOMAIN w |-> (total * w[i]) \div Total(w)]
      fraction(i) == (total * w[i]) % Total(w)
      before(i, j) == fraction(i) > fraction(j) \/ (fraction(i) = fraction(j) /\ i < j)
      up == CHOOSE S \in SUBSET DOMAIN w :
              /\ Cardinality(S) = total - Total(cents)
              /\ \A i \in S, j \in DOMAIN w \ S : before(i, j)
  IN  [i \in DOMAIN w |-> cents[i] + IF i \in up THEN 1 ELSE 0]

\* A new order: create_purchase(), and for a sold lot listing_mark_sold_submit().
\* `cart`: [card, kind, price] of each row; a sale's price is above 0.
Register(cart, day, fees, ship) ==
  LET new == NextId..(NextId + Len(cart) - 1)
      split == SplitFees(IF cart[1].kind \in CASH THEN fees ELSE 0, [i \in DOMAIN cart |-> cart[i].price])
      row(i) == Row(cart[i].card, cart[i].kind, day, NextOrder, cart[i].price, split[i], ship)
  IN  /\ NextOrder \in Orders /\ NextId + Len(cart) - 1 <= bounds.rows
      /\ tx' = [t \in Rows \cup new |-> IF t \in Rows THEN tx[t] ELSE row(t - NextId + 1)]
      /\ UNCHANGED <<qty, edits, bounds>>

\* Cards added to an order that is not a sale: priced later, no shipping
AddExisting(c, o, day) ==
  /\ NextId <= bounds.rows /\ "purchase" \in KindsOf[c]
  /\ RowsOf(o) # {} /\ \E t \in RowsOf(o) : tx[t].kind # "sale"
  /\ tx' = [t \in Rows \cup {NextId} |-> IF t \in Rows THEN tx[t] ELSE Row(c, "purchase", day, o, 0, 0, 0)]
  /\ UNCHANGED <<qty, edits, bounds>>

Edit ==
  /\ edits < bounds.edits /\ edits' = edits + 1
  /\ UNCHANGED <<qty, bounds>>

\* update_purchase(): one row is changed or moved, the form's shipping goes to
\* the rows that stay.
UpdatePurchase(r, kind, day, price, order, ship) ==
  /\ Edit /\ tx[r].order # NoOrder /\ order # NoOrder
  /\ tx' = [t \in Rows |->
             IF t = r THEN Row(tx[r].card, kind, day, order, price, tx[r].fee, IF order = tx[r].order THEN ship ELSE 0)
             ELSE IF tx[t].order = tx[r].order THEN [tx[t] EXCEPT !.ship = ship] ELSE tx[t]]

\* A row deleted on the same form
DeleteRow(r, ship) ==
  /\ Edit /\ tx[r].order # NoOrder
  /\ tx' = [t \in Rows \ {r} |-> IF tx[t].order = tx[r].order THEN [tx[t] EXCEPT !.ship = ship] ELSE tx[t]]

\* set_purchase_total()
SetShipping(o, ship) ==
  /\ Edit /\ RowsOf(o) # {}
  /\ tx' = [t \in Rows |-> IF tx[t].order = o THEN [tx[t] EXCEPT !.ship = ship] ELSE tx[t]]

\* update_transaction(): a row moved this way keeps its copy of the shipping.
UpdateTransaction(r, kind, day, price, fee, order) ==
  /\ Edit
  /\ tx' = [tx EXCEPT ![r] = Row(tx[r].card, kind, day, order, price, fee, tx[r].ship)]

\* The Dex import: Dex has every copy that was acquired and not disposed of.
Copies(c) == Untracked[c] + Cardinality(Acquired(c)) - Cardinality(Disposed(c))
Sync ==
  /\ qty' = [c \in Cards |-> Max({0, Copies(c)})]
  /\ UNCHANGED <<tx, edits, bounds>>

Lines == {l \in [card : Cards, kind : Kinds, price : Prices] :
            l.kind \in KindsOf[l.card] /\ (l.kind = "ripped" => l.price = 0) /\ (l.kind = "sale" => l.price > 0)}
\* One form registers rows of one kind, or a trade.
Baskets(n) ==
  {cart \in [1..n -> Lines] :
     \A i \in 1..n : cart[i].kind = cart[1].kind \/ {cart[1].kind, cart[i].kind} = {"in", "out"}}
EditRow(r) ==
  edits < bounds.edits /\ \E kind \in KindsOf[tx[r].card], day \in Days, price \in Prices, order \in Orders \cup {NoOrder} :
    \/ \E ship \in bounds.ships : UpdatePurchase(r, kind, day, price, order, ship)
    \/ \E fee \in bounds.fees : UpdateTransaction(r, kind, day, price, fee, order)

Next ==
  \/ \E n \in 1..(bounds.rows - NextId + 1) : \E cart \in Baskets(n) :
       \E day \in Days, fees \in bounds.fees, ship \in bounds.ships : Register(cart, day, fees, ship)
  \/ \E c \in Cards, o \in Orders, day \in Days : AddExisting(c, o, day)
  \/ \E r \in Rows : EditRow(r) \/ \E ship \in bounds.ships : DeleteRow(r, ship)
  \/ \E o \in Orders, ship \in bounds.ships : SetShipping(o, ship)
  \/ Sync

Spec == Init /\ [][Next]_vars

-----------------------------------------------------------------------------
(* "Sum(net_invested_by_card) == net_invested", and the last month's cumulative
   figure is the headline's, too. *)
InvestedAlike ==
  /\ Invested = Total([c \in Cards |-> NetInvestedByCard(c)])
  /\ Invested = CumulativeInvested(Max(Days)) /\ Invested = NetInvestedAt(Max(Days))

(* All of them charge an order's shipping exactly once, where its shares are
   whole numbers: the code's are not rounded. *)
CashOf(o) == {t \in RowsOf(o) : tx[t].kind \in CASH}
Shipped(o) ==
  LET ships == {t \in CashOf(o) : tx[t].ship # 0}
  IN  IF ships = {} THEN 0 ELSE tx[Min(ships)].ship
WholeShares ==
  \A o \in Orders : \A t \in CashOf(o) :
    LET sum == Total([u \in CashOf(o) |-> tx[u].price])
    IN  IF sum > 0 THEN (Shipped(o) * tx[t].price) % sum = 0 ELSE Shipped(o) % Cardinality(CashOf(o)) = 0
ShippingOnce ==
  LET signed(t) == tx[t].fee + IF tx[t].kind = "purchase" THEN tx[t].price ELSE -tx[t].price
      cash == {t \in Rows : tx[t].kind \in CASH}
  IN  WholeShares =>
        Invested = Total([t \in cash |-> signed(t)]) + Total([o \in Orders |-> Shipped(o)])
                   + Total([t \in CashOf(NoOrder) |-> tx[t].ship])

(* The Sold tab's net received is "the same figure Net invested subtracts",
   whatever the order its rows come in, while an order's rows agree on its
   shipping. *)
Agree == \A t, u \in Rows : tx[t].order = tx[u].order /\ tx[t].ship # 0 /\ tx[u].ship # 0 => tx[t].ship = tx[u].ship
NewestFirst == [k \in 1..Cardinality(Rows) |-> OldestFirst(Rows)[Cardinality(Rows) + 1 - k]]
SameOnEveryPage ==
  Agree => \A t \in Rows : tx[t].kind = "sale" => NetProceeds(t, NewestFirst) = NetProceeds(t, Ids)

(* "Each disposal uses up the oldest acquired copy that no earlier disposal
   has used and that was acquired on or before its date." *)
OldestCopyFirst ==
  \A c \in Cards : \A d \in Disposed(c) :
    LET used == {s.of : s \in {s \in Sources(c) : Earlier(s.by, d)}}
        free == {t \in Acquired(c) \ used : tx[t].day <= tx[d].day}
        mine == {s.of : s \in {s \in Sources(c) : s.by = d}}
    IN  mine = {t \in free : \A u \in free \ {t} : Earlier(t, u)}

(* The orders' gains and what the sales brought in add up to the headline's
   gain, once Dex has imported every copy and each has its row: no copy is
   valued twice, and none that was sold is valued. *)
EveryCopyHasItsRow == \A c \in Cards : Untracked[c] = 0 /\ qty[c] = Copies(c)
PlainOrders ==
  \A t \in Rows : /\ tx[t].kind \notin {"in", "out"} /\ tx[t].fee = 0 /\ tx[t].order # NoOrder
                  /\ tx[t].kind = "ripped" => AutoTotal(tx[t].order) = 0
                  /\ \A u \in RowsOf(tx[t].order) : tx[u].kind = "sale" <=> tx[t].kind = "sale"
GainsAddUp ==
  PlainOrders /\ WholeShares /\ EveryCopyHasItsRow =>
    HeadlineGain = Total([o \in {o \in Orders : HasGain(o)} |-> OrderGain(o)]) + TotalSold

(* "The stored fees add up to exactly `total` and none is ever negative"; a
   row without a price in an order with prices gets none. *)
FeesAddUp ==
  \A o \in Orders : RowsOf(o) = {} /\ edits' = edits =>
    LET new == {t \in DOMAIN tx' : tx'[t].order = o}
        fees == Total([t \in new |-> tx'[t].fee])
    IN  /\ new # {} => fees \in bounds.fees \cup {0}
        /\ (\E t \in new : tx'[t].price > 0) => \A t \in new : tx'[t].price = 0 => tx'[t].fee = 0

(* "The copy a sale is costed against here is the one its purchase order no
   longer counts as held", once Dex has imported the sale. *)
SoldIsNotHeld ==
  \A c \in Cards : qty[c] = Copies(c) => Sold(c) \cap Held(c) = {}
=============================================================================
