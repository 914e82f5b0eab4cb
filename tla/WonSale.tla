------------------------------- MODULE WonSale -------------------------------
(***************************************************************************)
(* The money of one won Facebook sale (won_inbox.open_sale and the New     *)
(* Order cart): the Total a cart is prefilled with when part of the sale   *)
(* is on earlier orders already.  The user keeps the prefilled Total and   *)
(* row prices, may add shipping, and may narrow an order's Total to its    *)
(* own cards or delete an order.                                           *)
(***************************************************************************)
EXTENDS Counting

CONSTANTS
  Items,       \* the items of the sale
  PriceOf,     \* their won prices, in kr, or Unknown
  Unknown,
  MaxOrders,   \* bound on orders
  MaxShipping  \* shipping typed on an order

VARIABLES
  item,   \* [status, order] of each item; order 0 is none; again: history, linked to a
          \* cart while an order had it
  orders  \* [total, shipping, prices]: `prices` of the rows by item; a deleted one has none
vars == <<item, orders>>

TypeOK ==
  /\ item \in [Items -> [status : {"pending", "registered"}, order : 0..MaxOrders, again : BOOLEAN]]
  /\ Len(orders) <= MaxOrders
  /\ \A i \in Items : item[i].order \in 0..Len(orders)

Init ==
  /\ item = [i \in Items |-> [status |-> "pending", order |-> 0, again |-> FALSE]]
  /\ orders = <<>>

Won(i) == IF PriceOf[i] = Unknown THEN 0 ELSE PriceOf[i]
Known(S) == Sigma([i \in Items |-> Won(i)], S)
Total(price) == Sigma(price, DOMAIN price)
HasRows(o) == o # 0 /\ DOMAIN orders[o].prices # {}
Open(i) == item[i].status = "pending" \/ ~HasRows(item[i].order)
OpenItems == {i \in Items : Open(i)}

-----------------------------------------------------------------------------
Larger(a, b) == IF a > b THEN a ELSE b
Smaller(a, b) == IF a < b THEN a ELSE b

\* _orders_remaining(): what the orders' Totals still have for cards to come
Remaining(o) == Larger(0, orders[o].total - Total(orders[o].prices) - orders[o].shipping)
OrdersRemaining(S) == Sigma([o \in S |-> Remaining(o)], S)

OnOrder == {i \in OpenItems : HasRows(item[i].order)}

\* Mutant: only orders with an open item are asked what they count.
EarlierOpen == {item[i].order : i \in OnOrder}

Earlier == {item[i].order : i \in {j \in Items : HasRows(item[j].order)}}

\* What the earlier orders already count of the items that are open
Accounted == Smaller(Known(OpenItems) - Known(OnOrder), OrdersRemaining(Earlier))

\* OpenSale.total: the Total a cart of this sale is prefilled with
PrefilledTotal == Larger(0, Known(OpenItems) - (Accounted + Known(OnOrder)))

-----------------------------------------------------------------------------
\* A row has its item's price, the first cards of a lot a part of it.
RowPrice(i, part) == IF part THEN Won(i) \div 2 ELSE Won(i)

\* A cart with the items S, of which `keep` are not complete.
Register(S, keep, shipping) ==
  /\ Len(orders) < MaxOrders
  /\ S # {} /\ S \subseteq OpenItems /\ keep \subseteq S
  /\ orders' = Append(orders, [total    |-> PrefilledTotal + shipping,
                               shipping |-> shipping,
                               prices   |-> [i \in S |-> RowPrice(i, i \in keep)]])
  /\ item' = [i \in Items |->
               IF i \in S THEN [status |-> IF i \in keep THEN "pending" ELSE "registered",
                                order  |-> Len(orders) + 1,
                                again  |-> item[i].again \/ i \in OnOrder]
               ELSE item[i]]

\* The rest of a lot is priced, and the lot is complete.
Complete(i) ==
  /\ item[i].status = "pending" /\ HasRows(item[i].order)
  /\ item' = [item EXCEPT ![i].status = "registered"]
  /\ orders' = [orders EXCEPT ![item[i].order].prices[i] = RowPrice(i, FALSE)]

\* set_purchase_total(): "the earlier order's Total was set to cover only its
\* own cards".
NarrowTotal(o) ==
  /\ Remaining(o) > 0
  /\ orders' = [orders EXCEPT ![o].total = Total(orders[o].prices) + orders[o].shipping]
  /\ UNCHANGED item

NoRows == [i \in {} |-> 0]

\* Edit order deletes every row, and the Total stored on them.
DeleteOrder(o) ==
  /\ HasRows(o)
  /\ orders' = [orders EXCEPT ![o] = [total |-> 0, shipping |-> 0, prices |-> NoRows]]
  /\ UNCHANGED item

Next ==
  \/ \E S \in SUBSET Items : \E keep \in SUBSET S : \E shipping \in {0, MaxShipping} :
       Register(S, keep, shipping)
  \/ \E i \in Items : Complete(i)
  \/ \E o \in DOMAIN orders : NarrowTotal(o) \/ DeleteOrder(o)

Spec == Init /\ [][Next]_vars

-----------------------------------------------------------------------------
(* OpenSale.total: "so the same money is never in two orders' Totals": however
   a sale is spread over orders, their Totals count none of it twice. *)
NoMoneyTwice ==
  Total([o \in DOMAIN orders |-> orders[o].total - orders[o].shipping]) <= Known(Items)

(* What the code keeps of it: however a sale is spread over orders, edited and
   deleted, no money is counted twice as long as no lot is linked to a cart
   while an order has it. *)
MoneyOnceUnlessAgain == (\A i \in Items : ~item[i].again) => NoMoneyTwice
=============================================================================
