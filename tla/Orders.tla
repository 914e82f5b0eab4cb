------------------------------- MODULE Orders -------------------------------
(***************************************************************************)
(* Orders and the Facebook wins inbox of tcg_inventory: the rows of        *)
(* `transactions` that share a purchase_id, and `won_items` pointing at    *)
(* them.  A request is one step (its writes are one database commit),      *)
(* except Register, which checks the linked items, takes the Order ID lock *)
(* and commits in three, so that two tabs may interleave.  Names, prices   *)
(* and dates are left out; the note Register gives a row is its item.      *)
(***************************************************************************)
EXTENDS Counting, SequencesExt

CONSTANTS
  Items,    \* the wins fb_auction_watcher may send
  NoItem,   \* the note of a row that is not linked to one
  Tabs,     \* the carts, each registered at most once
  NoTab,
  Carts,    \* the carts a user fills: sequences of rows, each an item or NoItem
  MaxTx,    \* bound on rows
  MaxOrder, \* bound on order IDs
  MaxEdits, \* bound on uses of Edit order
  MaxQuick  \* bound on rows added or moved alone

ASSUME OrdersAssumption ==
  /\ Carts \subseteq Seq(Items \cup {NoItem}) /\ NoTab \notin Tabs
  /\ {MaxTx, MaxOrder, MaxEdits, MaxQuick} \subseteq Nat

TxIds == 1..MaxTx
Orders == 1..MaxOrder
NoOrder == 0

VARIABLES
  tx,    \* the rows that exist, by ID (the lowest free ones are given out)
  won,   \* won_items
  lock,  \* the cart that holds _ORDER_ID_LOCK, or NoTab
  cart,  \* the register request of each cart
  edits, \* uses of Edit order so far
  quick  \* rows added or moved alone so far
vars == <<tx, won, lock, cart, edits, quick>>

\* `flow` is the cart whose commit put the row where it is (a ghost), and
\* `whole` whether that commit registered the row's item as complete.
Rows == [order : Orders \cup {NoOrder}, note : Items \cup {NoItem},
         flow : Tabs \cup {NoTab}, whole : BOOLEAN]
Wins == [status : {"absent", "pending", "registered", "ignored"}, order : Orders \cup {NoOrder}]
Linked(rows) == ToSet(rows) \ {NoItem}

TypeOK ==
  /\ DOMAIN tx \subseteq TxIds /\ \A r \in DOMAIN tx : tx[r] \in Rows
  /\ won \in [Items -> Wins]
  /\ lock \in Tabs \cup {NoTab}
  /\ DOMAIN cart = Tabs
  /\ \A t \in Tabs :
       /\ cart[t].pc \in {"filled", "checked", "locked", "done"}
       /\ cart[t].pc \in {"checked", "locked"} =>
            cart[t].rows \in Carts /\ cart[t].read \in [Linked(cart[t].rows) -> Wins]
       /\ cart[t].pc = "locked" => cart[t].id \in Orders
       /\ cart[t].pc = "locked" <=> lock = t
  /\ edits \in 0..MaxEdits /\ quick \in 0..MaxQuick

Init ==
  /\ tx = <<>>
  /\ won = [i \in Items |-> [status |-> "absent", order |-> NoOrder]]
  /\ lock = NoTab
  /\ cart = [t \in Tabs |-> [pc |-> "filled"]]
  /\ edits = 0 /\ quick = 0

RowsOf(rows, o) == {r \in DOMAIN rows : rows[r].order = o}
Exists(o) == RowsOf(tx, o) # {}

\* Pending, or registered on an order that no longer has any transaction.
Missing(i) == won[i].status = "registered" /\ ~Exists(won[i].order)
Open(i) == won[i].status = "pending" \/ Missing(i)

-----------------------------------------------------------------------------
(* The inbox *)

\* Mutant: a win that is sent again is pending again.
UpsertReopens(i) == [won[i] EXCEPT !.status = "pending"]

\* A new ref is pending; what is registered or ignored is never touched.
Upsert(i) == IF won[i].status = "absent" THEN [won[i] EXCEPT !.status = "pending"] ELSE won[i]

SendWins(batch) ==
  /\ won' = [i \in Items |-> IF i \in batch THEN Upsert(i) ELSE won[i]]
  /\ UNCHANGED <<tx, lock, cart, edits, quick>>

Ignore(i) ==
  /\ Open(i)
  /\ won' = [won EXCEPT ![i].status = "ignored"]
  /\ UNCHANGED <<tx, lock, cart, edits, quick>>

\* "Lot complete"
Complete(i) ==
  /\ won[i].status = "pending" /\ Exists(won[i].order)
  /\ won' = [won EXCEPT ![i].status = "registered"]
  /\ UNCHANGED <<tx, lock, cart, edits, quick>>

-----------------------------------------------------------------------------
(* Register: create_purchase().  Mark sold's new order is one with no item. *)

\* linkable_items(): a cart with an item that is not open is refused.
Linkable(items) == \A i \in items : Open(i)

\* What the checks find; the session keeps the rows of won_items it read.
Check(t) ==
  /\ cart[t].pc = "filled"
  /\ \E rows \in Carts : \E keep \in SUBSET Linked(rows) :
       /\ Linkable(Linked(rows))
       /\ cart' = [cart EXCEPT ![t] = [pc |-> "checked", rows |-> rows, keep |-> keep,
                                       read |-> [i \in Linked(rows) |-> won[i]]]]
  /\ UNCHANGED <<tx, won, lock, edits, quick>>

NextOrder == Max({tx[r].order : r \in DOMAIN tx} \cup {0}) + 1

Locked(c, o) == [pc |-> "locked", rows |-> c.rows, keep |-> c.keep, read |-> c.read, id |-> o]

\* Mutant: the lock is not waited for.
AllocateAtOnce(t) ==
  /\ cart[t].pc = "checked"
  /\ NextOrder \in Orders
  /\ lock' = t
  /\ cart' = [cart EXCEPT ![t] = Locked(@, NextOrder)]
  /\ UNCHANGED <<tx, won, edits, quick>>

\* with _allocating_order_id(db): one past the highest number in use
Allocate(t) ==
  /\ cart[t].pc = "checked"
  /\ lock = NoTab
  /\ NextOrder \in Orders
  /\ lock' = t
  /\ cart' = [cart EXCEPT ![t] = Locked(@, NextOrder)]
  /\ UNCHANGED <<tx, won, edits, quick>>

Free == TxIds \ DOMAIN tx
\* The rows with n more, the lowest free IDs given out in order.
Insert(new) ==
  LET given == {r \in Free : Rank(Free, r) <= Len(new)}
  IN  [r \in DOMAIN tx \cup given |-> IF r \in given THEN new[Rank(Free, r)] ELSE tx[r]]

\* The ORM writes a field only when it differs from what the session read.
Written(read, new, now) == IF new = read THEN now ELSE new

\* mark_registered()
Marked(t, i) ==
  LET c == cart[t]
      status == IF i \in c.keep THEN "pending" ELSE "registered"
  IN  IF i \notin Linked(c.rows) THEN won[i]
      ELSE [status |-> Written(c.read[i].status, status, won[i].status),
            order  |-> Written(c.read[i].order, c.id, won[i].order)]

\* The rows, the items and the commit, which frees the lock
Commit(t) ==
  LET c == cart[t]
      Row(k) == [order |-> c.id, note |-> c.rows[k], flow |-> t,
                 whole |-> c.rows[k] \notin c.keep \cup {NoItem}]
  IN  /\ c.pc = "locked"
      /\ Len(c.rows) <= Cardinality(Free)
      /\ tx' = Insert([k \in DOMAIN c.rows |-> Row(k)])
      /\ won' = [i \in Items |-> Marked(t, i)]
      /\ cart' = [cart EXCEPT ![t] = [pc |-> "done"]]
      /\ lock' = NoTab
      /\ UNCHANGED <<edits, quick>>

-----------------------------------------------------------------------------
(* Edit order: update_purchase() *)

CountIn(rows, S, o) == Cardinality({r \in S : rows[r].order = o})

\* _pick_order(): where the rows S ended up
PickOrder(rows, S, source) ==
  LET dests == {rows[r].order : r \in S}
      most == {o \in dests : \A p \in dests : CountIn(rows, S, o) >= CountIn(rows, S, p)}
  IN  IF Cardinality(dests) # 1 /\ source \in dests THEN source ELSE Min(most)

\* Mutant: all of the order's rows decide.
FollowAll(i, source, after) ==
  LET live == RowsOf(tx, source) \cap DOMAIN after
  IN  IF live = {} THEN source ELSE PickOrder(after, live, source)

\* follow_order_edit(): the order item i of order `source` points at, when its
\* rows are the ones of `after` now.  The item's own rows are those with its
\* note before the save; without one, all of the order's rows decide.
Follow(i, source, after) ==
  LET live == RowsOf(tx, source) \cap DOMAIN after
      own == {r \in live : tx[r].note = i}
  IN  IF live = {} THEN source
      ELSE PickOrder(after, IF own = {} THEN live ELSE own, source)

Stay == -1
NewOrder == -2
Delete == -3
\* What the form says of each row: a move clears nothing but the row's place.
Edited(row, target) ==
  IF target = Stay THEN row
  ELSE [row EXCEPT !.flow = NoTab, !.order = IF target = NewOrder THEN NextOrder ELSE target]

\* Rows of order p stay, move, split off into one new order or go; the note of
\* `blank` is cleared.
EditOrder(p) ==
  /\ Exists(p) /\ edits < MaxEdits
  /\ \E plan \in [RowsOf(tx, p) -> {Stay, NewOrder, Delete} \cup (Orders \ {p})] :
     \E blank \in RowsOf(tx, p) \cup {0} :
       LET kept == {r \in DOMAIN tx : r \notin DOMAIN plan \/ plan[r] # Delete}
           after == [r \in kept |->
                      LET row == IF r \in DOMAIN plan THEN Edited(tx[r], plan[r]) ELSE tx[r]
                      IN  IF r = blank THEN [row EXCEPT !.note = NoItem] ELSE row]
       IN  /\ NewOrder \in Range(plan) => lock = NoTab /\ NextOrder \in Orders
           /\ tx' = after
           /\ won' = [i \in Items |->
                       IF won[i].order = p /\ won[i].status # "ignored"
                         THEN [won[i] EXCEPT !.order = Follow(i, p, after)] ELSE won[i]]
  /\ edits' = edits + 1
  /\ UNCHANGED <<lock, cart, quick>>

-----------------------------------------------------------------------------
(* Single rows: none takes an item along, or clears what an order ID means. *)

AddTo(o) ==
  /\ quick < MaxQuick /\ Free # {}
  /\ tx' = Insert(<<[order |-> o, note |-> NoItem, flow |-> NoTab, whole |-> FALSE]>>)
  /\ quick' = quick + 1
  /\ UNCHANGED <<won, lock, cart, edits>>

MoveTo(r, o) ==
  /\ quick < MaxQuick /\ r \in DOMAIN tx
  /\ tx[r].order # o
  /\ tx' = [tx EXCEPT ![r].order = o, ![r].flow = NoTab]
  /\ quick' = quick + 1
  /\ UNCHANGED <<won, lock, cart, edits>>

\* purchase_edit_add_card(): the page may be stale, the order gone
AddCard(o) == o # NoOrder /\ AddTo(o)

\* add_cards_to_existing_order(): only to an order that exists
AddExisting(o) == o # NoOrder /\ Exists(o) /\ AddTo(o)

\* create_transaction(): any number is taken, or none
CreateTransaction(o) == AddTo(o)

\* create_transaction() with `upsert` corrects the one purchase of a card.
CorrectPurchase(r, o) == MoveTo(r, o)

\* update_transaction(), the quick edit of a row
UpdateTransaction(r, o) == MoveTo(r, o)

Inbox == (\E batch \in SUBSET Items : SendWins(batch)) \/ \E i \in Items : Ignore(i) \/ Complete(i)
Register(t) == Check(t) \/ Allocate(t) \/ Commit(t)
RowEdit ==
  \E o \in Orders \cup {NoOrder} :
    \/ AddCard(o) \/ AddExisting(o) \/ CreateTransaction(o)
    \/ \E r \in TxIds : CorrectPurchase(r, o) \/ UpdateTransaction(r, o)

Next == Inbox \/ (\E t \in Tabs : Register(t)) \/ (\E p \in Orders : EditOrder(p)) \/ RowEdit

Spec == Init /\ [][Next]_vars

-----------------------------------------------------------------------------
(* Two carts that are registered at the same time, or a cart and a split,
   never merge into one order. *)
OneFlowPerOrder ==
  \A r, s \in DOMAIN tx :
    tx[r].order = tx[s].order /\ NoTab \notin {tx[r].flow, tx[s].flow}
      => tx[r].flow = tx[s].flow

(* Edit order takes an item along: when its own rows were all on its order and
   are all on one order after the save, it points at that order. *)
FollowsItsCards ==
  \A i \in Items : \A o \in Orders :
    LET own == {r \in DOMAIN tx : tx[r].note = i}
        live == own \cap DOMAIN tx'
    IN  /\ won[i].status \in {"pending", "registered"} /\ cart' = cart /\ quick' = quick
        /\ own # {} /\ \A r \in own : tx[r].order = won[i].order
        /\ live # {} /\ \A r \in live : tx'[r].order = o
        => won'[i].order = o

(* An ignored win stays ignored whatever is sent again, and only a Register
   that had read it as open may still take it. *)
IgnoredStays ==
  \A i \in Items : won[i].status = "ignored" /\ won'[i].status # "ignored"
    => \E t \in Tabs : cart[t].pc = "locked" /\ cart'[t].pc = "done"
                       /\ i \in Linked(cart[t].rows)

(* An order is what was bought in one go: concurrent carts never merge into one
   (_allocating_order_id()), a win follows its rows through Edit order
   (follow_order_edit()), and what you ignored stays ignored (upsert_items()). *)
OrdersStayWhole ==
  []OneFlowPerOrder /\ [][FollowsItsCards /\ IgnoredStays]_vars

(* Not kept (README, Remarks).  linkable_items: "so Register writes nothing rather than registering an item
   twice" -- no item is complete on the rows of two carts. *)
RegisteredOnce ==
  \A r, s \in DOMAIN tx :
    tx[r].whole /\ tx[s].whole /\ tx[r].note = tx[s].note /\ NoTab \notin {tx[r].flow, tx[s].flow}
      => tx[r].flow = tx[s].flow

(* Not kept (README, Remarks).  follow_order_edit: an item whose order lost every row "keeps pointing at
   `source`, which then shows as order missing", until the item itself changes. *)
MissingStaysOpen ==
  \A i \in Items : Missing(i) /\ ~Open(i)' => won'[i] # won[i]
=============================================================================
