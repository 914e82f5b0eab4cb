---------------------------- MODULE ShopProofs ----------------------------
(***************************************************************************)
(* Proofs about the parts that Shop puts together, one section to each:    *)
(* Orders, Sets, SetRanks, Listings, WonSale, MasterSets, Checklists. Each *)
(* property of Shop holds for any wins, carts, cards, lists, prints and    *)
(* catalogues; each rests on an invariant of the part's own.               *)
(***************************************************************************)
EXTENDS Shop, CountingProofs

LEMMA Given ==
  /\ Carts \subseteq Seq(Items \cup {NoItem}) /\ NoTab \notin Tabs
  /\ MaxTx \in Nat /\ MaxOrder \in Nat /\ MaxEdits \in Nat /\ MaxQuick \in Nat
BY OrdersAssumption

-----------------------------------------------------------------------------
(* The inductive invariant *)

\* Nobody else has registered rows under the ID a cart holds the lock for.
IdIsFree ==
  \A t \in Tabs : cart[t].pc = "locked" =>
    \A r \in DOMAIN tx : tx[r].order = cart[t].id => tx[r].flow = NoTab

Inv == TypeOK /\ OneFlowPerOrder /\ IdIsFree

-----------------------------------------------------------------------------
(* The operators *)

LEMMA MinMax ==
  ASSUME NEW n \in Nat, NEW S \in SUBSET (0..n), S # {}
  PROVE  /\ Max(S) \in S /\ \A x \in S : Max(S) >= x
         /\ Min(S) \in S /\ \A x \in S : Min(S) <= x
BY Extremes DEF Max, Min

LEMMA TxIdsFinite == IsFiniteSet(TxIds)
BY Given, FS_Interval DEF TxIds

LEMMA NextOrderIsNew ==
  ASSUME TypeOK
  PROVE  NextOrder \in Nat /\ \A r \in DOMAIN tx : tx[r].order < NextOrder
<1> DEFINE S == {tx[r].order : r \in DOMAIN tx} \cup {0}
<1>1. S \in SUBSET (0..MaxOrder) /\ S # {} /\ \A r \in DOMAIN tx : tx[r].order \in S
  BY Given DEF TypeOK, Rows, Orders, NoOrder
<1>2. NextOrder = Max(S) + 1
  BY DEF NextOrder
<1> HIDE DEF S
<1>3. Max(S) \in S /\ \A x \in S : Max(S) >= x
  BY <1>1, MinMax, Given
<1>4. \A x \in S : x \in Nat
  <2>1. \A x \in 0..MaxOrder : x \in Nat
    OBVIOUS
  <2> QED BY ONLY <1>1, <2>1
<1> DEFINE m == Max(S)
<1>5. m \in Nat /\ NextOrder = m + 1
  BY <1>2, <1>3, <1>4
<1>6. \A r \in DOMAIN tx : tx[r].order \in Nat /\ m >= tx[r].order
  BY <1>1, <1>3, <1>4
<1> HIDE DEF m
<1> QED BY <1>5, <1>6

\* Inserted rows take IDs nobody has; the rest stay as they are.
LEMMA InsertOf ==
  ASSUME TypeOK, NEW R, NEW new \in Seq(R), Len(new) <= Cardinality(Free)
  PROVE  /\ DOMAIN Insert(new) \subseteq TxIds
         /\ \A r \in DOMAIN Insert(new) :
              \/ r \in DOMAIN tx /\ Insert(new)[r] = tx[r]
              \/ \E k \in 1..Len(new) : Insert(new)[r] = new[k]
<1> DEFINE given == {r \in Free : Rank(Free, r) <= Len(new)}
           F == Free
<1>1. F \in SUBSET Int /\ IsFiniteSet(F) /\ F \cap DOMAIN tx = {} /\ F \subseteq TxIds
  <2>1. F \in SUBSET TxIds
    BY DEF Free
  <2>3. IsFiniteSet(F)
    BY <2>1, TxIdsFinite, FS_Subset
  <2>4. \A r \in TxIds : r \in Int
    BY DEF TxIds
  <2> QED BY <2>1, <2>3, <2>4 DEF Free
<1>2. \A r \in F : Rank(F, r) \in 1..Cardinality(F)
  <2> HIDE DEF F
  <2> QED BY <1>1, NthOf
<1>3. Insert(new) = [r \in DOMAIN tx \cup given |-> IF r \in given THEN new[Rank(F, r)] ELSE tx[r]]
  BY DEF Insert
<1>4. \A r \in given : r \in TxIds /\ Rank(F, r) \in 1..Len(new)
  BY <1>1, <1>2
<1>5. DOMAIN tx \subseteq TxIds
  BY DEF TypeOK
<1> HIDE DEF given, F
<1> QED BY <1>3, <1>4, <1>5

\* _pick_order() picks one of the orders the rows are in.
LEMMA PickOrderIsOne ==
  ASSUME NEW rows, NEW S \in SUBSET TxIds, S # {}, NEW source,
         \A r \in S : rows[r].order \in 0..MaxOrder
  PROVE  /\ \E r \in S : PickOrder(rows, S, source) = rows[r].order
         /\ \A o : (\A r \in S : rows[r].order = o) => PickOrder(rows, S, source) = o
<1> DEFINE dests == {rows[r].order : r \in S}
           count(o) == CountIn(rows, S, o)
           most == {o \in dests : \A p \in dests : count(o) >= count(p)}
<1>1. IsFiniteSet(S) /\ Cardinality(S) \in Nat
  BY TxIdsFinite, FS_Subset, FS_CardinalityType
<1>2. \A o : count(o) \in 0..Cardinality(S)
  <2> TAKE o
  <2>1. {r \in S : rows[r].order = o} \in SUBSET S
    OBVIOUS
  <2> HIDE <1>1
  <2>2. IsFiniteSet({r \in S : rows[r].order = o}) /\ Cardinality({r \in S : rows[r].order = o}) <= Cardinality(S)
    BY <1>1, <2>1, FS_Subset
  <2> QED BY <1>1, <2>2, FS_CardinalityType DEF CountIn
<1>3. dests \in SUBSET (0..MaxOrder) /\ dests # {}
  OBVIOUS
<1>4. most # {}
  <2> DEFINE counts == {count(o) : o \in dests}
  <2>1. counts \in SUBSET (0..Cardinality(S)) /\ counts # {}
    BY <1>2, <1>3
  <2>2. Max(counts) \in counts /\ \A c \in counts : Max(counts) >= c
    <3> HIDE DEF counts
    <3> QED BY <1>1, <2>1, MinMax
  <2>3. PICK o \in dests : Max(counts) = count(o)
    BY <2>2
  <2>4. \A p \in dests : count(o) >= count(p)
    BY <2>2, <2>3
  <2> QED BY <2>4
<1>5. Min(most) \in dests
  <2>1. most \in SUBSET (0..MaxOrder) /\ most \subseteq dests
    BY <1>3
  <2> HIDE DEF most, dests
  <2> QED BY <1>4, <2>1, MinMax, Given
<1>6. PickOrder(rows, S, source) = IF Cardinality(dests) # 1 /\ source \in dests THEN source ELSE Min(most)
  BY DEF PickOrder
<1>7. PickOrder(rows, S, source) \in dests
  BY <1>5, <1>6
<1>8. \A o : (\A r \in S : rows[r].order = o) => dests = {o}
  BY <1>3
<1> QED BY <1>7, <1>8

LEMMA FollowType ==
  ASSUME TypeOK, NEW i, NEW p \in Orders, NEW after, \A r \in DOMAIN after : after[r] \in Rows
  PROVE  Follow(i, p, after) \in Orders \cup {NoOrder}
<1> DEFINE live == RowsOf(tx, p) \cap DOMAIN after
           own == {r \in live : tx[r].note = i}
           S == IF own = {} THEN live ELSE own
<1>1. CASE live = {}
  BY <1>1 DEF Follow
<1>2. CASE live # {}
  <2>1. Follow(i, p, after) = PickOrder(after, S, p)
    BY <1>2 DEF Follow
  <2>2. S \in SUBSET TxIds /\ S # {} /\ S \subseteq DOMAIN after
    BY <1>2 DEF TypeOK, RowsOf
  <2> HIDE DEF S
  <2>3. \A r \in S : after[r].order \in Orders \cup {NoOrder}
    BY <2>2 DEF Rows
  <2>4. Orders \cup {NoOrder} = 0..MaxOrder
    BY Given DEF Orders, NoOrder
  <2>5. \E r \in S : PickOrder(after, S, p) = after[r].order
    BY <2>2, <2>3, <2>4, PickOrderIsOne
  <2> QED BY <2>1, <2>3, <2>5
<1> QED BY <1>1, <1>2

\* What Edit order may do to a row.
LEMMA EditedRow ==
  ASSUME TypeOK, NEW row \in Rows, NEW target \in {Stay, NewOrder} \cup Orders,
         target = NewOrder => NextOrder \in Orders
  PROVE  /\ Edited(row, target) \in Rows
         /\ Edited(row, target) = row \/ Edited(row, target).flow = NoTab
         /\ [Edited(row, target) EXCEPT !.note = NoItem] \in Rows
         /\ [Edited(row, target) EXCEPT !.note = NoItem].order = Edited(row, target).order
         /\ [Edited(row, target) EXCEPT !.note = NoItem].flow = Edited(row, target).flow
<1>1. Edited(row, target) \in Rows /\ (Edited(row, target) = row \/ Edited(row, target).flow = NoTab)
  BY DEF Edited, Rows, Stay, NewOrder, Orders
<1> HIDE DEF Edited
<1> QED BY <1>1 DEF Rows

-----------------------------------------------------------------------------
(* Types *)

LEMMA LinkedItems ==
  ASSUME NEW rows \in Carts
  PROVE  /\ rows \in Seq(Items \cup {NoItem}) /\ Len(rows) \in Nat
         /\ Linked(rows) \subseteq Items
<1>1. rows \in Seq(Items \cup {NoItem})
  BY Given
<1> QED BY <1>1 DEF Linked, ToSet

LEMMA UpsertType ==
  ASSUME TypeOK, NEW i \in Items
  PROVE  /\ Upsert(i) \in Wins /\ Upsert(i).order = won[i].order
         /\ won[i].status # "absent" => Upsert(i) = won[i]
BY DEF TypeOK, Wins, Upsert

\* The cart that holds the lock, as Allocate left it.
LEMMA LockedType ==
  ASSUME TypeOK, NEW t \in Tabs, cart[t].pc = "locked"
  PROVE  /\ lock = t /\ t # NoTab
         /\ cart[t].rows \in Carts /\ cart[t].id \in Orders
BY Given DEF TypeOK

LEMMA MarkedType ==
  ASSUME TypeOK, NEW t \in Tabs, cart[t].pc = "locked", NEW i \in Items
  PROVE  Marked(t, i) \in Wins /\ (i \notin Linked(cart[t].rows) => Marked(t, i) = won[i])
BY LockedType DEF Marked, Written, Wins, TypeOK

\* Only the carts' own steps change them.
CartTypes ==
  /\ DOMAIN cart = Tabs
  /\ \A t \in Tabs :
       /\ cart[t].pc \in {"filled", "checked", "locked", "done"}
       /\ cart[t].pc \in {"checked", "locked"} =>
            cart[t].rows \in Carts /\ cart[t].read \in [Linked(cart[t].rows) -> Wins]
       /\ cart[t].pc = "locked" => cart[t].id \in Orders
       /\ cart[t].pc = "locked" <=> lock = t

LEMMA TypeParts ==
  TypeOK <=> /\ DOMAIN tx \subseteq TxIds /\ \A r \in DOMAIN tx : tx[r] \in Rows
             /\ won \in [Items -> Wins]
             /\ lock \in Tabs \cup {NoTab}
             /\ CartTypes
             /\ edits \in 0..MaxEdits /\ quick \in 0..MaxQuick
BY DEF TypeOK, CartTypes

LEMMA TypePartsNext ==
  TypeOK' <=> /\ DOMAIN tx' \subseteq TxIds /\ \A r \in DOMAIN tx' : tx'[r] \in Rows
              /\ won' \in [Items -> Wins]
              /\ lock' \in Tabs \cup {NoTab}
              /\ CartTypes'
              /\ edits' \in 0..MaxEdits /\ quick' \in 0..MaxQuick
BY DEF TypeOK, CartTypes

\* Steps that only add rows no cart registered, or move rows out of their carts' orders.
RowsDrift ==
  \A r \in DOMAIN tx' :
    \/ tx'[r].flow = NoTab
    \/ r \in DOMAIN tx /\ tx'[r].order = tx[r].order /\ tx'[r].flow = tx[r].flow

LEMMA DriftKeeps ==
  ASSUME OneFlowPerOrder, IdIsFree, RowsDrift,
         \A t \in Tabs : cart'[t].pc = "locked" => cart'[t] = cart[t]
  PROVE  OneFlowPerOrder' /\ IdIsFree'
<1>1. OneFlowPerOrder'
  BY DEF OneFlowPerOrder, RowsDrift
<1>2. IdIsFree'
  BY DEF IdIsFree, RowsDrift
<1> QED BY <1>1, <1>2

-----------------------------------------------------------------------------
(* Each step keeps the invariant *)

LEMMA InboxKeeps ==
  ASSUME Inv, Inbox
  PROVE  Inv'
<1>1. UNCHANGED <<tx, lock, cart, edits, quick>>
  BY DEF Inbox, SendWins, Ignore, Complete
<1>2. TypeOK
  BY DEF Inv
<1>3. won' \in [Items -> Wins]
  <2>1. CASE \E batch \in SUBSET Items : SendWins(batch)
    BY <1>2, <2>1, UpsertType DEF SendWins, TypeOK
  <2>2. CASE \E i \in Items : Ignore(i) \/ Complete(i)
    <3>1. PICK i \in Items, st \in {"ignored", "registered"} : won' = [won EXCEPT ![i].status = st]
      BY <2>2 DEF Ignore, Complete
    <3>2. won \in [Items -> Wins]
      BY <1>2 DEF TypeOK
    <3>3. [won[i] EXCEPT !.status = st] \in Wins
      BY <3>2 DEF Wins
    <3> QED BY <3>1, <3>2, <3>3
  <2> QED BY <2>1, <2>2 DEF Inbox
<1>4. TypeOK'
  BY <1>1, <1>2, <1>3, TypeParts, TypePartsNext DEF CartTypes
<1>5. OneFlowPerOrder' /\ IdIsFree'
  BY <1>1, DriftKeeps DEF Inv, RowsDrift
<1> QED BY <1>4, <1>5 DEF Inv

LEMMA CheckKeeps ==
  ASSUME Inv, NEW t \in Tabs, Check(t)
  PROVE  Inv'
<1>1. TypeOK
  BY DEF Inv
<1>2. PICK rows \in Carts, keep \in SUBSET Items :
        cart' = [cart EXCEPT ![t] = [pc |-> "checked", rows |-> rows, keep |-> keep,
                                     read |-> [i \in Linked(rows) |-> won[i]]]]
  BY LinkedItems DEF Check
<1>3. UNCHANGED <<tx, won, lock, edits, quick>> /\ cart[t].pc = "filled"
  BY DEF Check
<1>4. [i \in Linked(rows) |-> won[i]] \in [Linked(rows) -> Wins]
  BY <1>1, LinkedItems DEF TypeOK
<1>5. CartTypes'
  <2>1. lock # t
    BY <1>1, <1>3 DEF TypeOK
  <2> QED BY <1>1, <1>2, <1>3, <1>4, <2>1, TypeParts DEF CartTypes
<1>6. TypeOK'
  BY <1>1, <1>3, <1>5, TypeParts, TypePartsNext
<1>7. \A u \in Tabs : cart'[u].pc = "locked" => cart'[u] = cart[u]
  BY <1>1, <1>2 DEF TypeOK
<1>8. OneFlowPerOrder' /\ IdIsFree'
  BY <1>3, <1>7, DriftKeeps DEF Inv, RowsDrift
<1> QED BY <1>6, <1>8 DEF Inv

LEMMA AllocateKeeps ==
  ASSUME Inv, NEW t \in Tabs, Allocate(t)
  PROVE  Inv'
<1>1. TypeOK
  BY DEF Inv
<1>2. /\ UNCHANGED <<tx, won, edits, quick>>
      /\ cart[t].pc = "checked" /\ lock = NoTab /\ NextOrder \in Orders /\ lock' = t
      /\ cart' = [cart EXCEPT ![t] = Locked(cart[t], NextOrder)]
  BY DEF Allocate
<1>3. /\ Locked(cart[t], NextOrder).pc = "locked" /\ Locked(cart[t], NextOrder).id = NextOrder
      /\ Locked(cart[t], NextOrder).rows = cart[t].rows /\ Locked(cart[t], NextOrder).read = cart[t].read
  BY DEF Locked
<1>4. CartTypes'
  BY <1>1, <1>2, <1>3, TypeParts, Given DEF CartTypes
<1>5. TypeOK'
  BY <1>1, <1>2, <1>4, TypeParts, TypePartsNext
<1>6. OneFlowPerOrder'
  BY <1>2 DEF Inv, OneFlowPerOrder
<1>7. IdIsFree'
  <2>1. \A u \in Tabs : u # t => cart'[u].pc # "locked"
    BY <1>1, <1>2, Given DEF TypeOK
  <2>2. cart'[t].id = NextOrder
    BY <1>1, <1>2, <1>3 DEF TypeOK
  <2>3. \A r \in DOMAIN tx : tx[r].order # NextOrder
    <3>1. \A r \in DOMAIN tx : tx[r].order \in Int
      BY <1>1 DEF TypeOK, Rows, Orders, NoOrder
    <3> QED BY <1>1, <3>1, NextOrderIsNew
  <2> QED BY <1>2, <2>1, <2>2, <2>3 DEF IdIsFree
<1> QED BY <1>5, <1>6, <1>7 DEF Inv

LEMMA CommitKeeps ==
  ASSUME Inv, NEW t \in Tabs, Commit(t)
  PROVE  Inv'
<1> DEFINE c == cart[t]
           Row(k) == [order |-> c.id, note |-> c.rows[k], flow |-> t,
                      whole |-> c.rows[k] \notin c.keep \cup {NoItem}]
           new == [k \in DOMAIN c.rows |-> Row(k)]
<1>1. TypeOK /\ IdIsFree /\ OneFlowPerOrder
  BY DEF Inv
<1>2. /\ c.pc = "locked" /\ Len(c.rows) <= Cardinality(Free)
      /\ tx' = Insert(new)
      /\ won' = [i \in Items |-> Marked(t, i)]
      /\ cart' = [cart EXCEPT ![t] = [pc |-> "done"]]
      /\ lock' = NoTab
      /\ UNCHANGED <<edits, quick>>
  BY DEF Commit
<1>3. /\ lock = t /\ t # NoTab /\ c.id \in Orders
      /\ c.rows \in Seq(Items \cup {NoItem})
  BY <1>1, <1>2, LockedType, LinkedItems
<1>4. new \in Seq(Rows) /\ Len(new) = Len(c.rows)
      /\ \A k \in 1..Len(new) : new[k] \in Rows /\ new[k].order = c.id /\ new[k].flow = t
  <2>1. \A k \in 1..Len(c.rows) : Row(k) \in Rows
    BY <1>3 DEF Rows
  <2>2. new = [k \in 1..Len(c.rows) |-> Row(k)] /\ Len(c.rows) \in Nat
    BY <1>3
  <2>3. \A k \in 1..Len(c.rows) : Row(k).order = c.id /\ Row(k).flow = t
    OBVIOUS
  <2> HIDE DEF Row, new
  <2> QED BY <2>1, <2>2, <2>3
<1> HIDE DEF new
<1>5. /\ DOMAIN tx' \subseteq TxIds
      /\ \A r \in DOMAIN tx' : \/ r \in DOMAIN tx /\ tx'[r] = tx[r]
                               \/ tx'[r] \in Rows /\ tx'[r].order = c.id /\ tx'[r].flow = t
  BY <1>1, <1>2, <1>4, InsertOf
<1> HIDE DEF c
<1>6. \A u \in Tabs : cart'[u].pc # "locked" /\ (u # t => cart'[u] = cart[u])
  BY <1>1, <1>2, <1>3 DEF TypeOK
<1>7. TypeOK'
  <2>1. won' \in [Items -> Wins]
    BY <1>1, <1>2, MarkedType DEF c
  <2>2. CartTypes'
    <3>1. cart'[t].pc = "done" /\ DOMAIN cart' = Tabs
      BY <1>1, <1>2 DEF TypeOK
    <3> QED BY <1>1, <1>2, <1>3, <1>6, <3>1, TypeParts, Given DEF CartTypes
  <2>3. \A r \in DOMAIN tx' : tx'[r] \in Rows
    BY <1>1, <1>5 DEF TypeOK
  <2> QED BY <1>1, <1>2, <1>5, <2>1, <2>2, <2>3, TypeParts, TypePartsNext
<1>8. OneFlowPerOrder'
  <2>1. \A r \in DOMAIN tx : tx[r].order = c.id => tx[r].flow = NoTab
    BY <1>1, <1>2 DEF IdIsFree, c
  <2> QED BY <1>1, <1>5, <2>1 DEF OneFlowPerOrder
<1>9. IdIsFree'
  BY <1>6 DEF IdIsFree
<1> QED BY <1>7, <1>8, <1>9 DEF Inv

LEMMA EditKeeps ==
  ASSUME Inv, NEW p \in Orders, EditOrder(p)
  PROVE  Inv'
<1>1. TypeOK /\ UNCHANGED <<lock, cart, quick>> /\ edits' = edits + 1 /\ edits < MaxEdits
  BY DEF Inv, EditOrder
<1>2. PICK plan \in [RowsOf(tx, p) -> {Stay, NewOrder, Delete} \cup (Orders \ {p})],
           blank \in RowsOf(tx, p) \cup {0} :
        LET kept == {r \in DOMAIN tx : r \notin DOMAIN plan \/ plan[r] # Delete}
            after == [r \in kept |->
                       LET row == IF r \in DOMAIN plan THEN Edited(tx[r], plan[r]) ELSE tx[r]
                       IN  IF r = blank THEN [row EXCEPT !.note = NoItem] ELSE row]
        IN  /\ NewOrder \in Range(plan) => lock = NoTab /\ NextOrder \in Orders
            /\ tx' = after
            /\ won' = [i \in Items |->
                        IF won[i].order = p /\ won[i].status # "ignored"
                          THEN [won[i] EXCEPT !.order = Follow(i, p, after)] ELSE won[i]]
  BY DEF EditOrder
<1> DEFINE kept == {r \in DOMAIN tx : r \notin DOMAIN plan \/ plan[r] # Delete}
           edited(r) == IF r \in DOMAIN plan THEN Edited(tx[r], plan[r]) ELSE tx[r]
<1>3. /\ NewOrder \in Range(plan) => NextOrder \in Orders
      /\ tx' = [r \in kept |-> IF r = blank THEN [edited(r) EXCEPT !.note = NoItem] ELSE edited(r)]
      /\ won' = [i \in Items |->
                  IF won[i].order = p /\ won[i].status # "ignored"
                    THEN [won[i] EXCEPT !.order = Follow(i, p, tx')] ELSE won[i]]
  BY <1>2
<1>4. ASSUME NEW r \in kept
      PROVE  /\ tx'[r] \in Rows
             /\ tx'[r].flow = NoTab \/ (tx'[r].order = tx[r].order /\ tx'[r].flow = tx[r].flow)
  <2>1. tx[r] \in Rows
    BY <1>1 DEF TypeOK
  <2>2. CASE r \in DOMAIN plan
    <3>1. plan[r] \in {Stay, NewOrder} \cup Orders
      BY <2>2
    <3>2. plan[r] = NewOrder => NextOrder \in Orders
      BY <1>3, <2>2 DEF Range
    <3>3. tx'[r] = IF r = blank THEN [Edited(tx[r], plan[r]) EXCEPT !.note = NoItem] ELSE Edited(tx[r], plan[r])
      BY <1>3, <2>2
    <3> QED BY <1>1, <2>1, <3>1, <3>2, <3>3, EditedRow
  <2>3. CASE r \notin DOMAIN plan
    <3>1. tx'[r] = IF r = blank THEN [tx[r] EXCEPT !.note = NoItem] ELSE tx[r]
      BY <1>3, <2>3
    <3> QED BY <2>1, <3>1 DEF Rows
  <2> QED BY <2>2, <2>3
<1>5. DOMAIN tx' = kept /\ kept \subseteq DOMAIN tx
  BY <1>3
<1> HIDE DEF kept, edited
<1>6. won' \in [Items -> Wins]
  <2>1. \A i \in Items : Follow(i, p, tx') \in Orders \cup {NoOrder}
    BY <1>1, <1>4, <1>5, FollowType
  <2>2. \A i \in Items : [won[i] EXCEPT !.order = Follow(i, p, tx')] \in Wins /\ won[i] \in Wins
    BY <1>1, <2>1 DEF TypeOK, Wins
  <2> QED BY <1>3, <2>2
<1>7. TypeOK'
  <2>1. edits' \in 0..MaxEdits
    BY <1>1, Given DEF TypeOK
  <2>2. CartTypes'
    BY <1>1, TypeParts DEF CartTypes
  <2> QED BY <1>1, <1>4, <1>5, <1>6, <2>1, <2>2, TypeParts, TypePartsNext
<1>8. RowsDrift
  BY <1>4, <1>5 DEF RowsDrift
<1>9. OneFlowPerOrder' /\ IdIsFree'
  BY <1>1, <1>8, DriftKeeps DEF Inv
<1> QED BY <1>7, <1>9 DEF Inv

LEMMA RowEditKeeps ==
  ASSUME Inv, RowEdit
  PROVE  Inv'
<1>1. TypeOK
  BY DEF Inv
<1>2. PICK o \in Orders \cup {NoOrder} : AddTo(o) \/ \E r \in TxIds : MoveTo(r, o)
  BY DEF RowEdit, AddCard, AddExisting, CreateTransaction, CorrectPurchase, UpdateTransaction
<1>3. UNCHANGED <<won, lock, cart, edits>> /\ quick < MaxQuick /\ quick' = quick + 1
  BY <1>2 DEF AddTo, MoveTo
<1>4. DOMAIN tx' \subseteq TxIds /\ (\A r \in DOMAIN tx' : tx'[r] \in Rows) /\ RowsDrift
  <2>1. CASE AddTo(o)
    <3> DEFINE row == [order |-> o, note |-> NoItem, flow |-> NoTab, whole |-> FALSE]
               new == <<row>>
    <3>1. row \in Rows
      BY DEF Rows
    <3> HIDE DEF row
    <3>2. new \in Seq(Rows) /\ Len(new) = 1 /\ \A k \in 1..Len(new) : new[k] = row
      BY <3>1
    <3>3. 1 <= Cardinality(Free)
      <4>1. IsFiniteSet(Free)
        <5>1. Free \in SUBSET TxIds
          BY DEF Free
        <5> QED BY <5>1, TxIdsFinite, FS_Subset
      <4>2. Cardinality(Free) \in Nat /\ Cardinality(Free) # 0
        <5>1. Free # {}
          BY <2>1 DEF AddTo
        <5> QED BY <4>1, <5>1, FS_CardinalityType, FS_EmptySet
      <4> QED BY <4>2
    <3>4. tx' = Insert(new)
      BY <2>1 DEF AddTo, row
    <3>5. row.flow = NoTab
      BY DEF row
    <3> HIDE DEF new
    <3>6. /\ DOMAIN tx' \subseteq TxIds
          /\ \A r \in DOMAIN tx' : (r \in DOMAIN tx /\ tx'[r] = tx[r]) \/ tx'[r] = row
      BY <1>1, <3>2, <3>3, <3>4, InsertOf
    <3> QED BY <1>1, <3>1, <3>5, <3>6 DEF RowsDrift, TypeOK
  <2>2. ASSUME NEW r \in TxIds, MoveTo(r, o)
        PROVE  DOMAIN tx' \subseteq TxIds /\ (\A u \in DOMAIN tx' : tx'[u] \in Rows) /\ RowsDrift
    <3>1. r \in DOMAIN tx /\ tx' = [tx EXCEPT ![r].order = o, ![r].flow = NoTab]
      BY <2>2 DEF MoveTo
    <3>2. tx[r] \in Rows
      BY <1>1, <3>1 DEF TypeOK
    <3>3. tx'[r] \in Rows /\ tx'[r].flow = NoTab
      BY <3>1, <3>2 DEF Rows
    <3>4. DOMAIN tx' = DOMAIN tx /\ \A u \in DOMAIN tx : u # r => tx'[u] = tx[u]
      BY <3>1
    <3> QED BY <1>1, <3>3, <3>4 DEF TypeOK, RowsDrift
  <2> QED BY <1>2, <2>1, <2>2
<1>5. TypeOK'
  <2>1. quick' \in 0..MaxQuick
    BY <1>1, <1>3, Given DEF TypeOK
  <2>2. CartTypes'
    BY <1>1, <1>3, TypeParts DEF CartTypes
  <2> QED BY <1>1, <1>3, <1>4, <2>1, <2>2, TypeParts, TypePartsNext
<1>6. OneFlowPerOrder' /\ IdIsFree'
  BY <1>3, <1>4, DriftKeeps DEF Inv
<1> QED BY <1>5, <1>6 DEF Inv

LEMMA InvHolds == Spec => []Inv
<1>1. Init => Inv
  <2> SUFFICES ASSUME Init PROVE TypeOK /\ OneFlowPerOrder /\ IdIsFree
    BY DEF Inv
  <2>1. DOMAIN tx = {}
    BY DEF Init
  <2>2. TypeOK
    BY <2>1, Given DEF Init, TypeOK, Wins, NoOrder
  <2> QED BY <2>1, <2>2 DEF OneFlowPerOrder, IdIsFree
<1>2. Inv /\ [Next]_vars => Inv'
  <2>1. ASSUME Inv, UNCHANGED vars PROVE Inv'
    BY <2>1 DEF vars, Inv, TypeOK, OneFlowPerOrder, IdIsFree
  <2> QED BY <2>1, InboxKeeps, CheckKeeps, AllocateKeeps, CommitKeeps, EditKeeps, RowEditKeeps
          DEF Next, Register
<1> QED BY <1>1, <1>2, PTL DEF Spec

-----------------------------------------------------------------------------
(* What a step may not do *)

\* In a step that changes no cart and no single row, a win goes with its rows.
LEMMA Follows == ASSUME TypeOK, [Next]_vars PROVE FollowsItsCards
<1>1. SUFFICES ASSUME NEW i \in Items, NEW o \in Orders,
                      won[i].status \in {"pending", "registered"}, cart' = cart, quick' = quick,
                      NEW r0 \in DOMAIN tx, tx[r0].note = i,
                      \A r \in DOMAIN tx : tx[r].note = i => tx[r].order = won[i].order,
                      NEW r1 \in DOMAIN tx \cap DOMAIN tx', tx[r1].note = i,
                      \A r \in DOMAIN tx \cap DOMAIN tx' : tx[r].note = i => tx'[r].order = o
               PROVE  won'[i].order = o
  BY DEF FollowsItsCards
<1>2. tx[r1].order = won[i].order /\ tx'[r1].order = o
  BY <1>1
<1>3. CASE Inbox
  <2>1. tx' = tx /\ won'[i].order = won[i].order
    <3>1. CASE \E batch \in SUBSET Items : SendWins(batch)
      BY <3>1, UpsertType DEF SendWins
    <3>2. CASE \E j \in Items : Ignore(j) \/ Complete(j)
      <4>1. PICK j \in Items, st \in {"ignored", "registered"} : won' = [won EXCEPT ![j].status = st] /\ tx' = tx
        BY <3>2 DEF Ignore, Complete
      <4> QED BY <4>1 DEF TypeOK, Wins
    <3> QED BY <1>3, <3>1, <3>2 DEF Inbox
  <2> QED BY <1>2, <2>1
<1>4. ~ \E t \in Tabs : Register(t)
  <2> SUFFICES ASSUME NEW t \in Tabs, Register(t) PROVE FALSE
    OBVIOUS
  <2>1. cart'[t].pc # cart[t].pc
    <3>1. CASE Check(t)
      BY <3>1 DEF Check, TypeOK
    <3>2. CASE Allocate(t)
      <4>1. cart'[t] = Locked(cart[t], NextOrder)
        BY <3>2 DEF Allocate, TypeOK
      <4> QED BY <3>2, <4>1 DEF Allocate, Locked
    <3>3. CASE Commit(t)
      BY <3>3 DEF Commit, TypeOK
    <3> QED BY <3>1, <3>2, <3>3 DEF Register
  <2> QED BY <1>1, <2>1
<1>5. ~ RowEdit
  <2>1. quick \in Nat
    BY Given DEF TypeOK
  <2>2. RowEdit => quick' = quick + 1
    BY DEF RowEdit, AddCard, AddExisting, CreateTransaction, CorrectPurchase, UpdateTransaction, AddTo, MoveTo
  <2> QED BY <1>1, <2>1, <2>2
<1>6. ASSUME NEW p \in Orders, EditOrder(p) PROVE won'[i].order = o
  <2>1. PICK plan \in [RowsOf(tx, p) -> {Stay, NewOrder, Delete} \cup (Orders \ {p})],
             blank \in RowsOf(tx, p) \cup {0} :
          LET kept == {r \in DOMAIN tx : r \notin DOMAIN plan \/ plan[r] # Delete}
              after == [r \in kept |->
                         LET row == IF r \in DOMAIN plan THEN Edited(tx[r], plan[r]) ELSE tx[r]
                         IN  IF r = blank THEN [row EXCEPT !.note = NoItem] ELSE row]
          IN  /\ tx' = after
              /\ won' = [j \in Items |->
                          IF won[j].order = p /\ won[j].status # "ignored"
                            THEN [won[j] EXCEPT !.order = Follow(j, p, after)] ELSE won[j]]
    BY <1>6 DEF EditOrder
  <2>2. CASE won[i].order = p
    <3>1. won'[i].order = Follow(i, p, tx')
      BY <1>1, <2>1, <2>2 DEF TypeOK, Wins
    <3> DEFINE S == {r \in RowsOf(tx, p) \cap DOMAIN tx' : tx[r].note = i}
    <3>2. S \in SUBSET TxIds /\ r1 \in S /\ \A r \in S : tx'[r].order = o
      BY <1>1, <1>2, <2>2 DEF RowsOf, TypeOK
    <3>3. Follow(i, p, tx') = PickOrder(tx', S, p)
      BY <3>2 DEF Follow
    <3> HIDE DEF S
    <3>4. \A r \in S : tx'[r].order \in 0..MaxOrder
      BY <3>2, Given DEF Orders
    <3>5. PickOrder(tx', S, p) = o
      BY <3>2, <3>4, PickOrderIsOne
    <3> QED BY <3>1, <3>3, <3>5
  <2>3. CASE won[i].order # p
    <3>1. won'[i] = won[i]
      BY <2>1, <2>3
    <3>2. tx'[r1].order = tx[r1].order
      <4>1. r1 \notin DOMAIN plan /\ tx[r1] \in Rows
        BY <1>2, <2>3 DEF RowsOf, TypeOK
      <4>2. tx'[r1] \in {tx[r1], [tx[r1] EXCEPT !.note = NoItem]}
        BY <1>1, <2>1, <4>1
      <4> QED BY <4>1, <4>2 DEF Rows
    <3> QED BY <1>2, <3>1, <3>2
  <2> QED BY <2>2, <2>3
<1>7. CASE UNCHANGED vars
  BY <1>2, <1>7 DEF vars
<1> QED BY <1>3, <1>4, <1>5, <1>6, <1>7 DEF Next

LEMMA StaysIgnored == ASSUME TypeOK, [Next]_vars PROVE IgnoredStays
<1>1. SUFFICES ASSUME NEW i \in Items, won[i].status = "ignored", won'[i].status # "ignored"
               PROVE  \E t \in Tabs : cart[t].pc = "locked" /\ cart'[t].pc = "done"
                                      /\ i \in Linked(cart[t].rows)
  BY DEF IgnoredStays
<1>2. won \in [Items -> Wins]
  BY DEF TypeOK
<1>3. ASSUME Inbox PROVE FALSE
  <2>1. CASE \E batch \in SUBSET Items : SendWins(batch)
    BY <1>1, <2>1, UpsertType DEF SendWins
  <2>2. ASSUME NEW j \in Items, Ignore(j) \/ Complete(j) PROVE FALSE
    <3>1. CASE j = i
      <4>1. Ignore(j)
        BY <1>1, <2>2, <3>1 DEF Complete
      <4>2. won' = [won EXCEPT ![i].status = "ignored"]
        BY <3>1, <4>1 DEF Ignore
      <4> QED BY <1>1, <1>2, <4>2 DEF Wins
    <3>2. CASE j # i
      <4>1. won'[i] = won[i]
        BY <1>2, <2>2, <3>2 DEF Ignore, Complete
      <4> QED BY <1>1, <4>1
    <3> QED BY <3>1, <3>2
  <2> QED BY <1>3, <2>1, <2>2 DEF Inbox
<1>4. ASSUME NEW t \in Tabs, Register(t)
      PROVE  cart[t].pc = "locked" /\ cart'[t].pc = "done" /\ i \in Linked(cart[t].rows)
  <2>1. Commit(t)
    BY <1>1, <1>4 DEF Register, Check, Allocate
  <2>2. cart[t].pc = "locked" /\ cart'[t].pc = "done"
    BY <2>1 DEF Commit, TypeOK
  <2>3. won'[i] = Marked(t, i)
    BY <2>1 DEF Commit
  <2> QED BY <1>1, <2>2, <2>3, MarkedType
<1>5. ASSUME NEW p \in Orders, EditOrder(p) PROVE FALSE
  <2>1. won'[i] = won[i]
    BY <1>1, <1>2, <1>5 DEF EditOrder
  <2> QED BY <1>1, <2>1
<1>6. RowEdit \/ UNCHANGED vars => won' = won
  BY DEF RowEdit, AddCard, AddExisting, CreateTransaction, CorrectPurchase, UpdateTransaction, AddTo, MoveTo, vars
<1> QED BY <1>1, <1>3, <1>4, <1>5, <1>6 DEF Next

\* Each variable keeps its type.
THEOREM TypeCorrect == Spec => []TypeOK
<1>1. Inv => TypeOK
  BY DEF Inv
<1> QED BY <1>1, InvHolds, PTL

\* An order is what was bought in one go: two carts that are registered at the same time,
\* or a cart and a split, never merge into one (_allocating_order_id()), a win follows its
\* rows through Edit order (follow_order_edit()), and what you ignored stays ignored
\* (upsert_items()).
THEOREM OrdersStay == Spec => OrdersStayWhole
<1>1. Inv => OneFlowPerOrder
  BY DEF Inv
<1>2. Inv /\ [Next]_vars => [FollowsItsCards /\ IgnoredStays]_vars
  BY Follows, StaysIgnored DEF Inv
<1> QED BY <1>1, <1>2, InvHolds, PTL DEF Spec, OrdersStayWhole
-----------------------------------------------------------------------------
(* Sets *)

\* A cold start has read every stale pair there is, and what a sync has seen of its card
\* is as it was unless a cold start has written it since.
SetsInv ==
  /\ SE!TypeOK /\ SE!CardsLinked
  /\ s4.todo # {} => \A c \in Cards \ s5 : s2[c] = s1[c] \/ s1[c] \in s4.todo
  /\ \A r \in s3 : ~r.crossed => r.seen = s2[r.card]

LEMMA SetsBegin ==
  ASSUME SE!Init
  PROVE  SetsInv
BY DEF SE!Init, SE!TypeOK, SE!CardsLinked, SetsInv

LEMMA SetsStep ==
  ASSUME SetsInv, SE!Next
  PROVE  SetsInv'
<1> USE DEF SetsInv
<1>1. ASSUME NEW c \in Cards, NEW p \in Pairs, SE!ImportRead(c, p)
      PROVE  SetsInv'
  <2> DEFINE r == [card |-> c, to |-> p, seen |-> s2[c], crossed |-> FALSE]
  <2>1. s3' = {r} /\ UNCHANGED <<s1, s2, s4, s5>>
    BY <1>1 DEF SE!ImportRead
  <2>2. r \in SE!Reads /\ ~r.crossed /\ r.seen = s2[r.card]
    BY DEF SE!Reads, SE!TypeOK
  <2> HIDE DEF r
  <2>3. SE!TypeOK'
    BY <2>1, <2>2 DEF SE!TypeOK
  <2>4. SE!CardsLinked'
    BY <2>1 DEF SE!CardsLinked
  <2> QED BY <2>1, <2>2, <2>3, <2>4
<1>2. ASSUME SE!ImportWrite
      PROVE  SetsInv'
  <2>1. PICK r \in s3 :
          /\ s1' = [s1 EXCEPT ![r.card] = r.to]
          /\ s2' = [s2 EXCEPT ![r.card] = SE!Linked(r)]
          /\ s5' = IF r.crossed THEN s5 \cup {r.card} ELSE s5 \ {r.card}
          /\ s3' = {} /\ s4' = s4
    BY <1>2 DEF SE!ImportWrite
  <2>2. r.card \in Cards /\ r.to \in Pairs /\ r.seen \in Pairs \cup {SE!NoSet} /\ r.crossed \in BOOLEAN
    BY DEF SE!TypeOK, SE!Reads
  <2>3. SE!Linked(r) \in Pairs \cup {SE!NoSet}
    BY <2>2 DEF SE!Linked, SE!TypeOK
  <2>4. SE!TypeOK'
    <3>1. s1' \in [Cards -> Pairs] /\ s2' \in [Cards -> Pairs \cup {SE!NoSet}]
      BY <2>1, <2>2, <2>3 DEF SE!TypeOK
    <3>2. s5' \subseteq Cards
      BY <2>1, <2>2 DEF SE!TypeOK
    <3> QED BY <2>1, <3>1, <3>2 DEF SE!TypeOK
  <2>5. ~r.crossed => SE!Linked(r) = r.to
    BY DEF SE!Linked
  <2>6. \A c \in Cards \ s5' : IF c = r.card THEN s2'[c] = s1'[c]
                                             ELSE c \notin s5 /\ s1'[c] = s1[c] /\ s2'[c] = s2[c]
    BY <2>1, <2>2, <2>5 DEF SE!TypeOK
  <2>7. SE!CardsLinked'
    BY <2>1, <2>6 DEF SE!CardsLinked
  <2> QED BY <2>1, <2>4, <2>6, <2>7
<1>3. ASSUME SE!ColdRead
      PROVE  SetsInv'
  <2>1. /\ s4' = [started |-> s4.started \/ SE!StalePairs = {}, todo |-> SE!StalePairs]
        /\ UNCHANGED <<s1, s2, s3, s5>>
    BY <1>3 DEF SE!ColdRead
  <2>2. \A c \in Cards : s2[c] = s1[c] \/ s1[c] \in SE!StalePairs
    BY DEF SE!StalePairs
  <2>3. SE!StalePairs \subseteq Pairs
    BY DEF SE!StalePairs, SE!TypeOK
  <2>4. SE!TypeOK'
    BY <2>1, <2>3 DEF SE!TypeOK
  <2>5. SE!CardsLinked'
    BY <2>1, <2>2 DEF SE!CardsLinked
  <2> QED BY <2>1, <2>2, <2>4, <2>5
<1>4. ASSUME SE!ColdWrite
      PROVE  SetsInv'
  <2> DEFINE over(r) == [r EXCEPT !.crossed = @ \/ r.card \in SE!Relinked]
  <2>1. /\ s4.todo # {}
        /\ s2' = [c \in Cards |-> IF c \in SE!Relinked THEN s1[c] ELSE s2[c]]
        /\ s3' = {over(r) : r \in s3}
        /\ s5' = s5 \ SE!Relinked
        /\ s4' = [started |-> TRUE, todo |-> {}] /\ s1' = s1
    BY <1>4 DEF SE!ColdWrite
  <2>2. ASSUME NEW r \in s3
        PROVE  /\ over(r) \in SE!Reads /\ over(r).card = r.card /\ over(r).seen = r.seen
               /\ over(r).crossed = (r.crossed \/ r.card \in SE!Relinked)
    <3>1. r \in SE!Reads
      BY DEF SE!TypeOK
    <3>2. (r.card \in SE!Relinked) \in BOOLEAN /\ r.crossed \in BOOLEAN
      BY <3>1 DEF SE!Reads
    <3> HIDE DEF SetsInv
    <3> QED BY ONLY <3>1, <3>2 DEF SE!Reads
  <2> HIDE DEF over
  <2>3. SE!TypeOK'
    <3>1. s2' \in [Cards -> Pairs \cup {SE!NoSet}]
      BY <2>1 DEF SE!TypeOK
    <3>2. s3' \subseteq SE!Reads /\ s5' \subseteq Cards
      BY <2>1, <2>2 DEF SE!TypeOK
    <3> QED BY <2>1, <3>1, <3>2 DEF SE!TypeOK
  <2>4. \A c \in Cards \ s5' : s2'[c] = s1'[c]
    BY <2>1 DEF SE!Relinked
  <2>5. \A r \in s3' : ~r.crossed => r.seen = s2'[r.card]
    <3> SUFFICES ASSUME NEW r \in s3, ~over(r).crossed
                 PROVE  over(r).seen = s2'[over(r).card]
      BY <2>1
    <3>1. r.card \notin SE!Relinked /\ r.seen = s2[r.card]
      BY <2>2
    <3>2. r.card \in Cards
      BY DEF SE!TypeOK, SE!Reads
    <3> QED BY <2>1, <2>2, <3>1, <3>2
  <2> QED BY <2>1, <2>3, <2>4, <2>5 DEF SE!CardsLinked
<1>5. ASSUME SE!Rollback
      PROVE  SetsInv'
  <2>1. UNCHANGED <<s1, s2, s5>>
    BY <1>5 DEF SE!Rollback
  <2>2. CASE s3' = {} /\ s4' = s4
    BY <2>1, <2>2 DEF SE!TypeOK, SE!CardsLinked
  <2>3. CASE s4' = [s4 EXCEPT !.todo = {}] /\ s3' = s3
    <3>1. s4'.started = s4.started /\ s4'.todo = {} /\ s4' \in [started : BOOLEAN, todo : SUBSET Pairs]
      BY <2>3 DEF SE!TypeOK
    <3> QED BY <2>1, <2>3, <3>1 DEF SE!TypeOK, SE!CardsLinked
  <2> QED BY <1>5, <2>2, <2>3 DEF SE!Rollback
<1> QED BY <1>1, <1>2, <1>3, <1>4, <1>5 DEF SE!Next

LEMMA SetsStutter ==
  ASSUME SetsInv, UNCHANGED <<s1, s2, s3, s4, s5>>
  PROVE  SetsInv'
BY DEF SetsInv, SE!TypeOK, SE!CardsLinked, SE!NoSet, SE!Reads

-----------------------------------------------------------------------------
(* SetRanks *)

\* A rank from a list is one more than the sets of that list before the one it matched.
RankedBy(row) ==
  /\ row.from \subseteq Api /\ IsFiniteSet(row.from) /\ row.of \subseteq row.from
  /\ \A s \in row.of : row.rank = Cardinality({t \in row.from : SR!Before(t, s)}) + 1

RanksInv ==
  /\ SR!TypeOK /\ IsFiniteSet(s2)
  /\ \A p \in DOMAIN s1 : RankedBy(s1[p])

LEMMA RanksGiven ==
  /\ \A s \in Api : s.id \in Nat /\ s.date \in Nat /\ s.total \in Nat
  /\ \A p \in DOMAIN HandRanks : HandRanks[p] \in Nat
BY SetsAssumption

LEMMA RanksCardinality == \A A : SR!Cardinality(A) = Cardinality(A)
BY DEF SR!Cardinality, Cardinality

\* The sets that come before a set are fewer than those before a later one, in any list
\* that has the later one and all that came before the earlier one.
LEMMA LaterRanksHigher ==
  ASSUME NEW A \in SUBSET Api, NEW B \in SUBSET Api, IsFiniteSet(A), IsFiniteSet(B),
         NEW s \in A, NEW t \in B, SR!Before(s, t), \A u \in A \ B : ~SR!Before(u, t)
  PROVE  Cardinality({u \in A : SR!Before(u, s)}) < Cardinality({u \in B : SR!Before(u, t)})
<1> DEFINE X == {u \in A : SR!Before(u, s)}
           Y == {u \in B : SR!Before(u, t)}
<1>1. \A u \in Api : ~SR!Before(u, u)
  BY RanksGiven DEF SR!Before
<1>2. \A u \in Api : SR!Before(u, s) => SR!Before(u, t)
  BY RanksGiven DEF SR!Before, SR!Undated
<1>3. X \subseteq Y /\ s \in Y /\ s \notin X
  BY <1>1, <1>2
<1>4. IsFiniteSet(X) /\ IsFiniteSet(Y)
  <2>1. X \subseteq A /\ Y \subseteq B
    OBVIOUS
  <2> QED BY <2>1, FS_Subset
<1>5. Cardinality(X) <= Cardinality(Y) /\ (Cardinality(X) = Cardinality(Y) => X = Y)
  BY <1>3, <1>4, FS_Subset
<1> QED BY <1>3, <1>4, <1>5, FS_CardinalityType

LEMMA RanksFollow ==
  ASSUME RanksInv
  PROVE  SR!RanksFollowDates
<1> SUFFICES ASSUME NEW p \in DOMAIN s1, NEW q \in DOMAIN s1, NEW s \in s1[p].of, NEW t \in s1[q].of,
                    SR!Before(s, t), ~(\E u \in s1[p].from \ s1[q].from : SR!Before(u, t))
             PROVE  s1[p].rank < s1[q].rank
  BY DEF SR!RanksFollowDates
<1> DEFINE A == s1[p].from
           B == s1[q].from
           a == Cardinality({u \in A : SR!Before(u, s)})
           b == Cardinality({u \in B : SR!Before(u, t)})
<1>1. /\ A \in SUBSET Api /\ B \in SUBSET Api /\ IsFiniteSet(A) /\ IsFiniteSet(B)
      /\ s \in A /\ t \in B /\ s1[p].rank = a + 1 /\ s1[q].rank = b + 1
  BY DEF RanksInv, RankedBy
<1>2. a \in Nat /\ b \in Nat
  <2>1. {u \in A : SR!Before(u, s)} \subseteq A /\ {u \in B : SR!Before(u, t)} \subseteq B
    OBVIOUS
  <2> HIDE DEF A, B
  <2> QED BY <1>1, <2>1, FS_Subset, FS_CardinalityType
<1>3. \A u \in A \ B : ~SR!Before(u, t)
  OBVIOUS
<1> HIDE DEF A, B
<1>4. a < b
  BY <1>1, <1>3, LaterRanksHigher
<1> HIDE DEF a, b
<1> QED BY <1>1, <1>2, <1>4

LEMMA RanksBegin ==
  ASSUME SR!Init
  PROVE  RanksInv
BY FS_EmptySet DEF SR!Init, SR!TypeOK, RanksInv

LEMMA RanksStep ==
  ASSUME RanksInv, SR!Next
  PROVE  RanksInv'
<1>1. ASSUME NEW p \in Pairs, NEW rank \in {SR!Unknown} \cup {HandRanks[q] : q \in DOMAIN HandRanks},
             SR!Create(p, rank)
      PROVE  RanksInv'
  <2> DEFINE row == [rank |-> rank, total |-> SR!Unknown, from |-> {}, of |-> {}]
  <2>1. s2' = s2 /\ s1' = [q \in DOMAIN s1 \cup {p} |-> IF q = p THEN row ELSE s1[q]]
    BY <1>1 DEF SR!Create
  <2>2. row.rank \in Nat /\ row.total \in Nat /\ row.from = {} /\ row.of = {}
    BY RanksGiven DEF SR!Unknown
  <2>3. RankedBy(row)
    BY <2>2, FS_EmptySet DEF RankedBy
  <2> HIDE DEF row
  <2>4. DOMAIN s1' = DOMAIN s1 \cup {p} /\ \A q \in DOMAIN s1' : s1'[q] = row \/ (q \in DOMAIN s1 /\ s1'[q] = s1[q])
    BY <2>1
  <2>5. SR!TypeOK'
    BY <2>1, <2>2, <2>4 DEF RanksInv, SR!TypeOK
  <2>6. \A q \in DOMAIN s1' : RankedBy(s1'[q])
    BY <2>3, <2>4 DEF RanksInv
  <2> QED BY <2>1, <2>5, <2>6 DEF RanksInv, RankedBy
<1>2. ASSUME NEW overwrite \in BOOLEAN, SR!SetSync(overwrite)
      PROVE  RanksInv'
  <2>1. DOMAIN s1' = DOMAIN s1 /\ s2' = s2
    BY <1>2 DEF SR!SetSync
  <2>2. ASSUME NEW p \in DOMAIN s1
        PROVE  s1'[p] = s1[p] \/ \E s \in s2 : s1'[p] = SR!Filled(p, s, overwrite)
    <3>1. SR!Matches(p) \subseteq s2
      BY DEF SR!Matches
    <3> QED BY <1>2, <3>1 DEF SR!SetSync
  <2>3. ASSUME NEW p \in DOMAIN s1, NEW s \in s2, NEW row, row = SR!Filled(p, s, overwrite)
        PROVE  /\ row.rank \in Nat /\ row.total \in Nat
               /\ row.from \subseteq Api /\ row.of \subseteq row.from /\ RankedBy(row)
    <3>0. /\ s1[p].rank \in Nat /\ s1[p].from \subseteq Api /\ s1[p].of \subseteq s1[p].from
          /\ s2 \subseteq Api /\ IsFiniteSet(s2) /\ RankedBy(s1[p]) /\ s.total \in Nat
      BY RanksGiven DEF RanksInv, SR!TypeOK
    <3> DEFINE n == Cardinality({t \in s2 : SR!Before(t, s)}) + 1
    <3>1. n \in Nat
      <4>1. {t \in s2 : SR!Before(t, s)} \subseteq s2
        OBVIOUS
      <4> QED BY <3>0, <4>1, FS_Subset, FS_CardinalityType
    <3>2. CASE row = [rank |-> n, total |-> s.total, from |-> s2, of |-> {s}]
      <4>1. row.rank = n /\ row.total = s.total /\ row.from = s2 /\ row.of = {s}
        BY <3>2
      <4> QED BY <3>0, <3>1, <4>1 DEF RankedBy
    <3>3. CASE row = [s1[p] EXCEPT !.total = s.total] /\ ~(overwrite \/ s1[p].rank = SR!Unknown)
      <4>1. row.rank = s1[p].rank /\ row.from = s1[p].from /\ row.of = s1[p].of
        BY <3>3
      <4>2. row.total \in Nat
        BY <2>3, <3>0, <3>3
      <4> QED BY <3>0, <4>1, <4>2 DEF RankedBy
    <3> QED BY <2>3, <3>2, <3>3, RanksCardinality DEF SR!Filled, SR!ApiRank
  <2>4. \A p \in DOMAIN s1' : /\ s1'[p].rank \in Nat /\ s1'[p].total \in Nat
                              /\ s1'[p].from \subseteq Api /\ s1'[p].of \subseteq s1'[p].from /\ RankedBy(s1'[p])
    BY <2>1, <2>2, <2>3 DEF RanksInv, SR!TypeOK
  <2> QED BY <2>1, <2>4 DEF RanksInv, SR!TypeOK, RankedBy
<1>3. ASSUME NEW s \in Api, SR!Publish(s)
      PROVE  RanksInv'
  <2>1. s2' = s2 \cup {s} /\ s1' = s1
    BY <1>3 DEF SR!Publish
  <2>2. IsFiniteSet(s2')
    BY <2>1, FS_AddElement DEF RanksInv
  <2> QED BY <2>1, <2>2 DEF RanksInv, SR!TypeOK, RankedBy
<1> QED BY <1>1, <1>2, <1>3 DEF SR!Next

LEMMA RanksStutter ==
  ASSUME RanksInv, UNCHANGED <<s1, s2>>
  PROVE  RanksInv'
BY DEF RanksInv, SR!TypeOK, RankedBy

\* Every card links to the set it is in but for those a sync and a cold start wrote across
\* each other, whatever their reads and writes; and ranks follow the release order but for
\* sets listed late: for any cards, sets, lists of the API and hand-made ranks.
THEOREM SetsAreLinked == ShopSpec => []SetsLinked
<1> DEFINE I == /\ part = "sets" => SetsInv
                /\ part = "ranks" => RanksInv
<1>1. ShopInit => I
  BY SetsBegin, RanksBegin DEF ShopInit
<1>2. I /\ [ShopNext]_shopvars => I'
  <2> SUFFICES ASSUME I, [ShopNext]_shopvars PROVE I'
    OBVIOUS
  <2>1. part' = part
    BY DEF ShopNext, OtherPart, shopvars
  <2>2. CASE part = "sets"
    <3>1. SetsInv /\ (SE!Next \/ UNCHANGED <<s1, s2, s3, s4, s5>>)
      BY <2>2 DEF ShopNext, OtherPart, shopvars
    <3>2. SetsInv'
      BY <3>1, SetsStep, SetsStutter
    <3> QED BY <2>1, <2>2, <3>2
  <2>3. CASE part = "ranks"
    <3>1. RanksInv /\ (SR!Next \/ UNCHANGED <<s1, s2>>)
      BY <2>3 DEF ShopNext, OtherPart, shopvars
    <3>2. RanksInv'
      BY <3>1, RanksStep, RanksStutter
    <3> QED BY <2>1, <2>3, <3>2
  <2> QED BY <2>1, <2>2, <2>3
<1>3. I => SetsLinked
  BY RanksFollow DEF SetsInv, SetsLinked
<1> HIDE DEF I
<1> QED BY <1>1, <1>2, <1>3, PTL DEF ShopSpec

-----------------------------------------------------------------------------
(* Listings *)

CardRecs == [exists : BOOLEAN, flagged : BOOLEAN, transit : BOOLEAN]
AdRecs == [status : {"none", "active", "delisted", "sold", "deleted"}, cards : SUBSET Cards, undone : SUBSET Tabs]
SoldRecs == [by : Tabs, ad : Ads, card : Cards, link : Ads \cup {NoAd}, late : BOOLEAN]
FormRecs == [pc : {"open", "checked", "done"}, ad : Ads \cup {NoAd}, cards : SUBSET Cards, over : SUBSET Tabs]
Deletions == {"none", "checked", "flushed"}

\* A form that has been submitted has read a listing.
ListingsTyped ==
  /\ s1 \in [Cards -> CardRecs]
  /\ s2 \in [Ads -> AdRecs]
  /\ s3 \in SUBSET SoldRecs
  /\ s4 \in [Tabs -> FormRecs]
  /\ s5 \in [Cards -> Deletions]
  /\ \A t \in Tabs : s4[t].pc # "open" => s4[t].ad \in Ads

LEMMA ListingsTypes == ASSUME ListingsTyped PROVE LI!TypeOK
BY DEF ListingsTyped, LI!TypeOK, CardRecs, AdRecs, SoldRecs, FormRecs, Deletions

LEMMA ListingsTypesBegin == ASSUME LI!Init PROVE ListingsTyped
<1>1. s1 \in [Cards -> CardRecs]
  <2>1. {[exists |-> TRUE, flagged |-> FALSE, transit |-> t] : t \in BOOLEAN} \subseteq CardRecs
    <3>1. \A b \in BOOLEAN : [exists |-> TRUE, flagged |-> FALSE, transit |-> b] \in CardRecs
      BY DEF CardRecs
    <3> QED BY <3>1
  <2> QED BY <2>1 DEF LI!Init
<1>2. /\ s2 \in [Ads -> AdRecs] /\ s4 \in [Tabs -> FormRecs] /\ s3 = {} /\ s5 \in [Cards -> Deletions]
      /\ \A t \in Tabs : s4[t].pc = "open"
  BY DEF LI!Init, AdRecs, FormRecs, Deletions
<1> QED BY <1>1, <1>2 DEF ListingsTyped

LEMMA ListingsTypesStep == ASSUME ListingsTyped, LI!Next PROVE ListingsTyped'
<1>1. ASSUME NEW l \in Ads, NEW r \in AdRecs, s2' = [s2 EXCEPT ![l] = r], s3' \in SUBSET SoldRecs,
             UNCHANGED <<s1, s4, s5>>
      PROVE  ListingsTyped'
  BY <1>1 DEF ListingsTyped
<1>2. ASSUME NEW l \in Ads, LI!AdStep(l) PROVE ListingsTyped'
  <2>0. s2[l] \in AdRecs /\ s3 \in SUBSET SoldRecs
    BY DEF ListingsTyped
  <2>1. CASE LI!Delist(l)
    <3> DEFINE x == s2[l].undone \cup LI!SoldBy(l)
               r == [s2[l] EXCEPT !.status = "delisted", !.undone = x]
    <3>1. s2' = [s2 EXCEPT ![l] = r] /\ UNCHANGED <<s1, s3, s4, s5>>
      BY <2>1 DEF LI!Delist
    <3>2. x \in SUBSET Tabs
      BY <2>0 DEF AdRecs, SoldRecs, LI!SoldBy
    <3> HIDE DEF x
    <3>3. r \in AdRecs
      BY <2>0, <3>2 DEF AdRecs
    <3> HIDE DEF r
    <3> QED BY <1>1, <2>0, <3>1, <3>3
  <2>2. CASE LI!DeleteListing(l)
    <3> DEFINE r == [s2[l] EXCEPT !.status = "deleted", !.cards = {}]
    <3>1. s2' = [s2 EXCEPT ![l] = r] /\ UNCHANGED <<s1, s4, s5>> /\ s3' = LI!RowsOfDeleted(l)
      BY <2>2 DEF LI!DeleteListing
    <3>2. r \in AdRecs
      BY <2>0 DEF AdRecs
    <3>3. s3' \in SUBSET SoldRecs
      <4>1. ASSUME NEW q \in SoldRecs PROVE [q EXCEPT !.link = NoAd] \in SoldRecs
        BY DEF SoldRecs
      <4> QED BY <2>0, <3>1, <4>1 DEF LI!RowsOfDeleted
    <3> HIDE DEF r
    <3> QED BY <1>1, <3>1, <3>2, <3>3
  <2>3. ASSUME NEW S \in SUBSET Cards, LI!MarkListed(l, S) PROVE ListingsTyped'
    <3> DEFINE x == LI!Sellable(S)
               r == [s2[l] EXCEPT !.status = "active", !.cards = x]
    <3>1. s2' = [s2 EXCEPT ![l] = r] /\ UNCHANGED <<s1, s3, s4, s5>> /\ x \in SUBSET Cards
      BY <2>3 DEF LI!MarkListed, LI!Sellable, LI!InDb
    <3> HIDE DEF x
    <3>2. r \in AdRecs
      BY <2>0, <3>1 DEF AdRecs
    <3> HIDE DEF r
    <3> QED BY <1>1, <2>0, <3>1, <3>2
  <2>4. ASSUME NEW S \in SUBSET Cards, LI!Edit(l, S) PROVE ListingsTyped'
    <3> DEFINE x == LI!InDb(S)
               r == [s2[l] EXCEPT !.cards = x]
    <3>1. s2' = [s2 EXCEPT ![l] = r] /\ UNCHANGED <<s1, s3, s4, s5>> /\ x \in SUBSET Cards
      BY <2>4 DEF LI!Edit, LI!InDb
    <3> HIDE DEF x
    <3>2. r \in AdRecs
      BY <2>0, <3>1 DEF AdRecs
    <3> HIDE DEF r
    <3> QED BY <1>1, <2>0, <3>1, <3>2
  <2> QED BY <1>2, <2>1, <2>2, <2>3, <2>4 DEF LI!AdStep
<1>3. ASSUME NEW c \in Cards, LI!CardStep(c) PROVE ListingsTyped'
  <2>0. s1 \in [Cards -> CardRecs] /\ s1[c] \in CardRecs
    BY DEF ListingsTyped
  <2>1. ASSUME s1' \in [Cards -> CardRecs], s5' \in [Cards -> Deletions], s3' \in SUBSET SoldRecs, UNCHANGED <<s2, s4>>
        PROVE  ListingsTyped'
    BY <2>1 DEF ListingsTyped
  <2>2. CASE LI!Flag(c) \/ LI!Arrive(c)
    <3>1. PICK r \in CardRecs : s1' = [s1 EXCEPT ![c] = r] /\ UNCHANGED <<s2, s3, s4, s5>>
      <4>1. CASE LI!Flag(c)
        <5> DEFINE x == ~s1[c].flagged
                   r == [s1[c] EXCEPT !.flagged = x]
        <5>1. s1' = [s1 EXCEPT ![c] = r] /\ UNCHANGED <<s2, s3, s4, s5>> /\ x \in BOOLEAN
          BY <2>0, <4>1 DEF LI!Flag, CardRecs
        <5> HIDE DEF x
        <5>2. r \in CardRecs
          BY <2>0, <5>1 DEF CardRecs
        <5> HIDE DEF r
        <5> QED BY <5>1, <5>2
      <4>2. CASE LI!Arrive(c)
        <5> DEFINE r == [s1[c] EXCEPT !.transit = FALSE]
        <5>1. s1' = [s1 EXCEPT ![c] = r] /\ UNCHANGED <<s2, s3, s4, s5>>
          BY <4>2 DEF LI!Arrive
        <5>2. r \in CardRecs
          BY <2>0 DEF CardRecs
        <5> HIDE DEF r
        <5> QED BY <5>1, <5>2
      <4> QED BY <2>2, <4>1, <4>2
    <3>2. s5' \in [Cards -> Deletions] /\ s3' \in SUBSET SoldRecs
      BY <3>1 DEF ListingsTyped
    <3> QED BY <2>0, <2>1, <3>1, <3>2
  <2>3. CASE LI!DeleteCheck(c) \/ LI!DeleteFlush(c)
    <3>1. PICK d \in Deletions : s5' = [s5 EXCEPT ![c] = d] /\ UNCHANGED <<s1, s2, s3, s4>>
      <4>1. "checked" \in Deletions /\ "none" \in Deletions /\ "flushed" \in Deletions
        BY DEF Deletions
      <4> QED BY <2>3, <4>1 DEF LI!DeleteCheck, LI!DeleteFlush
    <3> QED BY <2>1, <3>1 DEF ListingsTyped
  <2>4. CASE LI!DeleteCommit(c)
    <3> DEFINE r == [s1[c] EXCEPT !.exists = FALSE]
    <3>1. s1' = [s1 EXCEPT ![c] = r] /\ s5' = [s5 EXCEPT ![c] = "none"] /\ s3' = s3 \ LI!RowsOf(c) /\ UNCHANGED <<s2, s4>>
      BY <2>4 DEF LI!DeleteCommit
    <3>2. r \in CardRecs
      BY <2>0 DEF CardRecs
    <3> HIDE DEF r
    <3>3. s5' \in [Cards -> Deletions] /\ s3' \in SUBSET SoldRecs
      BY <3>1 DEF ListingsTyped, Deletions
    <3> QED BY <2>0, <2>1, <3>1, <3>2, <3>3
  <2> QED BY <1>3, <2>2, <2>3, <2>4 DEF LI!CardStep
<1>4. ASSUME NEW t \in Tabs, LI!SoldStep(t) PROVE ListingsTyped'
  <2>0. s4[t] \in FormRecs
    BY DEF ListingsTyped
  <2>1. ASSUME NEW l \in Ads, LI!SoldCheck(t, l) PROVE ListingsTyped'
    <3> DEFINE r == [pc |-> "checked", ad |-> l, cards |-> LI!Lot(l), over |-> LI!SoldBy(l)]
    <3>1. s4' = [s4 EXCEPT ![t] = r] /\ UNCHANGED <<s1, s2, s3, s5>>
      BY <2>1 DEF LI!SoldCheck
    <3>2. LI!Lot(l) \in SUBSET Cards /\ LI!SoldBy(l) \in SUBSET Tabs
      BY DEF LI!Lot, LI!InDb, LI!SoldBy, ListingsTyped, AdRecs, SoldRecs
    <3>3. r \in FormRecs /\ r.ad \in Ads
      BY <3>2 DEF FormRecs
    <3> HIDE DEF r
    <3> QED BY <3>1, <3>3 DEF ListingsTyped
  <2>2. CASE LI!SoldCommit(t)
    <3> DEFINE r == [s4[t] EXCEPT !.pc = "done"]
               l == s4[t].ad
               q == [s2[l] EXCEPT !.status = "sold"]
               new == {LI!NewRow(t, c) : c \in s4[t].cards}
    <3>1. /\ s4' = [s4 EXCEPT ![t] = r] /\ UNCHANGED <<s1, s5>> /\ s4[t].pc = "checked"
          /\ UNCHANGED <<s2, s3>> \/ (s2' = [s2 EXCEPT ![l] = q] /\ s3' = s3 \cup new)
      BY <2>2 DEF LI!SoldCommit
    <3>2. l \in Ads
      BY <3>1 DEF ListingsTyped
    <3>3. r \in FormRecs /\ r.pc = "done" /\ r.ad = l
      BY <2>0 DEF FormRecs
    <3>4. q \in AdRecs
      <4>1. s2[l] \in AdRecs
        BY <3>2 DEF ListingsTyped
      <4> HIDE DEF l
      <4> QED BY <4>1 DEF AdRecs
    <3>5. new \in SUBSET SoldRecs
      <4>1. s4[t].cards \in SUBSET Cards
        BY <2>0 DEF FormRecs
      <4>2. ASSUME NEW c \in s4[t].cards PROVE LI!NewRow(t, c) \in SoldRecs
        <5>1. (s5[c] = "flushed") \in BOOLEAN /\ c \in Cards
          BY <4>1
        <5> QED BY <3>2, <5>1 DEF LI!NewRow, SoldRecs
      <4> HIDE DEF l
      <4> QED BY <4>2
    <3> HIDE DEF r, l, q, new
    <3> QED BY <3>1, <3>2, <3>3, <3>4, <3>5 DEF ListingsTyped
  <2> QED BY <1>4, <2>1, <2>2 DEF LI!SoldStep
<1> QED BY <1>2, <1>3, <1>4 DEF LI!Next

LEMMA ListingsTypesStutter == ASSUME ListingsTyped, UNCHANGED <<s1, s2, s3, s4, s5>> PROVE ListingsTyped'
BY DEF ListingsTyped

\* A listing with a sale row is sold, or the sale was delisted; every sale a submit has
\* seen was delisted; and a row of a card whose deletion has read its rows came later.
ListingsInv ==
  /\ ListingsTyped
  /\ \A r \in s3 : /\ r.link \in {r.ad, NoAd} /\ s4[r.by].pc = "done" /\ s4[r.by].ad = r.ad
                   /\ r.link # NoAd => s2[r.ad].status = "sold" \/ r.by \in s2[r.ad].undone
                   /\ s5[r.card] = "flushed" => r.late
  /\ \A t \in Tabs : s4[t].pc # "open" => s4[t].over \subseteq s2[s4[t].ad].undone

LEMMA ListingsBegin == ASSUME LI!Init PROVE ListingsInv
BY ListingsTypesBegin DEF LI!Init, ListingsInv

LEMMA SoldOnceThen == ASSUME ListingsInv, NoAd \notin Ads PROVE LI!SoldOnce
<1> SUFFICES ASSUME NEW r \in s3, NEW q \in s3, r.link = q.link, r.link # NoAd, r.by \in s4[q.by].over
             PROVE  r.by \in s2[r.link].undone
  BY DEF LI!SoldOnce
<1>1. q.by \in Tabs
  BY DEF ListingsInv, ListingsTyped, SoldRecs
<1>2. r.link = q.ad /\ s4[q.by].pc = "done" /\ s4[q.by].ad = q.ad
  BY DEF ListingsInv
<1> QED BY <1>1, <1>2 DEF ListingsInv

\* While the rows stay as they are
LEMMA ListingsFrame ==
  ASSUME ListingsInv, ListingsTyped', s3' = s3,
         \A l \in Ads : /\ s2[l].undone \subseteq s2'[l].undone
                        /\ s2[l].status = "sold" => s2'[l].status = "sold" \/ LI!SoldBy(l) \subseteq s2'[l].undone,
         \A t \in Tabs : s4'[t] = s4[t] \/ s4[t].pc = "open",
         \A t \in Tabs : s4'[t].pc # "open" => s4'[t].over \subseteq s2'[s4'[t].ad].undone,
         \A r \in s3 : s5'[r.card] = "flushed" => s5[r.card] = "flushed"
  PROVE  ListingsInv' /\ LI!HistoryKept
<1>1. ASSUME NEW r \in s3
      PROVE  /\ r.link \in {r.ad, NoAd} /\ s4'[r.by].pc = "done" /\ s4'[r.by].ad = r.ad
             /\ r.link # NoAd => s2'[r.ad].status = "sold" \/ r.by \in s2'[r.ad].undone
             /\ s5'[r.card] = "flushed" => r.late
  <2>1. r.ad \in Ads /\ r.by \in Tabs
    BY DEF ListingsInv, ListingsTyped, SoldRecs
  <2>2. s4'[r.by] = s4[r.by]
    BY <2>1 DEF ListingsInv
  <2>3. r.link # NoAd => r.by \in LI!SoldBy(r.ad)
    BY DEF LI!SoldBy, ListingsInv
  <2> QED BY <2>1, <2>2, <2>3 DEF ListingsInv
<1>2. LI!HistoryKept
  BY DEF LI!HistoryKept, LI!Sold
<1> QED BY <1>1, <1>2 DEF ListingsInv

LEMMA ListingsStep ==
  ASSUME ListingsInv, LI!Next, NoAd \notin Ads
  PROVE  ListingsInv' /\ LI!HistoryKept
<1>0. /\ ListingsTyped' /\ ListingsTyped /\ s3 \in SUBSET SoldRecs /\ s4 \in [Tabs -> FormRecs]
      /\ s2 \in [Ads -> AdRecs] /\ s5 \in [Cards -> Deletions]
  BY ListingsTypesStep DEF ListingsInv, ListingsTyped
<1>a. \A t \in Tabs : s4[t].pc # "open" => s4[t].ad \in Ads /\ s4[t].over \subseteq s2[s4[t].ad].undone
  BY DEF ListingsInv, ListingsTyped
<1>1. ASSUME NEW l \in Ads, LI!AdStep(l) PROVE ListingsInv' /\ LI!HistoryKept
  <2>0. s2[l] \in AdRecs
    BY <1>0
  <2>1. CASE LI!DeleteListing(l)
    <3>1. /\ s2' = [s2 EXCEPT ![l].status = "deleted", ![l].cards = {}] /\ UNCHANGED <<s1, s4, s5>>
          /\ s3' = {IF r.link = l THEN [r EXCEPT !.link = NoAd] ELSE r : r \in s3}
      BY <2>1 DEF LI!DeleteListing, LI!RowsOfDeleted
    <3>2. \A k \in Ads : s2'[k].undone = s2[k].undone /\ (k # l => s2'[k] = s2[k])
      BY <1>0, <2>0, <3>1 DEF AdRecs
    <3>3. ASSUME NEW q \in s3'
          PROVE  \E r \in s3 : /\ q.by = r.by /\ q.ad = r.ad /\ q.card = r.card /\ q.late = r.late
                              /\ q.link = IF r.link = l THEN NoAd ELSE r.link
      <4>1. PICK r \in s3 : q = IF r.link = l THEN [r EXCEPT !.link = NoAd] ELSE r
        BY <3>1
      <4>2. r \in SoldRecs
        BY <1>0
      <4> QED BY <4>1, <4>2 DEF SoldRecs
    <3>4. ASSUME NEW q \in s3'
          PROVE  /\ q.link \in {q.ad, NoAd} /\ s4'[q.by].pc = "done" /\ s4'[q.by].ad = q.ad
                 /\ q.link # NoAd => s2'[q.ad].status = "sold" \/ q.by \in s2'[q.ad].undone
                 /\ s5'[q.card] = "flushed" => q.late
      <4>1. PICK r \in s3 : /\ q.by = r.by /\ q.ad = r.ad /\ q.card = r.card /\ q.late = r.late
                           /\ q.link = IF r.link = l THEN NoAd ELSE r.link
        BY <3>3
      <4>2. r.ad \in Ads
        BY <1>0 DEF SoldRecs
      <4>3. /\ r.link \in {r.ad, NoAd} /\ s4[r.by].pc = "done" /\ s4[r.by].ad = r.ad
            /\ r.link # NoAd => s2[r.ad].status = "sold" \/ r.by \in s2[r.ad].undone
            /\ s5[r.card] = "flushed" => r.late
        BY DEF ListingsInv
      <4> QED BY <3>1, <3>2, <4>1, <4>2, <4>3
    <3>5. LI!HistoryKept
      <4>1. ASSUME NEW r \in s3
            PROVE  \E q \in s3' : q.by = r.by /\ q.ad = r.ad /\ q.card = r.card
        <5>1. r \in SoldRecs /\ (IF r.link = l THEN [r EXCEPT !.link = NoAd] ELSE r) \in s3'
          BY <1>0, <3>1
        <5> QED BY <5>1 DEF SoldRecs
      <4> QED BY <4>1 DEF LI!HistoryKept, LI!Sold
    <3> QED BY <1>0, <1>a, <3>1, <3>2, <3>4, <3>5 DEF ListingsInv
  <2>2. CASE LI!Delist(l)
    <3>1. /\ s2' = [s2 EXCEPT ![l].status = "delisted", ![l].undone = @ \cup LI!SoldBy(l)]
          /\ UNCHANGED <<s1, s3, s4, s5>>
      BY <2>2 DEF LI!Delist
    <3>2. /\ s2'[l].undone = s2[l].undone \cup LI!SoldBy(l)
          /\ \A k \in Ads : k # l => s2'[k] = s2[k]
      BY <1>0, <2>0, <3>1 DEF AdRecs
    <3>3. \A k \in Ads : s2[k].undone \subseteq s2'[k].undone
      BY <3>2
    <3>4. \A t \in Tabs : s4'[t].pc # "open" => s4'[t].over \subseteq s2'[s4'[t].ad].undone
      BY <1>a, <3>1, <3>3
    <3> QED BY <1>0, <3>1, <3>2, <3>3, <3>4, ListingsFrame
  <2>3. ASSUME NEW S \in SUBSET Cards, LI!MarkListed(l, S) \/ LI!Edit(l, S) PROVE ListingsInv' /\ LI!HistoryKept
    <3>1. /\ UNCHANGED <<s1, s3, s4, s5>>
          /\ \A k \in Ads : s2'[k].undone = s2[k].undone /\ (s2[k].status = "sold" => s2'[k].status = "sold")
      <4>1. CASE LI!MarkListed(l, S)
        <5>1. /\ s2' = [s2 EXCEPT ![l].status = "active", ![l].cards = LI!Sellable(S)]
              /\ UNCHANGED <<s1, s3, s4, s5>> /\ s2[l].status = "none"
          BY <4>1 DEF LI!MarkListed
        <5> QED BY <1>0, <2>0, <5>1 DEF AdRecs
      <4>2. CASE LI!Edit(l, S)
        <5>1. s2' = [s2 EXCEPT ![l].cards = LI!InDb(S)] /\ UNCHANGED <<s1, s3, s4, s5>>
          BY <4>2 DEF LI!Edit
        <5> QED BY <1>0, <2>0, <5>1 DEF AdRecs
      <4> QED BY <2>3, <4>1, <4>2
    <3>2. \A t \in Tabs : s4'[t].pc # "open" => s4'[t].over \subseteq s2'[s4'[t].ad].undone
      BY <1>a, <3>1
    <3> QED BY <1>0, <3>1, <3>2, ListingsFrame
  <2> QED BY <1>1, <2>1, <2>2, <2>3 DEF LI!AdStep
<1>2. ASSUME NEW c \in Cards, LI!CardStep(c) PROVE ListingsInv' /\ LI!HistoryKept
  <2>1. CASE LI!DeleteCommit(c)
    <3>1. s5[c] = "flushed" /\ s5' = [s5 EXCEPT ![c] = "none"] /\ s3' = s3 \ LI!RowsOf(c) /\ UNCHANGED <<s2, s4>>
      BY <2>1 DEF LI!DeleteCommit
    <3>2. \A r \in LI!RowsOf(c) : r.late
      BY <3>1 DEF ListingsInv, LI!RowsOf
    <3>3. LI!HistoryKept
      BY <3>1, <3>2 DEF LI!HistoryKept, LI!Sold
    <3>4. \A r \in s3' : r \in s3 /\ (s5'[r.card] = "flushed" => s5[r.card] = "flushed")
      BY <1>0, <3>1 DEF SoldRecs
    <3> QED BY <1>0, <3>1, <3>3, <3>4 DEF ListingsInv
  <2>2. CASE LI!Flag(c) \/ LI!Arrive(c) \/ LI!DeleteCheck(c) \/ LI!DeleteFlush(c)
    <3>1. /\ UNCHANGED <<s2, s3, s4>>
          /\ \A r \in s3 : s5'[r.card] = "flushed" => s5[r.card] = "flushed"
      <4>1. ASSUME LI!DeleteFlush(c), NEW r \in s3, s5'[r.card] = "flushed" PROVE s5[r.card] = "flushed"
        <5>1. r.card \in Cards /\ s5' = [s5 EXCEPT ![c] = IF LI!HasRows(c) THEN "none" ELSE "flushed"]
          BY <1>0, <4>1 DEF LI!DeleteFlush, SoldRecs
        <5>2. r.card = c => LI!HasRows(c)
          BY DEF LI!HasRows, LI!RowsOf
        <5> QED BY <1>0, <4>1, <5>1, <5>2
      <4>2. ASSUME LI!DeleteCheck(c), NEW r \in s3, s5'[r.card] = "flushed" PROVE s5[r.card] = "flushed"
        <5>1. r.card \in Cards /\ s5' = [s5 EXCEPT ![c] = "checked"]
          BY <1>0, <4>2 DEF LI!DeleteCheck, SoldRecs
        <5> QED BY <1>0, <4>2, <5>1
      <4> QED BY <2>2, <4>1, <4>2 DEF LI!Flag, LI!Arrive, LI!DeleteCheck, LI!DeleteFlush
    <3> QED BY <1>0, <1>a, <3>1, ListingsFrame
  <2> QED BY <1>2, <2>1, <2>2 DEF LI!CardStep
<1>3. ASSUME NEW t \in Tabs, NEW l \in Ads, LI!SoldCheck(t, l) PROVE ListingsInv' /\ LI!HistoryKept
  <2>1. /\ s4[t].pc = "open" /\ s2[l].status # "sold" /\ UNCHANGED <<s1, s2, s3, s5>>
        /\ s4' = [s4 EXCEPT ![t] = [pc |-> "checked", ad |-> l, cards |-> LI!Lot(l), over |-> LI!SoldBy(l)]]
    BY <1>3 DEF LI!SoldCheck, LI!Refused
  <2>2. LI!SoldBy(l) \subseteq s2[l].undone
    <3> SUFFICES ASSUME NEW r \in s3, r.link = l PROVE r.by \in s2[l].undone
      BY DEF LI!SoldBy
    <3> QED BY <2>1 DEF ListingsInv
  <2>3. \A u \in Tabs : s4'[u].pc # "open" => s4'[u].over \subseteq s2'[s4'[u].ad].undone
    BY <1>0, <1>a, <2>1, <2>2
  <2>4. \A u \in Tabs : s4'[u] = s4[u] \/ s4[u].pc = "open"
    BY <1>0, <2>1
  <2> QED BY <1>0, <2>1, <2>3, <2>4, ListingsFrame
<1>4. ASSUME NEW t \in Tabs, LI!SoldCommit(t) PROVE ListingsInv' /\ LI!HistoryKept
  <2> DEFINE l == s4[t].ad
             new == {LI!NewRow(t, c) : c \in s4[t].cards}
  <2>1. /\ s4[t].pc = "checked" /\ s4' = [s4 EXCEPT ![t].pc = "done"] /\ UNCHANGED <<s1, s5>>
        /\ UNCHANGED <<s2, s3>> \/ (s2' = [s2 EXCEPT ![l].status = "sold"] /\ s3' = s3 \cup new)
    BY <1>4 DEF LI!SoldCommit
  <2>2. l \in Ads /\ s4[t] \in FormRecs /\ s2[l] \in AdRecs
    BY <1>0, <1>a, <2>1
  <2>3. /\ s4'[t].pc = "done" /\ s4'[t].ad = l /\ s4'[t].over = s4[t].over
        /\ \A u \in Tabs : u # t => s4'[u] = s4[u]
    BY <1>0, <2>1, <2>2 DEF FormRecs
  <2>4. \A k \in Ads : s2'[k].undone = s2[k].undone /\ (s2[k].status = "sold" => s2'[k].status = "sold")
    BY <1>0, <2>1, <2>2 DEF AdRecs
  <2>5. \A u \in Tabs : s4'[u].pc # "open" => s4'[u].over \subseteq s2'[s4'[u].ad].undone
    BY <1>a, <2>1, <2>3, <2>4
  <2>6. ASSUME NEW r \in s3
        PROVE  /\ r.link \in {r.ad, NoAd} /\ s4'[r.by].pc = "done" /\ s4'[r.by].ad = r.ad
               /\ r.link # NoAd => s2'[r.ad].status = "sold" \/ r.by \in s2'[r.ad].undone
               /\ s5'[r.card] = "flushed" => r.late
    <3>1. r.ad \in Ads /\ r.by \in Tabs
      BY <1>0 DEF SoldRecs
    <3>2. /\ r.link \in {r.ad, NoAd} /\ s4[r.by].pc = "done" /\ s4[r.by].ad = r.ad
          /\ r.link # NoAd => s2[r.ad].status = "sold" \/ r.by \in s2[r.ad].undone
          /\ s5[r.card] = "flushed" => r.late
      BY DEF ListingsInv
    <3>3. r.by # t
      BY <2>1, <3>2
    <3> QED BY <2>1, <2>3, <2>4, <3>1, <3>2, <3>3
  <2>7. ASSUME s2' = [s2 EXCEPT ![l].status = "sold"], NEW c \in s4[t].cards, NEW q, q = LI!NewRow(t, c)
        PROVE  /\ q.link \in {q.ad, NoAd} /\ s4'[q.by].pc = "done" /\ s4'[q.by].ad = q.ad
               /\ q.link # NoAd => s2'[q.ad].status = "sold" \/ q.by \in s2'[q.ad].undone
               /\ s5'[q.card] = "flushed" => q.late
    <3>1. q.by = t /\ q.ad = l /\ q.link = l /\ q.card = c /\ q.late = (s5[c] = "flushed")
      BY <2>7 DEF LI!NewRow
    <3>2. s2'[l].status = "sold"
      BY <1>0, <2>2, <2>7 DEF AdRecs
    <3> QED BY <2>1, <2>3, <3>1, <3>2
  <2>8. ASSUME NEW q \in s3'
        PROVE  /\ q.link \in {q.ad, NoAd} /\ s4'[q.by].pc = "done" /\ s4'[q.by].ad = q.ad
               /\ q.link # NoAd => s2'[q.ad].status = "sold" \/ q.by \in s2'[q.ad].undone
               /\ s5'[q.card] = "flushed" => q.late
    <3>1. CASE q \in s3
      BY <2>6, <3>1
    <3>2. CASE q \notin s3
      <4>1. s2' = [s2 EXCEPT ![l].status = "sold"] /\ q \in new
        BY <2>1, <3>2
      <4>2. PICK c \in s4[t].cards : q = LI!NewRow(t, c)
        BY <4>1
      <4> QED BY <2>7, <4>1, <4>2
    <3> QED BY <3>1, <3>2
  <2>9. LI!HistoryKept
    BY <2>1 DEF LI!HistoryKept, LI!Sold
  <2> QED BY <1>0, <2>5, <2>8, <2>9 DEF ListingsInv
<1> QED BY <1>1, <1>2, <1>3, <1>4 DEF LI!Next, LI!SoldStep

-----------------------------------------------------------------------------
(* WonSale *)

LEMMA WonSums == \A f, S : WS!Sigma(f, S) = Sigma(f, S)
BY DEF WS!Sigma, Sigma, WS!Fns!SumFunctionOnSet, WS!Fns!FoldFunctionOnSet, WS!Fns!MapThenFoldSet,
       Fns!SumFunctionOnSet, Fns!FoldFunctionOnSet, Fns!MapThenFoldSet

OrderRows == UNION {[S -> Nat] : S \in SUBSET SaleItems}
OrderRec == [total : Int, shipping : Int, prices : OrderRows]
Won == [i \in SaleItems |-> WS!Won(i)]
Counted == [o \in 1..Len(s2) |-> s2[o].total - s2[o].shipping]

\* An order that has rows has those of the items that point to it, each at no
\* more than the item was won for; one without counts nothing.
WonInv ==
  /\ s1 \in [SaleItems -> [status : {"pending", "registered"}, order : 0..Len(s2), again : BOOLEAN]]
  /\ s2 \in Seq(OrderRec) /\ Len(s2) <= MaxSales
  /\ \A o \in 1..Len(s2) :
       /\ DOMAIN s2[o].prices # {} => DOMAIN s2[o].prices = {i \in SaleItems : s1[i].order = o}
       /\ \A i \in DOMAIN s2[o].prices : s2[o].prices[i] <= Won[i]
       /\ s2[o].total >= s2[o].shipping
       /\ DOMAIN s2[o].prices = {} => s2[o].total = s2[o].shipping
  /\ WS!NoMoneyTwice

LEMMA WonIs ==
  /\ \A i \in SaleItems : WS!Won(i) = Won[i] /\ Won[i] \in Nat
  /\ IsFiniteSet(SaleItems)
  /\ \A S : WS!Known(S) = Sigma(Won, S)
  /\ \A S \in SUBSET SaleItems : IsFiniteSet(S) /\ Sigma(Won, S) \in Nat
<1>1. \A i \in SaleItems : WS!Won(i) = Won[i] /\ Won[i] \in Nat
  BY SaleAssumption DEF WS!Won, Won
<1>2. IsFiniteSet(SaleItems)
  BY SaleAssumption
<1>3. \A S : WS!Known(S) = Sigma(Won, S)
  BY WonSums DEF WS!Known, Won
<1> QED BY <1>1, <1>2, <1>3, SumOfNats, FS_Subset

LEMMA RowsAre ==
  ASSUME NEW p \in OrderRows
  PROVE  /\ DOMAIN p \in SUBSET SaleItems /\ IsFiniteSet(DOMAIN p) /\ \A i \in DOMAIN p : p[i] \in Nat
         /\ WS!Total(p) = Sigma(p, DOMAIN p) /\ WS!Total(p) \in Nat
         /\ (\A i \in DOMAIN p : p[i] <= Won[i]) => Sigma(p, DOMAIN p) <= Sigma(Won, DOMAIN p)
<1>1. DOMAIN p \in SUBSET SaleItems /\ \A i \in DOMAIN p : p[i] \in Nat
  BY DEF OrderRows
<1>2. IsFiniteSet(DOMAIN p)
  BY <1>1, WonIs
<1>3. WS!Total(p) = Sigma(p, DOMAIN p)
  BY WonSums DEF WS!Total
<1>4. Sigma(p, DOMAIN p) \in Nat
  BY <1>1, <1>2, SumOfNats
<1>5. (\A i \in DOMAIN p : p[i] <= Won[i]) => Sigma(p, DOMAIN p) <= Sigma(Won, DOMAIN p)
  BY <1>1, <1>2, WonIs, SumGrows
<1> QED BY <1>1, <1>2, <1>3, <1>4, <1>5

LEMMA CountedIs ==
  ASSUME s2 \in Seq(OrderRec)
  PROVE  /\ WS!NoMoneyTwice <=> Sigma(Counted, 1..Len(s2)) <= Sigma(Won, SaleItems)
         /\ IsFiniteSet(1..Len(s2)) /\ Len(s2) \in Nat
         /\ \A o \in 1..Len(s2) : /\ s2[o] \in OrderRec /\ Counted[o] = s2[o].total - s2[o].shipping
                                  /\ Counted[o] \in Int
<1>1. Len(s2) \in Nat /\ DOMAIN s2 = 1..Len(s2) /\ \A o \in 1..Len(s2) : s2[o] \in OrderRec
  OBVIOUS
<1>2. IsFiniteSet(1..Len(s2))
  BY <1>1, FS_Interval
<1>3. WS!Total([o \in DOMAIN s2 |-> s2[o].total - s2[o].shipping]) = Sigma(Counted, 1..Len(s2))
  <2>1. [o \in DOMAIN s2 |-> s2[o].total - s2[o].shipping] = Counted /\ DOMAIN Counted = 1..Len(s2)
    BY <1>1 DEF Counted
  <2> QED BY <2>1, WonSums DEF WS!Total
<1>4. WS!NoMoneyTwice <=> Sigma(Counted, 1..Len(s2)) <= Sigma(Won, SaleItems)
  BY <1>3, WonIs DEF WS!NoMoneyTwice
<1>5. ASSUME NEW o \in 1..Len(s2) PROVE Counted[o] = s2[o].total - s2[o].shipping /\ Counted[o] \in Int
  BY <1>1 DEF Counted, OrderRec
<1> QED BY <1>1, <1>2, <1>4, <1>5

OnRows == {i \in SaleItems : WS!HasRows(s1[i].order)}
WithRows == {o \in 1..Len(s2) : DOMAIN s2[o].prices # {}}

\* The orders that have rows are those that open_sale() looks at.
LEMMA EarlierIs ==
  ASSUME WonInv
  PROVE  /\ WS!Earlier = WithRows
         /\ \A o \in WithRows : DOMAIN s2[o].prices = {i \in OnRows : s1[i].order = o}
         /\ \A i \in OnRows : s1[i].order \in WithRows
         /\ OnRows \in SUBSET SaleItems
         /\ WithRows \in SUBSET (1..Len(s2)) /\ IsFiniteSet(WithRows)
<1>0. Len(s2) \in Nat /\ \A i \in SaleItems : s1[i].order \in 0..Len(s2)
  BY DEF WonInv
<1>1. \A i \in SaleItems : i \in OnRows <=> s1[i].order \in WithRows
  BY <1>0 DEF OnRows, WithRows, WS!HasRows
<1>2. ASSUME NEW o \in WithRows PROVE DOMAIN s2[o].prices = {i \in OnRows : s1[i].order = o} /\ \E i \in OnRows : s1[i].order = o
  <2>1. o \in 1..Len(s2) /\ DOMAIN s2[o].prices # {} /\ DOMAIN s2[o].prices = {i \in SaleItems : s1[i].order = o}
    BY DEF WithRows, WonInv
  <2> QED BY <1>1, <2>1 DEF OnRows
<1>3. WS!Earlier = WithRows
  BY <1>1, <1>2 DEF WS!Earlier, OnRows
<1>4. IsFiniteSet(WithRows) /\ WithRows \in SUBSET (1..Len(s2))
  <2>1. IsFiniteSet(1..Len(s2))
    BY <1>0, FS_Interval
  <2> QED BY <2>1, FS_Subset DEF WithRows
<1> QED BY <1>1, <1>2, <1>3, <1>4 DEF OnRows

\* What the orders count is in their rows, or has still to come.
LEMMA CountedBound ==
  ASSUME WonInv
  PROVE  /\ Sigma(Counted, 1..Len(s2)) <= Sigma(Won, OnRows) + WS!OrdersRemaining(WS!Earlier)
         /\ WS!OrdersRemaining(WS!Earlier) \in Nat /\ Sigma(Counted, 1..Len(s2)) \in Int
<1> DEFINE All == 1..Len(s2)
           order == [i \in SaleItems |-> s1[i].order]
           P == ByClass(Won, OnRows, order, WithRows)
           R == [o \in WithRows |-> WS!Remaining(o)]
           PR == [o \in WithRows |-> P[o] + R[o]]
<1>0. s2 \in Seq(OrderRec) /\ WithRows \in SUBSET All /\ IsFiniteSet(WithRows) /\ OnRows \in SUBSET SaleItems
  BY EarlierIs DEF WonInv
<1>1. IsFiniteSet(All) /\ \A o \in All : s2[o] \in OrderRec /\ Counted[o] = s2[o].total - s2[o].shipping /\ Counted[o] \in Int
  BY <1>0, CountedIs
<1>2. ASSUME NEW o \in WithRows
      PROVE  P[o] \in Nat /\ R[o] \in Nat /\ PR[o] = P[o] + R[o] /\ Counted[o] <= PR[o] /\ PR[o] \in Int
  <2>0. o \in All /\ s2[o].prices \in OrderRows /\ s2[o].total \in Int /\ s2[o].shipping \in Int
    BY <1>0, <1>1 DEF OrderRec
  <2>1. DOMAIN s2[o].prices = {i \in OnRows : order[i] = o}
    BY EarlierIs
  <2>2. P[o] = Sigma(Won, DOMAIN s2[o].prices)
    BY <2>1 DEF ByClass
  <2>3. WS!Total(s2[o].prices) <= P[o] /\ WS!Total(s2[o].prices) \in Nat
    BY <2>0, <2>2, RowsAre DEF WonInv
  <2>4. P[o] \in Nat
    BY <2>0, <2>2, RowsAre, WonIs
  <2>5. R[o] = WS!Remaining(o) /\ PR[o] = P[o] + R[o]
    OBVIOUS
  <2> HIDE DEF P, R, PR
  <2>6. R[o] \in Nat /\ R[o] >= s2[o].total - WS!Total(s2[o].prices) - s2[o].shipping
    BY <2>0, <2>3, <2>5 DEF WS!Remaining, WS!Larger
  <2>7. Counted[o] = s2[o].total - s2[o].shipping /\ Counted[o] \in Int
    BY <1>1, <2>0
  <2> DEFINE w == WS!Total(s2[o].prices)
             a == s2[o].total
             b == s2[o].shipping
             p == P[o]
             r == R[o]
             k == Counted[o]
  <2>8. w \in Nat /\ w <= p /\ a \in Int /\ b \in Int /\ p \in Nat /\ r \in Nat /\ r >= a - w - b /\ k = a - b
    BY <2>0, <2>3, <2>4, <2>6, <2>7
  <2> HIDE DEF w, a, b, p, r, k
  <2>9. k <= p + r /\ p + r \in Int
    BY ONLY <2>8
  <2> USE DEF p, r, k
  <2> QED BY ONLY <2>5, <2>8, <2>9
<1>3. Sigma(P, WithRows) = Sigma(Won, OnRows)
  <2>1. \A i \in OnRows : order[i] \in WithRows
    BY EarlierIs
  <2>2. IsFiniteSet(OnRows) /\ \A i \in OnRows : Won[i] \in Int
    BY <1>0, WonIs
  <2> HIDE DEF order
  <2> QED BY <1>0, <2>1, <2>2, SumByClass
<1>4. Sigma(R, WithRows) = WS!OrdersRemaining(WS!Earlier)
  BY EarlierIs, WonSums DEF WS!OrdersRemaining
<1>5. Sigma(P, WithRows) \in Nat /\ Sigma(R, WithRows) \in Nat /\ Sigma(PR, WithRows) = Sigma(P, WithRows) + Sigma(R, WithRows)
  <2> HIDE DEF P, R, PR
  <2>1. Sigma(P, WithRows) \in Nat /\ Sigma(R, WithRows) \in Nat
    BY <1>0, <1>2, SumOfNats
  <2>2. \A o \in WithRows : P[o] \in Int /\ R[o] \in Int /\ PR[o] = P[o] + R[o]
    BY <1>2
  <2>3. Sigma(PR, WithRows) = Sigma(P, WithRows) + Sigma(R, WithRows)
    BY <1>0, <2>2, SumOfSums
  <2> QED BY <2>1, <2>3
<1>6. Sigma(Counted, WithRows) <= Sigma(PR, WithRows) /\ Sigma(Counted, WithRows) \in Int
  <2>1. \A o \in WithRows : Counted[o] \in Int /\ PR[o] \in Int /\ Counted[o] <= PR[o]
    BY <1>0, <1>1, <1>2
  <2> HIDE DEF PR
  <2> QED BY <1>0, <2>1, SumGrows, SumOfInts
<1>7. Sigma(Counted, All) = Sigma(Counted, WithRows)
  <2>1. \A o \in All \ WithRows : Counted[o] = 0
    BY <1>1 DEF WithRows, WonInv, OrderRec
  <2>2. IsFiniteSet(All \ WithRows) /\ WithRows \cap (All \ WithRows) = {} /\ WithRows \cup (All \ WithRows) = All
    BY <1>0, <1>1, FS_Subset
  <2>3. Sigma(Counted, All \ WithRows) = 0
    BY <2>1, <2>2, SumOfZeros
  <2>4. Sigma(Counted, WithRows \cup (All \ WithRows)) = Sigma(Counted, WithRows) + Sigma(Counted, All \ WithRows)
    BY <1>0, <1>1, <2>2, SumOfBoth
  <2> HIDE DEF All
  <2> QED BY <1>6, <2>2, <2>3, <2>4
<1> HIDE DEF P, R, PR
<1> QED BY <1>3, <1>4, <1>5, <1>6, <1>7

\* The prefilled Total leaves room for what is counted.
LEMMA PrefilledFits ==
  ASSUME WonInv
  PROVE  /\ WS!PrefilledTotal \in Nat
         /\ Sigma(Counted, 1..Len(s2)) + WS!PrefilledTotal <= Sigma(Won, SaleItems)
<1> DEFINE C == Sigma(Counted, 1..Len(s2))
           R == WS!OrdersRemaining(WS!Earlier)
           Unsold == SaleItems \ OnRows
           a == Sigma(Won, WS!OnOrder)
           b == Sigma(Won, Unsold)
           d == Sigma(Won, OnRows)
<1>1. C <= d + R /\ R \in Nat /\ C \in Int /\ C <= Sigma(Won, SaleItems)
  BY CountedBound, CountedIs DEF WonInv
<1>2. WS!OpenItems = WS!OnOrder \cup Unsold /\ WS!OnOrder \cap Unsold = {}
      /\ WS!OnOrder \in SUBSET SaleItems /\ Unsold \in SUBSET SaleItems
      /\ SaleItems = OnRows \cup Unsold /\ OnRows \cap Unsold = {} /\ OnRows \in SUBSET SaleItems
  BY DEF WS!OpenItems, WS!Open, WS!OnOrder, OnRows
<1>3. a \in Nat /\ b \in Nat /\ d \in Nat
  BY <1>2, WonIs
<1>4. WS!Known(WS!OpenItems) = a + b /\ WS!Known(WS!OnOrder) = a /\ Sigma(Won, SaleItems) = d + b
  <2>1. \A S \in SUBSET SaleItems : IsFiniteSet(S) /\ \A i \in S : Won[i] \in Int
    BY WonIs
  <2>2. Sigma(Won, WS!OnOrder \cup Unsold) = a + b
    BY <1>2, <2>1, SumOfBoth
  <2>3. Sigma(Won, OnRows \cup Unsold) = d + b
    BY <1>2, <2>1, SumOfBoth
  <2> QED BY <1>2, <2>2, <2>3, WonIs
<1>5. WS!PrefilledTotal = LET acc == IF (a + b) - a < R THEN (a + b) - a ELSE R
                              rest == (a + b) - (acc + a)
                          IN  IF 0 > rest THEN 0 ELSE rest
  <2> HIDE DEF a, b, d
  <2> QED BY <1>4 DEF WS!PrefilledTotal, WS!Accounted, WS!Larger, WS!Smaller
<1> HIDE DEF C, R, a, b, d
<1>6. WS!PrefilledTotal = IF b < R THEN 0 ELSE b - R
  BY <1>1, <1>3, <1>5
<1>7. WS!PrefilledTotal \in Nat /\ C + WS!PrefilledTotal <= d + b
  <2>1. CASE b < R
    BY <1>1, <1>3, <1>4, <1>6, <2>1
  <2>2. CASE ~(b < R)
    BY <1>1, <1>3, <1>4, <1>6, <2>2
  <2> QED BY <2>1, <2>2
<1> QED BY <1>4, <1>7 DEF C


LEMMA WonBegin == ASSUME WS!Init PROVE WonInv
<1>1. s1 = [i \in SaleItems |-> [status |-> "pending", order |-> 0, again |-> FALSE]] /\ s2 = <<>>
  BY DEF WS!Init
<1>2. s2 \in Seq(OrderRec) /\ Len(s2) = 0 /\ 1..Len(s2) = {}
  BY <1>1
<1>3. WS!NoMoneyTwice
  <2>1. Sigma(Counted, 1..Len(s2)) = 0
    BY <1>2, SumOfNone
  <2>2. Sigma(Won, SaleItems) >= 0
    BY WonIs
  <2> QED BY <1>2, <2>1, <2>2, CountedIs
<1> QED BY <1>1, <1>2, <1>3, SaleAssumption DEF WonInv

LEMMA CountedNext ==
  ASSUME s2' \in Seq(OrderRec)
  PROVE  WS!NoMoneyTwice' <=> Sigma([o \in 1..Len(s2') |-> s2'[o].total - s2'[o].shipping], 1..Len(s2')) <= Sigma(Won, SaleItems)
<1> DEFINE Counts == [o \in 1..Len(s2') |-> s2'[o].total - s2'[o].shipping]
<1>1. WS!Total([o \in DOMAIN s2' |-> s2'[o].total - s2'[o].shipping]) = Sigma(Counts, 1..Len(s2'))
  <2>1. [o \in DOMAIN s2' |-> s2'[o].total - s2'[o].shipping] = Counts /\ DOMAIN Counts = 1..Len(s2')
    OBVIOUS
  <2> QED BY <2>1, WonSums DEF WS!Total
<1> QED BY <1>1, WonIs DEF WS!NoMoneyTwice

\* While no order counts more than before, and every row is still its item's.
LEMMA WonFrame ==
  ASSUME WonInv, s2' \in Seq(OrderRec), Len(s2') = Len(s2),
         s1' \in [SaleItems -> [status : {"pending", "registered"}, order : 0..Len(s2), again : BOOLEAN]],
         \A i \in SaleItems : s1'[i].order = s1[i].order,
         \A o \in 1..Len(s2) :
           /\ DOMAIN s2'[o].prices \in {DOMAIN s2[o].prices, {}}
           /\ \A i \in DOMAIN s2'[o].prices : s2'[o].prices[i] <= Won[i]
           /\ s2'[o].total >= s2'[o].shipping
           /\ s2'[o].total - s2'[o].shipping <= s2[o].total - s2[o].shipping
           /\ DOMAIN s2'[o].prices = {} => s2'[o].total = s2'[o].shipping
  PROVE  WonInv'
<1> DEFINE All == 1..Len(s2)
           Counts == [o \in 1..Len(s2') |-> s2'[o].total - s2'[o].shipping]
<1>1. IsFiniteSet(All) /\ \A o \in All : s2[o] \in OrderRec /\ Counted[o] = s2[o].total - s2[o].shipping /\ Counted[o] \in Int
  BY CountedIs DEF WonInv
<1>2. ASSUME NEW o \in All PROVE Counts[o] = s2'[o].total - s2'[o].shipping /\ Counts[o] \in Int /\ Counts[o] <= Counted[o]
  <2>1. s2'[o] \in OrderRec /\ o \in 1..Len(s2')
    OBVIOUS
  <2>2. s2'[o].total \in Int /\ s2'[o].shipping \in Int /\ Counts[o] = s2'[o].total - s2'[o].shipping
    BY <2>1 DEF OrderRec
  <2> HIDE DEF Counts
  <2> QED BY <1>1, <2>2
<1>3. Sigma(Counts, All) <= Sigma(Counted, All) /\ Sigma(Counts, All) \in Int /\ Sigma(Counted, All) \in Int
  <2> HIDE DEF Counts, All
  <2> QED BY <1>1, <1>2, SumGrows, SumOfInts
<1>4. Sigma(Counted, All) <= Sigma(Won, SaleItems) /\ Sigma(Won, SaleItems) \in Nat
  BY CountedIs, WonIs DEF WonInv
<1>5. WS!NoMoneyTwice'
  <2> HIDE DEF Counts
  <2> QED BY <1>3, <1>4, CountedNext DEF Counts
<1>6. /\ s1' \in [SaleItems -> [status : {"pending", "registered"}, order : 0..Len(s2'), again : BOOLEAN]]
      /\ Len(s2') <= MaxSales
  BY DEF WonInv
<1>7. ASSUME NEW o \in 1..Len(s2')
      PROVE /\ DOMAIN s2'[o].prices # {} => DOMAIN s2'[o].prices = {i \in SaleItems : s1'[i].order = o}
            /\ \A i \in DOMAIN s2'[o].prices : s2'[o].prices[i] <= Won'[i]
            /\ s2'[o].total >= s2'[o].shipping
            /\ DOMAIN s2'[o].prices = {} => s2'[o].total = s2'[o].shipping
  <2>1. Won' = Won
    BY DEF Won, WS!Won
  <2> QED BY <2>1 DEF WonInv
<1> QED BY <1>5, <1>6, <1>7 DEF WonInv

LEMMA RowPriceIs ==
  ASSUME NEW i \in SaleItems, NEW half \in BOOLEAN
  PROVE  WS!RowPrice(i, half) \in Nat /\ WS!RowPrice(i, half) <= Won[i]
<1>1. WS!Won(i) = Won[i] /\ Won[i] \in Nat
  BY WonIs
<1> QED BY <1>1 DEF WS!RowPrice

LEMMA WonRegister ==
  ASSUME WonInv, NEW S \in SUBSET SaleItems, NEW keep \in SUBSET S, NEW shipping \in {0, MaxShipping},
         WS!Register(S, keep, shipping), S \cap WS!OnOrder = {}
  PROVE  WonInv'
<1> DEFINE n == Len(s2)
           prices == [i \in S |-> WS!RowPrice(i, i \in keep)]
           r == [total |-> WS!PrefilledTotal + shipping, shipping |-> shipping, prices |-> prices]
           Counts == [o \in 1..Len(s2') |-> s2'[o].total - s2'[o].shipping]
<1>1. /\ n < MaxSales /\ S # {} /\ S \subseteq WS!OpenItems /\ S \cap WS!OnOrder = {}
      /\ s2' = Append(s2, r)
      /\ s1' = [i \in SaleItems |-> IF i \in S THEN [status |-> IF i \in keep THEN "pending" ELSE "registered", order |-> n + 1,
                                                     again |-> s1[i].again \/ i \in WS!OnOrder] ELSE s1[i]]
  BY DEF WS!Register
<1>2. prices \in OrderRows /\ DOMAIN prices = S /\ \A i \in S : prices[i] <= Won[i]
  <2>1. \A i \in S : WS!RowPrice(i, i \in keep) \in Nat /\ WS!RowPrice(i, i \in keep) <= Won[i]
    <3>1. \A i \in S : (i \in keep) \in BOOLEAN /\ i \in SaleItems
      OBVIOUS
    <3> QED BY <3>1, RowPriceIs
  <2>2. prices \in [S -> Nat]
    BY <2>1
  <2> QED BY <2>1, <2>2 DEF OrderRows
<1>3. WS!PrefilledTotal \in Nat /\ Sigma(Counted, 1..n) + WS!PrefilledTotal <= Sigma(Won, SaleItems)
  BY PrefilledFits
<1>4. r \in OrderRec /\ r.total - r.shipping = WS!PrefilledTotal /\ r.total >= r.shipping /\ r.prices = prices
  <2>1. shipping \in Nat
    BY SaleAssumption
  <2> HIDE DEF prices
  <2> QED BY <1>2, <1>3, <2>1 DEF OrderRec
<1> HIDE DEF r, prices
<1>5. /\ s2 \in Seq(OrderRec) /\ n \in Nat /\ s2' \in Seq(OrderRec) /\ Len(s2') = n + 1
      /\ s2'[n + 1] = r /\ \A o \in 1..n : s2'[o] = s2[o]
  BY <1>1, <1>4 DEF WonInv
<1>6. WS!NoMoneyTwice'
  <2>1. IsFiniteSet(1..n) /\ n + 1 \notin 1..n /\ 1..Len(s2') = (1..n) \cup {n + 1}
    <3>1. n \in Nat /\ Len(s2') = n + 1
      BY <1>5
    <3> HIDE DEF n
    <3>2. n + 1 \notin 1..n /\ 1..(n + 1) = (1..n) \cup {n + 1}
      BY <3>1
    <3>3. IsFiniteSet(1..n)
      BY <3>1, FS_Interval
    <3> QED BY <3>1, <3>2, <3>3
  <2>2. /\ Counts[n + 1] = WS!PrefilledTotal /\ \A o \in 1..n : Counts[o] = Counted[o] /\ Counted[o] \in Int
    BY <1>4, <1>5, CountedIs
  <2> HIDE DEF Counts
  <2>3. Sigma(Counts, (1..n) \cup {n + 1}) = Counts[n + 1] + Sigma(Counts, 1..n)
    <3>1. \A o \in (1..n) \cup {n + 1} : Counts[o] \in Int
      BY <1>3, <2>2
    <3> HIDE DEF n
    <3> QED BY <2>1, <3>1, SumWith
  <2>4. Sigma(Counts, 1..n) = Sigma(Counted, 1..n) /\ Sigma(Counted, 1..n) \in Int
    <3>1. \A o \in 1..n : Counted[o] \in Int /\ Counted[o] = Counts[o]
      BY <2>2
    <3> QED BY <2>1, <3>1, SumAgrees, SumOfInts
  <2>5. Sigma(Counts, 1..Len(s2')) <= Sigma(Won, SaleItems)
    <3>1. Sigma(Counts, 1..Len(s2')) = WS!PrefilledTotal + Sigma(Counted, 1..n)
      BY <2>1, <2>2, <2>3, <2>4
    <3> HIDE DEF n
    <3> QED BY <1>3, <2>4, <3>1
  <2> QED BY <1>5, <2>5, CountedNext DEF Counts
<1>7. s1 \in [SaleItems -> [status : {"pending", "registered"}, order : 0..n, again : BOOLEAN]]
  BY DEF WonInv
<1>8. s1' \in [SaleItems -> [status : {"pending", "registered"}, order : 0..Len(s2'), again : BOOLEAN]]
      /\ \A i \in SaleItems : s1'[i].order = IF i \in S THEN n + 1 ELSE s1[i].order
  BY <1>1, <1>5, <1>7
<1>9. ASSUME NEW o \in 1..Len(s2')
      PROVE /\ DOMAIN s2'[o].prices # {} => DOMAIN s2'[o].prices = {i \in SaleItems : s1'[i].order = o}
            /\ \A i \in DOMAIN s2'[o].prices : s2'[o].prices[i] <= Won[i]
            /\ s2'[o].total >= s2'[o].shipping
            /\ DOMAIN s2'[o].prices = {} => s2'[o].total = s2'[o].shipping
  <2>1. CASE o = n + 1
    <3>1. \A i \in SaleItems : s1'[i].order = o <=> i \in S
      BY <1>5, <1>7, <1>8, <2>1
    <3>2. {i \in SaleItems : s1'[i].order = o} = S
      BY <3>1
    <3> QED BY <1>1, <1>2, <1>4, <1>5, <2>1, <3>2
  <2>2. CASE o \in 1..n
    <3>1. s2'[o] = s2[o]
      BY <1>5, <2>2
    <3>2. ASSUME DOMAIN s2[o].prices # {} PROVE \A i \in S : s1[i].order # o
      <4>1. SUFFICES ASSUME NEW i \in S, s1[i].order = o PROVE FALSE
        OBVIOUS
      <4>2. WS!HasRows(s1[i].order)
        BY <1>5, <2>2, <3>2, <4>1 DEF WS!HasRows
      <4>3. i \in WS!OnOrder
        BY <1>1, <4>2 DEF WS!OnOrder
      <4> QED BY <1>1, <4>3
    <3>3. DOMAIN s2[o].prices # {} => \A i \in SaleItems : s1'[i].order = o <=> s1[i].order = o
      BY <1>5, <1>8, <2>2, <3>2
    <3> QED BY <2>2, <3>1, <3>3 DEF WonInv
  <2> QED BY <1>5, <2>1, <2>2
<1>10. Won' = Won
  BY DEF Won, WS!Won
<1>11. Len(s2') <= MaxSales
  BY <1>1, <1>5, SaleAssumption
<1> QED BY <1>5, <1>6, <1>8, <1>9, <1>10, <1>11 DEF WonInv

LEMMA WonStutter == ASSUME WonInv, UNCHANGED <<s1, s2>> PROVE WonInv'
BY DEF WonInv, WS!NoMoneyTwice, Won, WS!Won

SaleTyped ==
  /\ s1 \in [SaleItems -> [status : {"pending", "registered"}, order : 0..Len(s2), again : BOOLEAN]]
  /\ s2 \in Seq(OrderRec) /\ Len(s2) <= MaxSales

LEMMA SaleTypes == ASSUME SaleTyped PROVE WS!TypeOK
<1>1. Len(s2) \in Nat
  BY DEF SaleTyped
<1>2. \A i \in SaleItems : s1[i].order \in 0..Len(s2)
  BY DEF SaleTyped
<1>3. s1 \in [SaleItems -> [status : {"pending", "registered"}, order : 0..MaxSales, again : BOOLEAN]]
  <2>1. 0..Len(s2) \subseteq 0..MaxSales
    BY <1>1, SaleAssumption DEF SaleTyped
  <2>2. [status : {"pending", "registered"}, order : 0..Len(s2), again : BOOLEAN] \subseteq [status : {"pending", "registered"}, order : 0..MaxSales, again : BOOLEAN]
    BY <2>1
  <2> QED BY <2>2 DEF SaleTyped
<1> QED BY <1>2, <1>3 DEF SaleTyped, WS!TypeOK

LEMMA SaleBegin == ASSUME WS!Init PROVE SaleTyped
BY SaleAssumption DEF WS!Init, SaleTyped

\* What a cart is prefilled with is a whole amount.
LEMMA PrefilledIs == ASSUME SaleTyped PROVE WS!PrefilledTotal \in Int
<1> DEFINE E == WS!Earlier
           R == [o \in E |-> WS!Remaining(o)]
<1>1. E \in SUBSET (1..Len(s2)) /\ IsFiniteSet(E)
  <2>1. Len(s2) \in Nat /\ \A i \in SaleItems : s1[i].order \in 0..Len(s2)
    BY DEF SaleTyped
  <2>2. E \in SUBSET (1..Len(s2))
    <3> SUFFICES ASSUME NEW o \in E PROVE o \in 1..Len(s2)
      OBVIOUS
    <3>1. PICK i \in SaleItems : WS!HasRows(s1[i].order) /\ o = s1[i].order
      BY DEF WS!Earlier
    <3>2. o # 0 /\ o \in 0..Len(s2)
      BY <2>1, <3>1 DEF WS!HasRows
    <3> QED BY <2>1, <3>2
  <2> HIDE DEF E
  <2>3. IsFiniteSet(1..Len(s2))
    BY <2>1, FS_Interval
  <2> QED BY <2>2, <2>3, FS_Subset
<1> HIDE DEF E
<1>2. ASSUME NEW o \in E PROVE WS!Remaining(o) \in Int
  <2>1. s2[o] \in OrderRec
    BY <1>1 DEF SaleTyped
  <2>2. s2[o].total \in Int /\ s2[o].shipping \in Int /\ s2[o].prices \in OrderRows
    BY <2>1 DEF OrderRec
  <2>3. WS!Total(s2[o].prices) \in Nat
    BY <2>2, RowsAre
  <2> QED BY <2>2, <2>3 DEF WS!Remaining, WS!Larger
<1>3. WS!OrdersRemaining(E) \in Int
  <2>1. \A o \in E : R[o] \in Int
    BY <1>2
  <2>2. WS!OrdersRemaining(E) = Sigma(R, E)
    BY WonSums DEF WS!OrdersRemaining
  <2> HIDE DEF R
  <2> QED BY <1>1, <2>1, <2>2, SumOfInts
<1>4. WS!Known(WS!OpenItems) \in Nat /\ WS!Known(WS!OnOrder) \in Nat
  <2>1. WS!OpenItems \in SUBSET SaleItems /\ WS!OnOrder \in SUBSET SaleItems
    BY DEF WS!OpenItems, WS!OnOrder
  <2> QED BY <2>1, WonIs
<1> QED BY <1>3, <1>4 DEF E, WS!PrefilledTotal, WS!Accounted, WS!Larger, WS!Smaller

LEMMA SaleStep == ASSUME SaleTyped, WS!Next PROVE SaleTyped'
<1> DEFINE n == Len(s2)
<1>0. /\ s1 \in [SaleItems -> [status : {"pending", "registered"}, order : 0..n, again : BOOLEAN]] /\ n \in Nat /\ n <= MaxSales
      /\ s2 \in Seq(OrderRec) /\ DOMAIN s2 = 1..n
      /\ \A o \in 1..n : /\ s2[o] \in OrderRec /\ s2[o].prices \in OrderRows
                         /\ s2[o].total \in Int /\ s2[o].shipping \in Int
  <2>1. s2 \in Seq(OrderRec)
    BY DEF SaleTyped
  <2>2. n \in Nat /\ DOMAIN s2 = 1..n /\ \A o \in 1..n : s2[o] \in OrderRec
    BY <2>1
  <2>3. \A q \in OrderRec : q.prices \in OrderRows /\ q.total \in Int /\ q.shipping \in Int
    BY DEF OrderRec
  <2> QED BY <2>1, <2>2, <2>3 DEF SaleTyped
<1>1. ASSUME NEW S \in SUBSET SaleItems, NEW keep \in SUBSET S, NEW shipping \in {0, MaxShipping},
             WS!Register(S, keep, shipping)
      PROVE  SaleTyped'
  <2> DEFINE prices == [i \in S |-> WS!RowPrice(i, i \in keep)]
             r == [total |-> WS!PrefilledTotal + shipping, shipping |-> shipping, prices |-> prices]
  <2>1. /\ n < MaxSales /\ s2' = Append(s2, r)
        /\ s1' = [i \in SaleItems |-> IF i \in S THEN [status |-> IF i \in keep THEN "pending" ELSE "registered", order |-> n + 1,
                                                     again |-> s1[i].again \/ i \in WS!OnOrder] ELSE s1[i]]
    BY <1>1 DEF WS!Register
  <2>2. prices \in OrderRows
    <3>1. \A i \in S : WS!RowPrice(i, i \in keep) \in Nat
      <4>1. \A i \in S : (i \in keep) \in BOOLEAN /\ i \in SaleItems
        OBVIOUS
      <4> QED BY <4>1, RowPriceIs
    <3>2. prices \in [S -> Nat]
      BY <3>1
    <3> QED BY <3>2 DEF OrderRows
  <2>3. r \in OrderRec
    <3> HIDE DEF prices
    <3> QED BY <2>2, PrefilledIs, SaleAssumption DEF OrderRec
  <2> HIDE DEF r, prices
  <2>4. s2' \in Seq(OrderRec) /\ Len(s2') = n + 1
    BY <1>0, <2>1, <2>3
  <2>5. n + 1 <= MaxSales
    BY <1>0, <2>1, SaleAssumption
  <2>6. s1' \in [SaleItems -> [status : {"pending", "registered"}, order : 0..(n + 1), again : BOOLEAN]]
    BY <1>0, <2>1
  <2> QED BY <2>4, <2>5, <2>6 DEF SaleTyped
<1>2. ASSUME NEW o \in 1..n, NEW r \in OrderRec, s2' = [s2 EXCEPT ![o] = r],
             s1' \in [SaleItems -> [status : {"pending", "registered"}, order : 0..n, again : BOOLEAN]]
      PROVE  SaleTyped'
  <2>1. s2' \in Seq(OrderRec) /\ Len(s2') = n
    BY <1>0, <1>2
  <2> QED BY <1>0, <1>2, <2>1 DEF SaleTyped
<1>3. ASSUME NEW i \in SaleItems, WS!Complete(i) PROVE SaleTyped'
  <2> DEFINE o == s1[i].order
             x == WS!RowPrice(i, FALSE)
             prices == [s2[o].prices EXCEPT ![i] = x]
             r == [s2[o] EXCEPT !.prices = prices]
  <2>1. /\ o \in 1..n
        /\ s1' = [s1 EXCEPT ![i].status = "registered"] /\ s2' = [s2 EXCEPT ![o] = r]
    BY <1>0, <1>3 DEF WS!Complete, WS!HasRows
  <2>2. x \in Nat
    BY RowPriceIs
  <2> HIDE DEF x
  <2>3. prices \in OrderRows
    <3>1. PICK D \in SUBSET SaleItems : s2[o].prices \in [D -> Nat]
      BY <1>0, <2>1 DEF OrderRows
    <3>2. prices \in [D -> Nat]
      BY <2>2, <3>1
    <3> QED BY <3>2 DEF OrderRows
  <2>4. r \in OrderRec
    <3> HIDE DEF prices
    <3> QED BY <1>0, <2>1, <2>3 DEF OrderRec
  <2> HIDE DEF r
  <2>5. s1' \in [SaleItems -> [status : {"pending", "registered"}, order : 0..n, again : BOOLEAN]]
    BY <1>0, <2>1
  <2> QED BY <1>2, <2>1, <2>4, <2>5
<1>4. ASSUME NEW o \in 1..n, WS!NarrowTotal(o) PROVE SaleTyped'
  <2> DEFINE t == WS!Total(s2[o].prices) + s2[o].shipping
             r == [s2[o] EXCEPT !.total = t]
  <2>1. s2' = [s2 EXCEPT ![o] = r] /\ s1' = s1
    BY <1>4 DEF WS!NarrowTotal
  <2>2. t \in Int
    BY <1>0, RowsAre
  <2> HIDE DEF t
  <2>3. r \in OrderRec
    BY <1>0, <2>2 DEF OrderRec
  <2> HIDE DEF r
  <2> QED BY <1>0, <1>2, <2>1, <2>3
<1>5. ASSUME NEW o \in 1..n, WS!DeleteOrder(o) PROVE SaleTyped'
  <2> DEFINE r == [total |-> 0, shipping |-> 0, prices |-> WS!NoRows]
  <2>1. s2' = [s2 EXCEPT ![o] = r] /\ s1' = s1
    BY <1>5 DEF WS!DeleteOrder
  <2>2. WS!NoRows \in OrderRows
    <3>1. WS!NoRows \in [{} -> Nat]
      BY DEF WS!NoRows
    <3> QED BY <3>1 DEF OrderRows
  <2>3. r \in OrderRec
    BY <2>2 DEF OrderRec
  <2> HIDE DEF r
  <2> QED BY <1>0, <1>2, <2>1, <2>3
<1> QED BY <1>0, <1>1, <1>3, <1>4, <1>5 DEF WS!Next

LEMMA SaleStutter == ASSUME SaleTyped, UNCHANGED <<s1, s2>> PROVE SaleTyped'
BY DEF SaleTyped

\* No lot has been linked to a cart while an order had it.
NoneAgain == \A i \in SaleItems : ~s1[i].again

LEMMA WonStep == ASSUME WonInv, WS!Next, NoneAgain' PROVE WonInv'
<1>0. /\ s1 \in [SaleItems -> [status : {"pending", "registered"}, order : 0..Len(s2), again : BOOLEAN]] /\ Len(s2) \in Nat
      /\ s2 \in Seq(OrderRec) /\ DOMAIN s2 = 1..Len(s2)
      /\ \A o \in 1..Len(s2) : /\ s2[o] \in OrderRec /\ s2[o].prices \in OrderRows
                               /\ s2[o].total \in Int /\ s2[o].shipping \in Int
  <2>1. s2 \in Seq(OrderRec)
    BY DEF WonInv
  <2>2. Len(s2) \in Nat /\ DOMAIN s2 = 1..Len(s2) /\ \A o \in 1..Len(s2) : s2[o] \in OrderRec
    BY <2>1
  <2>3. \A q \in OrderRec : q.prices \in OrderRows /\ q.total \in Int /\ q.shipping \in Int
    BY DEF OrderRec
  <2> QED BY <2>1, <2>2, <2>3 DEF WonInv
<1>1. ASSUME NEW i \in SaleItems, WS!Complete(i) PROVE WonInv'
  <2> DEFINE o == s1[i].order
             x == WS!RowPrice(i, FALSE)
             prices == [s2[o].prices EXCEPT ![i] = x]
             r == [s2[o] EXCEPT !.prices = prices]
  <2>1. /\ o \in 1..Len(s2) /\ DOMAIN s2[o].prices # {}
        /\ s1' = [s1 EXCEPT ![i].status = "registered"] /\ s2' = [s2 EXCEPT ![o] = r]
    BY <1>0, <1>1 DEF WS!Complete, WS!HasRows
  <2>2. x \in Nat /\ x <= Won[i]
    BY RowPriceIs
  <2> HIDE DEF x
  <2>3. prices \in OrderRows /\ DOMAIN prices = DOMAIN s2[o].prices /\ \A j \in DOMAIN prices : prices[j] <= Won[j]
    <3>1. PICK D \in SUBSET SaleItems : s2[o].prices \in [D -> Nat]
      BY <1>0, <2>1 DEF OrderRows
    <3>2. prices \in [D -> Nat] /\ \A j \in D : prices[j] = IF j = i THEN x ELSE s2[o].prices[j]
      BY <2>2, <3>1
    <3>3. \A j \in D : s2[o].prices[j] <= Won[j]
      BY <2>1, <3>1 DEF WonInv
    <3>4. prices \in OrderRows
      BY <3>2 DEF OrderRows
    <3> HIDE DEF prices
    <3> QED BY <2>2, <3>1, <3>2, <3>3, <3>4
  <2>4. r \in OrderRec /\ r.prices = prices /\ r.total = s2[o].total /\ r.shipping = s2[o].shipping
    <3> HIDE DEF prices
    <3> QED BY <1>0, <2>1, <2>3 DEF OrderRec
  <2> HIDE DEF r, prices
  <2>5. /\ s2' \in Seq(OrderRec) /\ Len(s2') = Len(s2)
        /\ \A k \in 1..Len(s2) : s2'[k] = IF k = o THEN r ELSE s2[k]
    BY <1>0, <2>1, <2>4
  <2>6. /\ s1' \in [SaleItems -> [status : {"pending", "registered"}, order : 0..Len(s2), again : BOOLEAN]]
        /\ \A j \in SaleItems : s1'[j].order = s1[j].order
    BY <1>0, <2>1
  <2>7. ASSUME NEW k \in 1..Len(s2)
        PROVE /\ DOMAIN s2'[k].prices \in {DOMAIN s2[k].prices, {}}
              /\ \A j \in DOMAIN s2'[k].prices : s2'[k].prices[j] <= Won[j]
              /\ s2'[k].total >= s2'[k].shipping
              /\ s2'[k].total - s2'[k].shipping <= s2[k].total - s2[k].shipping
              /\ DOMAIN s2'[k].prices = {} => s2'[k].total = s2'[k].shipping
    BY <1>0, <2>1, <2>3, <2>4, <2>5 DEF WonInv
  <2> QED BY <2>5, <2>6, <2>7, WonFrame
<1>2. ASSUME NEW o \in 1..Len(s2), WS!NarrowTotal(o) \/ WS!DeleteOrder(o) PROVE WonInv'
  <2> DEFINE t == WS!Total(s2[o].prices)
  <2>1. t \in Nat /\ s2[o].total >= s2[o].shipping
    BY <1>0, RowsAre DEF WonInv
  <2>2. PICK r \in OrderRec : /\ s2' = [s2 EXCEPT ![o] = r] /\ s1' = s1
                              /\ DOMAIN r.prices \in {DOMAIN s2[o].prices, {}}
                              /\ \A j \in DOMAIN r.prices : r.prices[j] <= Won[j]
                              /\ r.total >= r.shipping /\ r.total - r.shipping <= s2[o].total - s2[o].shipping
                              /\ DOMAIN r.prices = {} => r.total = r.shipping
    <3>1. CASE WS!NarrowTotal(o)
      <4> DEFINE q == [s2[o] EXCEPT !.total = t + s2[o].shipping]
      <4>1. WS!Remaining(o) > 0 /\ s2' = [s2 EXCEPT ![o] = q] /\ s1' = s1
        BY <3>1 DEF WS!NarrowTotal
      <4> HIDE DEF t
      <4>2. q \in OrderRec /\ q.total = t + s2[o].shipping /\ q.shipping = s2[o].shipping /\ q.prices = s2[o].prices
        BY <1>0, <2>1 DEF OrderRec
      <4>3. s2[o].total - t - s2[o].shipping > 0
        BY <1>0, <2>1, <4>1 DEF WS!Remaining, WS!Larger, t
      <4>4. DOMAIN s2[o].prices = {} => s2[o].total = s2[o].shipping
        BY DEF WonInv
      <4>5. DOMAIN s2[o].prices # {}
        BY <1>0, <2>1, <4>3, <4>4
      <4>6. \A j \in DOMAIN s2[o].prices : s2[o].prices[j] <= Won[j]
        BY DEF WonInv
      <4> HIDE DEF q
      <4>7. q.total >= q.shipping /\ q.total - q.shipping <= s2[o].total - s2[o].shipping
        BY <1>0, <2>1, <4>2, <4>3
      <4> QED BY <4>1, <4>2, <4>5, <4>6, <4>7
    <3>2. CASE WS!DeleteOrder(o)
      <4> DEFINE q == [total |-> 0, shipping |-> 0, prices |-> WS!NoRows]
      <4>1. s2' = [s2 EXCEPT ![o] = q] /\ s1' = s1
        BY <3>2 DEF WS!DeleteOrder
      <4>2. WS!NoRows \in OrderRows /\ DOMAIN WS!NoRows = {}
        <5>1. WS!NoRows \in [{} -> Nat]
          BY DEF WS!NoRows
        <5> QED BY <5>1 DEF OrderRows
      <4>3. q \in OrderRec /\ q.prices = WS!NoRows /\ q.total = 0 /\ q.shipping = 0
        BY <4>2 DEF OrderRec
      <4> HIDE DEF q
      <4>4. q.total >= q.shipping /\ q.total - q.shipping <= s2[o].total - s2[o].shipping
        BY <1>0, <2>1, <4>3
      <4>5. DOMAIN q.prices = {} /\ \A j \in DOMAIN q.prices : q.prices[j] <= Won[j]
        BY <4>2, <4>3
      <4> QED BY <4>1, <4>3, <4>4, <4>5
    <3> QED BY <1>2, <3>1, <3>2
  <2>3. /\ s2' \in Seq(OrderRec) /\ Len(s2') = Len(s2)
        /\ \A k \in 1..Len(s2) : s2'[k] = IF k = o THEN r ELSE s2[k]
    BY <1>0, <2>2
  <2>4. ASSUME NEW k \in 1..Len(s2)
        PROVE /\ DOMAIN s2'[k].prices \in {DOMAIN s2[k].prices, {}}
              /\ \A j \in DOMAIN s2'[k].prices : s2'[k].prices[j] <= Won[j]
              /\ s2'[k].total >= s2'[k].shipping
              /\ s2'[k].total - s2'[k].shipping <= s2[k].total - s2[k].shipping
              /\ DOMAIN s2'[k].prices = {} => s2'[k].total = s2'[k].shipping
    BY <1>0, <2>2, <2>3 DEF WonInv
  <2> QED BY <1>0, <2>2, <2>3, <2>4, WonFrame
<1>3. DOMAIN s2 = 1..Len(s2)
  BY <1>0
<1>4. ASSUME NEW S \in SUBSET SaleItems, NEW keep \in SUBSET S, NEW shipping \in {0, MaxShipping},
             WS!Register(S, keep, shipping)
      PROVE  WonInv'
  <2>1. \A i \in S : s1'[i] = [status |-> IF i \in keep THEN "pending" ELSE "registered", order |-> Len(s2) + 1,
                               again |-> s1[i].again \/ i \in WS!OnOrder]
    BY <1>4 DEF WS!Register
  <2>2. S \cap WS!OnOrder = {}
    <3>1. \A i \in SaleItems : ~s1'[i].again
      BY <1>4 DEF NoneAgain
    <3>2. ASSUME NEW i \in S, i \in WS!OnOrder PROVE FALSE
      <4> DEFINE x == s1[i].again \/ i \in WS!OnOrder
                 rec == [status |-> IF i \in keep THEN "pending" ELSE "registered", order |-> Len(s2) + 1, again |-> x]
      <4>1. s1'[i] = rec
        BY <2>1
      <4>2. x
        BY <3>2
      <4> HIDE DEF x
      <4>3. rec.again = x
        OBVIOUS
      <4> HIDE DEF rec
      <4> QED BY <3>1, <4>1, <4>2, <4>3
    <3> QED BY <3>2
  <2> QED BY <1>4, <2>2, WonRegister
<1> QED BY <1>1, <1>2, <1>3, <1>4 DEF WS!Next

\* A lot that was linked again stays so.
LEMMA AgainStays == ASSUME SaleTyped, WS!Next, NoneAgain' PROVE NoneAgain
<1>1. \A i \in SaleItems : s1[i] \in [status : {"pending", "registered"}, order : 0..Len(s2), again : BOOLEAN]
  BY DEF SaleTyped
<1>2. ASSUME NEW i \in SaleItems, s1[i].again PROVE s1'[i].again
  <2>1. ASSUME NEW S \in SUBSET SaleItems, NEW keep \in SUBSET S, NEW shipping \in {0, MaxShipping},
               WS!Register(S, keep, shipping)
        PROVE  s1'[i].again
    BY <1>2, <2>1 DEF WS!Register
  <2>2. ASSUME NEW j \in SaleItems, WS!Complete(j) PROVE s1'[i].again
    <3>1. s1' = [s1 EXCEPT ![j].status = "registered"]
      BY <2>2 DEF WS!Complete
    <3>2. s1'[i].again = s1[i].again
      BY <1>1, <3>1 DEF SaleTyped
    <3> QED BY <1>2, <3>2
  <2>3. ASSUME NEW o, WS!NarrowTotal(o) \/ WS!DeleteOrder(o) PROVE s1'[i].again
    BY <1>2, <2>3 DEF WS!NarrowTotal, WS!DeleteOrder
  <2> QED BY <2>1, <2>2, <2>3 DEF WS!Next
<1> QED BY <1>2 DEF NoneAgain

\* The money of a sale of which no lot was linked again
MoneyInv == SaleTyped /\ (NoneAgain => WonInv)

LEMMA MoneyStep == ASSUME MoneyInv, WS!Next \/ UNCHANGED <<s1, s2>> PROVE MoneyInv'
<1>1. CASE WS!Next
  <2>1. SaleTyped'
    BY <1>1, SaleStep DEF MoneyInv
  <2>2. ASSUME NoneAgain' PROVE WonInv'
    BY <1>1, <2>2, AgainStays, WonStep DEF MoneyInv
  <2> QED BY <2>1, <2>2 DEF MoneyInv
<1>2. CASE UNCHANGED <<s1, s2>>
  BY <1>2, SaleStutter, WonStutter DEF MoneyInv, NoneAgain
<1> QED BY <1>1, <1>2

\* A submit that comes after a sale of its listing sells nothing, no request takes a sale
\* row with it that a deletion has read, and the Totals of a sale's orders count none of
\* its money twice while no lot on an order is linked again: for any cards, listings, items
\* and prices, and whatever forms and deletions overlap or come from stale pages.
THEOREM SoldOnceHolds == ShopSpec => SoldOnceForGood
<1> DEFINE I == (part = "won sale" => MoneyInv) /\ (part = "listings" => ListingsInv)
           Keeps == part = "listings" => LI!HistoryKept
<1>1. ShopInit => I
  BY WonBegin, SaleBegin, ListingsBegin DEF ShopInit, MoneyInv
<1>2. I /\ [ShopNext]_shopvars => I' /\ Keeps
  <2> SUFFICES ASSUME I, [ShopNext]_shopvars PROVE I' /\ Keeps
    OBVIOUS
  <2>1. part' = part
    BY DEF ShopNext, shopvars
  <2>2. CASE part = "won sale"
    <3>1. MoneyInv /\ (WS!Next \/ UNCHANGED <<s1, s2>>)
      BY <2>2 DEF ShopNext, OtherPart, shopvars
    <3> QED BY <2>1, <2>2, <3>1, MoneyStep
  <2>3. CASE part = "listings"
    <3>1. LI!Next \/ UNCHANGED <<s1, s2, s3, s4, s5>>
      BY <2>3 DEF ShopNext, OtherPart, shopvars
    <3>2. UNCHANGED <<s1, s2, s3, s4, s5>> => ListingsInv' /\ LI!HistoryKept
      BY <2>3, ListingsTypesStutter DEF ListingsInv, LI!HistoryKept, LI!Sold
    <3> QED BY <2>1, <2>3, <3>1, <3>2, ListingsStep, AdsAssumption
  <2> QED BY <2>1, <2>2, <2>3
<1>3. I => (part = "won sale" => WS!MoneyOnceUnlessAgain) /\ (part = "listings" => LI!SoldOnce)
  BY SoldOnceThen, AdsAssumption DEF MoneyInv, WonInv, NoneAgain, WS!MoneyOnceUnlessAgain
<1> HIDE DEF I
<1> QED BY <1>1, <1>2, <1>3, PTL DEF ShopSpec, SoldOnceForGood

-----------------------------------------------------------------------------
(* MasterSets *)

LEMMA MasterSums == \A f, S : MS!Sigma(f, S) = Sigma(f, S)
BY DEF MS!Sigma, Sigma, MS!Fns!SumFunctionOnSet, MS!Fns!FoldFunctionOnSet, MS!Fns!MapThenFoldSet,
       Fns!SumFunctionOnSet, Fns!FoldFunctionOnSet, Fns!MapThenFoldSet

LEMMA MasterCounts == \A S : MS!Cardinality(S) = Cardinality(S)
BY DEF MS!Cardinality, Cardinality

ListItems == UNION {[S -> Nat \ {0}] : S \in SUBSET SetPrints}

MasterInv ==
  /\ s1 \in [Cards -> [qty : 0..MaxQty, incoming : 0..MaxQty, print : SetPrints \cup {NoPrint}]]
  /\ s2 \in [Lists -> [kind : {"none", "want", "sale"}, items : ListItems]]

LEMMA ItemsAre ==
  ASSUME NEW items
  PROVE  items \in ListItems <=> /\ items = [p \in DOMAIN items |-> items[p]] /\ DOMAIN items \subseteq SetPrints
                                 /\ \A p \in DOMAIN items : items[p] \in Nat \ {0}
BY DEF ListItems

LEMMA MasterTyped == ASSUME MasterInv PROVE MS!TypeOK
BY ItemsAre DEF MasterInv, MS!TypeOK

\* Copies are counted in natural numbers.
LEMMA CopiesAre ==
  ASSUME MasterInv, NEW p
  PROVE  MS!OwnedQty(p) \in Nat /\ MS!InHandQty(p) \in Nat
<1> DEFINE owned == [c \in Cards |-> s1[c].qty]
           held == [c \in Cards |-> MS!InHand(c)]
<1>1. IsFiniteSet(MS!OwnedCards(p)) /\ MS!OwnedCards(p) \in SUBSET Cards
  BY HoldingsAssumption, FS_Subset DEF MS!OwnedCards
<1>2. ASSUME NEW c \in Cards PROVE owned[c] \in Nat /\ held[c] \in Nat
  <2>1. s1[c].qty \in Nat /\ s1[c].incoming \in Nat
    BY HoldingsAssumption DEF MasterInv
  <2> QED BY <2>1 DEF MS!InHand, MS!InTransit, MS!AtLeast0
<1>3. MS!OwnedQty(p) = Sigma(owned, MS!OwnedCards(p)) /\ MS!InHandQty(p) = Sigma(held, MS!OwnedCards(p))
  BY MasterSums DEF MS!OwnedQty, MS!InHandQty
<1>4. \A c \in MS!OwnedCards(p) : owned[c] \in Nat /\ held[c] \in Nat
  BY <1>1, <1>2
<1> HIDE DEF owned, held
<1> QED BY <1>1, <1>3, <1>4, SumOfNats

LEMMA EveryCardOnce == ASSUME MasterInv PROVE MS!EveryOwnedCardOnce
<1> SUFFICES ASSUME NEW c \in Cards, s1[c].qty > 0, s1[c].print = NoPrint => DexNumber[c] \in Numbers
             PROVE  MS!Cardinality({p \in MS!Checklist : c \in MS!OwnedCards(p)}) + (IF c \in MS!Unmatched THEN 1 ELSE 0) = 1
  BY DEF MS!EveryOwnedCardOnce
<1> DEFINE on == {p \in MS!Checklist : c \in MS!OwnedCards(p)}
<1>1. s1[c].print \in SetPrints \cup {NoPrint} /\ MS!Checklist \subseteq SetPrints
  BY DEF MasterInv, MS!Checklist
<1>2. \A p : c \in MS!OwnedCards(p) <=> s1[c].print = p
  BY DEF MS!OwnedCards
<1>3. CASE s1[c].print \in MS!Checklist
  <2>1. on = {s1[c].print}
    BY <1>2, <1>3
  <2>2. c \notin MS!Unmatched
    BY <1>1, <1>3, HoldingsAssumption DEF MS!Unmatched
  <2>3. Cardinality(on) = 1
    <3> HIDE DEF on
    <3> QED BY <2>1, FS_Singleton
  <2> QED BY <2>2, <2>3, MasterCounts
<1>4. CASE s1[c].print \notin MS!Checklist
  <2>1. on = {}
    BY <1>2, <1>4
  <2>2. c \in MS!Unmatched
    BY <1>1, <1>4 DEF MS!Unmatched
  <2>3. Cardinality(on) = 0
    <3> HIDE DEF on
    <3> QED BY <2>1, FS_EmptySet
  <2> QED BY <2>2, <2>3, MasterCounts
<1> QED BY <1>3, <1>4

LEMMA ListedQty ==
  ASSUME MasterInv, NEW l \in Lists, NEW p \in DOMAIN s2[l].items
  PROVE  s2[l].items[p] \in Nat \ {0} /\ p \in SetPrints
<1>1. s2[l].items \in ListItems
  BY DEF MasterInv
<1> QED BY <1>1, ItemsAre

LEMMA WantsCount == ASSUME MasterInv PROVE MS!WantsWhatItCounts
<1> SUFFICES ASSUME NEW l \in Lists, s2[l].kind = "want", NEW p \in DOMAIN s2[l].items
             PROVE  /\ MS!InText(l, p) <=> MS!Counted(l, p) > 0
                    /\ MS!Status(l, p) = "got" => MS!InHandQty(p) >= s2[l].items[p]
  BY DEF MS!WantsWhatItCounts
<1> DEFINE qty == s2[l].items[p]
           have == MS!OwnedQty(p)
           held == MS!InHandQty(p)
<1>1. qty \in Nat \ {0} /\ have \in Nat /\ held \in Nat
  BY ListedQty, CopiesAre
<1>2. MS!Status(l, p) = MS!WantStatus(p, qty) /\ MS!Counted(l, p) = MS!AtLeast0(qty - have)
      /\ (MS!InText(l, p) <=> MS!Status(l, p) \notin {"got", "on_the_way"})
  BY DEF MS!Status, MS!Counted, MS!InText
<1> HIDE DEF qty, have, held
<1>3. /\ have >= qty => MS!WantStatus(p, qty) = IF held >= qty THEN "got" ELSE "on_the_way"
      /\ ~(have >= qty) => MS!WantStatus(p, qty) \in {"partial", "unmatched", "missing"}
  BY DEF MS!WantStatus, qty, have, held
<1>4. MS!AtLeast0(qty - have) > 0 <=> ~(have >= qty)
  BY <1>1 DEF MS!AtLeast0
<1>5. MS!InText(l, p) <=> MS!Counted(l, p) > 0
  BY <1>2, <1>3, <1>4
<1>6. MS!Status(l, p) = "got" => held >= qty
  BY <1>2, <1>3
<1> QED BY <1>5, <1>6 DEF held, qty

LEMMA ACopyStays == ASSUME MasterInv PROVE MS!KeepsOneCopy
<1> SUFFICES ASSUME NEW l \in Lists, s2[l].kind = "sale", NEW p \in DOMAIN s2[l].items, MS!Status(l, p) = "available"
             PROVE  MS!InHandQty(p) > s2[l].items[p] /\ MS!Counted(l, p) = s2[l].items[p]
  BY DEF MS!KeepsOneCopy
<1> DEFINE qty == s2[l].items[p]
           held == MS!InHandQty(p)
<1>1. qty \in Nat \ {0} /\ held \in Nat
  BY ListedQty, CopiesAre
<1>2. MS!Status(l, p) = MS!SaleStatus(p, qty)
      /\ MS!Counted(l, p) = IF qty < MS!Spares(p) THEN qty ELSE MS!Spares(p)
  BY DEF MS!Status, MS!Counted
<1>3. qty <= MS!Spares(p)
  BY <1>2 DEF MS!SaleStatus
<1>4. MS!Spares(p) = IF held - 1 > 0 THEN held - 1 ELSE 0
  BY DEF MS!Spares, MS!AtLeast0
<1> HIDE DEF qty, held
<1>5. held > qty /\ (IF qty < MS!Spares(p) THEN qty ELSE MS!Spares(p)) = qty
  BY <1>1, <1>3, <1>4
<1> QED BY <1>2, <1>5 DEF qty, held

LEMMA MasterBegin == ASSUME MS!Init PROVE MasterInv
<1>1. MS!NoItems \in [{} -> Nat \ {0}]
  BY DEF MS!NoItems
<1>2. MS!NoItems \in ListItems
  BY <1>1 DEF ListItems
<1> QED BY <1>2, HoldingsAssumption DEF MS!Init, MasterInv

\* add_items() leaves what is on the list, and takes only what may be on it.
LEMMA AddItemsKeeps ==
  ASSUME NEW items \in ListItems, NEW new \in ListItems
  PROVE  /\ MS!AddItems(items, new) \in ListItems
         /\ \A p \in DOMAIN items : MS!AddItems(items, new)[p] = items[p]
BY ItemsAre DEF MS!AddItems

LEMMA WithoutKeeps ==
  ASSUME NEW items \in ListItems, NEW S
  PROVE  /\ MS!Without(items, S) \in ListItems
         /\ \A p \in DOMAIN MS!Without(items, S) : MS!Without(items, S)[p] = items[p]
BY ItemsAre DEF MS!Without

\* A step of one list: its items are of the set, and it changes no quantity or
\* leaves the prints as they were.
LEMMA ListChanges ==
  ASSUME MasterInv, s1' = s1, NEW l \in Lists, NEW r \in [kind : {"none", "want", "sale"}, items : ListItems],
         s2' = [s2 EXCEPT ![l] = r],
         \/ \A p \in DOMAIN s2[l].items \cap DOMAIN r.items : r.items[p] = s2[l].items[p]
         \/ DOMAIN r.items = DOMAIN s2[l].items
  PROVE  MasterInv' /\ MS!TypedQtyStays
<1>1. s2' \in [Lists -> [kind : {"none", "want", "sale"}, items : ListItems]]
  BY DEF MasterInv
<1>2. s2'[l] = r /\ \A k \in Lists \ {l} : s2'[k] = s2[k]
  BY DEF MasterInv
<1> QED BY <1>1, <1>2 DEF MasterInv, MS!TypedQtyStays

LEMMA MasterStep == ASSUME MasterInv, MS!Next PROVE MasterInv' /\ MS!TypedQtyStays
<1>0. \A l \in Lists : s2[l] \in [kind : {"none", "want", "sale"}, items : ListItems]
  BY DEF MasterInv
<1>1. ASSUME NEW c \in Cards, MS!Sync(c) \/ MS!Relink(c) PROVE MasterInv' /\ MS!TypedQtyStays
  <2>1. s2' = s2
    BY <1>1 DEF MS!Sync, MS!Relink
  <2>2. s1' \in [Cards -> [qty : 0..MaxQty, incoming : 0..MaxQty, print : SetPrints \cup {NoPrint}]]
    <3>1. CASE MS!Sync(c)
      <4>0. PICK q \in 0..MaxQty : \E t \in 0..q : s1' = [s1 EXCEPT ![c].qty = q, ![c].incoming = t]
        BY <3>1 DEF MS!Sync
      <4>1. PICK t \in 0..q : s1' = [s1 EXCEPT ![c].qty = q, ![c].incoming = t]
        BY <4>0
      <4>2. t \in 0..MaxQty
        BY HoldingsAssumption
      <4> QED BY <4>1, <4>2 DEF MasterInv
    <3>2. CASE MS!Relink(c)
      BY <3>2 DEF MS!Relink, MasterInv
    <3> QED BY <1>1, <3>1, <3>2
  <2> QED BY <2>1, <2>2 DEF MasterInv, MS!TypedQtyStays
<1>2. ASSUME NEW l \in Lists, MS!ListStep(l) PROVE MasterInv' /\ MS!TypedQtyStays
  <2> DEFINE kind == s2[l].kind
             items == s2[l].items
  <2>0. kind \in {"none", "want", "sale"} /\ items \in ListItems /\ s2[l] = [kind |-> kind, items |-> items]
    BY <1>0
  <2>8. ASSUME s1' = s1, NEW new \in ListItems, s2' = [s2 EXCEPT ![l].items = new],
               \/ \A p \in DOMAIN items \cap DOMAIN new : new[p] = items[p]
               \/ DOMAIN new = DOMAIN items
        PROVE  MasterInv' /\ MS!TypedQtyStays
    <3> DEFINE r == [s2[l] EXCEPT !.items = new]
    <3>1. s2' = [s2 EXCEPT ![l] = r]
      BY <2>8
    <3>2. r \in [kind : {"none", "want", "sale"}, items : ListItems] /\ r.items = new
      BY <2>0
    <3> HIDE DEF r
    <3> QED BY <2>8, <3>1, <3>2, ListChanges
  <2>1. ASSUME NEW k \in {"want", "sale"}, MS!Create(l, k) PROVE MasterInv' /\ MS!TypedQtyStays
    <3> DEFINE r == [s2[l] EXCEPT !.kind = k]
    <3>1. s1' = s1 /\ s2' = [s2 EXCEPT ![l] = r]
      BY <2>1 DEF MS!Create
    <3>2. r \in [kind : {"none", "want", "sale"}, items : ListItems] /\ r.items = items
      BY <2>0
    <3> HIDE DEF r
    <3> QED BY <3>1, <3>2, ListChanges
  <2>2. ASSUME NEW track, NEW show, MS!AddFromSet(l, track, show) PROVE MasterInv' /\ MS!TypedQtyStays
    <3> DEFINE shown == MS!Shown(track, show)
               wanted == [p \in {q \in shown : ~MS!Owned(q)} |-> 1]
               spare == [p \in {q \in shown : MS!Spares(q) > 0} |-> MS!Spares(p)]
               new == IF kind = "want" THEN wanted ELSE spare
    <3>1. s1' = s1 /\ s2' = [s2 EXCEPT ![l].items = MS!AddItems(@, new)]
      BY <2>2 DEF MS!AddFromSet
    <3>2. shown \subseteq SetPrints
      BY DEF MS!Shown, MS!Checklist
    <3>3. \A p : MS!Spares(p) \in Nat
      BY CopiesAre DEF MS!Spares, MS!AtLeast0
    <3>4. wanted \in ListItems
      <4> HIDE DEF shown
      <4> QED BY <3>2, ItemsAre
    <3>5. spare \in ListItems
      <4> HIDE DEF shown
      <4> QED BY <3>2, <3>3, ItemsAre
    <3> HIDE DEF wanted, spare
    <3>6. new \in ListItems
      BY <3>4, <3>5
    <3> HIDE DEF new
    <3>7. MS!AddItems(items, new) \in ListItems /\ \A p \in DOMAIN items : MS!AddItems(items, new)[p] = items[p]
      BY <2>0, <3>6, AddItemsKeeps
    <3> QED BY <2>8, <3>1, <3>7
  <2>3. ASSUME NEW S, s1' = s1, s2' = [s2 EXCEPT ![l].items = MS!Without(@, S)] PROVE MasterInv' /\ MS!TypedQtyStays
    <3>1. MS!Without(items, S) \in ListItems /\ \A p \in DOMAIN MS!Without(items, S) : MS!Without(items, S)[p] = items[p]
      BY <2>0, WithoutKeeps
    <3> QED BY <2>3, <2>8, <3>1
  <2>4. ASSUME NEW p \in SetPrints, NEW qty \in 1..MaxQty, MS!Save(l, p, qty) PROVE MasterInv' /\ MS!TypedQtyStays
    <3> DEFINE saved == [items EXCEPT ![p] = qty]
    <3>1. p \in DOMAIN items /\ s1' = s1 /\ s2' = [s2 EXCEPT ![l].items = saved]
      BY <2>4 DEF MS!Save
    <3>2. qty \in Nat \ {0}
      BY HoldingsAssumption
    <3>3. saved \in ListItems /\ DOMAIN saved = DOMAIN items
      BY <2>0, <3>1, <3>2, ItemsAre
    <3> HIDE DEF saved
    <3> QED BY <2>8, <3>1, <3>3
  <2>5. CASE MS!DeleteList(l)
    <3>1. s1' = s1 /\ s2' = [s2 EXCEPT ![l] = [kind |-> "none", items |-> MS!NoItems]]
      BY <2>5 DEF MS!DeleteList
    <3>2. MS!NoItems \in ListItems /\ DOMAIN MS!NoItems = {}
      BY ItemsAre DEF MS!NoItems
    <3> DEFINE r == [kind |-> "none", items |-> MS!NoItems]
    <3>3. r \in [kind : {"none", "want", "sale"}, items : ListItems] /\ r.items = MS!NoItems
      BY <3>2
    <3> HIDE DEF r
    <3> QED BY <3>1, <3>2, <3>3, ListChanges DEF r
  <2>6. MS!RemoveGotIt(l) => s1' = s1 /\ s2' = [s2 EXCEPT ![l].items = MS!Without(@, MS!Got(l))]
    BY DEF MS!RemoveGotIt
  <2>7. \A p : MS!DeleteItem(l, p) => s1' = s1 /\ s2' = [s2 EXCEPT ![l].items = MS!Without(@, {p})]
    BY DEF MS!DeleteItem
  <2> QED BY <1>2, <2>1, <2>2, <2>3, <2>4, <2>5, <2>6, <2>7 DEF MS!ListStep
<1> QED BY <1>1, <1>2 DEF MS!Next

\* What you hold and the lists agree: for any cards, prints, lists and quantities.
THEOREM ListsFollow == ShopSpec => []ListsFollowHoldings
<1> DEFINE I == part = "master sets" => MasterInv
<1>1. ShopInit => I
  BY MasterBegin DEF ShopInit
<1>2. I /\ [ShopNext]_shopvars => I'
  <2> SUFFICES ASSUME I, [ShopNext]_shopvars, part = "master sets" \/ part' = "master sets" PROVE MasterInv'
    OBVIOUS
  <2>1. MasterInv /\ (MS!Next \/ UNCHANGED <<s1, s2>>)
    BY DEF ShopNext, OtherPart, shopvars
  <2>2. UNCHANGED <<s1, s2>> => MasterInv'
    BY <2>1 DEF MasterInv
  <2> QED BY <2>1, <2>2, MasterStep
<1>3. I => ListsFollowHoldings
  BY EveryCardOnce, WantsCount, ACopyStays DEF ListsFollowHoldings
<1> HIDE DEF I
<1> QED BY <1>1, <1>2, <1>3, PTL DEF ShopSpec

-----------------------------------------------------------------------------
(* Checklists *)

LEMMA CheckNames ==
  /\ \A S : CH!Cardinality(S) = Cardinality(S)
  /\ \A P, k : CH!Nth(P, k) = Nth(P, k)
BY DEF CH!Cardinality, Cardinality, CH!Nth, Nth, CH!Rank, Rank

\* A sequence of a finite set has each of its elements once.
LEMMA InASequence ==
  ASSUME NEW S, IsFiniteSet(S)
  PROVE  LET q == CH!SetToSeq(S)
         IN  /\ q \in [1..Cardinality(S) -> S]
             /\ \A i, j \in 1..Cardinality(S) : q[i] = q[j] => i = j
             /\ \A x \in S : \E i \in 1..Cardinality(S) : q[i] = x
<1> DEFINE n == Cardinality(S)
           q == CH!SetToSeq(S)
<1>1. n \in Nat /\ ExistsBijection(1..n, S)
  BY FS_CardinalityType
<1>2. PICK f : f \in Injection(1..n, S)
  BY <1>1 DEF ExistsBijection, Bijection
<1>3. f \in [1..n -> S] /\ CH!IsInjective(f)
  BY <1>2 DEF Injection, IsInjective, CH!IsInjective
<1>4. q \in [1..n -> S] /\ CH!IsInjective(q)
  BY <1>3, CheckNames DEF CH!SetToSeq
<1> HIDE DEF q
<1>5. q \in Injection(1..n, S)
  BY <1>4 DEF Injection, IsInjective, CH!IsInjective
<1>6. IsFiniteSet(1..n) /\ Cardinality(1..n) = n
  BY <1>1, FS_Interval
<1>7. q \in Surjection(1..n, S)
  BY <1>5, <1>6, FS_Injection
<1> QED BY <1>4, <1>7 DEF Surjection, CH!IsInjective, q

Bases == {"normal", "holo"}
Balls == {"poke_ball_holo", "master_ball_holo"}

LEMMA PrintIs ==
  ASSUME NEW cat, NEW p \in CH!Prints(cat)
  PROVE  /\ p = [number |-> p.number, variant |-> p.variant, base |-> p.base, track |-> p.track]
         /\ p.number \in DOMAIN cat
         /\ \/ /\ p.base = TRUE /\ p.variant \in cat[p.number] \cap Bases
               /\ p.track = IF p.number <= Official THEN "main" ELSE "secret"
            \/ p.base = FALSE /\ p.variant = "poke_ball_holo" /\ p.track = "poke_ball"
            \/ p.base = FALSE /\ p.variant = "master_ball_holo" /\ p.track = "master_ball"
<1>1. PICK n \in DOMAIN cat :
        p \in {[number |-> n, variant |-> v, base |-> TRUE, track |-> IF n <= Official THEN "main" ELSE "secret"] :
                 v \in cat[n] \cap CH!BASE_VARIANTS}
              \cup {[number |-> n, variant |-> CH!BALL_FOILS[f], base |-> FALSE, track |-> CH!BALL_TRACKS[f]] :
                 f \in cat[n] \cap DOMAIN CH!BALL_FOILS}
  BY DEF CH!Prints
<1>2. CASE \E v \in cat[n] \cap Bases :
        p = [number |-> n, variant |-> v, base |-> TRUE, track |-> IF n <= Official THEN "main" ELSE "secret"]
  BY <1>2
<1>3. CASE \E f \in {"pokeball", "masterball"} :
        p = [number |-> n, variant |-> CH!BALL_FOILS[f], base |-> FALSE, track |-> CH!BALL_TRACKS[f]]
  BY <1>3 DEF CH!BALL_FOILS, CH!BALL_TRACKS
<1>4. DOMAIN CH!BALL_FOILS = {"pokeball", "masterball"}
  BY DEF CH!BALL_FOILS
<1> QED BY <1>1, <1>2, <1>3, <1>4 DEF CH!BASE_VARIANTS, Bases

\* In a list that can be read a print is known by its number and variant, by
\* its number and track, and as its number's base print.
LEMMA PrintsDiffer ==
  ASSUME NEW cat, CH!Readable(cat), NEW p \in CH!Prints(cat), NEW q \in CH!Prints(cat), p.number = q.number,
         \/ p.variant = q.variant
         \/ p.track = q.track
         \/ p.base /\ q.base
  PROVE  p = q
<1> DEFINE n == p.number
           B == cat[n] \cap Bases
<1>1. PICK b : B = {b}
  <2>1. IsFiniteSet({"normal", "holo"})
    <3>1. IsFiniteSet({"normal"} \cup {"holo"})
      BY FS_Singleton, FS_AddElement
    <3>2. {"normal"} \cup {"holo"} = {"normal", "holo"}
      OBVIOUS
    <3> QED BY <3>1, <3>2
  <2>2. IsFiniteSet(B)
    BY <2>1, FS_Subset DEF Bases
  <2>3. Cardinality(B) = 1
    BY PrintIs, CheckNames DEF CH!Readable, CH!BASE_VARIANTS, Bases
  <2> QED BY <2>2, <2>3, FS_Singleton
<1>2. p.base = TRUE => p.variant \in B
  BY PrintIs
<1>3. q.base = TRUE => q.variant \in B
  BY PrintIs
<1>4. p.base = q.base /\ p.variant = q.variant /\ p.track = q.track
  <2> DEFINE Is(x) == \/ /\ x.base = TRUE /\ x.variant \in B
                         /\ x.track = IF x.number <= Official THEN "main" ELSE "secret"
                      \/ x.base = FALSE /\ x.variant = "poke_ball_holo" /\ x.track = "poke_ball"
                      \/ x.base = FALSE /\ x.variant = "master_ball_holo" /\ x.track = "master_ball"
  <2>1. Is(p) /\ Is(q)
    BY PrintIs
  <2>2. b \in {"normal", "holo"}
    BY <1>1 DEF Bases
  <2> QED BY <1>1, <2>1, <2>2
<1> QED BY <1>4, PrintIs

LEMMA PrintsFinite ==
  ASSUME NEW cat \in Catalogues, CH!Readable(cat)
  PROVE  IsFiniteSet(CH!Prints(cat)) /\ Cardinality(CH!Prints(cat)) \in Nat
<1> DEFINE Ps == CH!Prints(cat)
           T == (DOMAIN cat) \X {"normal", "holo", "poke_ball_holo", "master_ball_holo"}
           f == [p \in Ps |-> <<p.number, p.variant>>]
<1>1. IsFiniteSet(T)
  <2> DEFINE V == {"normal", "holo", "poke_ball_holo", "master_ball_holo"}
  <2>1. IsFiniteSet({"normal"} \cup {"holo"})
    BY FS_Singleton, FS_AddElement
  <2>2. IsFiniteSet(({"normal"} \cup {"holo"}) \cup {"poke_ball_holo"})
    BY <2>1, FS_AddElement
  <2>3. IsFiniteSet((({"normal"} \cup {"holo"}) \cup {"poke_ball_holo"}) \cup {"master_ball_holo"})
    BY <2>2, FS_AddElement
  <2>4. (({"normal"} \cup {"holo"}) \cup {"poke_ball_holo"}) \cup {"master_ball_holo"} = V
    OBVIOUS
  <2>5. IsFiniteSet(V)
    BY <2>3, <2>4
  <2>6. IsFiniteSet(DOMAIN cat)
    BY ChecklistAssumption
  <2> HIDE DEF V
  <2>7. \A S, R : IsFiniteSet(S) /\ IsFiniteSet(R) => IsFiniteSet(S \X R)
    BY FS_Product
  <2>8. IsFiniteSet((DOMAIN cat) \X V)
    BY <2>5, <2>6, <2>7, Zenon
  <2> QED BY <2>8 DEF V
<1>2. \A p \in Ps : p.number \in DOMAIN cat /\ p.variant \in {"normal", "holo", "poke_ball_holo", "master_ball_holo"}
  BY PrintIs DEF Bases
<1>3. \A p, q \in Ps : p.number = q.number /\ p.variant = q.variant => p = q
  BY PrintsDiffer
<1> HIDE DEF Ps
<1>4. f \in [Ps -> T]
  <2>1. \A p \in Ps : <<p.number, p.variant>> \in T
    <3> DEFINE V == {"normal", "holo", "poke_ball_holo", "master_ball_holo"}
    <3>1. \A p \in Ps : p.number \in DOMAIN cat /\ p.variant \in V
      BY <1>2
    <3> HIDE DEF V
    <3>2. \A p \in Ps : <<p.number, p.variant>> \in (DOMAIN cat) \X V
      BY <3>1
    <3> QED BY <3>2 DEF V
  <2> HIDE DEF T
  <2> QED BY <2>1
<1>5. f \in Injection(Ps, T)
  <2>1. \A p, q \in Ps : f[p] = f[q] => p = q
    BY <1>3
  <2>2. DOMAIN f = Ps
    OBVIOUS
  <2> HIDE DEF f, T
  <2> QED BY <1>4, <2>1, <2>2 DEF Injection, IsInjective
<1> HIDE DEF T, f
<1>6. IsFiniteSet(Ps)
  BY <1>1, <1>5, FS_Injection
<1> QED BY <1>6, FS_CardinalityType DEF Ps

\* The base slot is one of the candidates, an owned one where there is one,
\* and depends on nothing but their variants.
LEMMA BaseChosen ==
  ASSUME NEW S \in SUBSET Nat, S # {}, NEW p, NEW ms, NEW owned
  PROVE  LET m == CH!ChooseBase(S, p, ms, owned)
         IN  m \in S /\ (S \cap owned # {} => m \in owned)
<1> DEFINE A == CH!Preferred(S, owned)
           B == CH!Preferred(A, {m \in S : ms[m].variant = p.variant})
<1>1. B \subseteq A /\ A \subseteq S /\ B # {} /\ (S \cap owned # {} => A \subseteq owned)
  BY DEF CH!Preferred
<1>2. CH!ChooseBase(S, p, ms, owned) = CHOOSE m \in B : \A n \in B : m <= n
  BY DEF CH!ChooseBase
<1> HIDE DEF A, B
<1>3. \E m \in B : \A n \in B : m <= n
  BY <1>1, LeastNatural
<1> QED BY <1>1, <1>2, <1>3

LEMMA SameBase ==
  ASSUME NEW S, NEW p, NEW owned, NEW ms, NEW ns, \A m \in S : ms[m].variant = ns[m].variant
  PROVE  CH!ChooseBase(S, p, ms, owned) = CH!ChooseBase(S, p, ns, owned)
<1>1. {m \in S : ms[m].variant = p.variant} = {m \in S : ns[m].variant = p.variant}
  OBVIOUS
<1> QED BY <1>1 DEF CH!ChooseBase

-----------------------------------------------------------------------------
CheckNumbers == {CardKey[c].number : c \in DexCards} \cup UNION {DOMAIN cat : cat \in Catalogues}
CheckVariants == {CardKey[c].variant : c \in DexCards} \cup Bases \cup Balls
MasterRows == [number : CheckNumbers, variant : CheckVariants,
               tcgdex : {CH!None, "verified", "verified_number", "manual"}]
MasterLists == Seq(MasterRows)

\* Of two lists of master cards, the rows that are in the first have the same
\* key in the second.
Extends(ms, ns) ==
  Len(ms) <= Len(ns) /\ \A m \in 1..Len(ms) : ms[m].number = ns[m].number /\ ms[m].variant = ns[m].variant

\* What a run has planned: a print has a master card that fits, an owned one
\* where there is one, or a new row of its own.
LEMMA PlanIs ==
  ASSUME NEW cat \in Catalogues, CH!Readable(cat), NEW ms \in MasterLists, NEW owned
  PROVE  LET plan == CH!Plan(cat, ms, owned)
         IN  /\ DOMAIN plan.place = CH!Prints(cat)
             /\ plan.added \in MasterLists
             /\ \A p \in CH!Prints(cat) \ CH!Fresh(cat, ms) :
                  /\ plan.place[p] = CH!ChooseBase(CH!Fitting(p, ms), p, ms, owned)
                  /\ plan.place[p] \in CH!Fitting(p, ms)
                  /\ CH!Fitting(p, ms) \cap owned # {} => plan.place[p] \in owned
             /\ \A p \in CH!Fresh(cat, ms) :
                  /\ plan.place[p] \in Int /\ -plan.place[p] \in 1..Len(plan.added)
                  /\ plan.added[-plan.place[p]] = [number |-> p.number, variant |-> p.variant, tcgdex |-> "verified_number"]
                  /\ \A q \in CH!Fresh(cat, ms) : plan.place[p] = plan.place[q] => p = q
             /\ \A i \in 1..Len(plan.added) : \E p \in CH!Fresh(cat, ms) : plan.place[p] = -i
<1> DEFINE F == CH!Fresh(cat, ms)
           new == CH!SetToSeq(F)
           n == Cardinality(F)
           plan == CH!Plan(cat, ms, owned)
           row(i) == [number |-> new[i].number, variant |-> new[i].variant, tcgdex |-> "verified_number"]
           put(p) == IF CH!Fitting(p, ms) = {} THEN -(CHOOSE i \in DOMAIN new : new[i] = p)
                     ELSE CH!ChooseBase(CH!Fitting(p, ms), p, ms, owned)
<1>1. IsFiniteSet(F) /\ n \in Nat
  BY PrintsFinite, FS_Subset, FS_CardinalityType DEF CH!Fresh
<1>2. /\ new \in [1..n -> F]
      /\ \A i, j \in 1..n : new[i] = new[j] => i = j
      /\ \A p \in F : \E i \in 1..n : new[i] = p
  BY <1>1, InASequence
<1>3. plan = [added |-> [i \in DOMAIN new |-> row(i)], place |-> [p \in CH!Prints(cat) |-> put(p)]]
  BY DEF CH!Plan
<1> HIDE DEF new, plan
<1>4. \A p \in F : p \in CH!Prints(cat) /\ CH!Fitting(p, ms) = {}
  BY DEF CH!Fresh
<1>5. \A i \in 1..n : row(i) \in MasterRows
  <2> TAKE i \in 1..n
  <2>1. new[i] \in CH!Prints(cat)
    BY <1>2, <1>4
  <2>2. new[i].number \in DOMAIN cat /\ new[i].variant \in Bases \cup Balls
    BY <2>1, PrintIs DEF Balls
  <2>3. new[i].number \in CheckNumbers
    BY <2>2 DEF CheckNumbers
  <2>4. new[i].variant \in CheckVariants
    BY <2>2 DEF CheckVariants
  <2> QED BY <2>3, <2>4 DEF MasterRows
<1>6. plan.added \in Seq(MasterRows) /\ Len(plan.added) = n /\ \A i \in 1..n : plan.added[i] = row(i)
  BY <1>1, <1>2, <1>3, <1>5
<1>7. DOMAIN plan.place = CH!Prints(cat) /\ \A p \in CH!Prints(cat) : plan.place[p] = put(p)
  BY <1>3
<1>8. ASSUME NEW p \in CH!Prints(cat) \ F
      PROVE  /\ plan.place[p] = CH!ChooseBase(CH!Fitting(p, ms), p, ms, owned)
             /\ plan.place[p] \in CH!Fitting(p, ms)
             /\ CH!Fitting(p, ms) \cap owned # {} => plan.place[p] \in owned
  <2>1. CH!Fitting(p, ms) # {}
    BY DEF CH!Fresh
  <2>2. CH!Fitting(p, ms) \in SUBSET Nat
    BY DEF CH!Fitting, MasterLists
  <2>3. LET m == CH!ChooseBase(CH!Fitting(p, ms), p, ms, owned)
        IN  m \in CH!Fitting(p, ms) /\ (CH!Fitting(p, ms) \cap owned # {} => m \in owned)
    BY <2>1, <2>2, BaseChosen
  <2>4. plan.place[p] = CH!ChooseBase(CH!Fitting(p, ms), p, ms, owned)
    BY <1>7, <2>1
  <2> QED BY <2>3, <2>4
<1>9. ASSUME NEW p \in F PROVE plan.place[p] \in Int /\ -plan.place[p] \in 1..n /\ new[-plan.place[p]] = p
  <2> DEFINE i == CHOOSE k \in DOMAIN new : new[k] = p
  <2>0. DOMAIN new = 1..n /\ \E k \in 1..n : new[k] = p
    BY <1>2
  <2>1. i \in 1..n /\ new[i] = p
    BY <2>0
  <2>2. plan.place[p] = -i
    BY <1>4, <1>7
  <2> HIDE DEF i
  <2> QED BY <2>1, <2>2, <1>1
<1>10. ASSUME NEW i \in 1..n PROVE \E p \in F : plan.place[p] = -i
  <2>1. new[i] \in F
    BY <1>2
  <2>2. -plan.place[new[i]] = i
    BY <1>2, <1>9, <2>1
  <2>3. plan.place[new[i]] \in Int
    <3> DEFINE k == CHOOSE k \in DOMAIN new : new[k] = new[i]
    <3>1. k \in 1..n
      BY <1>2
    <3>2. plan.place[new[i]] = -k
      BY <1>4, <1>7, <2>1
    <3> HIDE DEF k
    <3> QED BY <3>1, <3>2
  <2> QED BY <2>1, <2>2, <2>3
<1>11. ASSUME NEW p \in F
       PROVE  /\ plan.added[-plan.place[p]] = [number |-> p.number, variant |-> p.variant, tcgdex |-> "verified_number"]
              /\ \A q \in F : plan.place[p] = plan.place[q] => p = q
  <2>1. -plan.place[p] \in 1..n /\ new[-plan.place[p]] = p
    BY <1>9
  <2>2. plan.added[-plan.place[p]] = row(-plan.place[p])
    BY <1>6, <2>1
  <2>3. \A q \in F : new[-plan.place[q]] = q
    BY <1>9
  <2> HIDE DEF F
  <2> QED BY <2>1, <2>2, <2>3
<1> QED BY <1>6, <1>7, <1>8, <1>9, <1>10, <1>11 DEF plan, MasterLists

-----------------------------------------------------------------------------
KeysDiffer(ms) ==
  \A m, n \in 1..Len(ms) : ms[m].number = ms[n].number /\ ms[m].variant = ms[n].variant => m = n

\* What the seed has read is the beginning of what there is.
SeedRuns ==
  /\ s6.catalogue \in Catalogues /\ CH!Readable(s6.catalogue)
  /\ s6.masters \in Seq(MasterRows) /\ Extends(s6.masters, s2)

CardsLinkedTo(ms) ==
  \A c \in DexCards : s3[c] > 0 => s3[c] \in 1..Len(ms) /\ CH!Key(ms[s3[c]]) = CardKey[c]

\* Where a plan puts a print once its new rows follow the n there are
Slot(plan, n, p) == IF plan.place[p] < 0 THEN n - plan.place[p] ELSE plan.place[p]

\* The checklist a commit leaves: the slots, each with its print's track
ListOf(plan, n) ==
  [m \in {Slot(plan, n, p) : p \in DOMAIN plan.place} |->
     (CHOOSE p \in DOMAIN plan.place : Slot(plan, n, p) = m).track]

\* The rows it leaves of those there are
IdsOf(plan, read, ms) ==
  [m \in DOMAIN ms |->
     IF m \in {plan.place[p] : p \in DOMAIN plan.place} /\ CH!Matched(read[m].tcgdex, "verified_number") # read[m].tcgdex
       THEN [ms[m] EXCEPT !.tcgdex = "verified_number"] ELSE ms[m]]

LEMMA WritesAre ==
  /\ \A plan : CH!Members(plan) = ListOf(plan, Len(s2))
  /\ \A plan, read : CH!Ids(plan, read) = IdsOf(plan, read, s2)
BY DEF CH!Members, ListOf, Slot, CH!Ids, IdsOf

\* A plan that leaves everything as it is
Idles(plan, ms, list, count, own, cat) ==
  /\ plan.added = <<>>
  /\ IdsOf(plan, ms, ms) = ms
  /\ ListOf(plan, Len(ms)) = list
  /\ own # {} => count = CH!BasePrints(cat)

\* The next run's plan is one.
NothingToDo == Idles(CH!Plan(s7, s2, CH!Owned), s2, s4, s5, CH!Owned, s7)

ChecklistsInv ==
  /\ s1 \in Catalogues
  /\ s2 \in Seq(MasterRows) /\ KeysDiffer(s2)
  /\ s3 \in [DexCards -> Int] /\ CardsLinkedTo(s2)
  /\ DOMAIN s4 \subseteq 1..Len(s2)
  /\ s6 # CH!Idle => SeedRuns
  /\ s7 # CH!Nothing \/ s8 => s7 \in Catalogues /\ CH!Readable(s7)
  /\ CH!SlotPerPrint /\ CH!OwnedPrintHasSlot
  /\ s8 \in BOOLEAN /\ (s8 => NothingToDo)

LEMMA ChecklistsTyped == ASSUME ChecklistsInv PROVE CH!TypeOK
<1>1. \A m \in DOMAIN s2 : s2[m].tcgdex \in {CH!None, "verified", "verified_number", "manual"}
  <2>1. \A m \in DOMAIN s2 : s2[m] \in MasterRows
    BY DEF ChecklistsInv
  <2>2. \A r \in MasterRows : r.tcgdex \in {CH!None, "verified", "verified_number", "manual"}
    BY DEF MasterRows
  <2> QED BY <2>1, <2>2
<1>2. \A m, n \in DOMAIN s2 : CH!Key(s2[m]) = CH!Key(s2[n]) => m = n
  <2>1. DOMAIN s2 = 1..Len(s2)
    BY DEF ChecklistsInv
  <2>2. \A r, q : CH!Key(r) = CH!Key(q) => r.number = q.number /\ r.variant = q.variant
    BY DEF CH!Key
  <2> QED BY <2>1, <2>2 DEF ChecklistsInv, KeysDiffer
<1>3. \A c \in DexCards : s3[c] > 0 => CH!Key(s2[s3[c]]) = CardKey[c]
  BY DEF ChecklistsInv, CardsLinkedTo
<1> QED BY <1>1, <1>2, <1>3 DEF ChecklistsInv, CH!TypeOK

LEMMA ChecklistsSettle == ASSUME ChecklistsInv PROVE CH!SlotPerPrint /\ CH!OwnedPrintHasSlot /\ CH!SecondSeedIdle
<1>1. CH!SecondSeedIdle
  BY WritesAre DEF ChecklistsInv, NothingToDo, Idles, CH!SecondSeedIdle
<1> QED BY <1>1 DEF ChecklistsInv

LEMMA ChecklistsBegin == ASSUME CH!Init PROVE ChecklistsInv
<1>1. s2 = <<>> /\ s2 \in Seq(MasterRows) /\ Len(s2) = 0
  BY DEF CH!Init
<1>2. s3 \in [DexCards -> Int] /\ \A c \in DexCards : ~(s3[c] > 0)
  BY DEF CH!Init, CH!Absent, CH!Unlinked
<1>3. DOMAIN s4 = {} /\ s7 = CH!Nothing /\ s8 = FALSE /\ s6 = CH!Idle /\ s1 \in Catalogues
  BY DEF CH!Init, CH!Nothing
<1>4. CH!SlotPerPrint /\ CH!OwnedPrintHasSlot
  BY <1>3 DEF CH!SlotPerPrint, CH!OwnedPrintHasSlot
<1>5. KeysDiffer(s2) /\ CardsLinkedTo(s2)
  BY <1>1, <1>2 DEF KeysDiffer, CardsLinkedTo
<1> QED BY <1>1, <1>2, <1>3, <1>4, <1>5 DEF ChecklistsInv

\* Slots depend on the master cards' keys only.
LEMMA SlotsStay ==
  ASSUME ChecklistsInv, Extends(s2, s2'), s4' = s4, s7' = s7
  PROVE  CH!SlotPerPrint'
<1> DEFINE Has(ms, p) == {m \in DOMAIN s4 : /\ ms[m].number = p.number /\ s4[m] = p.track
                                            /\ ms[m].variant = p.variant \/ (p.base /\ ms[m].variant \in CH!BASE_VARIANTS)}
<1>1. \A m \in DOMAIN s4 : s2[m].number = s2'[m].number /\ s2[m].variant = s2'[m].variant
  BY DEF ChecklistsInv, Extends
<1>2. \A p : Has(s2, p) = Has(s2', p)
  BY <1>1
<1>3. CH!SlotPerPrint
  BY DEF ChecklistsInv
<1> QED BY <1>2, <1>3 DEF CH!SlotPerPrint

\* Steps that change master cards and their links, beside a seed under way
LEMMA CardsChange ==
  ASSUME ChecklistsInv, s1' \in Catalogues, s2' \in Seq(MasterRows), KeysDiffer(s2'), Extends(s2, s2'),
         s3' \in [DexCards -> Int],
         \A c \in DexCards : s3'[c] > 0 => s3'[c] \in 1..Len(s2') /\ CH!Key(s2'[s3'[c]]) = CardKey[c],
         s4' = s4, s6' = s6, s7' = s7, s8' = FALSE
  PROVE  ChecklistsInv'
<1>1. CH!SlotPerPrint'
  BY SlotsStay
<1>2. s6' # CH!Idle => SeedRuns'
  <2>1. \A ms : Extends(ms, s2) /\ ms \in Seq(MasterRows) => Extends(ms, s2')
    <3>1. Len(s2) \in Nat /\ Len(s2') \in Nat
      BY DEF ChecklistsInv
    <3> QED BY <3>1 DEF Extends
  <2> QED BY <2>1 DEF ChecklistsInv, SeedRuns
<1>3. DOMAIN s4' \subseteq 1..Len(s2')
  BY DEF ChecklistsInv, Extends
<1>4. CardsLinkedTo(s2)'
  BY DEF CardsLinkedTo
<1> QED BY <1>1, <1>2, <1>3, <1>4 DEF ChecklistsInv, CH!OwnedPrintHasSlot, KeysDiffer

\* Steps that leave the tables alone
LEMMA TablesStay ==
  ASSUME ChecklistsInv, s1' \in Catalogues, UNCHANGED <<s2, s3, s4, s5, s7, s8>>, s6' # CH!Idle => SeedRuns'
  PROVE  ChecklistsInv'
<1>1. CH!Owned' = CH!Owned
  BY DEF CH!Owned
<1>2. CH!SlotPerPrint'
  BY DEF ChecklistsInv, CH!SlotPerPrint
<1>3. CH!OwnedPrintHasSlot'
  BY <1>1 DEF ChecklistsInv, CH!OwnedPrintHasSlot
<1>4. NothingToDo => NothingToDo'
  BY <1>1 DEF NothingToDo
<1>5. KeysDiffer(s2)' /\ CardsLinkedTo(s2)'
  BY DEF ChecklistsInv, KeysDiffer, CardsLinkedTo
<1> QED BY <1>2, <1>3, <1>4, <1>5 DEF ChecklistsInv

\* New cards get master cards of their own, one for each print that has none.
LEMMA CreatedIs ==
  ASSUME NEW S \in SUBSET DexCards, s2 \in Seq(MasterRows), KeysDiffer(s2)
  PROVE  LET new == s2 \o CH!Created(S)
         IN  /\ new \in Seq(MasterRows) /\ KeysDiffer(new) /\ Extends(s2, new)
             /\ \A m \in 1..Len(s2) : new[m] = s2[m]
             /\ \A c \in S : \E m \in 1..Len(new) : CH!Key(new[m]) = CardKey[c]
<1> DEFINE first == {c \in S : /\ \A m \in DOMAIN s2 : CH!Key(s2[m]) # CardKey[c]
                               /\ \A d \in S : CardKey[d] = CardKey[c] => c <= d}
           n == Cardinality(first)
           row(c) == [number |-> CardKey[c].number, variant |-> CardKey[c].variant, tcgdex |-> CH!None]
           add == CH!Created(S)
           new == s2 \o add
<1>1. first \in SUBSET Int /\ IsFiniteSet(first) /\ n \in Nat /\ first \subseteq S
  <2>1. first \in SUBSET DexCards
    OBVIOUS
  <2> HIDE DEF first
  <2>2. IsFiniteSet(first) /\ n \in Nat
    BY <2>1, ChecklistAssumption, FS_Subset, FS_CardinalityType
  <2>3. first \subseteq S
    BY DEF first
  <2>4. DexCards \in SUBSET Int
    BY ChecklistAssumption
  <2> QED BY <2>1, <2>2, <2>3, <2>4
<1>2. add = [i \in 1..n |-> row(Nth(first, i))]
  BY CheckNames DEF CH!Created
<1>3. \A c \in first : \A m \in 1..Len(s2) : CH!Key(s2[m]) # CardKey[c]
  OBVIOUS
<1>4. \A c, d \in first : CardKey[c] = CardKey[d] => c = d
  <2>1. \A c \in first : c \in Nat
    BY ChecklistAssumption
  <2>2. \A c, d \in first : CardKey[c] = CardKey[d] => c <= d /\ d <= c
    OBVIOUS
  <2> HIDE DEF first
  <2> QED BY <2>1, <2>2
<1>5. ASSUME NEW c \in S, \A m \in 1..Len(s2) : CH!Key(s2[m]) # CardKey[c]
      PROVE  \E d \in first : CardKey[d] = CardKey[c]
  <2> DEFINE T == {d \in S : CardKey[d] = CardKey[c]}
  <2>1. T \in SUBSET Nat /\ T # {}
    BY ChecklistAssumption
  <2>2. PICK d \in T : \A e \in T : d <= e
    <3> HIDE DEF T
    <3> QED BY <2>1, LeastNatural
  <2>3. d \in first
    BY <1>5, <2>2
  <2> QED BY <2>2, <2>3
<1> HIDE DEF first, add
<1>6. /\ \A k \in 1..n : Nth(first, k) \in first
      /\ \A c \in first : Rank(first, c) \in 1..n /\ Nth(first, Rank(first, c)) = c
      /\ \A k, l \in 1..n : k < l => Nth(first, k) < Nth(first, l)
  BY <1>1, NthOf
<1>7. \A c \in DexCards : CardKey[c] = [number |-> CardKey[c].number, variant |-> CardKey[c].variant]
  BY ChecklistAssumption
<1>8. \A c \in DexCards : row(c) \in MasterRows /\ CH!Key(row(c)) = CardKey[c]
  <2> TAKE c \in DexCards
  <2>1. CardKey[c].number \in CheckNumbers /\ CardKey[c].variant \in CheckVariants
    BY DEF CheckNumbers, CheckVariants
  <2>2. row(c) \in MasterRows
    BY <2>1 DEF MasterRows
  <2>3. CH!Key(row(c)) = [number |-> CardKey[c].number, variant |-> CardKey[c].variant]
    BY DEF CH!Key
  <2> QED BY <1>7, <2>2, <2>3
<1>9. \A i \in 1..n : add[i] \in MasterRows /\ CH!Key(add[i]) = CardKey[Nth(first, i)]
  <2> TAKE i \in 1..n
  <2>1. add[i] = row(Nth(first, i)) /\ Nth(first, i) \in DexCards
    BY <1>1, <1>2, <1>6
  <2> HIDE DEF row
  <2> QED BY <1>8, <2>1
<1>10. add \in Seq(MasterRows) /\ Len(add) = n
  BY <1>1, <1>2, <1>9
<1>11. /\ new \in Seq(MasterRows) /\ Len(new) = Len(s2) + n
       /\ \A m \in 1..Len(s2) : new[m] = s2[m]
       /\ \A i \in 1..n : new[Len(s2) + i] = add[i]
  BY <1>1, <1>10
<1>12. \A m \in 1..Len(new) : m \in 1..Len(s2) \/ \E i \in 1..n : m = Len(s2) + i
  <2> TAKE m \in 1..Len(new)
  <2>1. Len(s2) \in Nat /\ m \in 1..(Len(s2) + n)
    BY <1>11
  <2>2. CASE m > Len(s2)
    <3>1. m - Len(s2) \in 1..n /\ m = Len(s2) + (m - Len(s2))
      BY <1>1, <2>1, <2>2
    <3> QED BY <3>1
  <2> QED BY <1>1, <2>1, <2>2
<1> HIDE DEF new
<1>13. \A c \in S : \E m \in 1..Len(new) : CH!Key(new[m]) = CardKey[c]
  <2> TAKE c \in S
  <2>1. Len(s2) \in Nat
    OBVIOUS
  <2>2. CASE \E m \in 1..Len(s2) : CH!Key(s2[m]) = CardKey[c]
    <3>1. PICK m \in 1..Len(s2) : CH!Key(s2[m]) = CardKey[c]
      BY <2>2
    <3>2. m \in 1..Len(new)
      BY <1>1, <1>11, <2>1
    <3> QED BY <1>11, <3>1, <3>2
  <2>3. CASE \A m \in 1..Len(s2) : CH!Key(s2[m]) # CardKey[c]
    <3>1. PICK d \in first : CardKey[d] = CardKey[c]
      BY <1>5, <2>3
    <3>2. PICK i \in 1..n : Nth(first, i) = d
      BY <1>6
    <3>3. Len(s2) + i \in 1..Len(new)
      BY <1>1, <1>11, <2>1
    <3>4. CH!Key(new[Len(s2) + i]) = CardKey[c]
      BY <1>9, <1>11, <3>1, <3>2
    <3> QED BY <3>3, <3>4
  <2> QED BY <2>2, <2>3
<1>14. KeysDiffer(new)
  <2>1. SUFFICES ASSUME NEW a \in 1..Len(new), NEW b \in 1..Len(new), CH!Key(new[a]) = CH!Key(new[b])
                 PROVE  a = b
    BY DEF KeysDiffer, CH!Key
  <2>2. CASE a \in 1..Len(s2) /\ b \in 1..Len(s2)
    <3>1. CH!Key(s2[a]) = CH!Key(s2[b])
      BY <1>11, <2>1, <2>2
    <3>2. s2[a].number = s2[b].number /\ s2[a].variant = s2[b].variant
      BY <3>1 DEF CH!Key
    <3> QED BY <2>2, <3>2 DEF KeysDiffer
  <2>3. ASSUME NEW x \in 1..Len(s2), NEW i \in 1..n, CH!Key(new[x]) = CH!Key(new[Len(s2) + i]) PROVE FALSE
    <3>1. CH!Key(s2[x]) = CardKey[Nth(first, i)]
      BY <1>9, <1>11, <2>3
    <3> QED BY <1>3, <1>6, <3>1
  <2>4. ASSUME NEW i \in 1..n, NEW j \in 1..n, CH!Key(new[Len(s2) + i]) = CH!Key(new[Len(s2) + j]) PROVE i = j
    <3>1. CardKey[Nth(first, i)] = CardKey[Nth(first, j)]
      BY <1>9, <1>11, <2>4
    <3>2. Nth(first, i) = Nth(first, j)
      BY <1>4, <1>6, <3>1
    <3>3. \A k \in 1..n : Nth(first, k) \in Int
      BY <1>1, <1>6
    <3>4. ~(i < j) /\ ~(j < i)
      BY <1>6, <3>2, <3>3
    <3> QED BY <1>1, <3>4
  <2>5. CASE a \in 1..Len(s2) /\ \E j \in 1..n : b = Len(s2) + j
    BY <2>1, <2>3, <2>5
  <2>6. CASE b \in 1..Len(s2) /\ \E j \in 1..n : a = Len(s2) + j
    BY <2>1, <2>3, <2>6
  <2>7. CASE (\E i \in 1..n : a = Len(s2) + i) /\ \E j \in 1..n : b = Len(s2) + j
    BY <2>1, <2>4, <2>7
  <2> QED BY <1>12, <2>2, <2>5, <2>6, <2>7
<1>15. Extends(s2, new)
  <2>1. Len(s2) \in Nat
    OBVIOUS
  <2> QED BY <1>1, <1>11, <2>1 DEF Extends
<1> QED BY <1>11, <1>13, <1>14, <1>15 DEF new, add

LEMMA CardsLink ==
  ASSUME ChecklistsInv, NEW S \in SUBSET DexCards, CH!LinkCards(S)
  PROVE  ChecklistsInv'
<1>1. s2 \in Seq(MasterRows) /\ KeysDiffer(s2)
  BY DEF ChecklistsInv
<1>2. s2' = s2 \o CH!Created(S)
  BY DEF CH!LinkCards
<1>3. /\ s2' \in Seq(MasterRows) /\ KeysDiffer(s2') /\ Extends(s2, s2')
      /\ \A m \in 1..Len(s2) : s2'[m] = s2[m]
      /\ \A c \in S : \E m \in 1..Len(s2') : CH!Key(s2'[m]) = CardKey[c]
  BY <1>1, <1>2, CreatedIs
<1> DEFINE to(c) == CHOOSE m \in DOMAIN s2' : CH!Key(s2'[m]) = CardKey[c]
<1>4. s3' = [c \in DexCards |-> IF c \in S THEN to(c) ELSE s3[c]]
  BY DEF CH!LinkCards
<1>5. DOMAIN s2' = 1..Len(s2')
  BY <1>3
<1>6. \A c \in S : to(c) \in 1..Len(s2') /\ CH!Key(s2'[to(c)]) = CardKey[c]
  BY <1>3, <1>5
<1> HIDE DEF to
<1>7. s3' \in [DexCards -> Int]
  BY <1>4, <1>6 DEF ChecklistsInv
<1>8. \A c \in DexCards : s3'[c] > 0 => s3'[c] \in 1..Len(s2') /\ CH!Key(s2'[s3'[c]]) = CardKey[c]
  <2> SUFFICES ASSUME NEW c \in DexCards, s3'[c] > 0
               PROVE  s3'[c] \in 1..Len(s2') /\ CH!Key(s2'[s3'[c]]) = CardKey[c]
    OBVIOUS
  <2>1. CASE c \in S
    BY <1>4, <1>6, <2>1
  <2>2. CASE c \notin S
    <3>1. s3'[c] = s3[c] /\ s3[c] \in 1..Len(s2) /\ CH!Key(s2[s3[c]]) = CardKey[c]
      BY <1>4, <2>2 DEF ChecklistsInv, CardsLinkedTo
    <3>2. s2'[s3[c]] = s2[s3[c]]
      BY <1>3, <3>1
    <3>3. s3[c] \in 1..Len(s2')
      BY <1>1, <1>3, <3>1 DEF Extends
    <3> QED BY <3>1, <3>2, <3>3
  <2> QED BY <2>1, <2>2
<1> QED BY <1>3, <1>7, <1>8, CardsChange DEF CH!LinkCards, ChecklistsInv

LEMMA CardDeleted == ASSUME ChecklistsInv, NEW c \in DexCards, CH!Delete(c) PROVE ChecklistsInv'
<1>1. s3' = [s3 EXCEPT ![c] = -1] /\ UNCHANGED <<s1, s2, s4, s5, s6, s7>> /\ s8' = FALSE
  BY DEF CH!Delete, CH!Absent
<1>2. s3' \in [DexCards -> Int] /\ \A d \in DexCards : s3'[d] > 0 => s3'[d] = s3[d]
  BY <1>1 DEF ChecklistsInv
<1>3. Extends(s2, s2')
  BY <1>1 DEF ChecklistsInv, Extends
<1> QED BY <1>1, <1>2, <1>3, CardsChange DEF ChecklistsInv, CardsLinkedTo

LEMMA IdSet ==
  ASSUME ChecklistsInv, NEW m \in 1..Len(s2), NEW how \in {"verified", "verified_number", "manual"}, CH!SetId(m, how)
  PROVE  /\ ChecklistsInv'
         /\ \A k \in 1..Len(s2) \ {m} : s2'[k] = s2[k]
         /\ s2'[m].tcgdex = CH!Matched(s2[m].tcgdex, how)
<1> DEFINE t == CH!Matched(s2[m].tcgdex, how)
           r == [s2[m] EXCEPT !.tcgdex = t]
<1>1. s2' = [s2 EXCEPT ![m] = r] /\ UNCHANGED <<s1, s3, s4, s5, s6, s7>> /\ s8' = FALSE
  BY DEF CH!SetId
<1>2. s2 \in Seq(MasterRows) /\ s2[m] \in MasterRows
  BY DEF ChecklistsInv
<1>3. t \in {CH!None, "verified", "verified_number", "manual"}
  BY <1>2 DEF CH!Matched, MasterRows
<1> HIDE DEF t
<1>4. r \in MasterRows /\ r.number = s2[m].number /\ r.variant = s2[m].variant /\ r.tcgdex = t
  BY <1>2, <1>3 DEF MasterRows
<1> HIDE DEF r
<1>5. /\ s2' \in Seq(MasterRows) /\ Len(s2') = Len(s2) /\ s2'[m] = r
      /\ \A k \in 1..Len(s2) \ {m} : s2'[k] = s2[k]
  BY <1>1, <1>2, <1>4
<1>6. \A k \in 1..Len(s2) : s2'[k].number = s2[k].number /\ s2'[k].variant = s2[k].variant
  BY <1>4, <1>5
<1>7. Extends(s2, s2')
  BY <1>2, <1>5, <1>6 DEF Extends
<1>8. KeysDiffer(s2')
  BY <1>5, <1>6 DEF KeysDiffer, ChecklistsInv
<1>9. \A c \in DexCards : s3[c] > 0 => s3[c] \in 1..Len(s2') /\ CH!Key(s2'[s3[c]]) = CardKey[c]
  <2>1. \A k \in 1..Len(s2) : CH!Key(s2'[k]) = CH!Key(s2[k])
    BY <1>6 DEF CH!Key
  <2> QED BY <1>5, <2>1 DEF ChecklistsInv, CardsLinkedTo
<1>10. s1' \in Catalogues /\ s3' \in [DexCards -> Int] /\ s3' = s3
  BY <1>1 DEF ChecklistsInv
<1>11. ChecklistsInv'
  BY <1>1, <1>5, <1>7, <1>8, <1>9, <1>10, CardsChange
<1> QED BY <1>4, <1>5, <1>11 DEF t

LEMMA SeedReads == ASSUME ChecklistsInv, CH!SeedRead PROVE ChecklistsInv'
<1>1. /\ s6' = [catalogue |-> s1, masters |-> s2, owned |-> CH!Owned] /\ CH!Readable(s1)
      /\ UNCHANGED <<s1, s2, s3, s4, s5, s7, s8>>
  BY DEF CH!SeedRead
<1>2. s6'.catalogue = s1 /\ s6'.masters = s2
  BY <1>1
<1>3. Extends(s2, s2')
  BY <1>1 DEF Extends, ChecklistsInv
<1>4. SeedRuns'
  BY <1>1, <1>2, <1>3 DEF SeedRuns, ChecklistsInv
<1> QED BY <1>1, <1>4, TablesStay DEF ChecklistsInv

-----------------------------------------------------------------------------
\* The run that read these rows and those owned cards leaves these rows.
CommitOf(cat, read, owned, plan, ms) ==
  /\ cat \in Catalogues /\ CH!Readable(cat)
  /\ read \in MasterLists /\ Extends(read, s2)
  /\ plan = CH!Plan(cat, read, owned)
  /\ \A m \in 1..Len(s2), i \in 1..Len(plan.added) : CH!Key(s2[m]) # CH!Key(plan.added[i])
  /\ ms = CH!Ids(plan, read) \o plan.added

\* The commit, for a run that read some of the master cards there are: what it
\* leaves is a slot of its own for each print, and nothing else.
LEMMA SeedWrites ==
  ASSUME ChecklistsInv, NEW cat, NEW read, NEW owned, NEW plan, NEW ms, CommitOf(cat, read, owned, plan, ms)
  PROVE  /\ ms \in MasterLists /\ Len(ms) = Len(s2) + Len(plan.added)
         /\ Extends(s2, ms) /\ KeysDiffer(ms)
         /\ \A m \in 1..Len(s2) : ms[m] = CH!Ids(plan, read)[m]
         /\ \A i \in 1..Len(plan.added) : ms[Len(s2) + i] = plan.added[i]
         /\ \A p \in CH!Prints(cat) : Slot(plan, Len(s2), p) \in 1..Len(ms) /\ CH!Fits(ms[Slot(plan, Len(s2), p)], p)
         /\ \A p, q \in CH!Prints(cat) : Slot(plan, Len(s2), p) = Slot(plan, Len(s2), q) => p = q
<1> DEFINE n == Len(s2)
           k == Len(plan.added)
           ids == CH!Ids(plan, read)
           Ps == CH!Prints(cat)
           F == CH!Fresh(cat, read)
           fit(p) == CH!Fitting(p, read)
           slot(p) == Slot(plan, n, p)
<1>0. /\ cat \in Catalogues /\ CH!Readable(cat)
      /\ read \in MasterLists /\ Extends(read, s2)
      /\ plan = CH!Plan(cat, read, owned)
      /\ \A m \in 1..n, i \in 1..k : CH!Key(s2[m]) # CH!Key(plan.added[i])
      /\ ms = CH!Ids(plan, read) \o plan.added
  BY DEF CommitOf
<1> USE <1>0
<1>1. /\ plan.added \in MasterLists
      /\ \A p \in Ps \ F : plan.place[p] \in fit(p)
      /\ \A p \in F : /\ plan.place[p] \in Int /\ -plan.place[p] \in 1..k
                      /\ plan.added[-plan.place[p]] = [number |-> p.number, variant |-> p.variant, tcgdex |-> "verified_number"]
                      /\ \A q \in F : plan.place[p] = plan.place[q] => p = q
      /\ \A i \in 1..k : \E p \in F : plan.place[p] = -i
  BY PlanIs
<1>2. s2 \in Seq(MasterRows) /\ KeysDiffer(s2) /\ n \in Nat /\ k \in Nat /\ DOMAIN s2 = 1..n /\ Len(read) \in Nat /\ Len(read) <= n
  BY <1>1 DEF ChecklistsInv, Extends, MasterLists
<1>3. ASSUME NEW m \in 1..n
      PROVE  /\ ids[m] \in MasterRows /\ ids[m].number = s2[m].number /\ ids[m].variant = s2[m].variant
  <2>1. s2[m] \in MasterRows
    BY <1>2
  <2>2. ids[m] = s2[m] \/ ids[m] = [s2[m] EXCEPT !.tcgdex = "verified_number"]
    BY <1>2 DEF CH!Ids
  <2> HIDE DEF ids
  <2> QED BY <2>1, <2>2 DEF MasterRows
<1>4. ids \in Seq(MasterRows) /\ Len(ids) = n
  <2>1. ids = [m \in 1..n |-> ids[m]]
    BY <1>2 DEF CH!Ids
  <2> HIDE DEF ids
  <2> QED BY <1>2, <1>3, <2>1
<1> HIDE DEF ids
<1>5. /\ ms \in Seq(MasterRows) /\ Len(ms) = n + k
      /\ \A m \in 1..n : ms[m] = ids[m]
      /\ \A i \in 1..k : ms[n + i] = plan.added[i]
  <2> DEFINE add == plan.added
  <2>1. ms = ids \o add
    BY DEF ids
  <2>2. add \in Seq(MasterRows)
    BY <1>1 DEF MasterLists
  <2> HIDE DEF add
  <2>3. /\ ms \in Seq(MasterRows) /\ Len(ms) = Len(ids) + Len(add)
        /\ \A m \in 1..Len(ids) : ms[m] = ids[m]
        /\ \A i \in 1..Len(add) : ms[Len(ids) + i] = add[i]
    <3>1. ids \in Seq(MasterRows)
      BY <1>4
    <3> QED BY ONLY <2>1, <2>2, <3>1
  <2> QED BY <1>4, <2>3 DEF add
<1>6. \A m \in 1..(n + k) : m \in 1..n \/ (m - n \in 1..k /\ m = n + (m - n))
  BY <1>2
<1>7. ASSUME NEW p \in Ps \ F
      PROVE  slot(p) \in 1..Len(read) /\ slot(p) \in 1..n /\ CH!Fits(s2[slot(p)], p) /\ CH!Fits(ms[slot(p)], p)
  <2>1. plan.place[p] \in 1..Len(read) /\ CH!Fits(read[plan.place[p]], p)
    BY <1>1 DEF CH!Fitting, MasterLists
  <2>2. slot(p) = plan.place[p] /\ slot(p) \in 1..n
    BY <1>2, <2>1 DEF Slot
  <2>3. /\ read[slot(p)].number = s2[slot(p)].number /\ read[slot(p)].variant = s2[slot(p)].variant
        /\ ms[slot(p)].number = s2[slot(p)].number /\ ms[slot(p)].variant = s2[slot(p)].variant
    BY <1>3, <1>5, <2>1, <2>2 DEF Extends
  <2> HIDE DEF slot
  <2> QED BY <2>1, <2>2, <2>3 DEF CH!Fits
<1>8. ASSUME NEW p \in F
      PROVE  /\ slot(p) \in (n + 1)..(n + k)
             /\ ms[slot(p)] = [number |-> p.number, variant |-> p.variant, tcgdex |-> "verified_number"]
             /\ CH!Fits(ms[slot(p)], p)
  <2> DEFINE i == -plan.place[p]
  <2>1. i \in 1..k /\ plan.added[i] = [number |-> p.number, variant |-> p.variant, tcgdex |-> "verified_number"]
    BY <1>1
  <2>2. plan.place[p] \in Int
    BY <1>1
  <2>3. slot(p) = n + i
    BY <1>2, <2>1, <2>2 DEF Slot
  <2> HIDE DEF i, slot
  <2>4. ms[slot(p)] = [number |-> p.number, variant |-> p.variant, tcgdex |-> "verified_number"]
    BY <1>5, <2>1, <2>3
  <2>5. p.base => p.variant \in CH!BASE_VARIANTS
    BY PrintIs DEF CH!Fresh, CH!BASE_VARIANTS, Bases
  <2> QED BY <1>2, <2>1, <2>3, <2>4, <2>5 DEF CH!Fits
<1>9. ASSUME NEW p \in Ps PROVE slot(p) \in 1..Len(ms) /\ CH!Fits(ms[slot(p)], p)
  <2>1. CASE p \in F
    <3>1. slot(p) \in (n + 1)..(n + k) /\ CH!Fits(ms[slot(p)], p)
      BY <1>8, <2>1
    <3> HIDE DEF slot
    <3> QED BY <1>2, <1>5, <3>1
  <2>2. CASE p \notin F
    <3>1. slot(p) \in 1..n /\ CH!Fits(ms[slot(p)], p)
      BY <1>7, <2>2
    <3> HIDE DEF slot
    <3> QED BY <1>2, <1>5, <3>1
  <2> QED BY <2>1, <2>2
<1>10. ASSUME NEW p \in Ps, NEW q \in Ps, slot(p) = slot(q) PROVE p = q
  <2>1. CH!Fits(ms[slot(p)], p) /\ CH!Fits(ms[slot(p)], q)
    BY <1>9, <1>10
  <2> HIDE DEF slot
  <2>2. p.number = q.number
    BY <2>1 DEF CH!Fits
  <2>3. \A x \in Ps : /\ x.base => x.variant \in CH!BASE_VARIANTS
                      /\ ~x.base => x.variant \notin CH!BASE_VARIANTS
    BY PrintIs DEF CH!BASE_VARIANTS, Bases
  <2>4. p.variant = q.variant \/ (p.base /\ q.base)
    BY <2>1, <2>3 DEF CH!Fits
  <2> QED BY <2>2, <2>4, PrintsDiffer
<1>11. Extends(s2, ms)
  BY <1>2, <1>3, <1>5 DEF Extends
<1>12. KeysDiffer(ms)
  <2>1. SUFFICES ASSUME NEW a \in 1..Len(ms), NEW b \in 1..Len(ms), ms[a].number = ms[b].number, ms[a].variant = ms[b].variant
                 PROVE  a = b
    BY DEF KeysDiffer
  <2>2. CASE a \in 1..n /\ b \in 1..n
    <3>1. ms[a] = ids[a] /\ ms[b] = ids[b]
      BY <1>5, <2>2
    <3>2. s2[a].number = s2[b].number /\ s2[a].variant = s2[b].variant
      BY <1>3, <2>1, <2>2, <3>1
    <3> QED BY <1>2, <2>2, <3>2 DEF KeysDiffer
  <2>3. ASSUME NEW x \in 1..n, NEW y \in 1..k, ms[x].number = ms[n + y].number, ms[x].variant = ms[n + y].variant PROVE FALSE
    <3>1. s2[x].number = plan.added[y].number /\ s2[x].variant = plan.added[y].variant
      BY <1>3, <1>5, <2>3
    <3> QED BY <3>1 DEF CH!Key
  <2>4. ASSUME NEW x \in 1..k, NEW y \in 1..k, ms[n + x].number = ms[n + y].number, ms[n + x].variant = ms[n + y].variant PROVE x = y
    <3>1. PICK p \in F : plan.place[p] = -x
      BY <1>1
    <3>2. PICK q \in F : plan.place[q] = -y
      BY <1>1
    <3>3. -plan.place[p] = x /\ -plan.place[q] = y
      BY <1>2, <3>1, <3>2
    <3>0. ASSUME NEW r \in F, NEW z, -plan.place[r] = z
          PROVE  plan.added[z].number = r.number /\ plan.added[z].variant = r.variant
      <4>1. plan.added[z] = [number |-> r.number, variant |-> r.variant, tcgdex |-> "verified_number"]
        BY <1>1, <3>0
      <4> QED BY <4>1
    <3>4. plan.added[x].number = p.number /\ plan.added[x].variant = p.variant
      BY <3>0, <3>3
    <3>5. plan.added[y].number = q.number /\ plan.added[y].variant = q.variant
      BY <3>0, <3>3
    <3>6. p.number = q.number /\ p.variant = q.variant /\ p \in Ps /\ q \in Ps
      BY <1>5, <2>4, <3>4, <3>5 DEF CH!Fresh
    <3> QED BY <3>3, <3>6, PrintsDiffer
  <2>5. \A m \in 1..Len(ms) : m \in 1..n \/ \E y \in 1..k : m = n + y
    BY <1>5, <1>6
  <2>6. \A x \in 1..n, y \in 1..k : a = x /\ b = n + y => FALSE
    BY <2>1, <2>3
  <2>7. \A x \in 1..n, y \in 1..k : b = x /\ a = n + y => FALSE
    BY <2>1, <2>3
  <2>8. \A x \in 1..k, y \in 1..k : a = n + x /\ b = n + y => a = b
    BY <2>1, <2>4
  <2>9. (a \in 1..n \/ \E x \in 1..k : a = n + x) /\ (b \in 1..n \/ \E y \in 1..k : b = n + y)
    BY <2>5
  <2> QED BY ONLY <2>2, <2>6, <2>7, <2>8, <2>9
<1>13. ms \in MasterLists
  BY <1>5 DEF MasterLists
<1>14. /\ \A p \in Ps : slot(p) \in 1..Len(ms) /\ CH!Fits(ms[slot(p)], p)
       /\ \A p, q \in Ps : slot(p) = slot(q) => p = q
  BY <1>9, <1>10
<1>15. /\ Len(ms) = n + k
       /\ \A m \in 1..n : ms[m] = CH!Ids(plan, read)[m]
       /\ \A i \in 1..k : ms[n + i] = plan.added[i]
  BY <1>5 DEF ids
<1> QED BY ONLY <1>11, <1>12, <1>13, <1>14, <1>15

SlotsDiffer(cat, plan, n) ==
  /\ DOMAIN plan.place = CH!Prints(cat)
  /\ \A p, q \in CH!Prints(cat) : Slot(plan, n, p) = Slot(plan, n, q) => p = q

\* A checklist of the slots, each with its print's track
Fills(list, cat, plan, n) ==
  /\ DOMAIN list = {Slot(plan, n, p) : p \in CH!Prints(cat)}
  /\ list = [m \in DOMAIN list |-> list[m]]
  /\ \A p \in CH!Prints(cat) : list[Slot(plan, n, p)] = p.track

LEMMA SeedListIs ==
  ASSUME NEW plan, NEW cat, NEW n, SlotsDiffer(cat, plan, n)
  PROVE  Fills(ListOf(plan, n), cat, plan, n)
<1> DEFINE Ps == CH!Prints(cat)
           slot(p) == Slot(plan, n, p)
           of(m) == CHOOSE p \in Ps : slot(p) = m
           list == ListOf(plan, n)
<1>1. list = [m \in {slot(p) : p \in Ps} |-> of(m).track]
  BY DEF ListOf, SlotsDiffer
<1>2. \A p \in Ps : of(slot(p)) = p
  <2>1. \A p, q \in Ps : slot(p) = slot(q) => p = q
    BY DEF SlotsDiffer
  <2> HIDE DEF slot
  <2> QED BY <2>1
<1> HIDE DEF slot, of, list
<1>3. DOMAIN list = {slot(p) : p \in Ps} /\ list = [m \in DOMAIN list |-> list[m]]
  BY <1>1
<1>4. \A p \in Ps : list[slot(p)] = p.track
  BY <1>1, <1>2
<1> QED BY <1>3, <1>4 DEF Fills, slot, list

LEMMA SameList ==
  ASSUME NEW plan, NEW next, NEW cat, NEW n, NEW k, SlotsDiffer(cat, plan, n), SlotsDiffer(cat, next, k),
         \A p \in CH!Prints(cat) : Slot(next, k, p) = Slot(plan, n, p)
  PROVE  ListOf(next, k) = ListOf(plan, n)
<1> DEFINE f == ListOf(plan, n)
           g == ListOf(next, k)
<1>1. Fills(f, cat, plan, n) /\ Fills(g, cat, next, k)
  BY SeedListIs
<1> HIDE DEF f, g
<1>2. /\ DOMAIN f = {Slot(plan, n, p) : p \in CH!Prints(cat)} /\ f = [m \in DOMAIN f |-> f[m]]
      /\ \A p \in CH!Prints(cat) : f[Slot(plan, n, p)] = p.track
      /\ DOMAIN g = {Slot(next, k, p) : p \in CH!Prints(cat)} /\ g = [m \in DOMAIN g |-> g[m]]
      /\ \A p \in CH!Prints(cat) : g[Slot(next, k, p)] = p.track
  BY <1>1 DEF Fills
<1>3. DOMAIN f = DOMAIN g
  BY <1>2
<1>4. \A m \in DOMAIN f : f[m] = g[m]
  BY <1>2
<1>5. f = g
  BY <1>2, <1>3, <1>4
<1> QED BY <1>5 DEF f, g

LEMMA SlotsFilled ==
  ASSUME NEW cat \in Catalogues, CH!Readable(cat), NEW plan, NEW n, SlotsDiffer(cat, plan, n),
         \A p \in CH!Prints(cat) : CH!Fits(s2'[Slot(plan, n, p)], p), s7' = cat, Fills(s4', cat, plan, n)
  PROVE  CH!SlotPerPrint'
<1> DEFINE Ps == CH!Prints(cat)
           slot(p) == Slot(plan, n, p)
           D == {slot(p) : p \in Ps}
           Has(p) == {m \in D : /\ s2'[m].number = p.number /\ s4'[m] = p.track
                                /\ s2'[m].variant = p.variant \/ (p.base /\ s2'[m].variant \in CH!BASE_VARIANTS)}
<1>0. /\ \A p \in Ps : CH!Fits(s2'[slot(p)], p) /\ s4'[slot(p)] = p.track /\ slot(p) \in D
      /\ \A p, q \in Ps : slot(p) = slot(q) => p = q
      /\ DOMAIN s4' = D
  BY DEF SlotsDiffer, Fills
<1> HIDE DEF slot
<1>1. Cardinality(D) = Cardinality(Ps)
  <2> DEFINE f == [p \in Ps |-> slot(p)]
  <2>1. IsFiniteSet(Ps)
    BY PrintsFinite
  <2>2. f \in [Ps -> D] /\ (\A p, q \in Ps : f[p] = f[q] => p = q) /\ \A m \in D : \E p \in Ps : f[p] = m
    BY <1>0
  <2> HIDE DEF f, D, Ps
  <2>3. f \in Bijection(Ps, D)
    BY <2>2 DEF Bijection, Injection, Surjection, IsInjective
  <2>4. ExistsBijection(Ps, D)
    BY <2>3 DEF ExistsBijection
  <2> QED BY <2>1, <2>4, FS_Bijection
<1>2. ASSUME NEW p \in Ps PROVE Has(p) = {slot(p)}
  <2>1. slot(p) \in Has(p)
    <3>1. p.base \/ s2'[slot(p)].variant = p.variant
      BY <1>0 DEF CH!Fits
    <3> QED BY <1>0, <3>1 DEF CH!Fits
  <2>2. ASSUME NEW q \in Ps, slot(q) \in Has(p) PROVE p = q
    <3>1. s2'[slot(q)].number = q.number /\ s4'[slot(q)] = q.track
      BY <1>0 DEF CH!Fits
    <3>2. q.number = p.number /\ q.track = p.track
      BY <2>2, <3>1
    <3> QED BY <3>2, PrintsDiffer
  <2> QED BY <2>1, <2>2
<1>3. \A p \in Ps : Cardinality(Has(p)) = 1
  BY <1>2, FS_Singleton
<1> HIDE DEF D
<1> QED BY <1>0, <1>1, <1>3, CheckNames DEF CH!SlotPerPrint

\* After a run that nothing changed beside, the next one finds every print in
\* the slot this one gave it.
LEMMA SameSlots ==
  ASSUME ChecklistsInv, NEW cat, NEW owned, NEW plan, NEW ms, CommitOf(cat, s2, owned, plan, ms)
  PROVE  LET next == CH!Plan(cat, ms, owned)
         IN  /\ next.added = <<>>
             /\ DOMAIN next.place = CH!Prints(cat)
             /\ \A p \in CH!Prints(cat) : next.place[p] = Slot(plan, Len(s2), p)
             /\ \A p \in CH!Prints(cat) : CH!Matched(ms[Slot(plan, Len(s2), p)].tcgdex, "verified_number")
                                          = ms[Slot(plan, Len(s2), p)].tcgdex
<1> DEFINE n == Len(s2)
           k == Len(plan.added)
           ids == CH!Ids(plan, s2)
           Ps == CH!Prints(cat)
           F == CH!Fresh(cat, s2)
           slot(p) == Slot(plan, n, p)
           next == CH!Plan(cat, ms, owned)
<1>0. cat \in Catalogues /\ CH!Readable(cat) /\ plan = CH!Plan(cat, s2, owned)
  BY DEF CommitOf
<1> USE <1>0
<1>1. /\ plan.added \in MasterLists /\ DOMAIN plan.place = Ps
      /\ \A p \in Ps \ F : /\ plan.place[p] = CH!ChooseBase(CH!Fitting(p, s2), p, s2, owned)
                           /\ plan.place[p] \in CH!Fitting(p, s2)
      /\ \A p \in F : /\ plan.place[p] \in Int /\ -plan.place[p] \in 1..k
                      /\ plan.added[-plan.place[p]] = [number |-> p.number, variant |-> p.variant, tcgdex |-> "verified_number"]
      /\ \A i \in 1..k : \E p \in F : plan.place[p] = -i
  <2>1. s2 \in MasterLists
    BY DEF ChecklistsInv, MasterLists
  <2> QED BY <2>1, PlanIs
<1>2. s2 \in MasterLists /\ s2 \in Seq(MasterRows) /\ n \in Nat /\ k \in Nat /\ DOMAIN s2 = 1..n /\ Extends(s2, s2)
  BY <1>1 DEF ChecklistsInv, Extends, MasterLists
<1>3. /\ ms \in MasterLists /\ Len(ms) = n + k
      /\ Extends(s2, ms)
      /\ \A m \in 1..n : ms[m] = ids[m]
      /\ \A i \in 1..k : ms[n + i] = plan.added[i]
      /\ \A p \in Ps : slot(p) \in 1..Len(ms) /\ CH!Fits(ms[slot(p)], p)
      /\ \A p, q \in Ps : slot(p) = slot(q) => p = q
  BY SeedWrites
<1>4. /\ DOMAIN next.place = Ps
      /\ next.added \in MasterLists
      /\ \A p \in Ps \ CH!Fresh(cat, ms) :
           /\ next.place[p] = CH!ChooseBase(CH!Fitting(p, ms), p, ms, owned)
           /\ next.place[p] \in CH!Fitting(p, ms)
      /\ \A i \in 1..Len(next.added) : \E p \in CH!Fresh(cat, ms) : next.place[p] = -i
  BY <1>3, PlanIs
<1>5. \A p \in Ps : slot(p) \in CH!Fitting(p, ms)
  BY <1>3 DEF CH!Fitting, MasterLists
<1> HIDE DEF slot, next, ids
<1>6. CH!Fresh(cat, ms) = {}
  BY <1>5 DEF CH!Fresh
<1>7. next.added = <<>>
  <2>1. Len(next.added) \in Nat /\ ~(1 \in 1..Len(next.added))
    BY <1>4, <1>6 DEF MasterLists
  <2> QED BY <1>4, <2>1 DEF MasterLists
<1>8. ASSUME NEW p \in Ps, NEW m \in CH!Fitting(p, ms), m > n
      PROVE  p \in F /\ m = slot(p)
  <2> DEFINE i == m - n
  <2>1. i \in 1..k /\ m = n + i /\ CH!Fits(ms[m], p)
    BY <1>2, <1>3, <1>8 DEF CH!Fitting, MasterLists
  <2> HIDE DEF i
  <2>2. PICK q \in F : plan.place[q] = -i
    BY <1>1, <2>1
  <2>3. -plan.place[q] = i
    BY <1>2, <2>1, <2>2
  <2>4. ms[m] = [number |-> q.number, variant |-> q.variant, tcgdex |-> "verified_number"]
    BY <1>1, <1>3, <2>1, <2>3
  <2>5. slot(q) = m
    BY <1>2, <2>1, <2>2 DEF slot, Slot
  <2>6. q \in Ps
    BY DEF CH!Fresh
  <2>7. q.number = p.number /\ (q.variant = p.variant \/ (q.base /\ p.base))
    <3>1. \A x \in Ps : /\ x.base => x.variant \in CH!BASE_VARIANTS
                        /\ ~x.base => x.variant \notin CH!BASE_VARIANTS
      BY PrintIs DEF CH!BASE_VARIANTS, Bases
    <3>2. ms[m].number = q.number /\ ms[m].variant = q.variant
      BY <2>4
    <3> QED BY <2>1, <2>6, <3>1, <3>2 DEF CH!Fits
  <2>8. p = q
    BY <2>6, <2>7, PrintsDiffer
  <2> QED BY <2>2, <2>5, <2>8
<1>9. ASSUME NEW p \in Ps, NEW m \in 1..n PROVE CH!Fits(ms[m], p) <=> CH!Fits(s2[m], p)
  BY <1>3 DEF Extends, CH!Fits
<1>10. ASSUME NEW p \in Ps PROVE next.place[p] = slot(p)
  <2>0. /\ next.place[p] = CH!ChooseBase(CH!Fitting(p, ms), p, ms, owned)
        /\ next.place[p] \in CH!Fitting(p, ms)
    BY <1>4, <1>6
  <2>1. CASE p \in F
    <3>1. CH!Fitting(p, s2) = {}
      BY <2>1 DEF CH!Fresh
    <3>2. \A m \in CH!Fitting(p, ms) : m = slot(p)
      <4> TAKE m \in CH!Fitting(p, ms)
      <4>1. m \in 1..(n + k) /\ CH!Fits(ms[m], p)
        BY <1>3 DEF CH!Fitting, MasterLists
      <4>2. CASE m > n
        BY <1>8, <4>2
      <4>3. CASE ~(m > n)
        <5>1. m \in 1..n
          BY <1>2, <4>1, <4>3
        <5>2. m \in CH!Fitting(p, s2)
          BY <1>2, <1>9, <4>1, <5>1 DEF CH!Fitting, MasterLists
        <5> QED BY <3>1, <5>2
      <4> QED BY <4>2, <4>3
    <3> QED BY <2>0, <3>2
  <2>2. CASE p \notin F
    <3>1. CH!Fitting(p, ms) = CH!Fitting(p, s2)
      <4>1. ASSUME NEW m \in CH!Fitting(p, ms) PROVE m \in CH!Fitting(p, s2)
        <5>1. m \in 1..(n + k) /\ CH!Fits(ms[m], p) /\ ~(m > n)
          BY <1>3, <1>8, <2>2 DEF CH!Fitting, MasterLists
        <5>2. m \in 1..n
          BY <1>2, <5>1
        <5> QED BY <1>2, <1>9, <5>1, <5>2 DEF CH!Fitting, MasterLists
      <4>2. ASSUME NEW m \in CH!Fitting(p, s2) PROVE m \in CH!Fitting(p, ms)
        <5>1. m \in 1..n /\ CH!Fits(s2[m], p)
          BY <1>2 DEF CH!Fitting, MasterLists
        <5>2. m \in DOMAIN ms
          BY <1>2, <1>3, <5>1
        <5> QED BY <1>9, <5>1, <5>2 DEF CH!Fitting, MasterLists
      <4> QED BY <4>1, <4>2
    <3>2. \A m \in CH!Fitting(p, s2) : s2[m].variant = ms[m].variant
      BY <1>2, <1>3 DEF CH!Fitting, Extends
    <3>3. CH!ChooseBase(CH!Fitting(p, s2), p, s2, owned) = CH!ChooseBase(CH!Fitting(p, s2), p, ms, owned)
      BY <3>2, SameBase
    <3>4. plan.place[p] = next.place[p]
      BY <1>1, <2>0, <2>2, <3>1, <3>3
    <3>5. plan.place[p] \in 1..n
      BY <1>1, <1>2, <2>2 DEF CH!Fitting, MasterLists
    <3> QED BY <1>2, <3>4, <3>5 DEF slot, Slot
  <2> QED BY <2>1, <2>2
<1>11. ASSUME NEW p \in Ps
       PROVE  CH!Matched(ms[slot(p)].tcgdex, "verified_number") = ms[slot(p)].tcgdex
  <2>1. CASE p \in F
    <3> DEFINE i == -plan.place[p]
    <3>0. i \in 1..k /\ plan.place[p] \in Int
      BY <1>1, <2>1
    <3>1. slot(p) = n + i
      BY <1>2, <3>0 DEF slot, Slot
    <3>2. ms[slot(p)] = [number |-> p.number, variant |-> p.variant, tcgdex |-> "verified_number"]
      BY <1>1, <1>3, <2>1, <3>0, <3>1
    <3> QED BY <3>2 DEF CH!Matched
  <2>2. CASE p \notin F
    <3>0. plan.place[p] \in 1..n
      BY <1>1, <1>2, <2>2 DEF CH!Fitting
    <3>1. plan.place[p] \in 1..n /\ slot(p) = plan.place[p]
      BY <1>2, <3>0 DEF slot, Slot
    <3> DEFINE m == slot(p)
    <3>2. m \in 1..n /\ m \in {plan.place[q] : q \in DOMAIN plan.place} /\ ms[m] = ids[m]
      BY <1>1, <1>3, <3>1
    <3> HIDE DEF m
    <3>3. ids[m] = IF CH!Matched(s2[m].tcgdex, "verified_number") # s2[m].tcgdex
                   THEN [s2[m] EXCEPT !.tcgdex = "verified_number"] ELSE s2[m]
      BY <1>2, <3>2 DEF ids, CH!Ids
    <3>4. s2[m] \in MasterRows
      BY <1>2, <3>2
    <3>5. CASE CH!Matched(s2[m].tcgdex, "verified_number") # s2[m].tcgdex
      <4>1. ids[m].tcgdex = "verified_number"
        BY <3>3, <3>4, <3>5 DEF MasterRows
      <4> QED BY <3>2, <4>1 DEF CH!Matched, m
    <3>6. CASE ~(CH!Matched(s2[m].tcgdex, "verified_number") # s2[m].tcgdex)
      BY <3>2, <3>3, <3>6 DEF m
    <3> QED BY <3>5, <3>6
  <2> QED BY <2>1, <2>2
<1> QED BY <1>4, <1>7, <1>10, <1>11 DEF next, slot

\* The transaction, taken apart
LEMMA CommitIs ==
  ASSUME ChecklistsInv, CH!SeedCommit
  PROVE  LET plan == CH!Plan(s6.catalogue, s6.masters, s6.owned)
         IN  /\ CommitOf(s6.catalogue, s6.masters, s6.owned, plan, s2')
             /\ s4' = ListOf(plan, Len(s2))
             /\ SlotsDiffer(s6.catalogue, plan, Len(s2))
             /\ s7' = s6.catalogue /\ s6' = CH!Idle /\ UNCHANGED <<s1, s3>>
             /\ s8' = (s6.masters = s2 /\ s6.owned = CH!Owned)
             /\ (\E c \in DexCards : s3[c] > 0) => s5' = CH!BasePrints(s6.catalogue)
<1> DEFINE plan == CH!Plan(s6.catalogue, s6.masters, s6.owned)
<1>1. /\ ~CH!Refused(plan) /\ s2' = CH!Ids(plan, s6.masters) \o plan.added /\ s4' = CH!Members(plan)
      /\ s7' = s6.catalogue /\ s6' = CH!Idle /\ UNCHANGED <<s1, s3>> /\ s6 # CH!Idle
      /\ s8' = (s6.masters = s2 /\ s6.owned = CH!Owned)
      /\ (\E c \in DexCards : s3[c] > 0) => s5' = CH!BasePrints(s6.catalogue)
  BY DEF CH!SeedCommit
<1>2. s6.catalogue \in Catalogues /\ CH!Readable(s6.catalogue) /\ s6.masters \in MasterLists /\ Extends(s6.masters, s2)
  BY <1>1 DEF ChecklistsInv, SeedRuns, MasterLists
<1>3. DOMAIN plan.place = CH!Prints(s6.catalogue) /\ plan.added \in MasterLists
  BY <1>2, PlanIs
<1> HIDE DEF plan
<1>4. \A m \in 1..Len(s2), i \in 1..Len(plan.added) : CH!Key(s2[m]) # CH!Key(plan.added[i])
  <2>1. DOMAIN s2 = 1..Len(s2) /\ DOMAIN plan.added = 1..Len(plan.added)
    BY <1>3 DEF ChecklistsInv, MasterLists
  <2> QED BY <1>1, <2>1 DEF CH!Refused
<1>5. CommitOf(s6.catalogue, s6.masters, s6.owned, plan, s2')
  BY <1>1, <1>2, <1>4 DEF CommitOf, plan
<1>6. SlotsDiffer(s6.catalogue, plan, Len(s2))
  BY <1>3, <1>5, SeedWrites DEF SlotsDiffer
<1>7. s4' = ListOf(plan, Len(s2))
  BY <1>1, WritesAre
<1> QED BY <1>1, <1>5, <1>6, <1>7 DEF plan

\* An owned card of a listed print has its slot.
LEMMA OwnedFits ==
  ASSUME ChecklistsInv, NEW cat \in Catalogues, CH!Readable(cat), NEW p \in CH!Prints(cat),
         NEW c \in DexCards, s3[c] > 0, p.number = CardKey[c].number,
         p.variant = CardKey[c].variant \/ (p.base /\ CardKey[c].variant \in CH!BASE_VARIANTS)
  PROVE  LET m == CH!Plan(cat, s2, CH!Owned).place[p]
         IN  m \in 1..Len(s2) /\ m \in CH!Owned /\ CH!Fits(s2[m], p)
<1> DEFINE plan == CH!Plan(cat, s2, CH!Owned)
<1>1. s3[c] \in 1..Len(s2) /\ CH!Key(s2[s3[c]]) = CardKey[c] /\ s3[c] \in CH!Owned
  BY DEF ChecklistsInv, CardsLinkedTo, CH!Owned
<1>2. s2[s3[c]].number = CardKey[c].number /\ s2[s3[c]].variant = CardKey[c].variant
  <2>1. \A r : CH!Key(r).number = r.number /\ CH!Key(r).variant = r.variant
    BY DEF CH!Key
  <2> QED BY <1>1, <2>1
<1>3. p.base => p.variant \in CH!BASE_VARIANTS
  BY PrintIs DEF CH!BASE_VARIANTS, Bases
<1>4. CH!Fits(s2[s3[c]], p)
  BY <1>2, <1>3 DEF CH!Fits
<1>5. s2 \in MasterLists /\ DOMAIN s2 = 1..Len(s2)
  BY DEF ChecklistsInv, MasterLists
<1>6. s3[c] \in CH!Fitting(p, s2)
  BY <1>1, <1>4, <1>5 DEF CH!Fitting
<1>7. p \in CH!Prints(cat) \ CH!Fresh(cat, s2) /\ CH!Fitting(p, s2) \cap CH!Owned # {}
  BY <1>1, <1>6 DEF CH!Fresh
<1>8. plan.place[p] \in CH!Fitting(p, s2) /\ plan.place[p] \in CH!Owned
  BY <1>5, <1>7, PlanIs
<1> QED BY <1>5, <1>8 DEF CH!Fitting

\* Nothing is left for a run that nothing has happened before.
LEMMA SeedIsDone ==
  ASSUME ChecklistsInv, CH!SeedCommit, s8'
  PROVE  NothingToDo' /\ CH!OwnedPrintHasSlot'
<1> DEFINE cat == s6.catalogue
           n == Len(s2)
           k == Len(s2')
           own == CH!Owned
           plan == CH!Plan(cat, s2, own)
           next == CH!Plan(cat, s2', own)
           slot(p) == Slot(plan, n, p)
<1>1. /\ CommitOf(cat, s2, own, plan, s2') /\ SlotsDiffer(cat, plan, n)
      /\ s4' = ListOf(plan, n) /\ s7' = cat /\ s3' = s3
      /\ (\E c \in DexCards : s3[c] > 0) => s5' = CH!BasePrints(cat)
  BY CommitIs
<1>2. CH!Owned' = own
  BY <1>1 DEF CH!Owned
<1>3. cat \in Catalogues /\ CH!Readable(cat)
  BY <1>1 DEF CommitOf
<1> HIDE DEF cat, own, plan
<1>4. /\ s2' \in MasterLists /\ Len(s2') = n + Len(plan.added) /\ Extends(s2, s2')
      /\ \A p \in CH!Prints(cat) : slot(p) \in 1..k /\ CH!Fits(s2'[slot(p)], p)
  BY <1>1, SeedWrites
<1>5. /\ next.added = <<>>
      /\ DOMAIN next.place = CH!Prints(cat)
      /\ \A p \in CH!Prints(cat) : next.place[p] = slot(p)
      /\ \A p \in CH!Prints(cat) : CH!Matched(s2'[slot(p)].tcgdex, "verified_number") = s2'[slot(p)].tcgdex
  BY <1>1, SameSlots
<1>6. \A p \in CH!Prints(cat) : Slot(next, k, p) = slot(p)
  <2> TAKE p \in CH!Prints(cat)
  <2>1. slot(p) \in 1..k /\ next.place[p] = slot(p)
    BY <1>4, <1>5
  <2> HIDE DEF slot, next
  <2>2. ~(next.place[p] < 0)
    BY <2>1
  <2> QED BY <2>1, <2>2 DEF Slot
<1> HIDE DEF next
<1>7. SlotsDiffer(cat, next, k)
  BY <1>1, <1>5, <1>6 DEF SlotsDiffer
<1>8. ListOf(next, k) = s4'
  BY <1>1, <1>6, <1>7, SameList
<1>10. IdsOf(next, s2', s2') = s2'
  <2>1. \A m \in {next.place[p] : p \in DOMAIN next.place} : CH!Matched(s2'[m].tcgdex, "verified_number") = s2'[m].tcgdex
    BY <1>5
  <2>2. IdsOf(next, s2', s2') = [m \in DOMAIN s2' |-> s2'[m]]
    BY <2>1 DEF IdsOf
  <2> QED BY <1>4, <2>2 DEF MasterLists
<1>11. own # {} => s5' = CH!BasePrints(cat)
  BY <1>1 DEF own, CH!Owned
<1>12. NothingToDo'
  <2>1. Idles(next, s2', s4', s5', own, cat)
    BY <1>5, <1>8, <1>10, <1>11 DEF Idles
  <2> QED BY <1>1, <1>2, <2>1 DEF NothingToDo, next
<1>13. CH!OwnedPrintHasSlot'
  <2>1. SUFFICES ASSUME NEW c \in DexCards, s3[c] > 0, NEW p \in CH!Prints(cat), p.number = CardKey[c].number,
                        p.variant = CardKey[c].variant \/ (p.base /\ CardKey[c].variant \in CH!BASE_VARIANTS)
                 PROVE  \E m \in DOMAIN s4' : s4'[m] = p.track /\ s2'[m].number = p.number /\ m \in own
    BY <1>1, <1>2 DEF CH!OwnedPrintHasSlot
  <2>2. plan.place[p] \in 1..n /\ plan.place[p] \in own
    BY <1>3, <2>1, OwnedFits DEF plan, own
  <2>3. slot(p) = plan.place[p]
    <3> DEFINE m == plan.place[p]
    <3>1. m \in 1..n
      BY <2>2
    <3>2. ~(m < 0)
      <4> HIDE DEF m
      <4> QED BY <3>1
    <3> QED BY <3>2 DEF Slot
  <2>4. slot(p) \in DOMAIN s4' /\ s4'[slot(p)] = p.track
    <3>1. Fills(s4', cat, plan, n)
      BY <1>1, SeedListIs
    <3> QED BY <3>1 DEF Fills
  <2>5. s2'[slot(p)].number = p.number
    BY <1>4 DEF CH!Fits
  <2> QED BY <2>2, <2>3, <2>4, <2>5
<1> QED BY <1>12, <1>13

LEMMA SeedCommits ==
  ASSUME ChecklistsInv, CH!SeedCommit
  PROVE  ChecklistsInv'
<1> DEFINE cat == s6.catalogue
           n == Len(s2)
           plan == CH!Plan(cat, s6.masters, s6.owned)
<1>1. /\ CommitOf(cat, s6.masters, s6.owned, plan, s2') /\ SlotsDiffer(cat, plan, n)
      /\ s4' = ListOf(plan, n) /\ s7' = cat /\ s6' = CH!Idle /\ s3' = s3 /\ s1' = s1 /\ s8' \in BOOLEAN
  BY CommitIs
<1>2. cat \in Catalogues /\ CH!Readable(cat)
  BY <1>1 DEF CommitOf
<1> HIDE DEF cat, plan
<1>3. /\ s2' \in MasterLists /\ Extends(s2, s2') /\ KeysDiffer(s2')
      /\ \A p \in CH!Prints(cat) : Slot(plan, n, p) \in 1..Len(s2') /\ CH!Fits(s2'[Slot(plan, n, p)], p)
  BY <1>1, SeedWrites
<1>4. Fills(s4', cat, plan, n)
  BY <1>1, SeedListIs
<1>5. CH!SlotPerPrint'
  BY <1>1, <1>2, <1>3, <1>4, SlotsFilled
<1>6. CardsLinkedTo(s2)'
  <2>1. \A c \in DexCards : s3[c] > 0 => s3[c] \in 1..Len(s2) /\ CH!Key(s2[s3[c]]) = CardKey[c]
    BY DEF ChecklistsInv, CardsLinkedTo
  <2>2. \A m \in 1..Len(s2) : CH!Key(s2'[m]) = CH!Key(s2[m]) /\ m \in 1..Len(s2')
    <3>1. Len(s2) \in Nat /\ Len(s2') \in Nat
      BY <1>3 DEF ChecklistsInv, MasterLists
    <3> QED BY <1>3, <3>1 DEF Extends, CH!Key
  <2> QED BY <1>1, <2>1, <2>2 DEF CardsLinkedTo
<1>7. CH!OwnedPrintHasSlot' /\ (s8' => NothingToDo')
  <2>1. CASE s8'
    BY <2>1, SeedIsDone
  <2>2. CASE ~s8'
    BY <2>2 DEF CH!OwnedPrintHasSlot
  <2> QED BY <2>1, <2>2
<1>8. DOMAIN s4' \subseteq 1..Len(s2')
  BY <1>3, <1>4 DEF Fills
<1>9. KeysDiffer(s2)'
  BY <1>3 DEF KeysDiffer
<1> QED BY <1>1, <1>2, <1>3, <1>5, <1>6, <1>7, <1>8, <1>9 DEF ChecklistsInv, MasterLists

\* No commit writes over an ID that was manual when the run read it.
LEMMA ManualKept ==
  ASSUME ChecklistsInv, CH!SeedCommit
  PROVE  CH!ManualIdStays
<1> DEFINE cat == s6.catalogue
           read == s6.masters
           plan == CH!Plan(cat, read, s6.owned)
<1>1. CommitOf(cat, read, s6.owned, plan, s2') /\ s6 # CH!Idle
  BY CommitIs DEF CH!SeedCommit
<1>2. cat \in Catalogues /\ CH!Readable(cat) /\ read \in MasterLists /\ plan = CH!Plan(cat, read, s6.owned)
  BY <1>1 DEF CommitOf
<1>3. /\ \A p \in CH!Prints(cat) \ CH!Fresh(cat, read) : plan.place[p] \in CH!Fitting(p, read)
      /\ \A p \in CH!Fresh(cat, read) : plan.place[p] \in Int /\ -plan.place[p] \in 1..Len(plan.added)
      /\ DOMAIN plan.place = CH!Prints(cat)
  BY <1>2, PlanIs
<1>4. DOMAIN s2 = 1..Len(s2) /\ \A m \in 1..Len(s2) : s2'[m] = CH!Ids(plan, read)[m]
  BY <1>1, SeedWrites DEF ChecklistsInv
<1>5. SUFFICES ASSUME NEW m \in 1..Len(s2), s2[m].tcgdex = "manual",
                      m \in DOMAIN read => read[m].tcgdex = "manual"
               PROVE  s2'[m].tcgdex = "manual"
  BY <1>1, <1>4 DEF CH!ManualIdStays
<1> HIDE DEF plan, read, cat
<1>6. CASE m \in {plan.place[p] : p \in DOMAIN plan.place}
  <2>1. PICK p \in CH!Prints(cat) : m = plan.place[p]
    BY <1>3, <1>6
  <2>2. p \notin CH!Fresh(cat, read)
    <3>1. \A k : ~(m \in 1..Len(s2) /\ -m \in 1..k)
      OBVIOUS
    <3> QED BY <1>3, <2>1, <3>1
  <2>3. m \in DOMAIN read
    BY <1>3, <2>1, <2>2 DEF CH!Fitting
  <2>4. CH!Matched(read[m].tcgdex, "verified_number") = read[m].tcgdex
    BY <1>5, <2>3 DEF CH!Matched
  <2> QED BY <1>4, <1>5, <2>4 DEF CH!Ids
<1>7. CASE m \notin {plan.place[p] : p \in DOMAIN plan.place}
  BY <1>4, <1>5, <1>7 DEF CH!Ids
<1> QED BY <1>6, <1>7

LEMMA ChecklistsStep ==
  ASSUME ChecklistsInv, CH!Next
  PROVE  ChecklistsInv' /\ CH!ManualIdStays
<1>0. UNCHANGED s2 => CH!ManualIdStays
  BY DEF CH!ManualIdStays
<1>1. ASSUME NEW S \in SUBSET DexCards, CH!LinkCards(S) PROVE ChecklistsInv' /\ CH!ManualIdStays
  <2>1. s2 \in Seq(MasterRows) /\ KeysDiffer(s2) /\ s2' = s2 \o CH!Created(S)
    BY <1>1 DEF ChecklistsInv, CH!LinkCards
  <2>2. \A m \in 1..Len(s2) : s2'[m] = s2[m]
    BY <2>1, CreatedIs
  <2>3. CH!ManualIdStays
    BY <2>1, <2>2 DEF CH!ManualIdStays
  <2> QED BY <1>1, <2>3, CardsLink
<1>2. CASE \E S \in SUBSET DexCards : CH!Import(S)
  BY <1>1, <1>2 DEF CH!Import
<1>3. CASE CH!Backfill
  <2> DEFINE S == {c \in DexCards : s3[c] = CH!Unlinked}
  <2>1. S \in SUBSET DexCards /\ CH!LinkCards(S)
    BY <1>3 DEF CH!Backfill
  <2> HIDE DEF S
  <2> QED BY <1>1, <2>1
<1>4. CASE \E c \in DexCards : CH!Delete(c)
  BY <1>0, <1>4, CardDeleted DEF CH!Delete
<1>5. ASSUME NEW m \in DOMAIN s2, CH!Verify(m) \/ CH!Correct(m) PROVE ChecklistsInv' /\ CH!ManualIdStays
  <2>0. m \in 1..Len(s2) /\ DOMAIN s2 = 1..Len(s2)
    BY DEF ChecklistsInv
  <2>1. PICK how \in {"verified", "verified_number", "manual"} :
          CH!SetId(m, how) /\ (s2[m].tcgdex = CH!None \/ how = "manual")
    BY <1>5 DEF CH!Verify, CH!Correct
  <2>2. /\ ChecklistsInv'
        /\ \A k \in 1..Len(s2) \ {m} : s2'[k] = s2[k]
        /\ s2'[m].tcgdex = CH!Matched(s2[m].tcgdex, how)
    BY <2>0, <2>1, IdSet
  <2>3. s2[m].tcgdex = "manual" => s2'[m].tcgdex = "manual"
    BY <2>1, <2>2 DEF CH!Matched, CH!None
  <2> QED BY <2>0, <2>2, <2>3 DEF CH!ManualIdStays
<1>6. CASE CH!SeedRead
  BY <1>0, <1>6, SeedReads DEF CH!SeedRead
<1>7. CASE CH!SeedCommit
  BY <1>7, SeedCommits, ManualKept
<1>8. CASE CH!SeedFails
  BY <1>0, <1>8, TablesStay DEF CH!SeedFails, ChecklistsInv
<1>9. ASSUME NEW cat \in Catalogues, CH!Publish(cat) PROVE ChecklistsInv' /\ CH!ManualIdStays
  <2>1. s1' = cat /\ UNCHANGED <<s2, s3, s4, s5, s6, s7, s8>>
    BY <1>9 DEF CH!Publish
  <2>2. s6' # CH!Idle => SeedRuns'
    BY <2>1 DEF ChecklistsInv, SeedRuns, Extends
  <2> QED BY <1>0, <2>1, <2>2, TablesStay
<1> QED BY <1>2, <1>3, <1>4, <1>5, <1>6, <1>7, <1>8, <1>9 DEF CH!Next

\* "Make the checklist's membership exactly those prints", "the base slot is
\* whatever master card already holds that number's Normal or Holo print", and
\* "a second run against unchanged TCGdex data changes nothing": the seed does
\* what set_checklist_seed.py says, for every set of cards and whatever TCGdex
\* lists, with imports, deletions and matches in between.
THEOREM SeedDoesSettle == ShopSpec => []SeedSettles
<1> DEFINE I == part = "checklists" => ChecklistsInv
<1>1. ShopInit => I
  BY ChecklistsBegin DEF ShopInit
<1>2. I /\ [ShopNext]_shopvars => I'
  <2> SUFFICES ASSUME I, [ShopNext]_shopvars, part = "checklists" \/ part' = "checklists" PROVE ChecklistsInv'
    OBVIOUS
  <2>1. ChecklistsInv /\ (CH!Next \/ UNCHANGED <<s1, s2, s3, s4, s5, s6, s7, s8>>)
    BY DEF ShopNext, OtherPart, shopvars
  <2>2. UNCHANGED <<s1, s2, s3, s4, s5, s6, s7, s8>> => ChecklistsInv'
    <3> SUFFICES ASSUME UNCHANGED <<s1, s2, s3, s4, s5, s6, s7, s8>> PROVE ChecklistsInv'
      OBVIOUS
    <3>1. s6' # CH!Idle => SeedRuns'
      BY <2>1 DEF ChecklistsInv, SeedRuns, Extends
    <3> QED BY <2>1, <3>1, TablesStay DEF ChecklistsInv
  <2> QED BY <2>1, <2>2, ChecklistsStep
<1>3. I => SeedSettles
  BY ChecklistsSettle DEF SeedSettles
<1> HIDE DEF I
<1> QED BY <1>1, <1>2, <1>3, PTL DEF ShopSpec

-----------------------------------------------------------------------------
LEMMA MasterStutter == ASSUME MasterInv, UNCHANGED <<s1, s2>> PROVE MasterInv' /\ MS!TypedQtyStays
BY DEF MasterInv, MS!TypedQtyStays

LEMMA ChecklistsStutter ==
  ASSUME ChecklistsInv, UNCHANGED <<s1, s2, s3, s4, s5, s6, s7, s8>>
  PROVE  ChecklistsInv' /\ CH!ManualIdStays
<1>1. s6' # CH!Idle => SeedRuns'
  BY DEF ChecklistsInv, SeedRuns, Extends
<1>2. CH!ManualIdStays
  BY DEF CH!ManualIdStays
<1> QED BY <1>1, <1>2, TablesStay DEF ChecklistsInv

\* A bulk add changes no quantity that a list has, and no run overwrites an ID it read
\* as manual: for any prints and lists, and any cards and catalogues.
THEOREM HandEntriesDoStay == ShopSpec => HandEntriesStay
<1> DEFINE I == (part = "master sets" => MasterInv) /\ (part = "checklists" => ChecklistsInv)
           Good == (part = "master sets" => MS!TypedQtyStays) /\ (part = "checklists" => CH!ManualIdStays)
<1>1. ShopInit => I
  BY MasterBegin, ChecklistsBegin DEF ShopInit
<1>2. I /\ [ShopNext]_shopvars => I' /\ Good
  <2> SUFFICES ASSUME I, [ShopNext]_shopvars PROVE I' /\ Good
    OBVIOUS
  <2>1. part' = part
    BY DEF ShopNext, shopvars
  <2>2. CASE part = "master sets"
    <3>1. MasterInv /\ (MS!Next \/ UNCHANGED <<s1, s2>>)
      BY <2>2 DEF ShopNext, OtherPart, shopvars
    <3> QED BY <2>1, <2>2, <3>1, MasterStep, MasterStutter
  <2>3. CASE part = "checklists"
    <3>1. ChecklistsInv /\ (CH!Next \/ UNCHANGED <<s1, s2, s3, s4, s5, s6, s7, s8>>)
      BY <2>3 DEF ShopNext, OtherPart, shopvars
    <3> QED BY <2>1, <2>3, <3>1, ChecklistsStep, ChecklistsStutter
  <2> QED BY <2>1, <2>2, <2>3
<1> HIDE DEF I
<1> QED BY <1>1, <1>2, PTL DEF ShopSpec, HandEntriesStay

\* Every part keeps its types, for all values of the constants.
THEOREM ShopTypes == ShopSpec => []ShopTypeOK
<1> DEFINE I == /\ part = "won sale" => SaleTyped
                /\ part = "listings" => ListingsTyped
                /\ part = "master sets" => MasterInv
                /\ part = "checklists" => ChecklistsInv
                /\ part = "sets" => SetsInv
                /\ part = "ranks" => RanksInv
<1>1. ShopInit => I /\ Init
  BY SaleBegin, ListingsTypesBegin, MasterBegin, ChecklistsBegin, SetsBegin, RanksBegin DEF ShopInit
<1>2. I /\ [ShopNext]_shopvars => I' /\ [Next]_vars
  <2> SUFFICES ASSUME I, [ShopNext]_shopvars PROVE I' /\ [Next]_vars
    OBVIOUS
  <2>1. part' = part /\ [Next]_vars
    BY DEF ShopNext, shopvars
  <2>2. CASE part = "won sale"
    <3>1. SaleTyped /\ (WS!Next \/ UNCHANGED <<s1, s2>>)
      BY <2>2 DEF ShopNext, OtherPart, shopvars
    <3> QED BY <2>1, <2>2, <3>1, SaleStep, SaleStutter
  <2>3. CASE part = "listings"
    <3>1. ListingsTyped /\ (LI!Next \/ UNCHANGED <<s1, s2, s3, s4, s5>>)
      BY <2>3 DEF ShopNext, OtherPart, shopvars
    <3> QED BY <2>1, <2>3, <3>1, ListingsTypesStep, ListingsTypesStutter
  <2>4. CASE part = "master sets"
    <3>1. MasterInv /\ (MS!Next \/ UNCHANGED <<s1, s2>>)
      BY <2>4 DEF ShopNext, OtherPart, shopvars
    <3> QED BY <2>1, <2>4, <3>1, MasterStep, MasterStutter
  <2>5. CASE part = "checklists"
    <3>1. ChecklistsInv /\ (CH!Next \/ UNCHANGED <<s1, s2, s3, s4, s5, s6, s7, s8>>)
      BY <2>5 DEF ShopNext, OtherPart, shopvars
    <3> QED BY <2>1, <2>5, <3>1, ChecklistsStep, ChecklistsStutter
  <2>6. CASE part = "sets"
    <3>1. SetsInv /\ (SE!Next \/ UNCHANGED <<s1, s2, s3, s4, s5>>)
      BY <2>6 DEF ShopNext, OtherPart, shopvars
    <3> QED BY <2>1, <2>6, <3>1, SetsStep, SetsStutter
  <2>7. CASE part = "ranks"
    <3>1. RanksInv /\ (SR!Next \/ UNCHANGED <<s1, s2>>)
      BY <2>7 DEF ShopNext, OtherPart, shopvars
    <3> QED BY <2>1, <2>7, <3>1, RanksStep, RanksStutter
  <2> QED BY <2>1, <2>2, <2>3, <2>4, <2>5, <2>6, <2>7
<1>3. I /\ TypeOK => ShopTypeOK
  BY SaleTypes, ListingsTypes, MasterTyped, ChecklistsTyped DEF SetsInv, RanksInv, ShopTypeOK
<1> HIDE DEF I
<1> QED BY <1>1, <1>2, <1>3, TypeCorrect, PTL DEF ShopSpec, Spec
=============================================================================
