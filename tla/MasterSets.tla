----------------------------- MODULE MasterSets -----------------------------
(***************************************************************************)
(* A set's checklist against the cards you own (queries.py "Master sets",  *)
(* set_checklists.py), and the want and sale lists built from it           *)
(* (card_lists.py).  The daily sync moves quantities and links under the   *)
(* lists; every status is computed when it is shown.                       *)
(***************************************************************************)
EXTENDS Counting

CONSTANTS
  Prints,   \* master cards: the prints of the set and others
  TrackOf,  \* their track on the checklist, or OffList
  OffList,
  Numbers,  \* printed numbers
  NumberOf, \* of each print
  Cards,    \* rows of `cards`
  DexNumber,\* the number in a card's Dex card_id, for cards of this set
  NoPrint,  \* the link of a card with no master card
  HasAd,    \* cards that are in an active listing whenever they are owned
  Lists,
  MaxQty    \* bound on copies and on quantities of a list

\* set_checklists.TRACKS: Master Ball prints never count toward completion.
Counts == [main |-> TRUE, secret |-> TRUE, poke_ball |-> TRUE, master_ball |-> FALSE]
Tracks == DOMAIN Counts
Checklist == {p \in Prints : TrackOf[p] # OffList}

VARIABLES
  card, \* [qty, incoming, print] of each card
  list  \* [kind, items] of each list; items: print -> quantity
vars == <<card, list>>

TypeOK ==
  /\ card \in [Cards -> [qty : 0..MaxQty, incoming : 0..MaxQty,
                         print : Prints \cup {NoPrint}]]
  /\ \A l \in Lists : /\ list[l].kind \in {"none", "want", "sale"}
                      /\ DOMAIN list[l].items \subseteq Prints
                      /\ \A p \in DOMAIN list[l].items : list[l].items[p] \in Nat \ {0}

NoItems == [p \in {} |-> 0]

Init ==
  /\ card = [c \in Cards |-> [qty |-> 0, incoming |-> 0, print |-> NoPrint]]
  /\ list = [l \in Lists |-> [kind |-> "none", items |-> NoItems]]

-----------------------------------------------------------------------------
(* Copies: models.Card, MasterSetSlot *)

AtLeast0(n) == IF n > 0 THEN n ELSE 0
InTransit(c) == IF card[c].incoming < card[c].qty THEN card[c].incoming ELSE card[c].qty
InHand(c) == AtLeast0(card[c].qty - InTransit(c))

\* owned_cards_of()
OwnedCards(p) == {c \in Cards : card[c].print = p /\ card[c].qty > 0}
OwnedQty(p) == Sigma([c \in Cards |-> card[c].qty], OwnedCards(p))
InHandQty(p) == Sigma([c \in Cards |-> InHand(c)], OwnedCards(p))
Owned(p) == OwnedQty(p) > 0

\* Mutant: copies on the way are spares already.
SparesOwned(p) == AtLeast0(OwnedQty(p) - 1)

\* print_in_hand_spares(): every copy in hand beyond the first of the print
Spares(p) == AtLeast0(InHandQty(p) - 1)

SparesOnTheWay(p) == AtLeast0(OwnedQty(p) - 1) - Spares(p)

\* Mutant: cards whose link is to a print off the checklist are forgotten.
UnmatchedUnlinked == {c \in Cards : card[c].qty > 0 /\ card[c].print = NoPrint /\ DexNumber[c] \in Numbers}

\* master_set_detail(): owned cards of the set on no print of its checklist,
\* linked to another print of the set or not linked at all
Unmatched ==
  {c \in Cards : card[c].qty > 0 /\
     \/ card[c].print \in Prints \ Checklist
     \/ card[c].print = NoPrint /\ DexNumber[c] \in Numbers}

\* _set_info(): the number of an unmatched card is its print's, or the one in
\* its Dex card_id.
UnmatchedNumbers ==
  {IF card[c].print # NoPrint THEN NumberOf[card[c].print] ELSE DexNumber[c] : c \in Unmatched}

\* The tracks' owned counts, and the master set's
TrackOwned(t) == Cardinality({p \in Checklist : TrackOf[p] = t /\ Owned(p)})
MasterSetOwned == Cardinality({p \in Checklist : Counts[TrackOf[p]] /\ Owned(p)})

\* filter_master_set_slots()
Shown(track, show) ==
  {p \in Checklist :
    /\ IF track = "all" THEN Counts[TrackOf[p]] ELSE TrackOf[p] = track
    /\ show = "missing" => ~Owned(p)
    /\ show = "owned" => Owned(p)
    /\ show = "duplicates" => Spares(p) > 0}

-----------------------------------------------------------------------------
(* Lists: the live status of an item *)

\* Mutant: what is owned is got, wherever it is.
WantStatusOwned(p, qty) == IF OwnedQty(p) >= qty THEN "got" ELSE "missing"

\* _want_status()
WantStatus(p, qty) ==
  IF OwnedQty(p) >= qty THEN IF InHandQty(p) >= qty THEN "got" ELSE "on_the_way"
  ELSE IF Owned(p) THEN "partial"
  ELSE IF NumberOf[p] \in UnmatchedNumbers THEN "unmatched" ELSE "missing"

\* active_listings_by_card()
Listed(p) == OwnedCards(p) \cap HasAd # {}

\* _sale_status()
SaleStatus(p, qty) ==
  IF ~Owned(p) THEN "sold_out"
  ELSE IF Listed(p) THEN "listed"
  ELSE IF qty <= Spares(p) THEN "available"
  ELSE IF qty <= Spares(p) + SparesOnTheWay(p) THEN "on_the_way" ELSE "short"

\* list_detail()
Status(l, p) ==
  IF list[l].kind = "want" THEN WantStatus(p, list[l].items[p]) ELSE SaleStatus(p, list[l].items[p])

\* ListItemView.counted_qty: copies the list's total counts
Counted(l, p) ==
  LET qty == list[l].items[p]
  IN  IF list[l].kind = "want" THEN AtLeast0(qty - OwnedQty(p))
      ELSE IF qty < Spares(p) THEN qty ELSE Spares(p)

\* CardListDetail.text_items: what "Copy as text" lists
InText(l, p) ==
  Status(l, p) \notin IF list[l].kind = "want" THEN {"got", "on_the_way"} ELSE {"sold_out"}

-----------------------------------------------------------------------------
(* Lists: the operations *)

Create(l, kind) ==
  /\ list[l].kind = "none"
  /\ list' = [list EXCEPT ![l].kind = kind]
  /\ UNCHANGED card

\* Mutant: a print that is on the list gets the new quantity.
AddItemsAgain(items, new) ==
  [p \in DOMAIN items \cup DOMAIN new |-> IF p \in DOMAIN new THEN new[p] ELSE items[p]]

\* add_items(): a print already on the list is left as it is
AddItems(items, new) ==
  [p \in DOMAIN items \cup DOMAIN new |-> IF p \in DOMAIN items THEN items[p] ELSE new[p]]

Without(items, S) == [p \in DOMAIN items \ S |-> items[p]]

\* master_set_add_to_list(): the prints the grid shows, on a list of their kind
AddFromSet(l, track, show) ==
  LET shown == Shown(track, show)
      new == IF list[l].kind = "want" THEN [p \in {q \in shown : ~Owned(q)} |-> 1]
             ELSE [p \in {q \in shown : Spares(q) > 0} |-> Spares(p)]
  IN  /\ list[l].kind # "none"
      /\ list' = [list EXCEPT ![l].items = AddItems(@, new)]
      /\ UNCHANGED card

\* list_item_save()
Save(l, p, qty) ==
  /\ p \in DOMAIN list[l].items
  /\ list' = [list EXCEPT ![l].items[p] = qty]
  /\ UNCHANGED card

\* list_item_delete()
DeleteItem(l, p) ==
  /\ p \in DOMAIN list[l].items
  /\ list' = [list EXCEPT ![l].items = Without(@, {p})]
  /\ UNCHANGED card

Got(l) == {p \in DOMAIN list[l].items : list[l].kind = "want" /\ Status(l, p) = "got"}

\* remove_got_it()
RemoveGotIt(l) ==
  /\ list[l].kind # "none"
  /\ list' = [list EXCEPT ![l].items = Without(@, Got(l))]
  /\ UNCHANGED card

\* list_delete()
DeleteList(l) ==
  /\ list[l].kind # "none"
  /\ list' = [list EXCEPT ![l] = [kind |-> "none", items |-> NoItems]]
  /\ UNCHANGED card

\* The Dex sync
Sync(c) ==
  /\ \E q \in 0..MaxQty : \E t \in 0..q : card' = [card EXCEPT ![c].qty = q, ![c].incoming = t]
  /\ UNCHANGED list

\* masterdata.link_card()
Relink(c) ==
  /\ \E p \in Prints \cup {NoPrint} : card' = [card EXCEPT ![c].print = p]
  /\ UNCHANGED list

ListStep(l) ==
  \/ \E kind \in {"want", "sale"} : Create(l, kind)
  \/ \E track \in Tracks \cup {"all"}, show \in {"all", "missing", "duplicates"} : AddFromSet(l, track, show)
  \/ \E p \in Prints : DeleteItem(l, p) \/ \E qty \in 1..MaxQty : Save(l, p, qty)
  \/ RemoveGotIt(l) \/ DeleteList(l)

Next == (\E c \in Cards : Sync(c) \/ Relink(c)) \/ \E l \in Lists : ListStep(l)

Spec == Init /\ [][Next]_vars

-----------------------------------------------------------------------------
(* Every owned card of the set is counted once: on one print of the checklist,
   or as unmatched. *)
EveryOwnedCardOnce ==
  \A c \in Cards : card[c].qty > 0 /\ (card[c].print = NoPrint => DexNumber[c] \in Numbers) =>
    Cardinality({p \in Checklist : c \in OwnedCards(p)}) + (IF c \in Unmatched THEN 1 ELSE 0) = 1

(* "So it isn't bought twice": a want list asks for a print exactly while its
   total counts a copy of it, and calls it got only with enough in hand. *)
WantsWhatItCounts ==
  \A l \in Lists : list[l].kind = "want" =>
    \A p \in DOMAIN list[l].items :
      /\ InText(l, p) <=> Counted(l, p) > 0
      /\ Status(l, p) = "got" => InHandQty(p) >= list[l].items[p]

(* What a sale list calls available can be sold, and a copy stays in hand. *)
KeepsOneCopy ==
  \A l \in Lists : list[l].kind = "sale" =>
    \A p \in DOMAIN list[l].items :
      Status(l, p) = "available" => InHandQty(p) > list[l].items[p] /\ Counted(l, p) = list[l].items[p]

(* A quantity a user typed survives every bulk add (list_item_save alone
   changes it): "a print already on the list is left exactly as it is". *)
TypedQtyStays ==
  \A l \in Lists : \A p \in DOMAIN list[l].items \cap DOMAIN list'[l].items :
    DOMAIN list[l].items # DOMAIN list'[l].items => list'[l].items[p] = list[l].items[p]
=============================================================================
