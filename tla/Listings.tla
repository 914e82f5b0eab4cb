------------------------------ MODULE Listings ------------------------------
(***************************************************************************)
(* Listings, their sale rows, and the deletion of cards that Dex no longer *)
(* has (app.py, missing_cards.py).  A request reads and then commits: Mark *)
(* sold is two steps, and the deletion of a card three (its checks, the    *)
(* flush's SELECT, its DELETE), so that another request may come between;  *)
(* the other requests are one.  Pages may be stale: a form is sent for a   *)
(* listing in any state.                                                   *)
(***************************************************************************)
CONSTANTS
  Cards,
  Ads,     \* the IDs of listings
  NoAd,    \* listing_id of a row whose listing is gone
  Tabs     \* submits of mark-sold forms

VARIABLES
  card,     \* [exists, flagged, transit]: in the database, flagged missing, on the way
  ad,       \* [status, cards] of each listing; undone: history, the submits whose sale was delisted
  rows,     \* the sale rows: [by, ad, card, link]; late: history, committed after the SELECT
            \* of a deletion of the card
  form,     \* each mark-sold submit: [pc, ad, cards] it read; over: history, the submits that had
            \* sold the listing by then
  deletion  \* how far the request to delete a card is
vars == <<card, ad, rows, form, deletion>>

TypeOK ==
  /\ card \in [Cards -> [exists : BOOLEAN, flagged : BOOLEAN, transit : BOOLEAN]]
  /\ ad \in [Ads -> [status : {"none", "active", "delisted", "sold", "deleted"},
                     cards : SUBSET Cards, undone : SUBSET Tabs]]
  /\ rows \subseteq [by : Tabs, ad : Ads, card : Cards, link : Ads \cup {NoAd}, late : BOOLEAN]
  /\ form \in [Tabs -> [pc : {"open", "checked", "done"}, ad : Ads \cup {NoAd},
                        cards : SUBSET Cards, over : SUBSET Tabs]]
  /\ deletion \in [Cards -> {"none", "checked", "flushed"}]

Init ==
  /\ card \in [Cards -> {[exists |-> TRUE, flagged |-> FALSE, transit |-> t] : t \in BOOLEAN}]
  /\ ad = [l \in Ads |-> [status |-> "none", cards |-> {}, undone |-> {}]]
  /\ rows = {}
  /\ form = [t \in Tabs |-> [pc |-> "open", ad |-> NoAd, cards |-> {}, over |-> {}]]
  /\ deletion = [c \in Cards |-> "none"]

InDb(S) == {c \in S : card[c].exists}
Sellable(S) == {c \in InDb(S) : ~card[c].transit}
RowsOf(c) == {r \in rows : r.card = c}
\* listing.cards: the join drops a card that is gone.
Lot(l) == InDb(ad[l].cards)
There(l) == ad[l].status \notin {"none", "deleted"}
\* The submits that have sold the listing
SoldBy(l) == {r.by : r \in {r \in rows : r.link = l}}

-----------------------------------------------------------------------------
(* Listings *)

\* sales_mark_listed(): a card on the way is left out
MarkListed(l, S) ==
  /\ ad[l].status = "none"
  /\ Sellable(S) # {}
  /\ ad' = [ad EXCEPT ![l].status = "active", ![l].cards = Sellable(S)]
  /\ UNCHANGED <<card, rows, form, deletion>>

\* listings_delist(): whatever the listing's status; a page loaded when it was
\* active still has the button
Delist(l) ==
  /\ There(l)
  /\ ad' = [ad EXCEPT ![l].status = "delisted", ![l].undone = @ \cup SoldBy(l)]
  /\ UNCHANGED <<card, rows, form, deletion>>

\* Mutant: the relationship to the sale rows cascades.
RowsOfDeletedDropped(l) == {r \in rows : r.link # l}

\* The ORM unlinks the sale rows of a listing that is deleted.
RowsOfDeleted(l) == {IF r.link = l THEN [r EXCEPT !.link = NoAd] ELSE r : r \in rows}

\* listings_delete()
DeleteListing(l) ==
  /\ There(l)
  /\ ad' = [ad EXCEPT ![l].status = "deleted", ![l].cards = {}]
  /\ rows' = RowsOfDeleted(l)
  /\ UNCHANGED <<card, form, deletion>>

\* listing_edit_submit(): an empty lot is refused
Edit(l, S) ==
  /\ There(l) /\ InDb(S) # {}
  /\ ad' = [ad EXCEPT ![l].cards = InDb(S)]
  /\ UNCHANGED <<card, rows, form, deletion>>

-----------------------------------------------------------------------------
(* listing_mark_sold_submit() *)

\* Mutant: a sold listing is not refused.
RefusedNever(l) == FALSE

\* "Re-running mark-sold on an already-sold listing is a no-op"
Refused(l) == ad[l].status = "sold"

\* The form prices every card of the lot.
SoldCheck(t, l) ==
  /\ form[t].pc = "open" /\ There(l)
  /\ ~Refused(l) /\ Lot(l) # {}
  /\ form' = [form EXCEPT ![t] = [pc |-> "checked", ad |-> l, cards |-> Lot(l), over |-> SoldBy(l)]]
  /\ UNCHANGED <<card, ad, rows, deletion>>

NewRow(t, c) ==
  [by |-> t, ad |-> form[t].ad, card |-> c, link |-> form[t].ad, late |-> deletion[c] = "flushed"]

\* One commit: a row per card, and the status.  A listing or a card that is
\* gone fails its foreign key, and the whole commit.
SoldCommit(t) ==
  LET l == form[t].ad
  IN  /\ form[t].pc = "checked"
      /\ form' = [form EXCEPT ![t].pc = "done"]
      /\ \/ /\ There(l) /\ form[t].cards = InDb(form[t].cards)
            /\ rows' = rows \cup {NewRow(t, c) : c \in form[t].cards}
            /\ ad' = [ad EXCEPT ![l].status = "sold"]
         \/ /\ ~(There(l) /\ form[t].cards = InDb(form[t].cards))
            /\ UNCHANGED <<ad, rows>>
      /\ UNCHANGED <<card, deletion>>

-----------------------------------------------------------------------------
(* Cards *)

\* A sync does not see the card, or sees it again, or sees it arrive.
Flag(c) ==
  /\ card[c].exists
  /\ card' = [card EXCEPT ![c].flagged = ~@]
  /\ UNCHANGED <<ad, rows, form, deletion>>

Arrive(c) ==
  /\ card[c].exists /\ card[c].transit
  /\ card' = [card EXCEPT ![c].transit = FALSE]
  /\ UNCHANGED <<ad, rows, form, deletion>>

\* missing_cards.delete_missing_card(): flagged, no transaction, no listing
DeleteCheck(c) ==
  /\ card[c].exists /\ card[c].flagged /\ deletion[c] = "none"
  /\ RowsOf(c) = {} /\ \A l \in Ads : c \notin ad[l].cards
  /\ deletion' = [deletion EXCEPT ![c] = "checked"]
  /\ UNCHANGED <<card, ad, rows, form>>

\* Mutant: Card.transactions leaves the rows to the database.
HasRowsIgnored(c) == FALSE

HasRows(c) == RowsOf(c) # {}

\* db.delete(card): the flush reads card.transactions, to null their card,
\* which fails.
DeleteFlush(c) ==
  /\ deletion[c] = "checked"
  /\ deletion' = [deletion EXCEPT ![c] = IF HasRows(c) THEN "none" ELSE "flushed"]
  /\ UNCHANGED <<card, ad, rows, form>>

\* The DELETE.  The foreign key of a sale row has ondelete=CASCADE: one that
\* was committed after the flush's SELECT goes too.
DeleteCommit(c) ==
  /\ deletion[c] = "flushed"
  /\ deletion' = [deletion EXCEPT ![c] = "none"]
  /\ card' = [card EXCEPT ![c].exists = FALSE]
  /\ rows' = rows \ RowsOf(c)
  /\ UNCHANGED <<ad, form>>

AdStep(l) ==
  \/ Delist(l) \/ DeleteListing(l)
  \/ \E S \in SUBSET Cards : MarkListed(l, S) \/ Edit(l, S)
CardStep(c) == Flag(c) \/ Arrive(c) \/ DeleteCheck(c) \/ DeleteFlush(c) \/ DeleteCommit(c)
SoldStep(t) == SoldCommit(t) \/ \E l \in Ads : SoldCheck(t, l)

Next ==
  (\E l \in Ads : AdStep(l)) \/ (\E c \in Cards : CardStep(c)) \/ \E t \in Tabs : SoldStep(t)

Spec == Init /\ [][Next]_vars

-----------------------------------------------------------------------------
(* "Deleting it would destroy that history": no request takes a sale row with
   it that was there when the deletion of its card read the card's rows,
   whatever listing or card goes, and in whatever order requests commit. *)
Sold(S) == {[by |-> r.by, ad |-> r.ad, card |-> r.card] : r \in S}
HistoryKept == Sold({r \in rows : ~r.late}) \subseteq Sold(rows')

(* "Re-running mark-sold against an already-sold listing is a no-op (no
   duplicate Transactions)": a submit that comes after a sale of the listing
   writes no row of it, unless the sale was delisted from a stale page. *)
SoldOnce ==
  \A r, s \in rows :
    r.link = s.link /\ r.link # NoAd /\ r.by \in form[s.by].over => r.by \in ad[r.link].undone

(* Not kept, neither by submits that overlap nor by a stale page (README,
   Remarks): a listing that is there sells a card once. *)
EachCardSoldOnce == \A r, s \in rows : r.link = s.link /\ r.link # NoAd /\ r.card = s.card => r = s

(* Not kept (README, Remarks).  fully_in_transit: a card with no copy in hand "can't be picked for a sale or
   ad", so no listing that is up has one. *)
OnTheWayNotListed ==
  \A l \in Ads : ad[l].status = "active" => \A c \in Lot(l) : ~card[c].transit
=============================================================================
