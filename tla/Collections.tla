----------------------------- MODULE Collections -----------------------------
(***************************************************************************)
(* The dashboard's collection rows, the collections overview and the       *)
(* collections' own pages (queries.py, app.py).  Nothing of them is        *)
(* stored: each page groups the cards again, by its own code, while the    *)
(* syncs move quantities and tags.                                         *)
(***************************************************************************)
EXTENDS Counting, FiniteSetsExt

CONSTANTS
  Cards,
  SetOf,     \* the checklisted set a card's Dex ID names, a number, or NoSet
  NoSet,
  PrintOf,   \* its print on that checklist, or NoPrint
  NoPrint,
  SectionOf, \* its Dex set name, a number: their alphabetical order
  RankOf,    \* Dex set name -> release rank
  Colls,     \* collections, by ID
  Status,    \* those that are named like a status folder (Incoming)
  Leftovers, \* the cards such a collection may still hold
  CopiesOf   \* bound: the [qty, incoming] a sync may give a card

VARIABLE
  card \* [qty, incoming, tags] of each card
vars == <<card>>

None == 0
KeysOf(S) == {SetOf[c] : c \in S} \ {NoSet}

TypeOK == card \in [Cards -> [qty : Nat, incoming : Nat, tags : SUBSET Colls]]

Init ==
  \E L \in Leftovers :
    card = [c \in Cards |-> [qty |-> 0, incoming |-> 0, tags |-> IF c \in L THEN Status ELSE {}]]

\* A sync sets a card's copies, and those on the way.
SetCopies(c) ==
  \E copies \in CopiesOf[c] : card' = [card EXCEPT ![c].qty = copies.qty, ![c].incoming = copies.incoming]

\* A collection's export replaces its members; none is made of a status folder.
SetMembers(k, S) ==
  /\ k \notin Status
  /\ card' = [c \in Cards |-> [card[c] EXCEPT !.tags = IF c \in S THEN @ \cup {k} ELSE @ \ {k}]]

Next ==
  \/ \E c \in Cards : SetCopies(c)
  \/ \E k \in Colls, S \in SUBSET Cards : SetMembers(k, S)

Spec == Init /\ [][Next]_vars

-----------------------------------------------------------------------------
(* A bucket is the set of its cards; its figures are sums over them. *)

AtLeast0(n) == IF n > 0 THEN n ELSE 0
Owned == {c \in Cards : card[c].qty > 0}
Qty(S) == Sigma([c \in S |-> card[c].qty], S)
Duplicates(S) == Sigma([c \in S |-> AtLeast0(card[c].qty - 1)], S)
Members(k) == {c \in Cards : k \in card[c].tags}

\* collection_membership_breakdown()
Tagged(c) == card[c].tags \ Status
Row(k) == {c \in Cards : k \in Tagged(c)}
InCollections == {c \in Cards : Tagged(c) # {}}

\* Mutant: a card with any tag is not bulk.
BulkUntagged == {c \in Cards : card[c].tags = {}}

Bulk == {c \in Cards : Tagged(c) = {}}

\* headline_summary(): copies, prints owned, duplicates
Headline == <<Qty(Cards), Cardinality(Owned), Duplicates(Cards)>>
Figures(S) == <<Qty(S), Qty(S) - Duplicates(S), Duplicates(S)>>
Plus(f, g) == [i \in 1..3 |-> f[i] + g[i]]

-----------------------------------------------------------------------------
(* Where a checklisted set's block shows *)

\* set_homes(): the collection with most of the set's owned cards, the lowest
\* ID on a tie
Tags(key, k) == Cardinality({c \in Owned \cap Members(k) : SetOf[c] = key})
Home(key) ==
  LET most == Max({0} \cup {Tags(key, k) : k \in Colls})
  IN  IF most = 0 THEN None ELSE Min({k \in Colls : Tags(key, k) = most})

Sections(S) == {SectionOf[c] : c \in S}
Section(S, n) == {c \in S : SectionOf[c] = n}

\* Mutant: a section with a card of no checklisted set has no key.
SectionKeyOfAll(S) == IF NoSet \in {SetOf[c] : c \in S} THEN NoSet ELSE Min(KeysOf(S))

\* section_set_key(): the lowest of a section's sets
SectionKey(S) == IF KeysOf(S) = {} THEN NoSet ELSE Min(KeysOf(S))

SectionsOf(S, key) == {n \in Sections(S) : SectionKey(Section(S, n)) = key}
HomeKeys(k, S) == {key \in KeysOf(S) : Home(key) = k /\ SectionsOf(S, key) # {}}

\* MasterSetDetail.spares: per print of the set, in hand only
PrintsOf(key) == {PrintOf[c] : c \in {d \in Cards : SetOf[d] = key}} \ {NoPrint}
InHand(p) ==
  LET filed == {c \in Cards : PrintOf[c] = p}
  IN  Sigma([c \in filed |-> card[c].qty - card[c].incoming], filed)
Spares(key) == Sigma([p \in PrintsOf(key) |-> AtLeast0(InHand(p) - 1)], PrintsOf(key))

\* collection_page(): of a set's sections, the first in release order has the
\* block; the others are plain galleries.
FirstByRank(N) == CHOOSE n \in N : \A m \in N : RankOf[n] < RankOf[m] \/ (RankOf[n] = RankOf[m] /\ n <= m)
Blocks(k) == HomeKeys(k, Members(k))
BlockSections(k) == {FirstByRank(SectionsOf(Members(k), key)) : key \in Blocks(k)}
Plain(k) == {c \in Members(k) : SectionOf[c] \notin BlockSections(k)}

\* Mutant: a block's section shows the set's cards only.
OtherCardsNone(k) == {}

\* other_cards: the cards of a block's section that belong to another set
OtherCards(k) ==
  {c \in Members(k) : SectionOf[c] \in BlockSections(k) /\ SetOf[c] # SectionKey(Section(Members(k), SectionOf[c]))}

\* A block has a slot for each owned print, and its unmatched cards.
InBlocks(k) == {c \in Owned : SetOf[c] \in Blocks(k)}
OnPage(k) == Plain(k) \cup OtherCards(k) \cup InBlocks(k)
SparesOf(keys) == Sigma([key \in keys |-> Spares(key)], keys)
PageDuplicates(k) == SparesOf(Blocks(k)) + Duplicates(Plain(k))

\* Mutant: a block's section counts its rows' duplicates, too.
CountedRows(k) == Row(k)

\* collections_overview(): the cards counted row by row; its first section of
\* a set is the first by name
CountedRowByRow(k) ==
  {c \in Row(k) : SectionOf[c] \notin {Min(SectionsOf(Row(k), key)) : key \in HomeKeys(k, Row(k))}}

OverviewDuplicates(k) == SparesOf(HomeKeys(k, Row(k))) + Duplicates(CountedRowByRow(k))

\* master_set_page(): a link to a set goes to its home's page, if it has one.
Redirect(key) == Home(key)

-----------------------------------------------------------------------------
Ordinary == Colls \ Status
\* Does a collection hold a checklisted set under several Dex names?
Split(k) == \E key \in KeysOf(Members(k)) : Cardinality(SectionsOf(Members(k), key)) > 1
\* Does one of its sections hold cards of several of them?
Mixed(k) == \E n \in Sections(Members(k)) : Cardinality(KeysOf(Section(Members(k), n))) > 1

(* "Two deduplicated rows that count each card exactly once": Collections and
   Bulk are the headline, whatever tags a card has and whatever is left of a
   status folder. *)
CountedOnce == Plus(Figures(InCollections), Figures(Bulk)) = Headline

(* "Each checklisted set has a home collection, where its master-set block
   shows": the link of a set leads to a page that has its block, unless a
   section of that page mixes sets: it is the block of the lowest one only. *)
HomeShowsItsSet ==
  \A key \in KeysOf(Cards) :
    Redirect(key) # None /\ ~Mixed(Redirect(key)) => key \in Blocks(Redirect(key))

(* A block shows the whole set, and no card is lost to it: every owned card of
   a collection is on the collection's page, whatever set its Dex name and its
   Dex ID put it in. *)
NoCardLost == \A k \in Colls : Members(k) \cap Owned \subseteq OnPage(k)

(* Duplicates are for giving away: on the overview as on the page, they leave
   a copy of every print of the collection and of the sets it is home to, also
   where rows and prints are counted side by side.  Only while the collection
   holds each set under one Dex name, and under each name one set. *)
PrintsIn(S) == Cardinality({c \in S : PrintOf[c] = NoPrint}) + Cardinality({PrintOf[c] : c \in S} \ {NoPrint})
LeavesACopy ==
  \A k \in Ordinary : ~Split(k) /\ ~Mixed(k) =>
    LET all == (Members(k) \cap Owned) \cup InBlocks(k)
    IN  \A n \in {OverviewDuplicates(k), PageDuplicates(k)} : n <= Qty(all) - PrintsIn(all)
=============================================================================
