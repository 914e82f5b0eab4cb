-------------------------------- MODULE Shop --------------------------------
(***************************************************************************)
(* The components of tcg_inventory that requests drive.  Each keeps tables *)
(* of its own, so one specification has them side by side: the initial     *)
(* state picks a part, and the part's next-state relation is the only one  *)
(* that moves it.  Orders' own variables stand for themselves and stay as  *)
(* they are while another part moves; s1..s9 are that part's variables, 0  *)
(* where it has fewer.                                                     *)
(***************************************************************************)
EXTENDS Orders

CONSTANTS
  Parts,    \* the parts that may move
  Cards,    \* rows of `cards`, in every part but Checklists
  \* WonSale
  SaleItems, PriceOf, NoPrice, MaxSales, MaxShipping,
  \* Listings
  Ads, NoAd,
  \* MasterSets
  SetPrints, TrackOf, OffList, Numbers, NumberOf, DexNumber, NoPrint, HasAd, Lists, MaxQty,
  \* Checklists
  DexCards, CardKey, Catalogues, Official, MaxMatches,
  \* Sets, SetRanks
  Pairs, Api, HandRanks

ASSUME SaleAssumption ==
  /\ IsFiniteSet(SaleItems)
  /\ NoPrice \notin Nat /\ \A i \in SaleItems : PriceOf[i] \in Nat \cup {NoPrice}
  /\ MaxSales \in Nat /\ MaxShipping \in Nat
ASSUME AdsAssumption == NoAd \notin Ads
ASSUME HoldingsAssumption ==
  /\ IsFiniteSet(Cards) /\ NoPrint \notin SetPrints /\ MaxQty \in Nat
ASSUME ChecklistAssumption ==
  /\ DexCards \in SUBSET Nat /\ IsFiniteSet(DexCards)
  /\ \A c \in DexCards : CardKey[c] = [number |-> CardKey[c].number, variant |-> CardKey[c].variant]
  /\ \A cat \in Catalogues : IsFiniteSet(DOMAIN cat)
ASSUME SetsAssumption ==
  /\ [series |-> "none", name |-> "none"] \notin Pairs
  /\ \A s \in Api : s.id \in Nat /\ s.date \in Nat /\ s.total \in Nat
  /\ \A s, t \in Api : s.id = t.id => s = t
  /\ \A p \in DOMAIN HandRanks : HandRanks[p] \in Nat

VARIABLES part, s1, s2, s3, s4, s5, s6, s7, s8, s9
shopvars == <<vars, part, s1, s2, s3, s4, s5, s6, s7, s8, s9>>

-----------------------------------------------------------------------------
WS == INSTANCE WonSale WITH
       Items <- SaleItems, Unknown <- NoPrice, MaxOrders <- MaxSales, item <- s1, orders <- s2
LI == INSTANCE Listings WITH card <- s1, ad <- s2, rows <- s3, form <- s4, deletion <- s5
MS == INSTANCE MasterSets WITH Prints <- SetPrints, card <- s1, list <- s2
CH == INSTANCE Checklists WITH
       Cards <- DexCards, PrintOf <- CardKey, catalogue <- s1, masters <- s2, cards <- s3,
       checklist <- s4, total <- s5, seed <- s6, seeded <- s7, settled <- s8, matches <- s9
SE == INSTANCE Sets WITH pair <- s1, link <- s2, sync <- s3, cold <- s4, mixed <- s5
SR == INSTANCE SetRanks WITH sets <- s1, api <- s2

-----------------------------------------------------------------------------
ShopInit ==
  /\ part \in Parts /\ Init
  /\ \/ part = "orders" /\ s1 = 0 /\ s2 = 0 /\ s3 = 0 /\ s4 = 0 /\ s5 = 0 /\ s6 = 0 /\ s7 = 0 /\ s8 = 0 /\ s9 = 0
     \/ part = "won sale" /\ WS!Init /\ s3 = 0 /\ s4 = 0 /\ s5 = 0 /\ s6 = 0 /\ s7 = 0 /\ s8 = 0 /\ s9 = 0
     \/ part = "listings" /\ LI!Init /\ s6 = 0 /\ s7 = 0 /\ s8 = 0 /\ s9 = 0
     \/ part = "master sets" /\ MS!Init /\ s3 = 0 /\ s4 = 0 /\ s5 = 0 /\ s6 = 0 /\ s7 = 0 /\ s8 = 0 /\ s9 = 0
     \/ part = "checklists" /\ CH!Init
     \/ part = "sets" /\ SE!Init /\ s6 = 0 /\ s7 = 0 /\ s8 = 0 /\ s9 = 0
     \/ part = "ranks" /\ SR!Init /\ s3 = 0 /\ s4 = 0 /\ s5 = 0 /\ s6 = 0 /\ s7 = 0 /\ s8 = 0 /\ s9 = 0

OtherPart ==
  \/ part = "won sale" /\ WS!Next /\ UNCHANGED <<s3, s4, s5, s6, s7, s8, s9>>
  \/ part = "listings" /\ LI!Next /\ UNCHANGED <<s6, s7, s8, s9>>
  \/ part = "master sets" /\ MS!Next /\ UNCHANGED <<s3, s4, s5, s6, s7, s8, s9>>
  \/ part = "checklists" /\ CH!Next
  \/ part = "sets" /\ SE!Next /\ UNCHANGED <<s6, s7, s8, s9>>
  \/ part = "ranks" /\ SR!Next /\ UNCHANGED <<s3, s4, s5, s6, s7, s8, s9>>

ShopNext ==
  \/ part = "orders" /\ Next /\ UNCHANGED <<part, s1, s2, s3, s4, s5, s6, s7, s8, s9>>
  \/ OtherPart /\ UNCHANGED <<vars, part>>

ShopSpec == ShopInit /\ [][ShopNext]_shopvars

-----------------------------------------------------------------------------
(* The properties, each defined and explained in the part's module. *)

\* Every part's type invariant.
ShopTypeOK ==
  /\ part = "orders" => TypeOK
  /\ part = "won sale" => WS!TypeOK
  /\ part = "listings" => LI!TypeOK
  /\ part = "master sets" => MS!TypeOK
  /\ part = "checklists" => CH!TypeOK
  /\ part = "sets" => SE!TypeOK
  /\ part = "ranks" => SR!TypeOK

\* WonSale: the orders' totals count no money of the sale twice (OpenSale.total).
NoMoneyTwice == part = "won sale" => WS!NoMoneyTwice

\* MasterSets, Checklists: what you entered yourself stays: a bulk add changes no quantity
\* of a list that is there (add_items()), and no run overwrites an ID it read as manual.
HandEntriesStay ==
  [][/\ part = "master sets" => MS!TypedQtyStays
     /\ part = "checklists" => CH!ManualIdStays]_shopvars

\* Listings, WonSale: a submit that comes after a sale of its listing sells nothing, no
\* request takes an older sale row with it, and no money of a sale is in the totals of
\* two orders unless a lot was linked again while on an order.
SoldOnceForGood ==
  /\ []((part = "won sale" => WS!MoneyOnceUnlessAgain) /\ (part = "listings" => LI!SoldOnce))
  /\ [][part = "listings" => LI!HistoryKept]_shopvars

\* MasterSets: the set pages and lists agree with what you hold: every owned card of a
\* set is counted once, a want list asks for what its total counts, and what a sale
\* list offers leaves a copy in hand.
ListsFollowHoldings ==
  part = "master sets" => MS!EveryOwnedCardOnce /\ MS!WantsWhatItCounts /\ MS!KeepsOneCopy

\* Checklists: a seed leaves one slot for each print, with the owned print on it, and
\* nothing for the next seed to do.
SeedSettles ==
  part = "checklists" => CH!SlotPerPrint /\ CH!OwnedPrintHasSlot /\ CH!SecondSeedIdle

\* Sets, SetRanks: every card links to the set it is in, save where a cold start came
\* between a sync's read and its write, and ranks given in different months compare as
\* release dates do, save where an older set was listed late.
SetsLinked ==
  /\ part = "sets" => SE!CardsLinked
  /\ part = "ranks" => SR!RanksFollowDates
=============================================================================
