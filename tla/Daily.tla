-------------------------------- MODULE Daily --------------------------------
(***************************************************************************)
(* The components of tcg_inventory that the daily jobs drive, and the      *)
(* pages that group the cards and add up what they cost and are worth.  As *)
(* in Shop, the initial state picks a part, the only one that moves;       *)
(* DexSync's own variables stand for themselves.                           *)
(***************************************************************************)
EXTENDS DexSync, TLC

CONSTANTS
  \* DailyJobs: the jobs that take snapshots, and others
  JobCards, SnapshotJobs, OtherJobs, MaxQty, DailyCap,
  \* Prices
  FreshDays, PriceStaleAfter, PriceRetryAfter, PriceOld,
  \* ExchangeRates
  Processes, Currencies, CacheTtl, FailureTtl, RateOld,
  \* History
  HistoryCards, ValuesOf, MaxSnapshots,
  \* Collections
  TaggedCards, SetOf, NoSet, PrintOf, NoPrint, SectionOf, RankOf, Colls, Status, Leftovers, CopiesOf,
  \* PokemonFolders
  FolderNames, Tabs,
  \* Ledger
  LedgerCards, KindsOf, Untracked, Market, RowPrices, RowDays, LedgerOrders, Bounds

ASSUME JobsAssumption == MaxQty \in Nat /\ DailyCap \in Nat
ASSUME PricesAssumption == FreshDays \in Nat /\ PriceOld \in Nat /\ FreshDays < PriceOld
ASSUME RatesAssumption ==
  /\ CacheTtl \in Nat /\ FailureTtl \in Nat /\ FailureTtl <= CacheTtl
  /\ RateOld \in Nat
ASSUME HistoryAssumption ==
  /\ MaxDay \in Nat \ {0} /\ IsFiniteSet(HistoryCards)
  /\ \A c \in HistoryCards : \A v \in ValuesOf[c] :
       /\ v \in [qty : Nat, price : Nat, source : {"dex", "pokemontcg", "none"}]
       /\ v.price > 0 => v.source # "none"

\* A print is on one checklist.
ASSUME CollectionsAssumption ==
  /\ IsFiniteSet(TaggedCards) /\ IsFiniteSet(Colls) /\ Colls \subseteq Nat \ {0} /\ Status \subseteq Colls
  /\ \A c \in TaggedCards :
       /\ SetOf[c] \in Nat \cup {NoSet} /\ SectionOf[c] \in Nat /\ RankOf[SectionOf[c]] \in Nat
       /\ CopiesOf[c] \subseteq [qty : Nat, incoming : Nat]
       /\ PrintOf[c] # NoPrint =>
            SetOf[c] # NoSet /\ \A d \in TaggedCards : PrintOf[d] = PrintOf[c] => SetOf[d] = SetOf[c]
ASSUME FoldersAssumption == IsFiniteSet(FolderNames)

VARIABLES part, s1, s2, s3, s4, s5, s6, s7, s8
dailyvars == <<vars, part, s1, s2, s3, s4, s5, s6, s7, s8>>

-----------------------------------------------------------------------------
JO == INSTANCE DailyJobs WITH
       Cards <- JobCards, Jobs <- SnapshotJobs,
       qty <- s1, snap <- s2, run <- s3, log <- s4, did <- s5, counted <- s6, used <- s7, lost <- s8
SJ == INSTANCE DailyJobs WITH
       Cards <- JobCards, Jobs <- OtherJobs,
       qty <- s1, snap <- s2, run <- s3, log <- s4, did <- s5, counted <- s6, used <- s7, lost <- s8
PR == INSTANCE Prices WITH
       StaleAfter <- PriceStaleAfter, RetryAfter <- PriceRetryAfter, Old <- PriceOld,
       hasKey <- s1, row <- s2, market <- s3, tx <- s4, phase <- s5, clean <- s6
XR == INSTANCE ExchangeRates WITH Old <- RateOld, cache <- s1, left <- s2, known <- s3, table <- s4
HI == INSTANCE History WITH
       Cards <- HistoryCards, today <- s1, cards <- s2, snapshots <- s3, priced <- s4
CO == INSTANCE Collections WITH Cards <- TaggedCards, card <- s1
PF == INSTANCE PokemonFolders WITH Names <- FolderNames, alias <- s1, favorites <- s2, form <- s3, clean <- s4
LE == INSTANCE Ledger WITH
       Cards <- LedgerCards, Prices <- RowPrices, Days <- RowDays, MaxOrder <- LedgerOrders,
       tx <- s1, qty <- s2, edits <- s3, bounds <- s4

ASSUME OtherJobsAssumption == OtherJobs \cap {SJ!DexSync, SJ!PriceRefresh} = {}
ASSUME LedgerAssumption ==
  /\ IsFiniteSet(LedgerCards) /\ RowPrices \subseteq Nat /\ 0 \in RowPrices
  /\ IsFiniteSet(RowDays) /\ RowDays \subseteq Nat /\ RowDays # {} /\ LedgerOrders \in Nat
  /\ Untracked = [c \in LedgerCards |-> Untracked[c]]
  /\ \A c \in LedgerCards : Untracked[c] \in Nat /\ Market[c] \in Nat /\ KindsOf[c] \subseteq LE!Kinds
  /\ \A b \in Bounds :
       /\ b.rows \in Nat /\ b.ships \subseteq Nat
       /\ IsFiniteSet(b.fees) /\ b.fees \subseteq Nat /\ b.fees # {}

-----------------------------------------------------------------------------
NoJobs == s1 = 0 /\ s2 = 0 /\ s3 = 0 /\ s4 = 0 /\ s5 = 0 /\ s6 = 0 /\ s7 = 0 /\ s8 = 0

DailyInit ==
  /\ Init
  /\ \/ part = "dex sync" /\ NoJobs
     \/ part = "jobs" /\ JO!Init
     \/ part = "small jobs" /\ SJ!Init
     \/ part = "prices" /\ PR!Init /\ s7 = 0 /\ s8 = 0
     \/ part = "rates" /\ XR!Init /\ s5 = 0 /\ s6 = 0 /\ s7 = 0 /\ s8 = 0
     \/ part = "history" /\ HI!Init /\ s5 = 0 /\ s6 = 0 /\ s7 = 0 /\ s8 = 0
     \/ part = "collections" /\ CO!Init /\ s2 = 0 /\ s3 = 0 /\ s4 = 0 /\ s5 = 0 /\ s6 = 0 /\ s7 = 0 /\ s8 = 0
     \/ part = "folders" /\ PF!Init /\ s5 = 0 /\ s6 = 0 /\ s7 = 0 /\ s8 = 0
     \/ part = "ledger" /\ LE!Init /\ s5 = 0 /\ s6 = 0 /\ s7 = 0 /\ s8 = 0

OtherPart ==
  \/ part = "jobs" /\ JO!Next
  \/ part = "small jobs" /\ SJ!Next
  \/ part = "prices" /\ PR!Next /\ UNCHANGED <<s7, s8>>
  \/ part = "rates" /\ XR!Next /\ UNCHANGED <<s5, s6, s7, s8>>
  \/ part = "history" /\ HI!Next /\ UNCHANGED <<s5, s6, s7, s8>>
  \/ part = "collections" /\ CO!Next /\ UNCHANGED <<s2, s3, s4, s5, s6, s7, s8>>
  \/ part = "folders" /\ PF!Next /\ UNCHANGED <<s5, s6, s7, s8>>
  \/ part = "ledger" /\ LE!Next /\ UNCHANGED <<s5, s6, s7, s8>>

DailyNext ==
  \/ part = "dex sync" /\ Next /\ UNCHANGED <<part, s1, s2, s3, s4, s5, s6, s7, s8>>
  \/ OtherPart /\ UNCHANGED <<vars, part>>

DailySpec == DailyInit /\ [][DailyNext]_dailyvars

-----------------------------------------------------------------------------
(* The properties, each defined and explained in the part's module. *)

\* Every part's type invariant.
DailyTypeOK ==
  /\ part = "dex sync" => TypeOK
  /\ part = "jobs" => JO!TypeOK
  /\ part = "small jobs" => SJ!TypeOK
  /\ part = "prices" => PR!TypeOK
  /\ part = "rates" => XR!TypeOK
  /\ part = "history" => HI!TypeOK
  /\ part = "collections" => CO!TypeOK
  /\ part = "folders" => PF!TypeOK
  /\ part = "ledger" => LE!TypeOK

\* DailyJobs: a job does what its log says: "ok" means that every part of it was
\* committed, the PokeTrace runs that are logged on a day stay within the day's cap, and
\* the snapshot after a sync has the sync's quantities.
JobsDoAsLogged ==
  /\ [](/\ part = "jobs" => JO!OkMeansDone
        /\ part = "small jobs" => SJ!RecordedWithinCap)
  /\ [][part = "jobs" => JO!SnapshotIsPostSync]_dailyvars

\* Prices, ExchangeRates: a market price is the one the rule picks, at an observed rate
\* that is at most twice its TTL old; a card that had a price keeps one, and another
\* print's price does not come back.
PriceHolds ==
  /\ [](/\ part = "prices" => PR!MarketIsBest
        /\ part = "rates" => XR!UsableIsObserved /\ XR!LiveIsRecent)
  /\ [][part = "prices" => PR!StaysPriced /\ PR!NoOtherPrint]_dailyvars

\* History: the chart adds up: prices and cards are the period's change, its switches
\* are those of the cards' own pages, a price mover did not change its source, and a
\* snapshot changes nothing of what the live point said.
ChartAddsUp ==
  /\ [](part = "history" => HI!ChangeAddsUp /\ HI!SwitchesAgree /\ HI!MoversKeepTheirSource)
  /\ [][part = "history" => HI!LiveNoteHolds]_dailyvars

\* Collections, PokemonFolders: every group shows what is in it: Collections and Bulk
\* are the headline, the link of a set leads to a page that has its block, every owned
\* card of a collection is on its page, duplicates leave a copy of each print, no alias
\* takes more than one hop, and a favorite is the name of its folder.
GroupsAreComplete ==
  /\ part = "collections" => CO!CountedOnce /\ CO!HomeShowsItsSet /\ CO!NoCardLost /\ CO!LeavesACopy
  /\ part = "folders" => PF!OneHop /\ PF!FavoritesShow

\* Ledger: the books agree: net invested is the same by card, by month and in all and
\* charges each order's shipping once, what a sale brought in is the same on every page,
\* each disposal is costed against the oldest free copy, the orders' gains add up to the
\* headline's, and an order's stored fees to the fee that was typed (_split_order_fees()).
BooksAgree ==
  /\ [](part = "ledger" => /\ LE!InvestedAlike /\ LE!ShippingOnce /\ LE!SameOnEveryPage
                           /\ LE!OldestCopyFirst /\ LE!GainsAddUp)
  /\ [][part = "ledger" => LE!FeesAddUp]_dailyvars

\* Ledger: the copy a sale is costed against is not held any more (queries.py).
SoldIsNotHeld == part = "ledger" => LE!SoldIsNotHeld
=============================================================================
