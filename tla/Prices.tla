------------------------------- MODULE Prices -------------------------------
(***************************************************************************)
(* The market price of one card (pricing.py) and the transactions that     *)
(* feed it: the Dex sync's import, and the pokemontcg.io and TCGdex passes *)
(* of the price refresh.  The two jobs may run at the same time; each      *)
(* transaction resolves the price from the rows it sees, compares it with  *)
(* the card's and then commits, and sees what others commit in between.    *)
(* Dates are ages in days; from Old on they are not told apart, and no     *)
(* transaction spans midnight.                                             *)
(***************************************************************************)
EXTENDS Integers, Sequences

CONSTANTS
  FreshDays,  \* FRESH_DAYS
  StaleAfter, \* tcgdex_prices.STALE_AFTER_DAYS
  RetryAfter, \* RETRY_AFTER_DAYS, PRICE_RETRY_AFTER_DAYS
  Old         \* bound on ages, over FreshDays and RetryAfter

TP == "tcgdex_tcgplayer"
PK == "pokemontcg"
DEX == "dex"
CM == "tcgdex_cardmarket"
CHAIN == <<TP, PK, DEX, CM>>
Sources == {TP, PK, DEX, CM}
TcgplayerSources == {TP, PK}
None == "none"

VARIABLES
  hasKey, \* has TCGplayer a key for the card's print? (has_tcgplayer_print)
  row,    \* card_prices: [priced, age, failed] of each source, or NoRow
  market, \* the card's [source, age, stale]
  tx,     \* each job's open transaction, or NoTx
  phase,  \* of the price refresh
  clean   \* has the price been resolved since midnight, from rows nobody changed meanwhile?
vars == <<hasKey, row, market, tx, phase, clean>>

Jobs == {"dex-sync", "price-refresh"}
NoRow == [priced |-> FALSE, age |-> Old, failed |-> Old, exists |-> FALSE]
Row(priced, age, failed) == [priced |-> priced, age |-> age, failed |-> failed, exists |-> TRUE]
NoTx == [open |-> FALSE]
NoMarket == [source |-> None, age |-> Old, stale |-> FALSE]
Ages == 0..Old

\* Rows that are written, over those that are there
Over(new, rows) == [s \in DOMAIN new \cup DOMAIN rows |-> IF s \in DOMAIN new THEN new[s] ELSE rows[s]]
Only(s, r) == [t \in {s} |-> r]
NoRows == [t \in {} |-> NoRow]

TypeOK ==
  /\ hasKey \in BOOLEAN /\ clean \in BOOLEAN
  /\ row \in [Sources -> [priced : BOOLEAN, age : Ages, failed : Ages, exists : BOOLEAN]]
  /\ market \in [source : Sources \cup {None}, age : Ages, stale : BOOLEAN]
  /\ phase \in {"idle", "pokemontcg", "tcgdex", "tcgdex lookup", "resolve"}
  /\ \A s \in Sources : (row[s].priced \/ row[s].failed < Old) => row[s].exists

-----------------------------------------------------------------------------
(* resolve() *)

Fresh(r) == r.age <= FreshDays

Before(s, t) == \E i, j \in DOMAIN CHAIN : i < j /\ CHAIN[i] = s /\ CHAIN[j] = t
First(sources) == CHOOSE s \in sources : \A t \in sources \ {s} : Before(s, t)

Resolved(rows) ==
  LET priced == {s \in Sources : rows[s].priced}
      fresh  == {s \in priced : Fresh(rows[s])}
      newest == {s \in priced : \A t \in priced : rows[s].age <= rows[t].age}
      best   == First(IF fresh # {} THEN fresh ELSE newest)
  IN  IF priced = {} THEN NoMarket ELSE [source |-> best, age |-> rows[best].age, stale |-> fresh = {}]

\* backfill_from_legacy(): rows from the columns that came before card_prices
Init ==
  /\ hasKey \in BOOLEAN
  /\ \E dex \in {NoRow} \cup {Row(TRUE, a, Old) : a \in Ages},
        pk \in {NoRow} \cup {Row(TRUE, a, Old) : a \in Ages} \cup {Row(FALSE, Old, f) : f \in Ages} :
       row = [s \in Sources |-> IF s = DEX THEN dex ELSE IF s = PK THEN pk ELSE NoRow]
  /\ market = Resolved(row)
  /\ tx = [j \in Jobs |-> NoTx]
  /\ phase = "idle"
  /\ clean = TRUE

-----------------------------------------------------------------------------
(* Transactions *)

\* Mutant: only the rows are written, the price is not resolved.
BeginUnresolved(j, new) ==
  /\ ~tx[j].open
  /\ tx' = [tx EXCEPT ![j] = [open |-> TRUE, rows |-> new, market |-> market, compared |-> FALSE,
                             changed |-> FALSE, stale |-> FALSE]]

\* Rows are written (record_price, record_failure, bulk_record_prices, or a
\* deletion); resolve_cards() reads them with those that are committed.
Begin(j, new) ==
  /\ ~tx[j].open
  /\ tx' = [tx EXCEPT ![j] = [open |-> TRUE, rows |-> new, market |-> Resolved(Over(new, row)),
                             compared |-> FALSE, changed |-> FALSE, stale |-> FALSE]]

\* Its second SELECT: the card's price, which is written only if it is another.
Compare(j) ==
  /\ tx[j].open /\ ~tx[j].compared
  /\ tx' = [tx EXCEPT ![j].compared = TRUE, ![j].changed = (tx[j].market # market)]
  /\ UNCHANGED <<hasKey, row, market, phase, clean>>

Commit(j) ==
  /\ tx[j].open /\ tx[j].compared
  /\ row' = Over(tx[j].rows, row)
  /\ market' = IF tx[j].changed THEN tx[j].market ELSE market
  /\ clean' = ~tx[j].stale
  /\ tx' = [k \in Jobs |-> IF k = j THEN NoTx ELSE IF tx[k].open THEN [tx[k] EXCEPT !.stale = TRUE] ELSE NoTx]
  /\ UNCHANGED <<hasKey, phase>>

\* An error, or the function is killed: rolled back, the run is over.
Abandon(j) ==
  /\ tx[j].open
  /\ tx' = [tx EXCEPT ![j] = NoTx]
  /\ phase' = IF j = "price-refresh" THEN "idle" ELSE phase
  /\ UNCHANGED <<hasKey, row, market, clean>>

PricedToday(s) == Only(s, Row(TRUE, 0, Old))

\* Mutant: a lookup that found nothing clears the price.
FailedCleared(s) == Only(s, Row(FALSE, Old, 0))

\* Mutant: the row of a card's first failure is not added.
FailedUnsaved(s) == Only(s, [row[s] EXCEPT !.failed = 0])

\* record_failure(): the last price is kept
Failed(s) == Only(s, [row[s] EXCEPT !.failed = 0, !.exists = TRUE])

FailedIfKnown(s) == IF row[s].exists THEN Failed(s) ELSE NoRows

\* The import: the price cell of an export, dated by the export's day; a blank
\* cell keeps the last price.
ImportDex(written) ==
  /\ Begin("dex-sync", written)
  /\ UNCHANGED <<hasKey, row, market, phase, clean>>

\* resolve_all_prices(), which the Dex sync ends with too
ResolveAll(j) ==
  /\ j = "price-refresh" => phase = "resolve"
  /\ Begin(j, NoRows)
  /\ phase' = IF j = "price-refresh" THEN "idle" ELSE phase
  /\ UNCHANGED <<hasKey, row, market, clean>>

-----------------------------------------------------------------------------
(* The price refresh *)

\* drop_other_print_tcgplayer_rows(), the first step of both passes: no
\* resolving when there is no such row.
Doomed == ~hasKey /\ \E s \in TcgplayerSources : row[s].exists
Dropped == [s \in TcgplayerSources |-> NoRow]

StartPass(from, to) ==
  /\ phase = from /\ ~tx["price-refresh"].open
  /\ phase' = to
  /\ IF Doomed THEN Begin("price-refresh", Dropped) ELSE UNCHANGED tx
  /\ UNCHANGED <<hasKey, row, market, clean>>

Pass(from, to, new) ==
  /\ phase = from
  /\ phase' = to
  /\ Begin("price-refresh", new)
  /\ UNCHANGED <<hasKey, row, market, clean>>

\* Not due, a transient error, out of time, or no exchange rate: no writes.
SkipPass(from, to) ==
  /\ phase = from /\ ~tx["price-refresh"].open
  /\ phase' = to
  /\ UNCHANGED <<hasKey, row, market, tx, clean>>

\* price_refresh.due_filter(), _load_cards()
PokemontcgDue == hasKey /\ ~(row[PK].priced /\ row[PK].age = 0)
BackedOff == row[PK].exists /\ row[PK].failed <= RetryAfter
NoMatch == IF BackedOff THEN NoRows ELSE Failed(PK)

\* The answer for the stored ID; without one, a search, which backs off.
Pokemontcg ==
  /\ PokemontcgDue
  /\ \E found, priced \in BOOLEAN :
       Pass("pokemontcg", "tcgdex",
            IF priced /\ (found \/ ~BackedOff) THEN PricedToday(PK) ELSE NoMatch)

\* tcgdex_prices.due_filter()
TcgdexDue ==
  /\ \A s \in {CM, TP} : ~(row[s].priced /\ row[s].age <= StaleAfter)
  /\ ~(row[CM].failed <= RetryAfter /\ ~(row[TP].priced /\ row[TP].age <= row[CM].failed))

\* Mutant: choose_tcgplayer takes the first print when the card's has no key.
TcgplayerAnswersAny == BOOLEAN

\* choose_tcgplayer(): is there a price for the card's print?
TcgplayerAnswers == IF hasKey THEN BOOLEAN ELSE {FALSE}

\* lookup_card()
TcgdexNotFound == TcgdexDue /\ Pass("tcgdex lookup", "resolve", Over(Failed(CM), FailedIfKnown(TP)))

TcgdexFound ==
  /\ TcgdexDue
  /\ \E cm \in BOOLEAN, tp \in TcgplayerAnswers :
       Pass("tcgdex lookup", "resolve",
            Over(IF cm THEN PricedToday(CM) ELSE IF ~tp THEN Failed(CM) ELSE FailedIfKnown(CM),
                 IF tp THEN PricedToday(TP) ELSE FailedIfKnown(TP)))

Older(age) == IF age < Old THEN age + 1 ELSE Old

Midnight ==
  /\ \A j \in Jobs : ~tx[j].open
  /\ row' = [s \in Sources |-> [row[s] EXCEPT !.age = Older(@), !.failed = Older(@)]]
  /\ market' = [market EXCEPT !.age = Older(@)]
  /\ clean' = FALSE
  /\ UNCHANGED <<hasKey, tx, phase>>

Next ==
  \* An export is of today or old: in between, its price ages in the row.
  \/ ImportDex(NoRows) \/ \E age \in {0, Old} : ImportDex(Only(DEX, Row(TRUE, age, Old)))
  \/ \E j \in Jobs : ResolveAll(j) \/ Compare(j) \/ Commit(j) \/ Abandon(j)
  \/ StartPass("idle", "pokemontcg") \/ Pokemontcg \/ SkipPass("pokemontcg", "tcgdex")
  \/ StartPass("tcgdex", "tcgdex lookup") \/ TcgdexFound \/ TcgdexNotFound
  \/ SkipPass("tcgdex lookup", "resolve")
  \/ Midnight

Spec == Init /\ [][Next]_vars

-----------------------------------------------------------------------------
(* The rule of the module's docstring, whatever order the jobs commit in: the
   first source with a price fetched in the last FRESH_DAYS, else the newest
   one, marked stale; only a day that passed, or a commit between a job's
   resolving and its own commit, can leave another price until the next. *)
Best(s) ==
  LET shown(t) == row[t].priced /\ (row[s].age <= FreshDays => row[t].age <= FreshDays)
  IN  /\ row[s].priced
      /\ \A t \in {u \in Sources \ {s} : shown(u)} :
           IF row[s].age <= FreshDays THEN Before(s, t)
           ELSE row[t].age > row[s].age \/ (row[t].age = row[s].age /\ Before(s, t))
MarketIsBest ==
  clean => IF market.source = None THEN \A s \in Sources : ~row[s].priced
           ELSE /\ Best(market.source)
                /\ market.age = row[market.source].age
                /\ market.stale <=> market.age > FreshDays

(* "Keep the old price": no failed lookup takes a stored price, and no commit
   takes the price of a card that had one, unless it was another print's or
   the other job committed between a job's reading and its own commit. *)
StaysPriced ==
  /\ \A s \in Sources : row[s].priced => row'[s].priced \/ (s \in TcgplayerSources /\ ~hasKey)
  /\ market.source # None => market'.source # None \/ ~hasKey \/ ~clean'

(* Not kept (README, Remarks): the price a job's first commit gave a card is
   taken again by a job that read the rows before it and the card after it. *)
AlwaysStaysPriced ==
  market.source # None => market'.source # None \/ ~hasKey

(* A card whose print TCGplayer has no key for never gets another print's
   price (again) once a pass has dropped what was stored. *)
NoOtherPrint ==
  \A s \in TcgplayerSources : ~hasKey /\ ~row[s].exists => ~row'[s].exists
=============================================================================
