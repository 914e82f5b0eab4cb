------------------------------- MODULE History -------------------------------
(***************************************************************************)
(* The collection's value over time (queries.py): the snapshots a sync     *)
(* takes of every card, one set per date and per kind of run, and the four *)
(* reports that read them in four different ways: the value chart (a SQL   *)
(* sum per date and run), the split of its change into prices and cards (a *)
(* Python sum over the last snapshot of each card), the lines on cards     *)
(* whose price changed its source (window functions in SQL, and the same   *)
(* in Python for one card) and the price movers.                           *)
(*                                                                         *)
(* A price is a number, 0 where there is none.  A row's "from" is where    *)
(* its price really came from; no report reads it.                         *)
(***************************************************************************)
EXTENDS Counting, FiniteSetsExt

CONSTANTS
    Cards,
    ValuesOf,       \* card -> the [qty, price, source] it can have
    MaxDay,         \* bound: the last day
    MaxSnapshots    \* bound: the (date, run) pairs that have snapshots

Metrics == {"unique", "duplicates", "total"}
Runs == {"cron", "price-cron", "manual"}
None == "none"
Absent == [qty |-> 0, price |-> 0, source |-> "absent"]

VARIABLES
    today,
    cards,      \* card -> its value now, Absent when it is not in the table
    snapshots,  \* the rows of card_snapshots
    priced      \* the cards that have a price of pokemontcg.io

vars == <<today, cards, snapshots, priced>>

\* No run of today's comes after a run it does not know: a rank per run.
RunRank(run) == CASE run = "cron" -> 0 [] run = "price-cron" -> 1 [] run = "manual" -> 2

Known == {c \in Cards : cards[c] # Absent}
RowsOf(d) == {r \in snapshots : r.date = d}
Dates == {r.date : r \in snapshots}
Latest(rows) == CHOOSE r \in rows : \A q \in rows : RunRank(q.run) <= RunRank(r.run)
RowOf(c, d) == {r \in RowsOf(d) : r.card = c}

Total(f) == Sigma(f, DOMAIN f)

(* The chart: the sums of each date's last run, and today's live figure.   *)
LastRun(d) == Latest(RowsOf(d)).run
ClosingRows(d) == {r \in RowsOf(d) : r.run = LastRun(d)}

CountExpr(metric, qty) ==
    CASE metric = "unique" -> IF qty > 0 THEN 1 ELSE 0
      [] metric = "duplicates" -> IF qty > 1 THEN qty - 1 ELSE 0
      [] metric = "total" -> qty

DayValue(metric, rows) ==
    [value |-> Total([r \in rows |-> CountExpr(metric, r.qty) * r.price]),
     count |-> Total([r \in rows |-> CountExpr(metric, r.qty)])]

Live(metric) ==
    [value |-> Total([c \in Known |-> CountExpr(metric, cards[c].qty) * cards[c].price]),
     count |-> Total([c \in Known |-> CountExpr(metric, cards[c].qty)])]

RealValueHistory(metric, start) ==
    [d \in {x \in Dates \cup (IF snapshots = {} THEN {} ELSE {today}) : x >= start} |->
        IF d = today THEN Live(metric) ELSE DayValue(metric, ClosingRows(d))]

(* The split of the change: every card's own last row of the day.          *)
\* Mutant: the day's first row instead of its last.
SnapshotStateFirst(d) ==
    [c \in {r.card : r \in RowsOf(d)} |->
        CHOOSE r \in RowOf(c, d) : \A q \in RowOf(c, d) : RunRank(r.run) <= RunRank(q.run)]

SnapshotState(d) == [c \in {r.card : r \in RowsOf(d)} |-> Latest(RowOf(c, d))]

MetricCopies(metric, qty) ==
    CASE metric = "unique" -> IF qty > 0 THEN 1 ELSE 0
      [] metric = "duplicates" -> Max({qty - 1, 0})
      [] metric = "total" -> Max({qty, 0})

Breakdown(metric, first) ==
    LET before == SnapshotState(first)
        All == DOMAIN before \cup Known
        p0(c) == IF c \in DOMAIN before THEN before[c].price ELSE 0
        c0(c) == IF c \in DOMAIN before THEN MetricCopies(metric, before[c].qty) ELSE 0
        c1(c) == MetricCopies(metric, cards[c].qty)
    IN  [price |-> Total([c \in All |-> c0(c) * (cards[c].price - p0(c))]),
         cards |-> Total([c \in All |-> (c1(c) - c0(c)) * cards[c].price]),
         delta |-> Total([c \in All |-> c1(c) - c0(c)])]

PeriodChange(history) == history[today].value - history[Min(DOMAIN history)].value

(* Where a snapshot's price came from: rows written before price_source    *)
(* existed get a guess.                                                    *)
LegacySource(c) == IF c \in priced THEN "pokemontcg" ELSE "dex"

\* Mutant: an unpriced row gets a guessed source too.
EffectiveSourceAlways(r) == IF r.price_source # None THEN r.price_source ELSE LegacySource(r.card)

EffectiveSource(r) ==
    IF r.price_source # None THEN r.price_source
    ELSE IF r.price = 0 THEN None
    ELSE LegacySource(r.card)

Note(old, new) == old # None /\ new # None /\ old # new

(* LAG(src) OVER (PARTITION BY card ORDER BY date): the card's row before. *)
Previous(c, d) ==
    LET earlier == {x \in Dates : x < d /\ RowOf(c, x) # {}}
    IN  IF earlier = {} THEN None ELSE EffectiveSource(Latest(RowOf(c, Max(earlier))))

Switches(d) ==
    {c \in {r.card : r \in RowsOf(d)} : Note(Previous(c, d), EffectiveSource(Latest(RowOf(c, d))))}

(* The same on the card's own page: one pass over its days.                *)
CardPriceHistory(c) ==
    LET days == {d \in Dates : RowOf(c, d) # {}}
        source == [d \in days |->
            LET r == Latest(RowOf(c, d))
            IN  IF r.price_source = None /\ r.price # 0 THEN LegacySource(c) ELSE r.price_source]
        before(d) == Max({x \in days : x < d})
    IN  [d \in days |-> d # Min(days) /\ Note(source[before(d)], source[d])]

\* Mutant: today's cards against the first day of the period.
LiveSwitchesFirst ==
    LET d == Min(Dates)
    IN  {c \in Known : /\ RowOf(c, d) # {}
                       /\ LET r == Latest(RowOf(c, d))
                          IN  Note(EffectiveSource(r), cards[c].source)}

\* Today's cards against the last snapshot before today (history_source_notes).
LiveSwitches ==
    IF ~ \E d \in Dates : d < today THEN {}
    ELSE LET d == Max({x \in Dates : x < today})
         IN  {c \in Known : /\ RowOf(c, d) # {}
                            /\ LET r == Latest(RowOf(c, d))
                               IN  Note(EffectiveSource(r), cards[c].source)}

(* price_movers over a period that starts on "start".                      *)
Since(start) ==
    IF \E d \in Dates : d <= start THEN Max({d \in Dates : d <= start})
    ELSE Min({d \in Dates : d < today})

\* Mutant: what the row says, without the guess for old rows.
MoveSourceRecorded(r) == r.price_source

MoveSource(r) == IF r.price_source = None THEN LegacySource(r.card) ELSE r.price_source

PriceMovers(start) ==
    IF ~ \E d \in Dates : d < today \/ d <= start THEN {}
    ELSE LET before == SnapshotState(Since(start))
         IN  {c \in Known \cap DOMAIN before :
                /\ cards[c].qty > 0 /\ before[c].price > 0 /\ cards[c].price > 0
                /\ before[c].price # cards[c].price
                /\ ~ Note(MoveSource(before[c]), cards[c].source)}

-----------------------------------------------------------------------------
Row(c, d, run, v, known) ==
    [card |-> c, date |-> d, run |-> run, qty |-> v.qty, price |-> v.price,
     price_source |-> IF known THEN v.source ELSE None, from |-> v.source]

Values(c) == ValuesOf[c] \cup {Absent}
Tables == {t \in [Cards -> UNION {Values(c) : c \in Cards}] : \A c \in Cards : t[c] \in Values(c)}
Priced(t) == {c \in Cards : t[c].source = "pokemontcg"}

(* Day 0 was snapshotted, or not, before snapshots recorded their source:  *)
(* its prices were pokemontcg.io's where a card had one.                   *)
Init ==
    /\ today = 1
    /\ \E t \in Tables :
        /\ cards = t
        /\ priced = Priced(t)
        /\ snapshots \in {{}} \cup {{Row(c, 0, "cron", t[c], FALSE) : c \in {x \in Cards : t[x] # Absent}}}

\* An import or a price run changes the cards it likes; no lookup takes the
\* price of pokemontcg.io from a card.
Update(c) ==
    /\ \E v \in ValuesOf[c] :
        /\ cards' = [cards EXCEPT ![c] = v]
        /\ priced' = priced \cup (IF v.source = "pokemontcg" THEN {c} ELSE {})
    /\ UNCHANGED <<today, snapshots>>

\* drop_other_print_tcgplayer_rows() does, from a card of a print that
\* TCGplayer has no key for; the card gets the next source in CHAIN.
DropOtherPrint(c) ==
    /\ c \in priced
    /\ \E v \in ValuesOf[c] :
        /\ v.qty = cards[c].qty /\ v.source # "pokemontcg"
        /\ cards[c].source # "pokemontcg" => v = cards[c]
        /\ cards' = [cards EXCEPT ![c] = v]
    /\ priced' = priced \ {c}
    /\ UNCHANGED <<today, snapshots>>

(* One row per card, date and run: a second one of the day overwrites it.  *)
RecordSnapshot(run) ==
    LET new == {Row(c, today, run, cards[c], TRUE) : c \in Known}
        kept == {r \in snapshots : ~(r.date = today /\ r.run = run /\ cards[r.card] # Absent)}
    IN  /\ Cardinality({<<r.date, r.run>> : r \in snapshots \cup new}) <= MaxSnapshots
        /\ snapshots' = kept \cup new
        /\ UNCHANGED <<today, cards, priced>>

(* A card flagged missing is deleted with its snapshots and prices.        *)
DeleteCard(c) ==
    /\ c \in Known
    /\ cards' = [cards EXCEPT ![c] = Absent]
    /\ priced' = priced \ {c}
    /\ snapshots' = {r \in snapshots : r.card # c}
    /\ UNCHANGED today

Midnight ==
    /\ today < MaxDay
    /\ today' = today + 1
    /\ UNCHANGED <<cards, snapshots, priced>>

Next ==
    \/ \E c \in Cards : Update(c) \/ DropOtherPrint(c) \/ DeleteCard(c)
    \/ \E run \in Runs : RecordSnapshot(run)
    \/ Midnight

Spec == Init /\ [][Next]_vars

-----------------------------------------------------------------------------
TypeOK ==
    /\ today \in 1 .. MaxDay
    /\ cards \in Tables
    /\ priced \subseteq Cards
    /\ Priced(cards) \subseteq priced
    /\ \A r \in snapshots : r.card \in Known /\ r.date \in 0 .. today /\ r.run \in Runs
    /\ \A r, q \in snapshots : <<r.card, r.date, r.run>> = <<q.card, q.date, q.run>> => r = q

\* The day's last run has a row of every card the day has.
Complete(d) == {r.card : r \in ClosingRows(d)} = {r.card : r \in RowsOf(d)}

(* "price" and "cards" add up to the change the chart shows, and the count  *)
(* with them, for every metric and period ("which add up exactly to the     *)
(* period's change"), though the chart sums one run's rows in SQL and the   *)
(* split every card's own last row in Python -- on days whose last run has  *)
(* every card of the day.                                                   *)
ChangeAddsUp ==
    \A metric \in Metrics, start \in 0 .. today :
        LET history == RealValueHistory(metric, start)
        IN  Cardinality(DOMAIN history) >= 2 =>
                LET first == Min(DOMAIN history)
                    split == Breakdown(metric, first)
                IN  Complete(first) =>
                        /\ split.price + split.cards = PeriodChange(history)
                        /\ split.delta = history[today].count - history[first].count

(* Not kept (README, Remarks): the same without the exception, what the     *)
(* docstring says.                                                          *)
ChangeAlwaysAddsUp ==
    \A metric \in Metrics, start \in 0 .. today :
        LET history == RealValueHistory(metric, start)
        IN  Cardinality(DOMAIN history) >= 2 =>
                LET split == Breakdown(metric, Min(DOMAIN history))
                IN  split.price + split.cards = PeriodChange(history)

(* The chart's switches of a day are the cards whose own page shows a       *)
(* switch on that day: the window functions and the loop agree, with and    *)
(* without recorded sources, on days with several runs.                     *)
SwitchesAgree ==
    \A d \in Dates : Switches(d) = {c \in Cards : RowOf(c, d) # {} /\ CardPriceHistory(c)[d]}

(* A price mover's two prices come from one source (#210: a switch is not a *)
(* market move), whatever happened between -- save where the guess for an   *)
(* old row is wrong: a card pokemontcg.io priced since, or one whose price  *)
(* of pokemontcg.io was another print's and has been dropped since.         *)
MoversKeepTheirSource ==
    \A start \in 0 .. today : \A c \in PriceMovers(start) :
        LET r == SnapshotState(Since(start))[c]
        IN  \/ r.from = cards[c].source
            \/ /\ r.price_source = None
               /\ r.from = IF c \in priced THEN "dex" ELSE "pokemontcg"

(* Not kept (README, Remarks): the same without the exception, what         *)
(* _legacy_price_source()'s docstring says: "rather than a real source      *)
(* switch showing up as a price move".                                      *)
NoSwitchIsAMove ==
    \A start \in 0 .. today : \A c \in PriceMovers(start) :
        SnapshotState(Since(start))[c].from = cards[c].source

(* What the live point of today says of switches is what it says once       *)
(* today's first snapshot is taken of the same cards: nothing appears or    *)
(* goes because a run came by.                                              *)
LiveNoteHolds ==
    (/\ RowsOf(today) = {} /\ today' = today /\ cards' = cards
     /\ RowsOf(today)' # {})
    => Switches(today)' = LiveSwitches
=============================================================================
