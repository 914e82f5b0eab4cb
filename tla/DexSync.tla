------------------------------- MODULE DexSync -------------------------------
(***************************************************************************)
(* The Dex sync up to its commit (jobs.run_dex_sync, importer.py): reading *)
(* the exports in the Dropbox folder, the circuit breaker and its          *)
(* override, and the import.  JobLocks models what keeps it from running   *)
(* twice, DailyJobs what a run does after the import.                      *)
(***************************************************************************)
EXTENDS Integers, Sequences, FiniteSetsExt

CONSTANTS
  Cards,         \* (Id, Variant) keys
  Folders,       \* what the user may have put in the Dropbox folder: sequences of
                 \* files [cat, day, rows]; rows is a function from cards to Nat
  AutoBinder,    \* constants.AUTO_BINDER_RULES: a sequence of [colls, binder]
  AbortOneIn,    \* 1 / MISSING_ABORT_FRACTION
  AbortMinCards, \* MISSING_ABORT_MIN_CARDS
  MaxDay         \* bound on days

MyCollection == "My Collection"
Incoming == "Incoming"
BinderCategories == {"Illustrator Binder", "Vintage Binder", "151 Binder", "Tradebinder"}
ExcludedCategories == {"Wishlist"}
None == "none"

\* Every category and every binder there is
Names ==
  BinderCategories
    \cup (UNION {{files[f].cat : f \in DOMAIN files} : files \in Folders})
    \cup {AutoBinder[i].binder : i \in DOMAIN AutoBinder}

ASSUME DexSyncAssumption ==
  /\ IsFiniteSet(Cards)
  /\ \A files \in Folders : files \in Seq({files[f] : f \in DOMAIN files})
  /\ \A files \in Folders : \A f \in DOMAIN files :
       /\ files[f].day \in 0..MaxDay
       /\ files[f].rows \in [DOMAIN files[f].rows -> Nat] /\ DOMAIN files[f].rows \subseteq Cards
  /\ AutoBinder \in Seq({AutoBinder[i] : i \in DOMAIN AutoBinder})
  /\ None \notin Names
  /\ AbortOneIn \in Nat /\ AbortMinCards \in Nat /\ MaxDay \in Nat \ {0}

VARIABLES
  card,   \* [known, qty, flagged, transit, since, binder, colls] of each key
  today,
  run,    \* the sync that is running, or Idle
  offer,  \* the count the override form shows, 0 for none
  last    \* what the last import of My Collection read: [mine, incoming, late],
          \* `late` if Incoming was the older file
vars == <<card, today, run, offer, last>>

Idle == [trigger |-> None]
NoCard == [known |-> FALSE, qty |-> 0, flagged |-> FALSE, transit |-> 0, since |-> 0,
           binder |-> None, colls |-> {}]

Known == {c \in Cards : card[c].known}

Numbers == 0..Cardinality(Cards)

TypeOK ==
  /\ card \in [Cards -> [known : BOOLEAN, qty : Nat, flagged : BOOLEAN, transit : Nat,
                        since : Nat, binder : Names \cup {None}, colls : SUBSET Names]]
  /\ \A c \in Cards : /\ card[c].transit <= card[c].qty /\ card[c].since <= today
                      /\ card[c].since > 0 <=> card[c].transit > 0
                      /\ ~card[c].known => card[c] = NoCard
  /\ today \in 1..MaxDay /\ offer \in Numbers
  /\ run \in {Idle} \cup [files : Folders, trigger : {"cron", "manual"}, expected : Numbers]
  /\ last \in [mine : SUBSET Cards, incoming : SUBSET Cards, late : BOOLEAN]

Init ==
  /\ card = [c \in Cards |-> NoCard]
  /\ today = 1
  /\ run = Idle
  /\ offer = 0
  /\ last = [mine |-> {}, incoming |-> {}, late |-> FALSE]

-----------------------------------------------------------------------------
(* Reading the files *)

\* An empty file has no rows, so no category.
Categories(files) == {files[f].cat : f \in {g \in DOMAIN files : files[g].rows # <<>>}}
FilesOf(files, cat) == {f \in DOMAIN files : files[f].cat = cat /\ files[f].rows # <<>>}

\* _pick_category_files(): the newest file, the first listed on a tie
Picked(files, cat) ==
  LET newest == {f \in FilesOf(files, cat) : \A g \in FilesOf(files, cat) : files[f].day >= files[g].day}
  IN  files[Min(newest)]

Rows(files, cat) == IF cat \in Categories(files) THEN Picked(files, cat).rows ELSE <<>>

\* Where the first row of a category is read
First(files, cat) == Min(FilesOf(files, cat))

-----------------------------------------------------------------------------
(* The circuit breaker *)

NewlyMissing(mine) == {c \in Known : ~card[c].flagged /\ c \notin DOMAIN mine}
OverLimit(n) == n * AbortOneIn > Cardinality(Known) /\ n > AbortMinCards

\* Mutant: the override skips the check, whatever count was confirmed.
TripsUncapped(mine, expected) == OverLimit(Cardinality(NewlyMissing(mine))) /\ expected = 0

\* _check_circuit_breaker(), check 2; expected is 0 without the override
Trips(mine, expected) ==
  LET n == Cardinality(NewlyMissing(mine))
  IN  mine # <<>> /\ OverLimit(n) /\ n > expected

\* check 1: no My Collection rows, and a file with no rows at all
Untrusted(files) == Rows(files, MyCollection) = <<>> /\ \E f \in DOMAIN files : files[f].rows = <<>>

-----------------------------------------------------------------------------
(* The import, as functions of the cards *)

\* Mutant: a card that is back keeps its flag.
CollectedFlagged(cards, mine) ==
  [c \in Cards |->
    IF c \in DOMAIN mine /\ (cards[c].known \/ mine[c] > 0)
    THEN [cards[c] EXCEPT !.known = TRUE, !.qty = mine[c]]
    ELSE [cards[c] EXCEPT !.flagged = cards[c].known]]

\* My Collection: rows with quantity 0 never create a card, and a known card
\* without a row is flagged, never deleted.
Collected(cards, mine) ==
  [c \in Cards |->
    IF c \in DOMAIN mine /\ (cards[c].known \/ mine[c] > 0)
    THEN [cards[c] EXCEPT !.known = TRUE, !.qty = mine[c], !.flagged = FALSE]
    ELSE [cards[c] EXCEPT !.flagged = cards[c].known]]

\* Mutant: an Incoming export counts however old it is.
UsableAlways(files) == Incoming \in Categories(files)

\* Incoming counts unless it is older than My Collection.
Usable(files) ==
  /\ Incoming \in Categories(files)
  /\ Picked(files, Incoming).day >= Picked(files, MyCollection).day

\* _apply_in_transit()
OnTheWay(cards, files) ==
  LET rows == IF Usable(files) THEN Rows(files, Incoming) ELSE <<>>
      qty(c) == IF c \in DOMAIN rows /\ cards[c].known THEN Min({rows[c], cards[c].qty}) ELSE 0
  IN  [c \in Cards |-> [cards[c] EXCEPT
        !.transit = qty(c),
        !.since   = IF qty(c) = 0 THEN 0 ELSE IF @ = 0 THEN today ELSE @]]

\* A binder's export replaces its members; the last one read wins.
BinderOf(cards, files, c) ==
  LET listing == {cat \in BinderCategories : cards[c].known /\ c \in DOMAIN Rows(files, cat)}
  IN  IF listing # {} THEN files[Max({First(files, cat) : cat \in listing})].cat
      ELSE IF cards[c].binder \in BinderCategories \cap Categories(files) THEN None
      ELSE cards[c].binder

\* Any other category's export replaces the members of its collection.
CollsOf(cards, files, c) ==
  LET collections == Categories(files) \ ({MyCollection, Incoming} \cup ExcludedCategories \cup BinderCategories)
  IN  (cards[c].colls \ collections)
        \cup {cat \in collections : cards[c].known /\ c \in DOMAIN Rows(files, cat)}

Tagged(cards, files) ==
  [c \in Cards |-> [cards[c] EXCEPT !.binder = BinderOf(cards, files, c), !.colls = CollsOf(cards, files, c)]]

\* The rules that say where a card in these collections lies
Rules(colls) == {i \in DOMAIN AutoBinder : AutoBinder[i].colls \cap colls # {}}

\* Mutant: a collection's binder wins over the one a card is in.
BinderedAlways(cards) ==
  [c \in Cards |->
    IF Rules(cards[c].colls) # {}
    THEN [cards[c] EXCEPT !.binder = AutoBinder[Min(Rules(cards[c].colls))].binder]
    ELSE cards[c]]

\* _apply_auto_binder_rules(): only cards with no binder
Bindered(cards) ==
  [c \in Cards |->
    IF cards[c].binder = None /\ Rules(cards[c].colls) # {}
    THEN [cards[c] EXCEPT !.binder = AutoBinder[Min(Rules(cards[c].colls))].binder]
    ELSE cards[c]]

Inventory(files) ==
  LET mine == Rows(files, MyCollection)
  IN  IF mine = <<>> THEN card ELSE OnTheWay(Collected(card, mine), files)

Imported(files) == Bindered(Tagged(Inventory(files), files))

-----------------------------------------------------------------------------
(* A run of the Dex sync *)

\* dropbox_client: the folder is listed and its files downloaded.  `expected`
\* is the count confirmed in the override form, 0 without it.
Download(trigger, expected) ==
  /\ run = Idle
  /\ \E files \in Folders : run' = [files |-> files, trigger |-> trigger, expected |-> expected]
  /\ UNCHANGED <<card, today, offer, last>>

\* run_now_dex_sync_override()
Override ==
  /\ offer > 0
  /\ Download("manual", offer)

Mine == Rows(run.files, MyCollection)

\* ImportAborted: rolled back; the answer to a manual run offers the override.
Abort ==
  /\ run # Idle /\ run.files # <<>>
  /\ Untrusted(run.files) \/ Trips(Mine, run.expected)
  /\ offer' = IF run.trigger = "cron" THEN offer
              ELSE IF Untrusted(run.files) THEN 0 ELSE Cardinality(NewlyMissing(Mine))
  /\ run' = Idle
  /\ UNCHANGED <<card, today, last>>

\* import_dex_csv_files(), one transaction; an empty folder imports nothing.
Import ==
  /\ run # Idle
  /\ run.files # <<>> => ~Untrusted(run.files) /\ ~Trips(Mine, run.expected)
  /\ card' = IF run.files = <<>> THEN card ELSE Imported(run.files)
  /\ last' = IF Mine = <<>> THEN last
             ELSE [mine     |-> DOMAIN Mine,
                   incoming |-> DOMAIN Rows(run.files, Incoming),
                   late     |-> /\ Incoming \in Categories(run.files)
                                /\ Picked(run.files, Incoming).day < Picked(run.files, MyCollection).day]
  /\ offer' = IF run.trigger = "cron" THEN offer ELSE 0
  /\ run' = Idle
  /\ UNCHANGED today

\* A Dropbox error, or any other: rolled back.
Fail ==
  /\ run # Idle
  /\ run' = Idle
  /\ UNCHANGED <<card, today, offer, last>>

\* missing_cards.delete_missing_card(), for a card with no orders or ads
DeleteMissing(c) ==
  /\ card[c].flagged
  /\ card' = [card EXCEPT ![c] = NoCard]
  /\ UNCHANGED <<today, run, offer, last>>

Midnight ==
  /\ today < MaxDay
  /\ today' = today + 1
  /\ UNCHANGED <<card, run, offer, last>>

Sync == (\E t \in {"cron", "manual"} : Download(t, 0)) \/ Override \/ Abort \/ Import \/ Fail

Next == Sync \/ (\E c \in Cards : DeleteMissing(c)) \/ Midnight

Spec == Init /\ [][Next]_vars

-----------------------------------------------------------------------------
(* "A truncated export must not mark most of the collection as missing": a
   sync flags more cards than the limit only when a user confirmed at least
   as many in the override form. *)
NoMassFlagging ==
  LET flagged == {c \in Known : ~card[c].flagged /\ card'[c].flagged}
  IN  OverLimit(Cardinality(flagged)) =>
        run.trigger = "manual" /\ Cardinality(flagged) <= run.expected

(* A card is flagged exactly while the last My Collection export that was
   imported has no row for it, whatever is deleted and however often it is
   gone and back. *)
FlaggedIsMissing ==
  \A c \in Known : card[c].flagged <=> c \notin last.mine

(* A stale "on the way" would hide a card from selling: only cards of the
   Incoming export read with the last My Collection are on the way, and none
   when that export was the older one or is gone. *)
OnTheWayIsExported ==
  \A c \in Cards : card[c].transit > 0 => c \in last.incoming /\ ~last.late

(* An export that puts a card in a binder wins; a card with none gets the one
   its collection implies. *)
BindersAsExported ==
  Import =>
    LET files == run.files
        listed(c) == {cat \in BinderCategories : c \in DOMAIN Rows(files, cat)}
    IN  \A c \in {k \in Cards : card'[k].known} :
          IF listed(c) # {} THEN card'[c].binder \in listed(c)
          ELSE Rules(card'[c].colls) # {} => card'[c].binder # None

(* The collection says what the exports say: the four properties above. *)
FollowsTheExport ==
  /\ [](FlaggedIsMissing /\ OnTheWayIsExported)
  /\ [][BindersAsExported /\ NoMassFlagging]_vars
=============================================================================
