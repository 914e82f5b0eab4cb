---------------------------- MODULE DailyProofs ----------------------------
(***************************************************************************)
(* Proofs about the parts that Daily puts together, one section to each:   *)
(* DexSync, DailyJobs, Prices, ExchangeRates, History, Collections,        *)
(* PokemonFolders and Ledger.  Each property of Daily holds for any cards, *)
(* exports, prices, days, folders and rows; each rests on an invariant of  *)
(* the part's own, which the part's steps keep.                            *)
(***************************************************************************)
EXTENDS Daily, CountingProofs

-----------------------------------------------------------------------------
(* The exports *)

LEMMA MinMax ==
  ASSUME NEW n \in Nat, NEW S \in SUBSET (0..n), S # {}
  PROVE  /\ Max(S) \in S /\ \A x \in S : Max(S) >= x
         /\ Min(S) \in S /\ \A x \in S : Min(S) <= x
BY Extremes DEF Max, Min

\* What Names names
LEMMA NamesOf ==
  /\ BinderCategories \subseteq Names /\ None \notin Names
  /\ \A files \in Folders : \A f \in DOMAIN files : files[f].cat \in Names
  /\ \A i \in DOMAIN AutoBinder : AutoBinder[i].binder \in Names
<1> DEFINE cats == UNION {{files[f].cat : f \in DOMAIN files} : files \in Folders}
           binders == {AutoBinder[i].binder : i \in DOMAIN AutoBinder}
<1>1. Names = BinderCategories \cup cats \cup binders
  BY Zenon DEF Names
<1>2. ASSUME NEW files \in Folders, NEW f \in DOMAIN files PROVE files[f].cat \in cats
  <2>1. files[f].cat \in {files[g].cat : g \in DOMAIN files}
    OBVIOUS
  <2>2. {files[g].cat : g \in DOMAIN files} \in {{h[g].cat : g \in DOMAIN h} : h \in Folders}
    OBVIOUS
  <2> QED BY <2>1, <2>2
<1>3. \A i \in DOMAIN AutoBinder : AutoBinder[i].binder \in binders
  OBVIOUS
<1> HIDE DEF cats, binders
<1> QED BY <1>1, <1>2, <1>3, DexSyncAssumption

LEMMA FilesAre ==
  ASSUME NEW files \in Folders
  PROVE  /\ Len(files) \in Nat /\ DOMAIN files = 1..Len(files)
         /\ \A f \in DOMAIN files :
              /\ files[f].cat \in Names /\ files[f].day \in 0..MaxDay
              /\ files[f].rows \in [DOMAIN files[f].rows -> Nat] /\ DOMAIN files[f].rows \subseteq Cards
<1>1. files \in Seq({files[f] : f \in DOMAIN files})
  BY DexSyncAssumption
<1> QED BY <1>1, NamesOf, DexSyncAssumption

\* Of a category that has rows the newest file is read.
LEMMA PickedOf ==
  ASSUME NEW files \in Folders, NEW cat \in Categories(files)
  PROVE  \E f \in FilesOf(files, cat) : Picked(files, cat) = files[f]
<1> DEFINE of == FilesOf(files, cat)
           days == {files[f].day : f \in of}
           newest == {f \in of : \A g \in of : files[f].day >= files[g].day}
<1>1. of # {} /\ of \subseteq DOMAIN files /\ \A f \in of : files[f].day \in 0..MaxDay
  BY FilesAre DEF FilesOf, Categories
<1>2. days \in SUBSET (0..MaxDay) /\ days # {} /\ MaxDay \in Nat
  BY <1>1, DexSyncAssumption
<1>3. PICK day \in days : \A d \in days : day >= d
  <2> HIDE DEF days
  <2> QED BY <1>2, Extremes
<1>4. PICK f \in of : files[f].day = day
  OBVIOUS
<1>5. newest # {} /\ newest \subseteq of
  BY <1>3, <1>4
<1>6. newest \in SUBSET (0..Len(files)) /\ Len(files) \in Nat
  BY <1>1, <1>5, FilesAre
<1>7. Min(newest) \in newest
  <2> HIDE DEF newest
  <2> QED BY <1>5, <1>6, MinMax
<1> QED BY <1>5, <1>7 DEF Picked

LEMMA RowsOf ==
  ASSUME NEW files \in Folders, NEW cat
  PROVE  /\ DOMAIN Rows(files, cat) \subseteq Cards
         /\ \A c \in DOMAIN Rows(files, cat) : Rows(files, cat)[c] \in Nat
         /\ cat \notin Categories(files) => Rows(files, cat) = <<>>
         /\ cat \in Categories(files) => Rows(files, cat) # <<>>
         /\ DOMAIN Rows(files, cat) # {} => cat \in Categories(files)
<1>1. DOMAIN <<>> = {}
  OBVIOUS
<1>2. CASE cat \in Categories(files)
  <2>1. PICK f \in FilesOf(files, cat) : Picked(files, cat) = files[f]
    BY <1>2, PickedOf
  <2>2. f \in DOMAIN files /\ files[f].rows # <<>> /\ Rows(files, cat) = files[f].rows
    BY <1>2, <2>1 DEF FilesOf, Rows
  <2> QED BY <1>2, <2>2, FilesAre
<1>3. CASE cat \notin Categories(files)
  BY <1>1, <1>3 DEF Rows
<1> QED BY <1>2, <1>3

\* The binder read last is one of those that list the card.
LEMMA LastBinder ==
  ASSUME NEW files \in Folders, NEW listing \in SUBSET Categories(files), listing # {}
  PROVE  files[Max({First(files, cat) : cat \in listing})].cat \in listing
<1> DEFINE firsts == {First(files, cat) : cat \in listing}
<1>1. ASSUME NEW cat \in listing
      PROVE  First(files, cat) \in DOMAIN files /\ files[First(files, cat)].cat = cat
  <2> DEFINE of == FilesOf(files, cat)
  <2>1. of # {} /\ of \in SUBSET (0..Len(files)) /\ Len(files) \in Nat
    BY FilesAre DEF FilesOf, Categories
  <2>2. Min(of) \in of
    <3> HIDE DEF of
    <3> QED BY <2>1, MinMax
  <2> QED BY <2>2 DEF First, FilesOf
<1>2. firsts \in SUBSET (0..Len(files)) /\ firsts # {} /\ Len(files) \in Nat
  BY <1>1, FilesAre
<1>3. Max(firsts) \in firsts
  <2> HIDE DEF firsts
  <2> QED BY <1>2, MinMax
<1>4. PICK cat \in listing : Max(firsts) = First(files, cat)
  BY <1>3
<1> QED BY <1>1, <1>4

LEMMA RuleOf ==
  ASSUME NEW colls, Rules(colls) # {}
  PROVE  AutoBinder[Min(Rules(colls))].binder \in Names
<1>1. Rules(colls) \in SUBSET (0..Len(AutoBinder)) /\ Len(AutoBinder) \in Nat
  BY DexSyncAssumption DEF Rules
<1>2. Min(Rules(colls)) \in Rules(colls)
  <2> HIDE DEF Rules
  <2> QED BY <1>1, MinMax
<1> QED BY <1>2, NamesOf DEF Rules

-----------------------------------------------------------------------------
(* The import *)

Row == [known : BOOLEAN, qty : Nat, flagged : BOOLEAN, transit : Nat, since : Nat,
        binder : Names \cup {None}, colls : SUBSET Names]

\* The parts of the type invariant that are about cards, for any cards.
Sound(cards) ==
  /\ cards \in [Cards -> Row]
  /\ \A c \in Cards : /\ cards[c].transit <= cards[c].qty /\ cards[c].since <= today
                      /\ cards[c].since > 0 <=> cards[c].transit > 0
                      /\ ~cards[c].known => cards[c] = NoCard

LEMMA MinOf ==
  ASSUME NEW m \in Nat, NEW n \in Nat
  PROVE  Min({m, n}) \in Nat /\ Min({m, n}) <= m /\ Min({m, n}) <= n
<1>1. {m, n} \in SUBSET (0..(m + n)) /\ m + n \in Nat /\ {m, n} # {}
  OBVIOUS
<1>2. Min({m, n}) \in {m, n} /\ \A x \in {m, n} : Min({m, n}) <= x
  BY <1>1, MinMax
<1> QED BY <1>2

\* A known card is flagged unless it has a row; one gets known by a row with copies.
LEMMA CollectedOf ==
  ASSUME NEW cards, cards \in [Cards -> Row], NEW files \in Folders, NEW c \in Cards
  PROVE  LET mine == Rows(files, MyCollection)
             new == Collected(cards, mine)[c]
         IN  /\ new \in Row
             /\ new.known <=> cards[c].known \/ (c \in DOMAIN mine /\ mine[c] > 0)
             /\ new.flagged <=> cards[c].known /\ c \notin DOMAIN mine
             /\ new.transit = cards[c].transit /\ new.since = cards[c].since
             /\ new.binder = cards[c].binder /\ new.colls = cards[c].colls
             /\ ~new.known => new.qty = cards[c].qty
<1> DEFINE mine == Rows(files, MyCollection)
           new == Collected(cards, mine)[c]
<1>1. cards[c] \in Row /\ (c \in DOMAIN mine => mine[c] \in Nat)
  BY RowsOf
<1>2. CASE c \in DOMAIN mine /\ (cards[c].known \/ mine[c] > 0)
  <2>1. new = [cards[c] EXCEPT !.known = TRUE, !.qty = mine[c], !.flagged = FALSE]
    BY <1>2 DEF Collected
  <2> HIDE DEF new, mine
  <2>2. new \in Row /\ new.known /\ ~new.flagged
    BY <1>1, <1>2, <2>1 DEF Row
  <2>3. /\ new.transit = cards[c].transit /\ new.since = cards[c].since
        /\ new.binder = cards[c].binder /\ new.colls = cards[c].colls
    BY <1>1, <2>1 DEF Row
  <2> QED BY <1>2, <2>2, <2>3 DEF new, mine
<1>3. CASE ~(c \in DOMAIN mine /\ (cards[c].known \/ mine[c] > 0))
  <2>1. new = [cards[c] EXCEPT !.flagged = cards[c].known]
    BY <1>3 DEF Collected
  <2> HIDE DEF new, mine
  <2>2. new \in Row /\ new.known = cards[c].known /\ new.flagged = cards[c].known
    BY <1>1, <2>1 DEF Row
  <2>3. /\ new.transit = cards[c].transit /\ new.since = cards[c].since
        /\ new.binder = cards[c].binder /\ new.colls = cards[c].colls /\ new.qty = cards[c].qty
    BY <1>1, <2>1 DEF Row
  <2>4. c \in DOMAIN mine => ~cards[c].known
    BY <1>3
  <2> QED BY <1>3, <2>2, <2>3, <2>4 DEF new, mine
<1> QED BY <1>2, <1>3

\* What is on the way is in the Incoming export, and that export is not the older one.
LEMMA OnTheWayOf ==
  ASSUME NEW cards, NEW files \in Folders, NEW c \in Cards, cards[c] \in Row,
         cards[c].since <= today, today \in Nat \ {0}
  PROVE  LET new == OnTheWay(cards, files)[c]
         IN  /\ new \in Row
             /\ new.known = cards[c].known /\ new.flagged = cards[c].flagged /\ new.qty = cards[c].qty
             /\ new.binder = cards[c].binder /\ new.colls = cards[c].colls
             /\ new.transit <= new.qty /\ new.since <= today
             /\ new.since > 0 <=> new.transit > 0
             /\ new.transit > 0 => cards[c].known /\ Usable(files) /\ c \in DOMAIN Rows(files, Incoming)
<1> DEFINE rows == IF Usable(files) THEN Rows(files, Incoming) ELSE <<>>
           qty == IF c \in DOMAIN rows /\ cards[c].known THEN Min({rows[c], cards[c].qty}) ELSE 0
           since == IF qty = 0 THEN 0 ELSE IF cards[c].since = 0 THEN today ELSE cards[c].since
           new == OnTheWay(cards, files)[c]
<1>1. c \in DOMAIN rows => rows[c] \in Nat /\ Usable(files) /\ c \in DOMAIN Rows(files, Incoming)
  BY RowsOf
<1>2. cards[c].qty \in Nat /\ cards[c].since \in Nat
  BY DEF Row
<1>3. qty \in Nat /\ qty <= cards[c].qty
  <2> HIDE DEF rows
  <2> QED BY <1>1, <1>2, MinOf
<1>4. qty > 0 => cards[c].known /\ Usable(files) /\ c \in DOMAIN Rows(files, Incoming)
  BY <1>1
<1>5. new = [cards[c] EXCEPT !.transit = qty, !.since = since]
  BY DEF OnTheWay
<1> HIDE DEF qty, rows
<1>6. since \in Nat /\ since <= today /\ (since > 0 <=> qty > 0)
  BY <1>2, <1>3
<1> HIDE DEF new, since
<1>7. /\ new \in Row /\ new.transit = qty /\ new.since = since /\ new.qty = cards[c].qty
      /\ new.known = cards[c].known /\ new.flagged = cards[c].flagged
      /\ new.binder = cards[c].binder /\ new.colls = cards[c].colls
  BY <1>3, <1>5, <1>6 DEF Row
<1> QED BY <1>3, <1>4, <1>6, <1>7 DEF new

\* Every card of the inventory after the import of My Collection
LEMMA InventoryOf ==
  ASSUME TypeOK, NEW files \in Folders, NEW c \in Cards
  PROVE  LET mine == Rows(files, MyCollection)
             new == Inventory(files)[c]
         IN  /\ new \in Row
             /\ new.transit <= new.qty /\ new.since <= today
             /\ new.since > 0 <=> new.transit > 0
             /\ ~new.known => new = NoCard
             /\ new.binder = card[c].binder /\ new.colls = card[c].colls
             /\ mine = <<>> => new = card[c]
             /\ mine # <<>> =>
                  /\ new.flagged <=> card[c].known /\ c \notin DOMAIN mine
                  /\ new.known <=> card[c].known \/ (c \in DOMAIN mine /\ mine[c] > 0)
                  /\ new.transit > 0 => Usable(files) /\ c \in DOMAIN Rows(files, Incoming)
<1> DEFINE mine == Rows(files, MyCollection)
           new == Inventory(files)[c]
           old == Collected(card, mine)[c]
<1>1. card \in [Cards -> Row] /\ card[c] \in Row /\ today \in Nat \ {0}
  BY DexSyncAssumption DEF TypeOK, Row
<1>2. card[c].transit <= card[c].qty /\ card[c].since <= today /\ (card[c].since > 0 <=> card[c].transit > 0)
  BY DEF TypeOK
<1>3. ~card[c].known => card[c] = NoCard
  BY DEF TypeOK
<1>4. CASE mine = <<>>
  <2>1. new = card[c]
    BY <1>4 DEF Inventory
  <2> QED BY <1>1, <1>2, <1>3, <1>4, <2>1
<1>5. CASE mine # <<>>
  <2>1. new = OnTheWay(Collected(card, mine), files)[c]
    BY <1>5 DEF Inventory
  <2>2. /\ old \in Row
        /\ old.known <=> card[c].known \/ (c \in DOMAIN mine /\ mine[c] > 0)
        /\ old.flagged <=> card[c].known /\ c \notin DOMAIN mine
        /\ old.transit = card[c].transit /\ old.since = card[c].since
        /\ old.binder = card[c].binder /\ old.colls = card[c].colls
        /\ ~old.known => old.qty = card[c].qty
    BY <1>1, CollectedOf
  <2>3. old.since <= today
    BY <1>2, <2>2
  <2>4. /\ new \in Row
        /\ new.known = old.known /\ new.flagged = old.flagged /\ new.qty = old.qty
        /\ new.binder = old.binder /\ new.colls = old.colls
        /\ new.transit <= new.qty /\ new.since <= today
        /\ new.since > 0 <=> new.transit > 0
        /\ new.transit > 0 => old.known /\ Usable(files) /\ c \in DOMAIN Rows(files, Incoming)
    BY <1>1, <2>1, <2>2, <2>3, OnTheWayOf
  <2> HIDE DEF new, old, mine
  <2>5. ASSUME ~new.known PROVE new = NoCard
    <3>1. ~old.known /\ ~card[c].known /\ card[c] = NoCard
      BY <2>2, <2>4, <2>5, <1>3
    <3>2. /\ new.known = FALSE /\ new.flagged = FALSE /\ new.qty = 0 /\ new.binder = None /\ new.colls = {}
      BY <2>2, <2>4, <2>5, <3>1 DEF NoCard, Row
    <3>3. new.transit = 0 /\ new.since = 0
      BY <2>4, <3>1 DEF Row
    <3> QED BY <2>4, <3>2, <3>3 DEF NoCard, Row
  <2> QED BY <1>5, <2>2, <2>4, <2>5 DEF new, mine
<1> QED BY <1>4, <1>5

Listed(files, c) == {cat \in BinderCategories : c \in DOMAIN Rows(files, cat)}

\* A known card's binder is one that lists it, if any does.
LEMMA BinderIs ==
  ASSUME NEW cards, NEW files \in Folders, NEW c \in Cards, cards[c] \in Row
  PROVE  /\ BinderOf(cards, files, c) \in Names \cup {None}
         /\ cards[c].known /\ Listed(files, c) # {} => BinderOf(cards, files, c) \in Listed(files, c)
         /\ ~cards[c].known /\ cards[c].binder = None => BinderOf(cards, files, c) = None
<1> DEFINE listing == {cat \in BinderCategories : cards[c].known /\ c \in DOMAIN Rows(files, cat)}
           binder == BinderOf(cards, files, c)
<1>1. cards[c].binder \in Names \cup {None}
  BY DEF Row
<1>2. /\ cards[c].known => listing = Listed(files, c)
      /\ ~cards[c].known => listing = {}
  BY DEF Listed
<1>3. CASE listing # {}
  <2>1. listing \in SUBSET Categories(files)
    BY RowsOf
  <2>2. binder = files[Max({First(files, cat) : cat \in listing})].cat
    BY <1>3 DEF BinderOf
  <2>3. binder \in listing
    <3> HIDE DEF listing
    <3> QED BY <1>3, <2>1, <2>2, LastBinder
  <2>4. binder \in Names
    BY <2>3, NamesOf
  <2> QED BY <1>2, <1>3, <2>3, <2>4
<1>4. CASE listing = {}
  <2>1. binder = IF cards[c].binder \in BinderCategories \cap Categories(files) THEN None ELSE cards[c].binder
    BY <1>4 DEF BinderOf
  <2> QED BY <1>1, <1>2, <1>4, <2>1
<1> QED BY <1>3, <1>4

LEMMA CollsAre ==
  ASSUME NEW cards, NEW files \in Folders, NEW c \in Cards, cards[c] \in Row
  PROVE  /\ CollsOf(cards, files, c) \in SUBSET Names
         /\ ~cards[c].known /\ cards[c].colls = {} => CollsOf(cards, files, c) = {}
<1>1. Categories(files) \in SUBSET Names
  BY FilesAre DEF Categories
<1>2. cards[c].colls \in SUBSET Names
  BY DEF Row
<1> QED BY <1>1, <1>2 DEF CollsOf

\* The import of the other categories moves binders and collections only.
LEMMA ImportedOf ==
  ASSUME TypeOK, NEW files \in Folders, NEW c \in Cards
  PROVE  LET old == Inventory(files)[c]
             new == Imported(files)[c]
         IN  /\ new \in Row
             /\ new.known = old.known /\ new.flagged = old.flagged /\ new.qty = old.qty
             /\ new.transit = old.transit /\ new.since = old.since
             /\ ~new.known => new = NoCard
             /\ new.known /\ Listed(files, c) # {} => new.binder \in Listed(files, c)
             /\ Rules(new.colls) # {} => new.binder # None
<1> DEFINE inv == Inventory(files)
           tag == Tagged(inv, files)
           binder == BinderOf(inv, files, c)
           colls == CollsOf(inv, files, c)
           new == Imported(files)[c]
<1>1. inv[c] \in Row /\ (~inv[c].known => inv[c] = NoCard)
  BY InventoryOf
<1>2. /\ binder \in Names \cup {None}
      /\ inv[c].known /\ Listed(files, c) # {} => binder \in Listed(files, c)
      /\ ~inv[c].known /\ inv[c].binder = None => binder = None
  BY <1>1, BinderIs
<1>3. colls \in SUBSET Names /\ (~inv[c].known /\ inv[c].colls = {} => colls = {})
  BY <1>1, CollsAre
<1>4. tag[c] = [inv[c] EXCEPT !.binder = binder, !.colls = colls]
  BY DEF Tagged
<1>5. new = IF tag[c].binder = None /\ Rules(tag[c].colls) # {}
            THEN [tag[c] EXCEPT !.binder = AutoBinder[Min(Rules(tag[c].colls))].binder]
            ELSE tag[c]
  BY DEF Imported, Bindered
<1>6. \A cat \in Listed(files, c) : cat # None
  BY NamesOf DEF Listed
<1> HIDE DEF inv, tag, binder, colls, new
<1>7. /\ tag[c] \in Row /\ tag[c].known = inv[c].known /\ tag[c].flagged = inv[c].flagged
      /\ tag[c].qty = inv[c].qty /\ tag[c].transit = inv[c].transit /\ tag[c].since = inv[c].since
      /\ tag[c].binder = binder /\ tag[c].colls = colls
  BY <1>1, <1>2, <1>3, <1>4 DEF Row
<1>8. ASSUME ~inv[c].known PROVE tag[c] = NoCard /\ Rules(tag[c].colls) = {}
  <2>1. inv[c] = NoCard /\ binder = None /\ colls = {}
    BY <1>1, <1>2, <1>3, <1>8 DEF NoCard
  <2>2. tag[c] = NoCard
    <3>1. /\ NoCard.known = FALSE /\ NoCard.flagged = FALSE /\ NoCard.qty = 0
          /\ NoCard.transit = 0 /\ NoCard.since = 0
      BY DEF NoCard
    <3>2. /\ tag[c].known = FALSE /\ tag[c].flagged = FALSE /\ tag[c].qty = 0
          /\ tag[c].transit = 0 /\ tag[c].since = 0
      BY <1>7, <2>1, <3>1
    <3> QED BY <1>7, <2>1, <3>2 DEF NoCard, Row
  <2>3. tag[c].colls = {}
    BY <1>7, <2>1
  <2> QED BY <2>2, <2>3 DEF Rules
<1>9. CASE tag[c].binder = None /\ Rules(tag[c].colls) # {}
  <2> DEFINE b == AutoBinder[Min(Rules(tag[c].colls))].binder
  <2>1. b \in Names /\ b # None
    BY <1>9, RuleOf, NamesOf
  <2>2. new = [tag[c] EXCEPT !.binder = b]
    BY <1>5, <1>9
  <2> HIDE DEF b
  <2>3. /\ new \in Row /\ new.known = tag[c].known /\ new.flagged = tag[c].flagged
        /\ new.qty = tag[c].qty /\ new.transit = tag[c].transit /\ new.since = tag[c].since
        /\ new.binder = b /\ new.colls = tag[c].colls
    BY <1>7, <2>1, <2>2 DEF Row
  <2> QED BY <1>2, <1>6, <1>7, <1>8, <1>9, <2>1, <2>3 DEF inv, new
<1>10. CASE ~(tag[c].binder = None /\ Rules(tag[c].colls) # {})
  <2>1. new = tag[c]
    BY <1>5, <1>10
  <2> QED BY <1>2, <1>7, <1>8, <1>10, <2>1 DEF inv, new
<1> QED BY <1>9, <1>10

-----------------------------------------------------------------------------
(* The inductive invariant *)

\* A card in a collection with a binder has one.
BindersImplied == \A c \in Cards : Rules(card[c].colls) # {} => card[c].binder # None

\* Only the form, in a manual run, confirms a count.
CronConfirmsNothing == run # Idle /\ run.trigger = "cron" => run.expected = 0

Inv == TypeOK /\ FlaggedIsMissing /\ OnTheWayIsExported /\ BindersImplied /\ CronConfirmsNothing

LEMMA NumbersAre == Cardinality(Cards) \in Nat /\ \A S \in SUBSET Cards : Cardinality(S) \in Numbers
<1>1. Cardinality(Cards) \in Nat
  BY DexSyncAssumption, FS_CardinalityType
<1>2. ASSUME NEW S \in SUBSET Cards PROVE Cardinality(S) \in Numbers
  <2>1. Cardinality(S) \in Nat /\ Cardinality(S) <= Cardinality(Cards)
    BY DexSyncAssumption, FS_Subset, FS_CardinalityType
  <2> QED BY <1>1, <2>1 DEF Numbers
<1> QED BY <1>1, <1>2

LEMMA TypeInit == Init => Inv
<1> SUFFICES ASSUME Init PROVE Inv
  OBVIOUS
<1>1. card = [c \in Cards |-> NoCard] /\ today = 1 /\ run = Idle /\ offer = 0
      /\ last = [mine |-> {}, incoming |-> {}, late |-> FALSE]
  BY DEF Init
<1>2. NoCard \in Row
  BY DEF NoCard, Row
<1>3. \A c \in Cards : card[c] = NoCard
  BY <1>1
<1>4. NoCard.known = FALSE /\ NoCard.qty = 0 /\ NoCard.transit = 0 /\ NoCard.since = 0 /\ NoCard.colls = {}
  BY DEF NoCard
<1>5. 0 \in Numbers /\ 1 \in 1..MaxDay
  BY NumbersAre, DexSyncAssumption DEF Numbers
<1>6. card \in [Cards -> Row]
  BY <1>1, <1>2
<1>7. TypeOK
  BY <1>1, <1>3, <1>4, <1>5, <1>6 DEF TypeOK, Row
<1>8. FlaggedIsMissing /\ OnTheWayIsExported
  BY <1>3, <1>4 DEF FlaggedIsMissing, OnTheWayIsExported, Known
<1>9. BindersImplied /\ CronConfirmsNothing
  BY <1>1, <1>3, <1>4 DEF BindersImplied, CronConfirmsNothing, Rules
<1> QED BY <1>7, <1>8, <1>9 DEF Inv

LEMMA RunIs ==
  ASSUME TypeOK, run # Idle
  PROVE  run.files \in Folders /\ run.trigger \in {"cron", "manual"} /\ run.expected \in Numbers
BY DEF TypeOK

\* An empty folder has no My Collection.
LEMMA NothingRead == \A cat : Rows(<<>>, cat) = <<>>
<1>1. Categories(<<>>) = {}
  BY DEF Categories
<1> QED BY <1>1 DEF Rows

LEMMA TypeNext == ASSUME TypeOK, [Next]_vars PROVE TypeOK'
<1>1. ASSUME NEW t \in {"cron", "manual"}, NEW n \in Numbers, Download(t, n) PROVE TypeOK'
  <2>1. PICK files \in Folders : run' = [files |-> files, trigger |-> t, expected |-> n]
    BY <1>1 DEF Download
  <2>2. run' \in [files : Folders, trigger : {"cron", "manual"}, expected : Numbers]
    BY <1>1, <2>1
  <2>3. UNCHANGED <<card, today, offer, last>>
    BY <1>1 DEF Download
  <2> QED BY <2>2, <2>3 DEF TypeOK
<1>2. CASE Abort
  <2>1. NewlyMissing(Mine) \in SUBSET Cards
    BY DEF NewlyMissing, Known
  <2>2. 0 \in Numbers
    BY NumbersAre DEF Numbers
  <2>3. offer' \in Numbers
    BY <1>2, <2>1, <2>2, NumbersAre DEF Abort, TypeOK
  <2>4. run' = Idle /\ UNCHANGED <<card, today, last>>
    BY <1>2 DEF Abort
  <2> QED BY <2>3, <2>4 DEF TypeOK
<1>3. CASE Import
  <2>1. run.files \in Folders
    BY <1>3, RunIs DEF Import
  <2>2. run' = Idle /\ today' = today
    BY <1>3 DEF Import
  <2>3. offer' \in Numbers
    BY <1>3, NumbersAre DEF Import, TypeOK, Numbers
  <2>4. ASSUME NEW c \in Cards
        PROVE  /\ card'[c] \in Row
               /\ card'[c].transit <= card'[c].qty /\ card'[c].since <= today
               /\ card'[c].since > 0 <=> card'[c].transit > 0
               /\ ~card'[c].known => card'[c] = NoCard
    <3>1. CASE run.files = <<>>
      BY <1>3, <3>1 DEF Import, TypeOK, Row
    <3>2. CASE run.files # <<>>
      <4>1. card'[c] = Imported(run.files)[c]
        BY <1>3, <3>2 DEF Import
      <4> QED BY <2>1, <4>1, InventoryOf, ImportedOf
    <3> QED BY <3>1, <3>2
  <2>5. card' \in [Cards -> Row]
    <3>1. card' = [c \in Cards |-> card'[c]]
      BY <1>3 DEF Import, Imported, Bindered, TypeOK
    <3> QED BY <2>4, <3>1
  <2>6. last' \in [mine : SUBSET Cards, incoming : SUBSET Cards, late : BOOLEAN]
    <3>1. CASE Mine = <<>>
      BY <1>3, <3>1 DEF Import, TypeOK
    <3>2. CASE Mine # <<>>
      <4>1. DOMAIN Mine \in SUBSET Cards /\ DOMAIN Rows(run.files, Incoming) \in SUBSET Cards
        BY <2>1, RowsOf DEF Mine
      <4> QED BY <1>3, <3>2, <4>1 DEF Import
    <3> QED BY <3>1, <3>2
  <2> QED BY <2>2, <2>3, <2>4, <2>5, <2>6 DEF TypeOK, Row
<1>4. CASE Fail \/ UNCHANGED vars
  BY <1>4 DEF Fail, vars, TypeOK
<1>5. ASSUME NEW c \in Cards, DeleteMissing(c) PROVE TypeOK'
  <2>1. NoCard \in Row
    BY DEF NoCard, Row
  <2>2. card' = [card EXCEPT ![c] = NoCard] /\ UNCHANGED <<today, run, offer, last>>
    BY <1>5 DEF DeleteMissing
  <2>3. card' \in [Cards -> Row] /\ card'[c] = NoCard /\ \A k \in Cards \ {c} : card'[k] = card[k]
    BY <2>1, <2>2 DEF TypeOK, Row
  <2>4. NoCard.qty = 0 /\ NoCard.transit = 0 /\ NoCard.since = 0 /\ today \in Nat
    BY DexSyncAssumption DEF NoCard, TypeOK
  <2>5. \A k \in Cards : /\ card'[k].transit <= card'[k].qty /\ card'[k].since <= today
                         /\ card'[k].since > 0 <=> card'[k].transit > 0
                         /\ ~card'[k].known => card'[k] = NoCard
    BY <2>3, <2>4 DEF TypeOK
  <2> QED BY <2>2, <2>3, <2>5 DEF TypeOK, Row
<1>6. CASE Midnight
  <2>1. today' = today + 1 /\ today' \in 1..MaxDay /\ UNCHANGED <<card, run, offer, last>>
    BY <1>6, DexSyncAssumption DEF Midnight, TypeOK
  <2>2. \A c \in Cards : card[c] \in Row /\ card[c].since <= today'
    BY <2>1, DexSyncAssumption DEF TypeOK, Row
  <2> QED BY <2>1, <2>2 DEF TypeOK
<1>7. CASE Override
  <2>1. offer \in Numbers
    BY DEF TypeOK
  <2> QED BY <1>1, <1>7, <2>1 DEF Override
<1>8. 0 \in Numbers
  BY NumbersAre DEF Numbers
<1> QED BY <1>1, <1>2, <1>3, <1>4, <1>5, <1>6, <1>7, <1>8 DEF Next, Sync

\* The type invariant, for any exports and limits.
THEOREM TypeCorrect == Spec => []TypeOK
<1>1. Init => TypeOK
  BY TypeInit DEF Inv
<1> QED BY <1>1, TypeNext, PTL DEF Spec

-----------------------------------------------------------------------------
(* The collection says what the exports say *)

\* What an import of files makes of a card
LEMMA ImportOf ==
  ASSUME TypeOK, Import, run.files # <<>>, NEW c \in Cards
  PROVE  LET new == card'[c]
             files == run.files
         IN  /\ files \in Folders
             /\ new.known /\ Listed(files, c) # {} => new.binder \in Listed(files, c)
             /\ Rules(new.colls) # {} => new.binder # None
             /\ Mine = <<>> => /\ new.known = card[c].known /\ new.flagged = card[c].flagged
                               /\ new.transit = card[c].transit
             /\ Mine # <<>> =>
                  /\ new.flagged <=> card[c].known /\ c \notin DOMAIN Mine
                  /\ new.known => card[c].known \/ c \in DOMAIN Mine
                  /\ new.transit > 0 => Usable(files) /\ c \in DOMAIN Rows(files, Incoming)
<1>1. run.files \in Folders
  BY RunIs DEF Import
<1>2. card'[c] = Imported(run.files)[c]
  BY DEF Import
<1> DEFINE inv == Inventory(run.files)[c]
           new == card'[c]
<1>3. /\ Mine = <<>> => inv = card[c]
      /\ Mine # <<>> =>
           /\ inv.flagged <=> card[c].known /\ c \notin DOMAIN Mine
           /\ inv.known <=> card[c].known \/ (c \in DOMAIN Mine /\ Mine[c] > 0)
           /\ inv.transit > 0 => Usable(run.files) /\ c \in DOMAIN Rows(run.files, Incoming)
  BY <1>1, InventoryOf DEF Mine
<1>4. /\ new.known = inv.known /\ new.flagged = inv.flagged /\ new.transit = inv.transit
      /\ new.known /\ Listed(run.files, c) # {} => new.binder \in Listed(run.files, c)
      /\ Rules(new.colls) # {} => new.binder # None
  BY <1>1, <1>2, ImportedOf
<1> HIDE DEF inv
<1> QED BY <1>1, <1>3, <1>4

\* Only an import flags a card, and no other step makes one known, or puts it on the
\* way or into a collection.
LEMMA OtherSteps ==
  ASSUME TypeOK, [Next]_vars, ~Import \/ run.files = <<>>
  PROVE  /\ \A c \in Cards : card'[c] = card[c] \/ card'[c] = NoCard
         /\ last' = last
<1>1. CASE Import /\ run.files = <<>>
  <2>1. Mine = <<>>
    BY <1>1, NothingRead DEF Mine
  <2> QED BY <1>1, <2>1 DEF Import
<1>2. ASSUME NEW k \in Cards, DeleteMissing(k) 
      PROVE  last' = last /\ \A c \in Cards : card'[c] = card[c] \/ card'[c] = NoCard
  BY <1>2 DEF DeleteMissing, TypeOK
<1>3. CASE \/ \E t \in {"cron", "manual"} : Download(t, 0)
           \/ Override \/ Abort \/ Fail \/ Midnight \/ UNCHANGED vars
  BY <1>3 DEF Download, Override, Abort, Fail, Midnight, vars
<1> QED BY <1>1, <1>2, <1>3 DEF Next, Sync

LEMMA InvNext == ASSUME Inv, [Next]_vars PROVE Inv'
<1>0. TypeOK /\ TypeOK'
  BY TypeNext DEF Inv
<1>1. NoCard.known = FALSE /\ NoCard.transit = 0 /\ NoCard.colls = {} /\ Rules({}) = {}
  BY DEF NoCard, Rules
<1>2. CASE Import /\ run.files # <<>>
  <2>1. ASSUME Mine = <<>> PROVE FlaggedIsMissing' /\ OnTheWayIsExported'
    <3>1. last' = last
      BY <1>2, <2>1 DEF Import
    <3>2. \A c \in Cards : /\ card'[c].known = card[c].known /\ card'[c].flagged = card[c].flagged
                           /\ card'[c].transit = card[c].transit
      BY <1>0, <1>2, <2>1, ImportOf
    <3> QED BY <3>1, <3>2 DEF Inv, FlaggedIsMissing, OnTheWayIsExported, Known
  <2>2. ASSUME Mine # <<>> PROVE FlaggedIsMissing' /\ OnTheWayIsExported'
    <3>1. last' = [mine     |-> DOMAIN Mine,
                   incoming |-> DOMAIN Rows(run.files, Incoming),
                   late     |-> /\ Incoming \in Categories(run.files)
                                /\ Picked(run.files, Incoming).day < Picked(run.files, MyCollection).day]
      BY <1>2, <2>2 DEF Import
    <3>2. FlaggedIsMissing'
      <4>1. ASSUME NEW c \in Cards, card'[c].known PROVE card'[c].flagged <=> c \notin last'.mine
        BY <1>0, <1>2, <2>2, <3>1, <4>1, ImportOf
      <4> QED BY <4>1 DEF FlaggedIsMissing, Known
    <3>3. OnTheWayIsExported'
      <4>1. ASSUME NEW c \in Cards, card'[c].transit > 0 PROVE c \in last'.incoming /\ ~last'.late
        <5>1. Usable(run.files) /\ c \in DOMAIN Rows(run.files, Incoming) /\ run.files \in Folders
          BY <1>0, <1>2, <2>2, <4>1, ImportOf
        <5>2. Incoming \in Categories(run.files) /\ MyCollection \in Categories(run.files)
          BY <2>2, <5>1, RowsOf DEF Usable, Mine
        <5>3. PICK f \in FilesOf(run.files, Incoming) : Picked(run.files, Incoming) = run.files[f]
          BY <5>1, <5>2, PickedOf
        <5>4. PICK g \in FilesOf(run.files, MyCollection) : Picked(run.files, MyCollection) = run.files[g]
          BY <5>1, <5>2, PickedOf
        <5>5. run.files[f].day \in Nat /\ run.files[g].day \in Nat
          BY <5>1, FilesAre, DexSyncAssumption DEF FilesOf
        <5>6. ~(Picked(run.files, Incoming).day < Picked(run.files, MyCollection).day)
          BY <5>1, <5>3, <5>4, <5>5 DEF Usable
        <5> QED BY <3>1, <5>1, <5>6
      <4> QED BY <4>1 DEF OnTheWayIsExported
    <3> QED BY <3>2, <3>3
  <2>3. BindersImplied'
    BY <1>0, <1>2, ImportOf DEF BindersImplied
  <2>4. CronConfirmsNothing'
    BY <1>2 DEF Import, CronConfirmsNothing
  <2> QED BY <1>0, <2>1, <2>2, <2>3, <2>4 DEF Inv
<1>3. CASE ~Import \/ run.files = <<>>
  <2>1. last' = last /\ \A c \in Cards : card'[c] = card[c] \/ card'[c] = NoCard
    BY <1>0, <1>3, OtherSteps
  <2>2. FlaggedIsMissing' /\ OnTheWayIsExported' /\ BindersImplied'
    <3>1. FlaggedIsMissing'
      BY <1>1, <2>1 DEF Inv, FlaggedIsMissing, Known
    <3>2. OnTheWayIsExported'
      BY <1>1, <2>1 DEF Inv, OnTheWayIsExported
    <3>3. BindersImplied'
      BY <1>1, <2>1 DEF Inv, BindersImplied
    <3> QED BY <3>1, <3>2, <3>3
  <2>3. CronConfirmsNothing'
    <3>1. ASSUME NEW t \in {"cron", "manual"}, NEW n, Download(t, n), t = "cron" => n = 0
          PROVE  CronConfirmsNothing'
      BY <3>1 DEF Download, CronConfirmsNothing
    <3>2. CASE Override
      BY <3>1, <3>2 DEF Override
    <3>3. ASSUME NEW t \in {"cron", "manual"}, Download(t, 0) PROVE CronConfirmsNothing'
      BY <3>1, <3>3
    <3>4. CASE Abort \/ Import \/ Fail \/ Midnight \/ (\E c \in Cards : DeleteMissing(c)) \/ UNCHANGED vars
      BY <3>4 DEF Abort, Import, Fail, Midnight, DeleteMissing, vars, Inv, CronConfirmsNothing
    <3> QED BY <3>2, <3>3, <3>4 DEF Next, Sync
  <2> QED BY <1>0, <2>2, <2>3 DEF Inv
<1> QED BY <1>2, <1>3

LEMMA BindersStep == ASSUME Inv, [Next]_vars PROVE BindersAsExported
<1> DEFINE files == run.files
           listed(c) == {cat \in BinderCategories : c \in DOMAIN Rows(files, cat)}
<1> SUFFICES ASSUME Import, NEW c \in Cards, card'[c].known
             PROVE  /\ listed(c) # {} => card'[c].binder \in listed(c)
                    /\ Rules(card'[c].colls) # {} => card'[c].binder # None
  BY DEF BindersAsExported
<1>1. Rules(card'[c].colls) # {} => card'[c].binder # None
  BY InvNext DEF Inv, BindersImplied
<1>2. CASE files = <<>>
  <2>1. listed(c) = {}
    BY <1>2, NothingRead
  <2> QED BY <1>1, <2>1
<1>3. CASE files # <<>>
  <2>1. listed(c) = Listed(files, c)
    BY DEF Listed
  <2>2. Listed(files, c) # {} => card'[c].binder \in Listed(files, c)
    BY <1>3, ImportOf DEF Inv
  <2> QED BY <1>1, <2>1, <2>2
<1> QED BY <1>2, <1>3

LEMMA NoMassStep == ASSUME Inv, [Next]_vars PROVE NoMassFlagging
<1> DEFINE flagged == {c \in Known : ~card[c].flagged /\ card'[c].flagged}
           n == Cardinality(flagged)
<1> SUFFICES ASSUME OverLimit(n) PROVE run.trigger = "manual" /\ n <= run.expected
  BY DEF NoMassFlagging
<1>0. TypeOK
  BY DEF Inv
<1>1. Known \in SUBSET Cards /\ flagged \in SUBSET Cards
  BY DEF Known
<1>2. Cardinality(Known) \in Nat /\ n \in Nat
  BY <1>1, NumbersAre DEF Numbers
<1>3. n > AbortMinCards /\ AbortMinCards \in Nat
  BY DexSyncAssumption DEF OverLimit
<1>4. flagged # {}
  <2>1. n # 0
    BY <1>2, <1>3
  <2>2. Cardinality({}) = 0
    BY FS_EmptySet
  <2> HIDE DEF flagged
  <2> QED BY <2>1, <2>2
<1>5. PICK c \in Cards : c \in Known /\ ~card[c].flagged /\ card'[c].flagged
  BY <1>1, <1>4
<1>6. NoCard.flagged = FALSE
  BY DEF NoCard
<1>7. Import /\ run.files # <<>>
  BY <1>0, <1>5, <1>6, OtherSteps
<1>8. Mine # <<>>
  BY <1>0, <1>5, <1>7, ImportOf
<1>9. flagged = NewlyMissing(Mine)
  <2>1. \A k \in Cards : card'[k].flagged <=> card[k].known /\ k \notin DOMAIN Mine
    BY <1>0, <1>7, <1>8, ImportOf
  <2> QED BY <2>1 DEF NewlyMissing, Known
<1>10. ~Trips(Mine, run.expected)
  BY <1>7 DEF Import
<1>11. ~(n > run.expected)
  <2>1. n = Cardinality(NewlyMissing(Mine))
    BY <1>9
  <2> HIDE DEF n, flagged
  <2> QED BY <1>8, <1>10, <2>1 DEF Trips
<1>12. run.expected \in Nat /\ run.trigger \in {"cron", "manual"}
  BY <1>0, <1>7, RunIs, NumbersAre DEF Import, Numbers
<1>13. n <= run.expected /\ run.expected # 0
  BY <1>2, <1>3, <1>11, <1>12
<1>14. run.trigger = "manual"
  BY <1>7, <1>12, <1>13 DEF Inv, CronConfirmsNothing, Import
<1> QED BY <1>13, <1>14

\* Whatever is exported, imported, aborted, confirmed and deleted, and in whatever order:
\* a card is flagged exactly while the last My Collection export lacks it, none is on the
\* way by an older Incoming export, exported binders win, and no sync flags more than the
\* limit unless a user confirmed at least as many.
THEOREM ExportIsFollowed == Spec => FollowsTheExport
<1>1. Init => Inv
  BY TypeInit
<1>2. Inv /\ [Next]_vars => Inv'
  BY InvNext
<1>3. Inv => FlaggedIsMissing /\ OnTheWayIsExported
  BY DEF Inv
<1>4. Inv /\ [Next]_vars => [BindersAsExported /\ NoMassFlagging]_vars
  BY BindersStep, NoMassStep
<1> QED BY <1>1, <1>2, <1>3, <1>4, PTL DEF Spec, FollowsTheExport
-----------------------------------------------------------------------------
(* DailyJobs, the jobs that take snapshots *)

\* What a run of job j keeps at each phase
JobRun(j, r) ==
  \/ r = JO!Idle
  \/ r \in [phase : {"body"}, source : JO!Sources]
  \/ j = JO!DexSync /\ r \in [phase : {"resolved"}, source : JO!Sources, empty : BOOLEAN]
  \/ j = JO!PriceRefresh /\ r \in [phase : {"resolved"}, source : JO!Sources, degraded : BOOLEAN]
  \/ j = JO!PriceRefresh /\ r \in [phase : {"images"}, degraded : BOOLEAN]
  \/ r = [phase |-> "killed"]
  \/ /\ j \in {JO!DexSync, JO!PriceRefresh}
     /\ \E known \in SUBSET JobCards :
          r \in [phase : {"snapshot"}, source : JO!Sources, flag : BOOLEAN,
                 rows : [JobCards -> {JO!NoRow} \cup 1..MaxQty], qtys : [known -> 1..MaxQty],
                 today : BOOLEAN, stale : BOOLEAN, gone : SUBSET JobCards]
  \/ j = JO!Poketrace /\ r \in [phase : {"images"}, left : Int, made : Nat, day : Nat]

Phases == {"idle", "body", "resolved", "snapshot", "images", "killed"}
Statuses == {"none", "ok", "empty", "aborted", "failed", "degraded", "skipped"}
Dones == SUBSET {"import", "pokemontcg", "tcgdex", "tcgdex failed", "snapshot", "killed"}

\* Both passes of a price refresh went through, or TCGdex's failed.
Passes(done) == "pokemontcg" \in done /\ ("tcgdex" \in done \/ "tcgdex failed" \in done)

\* What a run of job j has committed, and what its row says, at each phase
JobLogged(j, r, status, done) ==
  /\ j = JO!DexSync =>
       /\ r.phase = "body" => done = {}
       /\ r.phase = "resolved" => IF r.empty THEN done = {} ELSE done = {"import"} /\ status = "ok"
       /\ r.phase = "snapshot" => IF r.flag THEN done = {} ELSE done = {"import"} /\ status = "ok"
       /\ r.phase = "killed" => "killed" \in done /\ ("import" \in done => status = "ok")
       /\ r.phase = "idle" /\ status = "ok" => done = {"import", "snapshot"} \/ {"import", "killed"} \subseteq done
       /\ r.phase = "idle" /\ status \in {"aborted", "empty"} => "import" \notin done
  /\ j = JO!PriceRefresh =>
       /\ "import" \notin done
       /\ r.phase = "resolved" => r.degraded \/ Passes(done)
       /\ r.phase = "snapshot" => r.flag \/ Passes(done)
       /\ r.phase = "images" => r.degraded \/ (Passes(done) /\ "snapshot" \in done)
       /\ r.phase = "idle" /\ status = "ok" => Passes(done) /\ "snapshot" \in done

\* Until it writes, what the sync's snapshot has read is so.
ReadIsSo ==
  LET r == s3[JO!DexSync]
  IN  JO!DexSync \in SnapshotJobs /\ r.phase = "snapshot" =>
        \A c \in JO!Known : /\ c \in DOMAIN r.qtys /\ r.qtys[c] = s1[c]
                            /\ r.today /\ ~r.stale => r.rows[c] = s2[r.source][c]

\* JO!TypeOK, with the sets that the proofs below need not look into
JobsTyped ==
  /\ s1 \in [JobCards -> 0..MaxQty]
  /\ s2 \in [JO!Sources -> [JobCards -> {JO!NoRow} \cup 1..MaxQty]]
  /\ \A j \in SnapshotJobs : s3[j].phase \in Phases
  /\ \A j \in SnapshotJobs : s4[j] \in Statuses
  /\ s5 \in [SnapshotJobs -> Dones]
  /\ {s6, s7, s8} \subseteq Nat

LEMMA JobsTypes == JobsTyped <=> JO!TypeOK
BY DEF JobsTyped, JO!TypeOK, Phases, Statuses, Dones

JobsInv ==
  /\ JobsTyped
  /\ DOMAIN s3 = SnapshotJobs /\ DOMAIN s4 = SnapshotJobs
  /\ \A j \in SnapshotJobs : JobRun(j, s3[j]) /\ JobLogged(j, s3[j], s4[j], s5[j])
  /\ ReadIsSo

LEMMA DonesAre ==
  /\ {} \in Dones /\ {"import"} \in Dones
  /\ \A done \in Dones : done \cup {"snapshot"} \in Dones /\ done \cup {"killed"} \in Dones
BY DEF Dones

LEMMA JobsBegin == ASSUME JO!Init PROVE JobsInv
<1> USE DEF JO!Init, JO!Idle
<1>1. \A j \in SnapshotJobs : s3[j].phase = "idle" /\ s3[j] = JO!Idle /\ s4[j] = "none" /\ s5[j] = {}
  OBVIOUS
<1>2. JobsTyped
  <2>1. s5 \in [SnapshotJobs -> Dones]
    BY DonesAre
  <2> QED BY <1>1, <2>1, JobsAssumption DEF JobsTyped, JO!NoSnapshots, JO!NoRow, Phases, Statuses
<1>3. \A j \in SnapshotJobs : JobRun(j, s3[j]) /\ JobLogged(j, s3[j], s4[j], s5[j])
  BY <1>1 DEF JobRun, JobLogged
<1>4. ReadIsSo
  BY <1>1 DEF ReadIsSo
<1> QED BY <1>2, <1>3, <1>4 DEF JobsInv

\* A run's own step: it leaves the other runs and their rows as they are.
OwnStep(j) ==
  /\ j \in SnapshotJobs
  /\ DOMAIN s3' = SnapshotJobs /\ DOMAIN s4' = SnapshotJobs
  /\ s5' \in [SnapshotJobs -> Dones]
  /\ \A k \in SnapshotJobs \ {j} : s3'[k] = s3[k] /\ s4'[k] = s4[k] /\ s5'[k] = s5[k]
  /\ JobRun(j, s3'[j]) /\ s4'[j] \in Statuses /\ JobLogged(j, s3'[j], s4'[j], s5'[j])

LEMMA PhasesAre ==
  ASSUME NEW j, NEW r, JobRun(j, r)
  PROVE  r.phase \in Phases
BY DEF JobRun, JO!Idle, Phases

LEMMA BodyRun ==
  ASSUME NEW j, NEW r, JobRun(j, r), r.phase = "body"
  PROVE  r \in [phase : {"body"}, source : JO!Sources]
BY DEF JobRun, JO!Idle

LEMMA OwnStepKeeps ==
  ASSUME JobsInv, NEW j \in SnapshotJobs, OwnStep(j), UNCHANGED <<s1, s2>>, {s6', s7', s8'} \subseteq Nat,
         j = JO!DexSync => s3'[j].phase # "snapshot"
  PROVE  JobsInv'
<1>1. \A k \in SnapshotJobs : JobRun(k, s3'[k]) /\ JobLogged(k, s3'[k], s4'[k], s5'[k])
  BY DEF JobsInv, OwnStep
<1>2. JobsTyped'
  BY <1>1, PhasesAre DEF JobsInv, JobsTyped, OwnStep, Statuses
<1>3. ReadIsSo'
  BY DEF JobsInv, ReadIsSo, OwnStep, JO!Known
<1> QED BY <1>1, <1>2, <1>3 DEF JobsInv, OwnStep, JO!Idle, JobRun, JobLogged

\* The steps of a run that neither import nor take a snapshot
LEMMA OwnSteps ==
  ASSUME JobsInv, NEW j \in SnapshotJobs,
         \/ \E trigger \in {"cron", "manual"} : JO!Start(j, trigger)
         \/ j = JO!DexSync /\ (JO!AbortSync \/ JO!EmptyFolder)
         \/ j = JO!PriceRefresh /\ JO!FillImages
         \/ /\ j = JO!PriceRefresh
            /\ \E p \in {"ok", "degraded"}, t \in {"ok", "degraded", "failed"} : JO!RefreshPrices(p, t)
         \/ JO!RunSmall(j) \/ JO!Fail(j) \/ JO!Kill(j) \/ JO!Interrupted(j)
         \/ j = JO!Poketrace /\ (JO!Skip \/ JO!Connect \/ JO!Request)
         \/ j = JO!Poketrace /\ \E status \in {"ok", "failed", "degraded"} : JO!Stop(status)
  PROVE  JobsInv'
<1> USE DEF JobsInv, JobsTyped, JO!Recorded, JO!requests, OwnStep, Statuses
<1>0. /\ JobRun(j, s3[j]) /\ JobLogged(j, s3[j], s4[j], s5[j])
      /\ {s6, s7, s8} \subseteq Nat
      /\ JO!Idle.phase = "idle"
  BY DEF JO!Idle
<1>1. ASSUME NEW trigger \in {"cron", "manual"}, JO!Start(j, trigger) PROVE JobsInv'
  <2>1. s3'[j] \in [phase : {"body"}, source : JO!Sources]
    BY <1>1 DEF JO!Start, JO!SnapshotSource, JO!Sources
  <2>2. s3'[j].phase = "body" /\ s5'[j] = {} /\ s3'[j] # JO!Idle
    BY <1>0, <2>1, <1>1 DEF JO!Start
  <2>3. JobRun(j, s3'[j]) /\ JobLogged(j, s3'[j], s4'[j], s5'[j])
    BY <2>1, <2>2 DEF JobRun, JobLogged
  <2>4. s4' = s4 /\ s5' = [s5 EXCEPT ![j] = {}]
    BY <1>1 DEF JO!Start
  <2>5. DOMAIN s3' = SnapshotJobs /\ \A k \in SnapshotJobs \ {j} : s3'[k] = s3[k]
    BY <1>1 DEF JO!Start
  <2> HIDE DEF JobRun, JobLogged
  <2>6. OwnStep(j)
    BY <2>3, <2>4, <2>5, DonesAre
  <2> QED BY <1>0, <1>1, <2>2, <2>6, OwnStepKeeps DEF JO!Start
<1>2. CASE j = JO!DexSync /\ (JO!AbortSync \/ JO!EmptyFolder)
  <2>0. s3[j] \in [phase : {"body"}, source : JO!Sources]
    BY <1>0, <1>2 DEF JO!AbortSync, JO!EmptyFolder, JobRun
  <2>1. OwnStep(j)
    <3>1. CASE JO!AbortSync
      BY <1>0, <1>2, <2>0, <3>1 DEF JO!AbortSync, JobRun, JobLogged, JO!DexSync, JO!PriceRefresh
    <3>2. CASE JO!EmptyFolder
      <4>1. s3'[j] = [phase |-> "resolved", source |-> s3[j].source, empty |-> TRUE] /\ s5'[j] = {}
        BY <1>0, <1>2, <2>0, <3>2 DEF JO!EmptyFolder, JobLogged
      <4>2. JobRun(j, s3'[j])
        BY <1>2, <2>0, <4>1 DEF JobRun
      <4>3. JobLogged(j, s3'[j], s4'[j], s5'[j])
        BY <1>2, <4>1 DEF JobLogged, JO!DexSync, JO!PriceRefresh, JO!Idle
      <4> QED BY <1>2, <3>2, <4>2, <4>3 DEF JO!EmptyFolder
    <3> QED BY <1>2, <3>1, <3>2
  <2>2. s3'[j].phase # "snapshot"
    BY <1>0, <1>2 DEF JO!AbortSync, JO!EmptyFolder
  <2> QED BY <1>0, <1>2, <2>1, <2>2, OwnStepKeeps DEF JO!AbortSync, JO!EmptyFolder
<1>3. CASE j = JO!PriceRefresh /\ JO!FillImages
  <2> DEFINE r == s3[j]
  <2>1. /\ s3'[j] = JO!Idle /\ s5' = s5 /\ s4'[j] = (IF r.degraded THEN "degraded" ELSE "ok")
        /\ r.phase = "images"
    BY <1>3 DEF JO!FillImages
  <2>2. OwnStep(j)
    BY <1>0, <1>3, <2>1 DEF JO!FillImages, JobRun, JobLogged, JO!DexSync, JO!PriceRefresh, JO!Poketrace, JO!Idle
  <2> QED BY <1>0, <1>3, <2>2, OwnStepKeeps DEF JO!FillImages, JO!DexSync, JO!PriceRefresh
<1>4. ASSUME NEW p \in {"ok", "degraded"}, NEW t \in {"ok", "degraded", "failed"},
             j = JO!PriceRefresh, JO!RefreshPrices(p, t)
      PROVE  JobsInv'
  <2>1. s3[j] \in [phase : {"body"}, source : JO!Sources]
    BY <1>0, <1>4, BodyRun DEF JO!RefreshPrices
  <2> DEFINE degraded == "degraded" \in {p, t}
  <2>a. /\ s3'[j] = [phase |-> "resolved", source |-> s3[j].source, degraded |-> degraded]
        /\ s5'[j] = (IF p = "ok" THEN {"pokemontcg"} ELSE {})
                       \cup (CASE t = "ok" -> {"tcgdex"} [] t = "failed" -> {"tcgdex failed"} [] t = "degraded" -> {})
    BY <1>4 DEF JO!RefreshPrices
  <2>b. degraded \in BOOLEAN /\ (degraded \/ (p = "ok" /\ t \in {"ok", "failed"}))
    OBVIOUS
  <2>c. s5'[j] \in Dones /\ "import" \notin s5'[j] /\ (p = "ok" /\ t \in {"ok", "failed"} => Passes(s5'[j]))
    BY <2>a DEF Dones, Passes
  <2>2. /\ s3'[j] \in [phase : {"resolved"}, source : JO!Sources, degraded : BOOLEAN]
        /\ s3'[j].degraded \/ Passes(s5'[j])
    <3>1. degraded \in BOOLEAN /\ (degraded \/ Passes(s5'[j]))
      BY <2>b, <2>c
    <3>2. s3'[j] = [phase |-> "resolved", source |-> s3[j].source, degraded |-> degraded]
      BY <2>a
    <3> HIDE DEF degraded
    <3>3. s3[j].source \in JO!Sources
      BY <2>1
    <3> QED BY ONLY <3>1, <3>2, <3>3
  <2>3. JobRun(j, s3'[j]) /\ JobLogged(j, s3'[j], s4'[j], s5'[j])
    BY <1>4, <2>2, <2>c DEF JobRun, JobLogged, JO!DexSync, JO!PriceRefresh, JO!Idle
  <2>4. OwnStep(j)
    BY <1>4, <2>3, <2>c DEF JO!RefreshPrices
  <2> QED BY <1>0, <1>4, <2>4, OwnStepKeeps DEF JO!RefreshPrices, JO!DexSync, JO!PriceRefresh
<1>5. CASE JO!RunSmall(j) \/ JO!Fail(j)
  <2>1. s4'[j] \in {"ok", "failed"} /\ (s4'[j] = "ok" => j \in JO!Small) /\ s3'[j] = JO!Idle /\ s5' = s5
    BY <1>5 DEF JO!RunSmall, JO!Fail
  <2>2. OwnStep(j)
    BY <1>0, <1>5, <2>1 DEF JO!RunSmall, JO!Fail, JobRun, JobLogged, JO!DexSync, JO!PriceRefresh, JO!Small
  <2> QED BY <1>0, <1>5, <2>1, <2>2, OwnStepKeeps DEF JO!RunSmall, JO!Fail
<1>6. CASE JO!Kill(j)
  <2>1. /\ s3'[j] = [phase |-> "killed"] /\ s4' = s4 /\ s5' = [s5 EXCEPT ![j] = @ \cup {"killed"}]
        /\ DOMAIN s3' = SnapshotJobs /\ \A k \in SnapshotJobs \ {j} : s3'[k] = s3[k]
        /\ s3[j].phase \notin {"idle", "killed"}
    BY <1>6 DEF JO!Kill, JO!Running
  <2>2. s5'[j] = s5[j] \cup {"killed"} /\ s5' \in [SnapshotJobs -> Dones]
    BY <2>1 DEF Dones
  <2>3. j = JO!DexSync /\ "import" \in s5[j] => s4[j] = "ok"
    BY <1>0, <2>1 DEF JobRun, JobLogged, JO!DexSync, JO!PriceRefresh, JO!Poketrace, JO!Idle
  <2>4. JobRun(j, s3'[j]) /\ JobLogged(j, s3'[j], s4'[j], s5'[j])
    BY <1>0, <2>1, <2>2, <2>3 DEF JobRun, JobLogged
  <2>5. OwnStep(j)
    BY <2>1, <2>2, <2>4
  <2>6. s8' \in Nat
    BY <1>0, <1>6 DEF JO!Kill, JobRun, JO!DexSync, JO!PriceRefresh, JO!Poketrace, JO!Idle
  <2> QED BY <1>0, <1>6, <2>1, <2>5, <2>6, OwnStepKeeps DEF JO!Kill
<1>9. CASE JO!Interrupted(j)
  <2>1. /\ s3'[j] = JO!Idle /\ s5' = s5 /\ s3[j].phase = "killed"
        /\ s4'[j] = (IF "import" \in s5[j] THEN s4[j] ELSE "failed")
    BY <1>9 DEF JO!Interrupted
  <2>2. JobRun(j, s3'[j]) /\ JobLogged(j, s3'[j], s4'[j], s5'[j])
    BY <1>0, <2>1 DEF JobRun, JobLogged, JO!Idle
  <2>3. OwnStep(j)
    BY <1>0, <1>9, <2>1, <2>2 DEF JO!Interrupted
  <2> QED BY <1>0, <1>9, <2>1, <2>3, OwnStepKeeps DEF JO!Interrupted
<1>7. CASE j = JO!Poketrace /\ (JO!Skip \/ JO!Connect \/ JO!Request)
  <2>1. OwnStep(j)
    <3>1. CASE JO!Skip
      BY <1>0, <1>7, <3>1 DEF JO!Skip, JobRun, JobLogged, JO!DexSync, JO!PriceRefresh, JO!Poketrace
    <3>2. CASE JO!Connect
      BY <1>0, <1>7, <3>2, JobsAssumption DEF JO!Connect, JO!Left, JobRun, JobLogged, JO!DexSync, JO!PriceRefresh, JO!Poketrace
    <3>3. CASE JO!Request
      <4>1. s3[j] \in [phase : {"images"}, left : Int, made : Nat, day : Nat]
        BY <1>0, <1>7, <3>3 DEF JO!Request, JobRun, JO!DexSync, JO!PriceRefresh, JO!Poketrace
      <4>2. s3'[j] \in [phase : {"images"}, left : Int, made : Nat, day : Nat]
        BY <4>1, <1>7, <3>3 DEF JO!Request
      <4> QED BY <1>7, <3>3, <4>2 DEF JO!Request, JobRun, JobLogged, JO!DexSync, JO!PriceRefresh, JO!Poketrace
    <3> QED BY <1>7, <3>1, <3>2, <3>3
  <2> QED BY <1>0, <1>7, <2>1, OwnStepKeeps DEF JO!Skip, JO!Connect, JO!Request, JO!DexSync, JO!Poketrace
<1>8. ASSUME NEW status \in {"ok", "failed", "degraded"}, j = JO!Poketrace, JO!Stop(status)
      PROVE  JobsInv'
  <2>1. OwnStep(j)
    BY <1>0, <1>8 DEF JO!Stop, JobRun, JobLogged, JO!DexSync, JO!PriceRefresh, JO!Poketrace
  <2>2. s6' \in Nat
    BY <1>0, <1>8 DEF JO!Stop, JobRun, JO!DexSync, JO!PriceRefresh, JO!Poketrace
  <2> QED BY <1>0, <1>8, <2>1, <2>2, OwnStepKeeps DEF JO!Stop, JO!DexSync, JO!Poketrace
<1> QED BY <1>1, <1>2, <1>3, <1>4, <1>5, <1>6, <1>7, <1>8, <1>9

LEMMA ImportStep == ASSUME JobsInv, JO!ImportExports PROVE JobsInv'
<1> DEFINE d == JO!DexSync
<1>1. d \in SnapshotJobs /\ s3[d] \in [phase : {"body"}, source : JO!Sources]
  BY DEF JO!ImportExports, JobsInv, JobRun, JO!Idle
<1>2. /\ s3'[d] = [phase |-> "resolved", source |-> s3[d].source, empty |-> FALSE]
      /\ s4'[d] = "ok" /\ s5'[d] = {"import"}
  BY <1>1 DEF JO!ImportExports, JobsInv, JobsTyped
<1>3. /\ DOMAIN s3' = SnapshotJobs /\ DOMAIN s4' = SnapshotJobs
      /\ s5' \in [SnapshotJobs -> Dones]
      /\ \A k \in SnapshotJobs \ {d} : s3'[k] = s3[k] /\ s4'[k] = s4[k] /\ s5'[k] = s5[k]
  BY DonesAre DEF JO!ImportExports, JobsInv, JobsTyped
<1>4. JobRun(d, s3'[d]) /\ JobLogged(d, s3'[d], s4'[d], s5'[d])
  BY <1>1, <1>2 DEF JobRun, JobLogged, JO!DexSync, JO!PriceRefresh, JO!Idle
<1>5. \A k \in SnapshotJobs : JobRun(k, s3'[k]) /\ JobLogged(k, s3'[k], s4'[k], s5'[k])
  BY <1>3, <1>4 DEF JobsInv
<1>6. JobsTyped'
  <2>1. s1' \in [JobCards -> 0..MaxQty]
    BY JobsAssumption DEF JO!ImportExports, JobsInv, JobsTyped
  <2>2. UNCHANGED <<s2, s6, s7, s8>>
    BY DEF JO!ImportExports, JO!requests
  <2>3. \A k \in SnapshotJobs : s3'[k].phase \in Phases
    BY <1>5, PhasesAre
  <2>4. \A k \in SnapshotJobs : s4'[k] \in Statuses
    BY <1>2, <1>3 DEF JobsInv, JobsTyped, Statuses
  <2> QED BY <1>3, <2>1, <2>2, <2>3, <2>4 DEF JobsInv, JobsTyped
<1>7. ReadIsSo'
  BY <1>2 DEF ReadIsSo
<1> QED BY <1>3, <1>5, <1>6, <1>7 DEF JobsInv

LEMMA ReadStep ==
  ASSUME JobsInv, NEW j \in SnapshotJobs \cap {JO!DexSync, JO!PriceRefresh}, JO!ReadForSnapshot(j)
  PROVE  JobsInv'
<1> DEFINE r == s3[j]
           flag == IF j = JO!DexSync THEN r.empty ELSE r.degraded
           qtys == [c \in JO!Known |-> s1[c]]
<1>1. /\ \/ /\ j = JO!DexSync
            /\ r \in [phase : {"resolved"}, source : JO!Sources, empty : BOOLEAN]
         \/ /\ j = JO!PriceRefresh /\ j # JO!DexSync
            /\ r \in [phase : {"resolved"}, source : JO!Sources, degraded : BOOLEAN]
      /\ r.phase = "resolved"
  BY DEF JO!ReadForSnapshot, JobsInv, JobRun, JO!Idle, JO!DexSync, JO!PriceRefresh, JO!Poketrace
<1>2. flag \in BOOLEAN /\ r.source \in JO!Sources
  BY <1>1
<1>3. /\ s3'[j] = [phase |-> "snapshot", source |-> r.source, flag |-> flag, rows |-> s2[r.source],
                   qtys |-> qtys, today |-> TRUE, stale |-> FALSE, gone |-> {}]
      /\ DOMAIN s3' = SnapshotJobs /\ \A k \in SnapshotJobs \ {j} : s3'[k] = s3[k]
      /\ UNCHANGED <<s1, s2, s4, s5, s6, s7, s8>>
  BY DEF JO!ReadForSnapshot, JobsInv, JO!requests
<1>4. JO!Known \in SUBSET JobCards /\ qtys \in [JO!Known -> 1..MaxQty]
  BY JobsAssumption DEF JO!Known, JobsInv, JobsTyped
<1>5. s2[r.source] \in [JobCards -> {JO!NoRow} \cup 1..MaxQty]
  BY <1>2 DEF JobsInv, JobsTyped
<1> HIDE DEF flag, qtys
<1>6. JobRun(j, s3'[j])
  BY <1>2, <1>3, <1>4, <1>5 DEF JobRun
<1>7. JobLogged(j, s3'[j], s4'[j], s5'[j])
  <2>1. JobLogged(j, r, s4[j], s5[j])
    BY DEF JobsInv
  <2>2. s3'[j].phase = "snapshot" /\ s3'[j].flag = flag /\ s3'[j] # JO!Idle /\ UNCHANGED <<s4, s5>>
    BY <1>3 DEF JO!Idle
  <2>3. /\ j = JO!DexSync => (s3'[j].flag <=> r.empty)
        /\ j # JO!DexSync => (s3'[j].flag <=> r.degraded)
    BY <2>2 DEF flag
  <2>4. CASE j = JO!DexSync /\ j # JO!PriceRefresh
    BY <1>1, <2>1, <2>2, <2>3, <2>4 DEF JobLogged
  <2>5. CASE j # JO!DexSync
    BY <1>1, <2>1, <2>2, <2>3, <2>5 DEF JobLogged
  <2> QED BY <2>4, <2>5 DEF JO!DexSync, JO!PriceRefresh
<1>8. \A k \in SnapshotJobs : JobRun(k, s3'[k]) /\ JobLogged(k, s3'[k], s4'[k], s5'[k])
  BY <1>3, <1>6, <1>7 DEF JobsInv
<1>9. JobsTyped'
  BY <1>3, <1>8, PhasesAre DEF JobsInv, JobsTyped
<1>10. ReadIsSo'
  <2>1. CASE j = JO!DexSync
    BY <1>3, <2>1 DEF ReadIsSo, JO!Known, qtys
  <2>2. CASE j # JO!DexSync
    BY <1>3, <2>2 DEF JobsInv, ReadIsSo, JO!Known
  <2> QED BY <2>1, <2>2
<1> QED BY <1>3, <1>8, <1>9, <1>10 DEF JobsInv

\* What another job's run keeps when job j writes, a card is deleted or a day ends
LEMMA StillRuns ==
  ASSUME NEW k, NEW r, NEW t, NEW status, NEW done, JobRun(k, r), JobLogged(k, r, status, done),
         \/ t = r
         \/ /\ r.phase = "snapshot"
            /\ \/ t = [r EXCEPT !.stale = TRUE]
               \/ t = [r EXCEPT !.today = FALSE]
               \/ \E c \in JobCards : t = [r EXCEPT !.gone = @ \cup {c}]
         \/ k = JO!Poketrace /\ r.phase = "images" /\ t = [r EXCEPT !.day = 0]
  PROVE  JobRun(k, t) /\ JobLogged(k, t, status, done)
<1>0. CASE k = JO!Poketrace /\ r.phase = "images" /\ t = [r EXCEPT !.day = 0]
  <2>1. r \in [phase : {"images"}, left : Int, made : Nat, day : Nat]
    BY <1>0 DEF JobRun, JO!Idle, JO!DexSync, JO!PriceRefresh, JO!Poketrace
  <2>2. t \in [phase : {"images"}, left : Int, made : Nat, day : Nat]
    BY <1>0, <2>1
  <2> QED BY <1>0, <2>2 DEF JobRun, JobLogged, JO!DexSync, JO!PriceRefresh, JO!Poketrace
<1> SUFFICES ASSUME t # r, r.phase = "snapshot",
                    \/ t = [r EXCEPT !.stale = TRUE]
                    \/ t = [r EXCEPT !.today = FALSE]
                    \/ \E c \in JobCards : t = [r EXCEPT !.gone = @ \cup {c}]
             PROVE  JobRun(k, t) /\ JobLogged(k, t, status, done)
  BY <1>0
<1>1. PICK known \in SUBSET JobCards :
        r \in [phase : {"snapshot"}, source : JO!Sources, flag : BOOLEAN,
               rows : [JobCards -> {JO!NoRow} \cup 1..MaxQty], qtys : [known -> 1..MaxQty],
               today : BOOLEAN, stale : BOOLEAN, gone : SUBSET JobCards]
  BY DEF JobRun, JO!Idle
<1>2. /\ t \in [phase : {"snapshot"}, source : JO!Sources, flag : BOOLEAN,
                rows : [JobCards -> {JO!NoRow} \cup 1..MaxQty], qtys : [known -> 1..MaxQty],
                today : BOOLEAN, stale : BOOLEAN, gone : SUBSET JobCards]
      /\ t.flag = r.flag
  <2> DEFINE R == [phase : {"snapshot"}, source : JO!Sources, flag : BOOLEAN,
                   rows : [JobCards -> {JO!NoRow} \cup 1..MaxQty], qtys : [known -> 1..MaxQty],
                   today : BOOLEAN, stale : BOOLEAN, gone : SUBSET JobCards]
  <2>1. CASE t = [r EXCEPT !.stale = TRUE]
    BY <1>1, <2>1
  <2>2. CASE t = [r EXCEPT !.today = FALSE]
    BY <1>1, <2>2
  <2>3. ASSUME NEW c \in JobCards, t = [r EXCEPT !.gone = @ \cup {c}]
        PROVE  t \in R /\ t.flag = r.flag
    <3>1. r.gone \cup {c} \in SUBSET JobCards
      BY <1>1
    <3> QED BY <1>1, <2>3, <3>1
  <2> QED BY <2>1, <2>2, <2>3
<1>3. JobRun(k, t)
  BY <1>1, <1>2 DEF JobRun, JO!Idle
<1>4. JobLogged(k, t, status, done)
  BY <1>1, <1>2 DEF JobLogged, JO!Idle
<1> QED BY <1>3, <1>4

LEMMA WriteStep ==
  ASSUME JobsInv, NEW j \in SnapshotJobs \cap {JO!DexSync, JO!PriceRefresh}, JO!WriteSnapshot(j)
  PROVE  JobsInv'
<1> DEFINE r == s3[j]
           end == IF j = JO!DexSync THEN JO!Idle
                  ELSE [phase |-> "images", degraded |-> r.flag]
<1>1. PICK known \in SUBSET JobCards :
        r \in [phase : {"snapshot"}, source : JO!Sources, flag : BOOLEAN,
               rows : [JobCards -> {JO!NoRow} \cup 1..MaxQty], qtys : [known -> 1..MaxQty],
               today : BOOLEAN, stale : BOOLEAN, gone : SUBSET JobCards]
  BY DEF JO!WriteSnapshot, JobsInv, JobRun, JO!Idle
<1>2. /\ s3'[j] = end /\ DOMAIN s3' = SnapshotJobs
      /\ \A k \in SnapshotJobs \ {j} :
           s3'[k] = s3[k] \/ (s3[k].phase = "snapshot" /\ s3'[k] = [s3[k] EXCEPT !.stale = TRUE])
      /\ j # JO!DexSync /\ JO!DexSync \in SnapshotJobs /\ s3[JO!DexSync].phase = "snapshot" =>
           s3'[JO!DexSync] = [s3[JO!DexSync] EXCEPT !.stale = TRUE]
      /\ UNCHANGED <<s1, s6, s7, s8>>
  BY DEF JO!WriteSnapshot, JO!After, JO!requests
<1>3. /\ s5'[j] = s5[j] \cup {"snapshot"} /\ s5' \in [SnapshotJobs -> Dones]
      /\ \A k \in SnapshotJobs \ {j} : s5'[k] = s5[k]
  BY DonesAre DEF JO!WriteSnapshot, JobsInv, JobsTyped
<1>4. /\ s4'[j] = (IF j = JO!DexSync /\ r.flag THEN "empty" ELSE s4[j])
      /\ DOMAIN s4' = SnapshotJobs /\ \A k \in SnapshotJobs \ {j} : s4'[k] = s4[k]
  BY DEF JO!WriteSnapshot, JobsInv
<1>5. JobRun(j, s3'[j]) /\ JobLogged(j, s3'[j], s4'[j], s5'[j])
  <2>1. JobLogged(j, r, s4[j], s5[j])
    BY DEF JobsInv
  <2>2. CASE j = JO!DexSync
    BY <1>1, <1>2, <1>3, <1>4, <2>1, <2>2 DEF JobRun, JobLogged, JO!Idle, JO!DexSync, JO!PriceRefresh
  <2>3. CASE j = JO!PriceRefresh /\ j # JO!DexSync
    <3>1. s3'[j] \in [phase : {"images"}, degraded : BOOLEAN] /\ s3'[j].degraded = r.flag
      BY <1>1, <1>2, <2>3
    <3> QED BY <1>1, <1>3, <1>4, <2>1, <2>3, <3>1 DEF JobRun, JobLogged, JO!Idle, Passes
  <2> QED BY <2>2, <2>3
<1>6. \A k \in SnapshotJobs : JobRun(k, s3'[k]) /\ JobLogged(k, s3'[k], s4'[k], s5'[k])
  <2>1. ASSUME NEW k \in SnapshotJobs \ {j} PROVE JobRun(k, s3'[k]) /\ JobLogged(k, s3'[k], s4'[k], s5'[k])
    <3>1. JobRun(k, s3[k]) /\ JobLogged(k, s3[k], s4[k], s5[k]) /\ s4'[k] = s4[k] /\ s5'[k] = s5[k]
      BY <1>3, <1>4 DEF JobsInv
    <3>2. JobRun(k, s3'[k]) /\ JobLogged(k, s3'[k], s4[k], s5[k])
      BY <1>2, <3>1, StillRuns
    <3> QED BY <3>1, <3>2
  <2> QED BY <1>5, <2>1
<1>7. s2' \in [JO!Sources -> [JobCards -> {JO!NoRow} \cup 1..MaxQty]]
  <2> DEFINE new == [c \in JobCards |-> IF c \in JO!Written(j) THEN r.qtys[c] ELSE s2[r.source][c]]
  <2>1. new \in [JobCards -> {JO!NoRow} \cup 1..MaxQty]
    BY <1>1 DEF JO!Written, JobsInv, JobsTyped
  <2>2. s2' = (IF r.today THEN [s2 EXCEPT ![r.source] = new] ELSE s2)
    BY DEF JO!WriteSnapshot
  <2> HIDE DEF new
  <2> QED BY <2>1, <2>2 DEF JobsInv, JobsTyped
<1>8. JobsTyped'
  <2>1. \A k \in SnapshotJobs : s4'[k] \in Statuses
    BY <1>4 DEF JobsInv, JobsTyped, Statuses
  <2> QED BY <1>2, <1>3, <1>6, <1>7, <2>1, PhasesAre DEF JobsInv, JobsTyped, Statuses
<1>9. ReadIsSo'
  <2>1. CASE j = JO!DexSync
    BY <1>2, <2>1 DEF ReadIsSo, JO!Idle
  <2>2. CASE j # JO!DexSync
    <3>1. ASSUME JO!DexSync \in SnapshotJobs, s3'[JO!DexSync].phase = "snapshot"
          PROVE  /\ s3[JO!DexSync].phase = "snapshot"
                 /\ s3'[JO!DexSync].stale /\ s3'[JO!DexSync].qtys = s3[JO!DexSync].qtys
      <4>1. JobRun(JO!DexSync, s3[JO!DexSync])
        BY <3>1 DEF JobsInv
      <4>2. s3[JO!DexSync].phase = "snapshot"
        BY <1>2, <2>2, <3>1
      <4> QED BY <1>2, <2>2, <3>1, <4>1, <4>2 DEF JobRun, JO!Idle
    <3> QED BY <1>2, <3>1 DEF JobsInv, ReadIsSo, JO!Known
  <2> QED BY <2>1, <2>2
<1> QED BY <1>2, <1>4, <1>6, <1>8, <1>9 DEF JobsInv

LEMMA DeleteStep == ASSUME JobsInv, NEW c \in JobCards, JO!DeleteCard(c) PROVE JobsInv'
<1>1. /\ s1' = [s1 EXCEPT ![c] = 0]
      /\ s2' = [s \in JO!Sources |-> [s2[s] EXCEPT ![c] = JO!NoRow]]
      /\ UNCHANGED <<s4, s5, s6, s7, s8>>
      /\ DOMAIN s3' = SnapshotJobs
      /\ \A k \in SnapshotJobs :
           \/ s3'[k] = s3[k] /\ s3[k].phase # "snapshot"
           \/ s3[k].phase = "snapshot" /\ s3'[k] = [s3[k] EXCEPT !.gone = @ \cup {c}]
  BY DEF JO!DeleteCard, JO!requests
<1>2. \A k \in SnapshotJobs : JobRun(k, s3'[k]) /\ JobLogged(k, s3'[k], s4'[k], s5'[k])
  <2> SUFFICES ASSUME NEW k \in SnapshotJobs PROVE JobRun(k, s3'[k]) /\ JobLogged(k, s3'[k], s4'[k], s5'[k])
    OBVIOUS
  <2>1. JobRun(k, s3[k]) /\ JobLogged(k, s3[k], s4[k], s5[k]) /\ s4'[k] = s4[k] /\ s5'[k] = s5[k]
    BY <1>1 DEF JobsInv
  <2>2. JobRun(k, s3'[k]) /\ JobLogged(k, s3'[k], s4[k], s5[k])
    BY <1>1, <2>1, StillRuns
  <2> QED BY <2>1, <2>2
<1>3. JobsTyped'
  <2>1. s1' \in [JobCards -> 0..MaxQty]
    BY <1>1, JobsAssumption DEF JobsInv, JobsTyped
  <2>2. s2' \in [JO!Sources -> [JobCards -> {JO!NoRow} \cup 1..MaxQty]]
    BY <1>1 DEF JobsInv, JobsTyped
  <2> QED BY <1>1, <1>2, <2>1, <2>2, PhasesAre DEF JobsInv, JobsTyped
<1>4. ReadIsSo'
  <2> DEFINE d == JO!DexSync
  <2> SUFFICES ASSUME d \in SnapshotJobs, s3'[d].phase = "snapshot", NEW k \in JobCards, s1'[k] > 0
               PROVE  /\ k \in DOMAIN s3'[d].qtys /\ s3'[d].qtys[k] = s1'[k]
                      /\ s3'[d].today /\ ~s3'[d].stale => s3'[d].rows[k] = s2'[s3'[d].source][k]
    BY DEF ReadIsSo, JO!Known
  <2>1. k # c /\ s1'[k] = s1[k]
    BY <1>1, JobsAssumption DEF JobsInv, JobsTyped
  <2>2. s3[d].phase = "snapshot" /\ s3'[d] = [s3[d] EXCEPT !.gone = @ \cup {c}]
    BY <1>1
  <2>3. PICK known \in SUBSET JobCards :
          s3[d] \in [phase : {"snapshot"}, source : JO!Sources, flag : BOOLEAN,
                     rows : [JobCards -> {JO!NoRow} \cup 1..MaxQty], qtys : [known -> 1..MaxQty],
                     today : BOOLEAN, stale : BOOLEAN, gone : SUBSET JobCards]
    BY <2>2 DEF JobsInv, JobRun, JO!Idle
  <2>4. /\ s3'[d].qtys = s3[d].qtys /\ s3'[d].rows = s3[d].rows /\ s3'[d].source = s3[d].source
        /\ s3'[d].today = s3[d].today /\ s3'[d].stale = s3[d].stale
    BY <2>2, <2>3
  <2>5. s2'[s3[d].source][k] = s2[s3[d].source][k]
    BY <1>1, <2>1, <2>3 DEF JobsInv, JobsTyped
  <2> QED BY <2>1, <2>2, <2>4, <2>5 DEF JobsInv, ReadIsSo, JO!Known
<1> QED BY <1>1, <1>2, <1>3, <1>4 DEF JobsInv

LEMMA MidnightStep == ASSUME JobsInv, JO!Midnight PROVE JobsInv'
<1>1. /\ s2' = JO!NoSnapshots
      /\ UNCHANGED <<s1, s4, s5>> /\ s6' = 0 /\ s7' = 0 /\ s8' = 0
      /\ DOMAIN s3' = SnapshotJobs
      /\ \A k \in SnapshotJobs :
           \/ s3'[k] = s3[k] /\ s3[k].phase # "snapshot"
           \/ s3[k].phase = "snapshot" /\ s3'[k] = [s3[k] EXCEPT !.today = FALSE]
           \/ k = JO!Poketrace /\ s3[k].phase = "images" /\ s3'[k] = [s3[k] EXCEPT !.day = 0]
  BY DEF JO!Midnight
<1>2. \A k \in SnapshotJobs : JobRun(k, s3'[k]) /\ JobLogged(k, s3'[k], s4'[k], s5'[k])
  <2> SUFFICES ASSUME NEW k \in SnapshotJobs PROVE JobRun(k, s3'[k]) /\ JobLogged(k, s3'[k], s4'[k], s5'[k])
    OBVIOUS
  <2>1. JobRun(k, s3[k]) /\ JobLogged(k, s3[k], s4[k], s5[k]) /\ s4'[k] = s4[k] /\ s5'[k] = s5[k]
    BY <1>1 DEF JobsInv
  <2>2. JobRun(k, s3'[k]) /\ JobLogged(k, s3'[k], s4[k], s5[k])
    BY <1>1, <2>1, StillRuns
  <2> QED BY <2>1, <2>2
<1>3. JobsTyped'
  BY <1>1, <1>2, PhasesAre DEF JobsInv, JobsTyped, JO!NoSnapshots
<1>4. ReadIsSo'
  <2> DEFINE d == JO!DexSync
  <2> SUFFICES ASSUME d \in SnapshotJobs, s3'[d].phase = "snapshot", NEW k \in JobCards, s1'[k] > 0
               PROVE  k \in DOMAIN s3'[d].qtys /\ s3'[d].qtys[k] = s1'[k] /\ ~s3'[d].today
    BY DEF ReadIsSo, JO!Known
  <2>1. s3[d].phase = "snapshot" /\ s3'[d] = [s3[d] EXCEPT !.today = FALSE]
    BY <1>1 DEF JO!DexSync, JO!Poketrace
  <2>2. s3'[d].qtys = s3[d].qtys /\ ~s3'[d].today
    BY <2>1 DEF JobsInv, JobRun, JO!Idle
  <2> QED BY <1>1, <2>1, <2>2 DEF JobsInv, ReadIsSo, JO!Known
<1> QED BY <1>1, <1>2, <1>3, <1>4 DEF JobsInv

LEMMA JobsStep == ASSUME JobsInv, JO!Next PROVE JobsInv'
<1>2. ASSUME NEW j \in SnapshotJobs,
             (\E trigger \in {"cron", "manual"} : JO!Start(j, trigger)) \/ JO!RunSmall(j) \/ JO!Fail(j) \/ JO!Kill(j)
               \/ JO!Interrupted(j)
      PROVE  JobsInv'
  BY <1>2, OwnSteps
<1>3. CASE JO!AbortSync \/ JO!EmptyFolder
  BY <1>3, OwnSteps DEF JO!AbortSync, JO!EmptyFolder
<1>4. CASE JO!FillImages \/ \E p \in {"ok", "degraded"}, t \in {"ok", "degraded", "failed"} : JO!RefreshPrices(p, t)
  <2>1. JO!PriceRefresh \in SnapshotJobs
    BY <1>4 DEF JO!FillImages, JO!RefreshPrices
  <2> QED BY <1>4, <2>1, OwnSteps
<1>5. CASE \/ JO!Skip \/ JO!Connect \/ JO!Request
           \/ \E status \in {"ok", "failed", "degraded"} : JO!Stop(status)
  <2>1. JO!Poketrace \in SnapshotJobs
    BY <1>5 DEF JO!Skip, JO!Connect, JO!Request, JO!Stop
  <2> QED BY <1>5, <2>1, OwnSteps
<1> QED BY <1>2, <1>3, <1>4, <1>5, ImportStep, ReadStep, WriteStep, DeleteStep, MidnightStep DEF JO!Next

\* What is not written again is what was read, which is so.
LEMMA SnapshotStep == ASSUME JobsInv PROVE JO!SnapshotIsPostSync
<1> DEFINE d == JO!DexSync
           r == s3[d]
<1> SUFFICES ASSUME d \in SnapshotJobs, JO!WriteSnapshot(d), r.today, ~r.stale, NEW c \in JO!Known
             PROVE  s2'[r.source][c] = s1[c]
  BY DEF JO!SnapshotIsPostSync
<1>1. c \in DOMAIN r.qtys /\ r.qtys[c] = s1[c] /\ r.rows[c] = s2[r.source][c]
  BY DEF JO!WriteSnapshot, JobsInv, ReadIsSo
<1>2. r.source \in JO!Sources /\ c \in JobCards
  BY DEF JO!WriteSnapshot, JobsInv, JobRun, JO!Idle, JO!Known
<1>3. s2'[r.source][c] = (IF c \in JO!Written(d) THEN r.qtys[c] ELSE s2[r.source][c])
  BY <1>2 DEF JO!WriteSnapshot, JobsInv, JobsTyped
<1>4. c \in JO!Written(d) <=> r.qtys[c] # r.rows[c]
  BY <1>1 DEF JO!Written
<1> QED BY <1>1, <1>3, <1>4

-----------------------------------------------------------------------------
(* DailyJobs, the other jobs *)

\* A run of PokeTrace's job has what was left of the cap when it connected; those of
\* its requests that were made since midnight are not in a row yet.
CapInv ==
  LET r == s3[SJ!Poketrace]
  IN  /\ {s6, s7, s8} \subseteq Nat
      /\ DOMAIN s3 = OtherJobs
      /\ s6 <= DailyCap
      /\ IF SJ!Poketrace \in OtherJobs /\ r.phase = "images"
         THEN /\ r \in [phase : {"images"}, left : Nat, made : Nat, day : Nat] /\ r.day <= r.made /\ r.made <= r.left
              /\ s6 + r.left <= DailyCap /\ s7 <= s6 + s8 + r.day
         ELSE s7 <= s6 + s8
      /\ SJ!Poketrace \in OtherJobs => r.phase \in {"idle", "body", "images", "killed"}

LEMMA CapStep == ASSUME CapInv, SJ!Next PROVE CapInv'
<1> DEFINE P == SJ!Poketrace
           r == s3[P]
<1> USE DEF CapInv, SJ!requests, SJ!Recorded
<1>0. SJ!Idle.phase = "idle" /\ P \notin {SJ!DexSync, SJ!PriceRefresh} /\ P \notin SJ!Small
  BY DEF SJ!Idle, SJ!Poketrace, SJ!DexSync, SJ!PriceRefresh, SJ!Small
<1>1. ASSUME UNCHANGED <<s6, s7, s8>>, DOMAIN s3' = OtherJobs, P \in OtherJobs => s3'[P] = s3[P]
      PROVE  CapInv'
  BY <1>1
<1>2. ASSUME NEW j \in OtherJobs \ {P}, NEW t, s3' = [s3 EXCEPT ![j] = t], UNCHANGED <<s6, s7, s8>>
      PROVE  CapInv'
  BY <1>1, <1>2
<1>3. CASE SJ!AbortSync \/ SJ!EmptyFolder \/ SJ!ImportExports \/ SJ!FillImages
  BY <1>0, <1>2, <1>3 DEF SJ!AbortSync, SJ!EmptyFolder, SJ!ImportExports, SJ!FillImages
<1>4. ASSUME NEW p, NEW t, SJ!RefreshPrices(p, t) PROVE CapInv'
  BY <1>0, <1>2, <1>4 DEF SJ!RefreshPrices
<1>5. ASSUME NEW j \in OtherJobs \cap {SJ!DexSync, SJ!PriceRefresh}, SJ!ReadForSnapshot(j) PROVE CapInv'
  BY <1>0, <1>2, <1>5 DEF SJ!ReadForSnapshot
<1>6. ASSUME NEW j \in OtherJobs \cap {SJ!DexSync, SJ!PriceRefresh}, SJ!WriteSnapshot(j) PROVE CapInv'
  BY <1>0, <1>1, <1>6 DEF SJ!WriteSnapshot, SJ!After
<1>7. ASSUME NEW c, SJ!DeleteCard(c) PROVE CapInv'
  BY <1>1, <1>7 DEF SJ!DeleteCard
<1>8. CASE SJ!Midnight
  <2>1. /\ s6' = 0 /\ s7' = 0 /\ s8' = 0 /\ DOMAIN s3' = OtherJobs
        /\ P \in OtherJobs => s3'[P] = IF r.phase = "images" THEN [r EXCEPT !.day = 0] ELSE r
    BY <1>8 DEF SJ!Midnight
  <2>2. CASE P \in OtherJobs /\ r.phase = "images"
    <3>1. /\ s3'[P] \in [phase : {"images"}, left : Nat, made : Nat, day : Nat]
          /\ s3'[P].made = r.made /\ s3'[P].left = r.left /\ s3'[P].day = 0
      BY <2>1, <2>2
    <3> QED BY <2>1, <2>2, <3>1, JobsAssumption
  <2> QED BY <2>1, <2>2, JobsAssumption
<1>9. ASSUME NEW j \in OtherJobs, NEW trigger, SJ!Start(j, trigger) PROVE CapInv'
  <2>1. CASE j = P
    <3>1. s3'[P].phase = "body" /\ r.phase = "idle" /\ DOMAIN s3' = OtherJobs /\ UNCHANGED <<s6, s7, s8>>
      BY <1>0, <1>9, <2>1 DEF SJ!Start
    <3> QED BY <1>9, <2>1, <3>1
  <2> QED BY <1>2, <1>9, <2>1 DEF SJ!Start
<1>10. ASSUME NEW j \in OtherJobs, SJ!RunSmall(j) \/ SJ!Fail(j) PROVE CapInv'
  BY <1>0, <1>2, <1>10 DEF SJ!RunSmall, SJ!Fail
<1>11. ASSUME NEW j \in OtherJobs, SJ!Kill(j) PROVE CapInv'
  <2>1. CASE j = P
    <3>1. s3'[P].phase = "killed" /\ DOMAIN s3' = OtherJobs /\ UNCHANGED <<s6, s7>>
          /\ s8' = (IF r.phase = "images" THEN s8 + r.day ELSE s8)
      BY <1>0, <1>11, <2>1 DEF SJ!Kill
    <3> QED BY <1>11, <2>1, <3>1
  <2>2. CASE j # P
    BY <1>2, <1>11, <2>2 DEF SJ!Kill
  <2> QED BY <2>1, <2>2
<1>16. ASSUME NEW j \in OtherJobs, SJ!Interrupted(j) PROVE CapInv'
  <2>1. CASE j = P
    <3>1. s3'[P].phase = "idle" /\ r.phase = "killed" /\ DOMAIN s3' = OtherJobs /\ UNCHANGED <<s6, s7, s8>>
      BY <1>0, <1>16, <2>1 DEF SJ!Interrupted
    <3> QED BY <1>16, <2>1, <3>1
  <2>2. CASE j # P
    BY <1>2, <1>16, <2>2 DEF SJ!Interrupted
  <2> QED BY <2>1, <2>2
<1>12. CASE SJ!Skip
  <2>1. s3'[P].phase = "idle" /\ r.phase = "body" /\ DOMAIN s3' = OtherJobs /\ UNCHANGED <<s6, s7, s8>>
    BY <1>0, <1>12 DEF SJ!Skip
  <2> QED BY <1>12, <2>1 DEF SJ!Skip
<1>13. CASE SJ!Connect
  <2>1. /\ s3'[P] = [phase |-> "images", left |-> DailyCap - s6, made |-> 0, day |-> 0]
        /\ r.phase = "body" /\ s6 < DailyCap /\ DOMAIN s3' = OtherJobs /\ UNCHANGED <<s6, s7, s8>>
    BY <1>13 DEF SJ!Connect, SJ!Left
  <2> QED BY <2>1, JobsAssumption
<1>14. CASE SJ!Request
  <2>1. /\ s3' = [s3 EXCEPT ![P].made = @ + 1, ![P].day = @ + 1] /\ s7' = s7 + 1 /\ UNCHANGED <<s6, s8>>
        /\ r.phase = "images" /\ r.made < r.left
    BY <1>14 DEF SJ!Request
  <2>2. P \in OtherJobs /\ s3'[P] = [r EXCEPT !.made = @ + 1, !.day = @ + 1] /\ DOMAIN s3' = OtherJobs
    BY <1>14, <2>1 DEF SJ!Request
  <2> QED BY <2>1, <2>2
<1>15. ASSUME NEW status, SJ!Stop(status) PROVE CapInv'
  <2>1. /\ s3'[P].phase = "idle" /\ r.phase = "images" /\ DOMAIN s3' = OtherJobs
        /\ s6' = s6 + r.made /\ UNCHANGED <<s7, s8>> /\ P \in OtherJobs
    BY <1>0, <1>15 DEF SJ!Stop
  <2> QED BY <2>1, JobsAssumption
<1> QED BY <1>3, <1>4, <1>5, <1>6, <1>7, <1>8, <1>9, <1>10, <1>11, <1>12, <1>13, <1>14, <1>15, <1>16 DEF SJ!Next

LEMMA CapBegin == ASSUME SJ!Init PROVE CapInv
BY JobsAssumption DEF SJ!Init, CapInv, SJ!Idle

LEMMA CapHolds == ASSUME CapInv PROVE SJ!RecordedWithinCap
BY JobsAssumption DEF CapInv, SJ!RecordedWithinCap

\* "ok" means done, recorded requests stay within the cap and a sync's snapshot has the
\* sync's quantities: for any cards, jobs, quantities and caps, however runs fail, are
\* killed and overlap.
THEOREM JobsDo == DailySpec => JobsDoAsLogged
<1> DEFINE I == (part = "jobs" => JobsInv) /\ (part = "small jobs" => CapInv)
           Good == part = "jobs" => JO!SnapshotIsPostSync
           svars == <<s1, s2, s3, s4, s5, s6, s7, s8>>
<1>1. DailyInit => I
  BY JobsBegin, CapBegin DEF DailyInit
<1>2. I /\ [DailyNext]_dailyvars => I'
  <2> SUFFICES ASSUME I, [DailyNext]_dailyvars PROVE I'
    OBVIOUS
  <2>1. part' = part
    BY DEF DailyNext, dailyvars
  <2>2. CASE part = "jobs"
    <3>1. JO!Next \/ UNCHANGED svars
      BY <2>2 DEF DailyNext, OtherPart, dailyvars
    <3>2. ASSUME UNCHANGED svars PROVE JobsInv'
      BY <2>2, <3>2 DEF JobsInv, JobsTyped, JobRun, JobLogged, ReadIsSo, JO!Known
    <3> QED BY <2>1, <2>2, <3>1, <3>2, JobsStep
  <2>3. CASE part = "small jobs"
    <3>1. SJ!Next \/ UNCHANGED svars
      BY <2>3 DEF DailyNext, OtherPart, dailyvars
    <3>2. ASSUME UNCHANGED svars PROVE CapInv'
      BY <2>3, <3>2 DEF CapInv
    <3> QED BY <2>1, <2>3, <3>1, <3>2, CapStep
  <2> QED BY <2>1, <2>2, <2>3
<1>3. I => (part = "jobs" => JO!OkMeansDone)
  <2> SUFFICES ASSUME JobsInv PROVE JO!OkMeansDone
    OBVIOUS
  <2> SUFFICES ASSUME NEW j \in SnapshotJobs, s3[j] = JO!Idle, j \in {JO!DexSync, JO!PriceRefresh}
               PROVE  /\ j = JO!DexSync /\ s4[j] = "ok" =>
                           s5[j] = {"import", "snapshot"} \/ {"import", "killed"} \subseteq s5[j]
                      /\ j = JO!DexSync /\ s4[j] \in {"aborted", "empty"} => "import" \notin s5[j]
                      /\ j = JO!PriceRefresh /\ s4[j] = "ok" =>
                           {"pokemontcg", "snapshot"} \subseteq s5[j] /\ s5[j] \cap {"tcgdex", "tcgdex failed"} # {}
    BY DEF JO!OkMeansDone
  <2>1. s3[j].phase = "idle" /\ JobLogged(j, s3[j], s4[j], s5[j])
    BY DEF JobsInv, JO!Idle
  <2> QED BY <2>1 DEF JobLogged, Passes
<1>4. I => (part = "small jobs" => SJ!RecordedWithinCap) /\ Good
  BY CapHolds, SnapshotStep
<1> HIDE DEF I
<1>5. I /\ [DailyNext]_dailyvars => [part = "jobs" => JO!SnapshotIsPostSync]_dailyvars
  BY <1>4
<1> QED BY <1>1, <1>2, <1>3, <1>4, <1>5, PTL DEF DailySpec, JobsDoAsLogged

-----------------------------------------------------------------------------
(* Prices *)

PriceRow == [priced : BOOLEAN, age : PR!Ages, failed : PR!Ages, exists : BOOLEAN]
MarketRow == [source : PR!Sources \cup {PR!None}, age : PR!Ages, stale : BOOLEAN]

\* The sources each job writes: what one of them reads of its rows is so until it commits.
WritesOf(j) == IF j = "dex-sync" THEN {PR!DEX} ELSE {PR!TP, PR!PK, PR!CM}

SomePriced(rows) == \E s \in PR!Sources : rows[s].priced

\* An open transaction: what it writes keeps the price of a source that has one, and no
\* other print's row comes back; its market price is of the rows it saw, which are so,
\* and it was compared with the card's, unless the other job has committed since.
TxSound(j, t) ==
  /\ t = [open |-> TRUE, rows |-> t.rows, market |-> t.market, compared |-> t.compared,
          changed |-> t.changed, stale |-> t.stale]
  /\ DOMAIN t.rows \subseteq WritesOf(j) /\ \A s \in DOMAIN t.rows : t.rows[s] \in PriceRow
  /\ \A s \in DOMAIN t.rows : (t.rows[s].priced \/ t.rows[s].failed < PriceOld) => t.rows[s].exists
  /\ t.compared \in BOOLEAN /\ t.changed \in BOOLEAN /\ t.market \in MarketRow /\ t.stale \in BOOLEAN
  /\ t.market.source = PR!None => t.market = PR!NoMarket
  /\ \A s \in DOMAIN t.rows :
       /\ s2[s].priced => t.rows[s].priced \/ (s \in PR!TcgplayerSources /\ ~s1)
       /\ ~s1 /\ s \in PR!TcgplayerSources /\ ~s2[s].exists => ~t.rows[s].exists
  /\ ~t.stale => /\ t.market = PR!Resolved(PR!Over(t.rows, s2))
                 /\ t.compared => t.changed \/ t.market = s3
  /\ s1 /\ t.market.source # PR!None => SomePriced(PR!Over(t.rows, s2))

PricesInv ==
  /\ PR!TypeOK
  /\ s3.source = PR!None => s3 = PR!NoMarket
  /\ s1 /\ s3.source # PR!None => SomePriced(s2)
  /\ s6 => s3 = PR!Resolved(s2)
  /\ \A j \in PR!Jobs : s4[j] = PR!NoTx \/ TxSound(j, s4[j])
  /\ DOMAIN s4 = PR!Jobs

LEMMA SourcesDiffer ==
  /\ PR!TP # PR!PK /\ PR!TP # PR!DEX /\ PR!TP # PR!CM /\ PR!PK # PR!DEX /\ PR!PK # PR!CM /\ PR!DEX # PR!CM
  /\ PR!None \notin PR!Sources
BY DEF PR!Sources, PR!TP, PR!PK, PR!DEX, PR!CM, PR!None

\* The chain is a linear order.
LEMMA ChainOrder ==
  ASSUME NEW s \in PR!Sources, NEW t \in PR!Sources
  PROVE  /\ s # t => PR!Before(s, t) \/ PR!Before(t, s)
         /\ ~(PR!Before(s, t) /\ PR!Before(t, s))
         /\ PR!Before(PR!TP, PR!PK) /\ PR!Before(PR!TP, PR!DEX) /\ PR!Before(PR!TP, PR!CM)
         /\ PR!Before(PR!PK, PR!DEX) /\ PR!Before(PR!PK, PR!CM) /\ PR!Before(PR!DEX, PR!CM)
<1> DEFINE place(u) == IF u = PR!TP THEN 1 ELSE IF u = PR!PK THEN 2 ELSE IF u = PR!DEX THEN 3 ELSE 4
<1>1. DOMAIN PR!CHAIN = 1..4
  BY DEF PR!CHAIN
<1>2. PR!CHAIN[1] = PR!TP /\ PR!CHAIN[2] = PR!PK /\ PR!CHAIN[3] = PR!DEX /\ PR!CHAIN[4] = PR!CM
  BY DEF PR!CHAIN
<1>3. \A u, v \in PR!Sources : PR!Before(u, v) <=> place(u) < place(v)
  <2> SUFFICES ASSUME NEW u \in PR!Sources, NEW v \in PR!Sources PROVE PR!Before(u, v) <=> place(u) < place(v)
    OBVIOUS
  <2>1. \A i \in 1..4 : place(PR!CHAIN[i]) = i
    BY <1>2, SourcesDiffer
  <2>2. place(u) \in 1..4 /\ place(v) \in 1..4 /\ PR!CHAIN[place(u)] = u /\ PR!CHAIN[place(v)] = v
    BY <1>2 DEF PR!Sources
  <2> HIDE DEF place
  <2> QED BY <1>1, <2>1, <2>2 DEF PR!Before
<1>4. \A u, v \in PR!Sources : place(u) = place(v) => u = v
  BY DEF PR!Sources
<1>5. \A u \in PR!Sources : place(u) \in 1..4
  OBVIOUS
<1>6. /\ PR!Before(PR!TP, PR!PK) /\ PR!Before(PR!TP, PR!DEX) /\ PR!Before(PR!TP, PR!CM)
      /\ PR!Before(PR!PK, PR!DEX) /\ PR!Before(PR!PK, PR!CM) /\ PR!Before(PR!DEX, PR!CM)
  BY <1>3, SourcesDiffer DEF PR!Sources
<1> HIDE DEF place
<1> QED BY <1>3, <1>4, <1>5, <1>6

LEMMA FirstOf ==
  ASSUME NEW S \in SUBSET PR!Sources, S # {}
  PROVE  PR!First(S) \in S /\ \A t \in S \ {PR!First(S)} : PR!Before(PR!First(S), t)
<1>1. \E s \in S : \A t \in S \ {s} : PR!Before(s, t)
  <2>1. CASE PR!TP \in S
    BY <2>1, ChainOrder DEF PR!Sources
  <2>2. CASE PR!TP \notin S /\ PR!PK \in S
    BY <2>2, ChainOrder DEF PR!Sources
  <2>3. CASE PR!TP \notin S /\ PR!PK \notin S /\ PR!DEX \in S
    BY <2>3, ChainOrder DEF PR!Sources
  <2>4. CASE PR!TP \notin S /\ PR!PK \notin S /\ PR!DEX \notin S
    BY <2>4 DEF PR!Sources
  <2> QED BY <2>1, <2>2, <2>3, <2>4
<1> QED BY <1>1 DEF PR!First

\* resolve() picks the best source, and one that has a price.
LEMMA ResolvedIs ==
  ASSUME NEW rows, \A s \in PR!Sources : rows[s] \in PriceRow
  PROVE  LET m == PR!Resolved(rows)
         IN  /\ m \in MarketRow
             /\ m.source = PR!None => m = PR!NoMarket
             /\ m.source # PR!None <=> SomePriced(rows)
             /\ m.source # PR!None =>
                  /\ rows[m.source].priced
                  /\ m.age = rows[m.source].age
                  /\ m.stale <=> m.age > FreshDays
                  /\ \A t \in PR!Sources \ {m.source} :
                       rows[t].priced /\ (rows[m.source].age <= FreshDays => rows[t].age <= FreshDays) =>
                         IF rows[m.source].age <= FreshDays THEN PR!Before(m.source, t)
                         ELSE \/ rows[t].age > rows[m.source].age
                              \/ rows[t].age = rows[m.source].age /\ PR!Before(m.source, t)
<1> DEFINE priced == {s \in PR!Sources : rows[s].priced}
           fresh  == {s \in priced : PR!Fresh(rows[s])}
           newest == {s \in priced : \A t \in priced : rows[s].age <= rows[t].age}
           best   == PR!First(IF fresh # {} THEN fresh ELSE newest)
           m == PR!Resolved(rows)
<1>1. CASE priced = {}
  <2>1. m = PR!NoMarket
    BY <1>1 DEF PR!Resolved
  <2>2. PR!NoMarket.source = PR!None /\ PR!NoMarket \in MarketRow
    BY PricesAssumption DEF PR!NoMarket, MarketRow, PR!Ages
  <2> QED BY <1>1, <2>1, <2>2 DEF SomePriced
<1>2. CASE priced # {}
  <2>1. m = [source |-> best, age |-> rows[best].age, stale |-> fresh = {}]
    BY <1>2 DEF PR!Resolved
  <2>2. \A s \in PR!Sources : rows[s].age \in 0..PriceOld
    BY DEF PriceRow, PR!Ages
  <2>3. newest # {}
    <3> DEFINE ages == {rows[s].age : s \in priced}
    <3>1. ages \subseteq 0..PriceOld /\ ages # {}
      BY <1>2, <2>2
    <3>2. PICK a \in ages : \A b \in ages : a <= b
      BY <3>1, Extremes, PricesAssumption
    <3> QED BY <3>2
  <2>4. /\ best \in IF fresh # {} THEN fresh ELSE newest
        /\ \A t \in (IF fresh # {} THEN fresh ELSE newest) \ {best} : PR!Before(best, t)
    <3>1. (IF fresh # {} THEN fresh ELSE newest) \in SUBSET PR!Sources
      OBVIOUS
    <3>2. (IF fresh # {} THEN fresh ELSE newest) # {}
      BY <2>3
    <3> QED BY <3>1, <3>2, FirstOf
  <2>5. best \in PR!Sources /\ rows[best].priced
    BY <2>4
  <2> HIDE DEF best
  <2>6. m \in MarketRow /\ m.source = best /\ m.age = rows[best].age /\ m.source # PR!None /\ (m.stale <=> fresh = {})
    <3> DEFINE old == fresh = {}
    <3>1. old \in BOOLEAN /\ m = [source |-> best, age |-> rows[best].age, stale |-> old]
      BY <2>1
    <3> HIDE DEF old, m
    <3>2. m \in MarketRow /\ m.source = best /\ m.age = rows[best].age /\ m.source # PR!None /\ (m.stale <=> old)
      BY <2>2, <2>5, <3>1, SourcesDiffer DEF MarketRow, PR!Ages
    <3> QED BY <3>2 DEF old
  <2>7. fresh = {} <=> rows[best].age > FreshDays
    BY <2>2, <2>4, <2>5, PricesAssumption DEF PR!Fresh
  <2>8. SomePriced(rows)
    BY <2>5 DEF SomePriced
  <2>9. ASSUME NEW t \in PR!Sources \ {best}, rows[t].priced, rows[best].age <= FreshDays => rows[t].age <= FreshDays
        PROVE  IF rows[best].age <= FreshDays THEN PR!Before(best, t)
               ELSE \/ rows[t].age > rows[best].age
                    \/ rows[t].age = rows[best].age /\ PR!Before(best, t)
    <3>1. CASE fresh # {}
      BY <2>2, <2>4, <2>7, <2>9, <3>1, PricesAssumption DEF PR!Fresh
    <3>2. CASE fresh = {}
      <4>1. rows[best].age <= rows[t].age
        BY <2>4, <2>9, <3>2
      <4>2. rows[t].age = rows[best].age => t \in newest
        BY <2>4, <2>9, <3>2
      <4> QED BY <2>2, <2>4, <2>7, <3>2, <4>1, <4>2, PricesAssumption
    <3> QED BY <3>1, <3>2
  <2> HIDE DEF fresh
  <2> QED BY <2>2, <2>5, <2>6, <2>7, <2>8, <2>9, PricesAssumption
<1> QED BY <1>1, <1>2

\* What a transaction may write
NewSound(j, new) ==
  /\ DOMAIN new \subseteq WritesOf(j) /\ \A s \in DOMAIN new : new[s] \in PriceRow
  /\ \A s \in DOMAIN new : (new[s].priced \/ new[s].failed < PriceOld) => new[s].exists
  /\ \A s \in DOMAIN new :
       /\ s2[s].priced => new[s].priced \/ (s \in PR!TcgplayerSources /\ ~s1)
       /\ ~s1 /\ s \in PR!TcgplayerSources /\ ~s2[s].exists => ~new[s].exists

LEMMA OverIs ==
  ASSUME NEW new, NEW rows, DOMAIN rows = PR!Sources, DOMAIN new \subseteq PR!Sources,
         \A s \in PR!Sources : rows[s] \in PriceRow, \A s \in DOMAIN new : new[s] \in PriceRow
  PROVE  /\ PR!Over(new, rows) \in [PR!Sources -> PriceRow]
         /\ \A s \in PR!Sources : PR!Over(new, rows)[s] = IF s \in DOMAIN new THEN new[s] ELSE rows[s]
BY DEF PR!Over

LEMMA AgesAre ==
  /\ 0 \in PR!Ages /\ PriceOld \in PR!Ages
  /\ \A a \in PR!Ages : a \in Int /\ a <= PriceOld
  /\ \A a \in PR!Ages : PR!Older(a) \in PR!Ages /\ PR!Older(a) >= a /\ PR!Older(PriceOld) = PriceOld
BY PricesAssumption DEF PR!Ages, PR!Older

LEMMA WritesAre == \A j \in PR!Jobs : WritesOf(j) \subseteq PR!Sources
BY DEF WritesOf, PR!Sources

LEMMA WritesApart == \A j, k \in PR!Jobs : j # k => WritesOf(j) \cap WritesOf(k) = {}
BY SourcesDiffer DEF WritesOf, PR!Jobs

LEMMA BeginStep ==
  ASSUME PricesInv, NEW j \in PR!Jobs, NEW new, NewSound(j, new), PR!Begin(j, new),
         UNCHANGED <<s1, s2, s3, s6>>, s5' \in {"idle", "pokemontcg", "tcgdex", "tcgdex lookup", "resolve"}
  PROVE  PricesInv'
<1> DEFINE rows == PR!Over(new, s2)
           best == PR!Resolved(rows)
           t == [open |-> TRUE, rows |-> new, market |-> best, compared |-> FALSE, changed |-> FALSE, stale |-> FALSE]
<1>1. /\ rows \in [PR!Sources -> PriceRow]
      /\ \A s \in PR!Sources : rows[s] = IF s \in DOMAIN new THEN new[s] ELSE s2[s]
  <2>1. s2 \in [PR!Sources -> PriceRow]
    BY DEF PricesInv, PR!TypeOK, PriceRow
  <2>2. DOMAIN new \subseteq PR!Sources /\ \A s \in DOMAIN new : new[s] \in PriceRow
    BY WritesAre DEF NewSound
  <2>3. DOMAIN s2 = PR!Sources /\ \A s \in PR!Sources : s2[s] \in PriceRow
    BY <2>1
  <2> QED BY <2>2, <2>3 DEF PR!Over
<1>2. /\ best \in MarketRow /\ (best.source = PR!None => best = PR!NoMarket)
      /\ best.source # PR!None <=> SomePriced(rows)
  <2> HIDE DEF rows
  <2> QED BY <1>1, ResolvedIs
<1>4. TxSound(j, t)
  <2> HIDE DEF t
  <2>1. /\ t.rows = new /\ t.market = best /\ t.stale = FALSE /\ t.compared = FALSE /\ t.changed = FALSE
        /\ t = [open |-> TRUE, rows |-> t.rows, market |-> t.market, compared |-> t.compared,
                changed |-> t.changed, stale |-> t.stale]
    BY DEF t
  <2>2. t.market = PR!Resolved(PR!Over(t.rows, s2)) /\ SomePriced(PR!Over(t.rows, s2)) = SomePriced(rows)
    BY <2>1
  <2> HIDE DEF best, rows
  <2> QED BY <1>2, <2>1, <2>2 DEF TxSound, NewSound
<1>5. s4'[j] = t /\ DOMAIN s4' = PR!Jobs /\ \A k \in PR!Jobs \ {j} : s4'[k] = s4[k]
  BY DEF PR!Begin, PricesInv
<1> HIDE DEF t
<1>6. \A k \in PR!Jobs : (s4[k] = PR!NoTx \/ TxSound(k, s4[k]))'
  <2> SUFFICES ASSUME NEW k \in PR!Jobs, s4'[k] # PR!NoTx PROVE TxSound(k, s4[k])'
    OBVIOUS
  <2>1. TxSound(k, s4'[k])
    BY <1>4, <1>5 DEF PricesInv
  <2> QED BY <2>1 DEF TxSound
<1>7. PR!TypeOK'
  BY DEF PricesInv, PR!TypeOK
<1> QED BY <1>5, <1>6, <1>7 DEF PricesInv, SomePriced

\* The card's price is read after the rows.
LEMMA CompareStep == ASSUME PricesInv, NEW j \in PR!Jobs, PR!Compare(j) PROVE PricesInv'
<1> DEFINE t == s4[j]
           new == t.market # s3
           v == [open |-> TRUE, rows |-> t.rows, market |-> t.market, compared |-> TRUE, changed |-> new,
                 stale |-> t.stale]
<1>1. TxSound(j, t) /\ UNCHANGED <<s1, s2, s3, s5, s6>>
  BY DEF PR!Compare, PricesInv, PR!NoTx
<1>2. s4' = [s4 EXCEPT ![j].compared = TRUE, ![j].changed = new]
  BY DEF PR!Compare
<1>3. new \in BOOLEAN /\ (new \/ t.market = s3)
  OBVIOUS
<1>4. s4'[j] = v /\ DOMAIN s4' = PR!Jobs /\ \A k \in PR!Jobs \ {j} : s4'[k] = s4[k]
  <2>1. t = [open |-> TRUE, rows |-> t.rows, market |-> t.market, compared |-> t.compared,
             changed |-> t.changed, stale |-> t.stale]
    BY <1>1 DEF TxSound
  <2>2. s4' = [s4 EXCEPT ![j] = [t EXCEPT !.compared = TRUE, !.changed = new]]
    BY <1>2
  <2> HIDE DEF new
  <2>3. [t EXCEPT !.compared = TRUE, !.changed = new] = v
    <3> DEFINE yes == TRUE
    <3> HIDE DEF t, yes
    <3>1. t = [open |-> yes, rows |-> t.rows, market |-> t.market, compared |-> t.compared,
               changed |-> t.changed, stale |-> t.stale]
      BY ONLY <2>1 DEF yes
    <3> DEFINE w == [t EXCEPT !.compared = yes]
    <3>2. w = [open |-> yes, rows |-> t.rows, market |-> t.market, compared |-> yes, changed |-> t.changed,
               stale |-> t.stale]
      BY ONLY <3>1
    <3> HIDE DEF w
    <3>3. [w EXCEPT !.changed = new]
          = [open |-> yes, rows |-> t.rows, market |-> t.market, compared |-> yes, changed |-> new, stale |-> t.stale]
      BY ONLY <3>2
    <3> QED BY ONLY <3>3 DEF w, yes
  <2>4. DOMAIN s4 = PR!Jobs
    BY DEF PricesInv
  <2> HIDE DEF t, v
  <2> QED BY <2>2, <2>3, <2>4
<1>5. TxSound(j, v)
  <2> HIDE DEF new, t
  <2>1. /\ v.rows = t.rows /\ v.market = t.market /\ v.compared = TRUE /\ v.changed = new /\ v.stale = t.stale
        /\ v = [open |-> TRUE, rows |-> v.rows, market |-> v.market, compared |-> v.compared,
                changed |-> v.changed, stale |-> v.stale]
    OBVIOUS
  <2> HIDE DEF v
  <2> QED BY <1>1, <1>3, <2>1 DEF TxSound
<1> HIDE DEF v
<1>6. \A k \in PR!Jobs : (s4[k] = PR!NoTx \/ TxSound(k, s4[k]))'
  <2> SUFFICES ASSUME NEW k \in PR!Jobs, s4'[k] # PR!NoTx PROVE TxSound(k, s4[k])'
    OBVIOUS
  <2>1. TxSound(k, s4'[k])
    BY <1>4, <1>5 DEF PricesInv
  <2> QED BY <1>1, <2>1 DEF TxSound
<1>7. PR!TypeOK'
  BY <1>1 DEF PricesInv, PR!TypeOK
<1> QED BY <1>1, <1>4, <1>6, <1>7 DEF PricesInv, SomePriced

LEMMA CommitStep ==
  ASSUME PricesInv, NEW j \in PR!Jobs, PR!Commit(j)
  PROVE  /\ PricesInv'
         /\ PR!StaysPriced
         /\ PR!NoOtherPrint
<1> DEFINE t == s4[j]
<1>1. TxSound(j, t) /\ UNCHANGED <<s1, s5>>
  BY DEF PR!Commit, PricesInv, PR!NoTx
<1>2. s2' = PR!Over(t.rows, s2) /\ s3' = IF t.changed THEN t.market ELSE s3
  BY DEF PR!Commit
<1>3. /\ s2' \in [PR!Sources -> PriceRow]
      /\ \A s \in PR!Sources : s2'[s] = IF s \in DOMAIN t.rows THEN t.rows[s] ELSE s2[s]
  <2>1. s2 \in [PR!Sources -> PriceRow]
    BY DEF PricesInv, PR!TypeOK, PriceRow
  <2>2. DOMAIN t.rows \subseteq PR!Sources /\ \A s \in DOMAIN t.rows : t.rows[s] \in PriceRow
    BY <1>1, WritesAre DEF TxSound
  <2> QED BY <1>2, <2>1, <2>2, OverIs
<1>4. \A s \in PR!Sources : s2[s].priced => s2'[s].priced \/ (s \in PR!TcgplayerSources /\ ~s1)
  BY <1>1, <1>3 DEF TxSound
<1>5. \A s \in PR!TcgplayerSources : ~s1 /\ ~s2[s].exists => ~s2'[s].exists
  BY <1>1, <1>3 DEF TxSound, PR!TcgplayerSources, PR!Sources
<1>6. PR!TypeOK'
  <2>1. s3' \in MarketRow
    BY <1>1, <1>2 DEF TxSound, PricesInv, PR!TypeOK, MarketRow
  <2>2. \A s \in PR!Sources : (s2'[s].priced \/ s2'[s].failed < PriceOld) => s2'[s].exists
    BY <1>1, <1>3 DEF TxSound, PricesInv, PR!TypeOK
  <2>3. s6' \in BOOLEAN
    BY DEF PR!Commit
  <2> QED BY <1>1, <1>3, <2>1, <2>2, <2>3 DEF PricesInv, PR!TypeOK, MarketRow, PriceRow
<1>7. /\ s3'.source = PR!None => s3' = PR!NoMarket
      /\ s1 /\ s3'.source # PR!None => SomePriced(s2')
  <2>1. CASE t.changed
    BY <1>1, <1>2, <2>1 DEF TxSound
  <2>2. CASE ~t.changed
    BY <1>2, <1>4, <2>2 DEF PricesInv, SomePriced
  <2> QED BY <2>1, <2>2
<1>8. s6' => s3' = PR!Resolved(s2')
  <2>1. s6' = ~t.stale
    BY DEF PR!Commit
  <2>2. ~t.stale => s3' = PR!Resolved(s2')
    BY <1>1, <1>2 DEF TxSound, PR!Commit
  <2> QED BY <2>1, <2>2
<1>9. ASSUME NEW k \in PR!Jobs PROVE (s4[k] = PR!NoTx \/ TxSound(k, s4[k]))'
  <2>1. s4'[k] = (IF k = j THEN PR!NoTx ELSE IF s4[k].open THEN [s4[k] EXCEPT !.stale = TRUE] ELSE PR!NoTx)
    BY DEF PR!Commit
  <2> SUFFICES ASSUME k # j, s4[k].open PROVE TxSound(k, s4[k])'
    BY <2>1
  <2> DEFINE u == s4[k]
             v == s4'[k]
  <2>2. TxSound(k, u)
    BY DEF PricesInv, PR!NoTx
  <2>3. v = [open |-> TRUE, rows |-> u.rows, market |-> u.market, compared |-> u.compared,
             changed |-> u.changed, stale |-> TRUE]
    BY <2>1, <2>2 DEF TxSound
  <2>4. DOMAIN u.rows \cap DOMAIN t.rows = {}
    BY <1>1, <2>2, WritesApart DEF TxSound
  <2>5. \A s \in DOMAIN u.rows : s2'[s] = s2[s]
    BY <1>3, <2>2, <2>4, WritesAre DEF TxSound
  <2>6. s1 /\ u.market.source # PR!None => SomePriced(PR!Over(u.rows, s2'))
    <3>1. DOMAIN u.rows \subseteq PR!Sources /\ \A s \in DOMAIN u.rows : u.rows[s] \in PriceRow
      BY <2>2, WritesAre DEF TxSound
    <3>2. s2 \in [PR!Sources -> PriceRow]
      BY DEF PricesInv, PR!TypeOK, PriceRow
    <3>3. \A s \in PR!Sources : PR!Over(u.rows, s2)[s] = IF s \in DOMAIN u.rows THEN u.rows[s] ELSE s2[s]
      BY <3>1, <3>2, OverIs
    <3>4. \A s \in PR!Sources : PR!Over(u.rows, s2')[s] = IF s \in DOMAIN u.rows THEN u.rows[s] ELSE s2'[s]
      BY <1>3, <3>1, OverIs
    <3> QED BY <1>4, <2>2, <3>3, <3>4 DEF TxSound, SomePriced
  <2> HIDE DEF u, t
  <2> QED BY <1>1, <2>2, <2>3, <2>5, <2>6 DEF TxSound
<1>10. PricesInv'
  <2>1. DOMAIN s4' = PR!Jobs
    BY DEF PR!Commit
  <2> QED BY <1>1, <1>6, <1>7, <1>8, <1>9, <2>1 DEF PricesInv, SomePriced
<1>11. PR!StaysPriced
  <2>1. ASSUME s3.source # PR!None, s1, s6' PROVE s3'.source # PR!None
    <3>1. s3' = PR!Resolved(s2') /\ SomePriced(s2')
      BY <1>4, <1>8, <2>1 DEF PricesInv, SomePriced
    <3> QED BY <1>3, <3>1, ResolvedIs
  <2> QED BY <1>4, <2>1 DEF PR!StaysPriced
<1> QED BY <1>5, <1>10, <1>11 DEF PR!NoOtherPrint

LEMMA MidnightPrices == ASSUME PricesInv, PR!Midnight PROVE PricesInv' /\ PR!StaysPriced /\ PR!NoOtherPrint
<1>1. /\ s2' = [s \in PR!Sources |-> [s2[s] EXCEPT !.age = PR!Older(@), !.failed = PR!Older(@)]]
      /\ s3' = [s3 EXCEPT !.age = PR!Older(@)]
      /\ s6' = FALSE /\ UNCHANGED <<s1, s4, s5>>
      /\ \A j \in PR!Jobs : ~s4[j].open
  BY DEF PR!Midnight
<1>2. s2 \in [PR!Sources -> PriceRow] /\ s3 \in MarketRow
  BY DEF PricesInv, PR!TypeOK, PriceRow, MarketRow
<1>3. \A a \in PR!Ages : PR!Older(a) \in PR!Ages /\ PR!Older(a) >= a /\ PR!Older(PriceOld) = PriceOld
  BY AgesAre
<1>4. \A s \in PR!Sources : /\ s2'[s].priced = s2[s].priced /\ s2'[s].exists = s2[s].exists
                            /\ s2'[s].failed = PR!Older(s2[s].failed) /\ s2'[s] \in PriceRow
  BY <1>1, <1>2, <1>3 DEF PriceRow
<1>5. s3' \in MarketRow /\ s3'.source = s3.source /\ s3'.stale = s3.stale /\ s3'.age = PR!Older(s3.age)
  BY <1>1, <1>2, <1>3 DEF MarketRow
<1>6. PR!TypeOK'
  <2>1. \A s \in PR!Sources : (s2'[s].priced \/ s2'[s].failed < PriceOld) => s2'[s].exists
    <3> SUFFICES ASSUME NEW s \in PR!Sources, s2'[s].failed < PriceOld PROVE s2[s].failed < PriceOld
      BY <1>4 DEF PricesInv, PR!TypeOK
    <3>1. s2[s].failed \in PR!Ages
      BY <1>2 DEF PriceRow
    <3>2. PR!Older(s2[s].failed) \in PR!Ages /\ PR!Older(s2[s].failed) >= s2[s].failed
      BY <3>1, AgesAre
    <3>3. s2[s].failed \in Int /\ PR!Older(s2[s].failed) \in Int
      BY <3>1, <3>2, AgesAre
    <3> QED BY <1>4, <3>2, <3>3, PricesAssumption
  <2>2. s2' \in [PR!Sources -> PriceRow]
    BY <1>1, <1>4
  <2> QED BY <1>1, <1>5, <2>1, <2>2 DEF PricesInv, PR!TypeOK, PriceRow, MarketRow
<1>7. s3'.source = PR!None => s3' = PR!NoMarket
  <2> SUFFICES ASSUME s3'.source = PR!None PROVE s3' = PR!NoMarket
    OBVIOUS
  <2>1. s3 = PR!NoMarket
    BY <1>5 DEF PricesInv
  <2>2. PR!Older(s3.age) = PriceOld
    BY <2>1, AgesAre DEF PR!NoMarket
  <2>3. s3' = [PR!NoMarket EXCEPT !.age = PriceOld]
    BY <1>1, <2>1, <2>2
  <2> QED BY <2>3 DEF PR!NoMarket
<1>8. s1' /\ s3'.source # PR!None => SomePriced(s2')
  BY <1>1, <1>4, <1>5 DEF PricesInv, SomePriced
<1>9. \A j \in PR!Jobs : s4'[j] = PR!NoTx
  <2>1. ASSUME NEW j \in PR!Jobs, TxSound(j, s4[j]) PROVE s4[j].open
    BY <2>1 DEF TxSound
  <2> QED BY <1>1, <2>1 DEF PricesInv
<1>10. DOMAIN s4' = PR!Jobs
  BY <1>1 DEF PricesInv
<1>11. PR!StaysPriced /\ PR!NoOtherPrint
  BY <1>4, <1>5 DEF PR!StaysPriced, PR!NoOtherPrint, PR!TcgplayerSources, PR!Sources
<1> QED BY <1>1, <1>6, <1>7, <1>8, <1>9, <1>10, <1>11 DEF PricesInv

\* What each transaction writes
LEMMA RowsWritten ==
  ASSUME PricesInv, NEW s \in PR!Sources, NEW j \in PR!Jobs, s \in WritesOf(j)
  PROVE  /\ NewSound(j, PR!NoRows)
         /\ s1 \/ s \notin PR!TcgplayerSources => NewSound(j, PR!PricedToday(s))
         /\ s1 \/ s \notin PR!TcgplayerSources \/ s2[s].exists => NewSound(j, PR!Failed(s))
         /\ NewSound(j, PR!FailedIfKnown(s))
<1>1. NewSound(j, PR!NoRows)
  BY DEF NewSound, PR!NoRows
<1>2. s1 \/ s \notin PR!TcgplayerSources => NewSound(j, PR!PricedToday(s))
  <2>1. PR!Row(TRUE, 0, PriceOld) \in PriceRow /\ PR!Row(TRUE, 0, PriceOld).priced /\ PR!Row(TRUE, 0, PriceOld).exists
    BY PricesAssumption DEF PR!Row, PriceRow, PR!Ages
  <2> QED BY <2>1 DEF NewSound, PR!PricedToday, PR!Only
<1>3. s1 \/ s \notin PR!TcgplayerSources \/ s2[s].exists => NewSound(j, PR!Failed(s))
  <2> DEFINE r == [s2[s] EXCEPT !.failed = 0, !.exists = TRUE]
  <2>1. s2[s] \in PriceRow
    BY DEF PricesInv, PR!TypeOK, PriceRow
  <2>2. r \in PriceRow /\ r.priced = s2[s].priced /\ r.exists
    BY <2>1, AgesAre DEF PriceRow
  <2>3. PR!Failed(s) = [t \in {s} |-> r]
    BY DEF PR!Failed, PR!Only
  <2> HIDE DEF r
  <2> QED BY <2>2, <2>3 DEF NewSound
<1> QED BY <1>1, <1>2, <1>3 DEF PR!FailedIfKnown

LEMMA OverSound ==
  ASSUME PricesInv, NEW j \in PR!Jobs, NEW a, NEW b, NewSound(j, a), NewSound(j, b)
  PROVE  NewSound(j, PR!Over(a, b))
<1>1. /\ DOMAIN PR!Over(a, b) = DOMAIN a \cup DOMAIN b
      /\ \A s \in DOMAIN a \cup DOMAIN b : PR!Over(a, b)[s] = IF s \in DOMAIN a THEN a[s] ELSE b[s]
  BY DEF PR!Over
<1> QED BY <1>1 DEF NewSound

LEMMA PricesStep ==
  ASSUME PricesInv, PR!Next
  PROVE  PricesInv' /\ PR!StaysPriced /\ PR!NoOtherPrint
<1> USE SourcesDiffer DEF PR!Jobs
<1> DEFINE D == "dex-sync"
           P == "price-refresh"
<1>0. /\ PR!DEX \in WritesOf(D) /\ {PR!PK, PR!CM, PR!TP} \subseteq WritesOf(P)
      /\ PR!DEX \notin PR!TcgplayerSources /\ PR!CM \notin PR!TcgplayerSources
      /\ {PR!DEX, PR!PK, PR!CM, PR!TP} = PR!Sources
      /\ PricesInv => s5 \in {"idle", "pokemontcg", "tcgdex", "tcgdex lookup", "resolve"}
  BY DEF WritesOf, PR!TcgplayerSources, PR!Sources, PricesInv, PR!TypeOK
<1>1. ASSUME NEW j \in PR!Jobs, NEW new, NewSound(j, new), PR!Begin(j, new), UNCHANGED <<s1, s2, s3, s6>>,
             s5' \in {"idle", "pokemontcg", "tcgdex", "tcgdex lookup", "resolve"}
      PROVE  PricesInv' /\ PR!StaysPriced /\ PR!NoOtherPrint
  BY <1>1, BeginStep DEF PR!StaysPriced, PR!NoOtherPrint
<1>11. ASSUME UNCHANGED <<s1, s2, s3, s4, s6>>, s5' \in {"pokemontcg", "tcgdex", "tcgdex lookup", "resolve"}
       PROVE  PricesInv' /\ PR!StaysPriced /\ PR!NoOtherPrint
  BY <1>11 DEF PricesInv, PR!TypeOK, TxSound, SomePriced, PR!StaysPriced, PR!NoOtherPrint
<1>2. CASE PR!ImportDex(PR!NoRows) \/ \E age \in {0, PriceOld} : PR!ImportDex(PR!Only(PR!DEX, PR!Row(TRUE, age, PriceOld)))
  <2>1. NewSound(D, PR!NoRows)
    BY <1>0, RowsWritten
  <2>2. \A age \in {0, PriceOld} : NewSound(D, PR!Only(PR!DEX, PR!Row(TRUE, age, PriceOld)))
    <3> SUFFICES ASSUME NEW age \in {0, PriceOld} PROVE NewSound(D, PR!Only(PR!DEX, PR!Row(TRUE, age, PriceOld)))
      OBVIOUS
    <3> DEFINE row == PR!Row(TRUE, age, PriceOld)
    <3>1. row \in PriceRow /\ row.priced /\ row.exists
      BY AgesAre DEF PR!Row, PriceRow
    <3> HIDE DEF row
    <3>2. NewSound(D, PR!Only(PR!DEX, row))
      BY <1>0, <3>1 DEF NewSound, PR!Only
    <3> QED BY <3>2 DEF row
  <2> QED BY <1>0, <1>1, <1>2, <2>1, <2>2 DEF PR!ImportDex
<1>3. ASSUME NEW j \in PR!Jobs, PR!ResolveAll(j) PROVE PricesInv' /\ PR!StaysPriced /\ PR!NoOtherPrint
  <2>1. NewSound(j, PR!NoRows)
    BY DEF NewSound, PR!NoRows
  <2> QED BY <1>0, <1>1, <1>3, <2>1 DEF PR!ResolveAll
<1>4. ASSUME NEW j \in PR!Jobs, PR!Abandon(j) PROVE PricesInv' /\ PR!StaysPriced /\ PR!NoOtherPrint
  <2>1. \A k \in PR!Jobs : s4'[k] = s4[k] \/ s4'[k] = PR!NoTx
    BY <1>4 DEF PR!Abandon, PricesInv
  <2>2. UNCHANGED <<s1, s2, s3, s6>> /\ s5' \in {"idle", s5} /\ DOMAIN s4' = PR!Jobs
    BY <1>4 DEF PR!Abandon, PricesInv
  <2>3. PR!TypeOK'
    BY <1>0, <2>2 DEF PricesInv, PR!TypeOK
  <2>4. \A k \in PR!Jobs : (s4[k] = PR!NoTx \/ TxSound(k, s4[k]))'
    <3> SUFFICES ASSUME NEW k \in PR!Jobs, s4'[k] # PR!NoTx PROVE TxSound(k, s4[k])'
      OBVIOUS
    <3>1. TxSound(k, s4'[k])
      BY <2>1 DEF PricesInv
    <3> QED BY <2>2, <3>1 DEF TxSound
  <2> QED BY <2>2, <2>3, <2>4 DEF PricesInv, SomePriced, PR!StaysPriced, PR!NoOtherPrint
<1>5. ASSUME NEW j \in PR!Jobs, PR!Commit(j) PROVE PricesInv' /\ PR!StaysPriced /\ PR!NoOtherPrint
  BY <1>5, CommitStep
<1>6. ASSUME PR!StartPass("idle", "pokemontcg") \/ PR!StartPass("tcgdex", "tcgdex lookup")
      PROVE  PricesInv' /\ PR!StaysPriced /\ PR!NoOtherPrint
  <2>1. CASE PR!Doomed
    <3>1. PR!NoRow \in PriceRow /\ ~PR!NoRow.priced /\ ~(PR!NoRow.failed < PriceOld) /\ ~PR!NoRow.exists
      BY AgesAre, PricesAssumption DEF PR!NoRow, PriceRow
    <3>2. NewSound(P, PR!Dropped)
      BY <1>0, <2>1, <3>1 DEF NewSound, PR!Dropped, PR!TcgplayerSources, PR!Doomed
    <3> QED BY <1>0, <1>1, <1>6, <2>1, <3>2 DEF PR!StartPass
  <2>2. CASE ~PR!Doomed
    <3>1. UNCHANGED <<s1, s2, s3, s4, s6>> /\ s5' \in {"pokemontcg", "tcgdex lookup"}
      BY <1>6, <2>2 DEF PR!StartPass
    <3> QED BY <1>11, <3>1
  <2> QED BY <2>1, <2>2
<1>7. CASE PR!Pokemontcg
  <2>1. s1
    BY <1>7 DEF PR!Pokemontcg, PR!PokemontcgDue
  <2>2. NewSound(P, PR!PricedToday(PR!PK)) /\ NewSound(P, PR!Failed(PR!PK)) /\ NewSound(P, PR!NoRows)
    BY <1>0, <2>1, RowsWritten
  <2>3. PICK new : NewSound(P, new) /\ PR!Pass("pokemontcg", "tcgdex", new)
    BY <1>7, <2>2 DEF PR!Pokemontcg, PR!NoMatch
  <2> QED BY <1>1, <2>3 DEF PR!Pass
<1>8. CASE PR!TcgdexNotFound
  <2>1. NewSound(P, PR!Over(PR!Failed(PR!CM), PR!FailedIfKnown(PR!TP)))
    BY <1>0, RowsWritten, OverSound
  <2> QED BY <1>1, <1>8, <2>1 DEF PR!TcgdexNotFound, PR!Pass
<1>9. CASE PR!TcgdexFound
  <2>1. PICK cm \in BOOLEAN, tp \in PR!TcgplayerAnswers :
          PR!Pass("tcgdex lookup", "resolve",
            PR!Over(IF cm THEN PR!PricedToday(PR!CM) ELSE IF ~tp THEN PR!Failed(PR!CM) ELSE PR!FailedIfKnown(PR!CM),
                    IF tp THEN PR!PricedToday(PR!TP) ELSE PR!FailedIfKnown(PR!TP)))
    BY <1>9 DEF PR!TcgdexFound
  <2>2. NewSound(P, IF cm THEN PR!PricedToday(PR!CM) ELSE IF ~tp THEN PR!Failed(PR!CM) ELSE PR!FailedIfKnown(PR!CM))
    BY <1>0, RowsWritten
  <2>3. tp => s1
    BY <2>1 DEF PR!TcgplayerAnswers
  <2>4. NewSound(P, IF tp THEN PR!PricedToday(PR!TP) ELSE PR!FailedIfKnown(PR!TP))
    BY <1>0, <2>3, RowsWritten
  <2> QED BY <1>1, <2>1, <2>2, <2>4, OverSound DEF PR!Pass
<1>10. ASSUME PR!SkipPass("pokemontcg", "tcgdex") \/ PR!SkipPass("tcgdex lookup", "resolve")
       PROVE  PricesInv' /\ PR!StaysPriced /\ PR!NoOtherPrint
  <2>1. UNCHANGED <<s1, s2, s3, s4, s6>> /\ s5' \in {"tcgdex", "resolve"}
    BY <1>10 DEF PR!SkipPass
  <2> QED BY <1>11, <2>1
<1>12. ASSUME NEW j \in PR!Jobs, PR!Compare(j) PROVE PricesInv' /\ PR!StaysPriced /\ PR!NoOtherPrint
  BY <1>12, CompareStep DEF PR!Compare, PR!StaysPriced, PR!NoOtherPrint
<1> QED BY <1>12, <1>2, <1>3, <1>4, <1>5, <1>6, <1>7, <1>8, <1>9, <1>10, MidnightPrices DEF PR!Next

LEMMA PricesBegin == ASSUME PR!Init PROVE PricesInv
<1>1. /\ PR!NoRow \in PriceRow /\ ~PR!NoRow.priced /\ ~(PR!NoRow.failed < PriceOld)
      /\ \A a \in PR!Ages : PR!Row(TRUE, a, PriceOld) \in PriceRow /\ PR!Row(TRUE, a, PriceOld).exists
      /\ \A a \in PR!Ages : PR!Row(FALSE, PriceOld, a) \in PriceRow /\ PR!Row(FALSE, PriceOld, a).exists
  BY AgesAre, PricesAssumption DEF PR!NoRow, PR!Row, PriceRow
<1>2. /\ s2 \in [PR!Sources -> PriceRow]
      /\ \A s \in PR!Sources : (s2[s].priced \/ s2[s].failed < PriceOld) => s2[s].exists
  BY <1>1 DEF PR!Init
<1>3. s3 = PR!Resolved(s2) /\ s1 \in BOOLEAN /\ s5 = "idle" /\ s6 = TRUE
      /\ DOMAIN s4 = PR!Jobs /\ \A j \in PR!Jobs : s4[j] = PR!NoTx
  BY DEF PR!Init
<1>4. s3 \in MarketRow /\ (s3.source = PR!None => s3 = PR!NoMarket) /\ (s3.source # PR!None <=> SomePriced(s2))
  BY <1>2, <1>3, ResolvedIs
<1>5. PR!TypeOK
  BY <1>2, <1>3, <1>4 DEF PR!TypeOK, PriceRow, MarketRow
<1> QED BY <1>3, <1>4, <1>5 DEF PricesInv

LEMMA MarketBest == ASSUME PricesInv PROVE PR!MarketIsBest
<1> SUFFICES ASSUME s6 PROVE IF s3.source = PR!None THEN \A s \in PR!Sources : ~s2[s].priced
                             ELSE /\ PR!Best(s3.source)
                                  /\ s3.age = s2[s3.source].age
                                  /\ s3.stale <=> s3.age > FreshDays
  BY DEF PR!MarketIsBest
<1>1. s3 = PR!Resolved(s2) /\ \A s \in PR!Sources : s2[s] \in PriceRow
  BY DEF PricesInv, PR!TypeOK, PriceRow
<1>2. CASE s3.source = PR!None
  BY <1>1, <1>2, ResolvedIs DEF SomePriced
<1>3. CASE s3.source # PR!None
  <2> DEFINE b == s3.source
  <2>1. /\ s2[b].priced /\ s3.age = s2[b].age /\ (s3.stale <=> s3.age > FreshDays)
        /\ \A t \in PR!Sources \ {b} :
             s2[t].priced /\ (s2[b].age <= FreshDays => s2[t].age <= FreshDays) =>
               IF s2[b].age <= FreshDays THEN PR!Before(b, t)
               ELSE s2[t].age > s2[b].age \/ (s2[t].age = s2[b].age /\ PR!Before(b, t))
    BY <1>1, <1>3, ResolvedIs
  <2>2. PR!Best(b)
    BY <2>1 DEF PR!Best
  <2> QED BY <1>3, <2>1, <2>2
<1> QED BY <1>2, <1>3

LEMMA PricesStutter ==
  ASSUME PricesInv, UNCHANGED <<s1, s2, s3, s4, s5, s6>>
  PROVE  PricesInv' /\ PR!StaysPriced /\ PR!NoOtherPrint
<1>1. PR!TypeOK'
  BY DEF PricesInv, PR!TypeOK
<1>2. \A k \in PR!Jobs : (s4[k] = PR!NoTx \/ TxSound(k, s4[k]))'
  <2> SUFFICES ASSUME NEW k \in PR!Jobs, s4[k] # PR!NoTx PROVE TxSound(k, s4[k])'
    OBVIOUS
  <2>1. TxSound(k, s4[k])
    BY DEF PricesInv
  <2> QED BY <2>1 DEF TxSound
<1> QED BY <1>1, <1>2 DEF PricesInv, SomePriced, PR!StaysPriced, PR!NoOtherPrint

-----------------------------------------------------------------------------
(* ExchangeRates *)

\* Rates of the Norges Bank: no currency has a constant that is not marked so.
Observed(rates) == rates.constant \subseteq rates.filled

CacheEntry == [source : {"none", "live", "last-known", "stored", "fallback"},
               constant : SUBSET Currencies, filled : SUBSET Currencies, kept : SUBSET Currencies,
               age : [Currencies -> 0..RateOld]]

\* What an answer had stays below the limit until the entry expires.
Expires(rates, ttl) ==
  rates.source = "live" /\ ttl > 0 =>
    \A c \in Currencies \ (rates.filled \cup rates.kept) : rates.age[c] + ttl <= 2 * CacheTtl

RatesInv ==
  /\ s1 \in [Processes -> CacheEntry]
  /\ s2 \in [Processes -> 0..CacheTtl]
  /\ s3 \in [Processes -> CacheEntry]
  /\ s4 \in [Currencies -> [there : BOOLEAN, constant : BOOLEAN, age : 0..RateOld]]
  /\ \A p \in Processes :
       /\ s1[p] = XR!NoRates => s2[p] = 0
       /\ s1[p].source # "fallback" => Observed(s1[p])
       /\ Expires(s1[p], s2[p])
       /\ s3[p].source \in {"none", "live"} /\ Observed(s3[p])
       /\ s3[p].source = "none" => s3[p] = XR!NoRates
  /\ \A c \in Currencies : s4[c].there => ~s4[c].constant

LEMMA RatesAre ==
  ASSUME NEW source \in {"none", "live", "last-known", "stored", "fallback"},
         NEW constant \in SUBSET Currencies, NEW filled \in SUBSET Currencies, NEW kept \in SUBSET Currencies,
         NEW age \in [Currencies -> 0..RateOld]
  PROVE  LET r == XR!Rates(source, constant, filled, kept, age)
         IN  /\ r \in CacheEntry
             /\ r.source = source /\ r.constant = constant /\ r.filled = filled /\ r.kept = kept /\ r.age = age
BY DEF XR!Rates, CacheEntry

LEMMA NoRatesAre ==
  /\ XR!NoRates \in CacheEntry /\ XR!NoRates.source = "none" /\ Observed(XR!NoRates)
  /\ XR!Fallback \in CacheEntry /\ XR!Fallback.source = "fallback"
<1>1. XR!New \in [Currencies -> 0..RateOld]
  BY RatesAssumption DEF XR!New
<1> QED BY <1>1, RatesAre DEF XR!NoRates, XR!Fallback, Observed

LEMMA StoredIs ==
  ASSUME RatesInv, NEW found \in SUBSET {c \in Currencies : s4[c].there}, NEW source \in {"live", "stored"}
  PROVE  LET r == XR!Stored(found, source)
         IN  /\ r \in CacheEntry /\ r.source = source /\ Observed(r)
             /\ \A c \in Currencies \ r.filled : c \in found /\ r.age[c] = s4[c].age
<1> DEFINE age == [c \in Currencies |-> IF c \in found THEN s4[c].age ELSE 0]
<1>1. age \in [Currencies -> 0..RateOld]
  BY RatesAssumption DEF RatesInv
<1>2. XR!Stored(found, source) = XR!Rates(source, (Currencies \ found) \cup {c \in found : s4[c].constant},
                                          Currencies \ found, {}, age)
  BY DEF XR!Stored
<1>3. {c \in found : s4[c].constant} = {}
  BY DEF RatesInv
<1>4. \A c \in found : c \in Currencies /\ age[c] = s4[c].age
  OBVIOUS
<1> HIDE DEF age
<1> QED BY <1>1, <1>2, <1>3, <1>4, RatesAre DEF Observed

LEMMA LiveIs ==
  ASSUME RatesInv, NEW p \in Processes, NEW found \in SUBSET Currencies
  PROVE  LET r == XR!Live(p, found)
         IN  /\ r \in CacheEntry /\ r.source = "live" /\ Observed(r)
             /\ \A c \in Currencies \ (r.filled \cup r.kept) : r.age[c] = 0
<1> DEFINE kept == IF s3[p] = XR!NoRates THEN {} ELSE (Currencies \ s3[p].filled) \ found
           constant == Currencies \ (found \cup (kept \ s3[p].constant))
           filled == Currencies \ (found \cup kept)
           age == [c \in Currencies |-> IF c \in kept THEN s3[p].age[c] ELSE 0]
<1>1. XR!Live(p, found) = XR!Rates("live", constant, filled, kept, age)
  BY DEF XR!Live
<1>2. constant \subseteq filled
  BY DEF RatesInv, Observed
<1>3. constant \in SUBSET Currencies /\ filled \in SUBSET Currencies /\ kept \in SUBSET Currencies
  OBVIOUS
<1>4. age \in [Currencies -> 0..RateOld]
  <2>1. s3[p].age \in [Currencies -> 0..RateOld]
    BY DEF RatesInv, CacheEntry
  <2> HIDE DEF kept
  <2> QED BY <2>1, RatesAssumption
<1>5. \A c \in Currencies \ kept : age[c] = 0
  OBVIOUS
<1> HIDE DEF constant, filled, kept, age
<1> QED BY <1>1, <1>2, <1>3, <1>4, <1>5, RatesAre DEF Observed

\* get_rates() keeps rates for a process.
LEMMA KeepStep ==
  ASSUME RatesInv, NEW p \in Processes, NEW rates \in CacheEntry, NEW ttl \in 0..CacheTtl, NEW best \in CacheEntry,
         s1' = [s1 EXCEPT ![p] = rates], s2' = [s2 EXCEPT ![p] = ttl], s3' = [s3 EXCEPT ![p] = best],
         rates = XR!NoRates => ttl = 0,
         rates.source # "fallback" => Observed(rates),
         Expires(rates, ttl),
         best.source \in {"none", "live"}, Observed(best), best.source = "none" => best = XR!NoRates,
         s4' \in [Currencies -> [there : BOOLEAN, constant : BOOLEAN, age : 0..RateOld]],
         \A c \in Currencies : s4'[c].there => ~s4'[c].constant
  PROVE  RatesInv'
<1>1. /\ s1' \in [Processes -> CacheEntry] /\ s2' \in [Processes -> 0..CacheTtl] /\ s3' \in [Processes -> CacheEntry]
      /\ s1'[p] = rates /\ s2'[p] = ttl /\ s3'[p] = best
      /\ \A q \in Processes \ {p} : s1'[q] = s1[q] /\ s2'[q] = s2[q] /\ s3'[q] = s3[q]
  BY DEF RatesInv
<1>2. \A q \in Processes : /\ s1'[q] = XR!NoRates => s2'[q] = 0
                           /\ s1'[q].source # "fallback" => Observed(s1'[q])
                           /\ Expires(s1'[q], s2'[q])
                           /\ s3'[q].source \in {"none", "live"} /\ Observed(s3'[q])
                           /\ s3'[q].source = "none" => s3'[q] = XR!NoRates
  BY <1>1 DEF RatesInv
<1> QED BY <1>1, <1>2 DEF RatesInv, Observed

LEMMA RatesBegin == ASSUME XR!Init PROVE RatesInv
<1>1. XR!NoRow \in [there : BOOLEAN, constant : BOOLEAN, age : 0..RateOld] /\ ~XR!NoRow.there
  BY RatesAssumption DEF XR!NoRow
<1> QED BY <1>1, NoRatesAre, RatesAssumption DEF XR!Init, RatesInv, Expires

LEMMA RatesStep == ASSUME RatesInv, XR!Next PROVE RatesInv'
<1> USE NoRatesAre
<1>0. /\ s4 \in [Currencies -> [there : BOOLEAN, constant : BOOLEAN, age : 0..RateOld]]
      /\ \A c \in Currencies : s4[c].there => ~s4[c].constant
      /\ CacheTtl \in 0..CacheTtl /\ FailureTtl \in 0..CacheTtl /\ 0 \in 0..CacheTtl
  BY RatesAssumption DEF RatesInv
<1>1. ASSUME NEW p \in Processes, XR!GetStored(p) PROVE RatesInv'
  <2> DEFINE found == {c \in Currencies : XR!Recent(c)}
             r == XR!Stored(found, "live")
  <2>1. found # {} /\ s1' = [s1 EXCEPT ![p] = r] /\ s2' = [s2 EXCEPT ![p] = CacheTtl]
        /\ s3' = [s3 EXCEPT ![p] = r] /\ s4' = s4
    BY <1>1 DEF XR!GetStored, XR!RecentRates, XR!Keep
  <2>2. found \in SUBSET {c \in Currencies : s4[c].there} /\ \A c \in found : s4[c].age <= CacheTtl
    BY DEF XR!Recent
  <2> HIDE DEF found
  <2>3. /\ r \in CacheEntry /\ r.source = "live" /\ Observed(r)
        /\ \A c \in Currencies \ r.filled : c \in found /\ r.age[c] = s4[c].age
    BY <2>2, StoredIs
  <2>4. \A c \in Currencies \ r.filled : r.age[c] <= CacheTtl /\ r.age[c] \in Nat
    BY <1>0, <2>2, <2>3, RatesAssumption
  <2>5. Expires(r, CacheTtl)
    <3> HIDE DEF r
    <3> QED BY <2>4, RatesAssumption DEF Expires
  <2> HIDE DEF r
  <2> QED BY <1>0, <2>1, <2>3, <2>5, KeepStep
<1>2. ASSUME NEW p \in Processes, NEW bind \in BOOLEAN, NEW stored \in BOOLEAN, NEW found \in SUBSET Currencies,
             XR!GetLive(p, bind, found, stored)
      PROVE  RatesInv'
  <2> DEFINE r == XR!Live(p, found)
  <2>1. /\ s1' = [s1 EXCEPT ![p] = r] /\ s2' = [s2 EXCEPT ![p] = CacheTtl] /\ s3' = [s3 EXCEPT ![p] = r]
        /\ s4' = IF stored THEN XR!Persist(p, found) ELSE s4
    BY <1>2 DEF XR!GetLive, XR!Keep
  <2>2. /\ r \in CacheEntry /\ r.source = "live" /\ Observed(r)
        /\ \A c \in Currencies \ (r.filled \cup r.kept) : r.age[c] = 0
    BY LiveIs
  <2>3. /\ XR!Persist(p, found) \in [Currencies -> [there : BOOLEAN, constant : BOOLEAN, age : 0..RateOld]]
        /\ \A c \in Currencies : XR!Persist(p, found)[c].there => ~XR!Persist(p, found)[c].constant
    BY <1>0, RatesAssumption DEF XR!Persist
  <2> HIDE DEF r
  <2>4. Expires(r, CacheTtl)
    BY <2>2, RatesAssumption DEF Expires
  <2> QED BY <1>0, <2>1, <2>2, <2>3, <2>4, KeepStep
<1>3. ASSUME NEW p \in Processes, NEW bind \in BOOLEAN, XR!GetFallback(p, bind) PROVE RatesInv'
  <2> DEFINE all == IF bind THEN {c \in Currencies : s4[c].there} ELSE {}
             r == IF s3[p] # XR!NoRates THEN [s3[p] EXCEPT !.source = "last-known"]
                  ELSE IF all # {} THEN XR!Stored(all, "stored") ELSE XR!Fallback
  <2>1. s1' = [s1 EXCEPT ![p] = r] /\ s2' = [s2 EXCEPT ![p] = FailureTtl] /\ s3' = s3 /\ s4' = s4
    BY <1>3 DEF XR!GetFallback, XR!Keep
  <2>2. s3[p] \in CacheEntry /\ s3[p].source \in {"none", "live"} /\ Observed(s3[p])
        /\ (s3[p].source = "none" => s3[p] = XR!NoRates) /\ s3' = [s3 EXCEPT ![p] = s3[p]]
    BY <2>1 DEF RatesInv
  <2>3. r \in CacheEntry /\ r.source \in {"last-known", "stored", "fallback"} /\ (r.source # "fallback" => Observed(r))
    <3>1. CASE s3[p] # XR!NoRates
      BY <2>2, <3>1 DEF CacheEntry, Observed
    <3>2. CASE s3[p] = XR!NoRates /\ all # {}
      <4>1. all \in SUBSET {c \in Currencies : s4[c].there}
        OBVIOUS
      <4> HIDE DEF all
      <4> QED BY <3>2, <4>1, StoredIs
    <3>3. CASE s3[p] = XR!NoRates /\ all = {}
      BY <3>3
    <3> QED BY <3>1, <3>2, <3>3
  <2> HIDE DEF r
  <2>4. r # XR!NoRates /\ Expires(r, FailureTtl)
    BY <2>3 DEF Expires
  <2> QED BY <1>0, <2>1, <2>2, <2>3, <2>4, KeepStep
<1>4. ASSUME NEW p \in Processes, XR!Restart(p) PROVE RatesInv'
  <2>1. /\ s1' = [s1 EXCEPT ![p] = XR!NoRates] /\ s2' = [s2 EXCEPT ![p] = 0]
        /\ s3' = [s3 EXCEPT ![p] = XR!NoRates] /\ s4' = s4
    BY <1>4 DEF XR!Restart
  <2>2. Expires(XR!NoRates, 0)
    BY DEF Expires
  <2> QED BY <1>0, <2>1, <2>2, KeepStep
<1>5. CASE XR!Tick
  <2>1. /\ s1' = [p \in Processes |-> XR!AgedRates(s1[p])] /\ s3' = [p \in Processes |-> XR!AgedRates(s3[p])]
        /\ s2' = [p \in Processes |-> IF s2[p] > 0 THEN s2[p] - 1 ELSE 0]
        /\ s4' = [c \in Currencies |-> [s4[c] EXCEPT !.age = XR!Aged(@)]]
    BY <1>5 DEF XR!Tick
  <2>2. \A n \in 0..RateOld : XR!Aged(n) <= n + 1 /\ XR!Aged(n) \in 0..RateOld
    BY RatesAssumption DEF XR!Aged
  <2>3. ASSUME NEW r \in CacheEntry
        PROVE  /\ XR!AgedRates(r) \in CacheEntry /\ XR!AgedRates(r).source = r.source
               /\ XR!AgedRates(r).constant = r.constant /\ XR!AgedRates(r).filled = r.filled
               /\ XR!AgedRates(r).kept = r.kept
               /\ \A c \in Currencies \ r.filled : XR!AgedRates(r).age[c] <= r.age[c] + 1
               /\ r.source = "none" => XR!AgedRates(r) = r
    <3> DEFINE age == [c \in Currencies |-> IF c \in r.filled THEN 0 ELSE XR!Aged(r.age[c])]
    <3>1. /\ r.age \in [Currencies -> 0..RateOld]
          /\ DOMAIN r = {"source", "constant", "filled", "kept", "age"}
      BY DEF CacheEntry
    <3>2. age \in [Currencies -> 0..RateOld]
      BY <2>2, <3>1, RatesAssumption
    <3>3. \A c \in Currencies : r.age[c] \in 0..RateOld /\ (c \notin r.filled => age[c] <= r.age[c] + 1)
      BY <2>2, <3>1
    <3>4. XR!AgedRates(r) = (IF r.source \in {"none", "fallback"} THEN r ELSE [r EXCEPT !.age = age])
      BY DEF XR!AgedRates
    <3> HIDE DEF age
    <3>5. CASE r.source \in {"none", "fallback"}
      <4>1. \A c \in Currencies : r.age[c] <= r.age[c] + 1
        BY <3>3, RatesAssumption
      <4> QED BY <3>4, <3>5, <4>1
    <3>6. CASE r.source \notin {"none", "fallback"}
      <4>1. [r EXCEPT !.age = age] \in CacheEntry /\ [r EXCEPT !.age = age].age = age
        BY <3>2 DEF CacheEntry
      <4> QED BY <3>1, <3>3, <3>4, <3>6, <4>1
    <3> QED BY <3>5, <3>6
  <2>4. /\ s4' \in [Currencies -> [there : BOOLEAN, constant : BOOLEAN, age : 0..RateOld]]
        /\ \A c \in Currencies : s4'[c].there => ~s4'[c].constant
    <3>1. \A n \in 0..RateOld : XR!Aged(n) \in 0..RateOld
      BY <2>2, RatesAssumption
    <3>2. \A c \in Currencies : /\ s4'[c] \in [there : BOOLEAN, constant : BOOLEAN, age : 0..RateOld]
                                /\ s4'[c].there = s4[c].there /\ s4'[c].constant = s4[c].constant
      BY <1>0, <2>1, <3>1
    <3> QED BY <1>0, <2>1, <3>2
  <2>5. /\ s1' \in [Processes -> CacheEntry] /\ s3' \in [Processes -> CacheEntry]
        /\ s2' \in [Processes -> 0..CacheTtl]
    BY <2>1, <2>3, RatesAssumption DEF RatesInv
  <2>6. ASSUME NEW p \in Processes
        PROVE  /\ s1'[p] = XR!NoRates => s2'[p] = 0
               /\ s1'[p].source # "fallback" => Observed(s1'[p])
               /\ Expires(s1'[p], s2'[p])
               /\ s3'[p].source \in {"none", "live"} /\ Observed(s3'[p])
               /\ s3'[p].source = "none" => s3'[p] = XR!NoRates
    <3>1. /\ s1[p] \in CacheEntry /\ s3[p] \in CacheEntry /\ s2[p] \in 0..CacheTtl
          /\ s1'[p] = XR!AgedRates(s1[p]) /\ s3'[p] = XR!AgedRates(s3[p])
          /\ s2'[p] = IF s2[p] > 0 THEN s2[p] - 1 ELSE 0
      BY <2>1 DEF RatesInv
    <3>2. s1'[p] = XR!NoRates => s2'[p] = 0
      <4>1. s1'[p] = XR!NoRates => s1[p] = XR!NoRates
        <5> SUFFICES ASSUME s1'[p] = XR!NoRates PROVE s1[p] = XR!NoRates
          OBVIOUS
        <5> DEFINE r == s1[p]
        <5>1. r \in CacheEntry /\ XR!AgedRates(r) = XR!NoRates
          BY <3>1
        <5> HIDE DEF r
        <5>2. r.source = "none"
          BY <2>3, <5>1, NoRatesAre
        <5>3. r = XR!NoRates
          BY <2>3, <5>1, <5>2
        <5> QED BY <5>3 DEF r
      <4> QED BY <3>1, <4>1 DEF RatesInv
    <3>3. Expires(s1'[p], s2'[p])
      <4> SUFFICES ASSUME s1'[p].source = "live", s2'[p] > 0,
                          NEW c \in Currencies, c \notin s1'[p].filled, c \notin s1'[p].kept
                   PROVE  s1'[p].age[c] + s2'[p] <= 2 * CacheTtl
        BY DEF Expires
      <4>1. /\ s1[p].source = "live" /\ c \notin s1[p].filled /\ c \notin s1[p].kept
            /\ s1'[p].age[c] <= s1[p].age[c] + 1
        BY <2>3, <3>1
      <4>2. s1[p].age[c] \in Nat /\ s1'[p].age[c] \in Nat /\ s2[p] \in Nat /\ s2[p] > 0 /\ s2'[p] = s2[p] - 1
        BY <2>5, <3>1, RatesAssumption DEF CacheEntry
      <4>3. s1[p].age[c] + s2[p] <= 2 * CacheTtl
        BY <4>1, <4>2 DEF RatesInv, Expires
      <4> QED BY <4>1, <4>2, <4>3, RatesAssumption
    <3>4. s1'[p].source # "fallback" => Observed(s1'[p])
      BY <2>3, <3>1 DEF RatesInv, Observed
    <3>5. /\ s3'[p].source \in {"none", "live"} /\ Observed(s3'[p])
          /\ s3'[p].source = "none" => s3'[p] = XR!NoRates
      BY <2>3, <3>1 DEF RatesInv, Observed
    <3> QED BY <3>2, <3>3, <3>4, <3>5
  <2> QED BY <2>4, <2>5, <2>6 DEF RatesInv, Observed
<1> QED BY <1>1, <1>2, <1>3, <1>4, <1>5 DEF XR!Next, XR!Get

LEMMA RatesHold == ASSUME RatesInv PROVE XR!UsableIsObserved /\ XR!LiveIsRecent
<1>1. XR!UsableIsObserved
  BY DEF RatesInv, XR!UsableIsObserved, XR!Usable, Observed
<1>2. ASSUME NEW p \in Processes, s2[p] > 0, s1[p].source = "live",
             NEW c \in Currencies \ (s1[p].filled \cup s1[p].kept)
      PROVE  s1[p].age[c] < 2 * CacheTtl
  <2>1. s1[p].age[c] \in Nat /\ s2[p] \in Nat
    BY RatesAssumption DEF RatesInv, CacheEntry
  <2>2. s1[p].age[c] + s2[p] <= 2 * CacheTtl
    BY <1>2 DEF RatesInv, Expires
  <2> QED BY <1>2, <2>1, <2>2, RatesAssumption
<1> QED BY <1>1, <1>2 DEF XR!LiveIsRecent

\* A market price is the best one, from a rate that was observed, and a card that had one
\* keeps one: for any limits, currencies and processes, whatever the two jobs find, in
\* whatever order they commit, and whichever answers fail.
THEOREM PricesHold == DailySpec => PriceHolds
<1> DEFINE I == (part = "prices" => PricesInv) /\ (part = "rates" => RatesInv)
           Keeps == PR!StaysPriced /\ PR!NoOtherPrint
<1>1. DailyInit => I
  BY PricesBegin, RatesBegin DEF DailyInit
<1>2. I /\ [DailyNext]_dailyvars => I' /\ (part = "prices" => Keeps)
  <2> SUFFICES ASSUME I, [DailyNext]_dailyvars PROVE I' /\ (part = "prices" => Keeps)
    OBVIOUS
  <2>1. part' = part
    BY DEF DailyNext, dailyvars
  <2>2. CASE part = "prices"
    <3>1. PR!Next \/ UNCHANGED <<s1, s2, s3, s4, s5, s6>>
      BY <2>2 DEF DailyNext, OtherPart, dailyvars
    <3> HIDE DEF Keeps
    <3>2. PricesInv' /\ Keeps
      BY <2>2, <3>1, PricesStep, PricesStutter DEF Keeps
    <3> QED BY <2>1, <2>2, <3>2
  <2>3. CASE part = "rates"
    <3>1. XR!Next \/ UNCHANGED <<s1, s2, s3, s4>>
      BY <2>3 DEF DailyNext, OtherPart, dailyvars
    <3>2. ASSUME UNCHANGED <<s1, s2, s3, s4>> PROVE RatesInv'
      BY <2>3, <3>2 DEF RatesInv, Observed, Expires
    <3> QED BY <2>1, <2>3, <3>1, <3>2, RatesStep
  <2> QED BY <2>1, <2>2, <2>3
<1>3. I => /\ part = "prices" => PR!MarketIsBest
           /\ part = "rates" => XR!UsableIsObserved /\ XR!LiveIsRecent
  BY MarketBest, RatesHold
<1> HIDE DEF I
<1>4. I /\ [DailyNext]_dailyvars => [part = "prices" => PR!StaysPriced /\ PR!NoOtherPrint]_dailyvars
  BY <1>2
<1> QED BY <1>1, <1>2, <1>3, <1>4, PTL DEF DailySpec, PriceHolds

-----------------------------------------------------------------------------
(* The value history *)

Sources3 == {"dex", "pokemontcg", "none"}
HistoryValues == [qty : Nat, price : Nat, source : Sources3]
HistoryRows == [card : HistoryCards, date : 0..MaxDay, run : HI!Runs, qty : Nat, price : Nat,
                price_source : Sources3, from : Sources3]

\* A row knows its source, or says none; a card with rows on one day has some on
\* every later day with rows, as every run takes them of all cards.
HistoryInv ==
  /\ s1 \in 1..MaxDay /\ s2 \in HI!Tables
  /\ s4 \subseteq HistoryCards /\ HI!Priced(s2) \subseteq s4
  /\ s3 \in SUBSET HistoryRows /\ IsFiniteSet(s3)
  /\ \A r \in s3 : /\ r.date <= s1 /\ s2[r.card] # HI!Absent
                   /\ r.price > 0 => r.from # "none"
                   /\ r.price_source \in {"none", r.from}
  /\ \A r, q \in s3 : r.card = q.card /\ r.date = q.date /\ r.run = q.run => r = q
  /\ \A r, q \in s3 : r.date <= q.date => \E p \in s3 : p.card = r.card /\ p.date = q.date

LEMMA HistoryNames ==
  /\ \A f, S : HI!Sigma(f, S) = Sigma(f, S)
  /\ \A f : HI!Total(f) = Sigma(f, DOMAIN f)
  /\ \A S : HI!Cardinality(S) = Cardinality(S)
  /\ \A S : HI!Min(S) = Min(S) /\ HI!Max(S) = Max(S)
<1>1. \A f, S : HI!Sigma(f, S) = Sigma(f, S)
  BY DEF HI!Sigma, Sigma, HI!Fns!SumFunctionOnSet, HI!Fns!FoldFunctionOnSet, HI!Fns!MapThenFoldSet,
         Fns!SumFunctionOnSet, Fns!FoldFunctionOnSet, Fns!MapThenFoldSet
<1>2. \A S : HI!Cardinality(S) = Cardinality(S)
  BY DEF HI!Cardinality, Cardinality
<1>3. \A S : HI!Min(S) = Min(S) /\ HI!Max(S) = Max(S)
  BY DEF HI!Min, HI!Max, Min, Max
<1>4. \A f : HI!Total(f) = Sigma(f, DOMAIN f)
  BY ONLY <1>1 DEF HI!Total
<1> QED BY <1>1, <1>2, <1>3, <1>4

LEMMA RanksAre ==
  /\ \A a \in HI!Runs : HI!RunRank(a) \in 0..2
  /\ \A a, b \in HI!Runs : HI!RunRank(a) = HI!RunRank(b) => a = b
<1>1. /\ HI!RunRank("cron") = 0 /\ HI!RunRank("price-cron") = 1 /\ HI!RunRank("manual") = 2
  BY DEF HI!RunRank
<1>2. \A a \in HI!Runs : a = "cron" \/ a = "price-cron" \/ a = "manual"
  BY DEF HI!Runs
<1>3. \A a \in HI!Runs : HI!RunRank(a) \in 0..2
  BY <1>1, <1>2
<1>4. \A a, b \in HI!Runs : HI!RunRank(a) = HI!RunRank(b) => a = b
  BY <1>1, <1>2
<1> QED BY <1>3, <1>4

GoodValue(v) == /\ v \in HistoryValues /\ v.qty \in Nat /\ v.price \in Nat /\ v.source \in Sources3
                /\ v.price > 0 => v.source # "none"

\* Cards in the table have a value that is theirs.
LEMMA ValuesAre ==
  ASSUME NEW t, t \in HI!Tables
  PROVE  /\ DOMAIN t = HistoryCards
         /\ \A c \in HistoryCards : t[c] \in HI!Values(c)
BY DEF HI!Tables

LEMMA ValueIs ==
  ASSUME NEW t, t \in HI!Tables, NEW c, c \in HistoryCards, t[c] # HI!Absent
  PROVE  GoodValue(t[c])
<1> DEFINE v == t[c]
<1>1. v \in ValuesOf[c]
  BY ValuesAre DEF HI!Values
<1> HIDE DEF v
<1>2. v \in HistoryValues /\ (v.price > 0 => v.source # "none")
  BY <1>1, HistoryAssumption DEF HistoryValues, Sources3
<1>3. GoodValue(v)
  BY <1>2 DEF HistoryValues, GoodValue
<1> QED BY <1>3 DEF v

LEMMA NotAbsent ==
  ASSUME NEW c \in HistoryCards, NEW v \in ValuesOf[c]
  PROVE  v # HI!Absent /\ v \in HistoryValues /\ (v.price > 0 => v.source # "none")
<1>1. v \in HistoryValues /\ (v.price > 0 => v.source # "none")
  BY HistoryAssumption DEF HistoryValues, Sources3
<1>2. v.source # "absent"
  BY <1>1 DEF HistoryValues, Sources3
<1>3. HI!Absent.source = "absent"
  BY DEF HI!Absent
<1> QED BY <1>1, <1>2, <1>3

LEMMA RowIs ==
  ASSUME NEW r \in HistoryRows
  PROVE  /\ r.card \in HistoryCards /\ r.date \in 0..MaxDay /\ r.date \in Nat /\ r.run \in HI!Runs /\ r.qty \in Nat /\ r.price \in Nat
         /\ r.price_source \in Sources3 /\ r.from \in Sources3
BY HistoryAssumption DEF HistoryRows

\* A day's rows have a last one, of its run.
LEMMA LatestIs ==
  ASSUME HistoryInv, NEW rows \in SUBSET s3, rows # {}
  PROVE  /\ HI!Latest(rows) \in rows
         /\ \A q \in rows : HI!RunRank(q.run) <= HI!RunRank(HI!Latest(rows).run)
<1> DEFINE ranks == {HI!RunRank(r.run) : r \in rows}
<1>1. \A r \in rows : r.run \in HI!Runs
  BY RowIs DEF HistoryInv
<1>2. ranks \in SUBSET (0..2) /\ ranks # {}
  BY <1>1, RanksAre
<1>3. PICK x \in ranks : \A y \in ranks : x >= y
  <2> HIDE DEF ranks
  <2>1. 2 \in Nat
    OBVIOUS
  <2> QED BY <1>2, <2>1, Extremes
<1>4. PICK r \in rows : x = HI!RunRank(r.run)
  OBVIOUS
<1>5. \A q \in rows : HI!RunRank(q.run) <= HI!RunRank(r.run)
  BY <1>1, <1>3, <1>4, RanksAre
<1> QED BY <1>4, <1>5 DEF HI!Latest

LEMMA LatestOnly ==
  ASSUME HistoryInv, NEW c, NEW d, NEW r \in HI!RowOf(c, d),
         \A q \in HI!RowOf(c, d) : HI!RunRank(q.run) <= HI!RunRank(r.run)
  PROVE  HI!Latest(HI!RowOf(c, d)) = r
<1>1. HI!RowOf(c, d) \in SUBSET s3 /\ HI!RowOf(c, d) # {}
      /\ \A q \in HI!RowOf(c, d) : q.card = c /\ q.date = d
  BY DEF HI!RowOf, HI!RowsOf
<1> DEFINE l == HI!Latest(HI!RowOf(c, d))
<1>2. l \in HI!RowOf(c, d) /\ HI!RunRank(r.run) <= HI!RunRank(l.run)
  BY <1>1, LatestIs
<1> HIDE DEF l
<1>3. l.run \in HI!Runs /\ r.run \in HI!Runs
  BY <1>1, <1>2, RowIs DEF HistoryInv
<1>4. HI!RunRank(l.run) = HI!RunRank(r.run)
  BY <1>2, <1>3, RanksAre
<1>5. l = r
  BY <1>1, <1>2, <1>3, <1>4, RanksAre DEF HistoryInv
<1> QED BY <1>5 DEF l

LEMMA HistoryBegin == ASSUME HI!Init PROVE HistoryInv
<1>1. PICK t \in HI!Tables : /\ s2 = t /\ s4 = HI!Priced(t) /\ s1 = 1
                             /\ s3 \in {{}} \cup {{HI!Row(c, 0, "cron", t[c], FALSE) : c \in {x \in HistoryCards : t[x] # HI!Absent}}}
  BY DEF HI!Init
<1> DEFINE K == {x \in HistoryCards : t[x] # HI!Absent}
           row(c) == HI!Row(c, 0, "cron", t[c], FALSE)
           Rows0 == {row(c) : c \in K}
<1>2. s1 \in 1..MaxDay /\ 0 \in 0..MaxDay /\ 0 <= s1
  BY <1>1, HistoryAssumption
<1>3. ASSUME NEW c \in K
      PROVE  /\ row(c) \in HistoryRows /\ row(c).card = c /\ row(c).date = 0 /\ row(c).run = "cron"
             /\ row(c).price_source = "none" /\ row(c).from = t[c].source /\ (row(c).price > 0 => row(c).from # "none")
  <2>1. t[c] \in HistoryValues /\ t[c].qty \in Nat /\ t[c].price \in Nat /\ t[c].source \in Sources3
        /\ (t[c].price > 0 => t[c].source # "none")
    <3>1. t \in HI!Tables /\ c \in HistoryCards /\ t[c] # HI!Absent
      BY <1>1
    <3>2. GoodValue(t[c])
      BY ONLY <3>1, ValueIs
    <3> QED BY ONLY <3>2 DEF GoodValue
  <2>2. "none" \in Sources3 /\ "cron" \in HI!Runs /\ c \in HistoryCards
    BY DEF Sources3, HI!Runs
  <2>3. row(c) = [card |-> c, date |-> 0, run |-> "cron", qty |-> t[c].qty, price |-> t[c].price,
                  price_source |-> "none", from |-> t[c].source]
    BY DEF HI!Row, HI!None
  <2> HIDE DEF row
  <2> QED BY <1>2, <2>1, <2>2, <2>3 DEF HistoryRows
<1>4. IsFiniteSet(Rows0)
  <2>1. IsFiniteSet(K)
    <3>1. K \in SUBSET HistoryCards
      OBVIOUS
    <3> HIDE DEF K
    <3> QED BY <3>1, HistoryAssumption, FS_Subset
  <2> DEFINE f == [c \in K |-> row(c)]
  <2>2. Rows0 = {f[c] : c \in K}
    OBVIOUS
  <2> HIDE DEF f, K, Rows0
  <2> QED BY <2>1, <2>2, ImageIsFinite
<1>5. s3 \in SUBSET Rows0
  BY <1>1
<1>6. IsFiniteSet(s3)
  <2> HIDE DEF Rows0
  <2> QED BY <1>4, <1>5, FS_Subset
<1>7. \A r \in s3 : \E c \in K : r = row(c)
  BY <1>5
<1>8. s4 \subseteq HistoryCards /\ HI!Priced(s2) \subseteq s4
  BY <1>1 DEF HI!Priced
<1>10. \A c \in K : s2[c] # HI!Absent
  BY <1>1
<1> HIDE DEF row, K, Rows0
<1>11. s3 \in SUBSET HistoryRows
  BY <1>3, <1>7
<1>12. \A r \in s3 : /\ r.date <= s1 /\ s2[r.card] # HI!Absent
                     /\ r.price > 0 => r.from # "none"
                     /\ r.price_source \in {"none", r.from}
  BY <1>2, <1>3, <1>7, <1>10
<1>13. /\ \A r, q \in s3 : r.card = q.card /\ r.date = q.date /\ r.run = q.run => r = q
       /\ \A r, q \in s3 : r.date <= q.date => \E p \in s3 : p.card = r.card /\ p.date = q.date
  BY <1>3, <1>7
<1> QED BY <1>1, <1>2, <1>6, <1>8, <1>11, <1>12, <1>13 DEF HistoryInv

\* What a snapshot adds, and what it leaves.
LEMMA SnapshotRows ==
  ASSUME HistoryInv, NEW kind \in HI!Runs, HI!RecordSnapshot(kind)
  PROVE  /\ UNCHANGED <<s1, s2, s4>>
         /\ \A c \in HI!Known : \E r \in s3' : r.card = c /\ r.date = s1 /\ r.run = kind
         /\ \A r \in s3' : \/ /\ r \in s3 /\ ~ (r.date = s1 /\ r.run = kind)
                           \/ /\ r.card \in HI!Known /\ r.date = s1 /\ r.run = kind /\ r \in HistoryRows
                              /\ r.price_source = s2[r.card].source /\ r.from = s2[r.card].source
                              /\ r.price = s2[r.card].price /\ r.qty = s2[r.card].qty
         /\ \A r \in s3 : ~ (r.date = s1 /\ r.run = kind) => r \in s3'
         /\ \A r, q \in s3' : r \notin s3 /\ q \notin s3 /\ r.card = q.card => r = q
         /\ \A r, q \in s3' : r.date = s1 /\ r.run = kind /\ q.date = s1 /\ q.run = kind /\ r.card = q.card => r = q
         /\ IsFiniteSet(s3')
<1> DEFINE row(c) == HI!Row(c, s1, kind, s2[c], TRUE)
           new == {row(c) : c \in HI!Known}
           kept == {r \in s3 : ~(r.date = s1 /\ r.run = kind /\ s2[r.card] # HI!Absent)}
<1>1. UNCHANGED <<s1, s2, s4>> /\ s3' = kept \cup new
  BY DEF HI!RecordSnapshot
<1>2. \A r \in s3 : s2[r.card] # HI!Absent
  BY DEF HistoryInv
<1>3. kept = {r \in s3 : ~(r.date = s1 /\ r.run = kind)}
  BY <1>2
<1>4. ASSUME NEW c \in HI!Known
      PROVE  /\ row(c) \in HistoryRows /\ row(c).card = c /\ row(c).date = s1 /\ row(c).run = kind
             /\ row(c).price_source = s2[c].source /\ row(c).from = s2[c].source
             /\ row(c).price = s2[c].price /\ row(c).qty = s2[c].qty
  <2>1. c \in HistoryCards /\ s2[c] # HI!Absent /\ s2 \in HI!Tables /\ s1 \in 0..MaxDay
    BY HistoryAssumption DEF HI!Known, HistoryInv
  <2>2. s2[c].qty \in Nat /\ s2[c].price \in Nat /\ s2[c].source \in Sources3
    <3>1. GoodValue(s2[c])
      BY ONLY <2>1, ValueIs
    <3> QED BY ONLY <3>1 DEF GoodValue
  <2>3. row(c) = [card |-> c, date |-> s1, run |-> kind, qty |-> s2[c].qty, price |-> s2[c].price,
                  price_source |-> s2[c].source, from |-> s2[c].source]
    BY DEF HI!Row
  <2> HIDE DEF row
  <2> QED BY <2>1, <2>2, <2>3 DEF HistoryRows
<1>5. IsFiniteSet(kept \cup new)
  <2>1. IsFiniteSet(HI!Known)
    <3>1. HI!Known \in SUBSET HistoryCards
      BY DEF HI!Known
    <3> QED BY <3>1, HistoryAssumption, FS_Subset
  <2> DEFINE f == [c \in HI!Known |-> row(c)]
  <2>2. new = {f[c] : c \in HI!Known}
    OBVIOUS
  <2>3. kept \in SUBSET s3 /\ IsFiniteSet(s3)
    BY DEF HistoryInv
  <2> HIDE DEF f, new, kept
  <2>4. IsFiniteSet(new)
    BY <2>1, <2>2, ImageIsFinite
  <2>5. IsFiniteSet(kept)
    BY <2>3, FS_Subset
  <2> QED BY ONLY <2>4, <2>5, FS_Union
<1>6. \A r \in new : \E c \in HI!Known : r = row(c)
  OBVIOUS
<1>7. \A c \in HI!Known : row(c) \in new
  OBVIOUS
<1> HIDE DEF new, kept, row
<1>8. \A r \in new : /\ r.card \in HI!Known /\ r = row(r.card) /\ r.date = s1 /\ r.run = kind /\ r \in HistoryRows
                     /\ r.price_source = s2[r.card].source /\ r.from = s2[r.card].source
                     /\ r.price = s2[r.card].price /\ r.qty = s2[r.card].qty
  BY <1>4, <1>6
<1>9. \A r \in kept : r \in s3 /\ ~ (r.date = s1 /\ r.run = kind)
  BY <1>3
<1> QED BY <1>1, <1>3, <1>4, <1>5, <1>7, <1>8, <1>9

LEMMA HistoryStep == ASSUME HistoryInv, HI!Next PROVE HistoryInv'
<1>0. /\ s2 \in HI!Tables /\ \A c \in HistoryCards : s2[c] \in HI!Values(c)
      /\ \A r \in s3 : r \in HistoryRows /\ r.card \in HistoryCards /\ r.date \in Nat
      /\ s1 \in Nat
  BY ValuesAre, RowIs, HistoryAssumption DEF HistoryInv
<1>1. ASSUME NEW c \in HistoryCards, HI!Update(c) \/ HI!DropOtherPrint(c) PROVE HistoryInv'
  <2>1. PICK v \in ValuesOf[c] : /\ s2' = [s2 EXCEPT ![c] = v] /\ UNCHANGED <<s1, s3>>
                                 /\ s4' \subseteq s4 \cup {c} /\ s4 \subseteq s4' \cup {c}
                                 /\ v.source = "pokemontcg" => c \in s4'
    BY <1>1 DEF HI!Update, HI!DropOtherPrint
  <2>2. v # HI!Absent
    BY NotAbsent
  <2>3. s2' \in HI!Tables
    <3>1. v \in HI!Values(c) /\ \A d \in HistoryCards : HI!Values(d) \subseteq UNION {HI!Values(e) : e \in HistoryCards}
      BY DEF HI!Values
    <3>2. s2 \in [HistoryCards -> UNION {HI!Values(e) : e \in HistoryCards}]
      BY <1>0 DEF HI!Tables
    <3> QED BY <1>0, <2>1, <3>1, <3>2 DEF HI!Tables
  <2>4. \A d \in HistoryCards : s2'[d] = (IF d = c THEN v ELSE s2[d])
    BY <1>0, <2>1 DEF HI!Tables
  <2>5. s4' \subseteq HistoryCards
    BY <2>1 DEF HistoryInv
  <2>6. HI!Priced(s2') \subseteq s4'
    <3> SUFFICES ASSUME NEW d \in HistoryCards, s2'[d].source = "pokemontcg" PROVE d \in s4'
      BY DEF HI!Priced
    <3>1. CASE d = c
      BY <2>1, <2>4, <3>1
    <3>2. CASE d # c
      BY <2>1, <2>4, <3>2 DEF HistoryInv, HI!Priced
    <3> QED BY <3>1, <3>2
  <2>7. \A r \in s3 : s2'[r.card] # HI!Absent
    BY <1>0, <2>2, <2>4 DEF HistoryInv
  <2>8. \A r \in s3' : /\ r.date <= s1' /\ s2'[r.card] # HI!Absent
                       /\ r.price > 0 => r.from # "none"
                       /\ r.price_source \in {"none", r.from}
    BY <2>1, <2>7 DEF HistoryInv
  <2> QED BY <2>1, <2>3, <2>5, <2>6, <2>8 DEF HistoryInv
<1>2. ASSUME NEW c \in HistoryCards, HI!DeleteCard(c) PROVE HistoryInv'
  <2>1. /\ s2' = [s2 EXCEPT ![c] = HI!Absent] /\ s4' = s4 \ {c} /\ s3' = {r \in s3 : r.card # c} /\ s1' = s1
    BY <1>2 DEF HI!DeleteCard
  <2>2. s2' \in HI!Tables
    <3>1. HI!Absent \in HI!Values(c) /\ \A d \in HistoryCards : HI!Values(d) \subseteq UNION {HI!Values(e) : e \in HistoryCards}
      BY DEF HI!Values
    <3>2. s2 \in [HistoryCards -> UNION {HI!Values(e) : e \in HistoryCards}]
      BY <1>0 DEF HI!Tables
    <3> QED BY <1>0, <2>1, <3>1, <3>2 DEF HI!Tables
  <2>3. \A d \in HistoryCards : s2'[d] = (IF d = c THEN HI!Absent ELSE s2[d])
    BY <1>0, <2>1 DEF HI!Tables
  <2>4. HI!Priced(s2') \subseteq s4'
    <3>1. HI!Absent.source = "absent"
      BY DEF HI!Absent
    <3> QED BY <2>1, <2>3, <3>1 DEF HistoryInv, HI!Priced
  <2>5. s3' \in SUBSET s3 /\ \A r \in s3' : r \in s3 /\ r.card # c
    BY <2>1
  <2>6. IsFiniteSet(s3')
    BY <2>5, FS_Subset DEF HistoryInv
  <2>7. \A r \in s3' : /\ r.date <= s1' /\ s2'[r.card] # HI!Absent
                       /\ r.price > 0 => r.from # "none"
                       /\ r.price_source \in {"none", r.from}
    BY <1>0, <2>1, <2>3, <2>5 DEF HistoryInv
  <2>8. \A r, q \in s3' : r.date <= q.date => \E p \in s3' : p.card = r.card /\ p.date = q.date
    <3> SUFFICES ASSUME NEW r \in s3', NEW q \in s3', r.date <= q.date
                 PROVE  \E p \in s3' : p.card = r.card /\ p.date = q.date
      OBVIOUS
    <3>1. PICK p \in s3 : p.card = r.card /\ p.date = q.date
      BY <2>5 DEF HistoryInv
    <3> QED BY <2>1, <2>5, <3>1
  <2>9. s1' \in 1..MaxDay /\ s4' \subseteq HistoryCards /\ s3' \in SUBSET HistoryRows
    BY <2>1, <2>5 DEF HistoryInv
  <2>10. \A r, q \in s3' : r.card = q.card /\ r.date = q.date /\ r.run = q.run => r = q
    BY <2>5 DEF HistoryInv
  <2> QED BY ONLY <2>2, <2>4, <2>6, <2>7, <2>8, <2>9, <2>10 DEF HistoryInv
<1>3. ASSUME NEW kind \in HI!Runs, HI!RecordSnapshot(kind) PROVE HistoryInv'
  <2>1. /\ UNCHANGED <<s1, s2, s4>>
        /\ \A c \in HI!Known : \E r \in s3' : r.card = c /\ r.date = s1 /\ r.run = kind
        /\ \A r \in s3' : \/ /\ r \in s3 /\ ~ (r.date = s1 /\ r.run = kind)
                          \/ /\ r.card \in HI!Known /\ r.date = s1 /\ r.run = kind /\ r \in HistoryRows
                             /\ r.price_source = s2[r.card].source /\ r.from = s2[r.card].source
                             /\ r.price = s2[r.card].price
        /\ \A r \in s3 : ~ (r.date = s1 /\ r.run = kind) => r \in s3'
        /\ \A r, q \in s3' : r.date = s1 /\ r.run = kind /\ q.date = s1 /\ q.run = kind /\ r.card = q.card => r = q
        /\ IsFiniteSet(s3')
    BY <1>3, SnapshotRows
  <2>2. s3' \in SUBSET HistoryRows
    BY <1>0, <2>1
  <2>3. \A c \in HI!Known : /\ c \in HistoryCards /\ s2[c] # HI!Absent
                            /\ s2[c].price > 0 => s2[c].source # "none"
    <3>1. HI!Known = {c \in HistoryCards : s2[c] # HI!Absent} /\ s2 \in HI!Tables
      BY <1>0 DEF HI!Known
    <3>2. \A c \in HI!Known : c \in HistoryCards /\ s2[c] # HI!Absent /\ GoodValue(s2[c])
      BY ONLY <3>1, ValueIs
    <3> QED BY ONLY <3>2 DEF GoodValue
  <2>4. \A r \in s3' : /\ r.date <= s1' /\ s2'[r.card] # HI!Absent
                       /\ r.price > 0 => r.from # "none"
                       /\ r.price_source \in {"none", r.from}
    BY <1>0, <2>1, <2>3 DEF HistoryInv
  <2>5. \A r, q \in s3' : r.card = q.card /\ r.date = q.date /\ r.run = q.run => r = q
    <3>1. \A r, q \in s3 : r.card = q.card /\ r.date = q.date /\ r.run = q.run => r = q
      BY DEF HistoryInv
    <3> QED BY ONLY <2>1, <3>1
  <2>6. \A r \in s3' : r.card \in HI!Known /\ r.date <= s1 /\ r.date \in Nat
    BY <1>0, <2>1 DEF HistoryInv, HI!Known
  <2>7. ASSUME NEW r \in s3', NEW q \in s3', r.date <= q.date
        PROVE  \E p \in s3' : p.card = r.card /\ p.date = q.date
    <3>1. CASE q.date = s1
      BY <2>1, <2>6, <3>1
    <3>2. CASE q.date # s1
      <4>1. q \in s3 /\ r \in s3
        BY <1>0, <2>1, <2>6, <2>7, <3>2
      <4>2. PICK p \in s3 : p.card = r.card /\ p.date = q.date
        BY <2>7, <4>1 DEF HistoryInv
      <4> QED BY <2>1, <3>2, <4>2
    <3> QED BY <3>1, <3>2
  <2> QED BY <2>1, <2>2, <2>4, <2>5, <2>7 DEF HistoryInv
<1>4. CASE HI!Midnight
  <2>1. s1 < MaxDay /\ s1' = s1 + 1 /\ UNCHANGED <<s2, s3, s4>>
    BY <1>4 DEF HI!Midnight
  <2>2. s1' \in 1..MaxDay /\ \A r \in s3 : r.date <= s1'
    BY <1>0, <2>1, HistoryAssumption DEF HistoryInv
  <2> QED BY <2>1, <2>2 DEF HistoryInv
<1> QED BY <1>1, <1>2, <1>3, <1>4 DEF HI!Next

LEMMA HistoryStutter == ASSUME HistoryInv, UNCHANGED <<s1, s2, s3, s4>> PROVE HistoryInv'
BY DEF HistoryInv

LEMMA HistoryTyped == ASSUME HistoryInv PROVE HI!TypeOK
<1>1. \A r \in s3 : r.card \in HI!Known /\ r.date \in 0..s1 /\ r.run \in HI!Runs
  <2>1. \A r \in s3 : r.card \in HistoryCards /\ r.date \in 0..MaxDay /\ r.run \in HI!Runs /\ r.date <= s1 /\ s2[r.card] # HI!Absent
    BY RowIs DEF HistoryInv
  <2> QED BY <2>1, HistoryAssumption DEF HI!Known, HistoryInv
<1>2. \A r, q \in s3 : <<r.card, r.date, r.run>> = <<q.card, q.date, q.run>> => r = q
  BY DEF HistoryInv
<1> QED BY <1>1, <1>2 DEF HI!TypeOK, HistoryInv

\* The sum over a day's closing rows is the sum over the cards, each by its last row.
LEMMA ClosingSum ==
  ASSUME HistoryInv, NEW d, HI!RowsOf(d) # {}, HI!Complete(d), NEW f, NEW g,
         \A r \in HI!ClosingRows(d) : f[r] \in Int,
         \A c \in HI!Known : g[c] = IF c \in DOMAIN HI!SnapshotState(d) THEN f[HI!SnapshotState(d)[c]] ELSE 0
  PROVE  Sigma(g, HI!Known) = Sigma(f, HI!ClosingRows(d))
<1> DEFINE S == HI!ClosingRows(d)
           K == HI!Known
           B == {r.card : r \in HI!RowsOf(d)}
           state == HI!SnapshotState(d)
           cardOf == [r \in S |-> r.card]
           class == ByClass(f, S, cardOf, K)
<1>1. /\ HI!RowsOf(d) = {r \in s3 : r.date = d}
      /\ S = {r \in HI!RowsOf(d) : r.run = HI!Latest(HI!RowsOf(d)).run}
  BY DEF HI!RowsOf, HI!ClosingRows, HI!LastRun
<1>2. S \in SUBSET s3 /\ IsFiniteSet(S)
  <2>1. S \in SUBSET s3
    BY <1>1
  <2> HIDE DEF S
  <2> QED BY <2>1, FS_Subset DEF HistoryInv
<1>3. \A r \in s3 : r.card \in K
  <2>1. \A r \in s3 : r \in HistoryRows
    BY DEF HistoryInv
  <2> QED BY <2>1, RowIs DEF HistoryInv, HI!Known
<1>4. IsFiniteSet(K)
  <2>1. K \in SUBSET HistoryCards
    BY DEF HI!Known
  <2> HIDE DEF K
  <2> QED BY <2>1, HistoryAssumption, FS_Subset
<1>5. DOMAIN state = B /\ \A c \in B : state[c] = HI!Latest(HI!RowOf(c, d))
  BY DEF HI!SnapshotState
<1>6. B = {r.card : r \in S}
  BY DEF HI!Complete
<1>7. ASSUME NEW r \in S PROVE r.card \in B /\ state[r.card] = r
  <2>1. r.card \in B
    BY <1>6
  <2>2. r \in HI!RowOf(r.card, d)
    BY <1>1 DEF HI!RowOf
  <2>3. HI!RowsOf(d) \in SUBSET s3
    BY <1>1
  <2>4. \A q \in HI!RowsOf(d) : HI!RunRank(q.run) <= HI!RunRank(HI!Latest(HI!RowsOf(d)).run)
    BY <2>3, LatestIs
  <2>5. \A q \in HI!RowOf(r.card, d) : HI!RunRank(q.run) <= HI!RunRank(r.run)
    BY <1>1, <2>4 DEF HI!RowOf
  <2>6. HI!Latest(HI!RowOf(r.card, d)) = r
    BY <2>2, <2>5, LatestOnly
  <2> QED BY <1>5, <2>1, <2>6
<1>8. \A r, q \in S : r.card = q.card => r = q
  BY <1>7
<1>9. \A r \in S : f[r] \in Int
  OBVIOUS
<1>10. Sigma(class, K) = Sigma(f, S)
  <2>1. \A r \in S : cardOf[r] \in K
    BY <1>2, <1>3
  <2> HIDE DEF S, cardOf, K
  <2> QED BY <1>2, <1>4, <1>9, <2>1, SumByClass
<1>11. ASSUME NEW c \in K PROVE g[c] \in Int /\ class[c] = g[c]
  <2> DEFINE own == {r \in S : cardOf[r] = c}
  <2>1. class[c] = Sigma(f, own)
    BY DEF ByClass
  <2>2. CASE c \in B
    <3>1. PICK r \in S : r.card = c
      BY <1>6, <2>2
    <3>2. own = {r}
      BY <1>8, <3>1
    <3>3. Sigma(f, {r}) = f[r]
      <4>1. IsFiniteSet({r}) /\ {r} \ {r} = {} /\ \A x \in {r} : f[x] \in Int
        BY <1>9, FS_Singleton
      <4>2. Sigma(f, {r}) = f[r] + Sigma(f, {r} \ {r})
        BY <4>1, SumOfInts
      <4> QED BY <1>9, <4>1, <4>2, SumOfNone
    <3>4. g[c] = f[r]
      BY <1>5, <1>7, <2>2, <3>1
    <3> HIDE DEF own, class
    <3> QED BY <1>9, <2>1, <3>2, <3>3, <3>4
  <2>3. CASE c \notin B
    <3>1. own = {}
      BY <1>6, <2>3
    <3>2. g[c] = 0
      BY <1>5, <2>3
    <3> HIDE DEF own, class
    <3> QED BY <2>1, <3>1, <3>2, SumOfNone
  <2> QED BY <2>2, <2>3
<1> HIDE DEF class, S, K
<1> QED BY <1>4, <1>10, <1>11, SumAgrees DEF S, K

\* The two ways to count a card's copies are one.
LEMMA CopiesAre ==
  ASSUME NEW m \in HI!Metrics, NEW q \in Nat
  PROVE  HI!CountExpr(m, q) \in Nat /\ HI!MetricCopies(m, q) = HI!CountExpr(m, q)
<1>1. m = "unique" \/ m = "duplicates" \/ m = "total"
  BY DEF HI!Metrics
<1>2. \A a \in Int : Max({a, 0}) = IF a > 0 THEN a ELSE 0
  BY DEF Max
<1>3. Max({q, 0}) = q /\ Max({q - 1, 0}) = IF q > 1 THEN q - 1 ELSE 0
  BY <1>2
<1> QED BY <1>1, <1>3, HistoryNames DEF HI!CountExpr, HI!MetricCopies

LEMMA Distributes ==
  \A a, b, c, d \in Int : /\ a * (d - c) + (b - a) * d = b * d - a * c
                          /\ a * (d - c) \in Int /\ (b - a) * d \in Int /\ b * d \in Int /\ a * c \in Int
<1> SUFFICES ASSUME NEW a \in Int, NEW b \in Int, NEW c \in Int, NEW d \in Int
             PROVE  /\ a * (d - c) + (b - a) * d = b * d - a * c
                    /\ a * (d - c) \in Int /\ (b - a) * d \in Int /\ b * d \in Int /\ a * c \in Int
  OBVIOUS
<1>1. a * (d - c) = a * d - a * c /\ (b - a) * d = b * d - a * d
  OBVIOUS
<1> QED BY <1>1

\* A period of two days or more starts on a day with rows, before today.
LEMMA PeriodIs ==
  ASSUME HistoryInv, NEW metric, NEW start \in 0..s1,
         Cardinality(DOMAIN HI!RealValueHistory(metric, start)) >= 2
  PROVE  LET history == HI!RealValueHistory(metric, start)
             first == Min(DOMAIN history)
         IN  /\ first \in Nat /\ HI!RowsOf(first) # {}
             /\ history[s1] = HI!Live(metric)
             /\ history[first] = HI!DayValue(metric, HI!ClosingRows(first))
<1> DEFINE history == HI!RealValueHistory(metric, start)
           X == {x \in HI!Dates \cup (IF s3 = {} THEN {} ELSE {s1}) : x >= start}
           first == Min(X)
<1>1. /\ DOMAIN history = X
      /\ \A d \in X : history[d] = IF d = s1 THEN HI!Live(metric) ELSE HI!DayValue(metric, HI!ClosingRows(d))
  BY DEF HI!RealValueHistory
<1>2. \A x \in HI!Dates : x \in Nat /\ x <= s1
  <2>1. \A r \in s3 : r.date \in Nat /\ r.date <= s1
    BY RowIs DEF HistoryInv
  <2> QED BY <2>1 DEF HI!Dates
<1>3. s1 \in Nat /\ s1 >= start
  BY HistoryAssumption DEF HistoryInv
<1>4. X \in SUBSET (0..s1)
  BY <1>2, <1>3
<1>5. X # {}
  <2> SUFFICES ASSUME X = {} PROVE FALSE
    OBVIOUS
  <2> QED BY <1>1, FS_EmptySet
<1>6. s3 # {}
  <2> SUFFICES ASSUME s3 = {} PROVE FALSE
    OBVIOUS
  <2>1. X = {}
    BY DEF HI!Dates
  <2> QED BY <1>5, <2>1
<1>7. s1 \in X
  BY <1>3, <1>6
<1>8. first \in X /\ \A x \in X : first <= x
  <2> HIDE DEF X
  <2> QED BY <1>3, <1>4, <1>5, MinMax
<1>9. first # s1
  <2> SUFFICES ASSUME first = s1 PROVE FALSE
    OBVIOUS
  <2>1. \A x \in X : x = s1
    <3> HIDE DEF X, first
    <3> QED BY <1>3, <1>4, <1>8
  <2>2. X = {s1}
    BY <1>7, <2>1
  <2>3. Cardinality(X) = 1
    BY <2>2, FS_Singleton
  <2> QED BY <1>1, <2>3
<1>10. first \in HI!Dates
  BY <1>8, <1>9
<1>11. HI!RowsOf(first) # {}
  BY <1>10 DEF HI!Dates, HI!RowsOf
<1> HIDE DEF X
<1> QED BY <1>1, <1>2, <1>7, <1>8, <1>9, <1>10, <1>11

LEMMA ChangeHolds == ASSUME HistoryInv PROVE HI!ChangeAddsUp
<1> SUFFICES ASSUME NEW metric \in HI!Metrics, NEW start \in 0..s1
             PROVE  LET history == HI!RealValueHistory(metric, start)
                        first == Min(DOMAIN history)
                        split == HI!Breakdown(metric, first)
                    IN  Cardinality(DOMAIN history) >= 2 /\ HI!Complete(first) =>
                          /\ split.price + split.cards = HI!PeriodChange(history)
                          /\ split.delta = history[s1].count - history[first].count
  BY HistoryNames DEF HI!ChangeAddsUp
<1> DEFINE history == HI!RealValueHistory(metric, start)
           first == Min(DOMAIN history)
           split == HI!Breakdown(metric, first)
           before == HI!SnapshotState(first)
           B == DOMAIN before
           K == HI!Known
           S == HI!ClosingRows(first)
           p0(c) == IF c \in B THEN before[c].price ELSE 0
           c0(c) == IF c \in B THEN HI!MetricCopies(metric, before[c].qty) ELSE 0
           c1(c) == HI!MetricCopies(metric, s2[c].qty)
<1> SUFFICES ASSUME Cardinality(DOMAIN history) >= 2, HI!Complete(first)
             PROVE  /\ split.price + split.cards = HI!PeriodChange(history)
                    /\ split.delta = history[s1].count - history[first].count
  OBVIOUS
<1>1. /\ first \in Nat /\ HI!RowsOf(first) # {}
      /\ history[s1] = HI!Live(metric)
      /\ history[first] = HI!DayValue(metric, S)
  BY PeriodIs
<1>2. IsFiniteSet(K) /\ K \in SUBSET HistoryCards
  <2>1. K \in SUBSET HistoryCards
    BY DEF HI!Known
  <2> HIDE DEF K
  <2> QED BY <2>1, HistoryAssumption, FS_Subset
<1>3. \A r \in s3 : r \in HistoryRows /\ r.card \in K /\ r.qty \in Nat /\ r.price \in Nat
  <2>1. \A r \in s3 : r \in HistoryRows
    BY DEF HistoryInv
  <2> QED BY <2>1, RowIs DEF HistoryInv, HI!Known
<1>4. S \in SUBSET s3
  BY DEF HI!ClosingRows, HI!RowsOf
<1>5. /\ B = {r.card : r \in HI!RowsOf(first)}
      /\ \A c \in B : before[c] = HI!Latest(HI!RowOf(c, first))
  BY DEF HI!SnapshotState
<1>6. \A c \in B : before[c] \in s3
  <2> SUFFICES ASSUME NEW c \in B PROVE before[c] \in s3
    OBVIOUS
  <2>1. HI!RowOf(c, first) # {} /\ HI!RowOf(c, first) \in SUBSET s3
    BY <1>5 DEF HI!RowOf, HI!RowsOf
  <2> QED BY <1>5, <2>1, LatestIs
<1>7. B \in SUBSET K
  BY <1>3, <1>5 DEF HI!RowsOf
<1>8. \A c \in K : s2[c].qty \in Nat /\ s2[c].price \in Nat
  <2>1. K = {c \in HistoryCards : s2[c] # HI!Absent} /\ s2 \in HI!Tables
    BY DEF HI!Known, HistoryInv
  <2>2. \A c \in K : GoodValue(s2[c])
    BY ONLY <2>1, ValueIs
  <2> HIDE DEF K
  <2> QED BY <2>2 DEF GoodValue
<1>9. \A c \in K : p0(c) \in Int /\ c0(c) \in Int
  <2> HIDE DEF before, K
  <2> QED BY <1>3, <1>6, CopiesAre
<1>10. \A c \in K : c1(c) \in Int /\ c1(c) = HI!CountExpr(metric, s2[c].qty)
  <2> HIDE DEF K
  <2> QED BY <1>8, CopiesAre
<1> DEFINE price == [c \in K |-> c0(c) * (s2[c].price - p0(c))]
           cards == [c \in K |-> (c1(c) - c0(c)) * s2[c].price]
           delta == [c \in K |-> c1(c) - c0(c)]
           live == [c \in K |-> HI!CountExpr(metric, s2[c].qty) * s2[c].price]
           count == [c \in K |-> HI!CountExpr(metric, s2[c].qty)]
           old == [c \in K |-> c0(c) * p0(c)]
           had == [c \in K |-> c0(c)]
           change == [c \in K |-> c1(c) * s2[c].price - c0(c) * p0(c)]
           oldRows == [r \in S |-> HI!CountExpr(metric, r.qty) * r.price]
           hadRows == [r \in S |-> HI!CountExpr(metric, r.qty)]
<1>11. split.price = Sigma(price, K) /\ split.cards = Sigma(cards, K) /\ split.delta = Sigma(delta, K)
  <2>1. DOMAIN before \cup K = K
    BY <1>7
  <2>2. DOMAIN price = K /\ DOMAIN cards = K /\ DOMAIN delta = K
    OBVIOUS
  <2>3. split = [price |-> HI!Total(price), cards |-> HI!Total(cards), delta |-> HI!Total(delta)]
    BY <2>1 DEF HI!Breakdown
  <2> HIDE DEF price, cards, delta, split, K
  <2> QED BY <2>2, <2>3, HistoryNames
<1>12. HI!Live(metric).value = Sigma(live, K) /\ HI!Live(metric).count = Sigma(count, K)
  <2>1. HI!Live(metric) = [value |-> HI!Total(live), count |-> HI!Total(count)]
    BY DEF HI!Live
  <2>2. DOMAIN live = K /\ DOMAIN count = K
    OBVIOUS
  <2> HIDE DEF live, count, K
  <2> QED BY <2>1, <2>2, HistoryNames
<1>13. HI!DayValue(metric, S).value = Sigma(oldRows, S) /\ HI!DayValue(metric, S).count = Sigma(hadRows, S)
  <2>1. HI!DayValue(metric, S) = [value |-> HI!Total(oldRows), count |-> HI!Total(hadRows)]
    BY DEF HI!DayValue
  <2>2. DOMAIN oldRows = S /\ DOMAIN hadRows = S
    OBVIOUS
  <2> HIDE DEF oldRows, hadRows, S
  <2> QED BY <2>1, <2>2, HistoryNames
<1>14. \A r \in S : /\ hadRows[r] = HI!MetricCopies(metric, r.qty) /\ hadRows[r] \in Int
                    /\ oldRows[r] = HI!MetricCopies(metric, r.qty) * r.price /\ oldRows[r] \in Int
  <2>1. \A r \in S : r.qty \in Nat /\ r.price \in Nat
    BY <1>3, <1>4
  <2>2. \A r \in S : /\ HI!CountExpr(metric, r.qty) \in Nat
                     /\ HI!MetricCopies(metric, r.qty) = HI!CountExpr(metric, r.qty)
    BY <2>1, CopiesAre
  <2>3. \A x, y \in Nat : x * y \in Int
    OBVIOUS
  <2> HIDE DEF S
  <2> QED BY <2>1, <2>2, <2>3
<1>15. \A c \in B : before[c] \in S
  <2> SUFFICES ASSUME NEW c \in B PROVE before[c] \in S
    OBVIOUS
  <2>1. B = {r.card : r \in S}
    BY <1>5 DEF HI!Complete
  <2>2. PICK r \in S : r.card = c
    BY <2>1
  <2>3. r \in HI!RowOf(c, first)
    BY <2>2 DEF HI!ClosingRows, HI!RowOf
  <2>4. HI!RowsOf(first) \in SUBSET s3
    BY DEF HI!RowsOf
  <2>5. \A q \in HI!RowsOf(first) : HI!RunRank(q.run) <= HI!RunRank(r.run)
    BY <1>1, <2>4, LatestIs DEF HI!ClosingRows, HI!LastRun
  <2>6. \A q \in HI!RowOf(c, first) : HI!RunRank(q.run) <= HI!RunRank(r.run)
    BY <2>5 DEF HI!RowOf
  <2>7. HI!Latest(HI!RowOf(c, first)) = r
    BY <2>3, <2>6, LatestOnly
  <2> QED BY <1>5, <2>7
<1> HIDE DEF history, split, before, K, S
<1>16. Sigma(old, K) = Sigma(oldRows, S)
  <2>1. \A c \in K : old[c] = IF c \in B THEN oldRows[before[c]] ELSE 0
    BY <1>14, <1>15
  <2>2. \A r \in S : oldRows[r] \in Int
    BY <1>14
  <2> HIDE DEF old, oldRows
  <2> QED BY <1>1, <2>1, <2>2, ClosingSum DEF K, S, before
<1>17. Sigma(had, K) = Sigma(hadRows, S)
  <2>1. \A c \in K : had[c] = IF c \in B THEN hadRows[before[c]] ELSE 0
    BY <1>14, <1>15
  <2>2. \A r \in S : hadRows[r] \in Int
    BY <1>14
  <2> HIDE DEF had, hadRows
  <2> QED BY <1>1, <2>1, <2>2, ClosingSum DEF K, S, before
<1>18. \A c \in K : /\ price[c] \in Int /\ cards[c] \in Int /\ change[c] \in Int /\ old[c] \in Int /\ live[c] \in Int
                    /\ change[c] = price[c] + cards[c] /\ live[c] = change[c] + old[c]
                    /\ delta[c] \in Int /\ had[c] \in Int /\ count[c] \in Int /\ count[c] = delta[c] + had[c]
  <2> SUFFICES ASSUME NEW c \in K
               PROVE /\ price[c] \in Int /\ cards[c] \in Int /\ change[c] \in Int /\ old[c] \in Int /\ live[c] \in Int
                     /\ change[c] = price[c] + cards[c] /\ live[c] = change[c] + old[c]
                     /\ delta[c] \in Int /\ had[c] \in Int /\ count[c] \in Int /\ count[c] = delta[c] + had[c]
    OBVIOUS
  <2> DEFINE x0 == c0(c)  x1 == c1(c)  q0 == p0(c)  q1 == s2[c].price
  <2>1. x0 \in Int /\ x1 \in Int /\ q0 \in Int /\ q1 \in Int /\ HI!CountExpr(metric, s2[c].qty) = x1
    BY <1>8, <1>9, <1>10
  <2>2. /\ price[c] = x0 * (q1 - q0) /\ cards[c] = (x1 - x0) * q1 /\ change[c] = x1 * q1 - x0 * q0
        /\ old[c] = x0 * q0 /\ delta[c] = x1 - x0 /\ had[c] = x0
    OBVIOUS
  <2>3. live[c] = x1 * q1 /\ count[c] = x1
    BY <2>1
  <2> HIDE DEF x0, x1, q0, q1, price, cards, change, old, delta, had, live, count
  <2>4. /\ x0 * (q1 - q0) + (x1 - x0) * q1 = x1 * q1 - x0 * q0
        /\ x0 * (q1 - q0) \in Int /\ (x1 - x0) * q1 \in Int /\ x1 * q1 \in Int /\ x0 * q0 \in Int
    BY ONLY <2>1, Distributes
  <2> DEFINE a == x1 * q1  b == x0 * q0  e == x0 * (q1 - q0)  k == (x1 - x0) * q1
  <2>5. /\ price[c] = e /\ cards[c] = k /\ change[c] = a - b /\ old[c] = b /\ live[c] = a
        /\ e \in Int /\ k \in Int /\ a \in Int /\ b \in Int /\ e + k = a - b
    BY ONLY <2>2, <2>3, <2>4
  <2> HIDE DEF a, b, e, k
  <2>6. price[c] \in Int /\ cards[c] \in Int /\ change[c] \in Int /\ old[c] \in Int /\ live[c] \in Int
        /\ change[c] = price[c] + cards[c] /\ live[c] = change[c] + old[c]
    BY ONLY <2>5
  <2>7. delta[c] \in Int /\ had[c] \in Int /\ count[c] \in Int /\ count[c] = delta[c] + had[c]
    BY ONLY <2>1, <2>2, <2>3
  <2> QED BY ONLY <2>6, <2>7
<1> HIDE DEF price, cards, change, old, delta, had, live, count, oldRows, hadRows
<1>19. /\ Sigma(change, K) = Sigma(price, K) + Sigma(cards, K)
       /\ Sigma(live, K) = Sigma(change, K) + Sigma(old, K)
       /\ Sigma(count, K) = Sigma(delta, K) + Sigma(had, K)
  <2>1. Sigma(change, K) = Sigma(price, K) + Sigma(cards, K)
    BY <1>2, <1>18, SumOfSums
  <2>2. Sigma(live, K) = Sigma(change, K) + Sigma(old, K)
    BY <1>2, <1>18, SumOfSums
  <2>3. Sigma(count, K) = Sigma(delta, K) + Sigma(had, K)
    BY <1>2, <1>18, SumOfSums
  <2> QED BY <2>1, <2>2, <2>3
<1>20. /\ Sigma(change, K) \in Int /\ Sigma(old, K) \in Int /\ Sigma(delta, K) \in Int /\ Sigma(had, K) \in Int
  <2>1. Sigma(change, K) \in Int
    BY <1>2, <1>18, SumOfInts
  <2>2. Sigma(old, K) \in Int
    BY <1>2, <1>18, SumOfInts
  <2>3. Sigma(delta, K) \in Int
    BY <1>2, <1>18, SumOfInts
  <2>4. Sigma(had, K) \in Int
    BY <1>2, <1>18, SumOfInts
  <2> QED BY <2>1, <2>2, <2>3, <2>4
<1>21. HI!PeriodChange(history) = history[s1].value - history[first].value
  BY HistoryNames DEF HI!PeriodChange
<1>22. history[s1].value = Sigma(live, K) /\ history[first].value = Sigma(oldRows, S)
       /\ history[s1].count = Sigma(count, K) /\ history[first].count = Sigma(hadRows, S)
  BY <1>1, <1>12, <1>13
<1> QED BY <1>11, <1>16, <1>17, <1>19, <1>20, <1>21, <1>22

\* Where a row's price came from, its rows and what is before them, as operators of the rows.
RowsAt(S, c, d) == {r \in S : r.card = c /\ r.date = d}
SourceOf(r, P) == IF r.price_source # "none" THEN r.price_source
                  ELSE IF r.price = 0 THEN "none"
                  ELSE IF r.card \in P THEN "pokemontcg" ELSE "dex"
DaysOf(S, c, d) == {x \in {r.date : r \in S} : x < d /\ RowsAt(S, c, x) # {}}
PrecedingSource(S, P, c, d) ==
  IF DaysOf(S, c, d) = {} THEN "none" ELSE SourceOf(HI!Latest(RowsAt(S, c, Max(DaysOf(S, c, d)))), P)

LEMMA RowsAtAre ==
  /\ \A c, d : HI!RowOf(c, d) = RowsAt(s3, c, d)
  /\ \A r : HI!EffectiveSource(r) = SourceOf(r, s4)
  /\ \A c, d : HI!Previous(c, d) = PrecedingSource(s3, s4, c, d)
<1>1. \A c, d : HI!RowOf(c, d) = RowsAt(s3, c, d)
  BY DEF HI!RowOf, HI!RowsOf, RowsAt
<1>2. \A r : HI!EffectiveSource(r) = SourceOf(r, s4)
  BY DEF HI!EffectiveSource, HI!LegacySource, HI!None, SourceOf
<1>3. ASSUME NEW c, NEW d PROVE HI!Previous(c, d) = PrecedingSource(s3, s4, c, d)
  <2>1. {x \in HI!Dates : x < d /\ HI!RowOf(c, x) # {}} = DaysOf(s3, c, d)
    BY <1>1 DEF HI!Dates, DaysOf
  <2> QED BY <1>1, <1>2, <2>1, HistoryNames DEF HI!Previous, PrecedingSource, HI!None
<1> QED BY <1>1, <1>2, <1>3

LEMMA DaysAre ==
  ASSUME HistoryInv, NEW c, NEW d \in 0..MaxDay, DaysOf(s3, c, d) # {}
  PROVE  LET e == Max(DaysOf(s3, c, d))
         IN  /\ e \in DaysOf(s3, c, d) /\ e < d /\ RowsAt(s3, c, e) # {} /\ e \in HI!Dates
             /\ \A x \in DaysOf(s3, c, d) : x <= e
<1> DEFINE E == DaysOf(s3, c, d)
<1>1. \A r \in s3 : r.date \in 0..MaxDay
  BY RowIs DEF HistoryInv
<1>2. E \in SUBSET (0..MaxDay)
  BY <1>1 DEF DaysOf
<1>3. Max(E) \in E /\ \A x \in E : Max(E) >= x
  <2>1. E # {}
    OBVIOUS
  <2> HIDE DEF E
  <2>2. MaxDay \in Nat
    BY HistoryAssumption
  <2> QED BY <1>2, <2>1, <2>2, MinMax
<1>5. \A x \in E : x <= Max(E)
  <2> DEFINE m == Max(E)
  <2>1. m \in E /\ \A x \in E : m >= x
    BY <1>3
  <2>2. \A x \in E : x \in Nat
    BY <1>2, HistoryAssumption
  <2> HIDE DEF E, m
  <2>3. \A x \in E : x <= m
    BY ONLY <2>1, <2>2
  <2> QED BY <2>3 DEF m
<1> QED BY <1>3, <1>5 DEF DaysOf, HI!Dates

\* A card's rows of a day: their last one is one of them.
LEMMA LastOf ==
  ASSUME HistoryInv, NEW c, NEW d, RowsAt(s3, c, d) # {}
  PROVE  LET r == HI!Latest(RowsAt(s3, c, d)) IN r \in s3 /\ r \in HistoryRows /\ r.card = c /\ r.date = d
<1>1. RowsAt(s3, c, d) \in SUBSET s3
  BY DEF RowsAt
<1>2. HI!Latest(RowsAt(s3, c, d)) \in RowsAt(s3, c, d)
  BY <1>1, LatestIs
<1> QED BY <1>2 DEF RowsAt, HistoryInv

LEMMA SwitchesHold == ASSUME HistoryInv PROVE HI!SwitchesAgree
<1> SUFFICES ASSUME NEW d \in HI!Dates
             PROVE  HI!Switches(d) = {c \in HistoryCards : HI!RowOf(c, d) # {} /\ HI!CardPriceHistory(c)[d]}
  BY DEF HI!SwitchesAgree
<1>1. d \in 0..MaxDay
  <2>1. \A r \in s3 : r.date \in 0..MaxDay
    BY RowIs DEF HistoryInv
  <2> QED BY <2>1 DEF HI!Dates
<1>2. ASSUME NEW c, RowsAt(s3, c, d) # {}
      PROVE  HI!CardPriceHistory(c)[d]
               <=> HI!Note(PrecedingSource(s3, s4, c, d), SourceOf(HI!Latest(RowsAt(s3, c, d)), s4))
  <2> DEFINE days == {x \in HI!Dates : HI!RowOf(c, x) # {}}
             source == [x \in days |->
                         LET r == HI!Latest(HI!RowOf(c, x))
                         IN  IF r.price_source = HI!None /\ r.price # 0 THEN HI!LegacySource(c) ELSE r.price_source]
             E == {x \in days : x < d}
  <2>1. d \in days
    BY <1>2, RowsAtAre
  <2>2. HI!CardPriceHistory(c)[d] <=> d # Min(days) /\ HI!Note(source[Max(E)], source[d])
    <3>1. HI!CardPriceHistory(c) =
            [y \in days |-> y # HI!Min(days) /\ HI!Note(source[HI!Max({x \in days : x < y})], source[y])]
      BY DEF HI!CardPriceHistory
    <3> HIDE DEF days, source
    <3> QED BY <2>1, <3>1, HistoryNames
  <2>3. E = DaysOf(s3, c, d)
    BY RowsAtAre DEF HI!Dates, DaysOf
  <2>4. ASSUME NEW x \in days PROVE source[x] = SourceOf(HI!Latest(RowsAt(s3, c, x)), s4)
    <3> DEFINE r == HI!Latest(RowsAt(s3, c, x))
    <3>1. RowsAt(s3, c, x) # {}
      BY RowsAtAre
    <3>2. r.card = c
      BY <3>1, LastOf
    <3>3. source[x] = IF r.price_source = HI!None /\ r.price # 0 THEN HI!LegacySource(c) ELSE r.price_source
      BY RowsAtAre
    <3> HIDE DEF r, source
    <3>4. source[x] = SourceOf(r, s4)
      BY <3>2, <3>3 DEF SourceOf, HI!None, HI!LegacySource
    <3> QED BY <3>4 DEF r
  <2>5. days \in SUBSET (0..MaxDay)
    <3>1. \A r \in s3 : r.date \in 0..MaxDay
      BY RowIs DEF HistoryInv
    <3> QED BY <3>1 DEF HI!Dates
  <2>6. Min(days) \in days /\ \A x \in days : Min(days) <= x
    <3> HIDE DEF days
    <3> QED BY <2>1, <2>5, MinMax, HistoryAssumption
  <2>7. MaxDay \in Nat /\ \A x \in days : x \in Nat
    BY <2>5, HistoryAssumption
  <2>8. CASE E = {}
    <3>1. d = Min(days)
      <4>1. ~ (Min(days) < d)
        BY <2>6, <2>8
      <4> HIDE DEF days
      <4>2. Min(days) \in Nat /\ Min(days) <= d /\ d \in Nat
        BY <2>1, <2>6, <2>7
      <4> QED BY <4>1, <4>2
    <3>2. PrecedingSource(s3, s4, c, d) = "none"
      BY <2>3, <2>8 DEF PrecedingSource
    <3> HIDE DEF days, source, E
    <3> QED BY <2>2, <3>1, <3>2 DEF HI!Note, HI!None
  <2>9. CASE E # {}
    <3>1. Max(E) \in days /\ Max(E) < d
      <4>1. Max(DaysOf(s3, c, d)) \in DaysOf(s3, c, d)
        BY <1>1, <2>3, <2>9, DaysAre
      <4>2. Max(E) \in E
        BY <2>3, <4>1
      <4> QED BY <4>2
    <3>2. d # Min(days)
      <4> HIDE DEF days
      <4> QED BY <2>1, <2>6, <2>7, <3>1
    <3>3. PrecedingSource(s3, s4, c, d) = source[Max(E)]
      <4>1. source[Max(E)] = SourceOf(HI!Latest(RowsAt(s3, c, Max(E))), s4)
        BY <2>4, <3>1
      <4> HIDE DEF days, source, E
      <4> QED BY <2>3, <2>9, <4>1 DEF PrecedingSource
    <3>4. source[d] = SourceOf(HI!Latest(RowsAt(s3, c, d)), s4)
      BY <2>1, <2>4
    <3> HIDE DEF days, source, E
    <3> QED BY <2>2, <3>2, <3>3, <3>4
  <2> QED BY <2>8, <2>9
<1>3. \A c : c \in {r.card : r \in HI!RowsOf(d)} <=> RowsAt(s3, c, d) # {}
  BY DEF HI!RowsOf, RowsAt
<1>4. \A c : RowsAt(s3, c, d) # {} => c \in HistoryCards
  <2>1. \A r \in s3 : r.card \in HistoryCards
    BY RowIs DEF HistoryInv
  <2> QED BY <2>1 DEF RowsAt
<1>5. HI!Switches(d) = {c \in {r.card : r \in HI!RowsOf(d)} :
                          HI!Note(PrecedingSource(s3, s4, c, d), SourceOf(HI!Latest(RowsAt(s3, c, d)), s4))}
  BY RowsAtAre DEF HI!Switches
<1> QED BY <1>2, <1>3, <1>4, <1>5, RowsAtAre

LEMMA MoversHold == ASSUME HistoryInv PROVE HI!MoversKeepTheirSource
<1> SUFFICES ASSUME NEW start \in 0..s1, NEW c \in HI!PriceMovers(start)
             PROVE  LET r == HI!SnapshotState(HI!Since(start))[c]
                    IN  \/ r.from = s2[c].source
                        \/ /\ r.price_source = HI!None
                           /\ r.from = IF c \in s4 THEN "dex" ELSE "pokemontcg"
  BY DEF HI!MoversKeepTheirSource
<1> DEFINE d == HI!Since(start)
           before == HI!SnapshotState(d)
           r == before[c]
<1>1. /\ c \in HI!Known /\ c \in DOMAIN before
      /\ r.price > 0 /\ s2[c].price > 0 /\ ~ HI!Note(HI!MoveSource(r), s2[c].source)
  BY DEF HI!PriceMovers
<1>2. r = HI!Latest(RowsAt(s3, c, d)) /\ RowsAt(s3, c, d) # {}
  <2>1. c \in {q.card : q \in HI!RowsOf(d)}
    BY <1>1 DEF HI!SnapshotState
  <2>2. before[c] = HI!Latest(HI!RowOf(c, d))
    BY <2>1 DEF HI!SnapshotState
  <2> QED BY <2>1, <2>2, RowsAtAre DEF RowsAt, HI!RowsOf
<1>3. r \in s3 /\ r \in HistoryRows /\ r.card = c
  BY <1>2, LastOf
<1>4. r.from # "none" /\ r.price_source \in {"none", r.from}
  BY <1>1, <1>3 DEF HistoryInv
<1>5. s2[c].source # "none"
  <2>1. c \in HistoryCards /\ s2[c] # HI!Absent /\ s2 \in HI!Tables
    BY <1>1 DEF HI!Known, HistoryInv
  <2>2. GoodValue(s2[c])
    BY ONLY <2>1, ValueIs
  <2> QED BY <1>1, <2>2 DEF GoodValue
<1>6. r.from \in Sources3
  BY <1>3, RowIs
<1> HIDE DEF r
<1>7. HI!MoveSource(r) = IF r.price_source = "none" THEN (IF c \in s4 THEN "pokemontcg" ELSE "dex") ELSE r.price_source
  BY <1>3 DEF HI!MoveSource, HI!LegacySource, HI!None
<1> QED BY <1>1, <1>4, <1>5, <1>6, <1>7 DEF HI!Note, HI!None, Sources3, r

\* The step that takes today's first rows takes them of all cards.
LEMMA FirstRows ==
  ASSUME HistoryInv, HI!Next \/ UNCHANGED <<s1, s2, s3, s4>>, HI!RowsOf(s1) = {}, s1' = s1, s2' = s2, HI!RowsOf(s1)' # {}
  PROVE  \E kind \in HI!Runs : HI!RecordSnapshot(kind)
<1>1. {r \in s3 : r.date = s1} = {} /\ {r \in s3' : r.date = s1} # {}
  BY DEF HI!RowsOf
<1>2. ~ (s3' \subseteq s3)
  BY <1>1
<1>3. s1 \in Nat
  BY HistoryAssumption DEF HistoryInv
<1>4. ASSUME NEW c, HI!Update(c) \/ HI!DropOtherPrint(c) \/ HI!DeleteCard(c)
      PROVE  s3' \subseteq s3
  BY <1>4 DEF HI!Update, HI!DropOtherPrint, HI!DeleteCard
<1>5. ~ HI!Midnight
  BY <1>3 DEF HI!Midnight
<1>6. ~ UNCHANGED <<s1, s2, s3, s4>>
  BY <1>2
<1> QED BY <1>2, <1>4, <1>5, <1>6 DEF HI!Next

LEMMA LiveHolds ==
  ASSUME HistoryInv, HI!Next \/ UNCHANGED <<s1, s2, s3, s4>>
  PROVE  HI!LiveNoteHolds
<1> SUFFICES ASSUME HI!RowsOf(s1) = {}, s1' = s1, s2' = s2, HI!RowsOf(s1)' # {}
             PROVE  HI!Switches(s1)' = HI!LiveSwitches
  BY DEF HI!LiveNoteHolds
<1>1. PICK kind \in HI!Runs : HI!RecordSnapshot(kind)
  BY FirstRows
<1>2. /\ s4' = s4 
      /\ \A c \in HI!Known : \E r \in s3' : r.card = c /\ r.date = s1 /\ r.run = kind
      /\ \A r \in s3' : \/ /\ r \in s3 /\ ~ (r.date = s1 /\ r.run = kind)
                        \/ /\ r.card \in HI!Known /\ r.date = s1 /\ r.run = kind /\ r \in HistoryRows
                           /\ r.price_source = s2[r.card].source /\ r.price = s2[r.card].price
      /\ \A r \in s3 : ~ (r.date = s1 /\ r.run = kind) => r \in s3'
      /\ \A r, q \in s3' : r.date = s1 /\ r.run = kind /\ q.date = s1 /\ q.run = kind /\ r.card = q.card => r = q
  BY <1>1, SnapshotRows
<1>3. \A r \in s3 : r.date # s1
  BY DEF HI!RowsOf
<1>4. \A r \in s3 : r \in s3'
  BY <1>2, <1>3
<1>5. s1 \in 0..MaxDay /\ s1 \in Nat /\ \A r \in s3 : r.date \in 0..MaxDay /\ r.date \in Nat /\ r.date < s1
  <2>1. \A r \in s3 : r.date \in 0..MaxDay /\ r.date \in Nat /\ r.date <= s1
    BY RowIs DEF HistoryInv
  <2>2. s1 \in 0..MaxDay /\ s1 \in Nat
    BY HistoryAssumption DEF HistoryInv
  <2> QED BY ONLY <1>3, <2>1, <2>2
<1>6. ASSUME NEW c \in HI!Known
      PROVE  /\ RowsAt(s3', c, s1) # {}
             /\ SourceOf(HI!Latest(RowsAt(s3', c, s1)), s4') = s2[c].source
  <2>1. PICK r \in s3' : r.card = c /\ r.date = s1 /\ r.run = kind
    BY <1>2
  <2>2. \A q \in s3' : q.card = c /\ q.date = s1 => q = r
    BY <1>2, <1>3, <2>1
  <2>3. RowsAt(s3', c, s1) = {r}
    BY <2>1, <2>2 DEF RowsAt
  <2>4. HI!Latest({r}) = r
    <3>1. r.run \in HI!Runs
      BY <2>1
    <3>2. HI!RunRank(r.run) <= HI!RunRank(r.run)
      BY <3>1, RanksAre
    <3> QED BY <3>2 DEF HI!Latest
  <2>5. r.price_source = s2[c].source /\ r.price = s2[c].price
    BY <1>2, <1>3, <2>1
  <2>6. GoodValue(s2[c])
    <3>1. c \in HistoryCards /\ s2[c] # HI!Absent /\ s2 \in HI!Tables
      BY DEF HI!Known, HistoryInv
    <3> QED BY ONLY <3>1, ValueIs
  <2>7. s2[c].source = "none" => s2[c].price = 0
    BY <2>6 DEF GoodValue
  <2> QED BY <2>3, <2>4, <2>5, <2>7 DEF SourceOf
<1>7. ASSUME NEW c, NEW x \in Nat, x < s1 PROVE RowsAt(s3', c, x) = RowsAt(s3, c, x)
  BY <1>2, <1>4, <1>5, <1>7 DEF RowsAt
<1>8. \A c : DaysOf(s3', c, s1) = {x \in HI!Dates : RowsAt(s3, c, x) # {}}
  <2> SUFFICES ASSUME NEW c PROVE DaysOf(s3', c, s1) = {x \in HI!Dates : RowsAt(s3, c, x) # {}}
    OBVIOUS
  <2>1. \A x \in HI!Dates : x \in Nat /\ x < s1 /\ x \in {r.date : r \in s3'}
    BY <1>4, <1>5 DEF HI!Dates
  <2>2. ASSUME NEW x \in {r.date : r \in s3'}, x < s1 PROVE x \in HI!Dates
    BY <1>2, <1>5, <2>2 DEF HI!Dates
  <2>3. \A x \in HI!Dates : RowsAt(s3', c, x) = RowsAt(s3, c, x)
    BY <1>7, <2>1
  <2> QED BY <2>1, <2>2, <2>3 DEF DaysOf
<1>9. \A c : DaysOf(s3, c, s1) = {x \in HI!Dates : RowsAt(s3, c, x) # {}}
  <2>1. \A x \in HI!Dates : x < s1
    BY <1>5 DEF HI!Dates
  <2> QED BY <2>1 DEF DaysOf, HI!Dates
<1>10. \A c : PrecedingSource(s3', s4', c, s1) = PrecedingSource(s3, s4, c, s1)
  <2> SUFFICES ASSUME NEW c PROVE PrecedingSource(s3', s4', c, s1) = PrecedingSource(s3, s4, c, s1)
    OBVIOUS
  <2>1. CASE DaysOf(s3, c, s1) = {}
    BY <1>8, <1>9, <2>1 DEF PrecedingSource
  <2>2. CASE DaysOf(s3, c, s1) # {}
    <3> DEFINE e == Max(DaysOf(s3, c, s1))
    <3>1. e \in HI!Dates /\ e < s1
      BY <1>5, <2>2, DaysAre
    <3>2. e \in Nat
      BY <1>5, <3>1 DEF HI!Dates
    <3>3. RowsAt(s3', c, e) = RowsAt(s3, c, e)
      BY <1>7, <3>1, <3>2
    <3>4. DaysOf(s3', c, s1) = DaysOf(s3, c, s1)
      BY <1>8, <1>9
    <3> QED BY <1>2, <3>3, <3>4 DEF PrecedingSource
  <2> QED BY <2>1, <2>2
<1>11. HI!Switches(s1)' = {c \in HI!Known : HI!Note(PrecedingSource(s3, s4, c, s1), s2[c].source)}
  <2>1. HI!Switches(s1)' = {c \in {r.card : r \in {q \in s3' : q.date = s1}} :
                              HI!Note(PrecedingSource(s3', s4', c, s1), SourceOf(HI!Latest(RowsAt(s3', c, s1)), s4'))}
    <3>1. (\A c, d : HI!Previous(c, d) = PrecedingSource(s3, s4, c, d))'
      BY RowsAtAre, PTL
    <3>2. (\A r : HI!EffectiveSource(r) = SourceOf(r, s4))'
      BY RowsAtAre, PTL
    <3>3. (\A c, d : HI!RowOf(c, d) = RowsAt(s3, c, d))'
      BY RowsAtAre, PTL
    <3>4. HI!Switches(s1)' = {c \in {r.card : r \in {q \in s3' : q.date = s1'}} :
                              HI!Note(HI!Previous(c, s1)', HI!EffectiveSource(HI!Latest(HI!RowOf(c, s1)))')}
      BY DEF HI!Switches, HI!RowsOf
    <3> QED BY <3>1, <3>2, <3>3, <3>4
  <2>2. \A c : c \in {r.card : r \in {q \in s3' : q.date = s1}} <=> c \in HI!Known
    BY <1>2, <1>3
  <2> QED BY <1>6, <1>10, <2>1, <2>2
<1>12. HI!LiveSwitches = {c \in HI!Known : HI!Note(PrecedingSource(s3, s4, c, s1), s2[c].source)}
  <2>1. \A x \in HI!Dates : x \in Nat /\ x \in 0..MaxDay /\ x < s1
    BY <1>5 DEF HI!Dates
  <2>2. CASE HI!Dates = {}
    <3>1. HI!LiveSwitches = {}
      BY <2>2 DEF HI!LiveSwitches
    <3>2. \A c : PrecedingSource(s3, s4, c, s1) = "none"
      BY <1>9, <2>2 DEF PrecedingSource
    <3> QED BY <3>1, <3>2 DEF HI!Note, HI!None
  <2>3. CASE HI!Dates # {}
    <3> DEFINE d == Max(HI!Dates)
    <3>1. d \in HI!Dates /\ \A x \in HI!Dates : d >= x
      <4>1. HI!Dates \in SUBSET (0..MaxDay)
        BY <2>1
      <4> QED BY <2>3, <4>1, MinMax, HistoryAssumption
    <3>2. {x \in HI!Dates : x < s1} = HI!Dates
      BY <2>1
    <3>3. HI!LiveSwitches = {c \in HI!Known : /\ RowsAt(s3, c, d) # {}
                                              /\ HI!Note(SourceOf(HI!Latest(RowsAt(s3, c, d)), s4), s2[c].source)}
      BY <2>1, <2>3, <3>2, RowsAtAre, HistoryNames DEF HI!LiveSwitches
    <3>4. ASSUME NEW c, RowsAt(s3, c, d) # {}
          PROVE  PrecedingSource(s3, s4, c, s1) = SourceOf(HI!Latest(RowsAt(s3, c, d)), s4)
      <4> DEFINE e == Max(DaysOf(s3, c, s1))
      <4>1. d \in DaysOf(s3, c, s1)
        BY <1>9, <3>1, <3>4
      <4>2. e \in HI!Dates /\ d <= e
        BY <1>5, <4>1, DaysAre
      <4>3. e <= d
        <5>1. d >= e /\ d \in Nat /\ e \in Nat
          BY <2>1, <3>1, <4>2
        <5> HIDE DEF d, e
        <5> QED BY <5>1
      <4>4. e = d
        <5>1. d \in Nat /\ e \in Nat
          BY <2>1, <3>1, <4>2
        <5> HIDE DEF d, e
        <5> QED BY <4>2, <4>3, <5>1
      <4> QED BY <4>1, <4>4 DEF PrecedingSource
    <3>5. ASSUME NEW c, RowsAt(s3, c, d) = {} PROVE PrecedingSource(s3, s4, c, s1) = "none"
      <4>1. ASSUME NEW r \in s3, r.card = c PROVE FALSE
        <5>1. PICK q \in s3 : q.date = d
          BY <3>1 DEF HI!Dates
        <5>2. r.date \in HI!Dates
          BY DEF HI!Dates
        <5>3. r.date <= q.date
          <6>1. r.date \in Nat /\ q.date \in Nat /\ d >= r.date
            BY <1>5, <3>1, <5>2
          <6> HIDE DEF d
          <6> QED BY <5>1, <6>1
        <5>4. PICK p \in s3 : p.card = r.card /\ p.date = q.date
          BY <5>3 DEF HistoryInv
        <5> QED BY <3>5, <4>1, <5>1, <5>4 DEF RowsAt
      <4>2. DaysOf(s3, c, s1) = {}
        BY <4>1 DEF DaysOf, RowsAt
      <4> QED BY <4>2 DEF PrecedingSource
    <3> HIDE DEF d
    <3>6. ASSUME NEW c
          PROVE  /\ RowsAt(s3, c, d) # {}
                 /\ HI!Note(SourceOf(HI!Latest(RowsAt(s3, c, d)), s4), s2[c].source)
                 <=> HI!Note(PrecedingSource(s3, s4, c, s1), s2[c].source)
      <4>1. CASE RowsAt(s3, c, d) # {}
        BY <3>4, <4>1
      <4>2. CASE RowsAt(s3, c, d) = {}
        BY <3>5, <4>2 DEF HI!Note, HI!None
      <4> QED BY <4>1, <4>2
    <3> QED BY <3>3, <3>6
  <2> QED BY <2>2, <2>3
<1> QED BY <1>11, <1>12

\* The chart adds up, its switches are those of the cards' own pages, no mover changed its
\* source, and a snapshot changes nothing of what the live point said: for any cards,
\* values, days and runs.
THEOREM ChartDoesAddUp == DailySpec => ChartAddsUp
<1> DEFINE I == (part = "history" => HistoryInv)
<1>1. DailyInit => I
  BY HistoryBegin DEF DailyInit
<1>2. I /\ [DailyNext]_dailyvars => I' /\ (part = "history" => HI!LiveNoteHolds)
  <2> SUFFICES ASSUME I, [DailyNext]_dailyvars, part = "history"
               PROVE  HistoryInv' /\ HI!LiveNoteHolds
    BY DEF DailyNext, dailyvars
  <2>1. HI!Next \/ UNCHANGED <<s1, s2, s3, s4>>
    BY DEF DailyNext, OtherPart, dailyvars
  <2> QED BY <2>1, HistoryStep, HistoryStutter, LiveHolds
<1>3. I => (part = "history" => HI!ChangeAddsUp /\ HI!SwitchesAgree /\ HI!MoversKeepTheirSource)
  BY ChangeHolds, SwitchesHold, MoversHold
<1> HIDE DEF I
<1>4. I /\ [DailyNext]_dailyvars => [part = "history" => HI!LiveNoteHolds]_dailyvars
  BY <1>2
<1> QED BY <1>1, <1>2, <1>3, <1>4, PTL DEF DailySpec, ChartAddsUp

-----------------------------------------------------------------------------
(* PokemonFolders *)

Forms == [op : {"merge", "favorite"}, name : FolderNames, root : FolderNames, stale : BOOLEAN]

\* While every request has written on what it read, no alias points to an alias, no
\* favorite is one, and what a request that may still write has read is no alias.
FoldersInv ==
  /\ DOMAIN s1 \subseteq FolderNames /\ s1 \in [DOMAIN s1 -> FolderNames]
  /\ s2 \subseteq FolderNames /\ s3 \in [Tabs -> Forms \cup {PF!Nothing}] /\ s4 \in BOOLEAN
  /\ s4 => /\ \A n \in DOMAIN s1 : s1[n] \notin DOMAIN s1
           /\ \A n \in s2 : n \notin DOMAIN s1
           /\ \A t \in Tabs : s3[t] # PF!Nothing /\ ~ s3[t].stale =>
                /\ s3[t].root \notin DOMAIN s1
                /\ s3[t].op = "merge" => s3[t].name # s3[t].root

LEMMA FormsAre ==
  /\ \A f \in Forms : /\ f # PF!Nothing /\ f.op \in {"merge", "favorite"} /\ f.name \in FolderNames
                      /\ f.root \in FolderNames /\ f.stale \in BOOLEAN
  /\ PF!Nothing.op = "none"
<1>1. PF!Nothing.op = "none"
  BY DEF PF!Nothing
<1>2. \A f \in Forms : /\ f.op \in {"merge", "favorite"} /\ f.name \in FolderNames
                       /\ f.root \in FolderNames /\ f.stale \in BOOLEAN
  BY DEF Forms
<1> QED BY <1>1, <1>2

\* The walk along the aliases
Walks(h, name, n) ==
  h = [i \in 0..n |-> IF i = 0 THEN name
                      ELSE IF h[i - 1] \notin DOMAIN s1 \/ \E j \in 0..i - 2 : h[j] = h[i - 1]
                           THEN h[i - 1] ELSE s1[h[i - 1]]]

LEMMA WalkIs ==
  ASSUME NEW name
  PROVE  PF!Resolved(name) = (CHOOSE h : Walks(h, name, Cardinality(FolderNames)))[Cardinality(FolderNames)]
<1>1. PF!Cardinality(FolderNames) = Cardinality(FolderNames)
  BY DEF PF!Cardinality, Cardinality
<1> QED BY <1>1 DEF PF!Resolved, Walks

LEMMA WalkThere == ASSUME NEW name PROVE \A n \in Nat : \E h : Walks(h, name, n)
<1> DEFINE step(h, i) == IF i = 0 THEN name
                         ELSE IF h[i - 1] \notin DOMAIN s1 \/ \E j \in 0..i - 2 : h[j] = h[i - 1]
                              THEN h[i - 1] ELSE s1[h[i - 1]]
           Good == {n \in Nat : \E h : h = [i \in 0..n |-> step(h, i)]}
<1>1. 0 \in Good
  <2> DEFINE h == [i \in 0..0 |-> name]
  <2>1. h = [i \in 0..0 |-> step(h, i)]
    <3>1. \A i \in 0..0 : i = 0
      OBVIOUS
    <3>2. \A i \in 0..0 : step(h, i) = name
      BY <3>1
    <3> HIDE DEF step
    <3> QED BY <3>2
  <2> QED BY <2>1
<1>2. ASSUME NEW n \in Nat, n \in Good PROVE n + 1 \in Good
  <2>1. PICK h : h = [i \in 0..n |-> step(h, i)]
    BY <1>2
  <2> DEFINE g == [i \in 0..n + 1 |-> step(h, i)]
  <2>2. ASSUME NEW i \in 0..n PROVE g[i] = h[i]
    <3>1. h[i] = step(h, i)
      <4> HIDE DEF step
      <4> QED BY <2>1
    <3>2. i \in 0..n + 1
      OBVIOUS
    <3> HIDE DEF step
    <3> QED BY <3>1, <3>2
  <2>3. ASSUME NEW i \in 0..n + 1 PROVE step(h, i) = step(g, i)
    <3>1. CASE i = 0
      BY <3>1
    <3>2. CASE i # 0
      <4>1. i - 1 \in 0..n /\ \A j \in 0..i - 2 : j \in 0..n
        BY <3>2
      <4>2. g[i - 1] = h[i - 1] /\ \A j \in 0..i - 2 : g[j] = h[j]
        <5> HIDE DEF g
        <5> QED BY <2>2, <4>1
      <4> HIDE DEF g
      <4> QED BY <3>2, <4>2
    <3> QED BY <3>1, <3>2
  <2>4. g = [i \in 0..n + 1 |-> step(g, i)]
    <3> HIDE DEF step
    <3> QED BY <2>3
  <2>5. n + 1 \in Nat
    OBVIOUS
  <2> HIDE DEF g, step
  <2> QED BY <2>4, <2>5
<1>3. \A n \in Nat : n \in Good
  <2> HIDE DEF Good
  <2> QED BY <1>1, <1>2, UpFrom0
<1> QED BY <1>3 DEF Walks

\* A name resolves to a name, and where no alias points to an alias, in one hop at most.
LEMMA ResolvesTo ==
  ASSUME FoldersInv, NEW name \in FolderNames
  PROVE  /\ PF!Resolved(name) \in FolderNames
         /\ (\A n \in DOMAIN s1 : s1[n] \notin DOMAIN s1) =>
              PF!Resolved(name) = IF name \in DOMAIN s1 THEN s1[name] ELSE name
<1> DEFINE N == Cardinality(FolderNames)
           h == CHOOSE k : Walks(k, name, N)
           step(i) == IF h[i - 1] \notin DOMAIN s1 \/ \E j \in 0..i - 2 : h[j] = h[i - 1] THEN h[i - 1] ELSE s1[h[i - 1]]
<1>1. N \in Nat /\ N >= 1
  <2>1. N \in Nat
    BY FS_CardinalityType, FoldersAssumption
  <2>2. N # 0
    BY FS_EmptySet, FoldersAssumption
  <2> QED BY <2>1, <2>2
<1>2. Walks(h, name, N)
  BY <1>1, WalkThere
<1>3. PF!Resolved(name) = h[N]
  BY WalkIs
<1> HIDE DEF h, N
<1>4. h[0] = name /\ \A i \in 1..N : h[i] = step(i)
  <2>1. h = [i \in 0..N |-> IF i = 0 THEN name ELSE step(i)]
    BY <1>2 DEF Walks
  <2>2. 0 \in 0..N /\ \A i \in 1..N : i \in 0..N /\ i # 0
    BY <1>1
  <2> HIDE DEF step
  <2> QED BY <2>1, <2>2
<1>5. h[N] \in FolderNames
  <2> DEFINE Good == {i \in Nat : i <= N => h[i] \in FolderNames}
  <2>1. 0 \in Good
    BY <1>4
  <2>2. ASSUME NEW i \in Nat, i \in Good PROVE i + 1 \in Good
    <3> SUFFICES ASSUME i + 1 <= N PROVE h[i + 1] \in FolderNames
      OBVIOUS
    <3>1. i <= N /\ i + 1 \in 1..N /\ (i + 1) - 1 = i
      BY <1>1
    <3>2. h[i] \in FolderNames
      BY <2>2, <3>1
    <3>3. h[i + 1] = h[i] \/ (h[i] \in DOMAIN s1 /\ h[i + 1] = s1[h[i]])
      BY <1>4, <3>1
    <3> QED BY <3>2, <3>3 DEF FoldersInv
  <2>3. \A i \in Nat : i \in Good
    <3> HIDE DEF Good
    <3> QED BY <2>1, <2>2, UpFrom0
  <2> QED BY <1>1, <2>3
<1>6. ASSUME \A n \in DOMAIN s1 : s1[n] \notin DOMAIN s1
      PROVE  h[N] = IF name \in DOMAIN s1 THEN s1[name] ELSE name
  <2> DEFINE root == IF name \in DOMAIN s1 THEN s1[name] ELSE name
             Good == {i \in Nat : i + 1 <= N => h[i + 1] = root}
  <2>1. root \notin DOMAIN s1
    BY <1>6
  <2>2. 0 \in Good
    <3>1. h[1] = step(1)
      BY <1>1, <1>4
    <3>2. 1 - 1 = 0 /\ ~ \E j \in 0..1 - 2 : TRUE
      OBVIOUS
    <3>3. h[1] = IF h[0] \notin DOMAIN s1 THEN h[0] ELSE s1[h[0]]
      BY <3>1, <3>2
    <3>4. h[1] = root
      BY <1>4, <3>3
    <3> HIDE DEF root
    <3> QED BY <3>4
  <2>3. ASSUME NEW i \in Nat, i \in Good PROVE i + 1 \in Good
    <3> HIDE DEF root
    <3> SUFFICES ASSUME i + 2 <= N PROVE h[i + 2] = root
      OBVIOUS
    <3>1. i + 1 <= N /\ i + 2 \in 1..N /\ (i + 2) - 1 = i + 1
      BY <1>1
    <3>2. h[i + 1] = root
      BY <2>3, <3>1
    <3> QED BY <1>4, <2>1, <3>1, <3>2
  <2>4. \A i \in Nat : i \in Good
    <3> HIDE DEF Good
    <3> QED BY <2>2, <2>3, UpFrom0
  <2>5. N - 1 \in Nat /\ (N - 1) + 1 = N /\ N <= N
    BY <1>1
  <2>6. h[N] = root
    <3> HIDE DEF root
    <3>1. N - 1 \in Good
      BY <2>4, <2>5
    <3> QED BY <2>5, <3>1
  <2> QED BY <2>6
<1> QED BY <1>3, <1>5, <1>6

LEMMA FoldersBegin == ASSUME PF!Init PROVE FoldersInv
BY DEF PF!Init, FoldersInv

LEMMA FoldersStep == ASSUME FoldersInv, PF!Next PROVE FoldersInv'
<1> DEFINE Apart == \A n \in DOMAIN s1 : s1[n] \notin DOMAIN s1
           Plain == \A n \in s2 : n \notin DOMAIN s1
           Fine(f) == f # PF!Nothing /\ ~ f.stale => f.root \notin DOMAIN s1 /\ (f.op = "merge" => f.name # f.root)
<1>0. /\ DOMAIN s1 \subseteq FolderNames /\ s1 \in [DOMAIN s1 -> FolderNames]
      /\ s2 \subseteq FolderNames /\ s3 \in [Tabs -> Forms \cup {PF!Nothing}] /\ s4 \in BOOLEAN
      /\ s4 => Apart /\ Plain /\ \A t \in Tabs : Fine(s3[t])
  BY DEF FoldersInv
<1>1. ASSUME NEW t \in Tabs, NEW op \in {"merge", "favorite"}, NEW name \in FolderNames, NEW canonical \in FolderNames,
             op = "favorite" => name = canonical, PF!Read(t, op, name, canonical)
      PROVE  FoldersInv'
  <2> DEFINE f == [op |-> op, name |-> name, root |-> PF!Resolved(canonical), stale |-> FALSE]
  <2>1. /\ s3' = [s3 EXCEPT ![t] = f] /\ s1' = s1 /\ s2' = s2 /\ s4' = s4
        /\ op = "merge" => name # PF!Resolved(canonical)
    BY <1>1 DEF PF!Read
  <2>2. /\ PF!Resolved(canonical) \in FolderNames
        /\ Apart => PF!Resolved(canonical) = IF canonical \in DOMAIN s1 THEN s1[canonical] ELSE canonical
    BY ResolvesTo
  <2>3. f \in Forms
    BY <2>2 DEF Forms
  <2>4. Apart => Fine(f)
    <3>1. Apart => PF!Resolved(canonical) \notin DOMAIN s1
      BY <2>2
    <3> QED BY <2>1, <3>1
  <2> HIDE DEF f
  <2>5. s3' \in [Tabs -> Forms \cup {PF!Nothing}] /\ \A u \in Tabs : s3'[u] = IF u = t THEN f ELSE s3[u]
    BY <1>0, <2>1, <2>3
  <2>6. s4 => \A u \in Tabs : Fine(s3'[u])
    <3> HIDE DEF Fine
    <3> QED BY <1>0, <2>4, <2>5
  <2> QED BY <1>0, <2>1, <2>5, <2>6 DEF FoldersInv
\* What a write does to the requests of the other tabs
<1>2. ASSUME NEW t \in Tabs, PF!Wrote(t)
      PROVE  /\ s3' \in [Tabs -> Forms \cup {PF!Nothing}] /\ s4' \in BOOLEAN
             /\ s4' => s4 /\ (s3[t] # PF!Nothing => ~ s3[t].stale)
             /\ \A u \in Tabs : s3'[u] # PF!Nothing => s3'[u].stale
  <2> DEFINE Later(u) == IF u = t THEN PF!Nothing ELSE IF s3[u] = PF!Nothing THEN PF!Nothing ELSE [s3[u] EXCEPT !.stale = TRUE]
  <2>1. /\ s3' = [u \in Tabs |-> Later(u)]
        /\ s4' = (s4 /\ ~ (s3[t] # PF!Nothing /\ s3[t].stale))
    BY <1>2 DEF PF!Wrote
  <2>2. ASSUME NEW f \in Forms PROVE [f EXCEPT !.stale = TRUE] \in Forms /\ [f EXCEPT !.stale = TRUE].stale
    BY DEF Forms
  <2>3. \A u \in Tabs : s3[u] = PF!Nothing \/ s3[u] \in Forms
    BY <1>0
  <2>4. \A u \in Tabs : /\ Later(u) \in Forms \cup {PF!Nothing}
                        /\ Later(u) # PF!Nothing => Later(u).stale
    BY <2>2, <2>3
  <2> HIDE DEF Later
  <2>5. s3' \in [Tabs -> Forms \cup {PF!Nothing}] /\ \A u \in Tabs : s3'[u] # PF!Nothing => s3'[u].stale
    BY <2>1, <2>4
  <2>6. s4' \in BOOLEAN /\ (s4' => s4 /\ (s3[t] # PF!Nothing => ~ s3[t].stale))
    BY <2>1
  <2> QED BY <2>5, <2>6
<1>3. ASSUME NEW t \in Tabs, PF!Merge(t) PROVE FoldersInv'
  <2> DEFINE name == s3[t].name
             root == s3[t].root
             D == DOMAIN s1 \cup {name}
             to(n) == IF n = name \/ s1[n] = name THEN root ELSE s1[n]
  <2>1. /\ s3[t].op = "merge" /\ PF!Wrote(t)
        /\ s1' = [n \in D |-> to(n)]
        /\ s2' = IF name \in s2 THEN (s2 \ {name}) \cup {root} ELSE s2
    BY <1>3 DEF PF!Merge, PF!Merged, PF!Favored
  <2>2. s3[t] \in Forms /\ name \in FolderNames /\ root \in FolderNames /\ s3[t] # PF!Nothing
    BY <1>0, <2>1, FormsAre
  <2> HIDE DEF name, root
  <2>3. DOMAIN s1' = D /\ D \subseteq FolderNames /\ \A n \in D : s1'[n] = to(n) /\ to(n) \in FolderNames
    BY <1>0, <2>1, <2>2
  <2>4. s2' \subseteq FolderNames
    BY <1>0, <2>1, <2>2
  <2>5. s4' => /\ \A n \in DOMAIN s1' : s1'[n] \notin DOMAIN s1'
               /\ \A n \in s2' : n \notin DOMAIN s1'
    <3> SUFFICES ASSUME s4' PROVE /\ \A n \in D : to(n) \notin D
                                  /\ \A n \in s2' : n \notin D
      BY <2>3
    <3>1. s4 /\ ~ s3[t].stale
      BY <1>2, <2>1, <2>2
    <3>2. root \notin DOMAIN s1 /\ name # root
      BY <1>0, <2>1, <2>2, <3>1 DEF name, root
    <3>3. Apart /\ Plain
      BY <1>0, <3>1
    <3>4. \A n \in D : to(n) \notin D
      BY <3>2, <3>3
    <3>5. \A n \in s2' : n \notin D
      BY <2>1, <3>2, <3>3
    <3> QED BY <3>4, <3>5
  <2>6. s1' \in [DOMAIN s1' -> FolderNames]
    BY <2>1, <2>3
  <2> QED BY <1>2, <2>1, <2>3, <2>4, <2>5, <2>6 DEF FoldersInv
<1>4. ASSUME NEW t \in Tabs, PF!ToggleFavorite(t) PROVE FoldersInv'
  <2> DEFINE root == s3[t].root
  <2>1. /\ s3[t].op = "favorite" /\ PF!Wrote(t) /\ s1' = s1
        /\ s2' = IF root \in s2 THEN s2 \ {root} ELSE s2 \cup {root}
    BY <1>4 DEF PF!ToggleFavorite
  <2>2. s3[t] \in Forms /\ root \in FolderNames /\ s3[t] # PF!Nothing
    BY <1>0, <2>1, FormsAre
  <2> HIDE DEF root
  <2>3. s2' \subseteq FolderNames
    BY <1>0, <2>1, <2>2
  <2>4. s4' => Apart /\ \A n \in s2' : n \notin DOMAIN s1
    <3> SUFFICES ASSUME s4' PROVE Apart /\ \A n \in s2' : n \notin DOMAIN s1
      OBVIOUS
    <3>1. s4 /\ ~ s3[t].stale
      BY <1>2, <2>1, <2>2
    <3>2. root \notin DOMAIN s1
      BY <1>0, <2>2, <3>1 DEF root
    <3> QED BY <1>0, <2>1, <3>1, <3>2
  <2> QED BY <1>0, <1>2, <2>1, <2>3, <2>4 DEF FoldersInv
<1>5. ASSUME NEW t \in Tabs, NEW name \in FolderNames, PF!Unmerge(t, name) PROVE FoldersInv'
  <2>1. /\ s1' = [n \in DOMAIN s1 \ {name} |-> s1[n]] /\ PF!Wrote(t) /\ s2' = s2
    BY <1>5 DEF PF!Unmerge, PF!Restrict
  <2>2. DOMAIN s1' = DOMAIN s1 \ {name} /\ \A n \in DOMAIN s1' : n \in DOMAIN s1 /\ s1'[n] = s1[n]
    BY <2>1
  <2>3. s1' \in [DOMAIN s1' -> FolderNames] /\ DOMAIN s1' \subseteq FolderNames
    BY <1>0, <2>1, <2>2
  <2>4. s4' => /\ \A n \in DOMAIN s1' : s1'[n] \notin DOMAIN s1'
               /\ \A n \in s2' : n \notin DOMAIN s1'
    BY <1>0, <1>2, <2>1, <2>2
  <2> QED BY <1>0, <1>2, <2>1, <2>3, <2>4 DEF FoldersInv
<1> QED BY <1>1, <1>3, <1>4, <1>5 DEF PF!Next

LEMMA FoldersStutter == ASSUME FoldersInv, UNCHANGED <<s1, s2, s3, s4>> PROVE FoldersInv'
BY DEF FoldersInv

LEMMA FoldersHold == ASSUME FoldersInv PROVE PF!OneHop /\ PF!FavoritesShow
<1>1. PF!OneHop
  BY DEF FoldersInv, PF!OneHop
<1>2. PF!FavoritesShow
  <2> SUFFICES ASSUME s4, NEW n \in s2 PROVE n \in PF!Folder(n)
    BY DEF PF!FavoritesShow
  <2>1. n \in FolderNames /\ n \notin DOMAIN s1 /\ \A m \in DOMAIN s1 : s1[m] \notin DOMAIN s1
    BY DEF FoldersInv
  <2>2. PF!Resolved(n) = n
    BY <2>1, ResolvesTo
  <2> QED BY <2>1, <2>2 DEF PF!Folder
<1> QED BY <1>1, <1>2

LEMMA FoldersTyped == ASSUME FoldersInv PROVE PF!TypeOK
<1>1. PF!Range(s1) \subseteq FolderNames
  BY DEF FoldersInv, PF!Range
<1>2. \A t \in Tabs : s3[t] # PF!Nothing =>
         s3[t].op \in {"merge", "favorite"} /\ {s3[t].name, s3[t].root} \subseteq FolderNames
  BY FormsAre DEF FoldersInv
<1> QED BY <1>1, <1>2 DEF PF!TypeOK, FoldersInv

-----------------------------------------------------------------------------
(* Collections *)

CollectionsInv == s1 \in [TaggedCards -> [qty : Nat, incoming : Nat, tags : SUBSET Colls]]

LEMMA CardIs ==
  ASSUME CollectionsInv, NEW c \in TaggedCards
  PROVE  /\ s1[c] \in [qty : Nat, incoming : Nat, tags : SUBSET Colls]
         /\ s1[c].qty \in Nat /\ s1[c].incoming \in Nat /\ s1[c].tags \in SUBSET Colls
<1>1. s1[c] \in [qty : Nat, incoming : Nat, tags : SUBSET Colls]
  BY DEF CollectionsInv
<1> QED BY <1>1

LEMMA CollectionsBegin == ASSUME CO!Init PROVE CollectionsInv
<1>1. PICK L \in Leftovers : s1 = [c \in TaggedCards |-> [qty |-> 0, incoming |-> 0, tags |-> IF c \in L THEN Status ELSE {}]]
  BY DEF CO!Init
<1>2. \A c \in TaggedCards : (IF c \in L THEN Status ELSE {}) \in SUBSET Colls
  BY CollectionsAssumption
<1> QED BY <1>1, <1>2 DEF CollectionsInv

LEMMA CollectionsStep == ASSUME CollectionsInv, CO!Next PROVE CollectionsInv'
<1>1. ASSUME NEW c \in TaggedCards, CO!SetCopies(c) PROVE CollectionsInv'
  <2>1. PICK copies \in CopiesOf[c] : s1' = [s1 EXCEPT ![c].qty = copies.qty, ![c].incoming = copies.incoming]
    BY <1>1 DEF CO!SetCopies
  <2>2. copies \in [qty : Nat, incoming : Nat]
    BY CollectionsAssumption
  <2>3. copies.qty \in Nat /\ copies.incoming \in Nat
    BY <2>2
  <2> DEFINE r == [s1[c] EXCEPT !.qty = copies.qty, !.incoming = copies.incoming]
  <2>4. r \in [qty : Nat, incoming : Nat, tags : SUBSET Colls]
    BY <2>3, CardIs
  <2>5. s1' = [s1 EXCEPT ![c] = r]
    BY <2>1 DEF CollectionsInv
  <2> HIDE DEF r
  <2> QED BY <2>4, <2>5 DEF CollectionsInv
<1>2. ASSUME NEW k \in Colls, NEW S \in SUBSET TaggedCards, CO!SetMembers(k, S) PROVE CollectionsInv'
  <2> DEFINE tagged(c) == IF c \in S THEN s1[c].tags \cup {k} ELSE s1[c].tags \ {k}
             r(c) == [s1[c] EXCEPT !.tags = tagged(c)]
  <2>1. s1' = [c \in TaggedCards |-> r(c)]
    BY <1>2 DEF CO!SetMembers
  <2>2. ASSUME NEW c \in TaggedCards PROVE r(c) \in [qty : Nat, incoming : Nat, tags : SUBSET Colls]
    <3>1. tagged(c) \in SUBSET Colls
      BY CardIs
    <3> HIDE DEF tagged
    <3> QED BY <3>1, CardIs
  <2> HIDE DEF r
  <2> QED BY <2>1, <2>2 DEF CollectionsInv
<1> QED BY <1>1, <1>2 DEF CO!Next

LEMMA CollectionNames ==
  /\ \A f, S : CO!Sigma(f, S) = Sigma(f, S)
  /\ \A S : CO!Cardinality(S) = Cardinality(S)
  /\ \A S : CO!Min(S) = Min(S) /\ CO!Max(S) = Max(S)
<1>1. \A f, S : CO!Sigma(f, S) = Sigma(f, S)
  BY DEF CO!Sigma, Sigma, CO!Fns!SumFunctionOnSet, CO!Fns!FoldFunctionOnSet, CO!Fns!MapThenFoldSet,
         Fns!SumFunctionOnSet, Fns!FoldFunctionOnSet, Fns!MapThenFoldSet
<1>2. \A S : CO!Cardinality(S) = Cardinality(S)
  BY DEF CO!Cardinality, Cardinality
<1>3. \A S : CO!Min(S) = Min(S) /\ CO!Max(S) = Max(S)
  BY DEF CO!Min, CO!Max, Min, Max
<1> QED BY <1>1, <1>2, <1>3

\* Copies and duplicates of each card
CopiesFn == [c \in TaggedCards |-> s1[c].qty]
SparesFn == [c \in TaggedCards |-> CO!AtLeast0(s1[c].qty - 1)]

LEMMA FiguresAre ==
  ASSUME CollectionsInv
  PROVE  /\ \A c \in TaggedCards : CopiesFn[c] \in Nat /\ SparesFn[c] \in Nat
         /\ \A S \in SUBSET TaggedCards :
              /\ IsFiniteSet(S)
              /\ CO!Qty(S) = Sigma(CopiesFn, S) /\ CO!Duplicates(S) = Sigma(SparesFn, S)
              /\ CO!Qty(S) \in Nat /\ CO!Duplicates(S) \in Nat
<1>1. \A c \in TaggedCards : CopiesFn[c] \in Nat /\ SparesFn[c] \in Nat
  BY CardIs DEF CopiesFn, SparesFn, CO!AtLeast0
<1>2. ASSUME NEW S \in SUBSET TaggedCards
      PROVE  /\ IsFiniteSet(S)
             /\ CO!Qty(S) = Sigma(CopiesFn, S) /\ CO!Duplicates(S) = Sigma(SparesFn, S)
             /\ CO!Qty(S) \in Nat /\ CO!Duplicates(S) \in Nat
  <2>1. IsFiniteSet(S)
    BY CollectionsAssumption, FS_Subset
  <2> DEFINE q == [c \in S |-> s1[c].qty]
             d == [c \in S |-> CO!AtLeast0(s1[c].qty - 1)]
  <2>2. CO!Qty(S) = Sigma(q, S) /\ CO!Duplicates(S) = Sigma(d, S)
    BY CollectionNames DEF CO!Qty, CO!Duplicates
  <2>3. \A c \in S : CopiesFn[c] \in Int /\ SparesFn[c] \in Int /\ CopiesFn[c] = q[c] /\ SparesFn[c] = d[c]
    BY <1>1 DEF CopiesFn, SparesFn
  <2> HIDE DEF q, d
  <2>4. Sigma(CopiesFn, S) = Sigma(q, S)
    BY <2>1, <2>3, SumAgrees
  <2>5. Sigma(SparesFn, S) = Sigma(d, S)
    BY <2>1, <2>3, SumAgrees
  <2>6. Sigma(CopiesFn, S) \in Nat
    BY <1>1, <2>1, SumOfNats
  <2>7. Sigma(SparesFn, S) \in Nat
    BY <1>1, <2>1, SumOfNats
  <2> QED BY <2>1, <2>2, <2>4, <2>5, <2>6, <2>7
<1> QED BY <1>1, <1>2

\* A set's copies are its cards and their duplicates.
LEMMA DuplicatesAre ==
  ASSUME CollectionsInv, NEW S \in SUBSET TaggedCards
  PROVE  /\ CO!Qty(S) = CO!Duplicates(S) + Cardinality(S \cap CO!Owned)
         /\ Cardinality(S \cap CO!Owned) \in Nat /\ IsFiniteSet(S \cap CO!Owned)
<1> DEFINE own == [c \in S |-> IF s1[c].qty > 0 THEN 1 ELSE 0]
<1>1. IsFiniteSet(S)
  BY FiguresAre
<1>2. \A c \in S : own[c] \in {0, 1} /\ CopiesFn[c] = SparesFn[c] + own[c] /\ CopiesFn[c] \in Int
                   /\ SparesFn[c] \in Int /\ own[c] \in Int /\ (own[c] = 1 <=> c \in CO!Owned)
  BY CardIs DEF CopiesFn, SparesFn, CO!AtLeast0, CO!Owned
<1>3. S \cap CO!Owned = {c \in S : own[c] = 1}
  BY <1>2
<1>4. Sigma(own, S) = Cardinality(S \cap CO!Owned)
  <2> HIDE DEF own
  <2> QED BY <1>1, <1>2, <1>3, SumOfOnes
<1>5. Sigma(CopiesFn, S) = Sigma(SparesFn, S) + Sigma(own, S)
  <2> HIDE DEF own
  <2> QED BY <1>1, <1>2, SumOfSums
<1>6. IsFiniteSet(S \cap CO!Owned) /\ Cardinality(S \cap CO!Owned) \in Nat
  <2>1. S \cap CO!Owned \in SUBSET S
    OBVIOUS
  <2> QED BY <1>1, <2>1, FS_Subset, FS_CardinalityType
<1> QED BY <1>4, <1>5, <1>6, FiguresAre

LEMMA CountsHold == ASSUME CollectionsInv PROVE CO!CountedOnce
<1> DEFINE A == CO!InCollections
           B == CO!Bulk
           C == TaggedCards
<1>1. A \in SUBSET C /\ B \in SUBSET C /\ C \in SUBSET C /\ A \cap B = {} /\ A \cup B = C
  BY DEF CO!InCollections, CO!Bulk
<1>2. CO!Owned = C \cap CO!Owned
  BY DEF CO!Owned
<1> HIDE DEF A, B
<1>3. CO!Qty(C) = CO!Qty(A) + CO!Qty(B) /\ CO!Duplicates(C) = CO!Duplicates(A) + CO!Duplicates(B)
  <2>1. IsFiniteSet(A) /\ IsFiniteSet(B) /\ \A c \in A \cup B : CopiesFn[c] \in Int /\ SparesFn[c] \in Int
    BY <1>1, FiguresAre
  <2>2. Sigma(CopiesFn, A \cup B) = Sigma(CopiesFn, A) + Sigma(CopiesFn, B)
    BY <1>1, <2>1, SumOfBoth
  <2>3. Sigma(SparesFn, A \cup B) = Sigma(SparesFn, A) + Sigma(SparesFn, B)
    BY <1>1, <2>1, SumOfBoth
  <2> QED BY <1>1, <2>2, <2>3, FiguresAre
<1>4. CO!Qty(C) = CO!Duplicates(C) + Cardinality(CO!Owned) /\ Cardinality(CO!Owned) \in Nat
  BY <1>1, <1>2, DuplicatesAre
<1>5. /\ CO!Qty(A) \in Nat /\ CO!Qty(B) \in Nat /\ CO!Duplicates(A) \in Nat /\ CO!Duplicates(B) \in Nat
  BY <1>1, FiguresAre
<1>6. CO!Headline = <<CO!Qty(C), Cardinality(CO!Owned), CO!Duplicates(C)>>
  BY CollectionNames DEF CO!Headline
<1>7. /\ CO!Figures(A) = <<CO!Qty(A), CO!Qty(A) - CO!Duplicates(A), CO!Duplicates(A)>>
      /\ CO!Figures(B) = <<CO!Qty(B), CO!Qty(B) - CO!Duplicates(B), CO!Duplicates(B)>>
  BY DEF CO!Figures
<1> DEFINE a1 == CO!Qty(A)  a2 == CO!Duplicates(A)  b1 == CO!Qty(B)  b2 == CO!Duplicates(B)
<1>8. CO!Headline = <<a1 + b1, a1 + b1 - (a2 + b2), a2 + b2>>
  BY <1>3, <1>4, <1>5, <1>6
<1>9. CO!Plus(CO!Figures(A), CO!Figures(B)) = [i \in 1..3 |-> CO!Figures(A)[i] + CO!Figures(B)[i]]
  BY DEF CO!Plus
<1>10. a1 \in Nat /\ a2 \in Nat /\ b1 \in Nat /\ b2 \in Nat
  BY <1>5
<1> HIDE DEF a1, a2, b1, b2
<1> DEFINE x == <<a1, a1 - a2, a2>>
           y == <<b1, b1 - b2, b2>>
           z == <<a1 + b1, a1 + b1 - (a2 + b2), a2 + b2>>
<1>11. z = [i \in 1..3 |-> x[i] + y[i]]
  <2>1. 1..3 = {1, 2, 3} /\ DOMAIN z = 1..3
    OBVIOUS
  <2>2. z[1] = x[1] + y[1] /\ z[2] = x[2] + y[2] /\ z[3] = x[3] + y[3]
    BY <1>10
  <2>3. \A i \in 1..3 : z[i] = x[i] + y[i]
    BY <2>1, <2>2
  <2>4. z = [i \in 1..3 |-> z[i]]
    OBVIOUS
  <2> HIDE DEF x, y, z
  <2> QED BY <2>3, <2>4
<1>12. CO!Figures(A) = x /\ CO!Figures(B) = y /\ CO!Headline = z
  BY <1>7, <1>8 DEF a1, a2, b1, b2
<1> HIDE DEF x, y, z
<1>13. CO!Plus(CO!Figures(A), CO!Figures(B)) = CO!Headline
  BY <1>9, <1>11, <1>12
<1> QED BY <1>13 DEF CO!CountedOnce, A, B

LEMMA KeysAre ==
  ASSUME NEW S \in SUBSET TaggedCards
  PROVE  /\ CO!KeysOf(S) \in SUBSET Nat /\ NoSet \notin CO!KeysOf(S)
         /\ \A c \in S : SetOf[c] # NoSet => SetOf[c] \in CO!KeysOf(S)
         /\ \A key \in CO!KeysOf(S) : \E c \in S : SetOf[c] = key
         /\ IsFiniteSet(CO!KeysOf(S))
         /\ CO!KeysOf(S) # {} => CO!SectionKey(S) \in CO!KeysOf(S)
         /\ CO!KeysOf(S) = {} => CO!SectionKey(S) = NoSet
<1>1. CO!KeysOf(S) = {SetOf[c] : c \in S} \ {NoSet}
  BY DEF CO!KeysOf
<1>2. CO!KeysOf(S) \in SUBSET Nat
  BY <1>1, CollectionsAssumption
<1>3. IsFiniteSet(CO!KeysOf(S))
  <2>1. IsFiniteSet(S)
    BY CollectionsAssumption, FS_Subset
  <2>2. IsFiniteSet({SetOf[c] : c \in S})
    BY <2>1, ImageIsFinite
  <2>3. CO!KeysOf(S) \in SUBSET {SetOf[c] : c \in S}
    BY <1>1
  <2> QED BY <2>2, <2>3, FS_Subset
<1>4. CO!KeysOf(S) # {} => CO!SectionKey(S) \in CO!KeysOf(S)
  <2> SUFFICES ASSUME CO!KeysOf(S) # {} PROVE CO!SectionKey(S) \in CO!KeysOf(S)
    OBVIOUS
  <2>1. CO!SectionKey(S) = Min(CO!KeysOf(S))
    BY CollectionNames DEF CO!SectionKey
  <2>2. \E n \in CO!KeysOf(S) : \A m \in CO!KeysOf(S) : n <= m
    BY <1>2, LeastNatural
  <2>3. Min(CO!KeysOf(S)) \in CO!KeysOf(S)
    BY <2>2 DEF Min
  <2> QED BY <2>1, <2>3
<1>5. CO!KeysOf(S) = {} => CO!SectionKey(S) = NoSet
  BY DEF CO!SectionKey
<1> QED BY <1>1, <1>2, <1>3, <1>4, <1>5

\* Of a set's sections, there is one that comes first.
LEMMA FirstIs ==
  ASSUME NEW N \in SUBSET Nat, N # {}, \A n \in N : RankOf[n] \in Nat
  PROVE  CO!FirstByRank(N) \in N
<1> DEFINE ranks == {RankOf[n] : n \in N}
<1>1. PICK r \in ranks : \A q \in ranks : r <= q
  <2>1. ranks \in SUBSET Nat /\ ranks # {}
    OBVIOUS
  <2> HIDE DEF ranks
  <2> QED BY <2>1, LeastNatural
<1> DEFINE first == {n \in N : RankOf[n] = r}
<1>2. PICK n \in first : \A m \in first : n <= m
  <2>1. first \in SUBSET Nat /\ first # {}
    BY <1>1
  <2> HIDE DEF first
  <2> QED BY <2>1, LeastNatural
<1>3. \A m \in N : RankOf[n] < RankOf[m] \/ (RankOf[n] = RankOf[m] /\ n <= m)
  <2> SUFFICES ASSUME NEW m \in N, ~ (RankOf[n] < RankOf[m])
               PROVE  RankOf[n] = RankOf[m] /\ n <= m
    OBVIOUS
  <2>1. RankOf[n] <= RankOf[m] /\ RankOf[n] \in Nat /\ RankOf[m] \in Nat
    BY <1>1, <1>2
  <2>2. RankOf[n] = RankOf[m]
    BY <2>1
  <2> QED BY <1>2, <2>2
<1> QED BY <1>2, <1>3 DEF CO!FirstByRank

LEMMA SectionsAre ==
  ASSUME NEW S \in SUBSET TaggedCards
  PROVE  /\ CO!Sections(S) \in SUBSET Nat /\ \A n \in CO!Sections(S) : RankOf[n] \in Nat
         /\ \A c \in S : SectionOf[c] \in CO!Sections(S)
         /\ \A n : CO!Section(S, n) \in SUBSET S /\ CO!Section(S, n) \in SUBSET TaggedCards
         /\ \A key : CO!SectionsOf(S, key) \in SUBSET CO!Sections(S) /\ IsFiniteSet(CO!SectionsOf(S, key))
<1>1. IsFiniteSet({SectionOf[c] : c \in S})
  <2>1. IsFiniteSet(S)
    BY CollectionsAssumption, FS_Subset
  <2> QED BY <2>1, ImageIsFinite
<1>2. \A key : CO!SectionsOf(S, key) \in SUBSET CO!Sections(S)
  BY DEF CO!SectionsOf
<1>3. CO!Sections(S) = {SectionOf[c] : c \in S}
  BY DEF CO!Sections
<1>4. \A key : IsFiniteSet(CO!SectionsOf(S, key))
  BY <1>1, <1>2, <1>3, FS_Subset
<1>5. /\ CO!Sections(S) \in SUBSET Nat /\ \A n \in CO!Sections(S) : RankOf[n] \in Nat
      /\ \A c \in S : SectionOf[c] \in CO!Sections(S)
      /\ \A n : CO!Section(S, n) \in SUBSET S /\ CO!Section(S, n) \in SUBSET TaggedCards
  BY <1>3, CollectionsAssumption DEF CO!Section
<1> QED BY <1>2, <1>4, <1>5

\* A collection's blocks, and the sections they are in
LEMMA BlocksAre ==
  ASSUME CollectionsInv, NEW k
  PROVE  /\ CO!Members(k) \in SUBSET TaggedCards
         /\ CO!Blocks(k) \in SUBSET CO!KeysOf(CO!Members(k))
         /\ \A key \in CO!Blocks(k) :
              /\ CO!FirstByRank(CO!SectionsOf(CO!Members(k), key)) \in CO!SectionsOf(CO!Members(k), key)
              /\ CO!FirstByRank(CO!SectionsOf(CO!Members(k), key)) \in CO!BlockSections(k)
         /\ \A n \in CO!BlockSections(k) :
              CO!SectionKey(CO!Section(CO!Members(k), n)) \in CO!Blocks(k)
<1>1. CO!Members(k) \in SUBSET TaggedCards
  BY DEF CO!Members
<1>2. CO!Blocks(k) \in SUBSET CO!KeysOf(CO!Members(k))
  BY DEF CO!Blocks, CO!HomeKeys
<1>3. ASSUME NEW key \in CO!Blocks(k)
      PROVE  CO!FirstByRank(CO!SectionsOf(CO!Members(k), key)) \in CO!SectionsOf(CO!Members(k), key)
  <2> DEFINE N == CO!SectionsOf(CO!Members(k), key)
  <2>1. N # {}
    BY DEF CO!Blocks, CO!HomeKeys
  <2>2. N \in SUBSET Nat /\ \A n \in N : RankOf[n] \in Nat
    BY <1>1, SectionsAre
  <2> HIDE DEF N
  <2>3. CO!FirstByRank(N) \in N
    BY <2>1, <2>2, FirstIs
  <2> QED BY <2>3 DEF N
<1>4. CO!BlockSections(k) = {CO!FirstByRank(CO!SectionsOf(CO!Members(k), key)) : key \in CO!Blocks(k)}
  BY DEF CO!BlockSections
<1>5. ASSUME NEW n \in CO!BlockSections(k) PROVE CO!SectionKey(CO!Section(CO!Members(k), n)) \in CO!Blocks(k)
  <2>1. PICK key \in CO!Blocks(k) : n = CO!FirstByRank(CO!SectionsOf(CO!Members(k), key))
    BY <1>4
  <2>2. n \in CO!SectionsOf(CO!Members(k), key)
    BY <1>3, <2>1
  <2>3. CO!SectionKey(CO!Section(CO!Members(k), n)) = key
    BY <2>2 DEF CO!SectionsOf
  <2> QED BY <2>3
<1> QED BY <1>1, <1>2, <1>3, <1>4, <1>5

LEMMA NoneLost == ASSUME CollectionsInv PROVE CO!NoCardLost
<1> SUFFICES ASSUME NEW k \in Colls, NEW c \in CO!Members(k) \cap CO!Owned
             PROVE  c \in CO!OnPage(k)
  BY DEF CO!NoCardLost
<1> DEFINE n == SectionOf[c]
           key == CO!SectionKey(CO!Section(CO!Members(k), n))
<1>1. CASE n \notin CO!BlockSections(k)
  BY <1>1 DEF CO!OnPage, CO!Plain
<1>2. CASE n \in CO!BlockSections(k) /\ SetOf[c] # key
  BY <1>2 DEF CO!OnPage, CO!OtherCards
<1>3. CASE n \in CO!BlockSections(k) /\ SetOf[c] = key
  <2>1. SetOf[c] \in CO!Blocks(k)
    BY <1>3, BlocksAre
  <2> QED BY <2>1 DEF CO!OnPage, CO!InBlocks
<1> QED BY <1>1, <1>2, <1>3

\* Sections of one set, where none mixes several.
LEMMA Unmixed ==
  ASSUME CollectionsInv, NEW k, ~ CO!Mixed(k), NEW c \in CO!Members(k), SetOf[c] # NoSet
  PROVE  /\ CO!SectionKey(CO!Section(CO!Members(k), SectionOf[c])) = SetOf[c]
         /\ SetOf[c] \in CO!KeysOf(CO!Members(k))
         /\ SectionOf[c] \in CO!SectionsOf(CO!Members(k), SetOf[c])
<1> DEFINE M == CO!Members(k)
           n == SectionOf[c]
           K == CO!KeysOf(CO!Section(M, n))
<1>1. M \in SUBSET TaggedCards
  BY DEF CO!Members
<1>2. n \in CO!Sections(M) /\ c \in CO!Section(M, n) /\ CO!Section(M, n) \in SUBSET TaggedCards
  BY <1>1, SectionsAre DEF CO!Section
<1>3. SetOf[c] \in K /\ IsFiniteSet(K) /\ CO!SectionKey(CO!Section(M, n)) \in K
  BY <1>2, KeysAre
<1>4. ~ (Cardinality(K) > 1)
  BY <1>2, CollectionNames DEF CO!Mixed
<1> HIDE DEF K
<1>5. \A x \in K : x = SetOf[c]
  BY <1>3, <1>4, AtMostOne
<1>6. SetOf[c] \in CO!KeysOf(M)
  BY <1>1, KeysAre
<1>7. CO!SectionKey(CO!Section(M, n)) = SetOf[c]
  BY <1>3, <1>5
<1> QED BY <1>2, <1>6, <1>7 DEF CO!SectionsOf

\* A set's home is tagged on an owned card of it.
LEMMA HomeIs ==
  ASSUME CollectionsInv, NEW key, CO!Home(key) # CO!None
  PROVE  CO!Home(key) \in Colls /\ \E c \in CO!Owned \cap CO!Members(CO!Home(key)) : SetOf[c] = key
<1> DEFINE most == CO!Max({0} \cup {CO!Tags(key, k) : k \in Colls})
           T == {k \in Colls : CO!Tags(key, k) = most}
           All == {0} \cup {CO!Tags(key, k) : k \in Colls}
           N == Cardinality(TaggedCards)
<1>1. most # 0 /\ CO!Home(key) = Min(T)
  BY CollectionNames DEF CO!Home
<1>2. N \in Nat
  BY CollectionsAssumption, FS_CardinalityType
<1>3. ASSUME NEW k
      PROVE  /\ CO!Tags(key, k) \in 0..N
             /\ CO!Tags(key, k) # 0 => \E c \in CO!Owned \cap CO!Members(k) : SetOf[c] = key
  <2> DEFINE own == {c \in CO!Owned \cap CO!Members(k) : SetOf[c] = key}
  <2>1. CO!Tags(key, k) = Cardinality(own)
    BY CollectionNames DEF CO!Tags
  <2>2. own \in SUBSET TaggedCards
    BY DEF CO!Owned
  <2>3. own # {} => \E c \in CO!Owned \cap CO!Members(k) : SetOf[c] = key
    OBVIOUS
  <2> HIDE DEF own
  <2>4. Cardinality(own) \in Nat /\ Cardinality(own) <= N /\ IsFiniteSet(own)
    BY <2>2, CollectionsAssumption, FS_Subset, FS_CardinalityType
  <2>5. Cardinality(own) # 0 => own # {}
    BY FS_EmptySet
  <2> QED BY <1>2, <2>1, <2>3, <2>4, <2>5
<1>4. T # {}
  <2>1. All \in SUBSET (0..N) /\ All # {}
    BY <1>2, <1>3
  <2>2. Max(All) \in All
    <3> HIDE DEF All
    <3> QED BY <1>2, <2>1, MinMax
  <2>3. most \in All
    BY <2>2, CollectionNames
  <2> QED BY <1>1, <2>3
<1>5. T \in SUBSET Colls /\ T \in SUBSET Nat
  BY CollectionsAssumption
<1>6. Min(T) \in T
  <2> HIDE DEF T
  <2>1. \E x \in T : \A y \in T : x <= y
    BY <1>4, <1>5, LeastNatural
  <2> QED BY <2>1 DEF Min
<1>7. CO!Home(key) \in Colls /\ CO!Tags(key, CO!Home(key)) = most
  BY <1>1, <1>6
<1> QED BY <1>1, <1>3, <1>7

LEMMA HomesHold == ASSUME CollectionsInv PROVE CO!HomeShowsItsSet
<1> SUFFICES ASSUME NEW key \in CO!KeysOf(TaggedCards), CO!Home(key) # CO!None, ~ CO!Mixed(CO!Home(key))
             PROVE  key \in CO!Blocks(CO!Home(key))
  BY DEF CO!HomeShowsItsSet, CO!Redirect
<1> DEFINE k == CO!Home(key)
<1>1. PICK c \in CO!Owned \cap CO!Members(k) : SetOf[c] = key
  BY HomeIs
<1>2. key # NoSet
  BY KeysAre
<1>3. key \in CO!KeysOf(CO!Members(k)) /\ SectionOf[c] \in CO!SectionsOf(CO!Members(k), key)
  BY <1>1, <1>2, Unmixed
<1> QED BY <1>3 DEF CO!Blocks, CO!HomeKeys

\* A card without copies counts nowhere.
LEMMA OnlyOwnedCount ==
  ASSUME CollectionsInv, NEW S \in SUBSET TaggedCards
  PROVE  CO!Qty(S) = CO!Qty(S \cap CO!Owned) /\ CO!Duplicates(S) = CO!Duplicates(S \cap CO!Owned)
<1> DEFINE A == S \cap CO!Owned
           B == S \ CO!Owned
<1>1. A \in SUBSET TaggedCards /\ B \in SUBSET TaggedCards /\ A \cap B = {} /\ A \cup B = S
  OBVIOUS
<1>2. \A c \in B : CopiesFn[c] = 0 /\ SparesFn[c] = 0
  BY CardIs DEF CopiesFn, SparesFn, CO!AtLeast0, CO!Owned
<1> HIDE DEF A, B
<1>3. IsFiniteSet(A) /\ IsFiniteSet(B) /\ \A c \in A \cup B : CopiesFn[c] \in Int /\ SparesFn[c] \in Int
  BY <1>1, FiguresAre
<1>4. Sigma(CopiesFn, A \cup B) = Sigma(CopiesFn, A) + Sigma(CopiesFn, B)
  BY <1>1, <1>3, SumOfBoth
<1>5. Sigma(SparesFn, A \cup B) = Sigma(SparesFn, A) + Sigma(SparesFn, B)
  BY <1>1, <1>3, SumOfBoth
<1>6. Sigma(CopiesFn, B) = 0
  BY <1>2, <1>3, SumOfZeros
<1>7. Sigma(SparesFn, B) = 0
  BY <1>2, <1>3, SumOfZeros
<1>8. CO!Qty(A) = Sigma(CopiesFn, A) /\ CO!Qty(A) \in Nat /\ CO!Duplicates(A) = Sigma(SparesFn, A) /\ CO!Duplicates(A) \in Nat
  BY <1>1, FiguresAre
<1>9. CO!Qty(S) = Sigma(CopiesFn, S) /\ CO!Duplicates(S) = Sigma(SparesFn, S)
  BY FiguresAre
<1>10. CO!Qty(S) = CO!Qty(A) /\ CO!Duplicates(S) = CO!Duplicates(A)
  BY <1>1, <1>4, <1>5, <1>6, <1>7, <1>8, <1>9
<1> QED BY <1>10 DEF A

Printed(S) == {PrintOf[c] : c \in S} \ {NoPrint}
Unprinted(S) == {c \in S : PrintOf[c] = NoPrint}

LEMMA PrintsAre ==
  ASSUME NEW S \in SUBSET TaggedCards
  PROVE  /\ CO!PrintsIn(S) = Cardinality(Unprinted(S)) + Cardinality(Printed(S))
         /\ IsFiniteSet(S) /\ Cardinality(S) \in Nat
         /\ IsFiniteSet(Unprinted(S)) /\ Cardinality(Unprinted(S)) \in Nat
         /\ IsFiniteSet(Printed(S)) /\ Cardinality(Printed(S)) \in Nat
         /\ CO!PrintsIn(S) \in Nat /\ CO!PrintsIn(S) <= Cardinality(S)
<1> DEFINE A == Unprinted(S)
           B == S \ A
           P == Printed(S)
<1>1. CO!PrintsIn(S) = Cardinality(A) + Cardinality(P)
  BY CollectionNames DEF CO!PrintsIn, Unprinted, Printed
<1>2. IsFiniteSet(S) /\ Cardinality(S) \in Nat
  BY CollectionsAssumption, FS_Subset, FS_CardinalityType
<1>3. A \in SUBSET S /\ B \in SUBSET S /\ A \cap B = {} /\ A \cup B = S
  BY DEF Unprinted
<1>4. P = {PrintOf[c] : c \in B}
  BY DEF Printed, Unprinted
<1> HIDE DEF A, B, P
<1>5. IsFiniteSet(A) /\ Cardinality(A) \in Nat /\ IsFiniteSet(B) /\ Cardinality(B) \in Nat
  BY <1>2, <1>3, FS_Subset, FS_CardinalityType
<1>6. IsFiniteSet(P) /\ Cardinality(P) \in Nat /\ Cardinality(P) <= Cardinality(B)
  BY <1>4, <1>5, ImageIsNoLarger
<1>7. Cardinality(S) = Cardinality(A) + Cardinality(B)
  <2>1. Cardinality(A \cap B) = 0
    BY <1>3, FS_EmptySet
  <2>2. Cardinality(A \cup B) = Cardinality(A) + Cardinality(B) - Cardinality(A \cap B)
    BY <1>5, FS_Union
  <2> QED BY ONLY <1>3, <1>5, <2>1, <2>2
<1> QED BY <1>1, <1>2, <1>5, <1>6, <1>7 DEF A, P

\* The prints of two sets are no more than each one's.
LEMMA PrintsAdd ==
  ASSUME NEW S \in SUBSET TaggedCards, NEW T \in SUBSET TaggedCards
  PROVE  CO!PrintsIn(S \cup T) <= CO!PrintsIn(S) + CO!PrintsIn(T)
<1>1. S \cup T \in SUBSET TaggedCards
  OBVIOUS
<1>2. Unprinted(S \cup T) = Unprinted(S) \cup Unprinted(T) /\ Printed(S \cup T) = Printed(S) \cup Printed(T)
  BY DEF Unprinted, Printed
<1>3. ASSUME NEW A, NEW B, IsFiniteSet(A), IsFiniteSet(B)
      PROVE  Cardinality(A \cup B) <= Cardinality(A) + Cardinality(B)
  <2>1. IsFiniteSet(A \cap B)
    <3>1. A \cap B \in SUBSET A
      OBVIOUS
    <3> QED BY <1>3, <3>1, FS_Subset
  <2>2. Cardinality(A) \in Nat /\ Cardinality(B) \in Nat /\ Cardinality(A \cap B) \in Nat
    BY <1>3, <2>1, FS_CardinalityType
  <2>3. Cardinality(A \cup B) = Cardinality(A) + Cardinality(B) - Cardinality(A \cap B)
    BY <1>3, FS_Union
  <2> QED BY <2>2, <2>3
<1>4. Cardinality(Unprinted(S \cup T)) <= Cardinality(Unprinted(S)) + Cardinality(Unprinted(T))
  BY <1>2, <1>3, PrintsAre
<1>5. Cardinality(Printed(S \cup T)) <= Cardinality(Printed(S)) + Cardinality(Printed(T))
  BY <1>2, <1>3, PrintsAre
<1>6. /\ CO!PrintsIn(S) = Cardinality(Unprinted(S)) + Cardinality(Printed(S))
      /\ Cardinality(Unprinted(S)) \in Nat /\ Cardinality(Printed(S)) \in Nat
  BY PrintsAre
<1>7. /\ CO!PrintsIn(T) = Cardinality(Unprinted(T)) + Cardinality(Printed(T))
      /\ Cardinality(Unprinted(T)) \in Nat /\ Cardinality(Printed(T)) \in Nat
  BY PrintsAre
<1>8. /\ CO!PrintsIn(S \cup T) = Cardinality(Unprinted(S \cup T)) + Cardinality(Printed(S \cup T))
      /\ Cardinality(Unprinted(S \cup T)) \in Nat /\ Cardinality(Printed(S \cup T)) \in Nat
  BY <1>1, PrintsAre
<1> QED BY <1>4, <1>5, <1>6, <1>7, <1>8

\* The duplicates of owned cards leave a copy of each.
LEMMA RowsLeaveACopy ==
  ASSUME CollectionsInv, NEW S \in SUBSET CO!Owned
  PROVE  CO!Duplicates(S) <= CO!Qty(S) - CO!PrintsIn(S)
<1>1. S \in SUBSET TaggedCards /\ S \cap CO!Owned = S
  BY DEF CO!Owned
<1>2. CO!Qty(S) = CO!Duplicates(S) + Cardinality(S)
  BY <1>1, DuplicatesAre
<1>3. CO!Duplicates(S) \in Nat /\ CO!PrintsIn(S) \in Nat /\ CO!PrintsIn(S) <= Cardinality(S) /\ Cardinality(S) \in Nat
  BY <1>1, FiguresAre, PrintsAre
<1> QED BY <1>2, <1>3

LEMMA QtyOfBoth ==
  ASSUME CollectionsInv, NEW A \in SUBSET TaggedCards, NEW B \in SUBSET TaggedCards, A \cap B = {}
  PROVE  CO!Qty(A \cup B) = CO!Qty(A) + CO!Qty(B)
<1>1. IsFiniteSet(A) /\ IsFiniteSet(B) /\ \A c \in A \cup B : CopiesFn[c] \in Int
  BY FiguresAre
<1>2. Sigma(CopiesFn, A \cup B) = Sigma(CopiesFn, A) + Sigma(CopiesFn, B)
  BY <1>1, SumOfBoth
<1>3. A \cup B \in SUBSET TaggedCards
  OBVIOUS
<1> QED BY <1>2, <1>3, FiguresAre

\* The prints of some sets, and their copies
PrintsOfSets(H) == {PrintOf[c] : c \in {d \in TaggedCards : SetOf[d] \in H}} \ {NoPrint}
FiledAt(p) == {c \in TaggedCards : PrintOf[c] = p}

\* A print is on one checklist.
LEMMA PrintsOfSetsAre ==
  ASSUME NEW H, NoSet \notin H
  PROVE  /\ IsFiniteSet(PrintsOfSets(H))
         /\ \A p \in PrintsOfSets(H) :
              p # NoPrint /\ (\E c \in FiledAt(p) : TRUE) /\ \A c \in FiledAt(p) : SetOf[c] \in H
         /\ \A c \in TaggedCards : SetOf[c] \in H /\ PrintOf[c] # NoPrint => PrintOf[c] \in PrintsOfSets(H)
         /\ \A key \in H : CO!PrintsOf(key) = {p \in PrintsOfSets(H) : \A c \in FiledAt(p) : SetOf[c] = key}
<1> DEFINE D == {d \in TaggedCards : SetOf[d] \in H}
<1>1. IsFiniteSet(PrintsOfSets(H))
  <2>1. D \in SUBSET TaggedCards
    OBVIOUS
  <2> HIDE DEF D
  <2>2. IsFiniteSet(D)
    BY <2>1, CollectionsAssumption, FS_Subset
  <2>3. IsFiniteSet({PrintOf[c] : c \in D})
    BY <2>2, ImageIsFinite
  <2>4. PrintsOfSets(H) \in SUBSET {PrintOf[c] : c \in D}
    BY DEF PrintsOfSets, D
  <2> QED BY <2>3, <2>4, FS_Subset
<1>2. \A c \in TaggedCards, d \in TaggedCards :
        PrintOf[c] # NoPrint /\ PrintOf[d] = PrintOf[c] => SetOf[d] = SetOf[c]
  BY CollectionsAssumption
<1>3. ASSUME NEW p \in PrintsOfSets(H)
      PROVE  p # NoPrint /\ (\E c \in FiledAt(p) : TRUE) /\ \A c \in FiledAt(p) : SetOf[c] \in H
  <2>1. PICK c \in TaggedCards : SetOf[c] \in H /\ p = PrintOf[c] /\ p # NoPrint
    BY DEF PrintsOfSets
  <2> QED BY <1>2, <2>1 DEF FiledAt
<1>4. \A c \in TaggedCards : SetOf[c] \in H /\ PrintOf[c] # NoPrint => PrintOf[c] \in PrintsOfSets(H)
  BY DEF PrintsOfSets
<1>5. ASSUME NEW key \in H
      PROVE  CO!PrintsOf(key) = {p \in PrintsOfSets(H) : \A c \in FiledAt(p) : SetOf[c] = key}
  <2>1. ASSUME NEW p \in CO!PrintsOf(key) PROVE p \in PrintsOfSets(H) /\ \A c \in FiledAt(p) : SetOf[c] = key
    <3>1. PICK c \in TaggedCards : SetOf[c] = key /\ p = PrintOf[c] /\ p # NoPrint
      BY DEF CO!PrintsOf
    <3> QED BY <1>2, <1>4, <3>1 DEF FiledAt
  <2>2. ASSUME NEW p \in PrintsOfSets(H), \A c \in FiledAt(p) : SetOf[c] = key PROVE p \in CO!PrintsOf(key)
    <3>1. PICK c \in FiledAt(p) : TRUE
      BY <1>3
    <3> QED BY <1>3, <2>2, <3>1 DEF FiledAt, CO!PrintsOf
  <2> QED BY <2>1, <2>2
<1> QED BY <1>1, <1>3, <1>4, <1>5

\* The spares of some sets, print by print
SpareFn(H) == [p \in PrintsOfSets(H) |-> CO!AtLeast0(CO!InHand(p) - 1)]

LEMMA InHandIs ==
  ASSUME CollectionsInv, NEW p
  PROVE  /\ CO!InHand(p) \in Int /\ Sigma(CopiesFn, FiledAt(p)) \in Nat
         /\ CO!InHand(p) <= Sigma(CopiesFn, FiledAt(p))
         /\ \A c \in FiledAt(p) : CopiesFn[c] <= Sigma(CopiesFn, FiledAt(p))
<1> DEFINE T == FiledAt(p)
           g == [c \in T |-> s1[c].qty - s1[c].incoming]
<1>1. T \in SUBSET TaggedCards
  BY DEF FiledAt
<1>2. CO!InHand(p) = Sigma(g, T)
  BY CollectionNames DEF CO!InHand, FiledAt
<1>3. \A c \in T : g[c] \in Int /\ CopiesFn[c] \in Int /\ g[c] <= CopiesFn[c] /\ CopiesFn[c] \in Nat
  BY <1>1, CardIs DEF CopiesFn
<1> HIDE DEF g, T
<1>4. IsFiniteSet(T)
  BY <1>1, FiguresAre
<1>5. Sigma(g, T) \in Int
  BY <1>3, <1>4, SumOfInts
<1>6. Sigma(g, T) <= Sigma(CopiesFn, T)
  BY <1>3, <1>4, SumGrows
<1>7. Sigma(CopiesFn, T) \in Nat /\ \A c \in T : CopiesFn[c] <= Sigma(CopiesFn, T)
  BY <1>3, <1>4, SumOfNats
<1> QED BY <1>2, <1>5, <1>6, <1>7 DEF T

LEMMA SparesAre ==
  ASSUME CollectionsInv, NEW H, IsFiniteSet(H), NoSet \notin H
  PROVE  /\ CO!SparesOf(H) = Sigma(SpareFn(H), PrintsOfSets(H))
         /\ \A p \in PrintsOfSets(H) : SpareFn(H)[p] \in Nat
         /\ CO!SparesOf(H) \in Nat
<1> DEFINE PP == PrintsOfSets(H)
           F == SpareFn(H)
           cls == [p \in PP |-> SetOf[CHOOSE c \in FiledAt(p) : TRUE]]
<1>1. \A p \in PP : F[p] \in Nat /\ F[p] \in Int /\ F[p] = CO!AtLeast0(CO!InHand(p) - 1)
  BY InHandIs DEF SpareFn, CO!AtLeast0
<1>2. IsFiniteSet(PP)
  BY PrintsOfSetsAre
<1>3. \A p \in PP : cls[p] \in H /\ \A c \in FiledAt(p) : SetOf[c] = cls[p]
  <2> SUFFICES ASSUME NEW p \in PP PROVE cls[p] \in H /\ \A c \in FiledAt(p) : SetOf[c] = cls[p]
    OBVIOUS
  <2> DEFINE d == CHOOSE c \in FiledAt(p) : TRUE
  <2>1. d \in FiledAt(p) /\ p # NoPrint /\ \A c \in FiledAt(p) : SetOf[c] \in H
    BY PrintsOfSetsAre
  <2>2. \A c \in FiledAt(p) : SetOf[c] = SetOf[d]
    BY <2>1, CollectionsAssumption DEF FiledAt
  <2> QED BY <2>1, <2>2
<1>4. ASSUME NEW key \in H PROVE CO!Spares(key) = Sigma(F, {p \in PP : cls[p] = key}) /\ CO!Spares(key) \in Int
  <2> DEFINE T == CO!PrintsOf(key)
             g == [p \in T |-> CO!AtLeast0(CO!InHand(p) - 1)]
  <2>1. T = {p \in PP : cls[p] = key}
    <3>1. T = {p \in PP : \A c \in FiledAt(p) : SetOf[c] = key}
      BY PrintsOfSetsAre
    <3>2. \A p \in PP : (\A c \in FiledAt(p) : SetOf[c] = key) <=> cls[p] = key
      BY <1>3, PrintsOfSetsAre
    <3> HIDE DEF cls, PP
    <3> QED BY <3>1, <3>2
  <2>2. CO!Spares(key) = Sigma(g, T)
    BY CollectionNames DEF CO!Spares
  <2>3. T \in SUBSET PP
    BY <2>1
  <2>4. \A p \in T : g[p] = F[p] /\ g[p] \in Int /\ F[p] \in Int
    BY <1>1, <2>3
  <2>5. IsFiniteSet(T)
    <3> HIDE DEF PP, T
    <3> QED BY <1>2, <2>3, FS_Subset
  <2> HIDE DEF g, F, T, PP, cls
  <2>6. Sigma(g, T) = Sigma(F, T)
    BY <2>4, <2>5, SumAgrees
  <2>7. Sigma(F, T) \in Int
    BY <2>4, <2>5, SumOfInts
  <2> QED BY <2>1, <2>2, <2>6, <2>7
<1> DEFINE g == [key \in H |-> CO!Spares(key)]
           h == ByClass(F, PP, cls, H)
<1>5. CO!SparesOf(H) = Sigma(g, H)
  BY CollectionNames DEF CO!SparesOf
<1>6. \A key \in H : g[key] = h[key] /\ g[key] \in Int /\ h[key] \in Int
  <2> HIDE DEF F, PP, cls
  <2> QED BY <1>4 DEF ByClass
<1>7. Sigma(g, H) = Sigma(h, H)
  <2> HIDE DEF g, h
  <2> QED BY <1>6, SumAgrees
<1>8. Sigma(h, H) = Sigma(F, PP)
  <2>1. \A p \in PP : cls[p] \in H /\ F[p] \in Int
    BY <1>1, <1>3
  <2> HIDE DEF F, PP, cls
  <2> QED BY <1>2, <2>1, SumByClass
<1>9. Sigma(F, PP) \in Nat
  <2> HIDE DEF F, PP
  <2> QED BY <1>1, <1>2, SumOfNats
<1> HIDE DEF g, h, cls
<1> QED BY <1>1, <1>5, <1>7, <1>8, <1>9

\* The spares of some sets leave a copy of each print that is owned of them.
LEMMA SetsLeaveACopy ==
  ASSUME CollectionsInv, NEW H, IsFiniteSet(H), NoSet \notin H, NEW B,
         B = {c \in CO!Owned : SetOf[c] \in H}
  PROVE  CO!SparesOf(H) <= CO!Qty(B) - CO!PrintsIn(B)
<1> DEFINE PP == PrintsOfSets(H)
           F == SpareFn(H)
           C == {c \in TaggedCards : PrintOf[c] \in PP}
           q == [p \in PP |-> Sigma(CopiesFn, FiledAt(p))]
           own == [p \in PP |-> IF q[p] > 0 THEN 1 ELSE 0]
           both == [p \in PP |-> F[p] + own[p]]
           U == Unprinted(B)
           V == C \cap CO!Owned
<1>1. IsFiniteSet(PP)
  BY PrintsOfSetsAre
<1>2. \A p \in PP : F[p] = CO!AtLeast0(CO!InHand(p) - 1) /\ F[p] \in Nat
  BY SparesAre DEF SpareFn
<1>3. \A p \in PP : /\ q[p] \in Nat /\ own[p] \in {0, 1} /\ F[p] + own[p] <= q[p]
                    /\ both[p] = F[p] + own[p] /\ (own[p] = 1 <=> q[p] > 0)
  <2> SUFFICES ASSUME NEW p \in PP
               PROVE  /\ q[p] \in Nat /\ own[p] \in {0, 1} /\ F[p] + own[p] <= q[p]
                      /\ both[p] = F[p] + own[p] /\ (own[p] = 1 <=> q[p] > 0)
    OBVIOUS
  <2>1. q[p] \in Nat /\ CO!InHand(p) \in Int /\ CO!InHand(p) <= q[p]
    BY InHandIs
  <2>2. own[p] = (IF q[p] > 0 THEN 1 ELSE 0) /\ both[p] = F[p] + own[p]
    OBVIOUS
  <2>3. F[p] = (IF CO!InHand(p) - 1 > 0 THEN CO!InHand(p) - 1 ELSE 0)
    BY <1>2 DEF CO!AtLeast0
  <2> HIDE DEF q, own, both, F
  <2> QED BY <2>1, <2>2, <2>3
<1>4. Sigma(q, PP) = CO!Qty(C)
  <2> DEFINE h == ByClass(CopiesFn, C, PrintOf, PP)
  <2>1. C \in SUBSET TaggedCards /\ \A c \in C : PrintOf[c] \in PP
    OBVIOUS
  <2>2. IsFiniteSet(C) /\ CO!Qty(C) = Sigma(CopiesFn, C) /\ \A c \in C : CopiesFn[c] \in Int
    <3> HIDE DEF C
    <3> QED BY <2>1, FiguresAre
  <2>3. \A p \in PP : {c \in C : PrintOf[c] = p} = FiledAt(p)
    BY DEF FiledAt
  <2>4. \A p \in PP : h[p] = q[p] /\ h[p] \in Int /\ q[p] \in Int
    <3>1. \A p \in PP : h[p] = Sigma(CopiesFn, {c \in C : PrintOf[c] = p})
      BY DEF ByClass
    <3>2. \A p \in PP : q[p] = Sigma(CopiesFn, FiledAt(p))
      OBVIOUS
    <3>3. \A p \in PP : Sigma(CopiesFn, {c \in C : PrintOf[c] = p}) = Sigma(CopiesFn, FiledAt(p))
      <4> HIDE DEF C, PP
      <4> QED BY <2>3
    <3> HIDE DEF h, q, C, PP
    <3>4. \A p \in PP : h[p] = q[p] /\ q[p] \in Nat
      BY <1>3, <3>1, <3>2, <3>3
    <3> QED BY <3>4
  <2>5. Sigma(h, PP) = Sigma(CopiesFn, C)
    <3> HIDE DEF C, PP
    <3> QED BY <1>1, <2>1, <2>2, SumByClass
  <2>6. Sigma(h, PP) = Sigma(q, PP)
    <3> HIDE DEF h, q
    <3> QED BY <1>1, <2>4, SumAgrees
  <2> HIDE DEF h, q, C, PP
  <2> QED BY <2>2, <2>5, <2>6
<1>5. Sigma(F, PP) + Cardinality(Printed(B)) <= Sigma(q, PP) /\ Sigma(F, PP) \in Nat /\ Cardinality(Printed(B)) \in Nat
  <2> DEFINE taken == {p \in PP : own[p] = 1}
  <2>1. Printed(B) \in SUBSET taken
    <3> SUFFICES ASSUME NEW c \in B, PrintOf[c] # NoPrint PROVE PrintOf[c] \in taken
      BY DEF Printed
    <3>1. c \in TaggedCards /\ s1[c].qty > 0 /\ SetOf[c] \in H
      BY DEF CO!Owned
    <3>2. PrintOf[c] \in PP
      BY <3>1, PrintsOfSetsAre
    <3>3. c \in FiledAt(PrintOf[c]) /\ CopiesFn[c] > 0
      BY <3>1 DEF FiledAt, CopiesFn
    <3>4. CopiesFn[c] <= q[PrintOf[c]] /\ CopiesFn[c] \in Nat
      BY <3>1, <3>2, <3>3, InHandIs, FiguresAre
    <3>5. q[PrintOf[c]] > 0
      <4> HIDE DEF q
      <4> QED BY <1>3, <3>2, <3>3, <3>4
    <3> HIDE DEF q, own, PP
    <3> QED BY <1>3, <3>2, <3>5
  <2>2. taken \in SUBSET PP
    OBVIOUS
  <2> HIDE DEF PP, F, q, own, both
  <2>3. Sigma(own, PP) = Cardinality(taken)
    BY <1>1, <1>3, SumOfOnes
  <2>4. Sigma(both, PP) = Sigma(F, PP) + Sigma(own, PP)
    <3>1. \A p \in PP : F[p] \in Int /\ own[p] \in Int /\ both[p] = F[p] + own[p]
      BY <1>2, <1>3
    <3> QED BY <1>1, <3>1, SumOfSums
  <2>5. Sigma(both, PP) <= Sigma(q, PP)
    <3>1. \A p \in PP : both[p] \in Int /\ q[p] \in Int /\ both[p] <= q[p]
      BY <1>2, <1>3
    <3> QED BY <1>1, <3>1, SumGrows
  <2>6. Sigma(F, PP) \in Nat
    BY <1>1, <1>2, SumOfNats
  <2>7. Sigma(q, PP) \in Nat
    BY <1>1, <1>3, SumOfNats
  <2> HIDE DEF taken
  <2>8. IsFiniteSet(taken) /\ Cardinality(taken) \in Nat
    BY <1>1, <2>2, FS_Subset, FS_CardinalityType
  <2>9. Cardinality(Printed(B)) <= Cardinality(taken) /\ Cardinality(Printed(B)) \in Nat
    BY <2>1, <2>8, FS_Subset, FS_CardinalityType
  <2> QED BY ONLY <2>3, <2>4, <2>5, <2>6, <2>7, <2>8, <2>9
<1>6. CO!Qty(C) = CO!Qty(V) /\ CO!Qty(V) \in Nat
  <2>1. C \in SUBSET TaggedCards /\ V \in SUBSET TaggedCards
    OBVIOUS
  <2> HIDE DEF C
  <2> QED BY <2>1, OnlyOwnedCount, FiguresAre
<1>7. B = V \cup U /\ V \cap U = {} /\ V \in SUBSET TaggedCards /\ U \in SUBSET TaggedCards /\ U \cap CO!Owned = U
  <2>1. \A c \in V : SetOf[c] \in H /\ PrintOf[c] # NoPrint
    BY PrintsOfSetsAre DEF FiledAt
  <2>2. \A c \in B : PrintOf[c] # NoPrint => c \in V
    BY PrintsOfSetsAre DEF CO!Owned
  <2> HIDE DEF PP
  <2> QED BY <2>1, <2>2 DEF Unprinted, CO!Owned
<1> HIDE DEF PP, F, C, q, own, both, V
<1>8. CO!Qty(B) = CO!Qty(V) + CO!Qty(U)
  <2> HIDE DEF U
  <2> QED BY <1>7, QtyOfBoth
<1>9. Cardinality(U) <= CO!Qty(U) /\ Cardinality(U) \in Nat /\ CO!Qty(U) \in Nat
  <2> HIDE DEF U
  <2>1. CO!Qty(U) = CO!Duplicates(U) + Cardinality(U) /\ Cardinality(U) \in Nat
    BY <1>7, DuplicatesAre
  <2>2. CO!Duplicates(U) \in Nat /\ CO!Qty(U) \in Nat
    BY <1>7, FiguresAre
  <2> QED BY <2>1, <2>2
<1>10. CO!PrintsIn(B) = Cardinality(U) + Cardinality(Printed(B))
  <2>1. B \in SUBSET TaggedCards
    BY <1>7
  <2> QED BY <2>1, PrintsAre
<1>11. CO!SparesOf(H) = Sigma(F, PP)
  BY SparesAre DEF F, PP
<1> HIDE DEF U
<1> QED BY <1>4, <1>5, <1>6, <1>8, <1>9, <1>10, <1>11

\* The figures of the page and of the overview, of a collection that holds
\* each set under one name
LEMMA PageAndOverview ==
  ASSUME CollectionsInv, NEW k \in CO!Ordinary, ~ CO!Split(k)
  PROVE  CO!HomeKeys(k, CO!Row(k)) = CO!Blocks(k) /\ CO!CountedRowByRow(k) = CO!Plain(k)
<1> DEFINE M == CO!Members(k)
<1>1. CO!Row(k) = M
  BY DEF CO!Row, CO!Members, CO!Tagged, CO!Ordinary
<1>2. CO!HomeKeys(k, CO!Row(k)) = CO!Blocks(k)
  BY <1>1 DEF CO!Blocks
<1>3. ASSUME NEW key \in CO!Blocks(k)
      PROVE  Min(CO!SectionsOf(M, key)) = CO!FirstByRank(CO!SectionsOf(M, key))
  <2> DEFINE N == CO!SectionsOf(M, key)
  <2>1. M \in SUBSET TaggedCards /\ key \in CO!KeysOf(M)
    BY BlocksAre
  <2>2. CO!FirstByRank(N) \in N
    BY BlocksAre
  <2>3. ~ (Cardinality(N) > 1)
    BY <2>1, CollectionNames DEF CO!Split
  <2>4. IsFiniteSet(N) /\ N \in SUBSET Nat
    <3>1. CO!Sections(M) \in SUBSET Nat /\ N \in SUBSET CO!Sections(M) /\ IsFiniteSet(N)
      BY <2>1, SectionsAre
    <3> HIDE DEF N
    <3> QED BY <3>1
  <2> HIDE DEF N
  <2>5. \A m \in N : m = CO!FirstByRank(N)
    BY <2>2, <2>3, <2>4, AtMostOne
  <2>6. \E x \in N : \A y \in N : x <= y
    BY <2>2, <2>4, LeastNatural
  <2>7. Min(N) \in N
    BY <2>6 DEF Min
  <2> QED BY <2>5, <2>7 DEF N
<1>4. {Min(CO!SectionsOf(M, key)) : key \in CO!Blocks(k)} = CO!BlockSections(k)
  BY <1>3 DEF CO!BlockSections
<1>5. CO!CountedRowByRow(k) =
        {c \in M : SectionOf[c] \notin {Min(CO!SectionsOf(M, key)) : key \in CO!Blocks(k)}}
  BY <1>1, <1>2, CollectionNames DEF CO!CountedRowByRow
<1> QED BY <1>2, <1>4, <1>5 DEF CO!Plain

\* Such a collection's blocks and its rows have no card in common.
LEMMA BlocksAndRows ==
  ASSUME CollectionsInv, NEW k \in CO!Ordinary, ~ CO!Split(k), ~ CO!Mixed(k)
  PROVE  CO!InBlocks(k) \cap CO!Plain(k) = {}
<1> SUFFICES ASSUME NEW c \in CO!InBlocks(k), c \in CO!Plain(k) PROVE FALSE
  OBVIOUS
<1> DEFINE M == CO!Members(k)
           key == SetOf[c]
           N == CO!SectionsOf(M, key)
<1>1. c \in M /\ key \in CO!Blocks(k) /\ SectionOf[c] \notin CO!BlockSections(k)
  BY DEF CO!InBlocks, CO!Plain
<1>2. M \in SUBSET TaggedCards /\ key \in CO!KeysOf(M)
  BY <1>1, BlocksAre
<1>3. key # NoSet
  BY <1>2, KeysAre
<1>4. SectionOf[c] \in N
  BY <1>1, <1>3, Unmixed
<1>5. CO!FirstByRank(N) \in N /\ CO!FirstByRank(N) \in CO!BlockSections(k)
  BY <1>1, BlocksAre
<1>6. ~ (Cardinality(N) > 1)
  BY <1>2, CollectionNames DEF CO!Split
<1>7. IsFiniteSet(N)
  BY <1>2, SectionsAre
<1> HIDE DEF N
<1>8. SectionOf[c] = CO!FirstByRank(N)
  BY <1>4, <1>5, <1>6, <1>7, AtMostOne
<1> QED BY <1>1, <1>5, <1>8

LEMMA CopiesLeft == ASSUME CollectionsInv PROVE CO!LeavesACopy
<1> SUFFICES ASSUME NEW k \in CO!Ordinary, ~ CO!Split(k), ~ CO!Mixed(k)
             PROVE  LET all == (CO!Members(k) \cap CO!Owned) \cup CO!InBlocks(k)
                    IN  \A n \in {CO!OverviewDuplicates(k), CO!PageDuplicates(k)} : n <= CO!Qty(all) - CO!PrintsIn(all)
  BY DEF CO!LeavesACopy
<1> DEFINE H == CO!Blocks(k)
           B == CO!InBlocks(k)
           P == CO!Plain(k)
           all == (CO!Members(k) \cap CO!Owned) \cup B
           rest == all \ B
<1>1. CO!PageDuplicates(k) = CO!SparesOf(H) + CO!Duplicates(P) /\ CO!OverviewDuplicates(k) = CO!PageDuplicates(k)
  BY PageAndOverview DEF CO!PageDuplicates, CO!OverviewDuplicates
<1>2. P \cap CO!Owned \in SUBSET rest
  BY BlocksAndRows DEF CO!Plain
<1>3. /\ B \in SUBSET TaggedCards /\ all \in SUBSET TaggedCards /\ P \in SUBSET TaggedCards /\ rest \in SUBSET TaggedCards
      /\ rest \in SUBSET CO!Owned /\ B \cap rest = {} /\ all = B \cup rest
  BY DEF CO!InBlocks, CO!Plain, CO!Owned, CO!Members
<1>4. IsFiniteSet(H) /\ NoSet \notin H /\ B = {c \in CO!Owned : SetOf[c] \in H}
  <2>1. CO!Members(k) \in SUBSET TaggedCards /\ H \in SUBSET CO!KeysOf(CO!Members(k))
    BY BlocksAre
  <2>2. IsFiniteSet(CO!KeysOf(CO!Members(k))) /\ NoSet \notin CO!KeysOf(CO!Members(k))
    BY <2>1, KeysAre
  <2>3. B = {c \in CO!Owned : SetOf[c] \in H}
    BY DEF CO!InBlocks
  <2> HIDE DEF H, B
  <2> QED BY <2>1, <2>2, <2>3, FS_Subset
<1> HIDE DEF H, B, P, rest, all
<1>5. CO!SparesOf(H) <= CO!Qty(B) - CO!PrintsIn(B) /\ CO!SparesOf(H) \in Nat
  BY <1>4, SetsLeaveACopy, SparesAre
<1>6. CO!Duplicates(P) <= CO!Duplicates(rest)
  <2> DEFINE Q == P \cap CO!Owned
  <2>1. CO!Duplicates(P) = CO!Duplicates(Q)
    BY <1>3, OnlyOwnedCount
  <2>2. Q \in SUBSET rest /\ Q \in SUBSET TaggedCards
    BY <1>2, <1>3
  <2> HIDE DEF Q
  <2>3. CO!Duplicates(Q) = Sigma(SparesFn, Q) /\ CO!Duplicates(rest) = Sigma(SparesFn, rest)
    BY <1>3, <2>2, FiguresAre
  <2>4. IsFiniteSet(rest) /\ \A c \in rest : SparesFn[c] \in Nat
    BY <1>3, FiguresAre
  <2>5. Sigma(SparesFn, Q) <= Sigma(SparesFn, rest)
    BY <2>2, <2>4, SumOfNats
  <2> QED BY <2>1, <2>3, <2>5
<1>7. CO!Duplicates(rest) <= CO!Qty(rest) - CO!PrintsIn(rest)
  BY <1>3, RowsLeaveACopy
<1>8. CO!Qty(all) = CO!Qty(B) + CO!Qty(rest)
  BY <1>3, QtyOfBoth
<1>9. CO!PrintsIn(all) <= CO!PrintsIn(B) + CO!PrintsIn(rest)
  BY <1>3, PrintsAdd
<1>10. /\ CO!Qty(B) \in Nat /\ CO!Qty(rest) \in Nat /\ CO!Duplicates(P) \in Nat /\ CO!Duplicates(rest) \in Nat
       /\ CO!PrintsIn(B) \in Nat /\ CO!PrintsIn(rest) \in Nat /\ CO!PrintsIn(all) \in Nat
  BY <1>3, FiguresAre, PrintsAre
<1>11. CO!SparesOf(H) + CO!Duplicates(P) <= CO!Qty(all) - CO!PrintsIn(all)
  BY <1>5, <1>6, <1>7, <1>8, <1>9, <1>10
<1> QED BY <1>1, <1>11 DEF all, B

LEMMA CollectionsStutter == ASSUME CollectionsInv, UNCHANGED s1 PROVE CollectionsInv'
BY DEF CollectionsInv

LEMMA CollectionsTyped == ASSUME CollectionsInv PROVE CO!TypeOK
BY DEF CollectionsInv, CO!TypeOK

\* Whatever the syncs and exports did, for any cards, sets, collections and folders:
\* Collections and Bulk are the headline, a set's link leads to its block, no owned card
\* is lost to a block, the duplicates leave a copy of each print, an alias takes one hop,
\* and a favorite is its folder's name.
THEOREM GroupsDoStayComplete == DailySpec => []GroupsAreComplete
<1> DEFINE I == /\ part = "collections" => CollectionsInv
                /\ part = "folders" => FoldersInv
<1>1. DailyInit => I
  BY CollectionsBegin, FoldersBegin DEF DailyInit
<1>2. I /\ [DailyNext]_dailyvars => I'
  <2> SUFFICES ASSUME I, [DailyNext]_dailyvars PROVE I'
    OBVIOUS
  <2>1. part' = part
    BY DEF DailyNext, dailyvars
  <2>2. ASSUME part = "collections" PROVE CollectionsInv'
    <3>1. CO!Next \/ UNCHANGED s1
      BY <2>2 DEF DailyNext, OtherPart, dailyvars
    <3> QED BY <2>2, <3>1, CollectionsStep, CollectionsStutter
  <2>3. ASSUME part = "folders" PROVE FoldersInv'
    <3>1. PF!Next \/ UNCHANGED <<s1, s2, s3, s4>>
      BY <2>3 DEF DailyNext, OtherPart, dailyvars
    <3> QED BY <2>3, <3>1, FoldersStep, FoldersStutter
  <2> QED BY <2>1, <2>2, <2>3
<1>3. I => GroupsAreComplete
  BY CountsHold, HomesHold, NoneLost, CopiesLeft, FoldersHold DEF GroupsAreComplete
<1> QED BY <1>1, <1>2, <1>3, PTL DEF DailySpec

-----------------------------------------------------------------------------
(* Types *)

\* Of the other jobs, none takes a snapshot.
SmallInv ==
  /\ CapInv
  /\ s1 \in [JobCards -> 0..MaxQty]
  /\ s2 \in [SJ!Sources -> [JobCards -> {SJ!NoRow} \cup 1..MaxQty]]
  /\ \A j \in OtherJobs : s3[j].phase \in {"idle", "body", "images", "killed"}
  /\ s4 \in [OtherJobs -> Statuses]
  /\ s5 \in [OtherJobs -> Dones]

LEMMA SmallBegin == ASSUME SJ!Init PROVE SmallInv
<1>1. CapInv
  BY CapBegin
<1>2. \A j \in OtherJobs : s3[j].phase = "idle"
  BY DEF SJ!Init, SJ!Idle
<1>3. s1 \in [JobCards -> 0..MaxQty]
  BY JobsAssumption DEF SJ!Init
<1>4. s2 \in [SJ!Sources -> [JobCards -> {SJ!NoRow} \cup 1..MaxQty]]
  BY DEF SJ!Init, SJ!NoSnapshots
<1>5. s4 \in [OtherJobs -> Statuses] /\ s5 \in [OtherJobs -> Dones]
  BY DonesAre DEF SJ!Init, Statuses
<1> QED BY <1>1, <1>2, <1>3, <1>4, <1>5 DEF SmallInv

LEMMA SmallStep == ASSUME SmallInv, SJ!Next PROVE SmallInv'
<1> DEFINE P == SJ!Poketrace
           SmallPhases == {"idle", "body", "images", "killed"}
<1> USE DEF SJ!requests
<1>0. /\ CapInv /\ CapInv' /\ DOMAIN s3 = OtherJobs /\ \A j \in OtherJobs : s3[j].phase \in SmallPhases
      /\ SJ!Idle.phase = "idle" /\ SJ!DexSync \notin OtherJobs /\ SJ!PriceRefresh \notin OtherJobs
  BY CapStep, OtherJobsAssumption DEF SmallInv, CapInv, SJ!Idle
<1>1. ASSUME \A j \in OtherJobs : s3'[j].phase \in SmallPhases, s4' \in [OtherJobs -> Statuses],
             s5' \in [OtherJobs -> Dones], UNCHANGED <<s1, s2>>
      PROVE  SmallInv'
  BY <1>0, <1>1 DEF SmallInv
<1> DEFINE Logs == [OtherJobs -> Statuses]
           Dids == [OtherJobs -> Dones]
<1>14. s4 \in Logs /\ s5 \in Dids
  BY DEF SmallInv
<1>2. ASSUME NEW j \in OtherJobs, NEW status \in Statuses, SJ!Recorded(j, status), UNCHANGED <<s1, s2, s5>>
      PROVE  SmallInv'
  <2>1. s4' = [s4 EXCEPT ![j] = status] /\ s3' = [s3 EXCEPT ![j] = SJ!Idle]
    BY <1>2 DEF SJ!Recorded
  <2>2. s4' \in Logs
    BY <1>14, <2>1
  <2>3. \A k \in OtherJobs : s3'[k].phase \in SmallPhases
    BY <1>0, <2>1
  <2> QED BY <1>1, <1>2, <1>14, <2>2, <2>3
<1>3. ASSUME NEW j \in OtherJobs, NEW trigger, SJ!Start(j, trigger) PROVE SmallInv'
  <2> DEFINE r == [phase |-> "body", source |-> SJ!SnapshotSource(j, trigger)]
  <2>1. r.phase = "body" /\ s3' = [s3 EXCEPT ![j] = r] /\ s5' = [s5 EXCEPT ![j] = {}] /\ UNCHANGED <<s1, s2, s4>>
    BY <1>3 DEF SJ!Start
  <2> HIDE DEF r
  <2>2. s5' \in Dids
    BY <1>14, <2>1, DonesAre
  <2>3. \A k \in OtherJobs : s3'[k].phase \in SmallPhases
    BY <1>0, <2>1
  <2> QED BY <1>1, <1>14, <2>1, <2>2, <2>3
<1>4. CASE SJ!AbortSync \/ SJ!EmptyFolder \/ SJ!ImportExports \/ SJ!FillImages
  BY <1>0, <1>4 DEF SJ!AbortSync, SJ!EmptyFolder, SJ!ImportExports, SJ!FillImages
<1>5. ASSUME NEW p, NEW t, SJ!RefreshPrices(p, t) PROVE SmallInv'
  BY <1>0, <1>5 DEF SJ!RefreshPrices
<1>6. ASSUME NEW j \in OtherJobs \cap {SJ!DexSync, SJ!PriceRefresh} PROVE FALSE
  BY <1>0
<1>7. CASE SJ!Skip
  BY <1>2, <1>7 DEF SJ!Skip, Statuses
<1>8. CASE SJ!Connect
  <2> DEFINE r == [phase |-> "images", left |-> SJ!Left, made |-> 0, day |-> 0]
  <2>1. P \in OtherJobs /\ r.phase = "images" /\ s3' = [s3 EXCEPT ![P] = r] /\ UNCHANGED <<s1, s2, s4, s5>>
    BY <1>8 DEF SJ!Connect
  <2> HIDE DEF r
  <2>2. \A k \in OtherJobs : s3'[k].phase \in SmallPhases
    BY <1>0, <2>1
  <2> QED BY <1>1, <1>14, <2>1, <2>2
<1>9. CASE SJ!Request
  <2>1. /\ P \in OtherJobs /\ s3[P].phase = "images" /\ UNCHANGED <<s1, s2, s4, s5>>
        /\ s3'[P] = [s3[P] EXCEPT !.made = @ + 1, !.day = @ + 1]
        /\ \A k \in OtherJobs \ {P} : s3'[k] = s3[k]
    BY <1>0, <1>9 DEF SJ!Request
  <2>2. s3'[P].phase = "images"
    BY <1>0, <2>1 DEF CapInv
  <2>3. \A k \in OtherJobs : s3'[k].phase \in SmallPhases
    BY <1>0, <2>1, <2>2
  <2> QED BY <1>1, <1>14, <2>1, <2>3
<1>10. ASSUME NEW status \in {"ok", "failed", "degraded"}, SJ!Stop(status) PROVE SmallInv'
  BY <1>2, <1>10 DEF SJ!Stop, Statuses
<1>11. ASSUME NEW j \in OtherJobs, SJ!RunSmall(j) \/ SJ!Fail(j) PROVE SmallInv'
  BY <1>2, <1>11 DEF SJ!RunSmall, SJ!Fail, Statuses
<1>15. ASSUME NEW j \in OtherJobs, SJ!Kill(j) PROVE SmallInv'
  <2> DEFINE r == [phase |-> "killed"]
  <2>1. /\ r.phase = "killed" /\ s3' = [s3 EXCEPT ![j] = r] /\ s5' = [s5 EXCEPT ![j] = @ \cup {"killed"}]
        /\ UNCHANGED <<s1, s2, s4>>
    BY <1>15 DEF SJ!Kill
  <2> HIDE DEF r
  <2>2. s5' \in Dids
    BY <1>14, <2>1 DEF Dones
  <2>3. \A k \in OtherJobs : s3'[k].phase \in SmallPhases
    BY <1>0, <2>1
  <2> QED BY <1>1, <1>14, <2>1, <2>2, <2>3
<1>16. ASSUME NEW j \in OtherJobs, SJ!Interrupted(j) PROVE SmallInv'
  <2>1. (IF "import" \in s5[j] THEN s4[j] ELSE "failed") \in Statuses
    BY <1>14 DEF Statuses
  <2> QED BY <1>2, <1>16, <2>1 DEF SJ!Interrupted
<1>12. ASSUME NEW c \in JobCards, SJ!DeleteCard(c) PROVE SmallInv'
  <2>1. s1' = [s1 EXCEPT ![c] = 0] /\ s2' = [s \in SJ!Sources |-> [s2[s] EXCEPT ![c] = SJ!NoRow]]
        /\ UNCHANGED <<s4, s5>>
    BY <1>12 DEF SJ!DeleteCard
  <2>2. \A j \in OtherJobs : s3'[j].phase \in SmallPhases
    BY <1>0, <1>12 DEF SJ!DeleteCard
  <2>3. s1' \in [JobCards -> 0..MaxQty]
    BY <2>1, JobsAssumption DEF SmallInv
  <2>4. s2' \in [SJ!Sources -> [JobCards -> {SJ!NoRow} \cup 1..MaxQty]]
    BY <2>1 DEF SmallInv
  <2> QED BY <1>0, <2>1, <2>2, <2>3, <2>4 DEF SmallInv
<1>13. CASE SJ!Midnight
  <2>1. s2' = SJ!NoSnapshots /\ UNCHANGED <<s1, s4, s5>>
    BY <1>13 DEF SJ!Midnight
  <2>2. \A j \in OtherJobs : s3'[j].phase \in SmallPhases
    BY <1>0, <1>13 DEF SJ!Midnight
  <2> QED BY <1>0, <2>1, <2>2 DEF SmallInv, SJ!NoSnapshots
<1> QED BY <1>3, <1>4, <1>5, <1>6, <1>7, <1>8, <1>9, <1>10, <1>11, <1>12, <1>13, <1>15, <1>16 DEF SJ!Next

LEMMA SmallStutter == ASSUME SmallInv, UNCHANGED <<s1, s2, s3, s4, s5, s6, s7, s8>> PROVE SmallInv'
BY DEF SmallInv, CapInv

LEMMA SmallTyped == ASSUME SmallInv PROVE SJ!TypeOK
BY DEF SmallInv, CapInv, SJ!TypeOK, Statuses, Dones

\* The exchange rates
LEMMA RatesTyped == ASSUME RatesInv PROVE XR!TypeOK
BY DEF RatesInv, XR!TypeOK, CacheEntry

-----------------------------------------------------------------------------
(* Ledger *)

LEMMA LedgerNames ==
  /\ \A f, S : LE!Sigma(f, S) = Sigma(f, S)
  /\ \A f : LE!Total(f) = Sigma(f, DOMAIN f)
  /\ \A S : LE!Cardinality(S) = Cardinality(S)
  /\ \A S : LE!Min(S) = Min(S) /\ LE!Max(S) = Max(S)
  /\ \A P, k : LE!Nth(P, k) = Nth(P, k)
  /\ \A q, S : LE!Kept(q, S) = Kept(q, S)
<1>1. \A f, S : LE!Sigma(f, S) = Sigma(f, S)
  BY DEF LE!Sigma, Sigma, LE!Fns!SumFunctionOnSet, LE!Fns!FoldFunctionOnSet, LE!Fns!MapThenFoldSet,
         Fns!SumFunctionOnSet, Fns!FoldFunctionOnSet, Fns!MapThenFoldSet
<1>2. \A S : LE!Cardinality(S) = Cardinality(S)
  BY DEF LE!Cardinality, Cardinality
<1>3. \A S : LE!Min(S) = Min(S) /\ LE!Max(S) = Max(S)
  BY DEF LE!Min, LE!Max, Min, Max
<1>4. \A P, k : LE!Nth(P, k) = Nth(P, k)
  <2>1. \A P, i : LE!Rank(P, i) = Rank(P, i)
    BY <1>2 DEF LE!Rank, Rank
  <2> QED BY <2>1 DEF LE!Nth, Nth
<1>5. \A q, S : LE!Kept(q, S) = Kept(q, S)
  <2>1. \A q, S : LE!Spots(q, S) = Spots(q, S)
    BY DEF LE!Spots, Spots
  <2> QED BY <1>2, <1>4, <2>1 DEF LE!Kept, Kept
<1> QED BY <1>1, <1>2, <1>3, <1>4, <1>5 DEF LE!Total

\* A finite set of natural numbers has a greatest.
LEMMA GreatestNatural ==
  ASSUME NEW S, IsFiniteSet(S), S \in SUBSET Nat, S # {}
  PROVE  Max(S) \in S /\ \A x \in S : x <= Max(S)
<1> DEFINE f == [x \in S |-> x]
           m == Sigma(f, S)
<1>1. \A x \in S : f[x] = x /\ f[x] \in Nat
  OBVIOUS
<1> HIDE DEF f
<1>2. m \in Nat /\ \A x \in S : f[x] <= m
  BY <1>1, SumOfNats
<1> HIDE DEF m
<1>3. S \in SUBSET (0..m)
  BY <1>1, <1>2
<1> QED BY <1>2, <1>3, MinMax

LedgerRow(b) ==
  [card : LedgerCards, kind : LE!Kinds, day : RowDays, order : 0..LedgerOrders, price : RowPrices,
   fee : 0..Max(b.fees), ship : b.ships \cup {0}]

LedgerInv ==
  /\ s4 \in Bounds /\ s3 \in Nat
  /\ s1 \in [DOMAIN s1 -> LedgerRow(s4)] /\ DOMAIN s1 \in SUBSET (1..s4.rows)
  /\ \A t \in DOMAIN s1 : s1[t].kind = "ripped" => s1[t].price = 0
  /\ DOMAIN s2 = LedgerCards /\ \A c \in LedgerCards : s2[c] \in 0..(Untracked[c] + s4.rows)

LEMMA BoundsAre ==
  ASSUME NEW b \in Bounds
  PROVE  /\ b.rows \in Nat /\ b.ships \in SUBSET Nat /\ b.fees \in SUBSET Nat
         /\ Max(b.fees) \in Nat /\ \A x \in b.fees : x \in 0..Max(b.fees)
<1>1. b.rows \in Nat /\ b.ships \in SUBSET Nat /\ IsFiniteSet(b.fees) /\ b.fees \in SUBSET Nat /\ b.fees # {}
  BY LedgerAssumption
<1> DEFINE F == b.fees
<1> HIDE DEF F
<1>2. F \in SUBSET Nat /\ IsFiniteSet(F) /\ F # {}
  BY <1>1 DEF F
<1>3. Max(F) \in F /\ \A x \in F : x <= Max(F)
  BY <1>2, GreatestNatural
<1> DEFINE m == Max(F)
<1>4. m \in Nat /\ \A x \in F : x \in Nat /\ x <= m
  BY <1>2, <1>3
<1> HIDE DEF m
<1>5. m \in Nat /\ \A x \in F : x \in 0..m
  BY <1>4
<1> QED BY <1>1, <1>5 DEF F, m

\* The rows are finitely many, and each is one.
LEMMA RowsAre ==
  ASSUME LedgerInv
  PROVE  /\ LE!Rows = DOMAIN s1 /\ IsFiniteSet(DOMAIN s1) /\ DOMAIN s1 \in SUBSET Nat /\ DOMAIN s1 \in SUBSET Int
         /\ Cardinality(DOMAIN s1) \in Nat /\ Cardinality(DOMAIN s1) <= s4.rows
         /\ \A t \in DOMAIN s1 :
              /\ s1[t] \in LedgerRow(s4) /\ t \in 1..s4.rows
              /\ s1[t].card \in LedgerCards /\ s1[t].kind \in LE!Kinds /\ s1[t].day \in RowDays
              /\ s1[t].order \in 0..LedgerOrders /\ s1[t].price \in RowPrices
              /\ s1[t].fee \in 0..Max(s4.fees) /\ s1[t].ship \in s4.ships \cup {0}
              /\ s1[t].day \in Nat /\ s1[t].order \in Nat /\ s1[t].price \in Nat /\ s1[t].fee \in Nat /\ s1[t].ship \in Nat
<1>1. s4.rows \in Nat /\ s4.ships \in SUBSET Nat
  BY BoundsAre DEF LedgerInv
<1>2. IsFiniteSet(1..s4.rows) /\ Cardinality(1..s4.rows) = s4.rows
  <2>1. 1 \in Int /\ s4.rows \in Int /\ (IF 1 > s4.rows THEN 0 ELSE s4.rows - 1 + 1) = s4.rows
    BY <1>1
  <2> QED BY <2>1, FS_Interval
<1>3. DOMAIN s1 \in SUBSET (1..s4.rows)
  BY DEF LedgerInv
<1>4. IsFiniteSet(DOMAIN s1) /\ Cardinality(DOMAIN s1) \in Nat /\ Cardinality(DOMAIN s1) <= s4.rows
  BY <1>2, <1>3, FS_Subset, FS_CardinalityType
<1>5. ASSUME NEW t \in DOMAIN s1
      PROVE  /\ s1[t] \in LedgerRow(s4) /\ t \in 1..s4.rows
             /\ s1[t].card \in LedgerCards /\ s1[t].kind \in LE!Kinds /\ s1[t].day \in RowDays
             /\ s1[t].order \in 0..LedgerOrders /\ s1[t].price \in RowPrices
             /\ s1[t].fee \in 0..Max(s4.fees) /\ s1[t].ship \in s4.ships \cup {0}
             /\ s1[t].day \in Nat /\ s1[t].order \in Nat /\ s1[t].price \in Nat /\ s1[t].fee \in Nat /\ s1[t].ship \in Nat
  <2>1. s1[t] \in LedgerRow(s4)
    BY DEF LedgerInv
  <2>2. /\ s1[t].card \in LedgerCards /\ s1[t].kind \in LE!Kinds /\ s1[t].day \in RowDays
        /\ s1[t].order \in 0..LedgerOrders /\ s1[t].price \in RowPrices
        /\ s1[t].fee \in 0..Max(s4.fees) /\ s1[t].ship \in s4.ships \cup {0}
    BY <2>1 DEF LedgerRow
  <2>3. Max(s4.fees) \in Nat
    BY BoundsAre DEF LedgerInv
  <2> QED BY <1>1, <1>3, <2>1, <2>2, <2>3, LedgerAssumption
<1>6. DOMAIN s1 \in SUBSET Nat /\ DOMAIN s1 \in SUBSET Int
  BY <1>3
<1> QED BY <1>4, <1>5, <1>6 DEF LE!Rows

LEMMA LedgerTyped == ASSUME LedgerInv PROVE LE!TypeOK
<1>1. LE!Max(s4.fees) = Max(s4.fees) /\ LE!Orders \cup {LE!NoOrder} = 0..LedgerOrders
  BY LedgerNames, LedgerAssumption DEF LE!Orders, LE!NoOrder
<1> QED BY <1>1, RowsAre DEF LE!TypeOK, LedgerInv

LEMMA LedgerBegin == ASSUME LE!Init PROVE LedgerInv
<1>1. s1 = <<>> /\ DOMAIN s1 = {} /\ s4 \in Bounds /\ s3 = 0 /\ s2 = Untracked
  BY DEF LE!Init
<1>2. s4.rows \in Nat
  BY <1>1, BoundsAre
<1>3. DOMAIN s2 = LedgerCards /\ \A c \in LedgerCards : s2[c] \in 0..(Untracked[c] + s4.rows)
  BY <1>1, <1>2, LedgerAssumption
<1> QED BY <1>1, <1>3 DEF LedgerInv

\* What _split_order_fees() promises.
LEMMA FeesAreSplit ==
  ASSUME NEW total \in Nat, NEW n \in Nat, n >= 1, NEW p, DOMAIN p = 1..n, \A i \in 1..n : p[i] \in Nat
  PROVE  /\ DOMAIN LE!SplitFees(total, p) = 1..n
         /\ Sigma(LE!SplitFees(total, p), 1..n) = total
         /\ \A i \in 1..n : LE!SplitFees(total, p)[i] \in 0..total
         /\ \A i, j \in 1..n : p[i] = 0 /\ p[j] > 0 => LE!SplitFees(total, p)[i] = 0
<1> DEFINE w == LE!Weights(p)
           cents == [i \in DOMAIN w |-> (total * w[i]) \div LE!Total(w)]
           fraction(i) == (total * w[i]) % LE!Total(w)
           before(i, j) == fraction(i) > fraction(j) \/ (fraction(i) = fraction(j) /\ i < j)
           Fits(S) == /\ LE!Cardinality(S) = total - LE!Total(cents)
                      /\ \A i \in S, j \in (DOMAIN w) \ S : before(i, j)
           up == CHOOSE S \in SUBSET DOMAIN w : Fits(S)
           s == LE!SplitFees(total, p)
<1>1. IsFiniteSet(1..n) /\ 1 \in 1..n
  BY FS_Interval
<1>2. /\ LE!Total(p) = Sigma(p, 1..n) /\ Sigma(p, 1..n) \in Nat
      /\ \A i \in 1..n : p[i] <= Sigma(p, 1..n)
  BY <1>1, SumOfNats, LedgerNames
<1>3. /\ DOMAIN w = 1..n /\ \A i \in 1..n : w[i] \in Nat
      /\ Sigma(w, 1..n) > 0
      /\ \A i, j \in 1..n : p[i] = 0 /\ p[j] > 0 => w[i] = 0
  <2>1. CASE Sigma(p, 1..n) > 0
    <3>1. w = p
      BY <1>2, <2>1 DEF LE!Weights
    <3> QED BY <2>1, <3>1
  <2>2. CASE ~ (Sigma(p, 1..n) > 0)
    <3>1. w = [i \in 1..n |-> 1]
      BY <1>2, <2>2 DEF LE!Weights
    <3> HIDE DEF w
    <3>2. DOMAIN w = 1..n /\ \A i \in 1..n : w[i] = 1 /\ w[i] \in Nat
      BY <3>1
    <3>3. Sigma(w, 1..n) \in Nat /\ w[1] <= Sigma(w, 1..n)
      BY <1>1, <3>2, SumOfNats
    <3>4. \A j \in 1..n : ~ (p[j] > 0)
      BY <1>2, <2>2
    <3> QED BY <1>1, <3>2, <3>3, <3>4
  <2> QED BY <2>1, <2>2
<1> HIDE DEF w
<1>4. LE!Total(w) = Sigma(w, 1..n)
  BY <1>3, LedgerNames
<1>5. cents = WholeParts(total, w, n)
  BY <1>3, <1>4 DEF WholeParts
<1>6. LE!Total(cents) = Sigma(WholeParts(total, w, n), 1..n)
  <2>1. DOMAIN cents = 1..n
    BY <1>3
  <2> HIDE DEF cents
  <2> QED BY <1>5, <2>1, LedgerNames
<1>7. \A i \in 1..n : fraction(i) = Fraction(total, w, n)[i]
  BY <1>4 DEF Fraction
<1>8. \A S : S \in SUBSET DOMAIN w /\ Fits(S) <=> RoundUp(total, w, n, S)
  <2> HIDE DEF cents, fraction
  <2> QED BY <1>3, <1>6, <1>7, LedgerNames DEF RoundUp
<1>9. RoundUp(total, w, n, up)
  <2> HIDE DEF Fits
  <2>1. \E U : RoundUp(total, w, n, U)
    BY <1>3, RoundUpIs
  <2>2. \E U \in SUBSET DOMAIN w : Fits(U)
    BY <1>8, <2>1
  <2>3. up \in SUBSET DOMAIN w /\ Fits(up)
    BY <2>2
  <2> QED BY <1>8, <2>3
<1>10. s = [i \in DOMAIN w |-> cents[i] + IF i \in up THEN 1 ELSE 0]
  BY DEF LE!SplitFees, w
<1> HIDE DEF up, cents
<1>11. DOMAIN s = 1..n /\ \A i \in 1..n : s[i] = WholeParts(total, w, n)[i] + IF i \in up THEN 1 ELSE 0
  BY <1>3, <1>5, <1>10
<1> HIDE DEF s
<1>12. Sigma(s, 1..n) = total /\ \A i \in 1..n : s[i] \in 0..total /\ (w[i] = 0 => s[i] = 0)
  BY <1>3, <1>9, <1>11, SplitAddsUp
<1> QED BY <1>3, <1>11, <1>12 DEF s

LEMMA NextIdIs ==
  ASSUME LedgerInv
  PROVE  LE!NextId \in Nat /\ LE!NextId >= 1 /\ \A t \in DOMAIN s1 : t < LE!NextId
<1> DEFINE S == (DOMAIN s1) \cup {0}
<1>1. IsFiniteSet(DOMAIN s1) /\ DOMAIN s1 \in SUBSET Nat /\ LE!Rows = DOMAIN s1
  BY RowsAre
<1>2. IsFiniteSet(S) /\ S \in SUBSET Nat /\ S # {}
  BY <1>1, FS_AddElement
<1>3. \A t \in DOMAIN s1 : t \in S
  OBVIOUS
<1>4. LE!NextId = 1 + Max(S)
  BY <1>1, LedgerNames DEF LE!NextId
<1> HIDE DEF S
<1> DEFINE m == Max(S)
<1>5. m \in Nat /\ \A t \in S : t <= m
  BY <1>2, GreatestNatural
<1> HIDE DEF m
<1>6. LE!NextId = 1 + m
  BY <1>4 DEF m
<1> QED BY <1>1, <1>3, <1>5, <1>6

\* A new order has no rows yet.
LEMMA NextOrderIs ==
  ASSUME LedgerInv
  PROVE  LE!NextOrder \in Nat /\ LE!NextOrder >= 1 /\ \A t \in DOMAIN s1 : s1[t].order < LE!NextOrder
<1> DEFINE T == {s1[t].order : t \in DOMAIN s1}
           S == T \cup {0}
<1>1. IsFiniteSet(DOMAIN s1) /\ LE!Rows = DOMAIN s1 /\ \A t \in DOMAIN s1 : s1[t].order \in Nat
  BY RowsAre
<1> DEFINE f == [t \in DOMAIN s1 |-> s1[t].order]
<1>2. T = {f[t] : t \in DOMAIN s1}
  OBVIOUS
<1>3. IsFiniteSet({f[t] : t \in DOMAIN s1})
  <2> HIDE DEF f
  <2> QED BY <1>1, ImageIsFinite
<1>4. IsFiniteSet(S) /\ S \in SUBSET Nat /\ S # {} /\ \A t \in DOMAIN s1 : s1[t].order \in S
  <2>1. IsFiniteSet(T)
    BY <1>2, <1>3
  <2>2. T \in SUBSET Nat /\ \A t \in DOMAIN s1 : s1[t].order \in T
    BY <1>1
  <2> HIDE DEF T
  <2> QED BY <2>1, <2>2, FS_AddElement
<1>5. LE!NextOrder = 1 + Max(S)
  BY <1>1, LedgerNames DEF LE!NextOrder, LE!NoOrder
<1> HIDE DEF S
<1> DEFINE m == Max(S)
<1>6. m \in Nat /\ \A x \in S : x <= m
  BY <1>4, GreatestNatural
<1> HIDE DEF m
<1>7. LE!NextOrder = 1 + m
  BY <1>5 DEF m
<1> QED BY <1>1, <1>4, <1>6, <1>7

LEMMA AtLeastZero ==
  ASSUME NEW x \in Int
  PROVE  Max({0, x}) \in Nat /\ Max({0, x}) = IF x > 0 THEN x ELSE 0
<1>1. \E y \in {0, x} : \A z \in {0, x} : y >= z
  <2>1. CASE x > 0
    <3>1. x >= 0 /\ x >= x
      BY <2>1
    <3> QED BY <3>1
  <2>2. CASE ~ (x > 0)
    <3>1. 0 >= x /\ 0 >= 0
      BY <2>2
    <3> QED BY <3>1
  <2> QED BY <2>1, <2>2
<1> DEFINE m == Max({0, x})
<1>2. m \in {0, x} /\ \A z \in {0, x} : m >= z
  BY <1>1 DEF Max
<1> HIDE DEF m
<1>3. m \in Nat /\ m = IF x > 0 THEN x ELSE 0
  BY <1>2
<1> QED BY <1>3 DEF m

\* A row as the forms make it
LEMMA FormRow ==
  ASSUME NEW b \in Bounds, NEW c \in LedgerCards, NEW kind \in LE!Kinds, NEW day \in RowDays, NEW order \in 0..LedgerOrders,
         NEW price \in RowPrices, NEW fee \in 0..Max(b.fees), NEW ship \in b.ships \cup {0},
         NEW r, r = LE!Row(c, kind, day, order, price, fee, ship)
  PROVE  /\ r \in LedgerRow(b) /\ (r.kind = "ripped" => r.price = 0)
         /\ r.card = c /\ r.kind = kind /\ r.day = day /\ r.order = order /\ r.fee = fee /\ r.ship = ship
         /\ r.price = IF kind = "ripped" THEN 0 ELSE price
<1> DEFINE p == IF kind = "ripped" THEN 0 ELSE price
<1>1. p \in RowPrices /\ (kind = "ripped" => p = 0)
  BY LedgerAssumption
<1>2. r = [card |-> c, kind |-> kind, day |-> day, order |-> order, price |-> p, fee |-> fee, ship |-> ship]
  BY DEF LE!Row
<1> HIDE DEF p
<1>3. r \in LedgerRow(b)
  BY <1>1, <1>2 DEF LedgerRow
<1>4. /\ r.card = c /\ r.kind = kind /\ r.day = day /\ r.order = order /\ r.fee = fee /\ r.ship = ship
      /\ r.price = p
  BY <1>2
<1>5. r.kind = "ripped" => r.price = 0
  BY <1>1, <1>4
<1>6. r.price = IF kind = "ripped" THEN 0 ELSE price
  BY <1>4 DEF p
<1> QED BY ONLY <1>3, <1>4, <1>5, <1>6

\* Shipping set on a row
LEMMA ShippedIs ==
  ASSUME NEW b \in Bounds, NEW r \in LedgerRow(b), NEW ship \in b.ships
  PROVE  LET q == [r EXCEPT !.ship = ship]
         IN  /\ q \in LedgerRow(b) /\ q.ship = ship
             /\ q.card = r.card /\ q.kind = r.kind /\ q.day = r.day /\ q.order = r.order /\ q.price = r.price /\ q.fee = r.fee
<1> DEFINE q == [r EXCEPT !.ship = ship]
<1>1. DOMAIN r = {"card", "kind", "day", "order", "price", "fee", "ship"}
  BY DEF LedgerRow
<1>2. /\ r.card \in LedgerCards /\ r.kind \in LE!Kinds /\ r.day \in RowDays /\ r.order \in 0..LedgerOrders
      /\ r.price \in RowPrices /\ r.fee \in 0..Max(b.fees)
  BY DEF LedgerRow
<1>3. q = [card |-> r.card, kind |-> r.kind, day |-> r.day, order |-> r.order, price |-> r.price, fee |-> r.fee, ship |-> ship]
  BY <1>1
<1> HIDE DEF q
<1>4. q \in LedgerRow(b)
  BY <1>2, <1>3 DEF LedgerRow
<1> QED BY <1>3, <1>4 DEF q

Rowed(r) == r \in LedgerRow(s4) /\ (r.kind = "ripped" => r.price = 0)

LEMMA RowsChange ==
  ASSUME LedgerInv, UNCHANGED <<s2, s4>>, s3' \in Nat,
         NEW D, D \in SUBSET (1..s4.rows), s1' = [t \in D |-> s1'[t]], \A t \in D : Rowed(s1'[t])
  PROVE  LedgerInv'
<1>1. \A t \in D : s1'[t] \in LedgerRow(s4) /\ (s1'[t].kind = "ripped" => s1'[t].price = 0)
  BY DEF Rowed
<1>2. s1' \in [D -> LedgerRow(s4)] /\ DOMAIN s1' = D
  BY <1>1
<1> QED BY <1>1, <1>2 DEF LedgerInv, LedgerRow

LEMMA LinesAre ==
  ASSUME NEW n \in Nat, NEW cart \in LE!Baskets(n), NEW i \in 1..n
  PROVE  /\ DOMAIN cart = 1..n /\ Len(cart) = n
         /\ cart[i].card \in LedgerCards /\ cart[i].kind \in LE!Kinds /\ cart[i].price \in RowPrices /\ cart[i].price \in Nat
<1>1. cart \in [1..n -> LE!Lines]
  BY DEF LE!Baskets
<1>2. cart[i] \in LE!Lines
  BY <1>1
<1>3. cart[i] \in [card : LedgerCards, kind : LE!Kinds, price : RowPrices]
  BY <1>2 DEF LE!Lines
<1>4. cart[i].card \in LedgerCards /\ cart[i].kind \in LE!Kinds /\ cart[i].price \in RowPrices
  BY <1>3
<1> QED BY <1>1, <1>4, LedgerAssumption

\* The rows of a new order: one for each line, each with its part of the fees.
NewIds(n) == LE!NextId..(LE!NextId + n - 1)
FeeOf(cart, fees) == IF cart[1].kind \in LE!CASH THEN fees ELSE 0
PricesOf(cart) == [i \in DOMAIN cart |-> cart[i].price]
SplitOf(cart, fees) == LE!SplitFees(FeeOf(cart, fees), PricesOf(cart))
Registered(n, cart, day, fees, ship) ==
  /\ n \in Nat /\ n >= 1 /\ FeeOf(cart, fees) \in Nat /\ FeeOf(cart, fees) \in 0..Max(s4.fees)
  /\ DOMAIN PricesOf(cart) = 1..n
  /\ \A i \in 1..n : PricesOf(cart)[i] \in Nat /\ PricesOf(cart)[i] = cart[i].price
  /\ LE!NextOrder \in 1..LedgerOrders /\ NewIds(n) \in SUBSET (1..s4.rows) /\ NewIds(n) \cap DOMAIN s1 = {}
  /\ s1' = [t \in DOMAIN s1 \cup NewIds(n) |-> s1'[t]]
  /\ \A t \in DOMAIN s1 : s1'[t] = s1[t]
  /\ \A t \in NewIds(n) :
       LET i == t - LE!NextId + 1
       IN  /\ i \in 1..n
           /\ s1'[t] = LE!Row(cart[i].card, cart[i].kind, day, LE!NextOrder, cart[i].price, SplitOf(cart, fees)[i], ship)

LEMMA NewRows ==
  ASSUME LedgerInv, NEW n \in 1..(s4.rows - LE!NextId + 1), NEW cart \in LE!Baskets(n), NEW day \in RowDays,
         NEW fees \in s4.fees, NEW ship \in s4.ships, LE!Register(cart, day, fees, ship)
  PROVE  Registered(n, cart, day, fees, ship)
<1> DEFINE new == NewIds(n)
           total == FeeOf(cart, fees)
           p == PricesOf(cart)
           split == SplitOf(cart, fees)
           id == LE!NextId
<1>1. id \in Nat /\ id >= 1 /\ \A t \in DOMAIN s1 : t < id
  BY NextIdIs
<1>2. s4.rows \in Nat /\ fees \in 0..Max(s4.fees) /\ Max(s4.fees) \in Nat
  BY BoundsAre DEF LedgerInv
<1>3. LE!Rows = DOMAIN s1 /\ DOMAIN s1 \in SUBSET Int
  BY RowsAre
<1> HIDE DEF id
<1>4. n \in Nat /\ n >= 1
  BY <1>1, <1>2 DEF id
<1>5. Len(cart) = n /\ DOMAIN cart = 1..n /\ \A i \in 1..n : cart[i].price \in Nat
  BY <1>4, LinesAre
<1>6. /\ LE!NextOrder \in LE!Orders /\ id + n - 1 <= s4.rows
      /\ s1' = [t \in DOMAIN s1 \cup new |-> IF t \in DOMAIN s1 THEN s1[t]
                  ELSE LE!Row(cart[t - id + 1].card, cart[t - id + 1].kind, day, LE!NextOrder, cart[t - id + 1].price, split[t - id + 1], ship)]
  BY <1>3, <1>5 DEF LE!Register, id, NewIds, SplitOf, FeeOf, PricesOf
<1>7. LE!NextOrder \in 1..LedgerOrders
  BY <1>6 DEF LE!Orders
<1>8. total \in 0..Max(s4.fees) /\ total \in Nat
  BY <1>2 DEF FeeOf
<1>9. DOMAIN p = 1..n /\ \A i \in 1..n : p[i] \in Nat /\ p[i] = cart[i].price
  BY <1>5 DEF PricesOf
<1>10. new \in SUBSET (1..s4.rows) /\ new \cap DOMAIN s1 = {} /\ \A t \in new : t - id + 1 \in 1..n
  <2>1. \A t \in new : t \in Int /\ id <= t /\ t <= id + n - 1
    BY <1>1, <1>4 DEF id, NewIds
  <2> HIDE DEF new
  <2> QED BY <1>1, <1>2, <1>3, <1>4, <1>6, <2>1
<1> HIDE DEF new, split
<1>11. ASSUME NEW t \in new
       PROVE  s1'[t] = LE!Row(cart[t - id + 1].card, cart[t - id + 1].kind, day, LE!NextOrder, cart[t - id + 1].price, split[t - id + 1], ship)
  <2>1. t \notin DOMAIN s1 /\ t \in DOMAIN s1 \cup new
    BY <1>10
  <2> QED BY <1>6, <2>1
<1>12. s1' = [t \in DOMAIN s1 \cup new |-> s1'[t]] /\ \A t \in DOMAIN s1 : s1'[t] = s1[t]
  BY <1>6
<1> QED BY <1>4, <1>7, <1>8, <1>9, <1>10, <1>11, <1>12 DEF new, split, id, Registered

LEMMA RegisterStep ==
  ASSUME LedgerInv, NEW n \in 1..(s4.rows - LE!NextId + 1), NEW cart \in LE!Baskets(n), NEW day \in RowDays,
         NEW fees \in s4.fees, NEW ship \in s4.ships, LE!Register(cart, day, fees, ship)
  PROVE  LedgerInv'
<1> DEFINE new == NewIds(n)
           total == FeeOf(cart, fees)
           p == PricesOf(cart)
           split == SplitOf(cart, fees)
<1>0. Registered(n, cart, day, fees, ship)
  BY NewRows
<1>1. /\ n \in Nat /\ n >= 1 /\ total \in Nat /\ total \in 0..Max(s4.fees)
      /\ DOMAIN p = 1..n /\ \A i \in 1..n : p[i] \in Nat
      /\ LE!NextOrder \in 1..LedgerOrders /\ new \in SUBSET (1..s4.rows)
      /\ s1' = [t \in DOMAIN s1 \cup new |-> s1'[t]]
      /\ \A t \in DOMAIN s1 : s1'[t] = s1[t]
      /\ \A t \in new : LET i == t - LE!NextId + 1
                        IN  /\ i \in 1..n
                            /\ s1'[t] = LE!Row(cart[i].card, cart[i].kind, day, LE!NextOrder, cart[i].price, split[i], ship)
  BY <1>0 DEF Registered
<1>2. \A i \in 1..n : split[i] \in 0..total
  <2> HIDE DEF total, p
  <2> QED BY <1>1, FeesAreSplit DEF SplitOf, total, p
<1>3. \A i \in 1..n : split[i] \in 0..Max(s4.fees)
  <2>1. Max(s4.fees) \in Nat
    BY BoundsAre DEF LedgerInv
  <2> HIDE DEF total, split
  <2> DEFINE m == Max(s4.fees)
  <2>2. m \in Nat /\ total \in 0..m
    BY <1>1, <2>1
  <2> HIDE DEF m
  <2>3. \A i \in 1..n : split[i] \in 0..m
    BY <1>2, <2>2
  <2> QED BY <2>3 DEF m
<1>4. UNCHANGED <<s2, s3, s4>>
  BY DEF LE!Register
<1> HIDE DEF new, split, total, p
<1>5. ASSUME NEW t \in DOMAIN s1 \cup new PROVE Rowed(s1'[t])
  <2>1. CASE t \in DOMAIN s1
    BY <1>1, <2>1, RowsAre DEF LedgerInv, Rowed
  <2>2. CASE t \in new
    <3> DEFINE i == t - LE!NextId + 1
    <3>1. i \in 1..n /\ s1'[t] = LE!Row(cart[i].card, cart[i].kind, day, LE!NextOrder, cart[i].price, split[i], ship)
      BY <1>1, <2>2
    <3> HIDE DEF i
    <3>2. /\ cart[i].card \in LedgerCards /\ cart[i].kind \in LE!Kinds /\ cart[i].price \in RowPrices
      BY <1>1, <3>1, LinesAre
    <3>3. s4 \in Bounds /\ LE!NextOrder \in 0..LedgerOrders /\ split[i] \in 0..Max(s4.fees) /\ ship \in s4.ships \cup {0}
      BY <1>1, <1>3, <3>1 DEF LedgerInv
    <3> QED BY <3>1, <3>2, <3>3, FormRow DEF Rowed
  <2> QED BY <2>1, <2>2
<1>6. DOMAIN s1 \cup new \in SUBSET (1..s4.rows)
  BY <1>1 DEF LedgerInv
<1>7. s3' \in Nat
  BY <1>4 DEF LedgerInv
<1> QED BY <1>1, <1>4, <1>5, <1>6, <1>7, RowsChange

LEMMA AddExistingStep ==
  ASSUME LedgerInv, NEW c \in LedgerCards, NEW o \in LE!Orders, NEW day \in RowDays, LE!AddExisting(c, o, day)
  PROVE  LedgerInv'
<1> DEFINE id == LE!NextId
           new == LE!Row(c, "purchase", day, o, 0, 0, 0)
           D == DOMAIN s1 \cup {id}
<1>1. id \in Nat /\ id >= 1 /\ LE!Rows = DOMAIN s1
  BY NextIdIs, RowsAre
<1>2. id <= s4.rows /\ UNCHANGED <<s2, s3, s4>> /\ s1' = [t \in D |-> IF t \in DOMAIN s1 THEN s1[t] ELSE new]
  BY <1>1 DEF LE!AddExisting
<1>3. s4 \in Bounds /\ s3' \in Nat /\ DOMAIN s1 \in SUBSET (1..s4.rows)
  BY <1>2 DEF LedgerInv
<1>4. D \in SUBSET (1..s4.rows)
  <2> HIDE DEF id
  <2>1. s4.rows \in Nat
    BY <1>3, BoundsAre
  <2>2. id \in 1..s4.rows
    BY <1>1, <1>2, <2>1
  <2> QED BY <1>3, <2>2
<1> HIDE DEF id
<1>5. Rowed(new)
  <2>1. o \in 0..LedgerOrders /\ 0 \in RowPrices /\ "purchase" \in LE!Kinds
    BY LedgerAssumption DEF LE!Orders, LE!Kinds
  <2> HIDE DEF new
  <2> DEFINE m == Max(s4.fees)
  <2>2. m \in Nat
    BY <1>3, BoundsAre
  <2> HIDE DEF m
  <2>3. 0 \in 0..m
    BY <2>2
  <2>4. 0 \in 0..Max(s4.fees) /\ 0 \in s4.ships \cup {0}
    BY <2>3 DEF m
  <2> QED BY <1>3, <2>1, <2>4, FormRow DEF Rowed, new
<1> HIDE DEF new
<1>6. ASSUME NEW t \in D PROVE Rowed(s1'[t])
  BY <1>2, <1>5, RowsAre DEF LedgerInv, Rowed
<1>7. s1' = [t \in D |-> s1'[t]]
  BY <1>2
<1> HIDE DEF D
<1> QED BY <1>2, <1>3, <1>4, <1>6, <1>7, RowsChange

\* The rows of an order with its shipping set
LEMMA Reshipped ==
  ASSUME LedgerInv, NEW t \in DOMAIN s1, NEW ship \in s4.ships
  PROVE  LET q == [s1[t] EXCEPT !.ship = ship]
         IN  /\ Rowed(q) /\ q.ship = ship /\ q.card = s1[t].card /\ q.kind = s1[t].kind /\ q.day = s1[t].day
             /\ q.order = s1[t].order /\ q.price = s1[t].price /\ q.fee = s1[t].fee
<1> DEFINE r == s1[t]
           q == [r EXCEPT !.ship = ship]
<1>1. r \in LedgerRow(s4) /\ (r.kind = "ripped" => r.price = 0) /\ s4 \in Bounds
  BY RowsAre DEF LedgerInv
<1> HIDE DEF r
<1>2. /\ q \in LedgerRow(s4) /\ q.ship = ship
      /\ q.card = r.card /\ q.kind = r.kind /\ q.day = r.day /\ q.order = r.order /\ q.price = r.price /\ q.fee = r.fee
  BY <1>1, ShippedIs
<1> HIDE DEF q
<1>3. Rowed(q)
  BY <1>1, <1>2 DEF Rowed
<1> QED BY <1>2, <1>3 DEF q, r

LEMMA UpdatePurchaseStep ==
  ASSUME LedgerInv, NEW r \in DOMAIN s1, NEW kind \in LE!Kinds, NEW day \in RowDays, NEW price \in RowPrices,
         NEW order \in 0..LedgerOrders, NEW ship \in s4.ships, LE!UpdatePurchase(r, kind, day, price, order, ship)
  PROVE  LedgerInv'
<1> DEFINE to == IF order = s1[r].order THEN ship ELSE 0
           new == LE!Row(s1[r].card, kind, day, order, price, s1[r].fee, to)
           D == DOMAIN s1
<1>1. LE!Rows = D /\ s4 \in Bounds /\ D \in SUBSET (1..s4.rows) /\ s3 \in Nat
  BY RowsAre DEF LedgerInv
<1>2. /\ s1' = [t \in D |-> IF t = r THEN new
                  ELSE IF s1[t].order = s1[r].order THEN [s1[t] EXCEPT !.ship = ship] ELSE s1[t]]
      /\ s3' = s3 + 1 /\ UNCHANGED <<s2, s4>>
  BY <1>1 DEF LE!UpdatePurchase, LE!Edit
<1>3. Rowed(new)
  <2>1. s1[r].card \in LedgerCards /\ s1[r].fee \in 0..Max(s4.fees) /\ to \in s4.ships \cup {0}
    BY RowsAre
  <2> HIDE DEF to
  <2> QED BY <1>1, <2>1, FormRow DEF Rowed
<1> HIDE DEF new
<1>4. ASSUME NEW t \in D PROVE Rowed(s1'[t])
  <2> DEFINE q == [s1[t] EXCEPT !.ship = ship]
  <2>1. Rowed(q) /\ Rowed(s1[t])
    BY Reshipped, RowsAre DEF LedgerInv, Rowed
  <2>2. s1'[t] = IF t = r THEN new ELSE IF s1[t].order = s1[r].order THEN q ELSE s1[t]
    BY <1>2
  <2> HIDE DEF q
  <2> QED BY <1>3, <2>1, <2>2
<1>5. s1' = [t \in D |-> s1'[t]]
  BY <1>2
<1>6. s3' \in Nat
  BY <1>1, <1>2
<1> HIDE DEF D
<1> QED BY <1>1, <1>2, <1>4, <1>5, <1>6, RowsChange

LEMMA DeleteRowStep ==
  ASSUME LedgerInv, NEW r \in DOMAIN s1, NEW ship \in s4.ships, LE!DeleteRow(r, ship)
  PROVE  LedgerInv'
<1> DEFINE D == DOMAIN s1 \ {r}
<1>1. LE!Rows = DOMAIN s1 /\ D \in SUBSET (1..s4.rows) /\ s3 \in Nat
  BY RowsAre DEF LedgerInv
<1>2. /\ s1' = [t \in D |-> IF s1[t].order = s1[r].order THEN [s1[t] EXCEPT !.ship = ship] ELSE s1[t]]
      /\ s3' = s3 + 1 /\ UNCHANGED <<s2, s4>>
  BY <1>1 DEF LE!DeleteRow, LE!Edit
<1>3. ASSUME NEW t \in D PROVE Rowed(s1'[t])
  <2> DEFINE q == [s1[t] EXCEPT !.ship = ship]
  <2>1. Rowed(q) /\ Rowed(s1[t])
    BY Reshipped, RowsAre DEF LedgerInv, Rowed
  <2>2. s1'[t] = IF s1[t].order = s1[r].order THEN q ELSE s1[t]
    BY <1>2
  <2> HIDE DEF q
  <2> QED BY <2>1, <2>2
<1>4. s1' = [t \in D |-> s1'[t]] /\ s3' \in Nat
  BY <1>1, <1>2
<1> HIDE DEF D
<1> QED BY <1>1, <1>2, <1>3, <1>4, RowsChange

LEMMA SetShippingStep ==
  ASSUME LedgerInv, NEW o \in LE!Orders, NEW ship \in s4.ships, LE!SetShipping(o, ship)
  PROVE  LedgerInv'
<1> DEFINE D == DOMAIN s1
<1>1. LE!Rows = D /\ D \in SUBSET (1..s4.rows) /\ s3 \in Nat
  BY RowsAre DEF LedgerInv
<1>2. /\ s1' = [t \in D |-> IF s1[t].order = o THEN [s1[t] EXCEPT !.ship = ship] ELSE s1[t]]
      /\ s3' = s3 + 1 /\ UNCHANGED <<s2, s4>>
  BY <1>1 DEF LE!SetShipping, LE!Edit
<1>3. ASSUME NEW t \in D PROVE Rowed(s1'[t])
  <2> DEFINE q == [s1[t] EXCEPT !.ship = ship]
  <2>1. Rowed(q) /\ Rowed(s1[t])
    BY Reshipped, RowsAre DEF LedgerInv, Rowed
  <2>2. s1'[t] = IF s1[t].order = o THEN q ELSE s1[t]
    BY <1>2
  <2> HIDE DEF q
  <2> QED BY <2>1, <2>2
<1>4. s1' = [t \in D |-> s1'[t]] /\ s3' \in Nat
  BY <1>1, <1>2
<1> HIDE DEF D
<1> QED BY <1>1, <1>2, <1>3, <1>4, RowsChange

LEMMA UpdateTransactionStep ==
  ASSUME LedgerInv, NEW r \in DOMAIN s1, NEW kind \in LE!Kinds, NEW day \in RowDays, NEW price \in RowPrices,
         NEW order \in 0..LedgerOrders, NEW fee \in s4.fees, LE!UpdateTransaction(r, kind, day, price, fee, order)
  PROVE  LedgerInv'
<1> DEFINE new == LE!Row(s1[r].card, kind, day, order, price, fee, s1[r].ship)
           D == DOMAIN s1
<1>1. s4 \in Bounds /\ D \in SUBSET (1..s4.rows) /\ s3 \in Nat
  BY DEF LedgerInv
<1>2. s1' = [s1 EXCEPT ![r] = new] /\ s3' = s3 + 1 /\ UNCHANGED <<s2, s4>>
  BY DEF LE!UpdateTransaction, LE!Edit
<1>3. Rowed(new)
  <2>1. s1[r].card \in LedgerCards /\ s1[r].ship \in s4.ships \cup {0}
    BY RowsAre
  <2>2. fee \in 0..Max(s4.fees)
    BY <1>1, BoundsAre
  <2> QED BY <1>1, <2>1, <2>2, FormRow DEF Rowed
<1> HIDE DEF new
<1>4. s1' = [t \in D |-> s1'[t]] /\ \A t \in D : s1'[t] = IF t = r THEN new ELSE s1[t]
  BY <1>2 DEF LedgerInv
<1>5. ASSUME NEW t \in D PROVE Rowed(s1'[t])
  BY <1>3, <1>4, RowsAre DEF LedgerInv, Rowed
<1>6. s3' \in Nat
  BY <1>1, <1>2
<1> HIDE DEF D
<1> QED BY <1>1, <1>2, <1>4, <1>5, <1>6, RowsChange

LEMMA QuantitiesStep ==
  ASSUME LedgerInv, LE!Sync
  PROVE  LedgerInv'
<1>1. s2' = [c \in LedgerCards |-> LE!Max({0, LE!Copies(c)})] /\ UNCHANGED <<s1, s3, s4>>
  BY DEF LE!Sync
<1>2. ASSUME NEW c \in LedgerCards PROVE LE!Max({0, LE!Copies(c)}) \in 0..(Untracked[c] + s4.rows)
  <2> DEFINE a == Cardinality(LE!Acquired(c))
             d == Cardinality(LE!Disposed(c))
             u == Untracked[c]
             x == u + a - d
  <2>1. LE!Max({0, LE!Copies(c)}) = Max({0, x})
    BY LedgerNames DEF LE!Copies
  <2>2. LE!Acquired(c) \in SUBSET DOMAIN s1 /\ LE!Disposed(c) \in SUBSET DOMAIN s1
    BY RowsAre DEF LE!Acquired, LE!Disposed
  <2>3. /\ a \in Nat /\ d \in Nat /\ a <= s4.rows /\ s4.rows \in Nat
    <3>1. IsFiniteSet(DOMAIN s1) /\ Cardinality(DOMAIN s1) \in Nat /\ Cardinality(DOMAIN s1) <= s4.rows
      BY RowsAre
    <3>2. s4.rows \in Nat
      BY BoundsAre DEF LedgerInv
    <3>3. a \in Nat /\ d \in Nat /\ a <= Cardinality(DOMAIN s1)
      BY <2>2, <3>1, FS_Subset, FS_CardinalityType
    <3> HIDE DEF a, d
    <3> DEFINE m == Cardinality(DOMAIN s1)
    <3> HIDE DEF m
    <3>4. m \in Nat /\ m <= s4.rows /\ a <= m
      BY <3>1, <3>3 DEF m
    <3> QED BY <3>2, <3>3, <3>4
  <2>4. u \in Nat
    BY LedgerAssumption
  <2> HIDE DEF a, d, u
  <2>5. x \in Int /\ x <= u + s4.rows
    BY <2>3, <2>4
  <2> HIDE DEF x
  <2>6. Max({0, x}) \in Nat /\ Max({0, x}) = IF x > 0 THEN x ELSE 0
    BY <2>5, AtLeastZero
  <2> DEFINE m == Max({0, x})
  <2> HIDE DEF m
  <2>7. m \in Nat /\ m = IF x > 0 THEN x ELSE 0
    BY <2>6 DEF m
  <2>8. m \in 0..(u + s4.rows)
    BY <2>3, <2>4, <2>5, <2>7
  <2> QED BY <2>1, <2>8 DEF m, u
<1>3. DOMAIN s2' = LedgerCards /\ \A c \in LedgerCards : s2'[c] \in 0..(Untracked[c] + s4.rows)
  BY <1>1, <1>2
<1> QED BY <1>1, <1>3 DEF LedgerInv, LedgerRow

LEMMA LedgerStep == ASSUME LedgerInv, LE!Next PROVE LedgerInv'
<1>0. LE!Rows = DOMAIN s1 /\ LE!Orders \cup {LE!NoOrder} = 0..LedgerOrders
  BY RowsAre, LedgerAssumption DEF LE!Orders, LE!NoOrder
<1>1. ASSUME NEW n \in 1..(s4.rows - LE!NextId + 1), NEW cart \in LE!Baskets(n), NEW day \in RowDays,
             NEW fees \in s4.fees, NEW ship \in s4.ships, LE!Register(cart, day, fees, ship)
      PROVE  LedgerInv'
  BY <1>1, RegisterStep
<1>2. ASSUME NEW c \in LedgerCards, NEW o \in LE!Orders, NEW day \in RowDays, LE!AddExisting(c, o, day)
      PROVE  LedgerInv'
  BY <1>2, AddExistingStep
<1>3. ASSUME NEW r \in LE!Rows, LE!EditRow(r)
      PROVE  LedgerInv'
  <2>1. PICK kind \in KindsOf[s1[r].card], day \in RowDays, price \in RowPrices, order \in LE!Orders \cup {LE!NoOrder} :
          \/ \E ship \in s4.ships : LE!UpdatePurchase(r, kind, day, price, order, ship)
          \/ \E fee \in s4.fees : LE!UpdateTransaction(r, kind, day, price, fee, order)
    BY <1>3 DEF LE!EditRow
  <2>2. kind \in LE!Kinds
    BY <1>0, RowsAre, LedgerAssumption
  <2> QED BY <1>0, <2>1, <2>2, UpdatePurchaseStep, UpdateTransactionStep
<1>4. ASSUME NEW r \in LE!Rows, NEW ship \in s4.ships, LE!DeleteRow(r, ship)
      PROVE  LedgerInv'
  BY <1>0, <1>4, DeleteRowStep
<1>5. ASSUME NEW o \in LE!Orders, NEW ship \in s4.ships, LE!SetShipping(o, ship)
      PROVE  LedgerInv'
  BY <1>5, SetShippingStep
<1>6. ASSUME LE!Sync PROVE LedgerInv'
  BY <1>6, QuantitiesStep
<1> QED BY <1>1, <1>2, <1>3, <1>4, <1>5, <1>6 DEF LE!Next

LEMMA LedgerStutter == ASSUME LedgerInv, UNCHANGED <<s1, s2, s3, s4>> PROVE LedgerInv'
BY DEF LedgerInv, LedgerRow

\* Every part's variables keep their types, for any cards, jobs, prices, rates, days,
\* collections, folders and rows.
THEOREM DailyTypes == DailySpec => []DailyTypeOK
<1> DEFINE I == /\ part = "dex sync" => TypeOK
                /\ part = "jobs" => JobsInv
                /\ part = "small jobs" => SmallInv
                /\ part = "prices" => PricesInv
                /\ part = "rates" => RatesInv
                /\ part = "history" => HistoryInv
                /\ part = "collections" => CollectionsInv
                /\ part = "folders" => FoldersInv
                /\ part = "ledger" => LedgerInv
<1>1. DailyInit => I
  BY TypeInit, JobsBegin, SmallBegin, PricesBegin, RatesBegin, HistoryBegin, CollectionsBegin, FoldersBegin, LedgerBegin
  DEF DailyInit, Inv
<1>2. I /\ [DailyNext]_dailyvars => I'
  <2> SUFFICES ASSUME I, [DailyNext]_dailyvars PROVE I'
    OBVIOUS
  <2>1. part' = part
    BY DEF DailyNext, dailyvars
  <2>2. ASSUME part = "dex sync" PROVE TypeOK'
    <3>1. [Next]_vars
      BY <2>2 DEF DailyNext, OtherPart, dailyvars
    <3> QED BY <2>2, <3>1, TypeNext
  <2>3. ASSUME part = "jobs" PROVE JobsInv'
    <3>1. JO!Next \/ UNCHANGED <<s1, s2, s3, s4, s5, s6, s7, s8>>
      BY <2>3 DEF DailyNext, OtherPart, dailyvars
    <3>2. ASSUME UNCHANGED <<s1, s2, s3, s4, s5, s6, s7, s8>> PROVE JobsInv'
      BY <2>3, <3>2 DEF JobsInv, JobsTyped, JobRun, JobLogged, ReadIsSo, JO!Known
    <3> QED BY <2>3, <3>1, <3>2, JobsStep
  <2>4. ASSUME part = "small jobs" PROVE SmallInv'
    <3>1. SJ!Next \/ UNCHANGED <<s1, s2, s3, s4, s5, s6, s7, s8>>
      BY <2>4 DEF DailyNext, OtherPart, dailyvars
    <3> QED BY <2>4, <3>1, SmallStep, SmallStutter
  <2>5. ASSUME part = "prices" PROVE PricesInv'
    <3>1. PR!Next \/ UNCHANGED <<s1, s2, s3, s4, s5, s6>>
      BY <2>5 DEF DailyNext, OtherPart, dailyvars
    <3> QED BY <2>5, <3>1, PricesStep, PricesStutter
  <2>6. ASSUME part = "rates" PROVE RatesInv'
    <3>1. XR!Next \/ UNCHANGED <<s1, s2, s3, s4>>
      BY <2>6 DEF DailyNext, OtherPart, dailyvars
    <3>2. ASSUME UNCHANGED <<s1, s2, s3, s4>> PROVE RatesInv'
      BY <2>6, <3>2 DEF RatesInv, Observed, Expires
    <3> QED BY <2>6, <3>1, <3>2, RatesStep
  <2>7. ASSUME part = "history" PROVE HistoryInv'
    <3>1. HI!Next \/ UNCHANGED <<s1, s2, s3, s4>>
      BY <2>7 DEF DailyNext, OtherPart, dailyvars
    <3> QED BY <2>7, <3>1, HistoryStep, HistoryStutter
  <2>8. ASSUME part = "collections" PROVE CollectionsInv'
    <3>1. CO!Next \/ UNCHANGED s1
      BY <2>8 DEF DailyNext, OtherPart, dailyvars
    <3> QED BY <2>8, <3>1, CollectionsStep, CollectionsStutter
  <2>9. ASSUME part = "folders" PROVE FoldersInv'
    <3>1. PF!Next \/ UNCHANGED <<s1, s2, s3, s4>>
      BY <2>9 DEF DailyNext, OtherPart, dailyvars
    <3> QED BY <2>9, <3>1, FoldersStep, FoldersStutter
  <2>10. ASSUME part = "ledger" PROVE LedgerInv'
    <3>1. LE!Next \/ UNCHANGED <<s1, s2, s3, s4>>
      BY <2>10 DEF DailyNext, OtherPart, dailyvars
    <3> QED BY <2>10, <3>1, LedgerStep, LedgerStutter
  <2> QED BY <2>1, <2>2, <2>3, <2>4, <2>5, <2>6, <2>7, <2>8, <2>9, <2>10
<1>3. I => DailyTypeOK
  <2>1. JobsInv => JO!TypeOK
    BY JobsTypes DEF JobsInv
  <2>2. PricesInv => PR!TypeOK
    BY DEF PricesInv
  <2> QED BY <2>1, <2>2, SmallTyped, RatesTyped, HistoryTyped, CollectionsTyped, FoldersTyped, LedgerTyped DEF DailyTypeOK
<1> QED BY <1>1, <1>2, <1>3, PTL DEF DailySpec

LEMMA RippedLines ==
  ASSUME NEW n \in Nat, NEW cart \in LE!Baskets(n), NEW i \in 1..n, cart[i].kind = "ripped"
  PROVE  cart[i].price = 0
<1>1. cart \in [1..n -> LE!Lines]
  BY DEF LE!Baskets
<1>2. cart[i] \in LE!Lines
  BY <1>1
<1> QED BY <1>2 DEF LE!Lines

\* What is asked of the fees of an order's new rows
FeesFit(new) ==
  /\ new # {} => LE!Total([t \in new |-> s1'[t].fee]) \in s4.fees \cup {0}
  /\ (\E t \in new : s1'[t].price > 0) => \A t \in new : s1'[t].price = 0 => s1'[t].fee = 0

\* The order's rows are the new ones, and their fees are the parts of the fee.
LEMMA RegisterFees ==
  ASSUME LedgerInv, NEW n \in 1..(s4.rows - LE!NextId + 1), NEW cart \in LE!Baskets(n), NEW day \in RowDays,
         NEW fees \in s4.fees, NEW ship \in s4.ships, LE!Register(cart, day, fees, ship),
         NEW o, LE!RowsOf(o) = {},
         NEW new, new = {t \in DOMAIN s1' : s1'[t].order = o}
  PROVE  FeesFit(new)
<1> DEFINE N == NewIds(n)
           total == FeeOf(cart, fees)
           p == PricesOf(cart)
           split == SplitOf(cart, fees)
           id == LE!NextId
<1>0. Registered(n, cart, day, fees, ship)
  BY NewRows
<1>1. /\ n \in Nat /\ n >= 1 /\ total \in Nat
      /\ DOMAIN p = 1..n /\ \A i \in 1..n : p[i] \in Nat /\ p[i] = cart[i].price
      /\ s1' = [t \in DOMAIN s1 \cup N |-> s1'[t]]
      /\ \A t \in DOMAIN s1 : s1'[t] = s1[t]
      /\ N \in SUBSET (1..s4.rows) /\ LE!NextOrder \in 1..LedgerOrders
  BY <1>0 DEF Registered
<1>2. ASSUME NEW t \in N
      PROVE  LET i == t - id + 1
             IN  /\ i \in 1..n /\ s1'[t].order = LE!NextOrder /\ s1'[t].fee = split[i] /\ s1'[t].price = p[i]
  <2> DEFINE i == t - id + 1
  <2>1. i \in 1..n /\ s1'[t] = LE!Row(cart[i].card, cart[i].kind, day, LE!NextOrder, cart[i].price, split[i], ship)
    BY <1>0 DEF Registered
  <2> HIDE DEF i, split, p
  <2>2. /\ s1'[t].order = LE!NextOrder /\ s1'[t].fee = split[i]
        /\ s1'[t].price = IF cart[i].kind = "ripped" THEN 0 ELSE cart[i].price
    BY <2>1 DEF LE!Row
  <2>3. cart[i].kind = "ripped" => cart[i].price = 0
    BY <1>1, <2>1, RippedLines
  <2> QED BY <1>1, <2>1, <2>2, <2>3 DEF i
<1>3. /\ Sigma(split, 1..n) = total
      /\ \A i \in 1..n : split[i] \in 0..total
      /\ \A i, j \in 1..n : p[i] = 0 /\ p[j] > 0 => split[i] = 0
  <2> HIDE DEF total, p
  <2> QED BY <1>1, FeesAreSplit DEF SplitOf, total, p
<1>4. total \in s4.fees \cup {0}
  BY DEF FeeOf
<1>5. id \in Nat /\ \A t \in DOMAIN s1 : ~ (s1[t].order = o)
  BY NextIdIs, RowsAre DEF LE!RowsOf
<1>6. \A t \in N : t \in Int /\ id <= t /\ t <= id + n - 1
  BY <1>1, <1>5 DEF NewIds
<1>7. \A i \in 1..n : id + i - 1 \in N /\ (id + i - 1) - id + 1 = i
  BY <1>1, <1>5 DEF NewIds
<1> HIDE DEF N, total, p, split, id
<1>8. CASE o # LE!NextOrder
  <2>1. \A t \in DOMAIN s1 \cup N : s1'[t].order # o
    BY <1>1, <1>2, <1>5, <1>8
  <2>2. new = {}
    BY <1>1, <2>1
  <2> QED BY <2>2 DEF FeesFit
<1>9. CASE o = LE!NextOrder
  <2>1. new = N
    <3>1. \A t \in DOMAIN s1 : s1'[t].order # o
      BY <1>1, <1>5
    <3>2. \A t \in N : s1'[t].order = o
      BY <1>2, <1>9
    <3>3. DOMAIN s1' = DOMAIN s1 \cup N
      BY <1>1
    <3> QED BY <3>1, <3>2, <3>3
  <2> DEFINE f == [t \in new |-> s1'[t].fee]
             c == [t \in new |-> t - id + 1]
  <2>2. DOMAIN f = new /\ LE!Total(f) = Sigma(f, new)
    <3>1. DOMAIN f = new
      OBVIOUS
    <3> HIDE DEF f
    <3> QED BY <3>1, LedgerNames
  <2>3. \A t \in new : c[t] \in 1..n /\ f[t] \in Int /\ split[c[t]] = f[t] /\ c[t] = t - id + 1
    <3> SUFFICES ASSUME NEW t \in new
                 PROVE  c[t] \in 1..n /\ f[t] \in Int /\ split[c[t]] = f[t] /\ c[t] = t - id + 1
      OBVIOUS
    <3>1. c[t] = t - id + 1 /\ f[t] = s1'[t].fee
      OBVIOUS
    <3>2. t - id + 1 \in 1..n /\ s1'[t].fee = split[t - id + 1]
      BY <1>2, <2>1
    <3>3. split[t - id + 1] \in Int
      BY <1>1, <1>3, <3>2
    <3> QED BY <3>1, <3>2, <3>3
  <2> HIDE DEF f, c
  <2>4. \A t, u \in new : c[t] = c[u] => t = u
    BY <1>5, <1>6, <2>1, <2>3
  <2>5. \A i \in 1..n : \E t \in new : c[t] = i
    BY <1>7, <2>1, <2>3
  <2>6. IsFiniteSet(new) /\ IsFiniteSet(1..n)
    <3>1. s4.rows \in Int /\ n \in Int /\ 1 \in Int
      BY <1>1, BoundsAre DEF LedgerInv
    <3>2. IsFiniteSet(1..s4.rows) /\ IsFiniteSet(1..n)
      BY <3>1, FS_Interval
    <3> QED BY <1>1, <2>1, <3>2, FS_Subset
  <2>7. Sigma(split, 1..n) = Sigma(f, new)
    <3>1. \A t \in new : c[t] \in 1..n /\ f[t] \in Int /\ split[c[t]] = f[t]
      BY <2>3
    <3> DEFINE I == 1..n
    <3>2. /\ \A t \in new : c[t] \in I /\ f[t] \in Int /\ split[c[t]] = f[t]
          /\ \A i \in I : \E t \in new : c[t] = i
          /\ IsFiniteSet(I)
      BY <2>5, <2>6, <3>1
    <3> HIDE DEF I
    <3>3. Sigma(split, I) = Sigma(f, new)
      BY ONLY <2>4, <2>6, <3>2, SumRenamed
    <3> QED BY <3>3 DEF I
  <2>8. LE!Total(f) \in s4.fees \cup {0}
    BY <1>3, <1>4, <2>2, <2>7
  <2>9. ASSUME NEW u \in new, s1'[u].price > 0, NEW t \in new, s1'[t].price = 0
        PROVE  s1'[t].fee = 0
    <3>1. u - id + 1 \in 1..n /\ p[u - id + 1] > 0 /\ t - id + 1 \in 1..n /\ p[t - id + 1] = 0
      BY <1>2, <2>1, <2>9
    <3>2. split[t - id + 1] = 0
      BY <1>3, <3>1
    <3> QED BY <1>2, <2>1, <3>2
  <2> QED BY <2>8, <2>9 DEF f, FeesFit
<1> QED BY <1>8, <1>9

LEMMA FeesStep == ASSUME LedgerInv, LE!Next PROVE LE!FeesAddUp
<1> SUFFICES ASSUME NEW o \in LE!Orders, LE!RowsOf(o) = {}, s3' = s3
             PROVE  LET new == {t \in DOMAIN s1' : s1'[t].order = o}
                    IN  /\ new # {} => LE!Total([t \in new |-> s1'[t].fee]) \in s4.fees \cup {0}
                        /\ (\E t \in new : s1'[t].price > 0) => \A t \in new : s1'[t].price = 0 => s1'[t].fee = 0
  BY DEF LE!FeesAddUp
<1> DEFINE new == {t \in DOMAIN s1' : s1'[t].order = o}
<1> SUFFICES FeesFit(new)
  BY DEF FeesFit
<1>a. new = {t \in DOMAIN s1' : s1'[t].order = o}
  OBVIOUS
<1> HIDE DEF new
<1>0. LE!Rows = DOMAIN s1 /\ s3 \in Nat /\ \A t \in DOMAIN s1 : s1[t].order # o
  BY RowsAre DEF LedgerInv, LE!RowsOf
<1>1. ASSUME NEW n \in 1..(s4.rows - LE!NextId + 1), NEW cart \in LE!Baskets(n), NEW day \in RowDays,
             NEW fees \in s4.fees, NEW ship \in s4.ships, LE!Register(cart, day, fees, ship)
      PROVE  FeesFit(new)
  BY <1>a, <1>1, RegisterFees
<1>2. ASSUME NEW c \in LedgerCards, NEW q \in LE!Orders, NEW day \in RowDays, LE!AddExisting(c, q, day)
      PROVE  new = {}
  <2>1. /\ LE!RowsOf(q) # {}
        /\ s1' = [t \in DOMAIN s1 \cup {LE!NextId} |-> IF t \in DOMAIN s1 THEN s1[t] ELSE LE!Row(c, "purchase", day, q, 0, 0, 0)]
    BY <1>0, <1>2 DEF LE!AddExisting
  <2>2. q # o /\ LE!Row(c, "purchase", day, q, 0, 0, 0).order = q
    BY <2>1 DEF LE!Row
  <2> QED BY <1>a, <1>0, <2>1, <2>2
<1>3. ASSUME LE!Edit PROVE FALSE
  BY <1>0, <1>3 DEF LE!Edit
<1>4. ASSUME NEW r, LE!EditRow(r) PROVE FALSE
  BY <1>3, <1>4 DEF LE!EditRow, LE!UpdatePurchase, LE!UpdateTransaction
<1>5. ASSUME NEW r, NEW ship, LE!DeleteRow(r, ship) PROVE FALSE
  BY <1>3, <1>5 DEF LE!DeleteRow
<1>6. ASSUME NEW q, NEW ship, LE!SetShipping(q, ship) PROVE FALSE
  BY <1>3, <1>6 DEF LE!SetShipping
<1>7. ASSUME LE!Sync PROVE new = {}
  BY <1>a, <1>0, <1>7 DEF LE!Sync
<1>8. LE!Next =>
        \/ \E n \in 1..(s4.rows - LE!NextId + 1) : \E cart \in LE!Baskets(n) :
             \E day \in RowDays, fees \in s4.fees, ship \in s4.ships : LE!Register(cart, day, fees, ship)
        \/ new = {}
  BY <1>2, <1>4, <1>5, <1>6, <1>7 DEF LE!Next
<1>9. CASE new = {}
  BY <1>9 DEF FeesFit
<1> QED BY <1>1, <1>8, <1>9

LEMMA FeesStutter == ASSUME LedgerInv, UNCHANGED <<s1, s2, s3, s4>> PROVE LE!FeesAddUp
<1>1. LE!Rows = DOMAIN s1
  BY RowsAre
<1> QED BY <1>1 DEF LE!FeesAddUp, LE!RowsOf

\* The rows, oldest first
ByAge == {p \in (DOMAIN s1) \X (DOMAIN s1) : LE!Earlier(p[1], p[2])}

LEMMA AgeOrders ==
  ASSUME LedgerInv
  PROVE  /\ \A t, u \in DOMAIN s1 : <<t, u>> \in ByAge <=> LE!Earlier(t, u)
         /\ \A S \in SUBSET DOMAIN s1 : StrictOrder(ByAge, S) /\ IsFiniteSet(S)
<1>1. \A t, u \in DOMAIN s1 : <<t, u>> \in ByAge <=> LE!Earlier(t, u)
  BY DEF ByAge
<1>2. IsFiniteSet(DOMAIN s1) /\ \A t \in DOMAIN s1 : t \in Int /\ s1[t].day \in Int
  BY RowsAre
<1>3. ASSUME NEW S \in SUBSET DOMAIN s1 PROVE StrictOrder(ByAge, S) /\ IsFiniteSet(S)
  <2>1. \A t, u \in S : <<t, u>> \in ByAge <=> s1[t].day < s1[u].day \/ (s1[t].day = s1[u].day /\ t < u)
    BY <1>1 DEF LE!Earlier
  <2>2. \A t \in S : t \in Int /\ s1[t].day \in Int
    BY <1>2
  <2>3. StrictOrder(ByAge, S)
    <3>1. \A x \in S : <<x, x>> \notin ByAge
      BY <2>1, <2>2
    <3>2. \A x, y \in S : x # y => <<x, y>> \in ByAge \/ <<y, x>> \in ByAge
      BY <2>1, <2>2
    <3>3. \A x, y, z \in S : <<x, y>> \in ByAge /\ <<y, z>> \in ByAge => <<x, z>> \in ByAge
      <4> SUFFICES ASSUME NEW x \in S, NEW y \in S, NEW z \in S, <<x, y>> \in ByAge, <<y, z>> \in ByAge
                   PROVE  <<x, z>> \in ByAge
        OBVIOUS
      <4>1. s1[x].day < s1[y].day \/ (s1[x].day = s1[y].day /\ x < y)
        BY <2>1
      <4>2. s1[y].day < s1[z].day \/ (s1[y].day = s1[z].day /\ y < z)
        BY <2>1
      <4>3. s1[x].day < s1[z].day \/ (s1[x].day = s1[z].day /\ x < z)
        BY <2>2, <4>1, <4>2
      <4> QED BY <2>1, <4>3
    <3> QED BY <3>1, <3>2, <3>3 DEF StrictOrder
  <2> QED BY <1>2, <2>3, FS_Subset
<1> QED BY <1>1, <1>3

LEMMA OldestFirstIs ==
  ASSUME LedgerInv, NEW S, S \in SUBSET DOMAIN s1
  PROVE  LE!OldestFirst(S) = Ordered(ByAge, S)
<1> DEFINE n == Cardinality(S)
           P(t) == Place(ByAge, S, t)
           f == LE!OldestFirst(S)
           g == Ordered(ByAge, S)
<1>1. /\ n \in Nat
      /\ \A t, u \in S : P(t) = P(u) => t = u
      /\ \A k \in 0..(n - 1) : \E t \in S : P(t) = k
  <2>1. StrictOrder(ByAge, S) /\ IsFiniteSet(S)
    BY AgeOrders
  <2> QED BY <2>1, PlacesAre
<1>2. ASSUME NEW t \in S PROVE LE!Cardinality({u \in S : LE!Earlier(u, t)}) = P(t)
  <2>1. {u \in S : LE!Earlier(u, t)} = {u \in S : <<u, t>> \in ByAge}
    BY AgeOrders
  <2> QED BY <2>1, LedgerNames DEF Place
<1>3. f = [i \in 1..n |-> CHOOSE t \in S : LE!Cardinality({u \in S : LE!Earlier(u, t)}) = i - 1]
  BY LedgerNames DEF LE!OldestFirst
<1>4. g = [i \in 1..n |-> CHOOSE t \in S : P(t) = i - 1]
  BY DEF Ordered
<1> HIDE DEF P, n, f, g
<1>5. ASSUME NEW i \in 1..n PROVE f[i] = g[i]
  <2>1. i - 1 \in 0..(n - 1)
    BY <1>1
  <2>2. PICK t \in S : P(t) = i - 1
    BY <1>1, <2>1
  <2>3. g[i] \in S /\ P(g[i]) = i - 1
    <3>1. g[i] = CHOOSE u \in S : P(u) = i - 1
      BY <1>4
    <3> QED BY <2>2, <3>1
  <2>4. f[i] \in S /\ P(f[i]) = i - 1
    <3>1. f[i] = CHOOSE u \in S : LE!Cardinality({v \in S : LE!Earlier(v, u)}) = i - 1
      BY <1>3
    <3>2. \E u \in S : LE!Cardinality({v \in S : LE!Earlier(v, u)}) = i - 1
      BY <1>2, <2>2
    <3>3. f[i] \in S /\ LE!Cardinality({v \in S : LE!Earlier(v, f[i])}) = i - 1
      BY <3>1, <3>2
    <3> QED BY <1>2, <3>3
  <2> QED BY <1>1, <2>3, <2>4
<1>6. f = g
  BY <1>3, <1>4, <1>5
<1> QED BY <1>6 DEF f, g

\* The rows that share an order's shipping
Pool(t) == {u \in DOMAIN s1 : s1[u].order = s1[t].order /\ s1[u].kind \in LE!CASH}
Charged(t) == {u \in Pool(t) : s1[u].ship # 0}
PoolSum(t) == Sigma([u \in Pool(t) |-> s1[u].price], Pool(t))
ShareOf(ship, t) == IF PoolSum(t) > 0 THEN (ship * s1[t].price) \div PoolSum(t) ELSE ship \div Cardinality(Pool(t))

\* The rows whose shipping may be taken, as q lists them
Ships(t, q) == Kept(Kept(q, Pool(t)), {u \in DOMAIN s1 : s1[u].ship # 0})

\* A row's share is the same in any list of the rows, but for the row whose shipping
\* is taken.
LEMMA ShareIs ==
  ASSUME LedgerInv, NEW q, Enumerates(q, DOMAIN s1), NEW t \in DOMAIN s1
  PROVE  /\ s1[t].kind \notin LE!CASH => LE!Share(t, q) = 0
         /\ s1[t].kind \in LE!CASH /\ s1[t].order = 0 => LE!Share(t, q) = s1[t].ship
         /\ s1[t].kind \in LE!CASH /\ s1[t].order # 0 /\ Charged(t) = {} => LE!Share(t, q) = 0
         /\ s1[t].kind \in LE!CASH /\ s1[t].order # 0 /\ Charged(t) # {} =>
              \E h \in Charged(t) : h = Head(Ships(t, q)) /\ LE!Share(t, q) = ShareOf(s1[h].ship, t)
<1> DEFINE D == DOMAIN s1
           rows == LE!Kept(q, {u \in LE!RowsOf(s1[t].order) : s1[u].kind \in LE!CASH})
           Sh == {u \in D : s1[u].ship # 0}
           ships == LE!Kept(rows, {u \in LE!Rows : s1[u].ship # 0})
           sum == LE!Total([u \in LE!Range(rows) |-> s1[u].price])
<1>1. LE!Rows = D /\ IsFiniteSet(D)
  BY RowsAre
<1>2. {u \in LE!RowsOf(s1[t].order) : s1[u].kind \in LE!CASH} = Pool(t)
  BY <1>1 DEF LE!RowsOf, Pool
<1>3. rows = Kept(q, Pool(t)) /\ Pool(t) \in SUBSET D /\ IsFiniteSet(Pool(t))
  <2>1. Pool(t) \in SUBSET D
    BY DEF Pool
  <2> QED BY <1>1, <1>2, <2>1, LedgerNames, FS_Subset
<1> HIDE DEF rows
<1>4. Enumerates(rows, Pool(t))
  <2>1. D \cap Pool(t) = Pool(t)
    BY <1>3
  <2> QED BY <1>3, <2>1, KeptLists
<1>5. ships = Kept(rows, Sh) /\ Charged(t) = Pool(t) \cap Sh
  BY <1>1, <1>3, LedgerNames DEF Charged
<1>14. ships = Ships(t, q)
  BY <1>3, <1>5 DEF Ships, Sh, D
<1> HIDE DEF ships, Sh, D
<1>6. Enumerates(ships, Charged(t)) /\ IsFiniteSet(Charged(t))
  BY <1>3, <1>4, <1>5, KeptLists, FS_Subset
<1>7. /\ Len(rows) = Cardinality(Pool(t)) /\ DOMAIN rows = 1..Len(rows) /\ {rows[i] : i \in 1..Len(rows)} = Pool(t)
      /\ ships = <<>> <=> Charged(t) = {}
      /\ Charged(t) # {} => Head(ships) \in Charged(t)
  BY <1>3, <1>4, <1>6, ListIs
<1>8. LE!Range(rows) = Pool(t)
  BY <1>7 DEF LE!Range
<1>9. sum = PoolSum(t)
  <2> DEFINE f == [u \in Pool(t) |-> s1[u].price]
  <2>1. DOMAIN f = Pool(t) /\ sum = LE!Total(f)
    BY <1>8
  <2> HIDE DEF f
  <2>2. LE!Total(f) = Sigma(f, Pool(t))
    BY <2>1, LedgerNames
  <2> QED BY <2>1, <2>2 DEF PoolSum, f
<1> HIDE DEF sum
<1>10. LE!Share(t, q) = IF s1[t].kind \notin LE!CASH THEN 0
                        ELSE IF s1[t].order = LE!NoOrder THEN s1[t].ship
                        ELSE IF ships = <<>> THEN 0
                        ELSE IF sum > 0 THEN (s1[Head(ships)].ship * s1[t].price) \div sum
                        ELSE s1[Head(ships)].ship \div Len(rows)
  BY DEF LE!Share, rows, ships, sum
<1>11. LE!NoOrder = 0
  BY DEF LE!NoOrder
<1>12. ASSUME s1[t].kind \in LE!CASH, s1[t].order # 0, Charged(t) # {}
       PROVE  LE!Share(t, q) = ShareOf(s1[Head(ships)].ship, t)
  BY <1>7, <1>9, <1>10, <1>11, <1>12 DEF ShareOf
<1>13. /\ s1[t].kind \notin LE!CASH => LE!Share(t, q) = 0
       /\ s1[t].kind \in LE!CASH /\ s1[t].order = 0 => LE!Share(t, q) = s1[t].ship
       /\ s1[t].kind \in LE!CASH /\ s1[t].order # 0 /\ Charged(t) = {} => LE!Share(t, q) = 0
  BY <1>7, <1>10, <1>11
<1> QED BY <1>7, <1>12, <1>13, <1>14

LEMMA ShareNat ==
  ASSUME LedgerInv, NEW q, Enumerates(q, DOMAIN s1), NEW t \in DOMAIN s1
  PROVE  LE!Share(t, q) \in Nat
<1>1. s1[t].ship \in Nat /\ s1[t].price \in Nat
  BY RowsAre
<1>2. ASSUME NEW h \in Charged(t) PROVE ShareOf(s1[h].ship, t) \in Nat
  <2> DEFINE P == Pool(t)
             f == [u \in P |-> s1[u].price]
             a == s1[h].ship
             b == s1[t].price
             n == Cardinality(P)
             s == PoolSum(t)
  <2>1. h \in P /\ P \in SUBSET DOMAIN s1
    BY DEF Charged, Pool
  <2>2. IsFiniteSet(DOMAIN s1) /\ a \in Nat /\ b \in Nat /\ \A u \in P : s1[u].price \in Nat
    BY <1>1, <2>1, RowsAre
  <2>3. \A u \in P : f[u] \in Nat
    BY <2>2
  <2>4. s = Sigma(f, P)
    BY DEF PoolSum
  <2> HIDE DEF P, f, s
  <2>5. IsFiniteSet(P)
    BY <2>1, <2>2, FS_Subset
  <2>6. s \in Nat
    BY <2>3, <2>4, <2>5, SumOfNats
  <2>7. n \in Nat /\ n # 0
    BY <2>1, <2>5, FS_CardinalityType, FS_EmptySet
  <2> HIDE DEF n, a, b
  <2>8. CASE s > 0
    <3> DEFINE ab == a * b
    <3>1. ab \in Nat
      BY <2>2
    <3> HIDE DEF ab
    <3>2. ab \div s \in Nat
      BY <2>6, <2>8, <3>1, Divided
    <3> QED BY <2>8, <3>2 DEF ShareOf, ab, a, b, s
  <2>9. CASE ~ (s > 0)
    <3>1. a \div n \in Nat
      BY <2>2, <2>7, Divided
    <3> QED BY <2>9, <3>1 DEF ShareOf, a, n, s, P
  <2> QED BY <2>8, <2>9
<1> QED BY <1>1, <1>2, ShareIs

\* The order of the rows changes nothing, while an order's rows agree on its shipping.
LEMMA SharesAgree ==
  ASSUME LedgerInv, LE!Agree, NEW q, Enumerates(q, DOMAIN s1), NEW r, Enumerates(r, DOMAIN s1), NEW t \in DOMAIN s1
  PROVE  LE!Share(t, q) = LE!Share(t, r)
<1>1. ASSUME NEW h \in Charged(t), NEW k \in Charged(t) PROVE s1[h].ship = s1[k].ship
  <2>1. /\ h \in DOMAIN s1 /\ k \in DOMAIN s1 /\ s1[h].order = s1[k].order
        /\ s1[h].ship # 0 /\ s1[k].ship # 0
    BY DEF Charged, Pool
  <2> QED BY <2>1, RowsAre DEF LE!Agree
<1>2. CASE s1[t].kind \in LE!CASH /\ s1[t].order # 0 /\ Charged(t) # {}
  <2>1. PICK h \in Charged(t) : LE!Share(t, q) = ShareOf(s1[h].ship, t)
    BY <1>2, ShareIs
  <2>2. PICK k \in Charged(t) : LE!Share(t, r) = ShareOf(s1[k].ship, t)
    BY <1>2, ShareIs
  <2> QED BY <1>1, <2>1, <2>2
<1>3. CASE ~ (s1[t].kind \in LE!CASH /\ s1[t].order # 0 /\ Charged(t) # {})
  BY <1>3, ShareIs
<1> QED BY <1>2, <1>3

LEMMA IdsList == ASSUME LedgerInv PROVE Enumerates(LE!Ids, DOMAIN s1)
<1>1. LE!Rows = DOMAIN s1 /\ IsFiniteSet(DOMAIN s1) /\ DOMAIN s1 \in SUBSET Int
  BY RowsAre
<1>2. LE!Ids = [k \in 1..Cardinality(DOMAIN s1) |-> Nth(DOMAIN s1, k)]
  BY <1>1, LedgerNames DEF LE!Ids
<1> QED BY <1>1, <1>2, ByNumber

LEMMA NewestList == ASSUME LedgerInv PROVE Enumerates(LE!NewestFirst, DOMAIN s1)
<1> DEFINE D == DOMAIN s1
           q == Ordered(ByAge, D)
<1>1. LE!Rows = D
  BY RowsAre
<1>2. D \in SUBSET DOMAIN s1
  OBVIOUS
<1>3. LE!OldestFirst(D) = q
  BY <1>2, OldestFirstIs
<1>4. LE!NewestFirst = [k \in 1..Cardinality(D) |-> q[Cardinality(D) + 1 - k]]
  BY <1>1, <1>3, LedgerNames DEF LE!NewestFirst
<1>5. StrictOrder(ByAge, D) /\ IsFiniteSet(D)
  BY <1>2, AgeOrders
<1> HIDE DEF D
<1>6. Enumerates(q, D) /\ Len(q) = Cardinality(D)
  BY <1>5, OrderedIs
<1> HIDE DEF q
<1>7. LE!NewestFirst = [k \in 1..Len(q) |-> q[Len(q) + 1 - k]]
  BY <1>4, <1>6
<1>8. Enumerates(LE!NewestFirst, D)
  BY <1>6, <1>7, BackwardsLists
<1> QED BY <1>8 DEF D

LEMMA SameProceeds == ASSUME LedgerInv PROVE LE!SameOnEveryPage
<1> SUFFICES ASSUME LE!Agree, NEW t \in DOMAIN s1
             PROVE  LE!NetProceeds(t, LE!NewestFirst) = LE!NetProceeds(t, LE!Ids)
  BY RowsAre DEF LE!SameOnEveryPage
<1>1. LE!Share(t, LE!NewestFirst) = LE!Share(t, LE!Ids)
  BY IdsList, NewestList, SharesAgree
<1> QED BY <1>1 DEF LE!NetProceeds

\* What each row adds to net invested
Nets == [t \in DOMAIN s1 |-> LE!NetInvested(t, LE!Ids)]
Bought(S) == {t \in S : s1[t].kind = "purchase"}
SoldOf(S) == {t \in S : s1[t].kind = "sale"}

LEMMA NetsAre ==
  ASSUME LedgerInv
  PROVE  /\ IsFiniteSet(DOMAIN s1)
         /\ \A t \in DOMAIN s1 :
              /\ Nets[t] = LE!NetInvested(t, LE!Ids) /\ Nets[t] \in Int
              /\ s1[t].kind = "sale" => Nets[t] = -LE!NetProceeds(t, LE!Ids) /\ LE!NetProceeds(t, LE!Ids) \in Int
              /\ s1[t].kind \notin LE!CASH => Nets[t] = 0
<1>1. IsFiniteSet(DOMAIN s1)
  BY RowsAre
<1>2. ASSUME NEW t \in DOMAIN s1
      PROVE  /\ Nets[t] = LE!NetInvested(t, LE!Ids) /\ Nets[t] \in Int
             /\ s1[t].kind = "sale" => Nets[t] = -LE!NetProceeds(t, LE!Ids) /\ LE!NetProceeds(t, LE!Ids) \in Int
             /\ s1[t].kind \notin LE!CASH => Nets[t] = 0
  <2>1. LE!Share(t, LE!Ids) \in Nat /\ s1[t].price \in Nat /\ s1[t].fee \in Nat
    BY IdsList, ShareNat, RowsAre
  <2>2. Nets[t] = LE!NetInvested(t, LE!Ids)
    BY DEF Nets
  <2>3. LE!NetProceeds(t, LE!Ids) \in Int
    BY <2>1 DEF LE!NetProceeds
  <2> DEFINE net == LE!NetInvested(t, LE!Ids)
             got == LE!NetProceeds(t, LE!Ids)
             kind == s1[t].kind
  <2>4. /\ kind = "purchase" => net = s1[t].price + s1[t].fee + LE!Share(t, LE!Ids)
        /\ kind = "sale" => net = -got
        /\ kind # "purchase" /\ kind # "sale" => net = 0
    BY DEF LE!NetInvested
  <2>5. kind \notin LE!CASH => kind # "purchase" /\ kind # "sale"
    BY DEF LE!CASH
  <2> HIDE DEF net, got, kind
  <2>6. net \in Int
    BY <2>1, <2>3, <2>4 DEF got
  <2> QED BY <2>2, <2>3, <2>4, <2>5, <2>6 DEF net, got, kind
<1> QED BY <1>1, <1>2

\* A total over rows of what Nets has of them
LEMMA NetTotal ==
  ASSUME LedgerInv, NEW S, S \in SUBSET DOMAIN s1
  PROVE  LE!Total([t \in S |-> LE!NetInvested(t, LE!Ids)]) = Sigma(Nets, S) /\ Sigma(Nets, S) \in Int /\ IsFiniteSet(S)
<1> DEFINE f == [t \in S |-> LE!NetInvested(t, LE!Ids)]
<1>1. IsFiniteSet(S) /\ \A t \in S : Nets[t] \in Int /\ Nets[t] = LE!NetInvested(t, LE!Ids)
  BY NetsAre, FS_Subset
<1>2. DOMAIN f = S /\ \A t \in S : f[t] \in Int /\ f[t] = Nets[t]
  BY <1>1
<1> HIDE DEF f
<1>3. LE!Total(f) = Sigma(f, S)
  BY <1>2, LedgerNames
<1>4. Sigma(f, S) = Sigma(Nets, S)
  BY <1>1, <1>2, SumAgrees
<1> QED BY <1>1, <1>3, <1>4, SumOfInts DEF f

\* What was bought less what sales brought in
LEMMA BoughtLessSold ==
  ASSUME LedgerInv, NEW S, S \in SUBSET DOMAIN s1
  PROVE  /\ LE!Total([t \in Bought(S) |-> LE!NetInvested(t, LE!Ids)])
            - LE!Total([t \in SoldOf(S) |-> LE!NetProceeds(t, LE!Ids)]) = Sigma(Nets, S)
         /\ Sigma(Nets, Bought(S)) + Sigma(Nets, SoldOf(S)) = Sigma(Nets, S)
<1> DEFINE B == Bought(S)
           O == SoldOf(S)
           X == S \ (B \cup O)
           f == [t \in O |-> LE!NetProceeds(t, LE!Ids)]
<1>1. B \in SUBSET DOMAIN s1 /\ O \in SUBSET DOMAIN s1 /\ X \in SUBSET DOMAIN s1
  BY DEF Bought, SoldOf
<1>2. B \cap O = {} /\ X \cap (B \cup O) = {} /\ S = X \cup (B \cup O)
  BY DEF Bought, SoldOf
<1>3. \A t \in O : s1[t].kind = "sale"
  BY DEF SoldOf
<1>4. \A t \in X : s1[t].kind \notin LE!CASH
  BY DEF Bought, SoldOf, LE!CASH
<1> HIDE DEF X, B, O
<1>5. LE!Total([t \in B |-> LE!NetInvested(t, LE!Ids)]) = Sigma(Nets, B)
  BY <1>1, NetTotal
<1>6. IsFiniteSet(B) /\ IsFiniteSet(O) /\ IsFiniteSet(X) /\ Sigma(Nets, B) \in Int /\ Sigma(Nets, O) \in Int
  BY <1>1, NetTotal
<1>7. LE!Total(f) = -Sigma(Nets, O)
  <2>1. \A t \in O : Nets[t] \in Int /\ Nets[t] = -LE!NetProceeds(t, LE!Ids) /\ LE!NetProceeds(t, LE!Ids) \in Int
    BY <1>1, <1>3, NetsAre
  <2>2. DOMAIN f = O /\ \A t \in O : f[t] = LE!NetProceeds(t, LE!Ids)
    OBVIOUS
  <2> HIDE DEF f
  <2>3. LE!Total(f) = Sigma(f, O)
    BY <2>2, LedgerNames
  <2>4. \A t \in O : Nets[t] \in Int /\ f[t] = (-1) * Nets[t]
    BY <2>1, <2>2
  <2>5. Sigma(f, O) = (-1) * Sigma(Nets, O)
    BY <1>6, <2>4, SumScaled
  <2> QED BY <1>6, <2>3, <2>5
<1> HIDE DEF f
<1>8. Sigma(Nets, X) = 0
  <2>1. \A t \in X : Nets[t] = 0
    BY <1>1, <1>4, NetsAre
  <2> QED BY <1>6, <2>1, SumOfZeros
<1>9. Sigma(Nets, S) = Sigma(Nets, B) + Sigma(Nets, O)
  <2>1. \A t \in X \cup (B \cup O) : Nets[t] \in Int
    BY <1>1, NetsAre
  <2>2. Sigma(Nets, B \cup O) = Sigma(Nets, B) + Sigma(Nets, O)
    BY <1>2, <1>6, <2>1, SumOfBoth
  <2>3. IsFiniteSet(B \cup O)
    BY <1>6, FS_Union
  <2>4. Sigma(Nets, X \cup (B \cup O)) = Sigma(Nets, X) + Sigma(Nets, B \cup O)
    BY <1>2, <1>6, <2>1, <2>3, SumOfBoth
  <2> QED BY <1>2, <1>6, <1>8, <2>2, <2>4
<1>10. LE!Total([t \in B |-> LE!NetInvested(t, LE!Ids)]) - LE!Total(f) = Sigma(Nets, S)
  BY <1>5, <1>6, <1>7, <1>9
<1> QED BY <1>9, <1>10 DEF B, O, f

LEMMA InvestedIs == ASSUME LedgerInv PROVE LE!Invested = Sigma(Nets, DOMAIN s1)
<1> DEFINE D == DOMAIN s1
<1>1. LE!Rows = D /\ D \in SUBSET DOMAIN s1
  BY RowsAre
<1>2. /\ LE!TotalBought = LE!Total([t \in Bought(D) |-> LE!NetInvested(t, LE!Ids)])
      /\ LE!TotalSold = LE!Total([t \in SoldOf(D) |-> LE!NetProceeds(t, LE!Ids)])
  BY <1>1 DEF LE!TotalBought, LE!TotalSold, Bought, SoldOf
<1> HIDE DEF D
<1>3. LE!Invested = Sigma(Nets, D)
  BY <1>1, <1>2, BoughtLessSold DEF LE!Invested
<1> QED BY <1>3 DEF D

LEMMA ByCardIs == ASSUME LedgerInv PROVE LE!Total([c \in LedgerCards |-> LE!NetInvestedByCard(c)]) = Sigma(Nets, DOMAIN s1)
<1> DEFINE D == DOMAIN s1
           of == [t \in D |-> s1[t].card]
           f == [c \in LedgerCards |-> LE!NetInvestedByCard(c)]
           g == ByClass(Nets, D, of, LedgerCards)
<1>1. LE!Rows = D /\ IsFiniteSet(D) /\ IsFiniteSet(LedgerCards)
  BY RowsAre, LedgerAssumption
<1>2. \A t \in D : of[t] = s1[t].card /\ of[t] \in LedgerCards /\ Nets[t] \in Int
  BY RowsAre, NetsAre
<1>3. ASSUME NEW c \in LedgerCards PROVE f[c] = g[c] /\ f[c] \in Int
  <2> DEFINE S == {t \in D : s1[t].card = c}
  <2>1. S \in SUBSET DOMAIN s1 /\ S = {t \in D : of[t] = c}
    BY <1>2
  <2>2. f[c] = LE!Total([t \in S |-> LE!NetInvested(t, LE!Ids)])
    BY <1>1 DEF LE!NetInvestedByCard
  <2>3. g[c] = Sigma(Nets, {t \in D : of[t] = c})
    BY DEF ByClass
  <2> HIDE DEF S, f, g
  <2> QED BY <2>1, <2>2, <2>3, NetTotal
<1>4. DOMAIN f = LedgerCards
  OBVIOUS
<1> HIDE DEF D, f, g, of
<1>5. LE!Total(f) = Sigma(f, LedgerCards)
  BY <1>4, LedgerNames
<1>6. Sigma(f, LedgerCards) = Sigma(g, LedgerCards)
  BY <1>1, <1>3, SumAgrees
<1>7. Sigma(g, LedgerCards) = Sigma(Nets, D)
  BY <1>1, <1>2, SumByClass DEF g
<1> QED BY <1>5, <1>6, <1>7 DEF f, D

LEMMA LastDay == Max(RowDays) \in RowDays /\ {d \in RowDays : d <= Max(RowDays)} = RowDays
<1>1. Max(RowDays) \in RowDays /\ \A d \in RowDays : d <= Max(RowDays)
  BY LedgerAssumption, GreatestNatural
<1> QED BY <1>1

LEMMA ByMonthIs == ASSUME LedgerInv PROVE LE!CumulativeInvested(LE!Max(RowDays)) = Sigma(Nets, DOMAIN s1)
<1> DEFINE D == DOMAIN s1
           on == [t \in D |-> s1[t].day]
           flow(d) == LE!Total([t \in {t \in LE!Rows : s1[t].day = d /\ s1[t].kind = "purchase"} |-> LE!NetInvested(t, LE!Ids)])
                      - LE!Total([t \in {t \in LE!Rows : s1[t].day = d /\ s1[t].kind = "sale"} |-> LE!NetProceeds(t, LE!Ids)])
           f == [d \in RowDays |-> flow(d)]
           g == ByClass(Nets, D, on, RowDays)
<1>1. LE!Rows = D /\ IsFiniteSet(D) /\ IsFiniteSet(RowDays)
  BY RowsAre, LedgerAssumption
<1>2. \A t \in D : on[t] = s1[t].day /\ on[t] \in RowDays /\ Nets[t] \in Int
  BY RowsAre, NetsAre
<1>3. ASSUME NEW d \in RowDays PROVE f[d] = g[d] /\ f[d] \in Int
  <2> DEFINE S == {t \in D : s1[t].day = d}
  <2>1. S \in SUBSET DOMAIN s1 /\ S = {t \in D : on[t] = d}
    BY <1>2
  <2>2. /\ {t \in LE!Rows : s1[t].day = d /\ s1[t].kind = "purchase"} = Bought(S)
        /\ {t \in LE!Rows : s1[t].day = d /\ s1[t].kind = "sale"} = SoldOf(S)
    BY <1>1 DEF Bought, SoldOf
  <2>3. f[d] = LE!Total([t \in Bought(S) |-> LE!NetInvested(t, LE!Ids)])
               - LE!Total([t \in SoldOf(S) |-> LE!NetProceeds(t, LE!Ids)])
    BY <2>2
  <2>4. g[d] = Sigma(Nets, {t \in D : on[t] = d})
    BY DEF ByClass
  <2> HIDE DEF S, f, g, flow
  <2> QED BY <2>1, <2>3, <2>4, BoughtLessSold, NetTotal
<1>4. LE!CumulativeInvested(LE!Max(RowDays)) = LE!Total(f)
  <2>1. LE!Max(RowDays) = Max(RowDays)
    BY LedgerNames
  <2>2. {d \in RowDays : d <= LE!Max(RowDays)} = RowDays
    BY <2>1, LastDay
  <2> QED BY <2>2 DEF LE!CumulativeInvested
<1>5. DOMAIN f = RowDays
  OBVIOUS
<1> HIDE DEF D, f, g, on, flow
<1>6. LE!Total(f) = Sigma(f, RowDays)
  BY <1>5, LedgerNames
<1>7. Sigma(f, RowDays) = Sigma(g, RowDays)
  BY <1>1, <1>3, SumAgrees
<1>8. Sigma(g, RowDays) = Sigma(Nets, D)
  BY <1>1, <1>2, SumByClass DEF g
<1> QED BY <1>4, <1>6, <1>7, <1>8 DEF D

LEMMA ByDayIs == ASSUME LedgerInv PROVE LE!NetInvestedAt(LE!Max(RowDays)) = Sigma(Nets, DOMAIN s1)
<1> DEFINE D == DOMAIN s1
           C == {t \in D : s1[t].kind \in LE!CASH}
<1>1. LE!Rows = D /\ \A t \in D : s1[t].day \in RowDays
  BY RowsAre
<1>2. LE!Max(RowDays) = Max(RowDays) /\ \A d \in RowDays : d <= Max(RowDays)
  BY LedgerNames, LastDay
<1>3. {t \in LE!Rows : s1[t].kind \in LE!CASH /\ s1[t].day <= LE!Max(RowDays)} = C
  BY <1>1, <1>2
<1>4. LE!NetInvestedAt(LE!Max(RowDays)) = LE!Total([t \in C |-> LE!NetInvested(t, LE!Ids)])
  BY <1>3 DEF LE!NetInvestedAt
<1>5. C \in SUBSET DOMAIN s1 /\ C \in SUBSET D /\ D \in SUBSET DOMAIN s1
  OBVIOUS
<1>6. C = Bought(D) \cup SoldOf(D) /\ Bought(D) \cap SoldOf(D) = {}
      /\ Bought(D) \in SUBSET DOMAIN s1 /\ SoldOf(D) \in SUBSET DOMAIN s1
  BY DEF Bought, SoldOf, LE!CASH
<1> HIDE DEF C, D
<1>7. LE!Total([t \in C |-> LE!NetInvested(t, LE!Ids)]) = Sigma(Nets, C)
  BY <1>5, NetTotal
<1>8. IsFiniteSet(Bought(D)) /\ IsFiniteSet(SoldOf(D)) /\ \A t \in Bought(D) \cup SoldOf(D) : Nets[t] \in Int
  BY <1>6, NetTotal, NetsAre
<1>9. Sigma(Nets, C) = Sigma(Nets, Bought(D)) + Sigma(Nets, SoldOf(D))
  BY <1>6, <1>8, SumOfBoth
<1>10. Sigma(Nets, C) = Sigma(Nets, D)
  BY <1>5, <1>9, BoughtLessSold
<1> QED BY <1>4, <1>7, <1>10 DEF D

LEMMA InvestedHolds == ASSUME LedgerInv PROVE LE!InvestedAlike
BY InvestedIs, ByCardIs, ByMonthIs, ByDayIs DEF LE!InvestedAlike

\* How many of a the first of b use up
Step(a, b, w, i) == IF w < Len(a) /\ s1[a[w + 1]].day <= s1[b[i]].day THEN w + 1 ELSE w
Uses(a, b, n, h) == h = [i \in 0..n |-> IF i = 0 THEN 0 ELSE Step(a, b, h[i - 1], i)]

LEMMA UsedUpIs ==
  ASSUME NEW c
  PROVE  LE!UsedUp(c) = CHOOSE h : Uses(LE!OldestFirst(LE!Acquired(c)), LE!OldestFirst(LE!Disposed(c)),
                                        Len(LE!OldestFirst(LE!Disposed(c))), h)
BY DEF LE!UsedUp, Uses, Step

LEMMA UsesExist ==
  ASSUME NEW a, NEW b, NEW n \in Nat
  PROVE  \E h : Uses(a, b, n, h)
<1> DEFINE G == {k \in Nat : \E h : Uses(a, b, k, h)}
<1>1. 0 \in G
  <2> DEFINE h == [i \in 0..0 |-> 0]
  <2>1. h = [i \in 0..0 |-> IF i = 0 THEN 0 ELSE Step(a, b, h[i - 1], i)]
    OBVIOUS
  <2>2. Uses(a, b, 0, h)
    BY <2>1 DEF Uses
  <2> QED BY <2>2
<1>2. ASSUME NEW k \in Nat, k \in G PROVE k + 1 \in G
  <2>1. PICK h : Uses(a, b, k, h)
    BY <1>2
  <2>2. \A i \in 0..k : h[i] = IF i = 0 THEN 0 ELSE Step(a, b, h[i - 1], i)
    <3>1. h = [i \in 0..k |-> IF i = 0 THEN 0 ELSE Step(a, b, h[i - 1], i)]
      BY <2>1 DEF Uses
    <3> QED BY <3>1
  <2> DEFINE g == [i \in 0..(k + 1) |-> IF i = k + 1 THEN Step(a, b, h[k], k + 1) ELSE h[i]]
  <2>3. ASSUME NEW i \in 0..(k + 1) PROVE g[i] = IF i = 0 THEN 0 ELSE Step(a, b, g[i - 1], i)
    <3>1. CASE i = k + 1
      <4>1. g[i] = Step(a, b, h[k], k + 1) /\ i - 1 = k /\ k \in 0..(k + 1) /\ k # k + 1 /\ i # 0
        BY <3>1
      <4>2. g[k] = h[k]
        BY <4>1
      <4> HIDE DEF g
      <4> QED BY <3>1, <4>1, <4>2
    <3>2. CASE i # k + 1
      <4>1. i \in 0..k /\ g[i] = h[i]
        BY <3>2
      <4>2. i # 0 => i - 1 \in 0..(k + 1) /\ i - 1 # k + 1
        BY <4>1
      <4>3. i # 0 => g[i - 1] = h[i - 1]
        BY <4>2
      <4> HIDE DEF g
      <4> QED BY <2>2, <4>1, <4>3
    <3> QED BY <3>1, <3>2
  <2>4. g = [i \in 0..(k + 1) |-> g[i]]
    OBVIOUS
  <2> HIDE DEF g
  <2>5. g = [i \in 0..(k + 1) |-> IF i = 0 THEN 0 ELSE Step(a, b, g[i - 1], i)]
    BY <2>3, <2>4
  <2>6. Uses(a, b, k + 1, g)
    BY <2>5 DEF Uses
  <2> QED BY <2>6
<1>3. \A k \in Nat : k \in G
  <2> HIDE DEF G
  <2> QED BY <1>1, <1>2, UpFrom0
<1> QED BY <1>3

\* The copies, the disposals and how many the disposals use up
Costed(c, a, b, m, n, u) ==
  /\ m \in Nat /\ n \in Nat /\ Len(a) = m /\ Len(b) = n /\ DOMAIN b = 1..n
  /\ \A k \in 1..m : a[k] \in LE!Acquired(c)
  /\ \A k \in 1..n : b[k] \in LE!Disposed(c)
  /\ \A t \in LE!Acquired(c) : \E k \in 1..m : a[k] = t
  /\ \A t \in LE!Disposed(c) : \E k \in 1..n : b[k] = t
  /\ \A k, l \in 1..m : (LE!Earlier(a[k], a[l]) <=> k < l) /\ (a[k] = a[l] => k = l)
  /\ \A k, l \in 1..n : (LE!Earlier(b[k], b[l]) <=> k < l) /\ (b[k] = b[l] => k = l)
  /\ u[0] = 0 /\ \A i \in 1..n : u[i] = Step(a, b, u[i - 1], i)
  /\ LE!Sources(c) = {[by |-> b[i], of |-> a[u[i]]] : i \in {i \in 1..n : u[i] # u[i - 1]}}

LEMMA ListIs2 ==
  ASSUME LedgerInv, NEW S, S \in SUBSET DOMAIN s1
  PROVE  LET q == LE!OldestFirst(S)
         IN  /\ Len(q) \in Nat /\ DOMAIN q = 1..Len(q)
             /\ \A k \in 1..Len(q) : q[k] \in S
             /\ \A t \in S : \E k \in 1..Len(q) : q[k] = t
             /\ \A k, l \in 1..Len(q) : (LE!Earlier(q[k], q[l]) <=> k < l) /\ (q[k] = q[l] => k = l)
<1> DEFINE q == LE!OldestFirst(S)
<1>1. q = Ordered(ByAge, S) /\ StrictOrder(ByAge, S) /\ IsFiniteSet(S)
  BY OldestFirstIs, AgeOrders
<1> HIDE DEF q
<1>2. /\ Enumerates(q, S) /\ Len(q) = Cardinality(S)
      /\ \A i, j \in 1..Cardinality(S) : <<q[i], q[j]>> \in ByAge <=> i < j
  BY <1>1, OrderedIs
<1>3. Len(q) \in Nat /\ DOMAIN q = 1..Len(q) /\ \A k \in 1..Len(q) : q[k] \in S
  BY <1>2 DEF Enumerates
<1>4. \A k \in 1..Len(q) : q[k] \in DOMAIN s1
  BY <1>3
<1>5. \A k, l \in 1..Len(q) : LE!Earlier(q[k], q[l]) <=> k < l
  BY <1>2, <1>4, AgeOrders
<1> QED BY <1>2, <1>3, <1>5 DEF Enumerates, q

LEMMA CostedIs ==
  ASSUME LedgerInv, NEW c \in LedgerCards
  PROVE  Costed(c, LE!OldestFirst(LE!Acquired(c)), LE!OldestFirst(LE!Disposed(c)),
                Len(LE!OldestFirst(LE!Acquired(c))), Len(LE!OldestFirst(LE!Disposed(c))), LE!UsedUp(c))
<1> DEFINE a == LE!OldestFirst(LE!Acquired(c))
           b == LE!OldestFirst(LE!Disposed(c))
           m == Len(a)
           n == Len(b)
           u == LE!UsedUp(c)
<1>1. LE!Acquired(c) \in SUBSET DOMAIN s1 /\ LE!Disposed(c) \in SUBSET DOMAIN s1
  BY RowsAre DEF LE!Acquired, LE!Disposed
<1>2. /\ m \in Nat /\ \A k \in 1..m : a[k] \in LE!Acquired(c)
      /\ \A t \in LE!Acquired(c) : \E k \in 1..m : a[k] = t
      /\ \A k, l \in 1..m : (LE!Earlier(a[k], a[l]) <=> k < l) /\ (a[k] = a[l] => k = l)
  BY <1>1, ListIs2
<1>3. /\ n \in Nat /\ DOMAIN b = 1..n /\ \A k \in 1..n : b[k] \in LE!Disposed(c)
      /\ \A t \in LE!Disposed(c) : \E k \in 1..n : b[k] = t
      /\ \A k, l \in 1..n : (LE!Earlier(b[k], b[l]) <=> k < l) /\ (b[k] = b[l] => k = l)
  BY <1>1, ListIs2
<1>4. u = CHOOSE h : Uses(a, b, n, h)
  BY UsedUpIs
<1>5. LE!Sources(c) = {[by |-> b[i], of |-> a[u[i]]] : i \in {i \in DOMAIN b : u[i] # u[i - 1]}}
  BY DEF LE!Sources
<1> HIDE DEF a, b, n, u
<1>6. Uses(a, b, n, u)
  BY <1>3, <1>4, UsesExist
<1>7. u = [i \in 0..n |-> IF i = 0 THEN 0 ELSE Step(a, b, u[i - 1], i)]
  BY <1>6 DEF Uses
<1>8. 0 \in 0..n /\ \A i \in 1..n : i \in 0..n /\ i # 0
  BY <1>3
<1>9. u[0] = 0
  BY <1>7, <1>8
<1>10. \A i \in 1..n : u[i] = Step(a, b, u[i - 1], i)
  BY <1>7, <1>8
<1>11. Costed(c, a, b, m, n, u)
  BY <1>2, <1>3, <1>5, <1>9, <1>10 DEF Costed, n
<1> QED BY <1>11 DEF a, b, n, u

\* The first i disposals have used up the first u[i] copies.
LEMMA UsedSoFar ==
  ASSUME LedgerInv, NEW c, NEW a, NEW b, NEW m, NEW n, NEW u, Costed(c, a, b, m, n, u)
  PROVE  \A i \in 0..n : /\ u[i] \in 0..m
                         /\ \A k \in 1..m : k <= u[i] <=> \E j \in 1..i : u[j] # u[j - 1] /\ u[j] = k
<1> DEFINE Fine(i) == /\ u[i] \in 0..m
                      /\ \A k \in 1..m : k <= u[i] <=> \E j \in 1..i : u[j] # u[j - 1] /\ u[j] = k
           G == {i \in Nat : i <= n => Fine(i)}
<1>1. m \in Nat /\ n \in Nat /\ Len(a) = m /\ u[0] = 0 /\ \A i \in 1..n : u[i] = Step(a, b, u[i - 1], i)
  BY DEF Costed
<1>2. 0 \in G
  BY <1>1
<1>3. ASSUME NEW i \in Nat, i \in G PROVE i + 1 \in G
  <2> SUFFICES ASSUME i + 1 <= n PROVE Fine(i + 1)
    OBVIOUS
  <2>1. i <= n /\ i + 1 \in 1..n /\ (i + 1) - 1 = i
    BY <1>1
  <2>2. Fine(i)
    BY <1>3, <2>1
  <2>3. u[i] \in 0..m /\ u[i + 1] = Step(a, b, u[i], i + 1)
    BY <1>1, <2>1, <2>2
  <2>4. u[i + 1] \in 0..m /\ (u[i + 1] = u[i] \/ u[i + 1] = u[i] + 1)
    BY <1>1, <2>3 DEF Step
  <2>5. ASSUME NEW k \in 1..m
        PROVE  k <= u[i + 1] <=> \E j \in 1..(i + 1) : u[j] # u[j - 1] /\ u[j] = k
    <3>1. k <= u[i] <=> \E j \in 1..i : u[j] # u[j - 1] /\ u[j] = k
      BY <2>2
    <3>2. (\E j \in 1..(i + 1) : u[j] # u[j - 1] /\ u[j] = k)
          <=> (\E j \in 1..i : u[j] # u[j - 1] /\ u[j] = k) \/ (u[i + 1] # u[i] /\ u[i + 1] = k)
      <4>1. 1..(i + 1) = 1..i \cup {i + 1}
        BY <1>3
      <4> QED BY <2>1, <4>1
    <3>3. k <= u[i + 1] <=> k <= u[i] \/ (u[i + 1] # u[i] /\ u[i + 1] = k)
      BY <1>1, <2>3, <2>4
    <3> QED BY <3>1, <3>2, <3>3
  <2> QED BY <2>4, <2>5
<1>4. \A i \in Nat : i \in G
  <2> HIDE DEF G
  <2> QED BY <1>2, <1>3, UpFrom0
<1>5. ASSUME NEW i \in 0..n PROVE Fine(i)
  <2>1. i \in Nat /\ i <= n
    BY <1>1
  <2> QED BY <1>4, <2>1
<1> QED BY <1>5

LEMMA OldestCosted ==
  ASSUME LedgerInv, NEW c, NEW a, NEW b, NEW m, NEW n, NEW u, Costed(c, a, b, m, n, u),
         LE!Acquired(c) \in SUBSET DOMAIN s1, LE!Disposed(c) \in SUBSET DOMAIN s1, NEW d \in LE!Disposed(c)
  PROVE  LET used == {s.of : s \in {s \in LE!Sources(c) : LE!Earlier(s.by, d)}}
             free == {t \in LE!Acquired(c) \ used : s1[t].day <= s1[d].day}
             mine == {s.of : s \in {s \in LE!Sources(c) : s.by = d}}
         IN  mine = {t \in free : \A v \in free \ {t} : LE!Earlier(t, v)}
<1> DEFINE used == {s.of : s \in {s \in LE!Sources(c) : LE!Earlier(s.by, d)}}
           free == {t \in LE!Acquired(c) \ used : s1[t].day <= s1[d].day}
           mine == {s.of : s \in {s \in LE!Sources(c) : s.by = d}}
           first == {t \in free : \A v \in free \ {t} : LE!Earlier(t, v)}
<1>1. /\ m \in Nat /\ n \in Nat /\ Len(a) = m /\ Len(b) = n
      /\ \A k \in 1..m : a[k] \in LE!Acquired(c)
      /\ \A k \in 1..n : b[k] \in LE!Disposed(c)
      /\ \A t \in LE!Acquired(c) : \E k \in 1..m : a[k] = t
      /\ \A t \in LE!Disposed(c) : \E k \in 1..n : b[k] = t
      /\ \A k, l \in 1..m : (LE!Earlier(a[k], a[l]) <=> k < l) /\ (a[k] = a[l] => k = l)
      /\ \A k, l \in 1..n : (LE!Earlier(b[k], b[l]) <=> k < l) /\ (b[k] = b[l] => k = l)
      /\ u[0] = 0 /\ \A i \in 1..n : u[i] = Step(a, b, u[i - 1], i)
      /\ LE!Sources(c) = {[by |-> b[i], of |-> a[u[i]]] : i \in {i \in 1..n : u[i] # u[i - 1]}}
  BY DEF Costed
<1>2. PICK i \in 1..n : b[i] = d
  BY <1>1
<1> DEFINE w == u[i - 1]
<1>3. /\ w \in 0..m /\ u[i] \in 0..m /\ u[i] = Step(a, b, w, i)
      /\ \A k \in 1..m : k <= w <=> \E j \in 1..(i - 1) : u[j] # u[j - 1] /\ u[j] = k
  <2>1. i - 1 \in 0..n /\ i \in 0..n
    BY <1>1, <1>2
  <2>2. \A k \in 0..n : /\ u[k] \in 0..m
                        /\ \A l \in 1..m : l <= u[k] <=> \E j \in 1..k : u[j] # u[j - 1] /\ u[j] = l
    BY UsedSoFar
  <2>3. u[i] = Step(a, b, w, i)
    BY <1>1, <1>2
  <2>4. w \in 0..m /\ u[i] \in 0..m
    BY <2>1, <2>2
  <2>5. \A l \in 1..m : l <= w <=> \E j \in 1..(i - 1) : u[j] # u[j - 1] /\ u[j] = l
    BY <2>1, <2>2
  <2> QED BY <2>3, <2>4, <2>5
<1>4. \A t : t \in used <=> \E j \in 1..n : u[j] # u[j - 1] /\ LE!Earlier(b[j], d) /\ a[u[j]] = t
  <2>1. \A t : t \in used <=> \E s \in LE!Sources(c) : LE!Earlier(s.by, d) /\ s.of = t
    OBVIOUS
  <2>2. \A s : s \in LE!Sources(c) <=> \E j \in 1..n : u[j] # u[j - 1] /\ s = [by |-> b[j], of |-> a[u[j]]]
    BY <1>1
  <2> HIDE DEF used
  <2>3. ASSUME NEW t, t \in used PROVE \E j \in 1..n : u[j] # u[j - 1] /\ LE!Earlier(b[j], d) /\ a[u[j]] = t
    <3>1. PICK s \in LE!Sources(c) : LE!Earlier(s.by, d) /\ s.of = t
      BY <2>1, <2>3
    <3>2. PICK j \in 1..n : u[j] # u[j - 1] /\ s = [by |-> b[j], of |-> a[u[j]]]
      BY <2>2, <3>1
    <3>3. s.by = b[j] /\ s.of = a[u[j]]
      BY <3>2
    <3> QED BY <3>1, <3>2, <3>3
  <2>4. ASSUME NEW t, NEW j \in 1..n, u[j] # u[j - 1], LE!Earlier(b[j], d), a[u[j]] = t PROVE t \in used
    <3> DEFINE s == [by |-> b[j], of |-> a[u[j]]]
    <3>1. s \in LE!Sources(c)
      BY <2>2, <2>4
    <3>2. s.by = b[j] /\ s.of = t
      BY <2>4
    <3> HIDE DEF s
    <3> QED BY <2>1, <2>4, <3>1, <3>2
  <2> QED BY <2>3, <2>4
<1>5. \A t : t \in mine <=> \E j \in 1..n : u[j] # u[j - 1] /\ b[j] = d /\ a[u[j]] = t
  <2>1. \A t : t \in mine <=> \E s \in LE!Sources(c) : s.by = d /\ s.of = t
    OBVIOUS
  <2>2. \A s : s \in LE!Sources(c) <=> \E j \in 1..n : u[j] # u[j - 1] /\ s = [by |-> b[j], of |-> a[u[j]]]
    BY <1>1
  <2> HIDE DEF mine
  <2>3. ASSUME NEW t, t \in mine PROVE \E j \in 1..n : u[j] # u[j - 1] /\ b[j] = d /\ a[u[j]] = t
    <3>1. PICK s \in LE!Sources(c) : s.by = d /\ s.of = t
      BY <2>1, <2>3
    <3>2. PICK j \in 1..n : u[j] # u[j - 1] /\ s = [by |-> b[j], of |-> a[u[j]]]
      BY <2>2, <3>1
    <3>3. s.by = b[j] /\ s.of = a[u[j]]
      BY <3>2
    <3> QED BY <3>1, <3>2, <3>3
  <2>4. ASSUME NEW t, NEW j \in 1..n, u[j] # u[j - 1], b[j] = d, a[u[j]] = t PROVE t \in mine
    <3> DEFINE s == [by |-> b[j], of |-> a[u[j]]]
    <3>1. s \in LE!Sources(c)
      BY <2>2, <2>4
    <3>2. s.by = b[j] /\ s.of = t
      BY <2>4
    <3> HIDE DEF s
    <3> QED BY <2>1, <2>4, <3>1, <3>2
  <2> QED BY <2>3, <2>4
<1>6. \A t : t \in free <=> t \in LE!Acquired(c) /\ t \notin used /\ s1[t].day <= s1[d].day
  OBVIOUS
<1>7. \A t : t \in first <=> t \in free /\ \A v \in free : v # t => LE!Earlier(t, v)
  OBVIOUS
<1> HIDE DEF used, free, mine, first, w
<1>8. \A j \in 1..n : LE!Earlier(b[j], d) <=> j < i
  BY <1>1, <1>2
<1>9. \A k \in 1..m : a[k] \in used <=> k <= w
  <2> SUFFICES ASSUME NEW k \in 1..m PROVE a[k] \in used <=> k <= w
    OBVIOUS
  <2>1. ASSUME k <= w PROVE a[k] \in used
    <3>1. PICK j \in 1..(i - 1) : u[j] # u[j - 1] /\ u[j] = k
      BY <1>3, <2>1
    <3>2. j \in 1..n /\ j < i
      BY <1>1, <1>2, <3>1
    <3> QED BY <1>4, <1>8, <3>1, <3>2
  <2>2. ASSUME a[k] \in used PROVE k <= w
    <3>1. PICK j \in 1..n : u[j] # u[j - 1] /\ LE!Earlier(b[j], d) /\ a[u[j]] = a[k]
      BY <1>4, <2>2
    <3>2. j < i /\ j \in 1..(i - 1)
      BY <1>1, <1>2, <1>8, <3>1
    <3>3. u[j] \in 0..m
      <4>1. j \in 0..n
        BY <1>1
      <4> QED BY <4>1, UsedSoFar
    <3>4. u[j] # 0
      <4>1. j - 1 \in 0..n /\ u[j] = Step(a, b, u[j - 1], j)
        BY <1>1
      <4>2. u[j - 1] \in 0..m
        BY <4>1, UsedSoFar
      <4> QED BY <1>1, <3>1, <4>1, <4>2 DEF Step
    <3>5. u[j] \in 1..m
      BY <1>1, <3>3, <3>4
    <3>6. u[j] = k
      BY <1>1, <3>1, <3>5
    <3> QED BY <1>3, <3>1, <3>2, <3>6
  <2> QED BY <2>1, <2>2
<1>10. \A t \in LE!Acquired(c) : t \in DOMAIN s1 /\ t \in Int /\ s1[t].day \in Int
  BY RowsAre
<1>11. s1[d].day \in Int
  BY RowsAre
<1>12. CASE w < m /\ s1[a[w + 1]].day <= s1[d].day
  <2>1. u[i] = w + 1 /\ w + 1 \in 1..m /\ u[i] # w
    BY <1>1, <1>2, <1>3, <1>12 DEF Step
  <2> DEFINE x == a[w + 1]
  <2>2. x \in free
    BY <1>1, <1>3, <1>6, <1>9, <1>12, <2>1
  <2>3. ASSUME NEW v \in free, v # x PROVE LE!Earlier(x, v) /\ ~LE!Earlier(v, x)
    <3>1. PICK k \in 1..m : a[k] = v
      BY <1>1, <1>6
    <3>2. ~ (k <= w) /\ k # w + 1
      BY <1>6, <1>9, <2>3, <3>1
    <3>3. w + 1 < k /\ ~ (k < w + 1)
      BY <1>1, <1>3, <3>1, <3>2
    <3> QED BY <1>1, <2>1, <3>1, <3>3
  <2> HIDE DEF x
  <2>4. \A t : t \in first <=> t = x
    BY <1>7, <2>2, <2>3
  <2>5. \A t : t \in mine <=> t = x
    <3>1. \A j \in 1..n : b[j] = d <=> j = i
      BY <1>1, <1>2
    <3>2. u[i] # u[i - 1] /\ a[u[i]] = x
      BY <2>1 DEF x, w
    <3> QED BY <1>2, <1>5, <3>1, <3>2
  <2> QED BY <2>4, <2>5 DEF mine, first, free, used
<1>13. CASE ~ (w < m /\ s1[a[w + 1]].day <= s1[d].day)
  <2>1. u[i] = w
    BY <1>1, <1>2, <1>3, <1>13 DEF Step
  <2>2. ASSUME NEW t \in free PROVE FALSE
    <3>1. PICK k \in 1..m : a[k] = t
      BY <1>1, <1>6
    <3>2. ~ (k <= w) /\ s1[t].day <= s1[d].day /\ t \in LE!Acquired(c)
      BY <1>6, <1>9, <3>1
    <3>3. w < m /\ w + 1 \in 1..m /\ w + 1 <= k
      BY <1>1, <1>3, <3>1, <3>2
    <3>4. ~ (s1[a[w + 1]].day <= s1[d].day) /\ a[w + 1] \in LE!Acquired(c)
      BY <1>1, <1>13, <3>3
    <3>5. a[w + 1] = t \/ LE!Earlier(a[w + 1], t)
      <4>1. CASE w + 1 = k
        BY <3>1, <4>1
      <4>2. CASE w + 1 < k
        BY <1>1, <3>1, <3>3, <4>2
      <4> QED BY <1>1, <1>3, <3>1, <3>3, <4>1, <4>2
    <3>6. s1[a[w + 1]].day <= s1[t].day
      BY <1>10, <3>2, <3>4, <3>5 DEF LE!Earlier
    <3> QED BY <1>10, <1>11, <3>2, <3>4, <3>6
  <2>3. \A t : t \notin first
    BY <1>7, <2>2
  <2>4. \A t : t \notin mine
    <3>1. \A j \in 1..n : b[j] = d <=> j = i
      BY <1>1, <1>2
    <3> QED BY <1>5, <2>1, <3>1 DEF w
  <2> QED BY <2>3, <2>4 DEF mine, first, free, used
<1> QED BY <1>12, <1>13

LEMMA OldestHolds == ASSUME LedgerInv PROVE LE!OldestCopyFirst
<1>1. ASSUME NEW c \in LedgerCards PROVE LE!Acquired(c) \in SUBSET DOMAIN s1 /\ LE!Disposed(c) \in SUBSET DOMAIN s1
  BY RowsAre DEF LE!Acquired, LE!Disposed
<1> QED BY <1>1, CostedIs, OldestCosted DEF LE!OldestCopyFirst

\* The rows in the order of their numbers: the first one with a shipping is the least.
LEMMA ShareById ==
  ASSUME LedgerInv, NEW t \in DOMAIN s1
  PROVE  /\ s1[t].kind \notin LE!CASH => LE!Share(t, LE!Ids) = 0
         /\ s1[t].kind \in LE!CASH /\ s1[t].order = 0 => LE!Share(t, LE!Ids) = s1[t].ship
         /\ s1[t].kind \in LE!CASH /\ s1[t].order # 0 =>
              LE!Share(t, LE!Ids) = IF Charged(t) = {} THEN 0 ELSE ShareOf(s1[Min(Charged(t))].ship, t)
<1> DEFINE q == LE!Ids
           D == DOMAIN s1
           X == {u \in D : s1[u].ship # 0}
           P == Pool(t)
           r == Kept(q, P)
           s == Kept(r, X)
           h == Head(Ships(t, q))
<1>1. LE!Rows = D /\ IsFiniteSet(D) /\ D \in SUBSET Int /\ Enumerates(q, D)
  BY RowsAre, IdsList
<1>2. q = [k \in 1..Cardinality(D) |-> Nth(D, k)]
  BY <1>1, LedgerNames DEF LE!Ids
<1>3. P \in SUBSET D /\ D \cap P = P /\ P \cap X = Charged(t)
  BY DEF Pool, Charged
<1>4. s = Ships(t, q)
  BY DEF Ships
<1> HIDE DEF D, q, X, P
<1>5. \A i, j \in 1..Len(q) : i < j => q[i] < q[j]
  BY <1>1, <1>2, NumbersInOrder
<1>6. Enumerates(r, P) /\ \A i, j \in 1..Len(r) : i < j => r[i] < r[j]
  BY <1>1, <1>3, <1>5, KeptLists, KeptSorted
<1> HIDE DEF r
<1>7. P \in SUBSET Int /\ IsFiniteSet(P)
  BY <1>1, <1>3, FS_Subset
<1>8. Enumerates(s, Charged(t)) /\ \A i, j \in 1..Len(s) : i < j => s[i] < s[j]
  BY <1>3, <1>6, <1>7, KeptLists, KeptSorted
<1> HIDE DEF s
<1>9. Charged(t) \in SUBSET Int /\ IsFiniteSet(Charged(t))
  BY <1>3, <1>7, FS_Subset
<1>10. ASSUME Charged(t) # {} PROVE h = Min(Charged(t))
  <2> DEFINE C == Charged(t)
  <2>1. h \in C /\ \A x \in C : h <= x
    BY <1>4, <1>8, <1>9, <1>10, HeadIsLeast
  <2>2. Min(C) \in C /\ \A x \in C : Min(C) <= x
    BY <2>1 DEF Min
  <2> DEFINE m == Min(C)
  <2>3. m \in Int /\ h \in Int /\ m <= h /\ h <= m
    BY <1>9, <2>1, <2>2
  <2> HIDE DEF m, h, C
  <2>4. h = m
    BY <2>3
  <2> QED BY <2>4 DEF m, C
<1>11. /\ s1[t].kind \notin LE!CASH => LE!Share(t, q) = 0
       /\ s1[t].kind \in LE!CASH /\ s1[t].order = 0 => LE!Share(t, q) = s1[t].ship
       /\ s1[t].kind \in LE!CASH /\ s1[t].order # 0 /\ Charged(t) = {} => LE!Share(t, q) = 0
       /\ s1[t].kind \in LE!CASH /\ s1[t].order # 0 /\ Charged(t) # {} => LE!Share(t, q) = ShareOf(s1[h].ship, t)
  BY <1>1, ShareIs DEF D
<1> QED BY <1>10, <1>11 DEF q

\* What shipping_shares() charges each row
Shares == [t \in DOMAIN s1 |-> LE!Share(t, LE!Ids)]

LEMMA SharesAre ==
  ASSUME LedgerInv
  PROVE  \A t \in DOMAIN s1 : Shares[t] = LE!Share(t, LE!Ids) /\ Shares[t] \in Nat
BY IdsList, ShareNat DEF Shares

\* An order's cash rows share its shipping.
LEMMA OrderPool ==
  ASSUME LedgerInv, NEW o \in LE!Orders
  PROVE  /\ o \in Nat /\ o # 0 /\ LE!CashOf(o) \in SUBSET DOMAIN s1 /\ IsFiniteSet(LE!CashOf(o))
         /\ LE!Shipped(o) \in Nat
         /\ \A t \in LE!CashOf(o) :
              /\ s1[t].order = o /\ s1[t].kind \in LE!CASH /\ Pool(t) = LE!CashOf(o)
              /\ Shares[t] = IF PoolSum(t) > 0 THEN (LE!Shipped(o) * s1[t].price) \div PoolSum(t)
                             ELSE LE!Shipped(o) \div Cardinality(LE!CashOf(o))
<1> DEFINE C == LE!CashOf(o)
           X == {t \in C : s1[t].ship # 0}
<1>1. o \in Nat /\ o # 0
  BY LedgerAssumption DEF LE!Orders
<1>2. C = {u \in DOMAIN s1 : s1[u].order = o /\ s1[u].kind \in LE!CASH}
  BY RowsAre DEF LE!CashOf, LE!RowsOf
<1>3. C \in SUBSET DOMAIN s1 /\ IsFiniteSet(C)
  BY <1>2, RowsAre, FS_Subset
<1>4. LE!Shipped(o) = IF X = {} THEN 0 ELSE s1[Min(X)].ship
  <2>1. LE!Min(X) = Min(X)
    BY LedgerNames
  <2> QED BY <2>1 DEF LE!Shipped
<1>5. X # {} => Min(X) \in X
  <2>1. X \in SUBSET Nat /\ X \in SUBSET Int /\ IsFiniteSet(X)
    BY <1>3, RowsAre, FS_Subset
  <2> HIDE DEF X
  <2>2. X # {} => \E i \in X : \A j \in X : i <= j
    BY <2>1, LeastElement
  <2> QED BY <2>2 DEF Min
<1>6. LE!Shipped(o) \in Nat
  BY <1>3, <1>4, <1>5, RowsAre
<1>7. ASSUME NEW t \in C
      PROVE  /\ s1[t].order = o /\ s1[t].kind \in LE!CASH /\ Pool(t) = C
             /\ Shares[t] = IF PoolSum(t) > 0 THEN (LE!Shipped(o) * s1[t].price) \div PoolSum(t)
                            ELSE LE!Shipped(o) \div Cardinality(C)
  <2>1. s1[t].order = o /\ s1[t].kind \in LE!CASH /\ t \in DOMAIN s1
    BY <1>2
  <2>2. Pool(t) = C /\ Charged(t) = X
    BY <1>2, <2>1 DEF Pool, Charged
  <2>3. Shares[t] = IF Charged(t) = {} THEN 0 ELSE ShareOf(s1[Min(Charged(t))].ship, t)
    BY <1>1, <2>1, ShareById, SharesAre
  <2> HIDE DEF C, X
  <2>4. CASE X # {}
    <3>1. Shares[t] = ShareOf(LE!Shipped(o), t)
      BY <1>4, <2>2, <2>3, <2>4
    <3> QED BY <2>1, <2>2, <3>1 DEF ShareOf
  <2>5. CASE X = {}
    <3>1. LE!Shipped(o) = 0 /\ Shares[t] = 0
      BY <1>4, <2>2, <2>3, <2>5
    <3> DEFINE s == PoolSum(t)
               n == Cardinality(C)
    <3>2. n \in Nat /\ n # 0
      BY <1>3, <1>7, FS_CardinalityType, FS_EmptySet
    <3>3. s \in Nat
      <4> DEFINE P == Pool(t)
                 f == [u \in P |-> s1[u].price]
      <4>1. IsFiniteSet(P) /\ P \in SUBSET DOMAIN s1
        BY <1>3, <2>2
      <4>2. \A u \in P : f[u] \in Nat
        BY <4>1, RowsAre
      <4>3. s = Sigma(f, P)
        BY DEF PoolSum
      <4> HIDE DEF f, P, s
      <4> QED BY <4>1, <4>2, <4>3, SumOfNats
    <3>4. s1[t].price \in Nat
      BY <2>1, RowsAre
    <3> HIDE DEF s, n
    <3>5. 0 * s1[t].price = 0 /\ 0 \div n = 0 /\ (s > 0 => 0 \div s = 0)
      BY <3>2, <3>3, <3>4
    <3> QED BY <2>1, <2>2, <3>1, <3>5 DEF s, n
  <2> QED BY <2>4, <2>5
<1> QED BY <1>1, <1>3, <1>6, <1>7

\* Where they are whole, the shares of an order add up to its shipping.
LEMMA OrderShares ==
  ASSUME LedgerInv, LE!WholeShares, NEW o \in LE!Orders
  PROVE  Sigma(Shares, LE!CashOf(o)) = LE!Shipped(o)
<1> DEFINE C == LE!CashOf(o)
           w == [u \in C |-> s1[u].price]
           ship == LE!Shipped(o)
           sum == Sigma(w, C)
<1>1. /\ C \in SUBSET DOMAIN s1 /\ IsFiniteSet(C) /\ ship \in Nat
      /\ \A t \in C : /\ Pool(t) = C
                      /\ Shares[t] = IF PoolSum(t) > 0 THEN (ship * s1[t].price) \div PoolSum(t)
                                     ELSE ship \div Cardinality(C)
  BY OrderPool
<1>2. \A t \in C : w[t] = s1[t].price /\ w[t] \in Nat
  BY <1>1, RowsAre
<1>3. \A t \in C : PoolSum(t) = sum
  BY <1>1 DEF PoolSum
<1>4. \A t \in C : IF sum > 0 THEN (ship * w[t]) % sum = 0 ELSE ship % Cardinality(C) = 0
  <2>1. DOMAIN w = C
    OBVIOUS
  <2>2. LE!Total(w) = sum /\ LE!Cardinality(C) = Cardinality(C)
    <3> HIDE DEF w, C
    <3> QED BY <2>1, LedgerNames
  <2>3. \A t \in C : IF LE!Total(w) > 0 THEN (ship * s1[t].price) % LE!Total(w) = 0 ELSE ship % LE!Cardinality(C) = 0
    BY DEF LE!WholeShares
  <2> HIDE DEF w, C, ship, sum
  <2> QED BY <1>2, <2>2, <2>3
<1>5. CASE C # {}
  <2>1. \A t \in C : Shares[t] = IF sum > 0 THEN (ship * w[t]) \div sum ELSE ship \div Cardinality(C)
    <3> HIDE DEF w, C, ship, sum
    <3> QED BY <1>1, <1>2, <1>3
  <2>2. \A t \in C : w[t] \in Nat
    BY <1>2
  <2> DEFINE m == sum
  <2>3. m = Sigma(w, C)
    OBVIOUS
  <2>4. /\ \A t \in C : Shares[t] = IF m > 0 THEN (ship * w[t]) \div m ELSE ship \div Cardinality(C)
        /\ \A t \in C : IF m > 0 THEN (ship * w[t]) % m = 0 ELSE ship % Cardinality(C) = 0
    BY <1>4, <2>1
  <2> HIDE DEF w, C, ship, sum, m
  <2>5. Sigma(Shares, C) = ship
    BY ONLY <1>1, <1>5, <2>2, <2>3, <2>4, SharesAddUp
  <2> QED BY <2>5 DEF C, ship
<1>6. CASE C = {}
  <2>1. ship = 0
    <3>1. {t \in C : s1[t].ship # 0} = {}
      BY <1>6
    <3> QED BY <3>1 DEF LE!Shipped
  <2> QED BY <1>6, <2>1, SumOfNone
<1> QED BY <1>5, <1>6

\* What each cash row adds without its share, and each row's shipping
Signed == [t \in DOMAIN s1 |-> s1[t].fee + IF s1[t].kind = "purchase" THEN s1[t].price ELSE -s1[t].price]
OwnShip == [t \in DOMAIN s1 |-> s1[t].ship]
CashRows == {t \in DOMAIN s1 : s1[t].kind \in LE!CASH}

\* The orders' shippings, and that of the rows in no order
Shippings == [o \in LE!Orders |-> LE!Shipped(o)]

LEMMA SharesByOrder ==
  ASSUME LedgerInv, LE!WholeShares
  PROVE  Sigma(Shares, CashRows) = Sigma(Shippings, LE!Orders) + Sigma(OwnShip, LE!CashOf(0))
<1> DEFINE C == CashRows
           O == LE!Orders
           of == [t \in C |-> s1[t].order]
           I == 0..LedgerOrders
           g == ByClass(Shares, C, of, I)
<1>1. C \in SUBSET DOMAIN s1 /\ IsFiniteSet(C) /\ \A t \in C : Shares[t] \in Int /\ of[t] \in I
  <2>1. C \in SUBSET DOMAIN s1 /\ IsFiniteSet(C)
    BY RowsAre, FS_Subset DEF CashRows
  <2>2. \A t \in C : s1[t].order \in I
    BY <2>1, RowsAre
  <2>3. \A t \in C : Shares[t] \in Int
    BY <2>1, SharesAre
  <2> QED BY <2>1, <2>2, <2>3
<1>2. I = O \cup {0} /\ 0 \notin O /\ IsFiniteSet(I) /\ IsFiniteSet(O)
  <2>1. LedgerOrders \in Nat /\ O = 1..LedgerOrders
    BY LedgerAssumption DEF LE!Orders
  <2>2. LedgerOrders \in Int /\ 0 \in Int
    BY <2>1
  <2>3. IsFiniteSet(I)
    BY <2>2, FS_Interval
  <2>4. I = O \cup {0} /\ 0 \notin O
    BY <2>1
  <2> QED BY <2>3, <2>4, FS_Subset
<1>3. \A i \in I : {t \in C : of[t] = i} = LE!CashOf(i) /\ g[i] = Sigma(Shares, LE!CashOf(i))
  <2>1. ASSUME NEW i \in I PROVE {t \in C : of[t] = i} = LE!CashOf(i)
    BY RowsAre DEF CashRows, LE!CashOf, LE!RowsOf
  <2>2. \A i \in I : g[i] = Sigma(Shares, {t \in C : of[t] = i})
    BY DEF ByClass
  <2> HIDE DEF g, I, of, C
  <2> QED BY <2>1, <2>2
<1> HIDE DEF C, O, of, I, g
<1>4. Sigma(g, I) = Sigma(Shares, C)
  BY <1>1, <1>2, SumByClass DEF g
<1>5. ASSUME NEW o \in O PROVE g[o] = Shippings[o] /\ g[o] \in Int /\ Shippings[o] \in Int
  <2>1. o \in LE!Orders /\ o \in I
    BY <1>2 DEF O
  <2>2. Sigma(Shares, LE!CashOf(o)) = LE!Shipped(o) /\ LE!Shipped(o) \in Nat
    BY <2>1, OrderShares, OrderPool
  <2>3. Shippings[o] = LE!Shipped(o)
    BY <2>1 DEF Shippings
  <2> QED BY <1>3, <2>1, <2>2, <2>3
<1>6. g[0] = Sigma(OwnShip, LE!CashOf(0)) /\ g[0] \in Int
  <2> DEFINE Z == LE!CashOf(0)
  <2>1. Z = {t \in DOMAIN s1 : s1[t].order = 0 /\ s1[t].kind \in LE!CASH}
    BY RowsAre DEF LE!CashOf, LE!RowsOf
  <2>2. IsFiniteSet(Z) /\ Z \in SUBSET DOMAIN s1
    BY <2>1, RowsAre, FS_Subset
  <2>3. \A t \in Z : Shares[t] = OwnShip[t] /\ Shares[t] \in Int
    <3>1. \A t \in Z : LE!Share(t, LE!Ids) = s1[t].ship
      BY <2>1, ShareById
    <3>2. \A t \in Z : OwnShip[t] = s1[t].ship
      BY <2>2 DEF OwnShip
    <3> HIDE DEF Z
    <3> QED BY <2>2, <3>1, <3>2, SharesAre
  <2>4. g[0] = Sigma(Shares, Z)
    BY <1>2, <1>3
  <2> HIDE DEF Z
  <2>5. Sigma(Shares, Z) = Sigma(OwnShip, Z) /\ Sigma(Shares, Z) \in Int
    BY <2>2, <2>3, SumAgrees, SumOfInts
  <2> QED BY <2>4, <2>5 DEF Z
<1>7. Sigma(g, I) = g[0] + Sigma(g, O)
  <2>1. \A i \in O \cup {0} : g[i] \in Int
    BY <1>5, <1>6
  <2> QED BY <1>2, <2>1, SumWith
<1>8. Sigma(g, O) = Sigma(Shippings, O) /\ Sigma(g, O) \in Int
  BY <1>2, <1>5, SumAgrees, SumOfInts
<1>9. Sigma(OwnShip, LE!CashOf(0)) + Sigma(Shippings, O) = Sigma(Shippings, O) + Sigma(OwnShip, LE!CashOf(0))
  BY <1>6, <1>8
<1> QED BY <1>4, <1>6, <1>7, <1>8, <1>9 DEF C, O

\* Net invested is what the rows say, and their shares.
LEMMA NetsOfCash ==
  ASSUME LedgerInv
  PROVE  /\ IsFiniteSet(CashRows) /\ CashRows \in SUBSET DOMAIN s1
         /\ Sigma(Signed, CashRows) \in Int /\ Sigma(Shares, CashRows) \in Int
         /\ Sigma(Nets, DOMAIN s1) = Sigma(Signed, CashRows) + Sigma(Shares, CashRows)
<1> DEFINE D == DOMAIN s1
           C == CashRows
           X == D \ C
<1>1. IsFiniteSet(D) /\ C \in SUBSET D /\ X \in SUBSET D /\ C \cap X = {} /\ D = C \cup X
  BY RowsAre DEF CashRows
<1>2. IsFiniteSet(C) /\ IsFiniteSet(X)
  BY <1>1, FS_Subset
<1>3. \A t \in D : Nets[t] \in Int
  BY NetsAre
<1>4. \A t \in X : Nets[t] = 0
  BY NetsAre DEF CashRows
<1>5. ASSUME NEW t \in C PROVE Signed[t] \in Int /\ Shares[t] \in Int /\ Nets[t] = Signed[t] + Shares[t]
  <2>1. t \in DOMAIN s1 /\ (s1[t].kind = "purchase" \/ s1[t].kind = "sale")
    BY DEF CashRows, LE!CASH
  <2>2. s1[t].price \in Nat /\ s1[t].fee \in Nat /\ Shares[t] \in Nat /\ Shares[t] = LE!Share(t, LE!Ids)
    BY <2>1, RowsAre, SharesAre
  <2>3. Nets[t] = LE!NetInvested(t, LE!Ids)
    BY <2>1 DEF Nets
  <2>4. Signed[t] = s1[t].fee + IF s1[t].kind = "purchase" THEN s1[t].price ELSE -s1[t].price
    BY <2>1 DEF Signed
  <2>5. CASE s1[t].kind = "purchase"
    <3>1. Nets[t] = s1[t].price + s1[t].fee + Shares[t]
      BY <2>2, <2>3, <2>5 DEF LE!NetInvested
    <3> QED BY <2>2, <2>4, <2>5, <3>1
  <2>6. CASE s1[t].kind = "sale"
    <3>1. Nets[t] = -(s1[t].price - s1[t].fee - Shares[t])
      <4>1. s1[t].kind # "purchase"
        BY <2>6
      <4> QED BY <2>2, <2>3, <2>6, <4>1 DEF LE!NetInvested, LE!NetProceeds
    <3> QED BY <2>2, <2>4, <2>6, <3>1
  <2> QED BY <2>1, <2>5, <2>6
<1> HIDE DEF D, C, X
<1>6. Sigma(Nets, C) = Sigma(Signed, C) + Sigma(Shares, C) /\ Sigma(Signed, C) \in Int /\ Sigma(Shares, C) \in Int
  BY <1>2, <1>5, SumOfSums, SumOfInts
<1>7. Sigma(Nets, D) = Sigma(Nets, C) + Sigma(Nets, X)
  <2>1. \A t \in C \cup X : Nets[t] \in Int
    BY <1>1, <1>3
  <2> QED BY <1>1, <1>2, <2>1, SumOfBoth
<1>8. Sigma(Nets, X) = 0
  BY <1>2, <1>4, SumOfZeros
<1>9. Sigma(Nets, D) = Sigma(Signed, C) + Sigma(Shares, C)
  BY <1>6, <1>7, <1>8
<1> QED BY <1>1, <1>2, <1>6, <1>9 DEF C, D

LEMMA ShippingHolds == ASSUME LedgerInv PROVE LE!ShippingOnce
<1> SUFFICES ASSUME LE!WholeShares
             PROVE  LET signed(t) == s1[t].fee + IF s1[t].kind = "purchase" THEN s1[t].price ELSE -s1[t].price
                        cash == {t \in LE!Rows : s1[t].kind \in LE!CASH}
                    IN  LE!Invested = LE!Total([t \in cash |-> signed(t)]) + LE!Total([o \in LE!Orders |-> LE!Shipped(o)])
                                      + LE!Total([t \in LE!CashOf(LE!NoOrder) |-> s1[t].ship])
  BY DEF LE!ShippingOnce
<1> DEFINE C == CashRows
           Z == LE!CashOf(0)
           f == [t \in C |-> s1[t].fee + IF s1[t].kind = "purchase" THEN s1[t].price ELSE -s1[t].price]
           h == [t \in Z |-> s1[t].ship]
<1>1. {t \in LE!Rows : s1[t].kind \in LE!CASH} = C /\ LE!NoOrder = 0 /\ C \in SUBSET DOMAIN s1
  BY RowsAre DEF CashRows, LE!NoOrder
<1>2. Z \in SUBSET DOMAIN s1 /\ IsFiniteSet(Z)
  BY RowsAre, FS_Subset DEF LE!CashOf, LE!RowsOf
<1>3. LE!Total(f) = Sigma(Signed, C)
  <2>1. DOMAIN f = C /\ \A t \in C : f[t] = Signed[t]
    BY <1>1 DEF Signed
  <2>2. \A t \in C : Signed[t] \in Int
    <3>1. \A t \in C : s1[t].fee \in Nat /\ s1[t].price \in Nat
      BY <1>1, RowsAre
    <3> QED BY <2>1, <3>1
  <2> HIDE DEF f, C
  <2>3. LE!Total(f) = Sigma(f, C)
    BY <2>1, LedgerNames
  <2>4. IsFiniteSet(C)
    BY NetsOfCash DEF C
  <2> QED BY <2>1, <2>2, <2>3, <2>4, SumAgrees
<1>4. LE!Total(Shippings) = Sigma(Shippings, LE!Orders)
  <2>1. DOMAIN Shippings = LE!Orders
    BY DEF Shippings
  <2> QED BY <2>1, LedgerNames
<1>5. LE!Total(h) = Sigma(OwnShip, Z)
  <2>1. DOMAIN h = Z /\ \A t \in Z : h[t] = OwnShip[t]
    BY <1>2 DEF OwnShip
  <2>2. \A t \in Z : h[t] \in Int
    BY <1>2, RowsAre
  <2> HIDE DEF h, Z
  <2>3. LE!Total(h) = Sigma(h, Z)
    BY <2>1, LedgerNames
  <2> QED BY <1>2, <2>1, <2>2, <2>3, SumAgrees
<1> HIDE DEF f, h
<1>6. /\ Sigma(Signed, C) \in Int
      /\ Sigma(Shippings, LE!Orders) \in Int /\ Sigma(OwnShip, Z) \in Int
  <2>1. Sigma(Signed, C) \in Int
    BY NetsOfCash
  <2>2. \A o \in LE!Orders : Shippings[o] \in Int
    BY OrderPool DEF Shippings
  <2>3. IsFiniteSet(LE!Orders)
    <3>1. LedgerOrders \in Int /\ 1 \in Int /\ LE!Orders = 1..LedgerOrders
      BY LedgerAssumption DEF LE!Orders
    <3> QED BY <3>1, FS_Interval
  <2>4. \A t \in Z : OwnShip[t] \in Int
    BY <1>2, RowsAre DEF OwnShip
  <2> HIDE DEF Z
  <2> QED BY <1>2, <2>1, <2>2, <2>3, <2>4, SumOfInts
<1>7. LE!Invested = Sigma(Signed, C) + (Sigma(Shippings, LE!Orders) + Sigma(OwnShip, Z))
  BY InvestedIs, NetsOfCash, SharesByOrder
<1>8. LE!Invested = LE!Total(f) + LE!Total(Shippings) + LE!Total(h)
  BY <1>3, <1>4, <1>5, <1>6, <1>7
<1> QED BY <1>1, <1>8 DEF f, h, Shippings

\* What GainsAddUp is about
GainOrders == {o \in LE!Orders : LE!HasGain(o)}
Worth == [t \in DOMAIN s1 |-> Market[s1[t].card]]
HeldRows == {t \in DOMAIN s1 : s1[t].kind \in LE!ACQUIRING /\ t \in LE!Held(s1[t].card)}
AllPlain == LE!PlainOrders /\ LE!WholeShares /\ LE!EveryCopyHasItsRow

LEMMA GainOrdersAre ==
  ASSUME LedgerInv, AllPlain
  PROVE  /\ IsFiniteSet(GainOrders) /\ GainOrders \in SUBSET LE!Orders
         /\ \A t \in DOMAIN s1 :
              /\ s1[t].kind \in {"purchase", "sale", "ripped"} /\ s1[t].fee = 0
              /\ s1[t].order \in LE!Orders /\ s1[t].card \in LedgerCards
              /\ s1[t].kind # "sale" => s1[t].order \in GainOrders
              /\ s1[t].kind = "ripped" => LE!AutoTotal(s1[t].order) = 0
         /\ \A o \in GainOrders : \A t \in DOMAIN s1 : s1[t].order = o => s1[t].kind # "sale"
<1>1. LedgerOrders \in Int /\ 1 \in Int /\ LE!Orders = 1..LedgerOrders
  BY LedgerAssumption DEF LE!Orders
<1>2. IsFiniteSet(LE!Orders)
  BY <1>1, FS_Interval
<1>3. GainOrders \in SUBSET LE!Orders /\ IsFiniteSet(GainOrders)
  <2>1. GainOrders \in SUBSET LE!Orders
    BY DEF GainOrders
  <2> QED BY <1>2, <2>1, FS_Subset
<1>4. \A t \in DOMAIN s1 :
        /\ s1[t].kind \notin {"in", "out"} /\ s1[t].fee = 0 /\ s1[t].order # 0
        /\ s1[t].kind = "ripped" => LE!AutoTotal(s1[t].order) = 0
        /\ \A u \in LE!RowsOf(s1[t].order) : s1[u].kind = "sale" <=> s1[t].kind = "sale"
  BY RowsAre DEF AllPlain, LE!PlainOrders, LE!NoOrder
<1>5. \A o, u : u \in LE!RowsOf(o) <=> u \in DOMAIN s1 /\ s1[u].order = o
  BY RowsAre DEF LE!RowsOf
<1>6. ASSUME NEW t \in DOMAIN s1
      PROVE  /\ s1[t].kind \in {"purchase", "sale", "ripped"} /\ s1[t].fee = 0
             /\ s1[t].order \in LE!Orders /\ s1[t].card \in LedgerCards
             /\ s1[t].kind # "sale" => s1[t].order \in GainOrders
             /\ s1[t].kind = "ripped" => LE!AutoTotal(s1[t].order) = 0
  <2>1. s1[t].order \in 0..LedgerOrders /\ s1[t].order # 0 /\ s1[t].card \in LedgerCards
    BY <1>4, RowsAre
  <2>2. s1[t].order \in LE!Orders
    BY <1>1, <2>1
  <2>3. s1[t].kind \in {"purchase", "sale", "ripped"}
    <3>1. s1[t].kind \in LE!Kinds
      BY RowsAre
    <3> QED BY <1>4, <3>1 DEF LE!Kinds
  <2>4. ASSUME s1[t].kind # "sale" PROVE s1[t].order \in GainOrders
    <3>1. t \in LE!RowsOf(s1[t].order) /\ \A u \in LE!RowsOf(s1[t].order) : s1[u].kind # "sale"
      BY <1>4, <1>5, <2>4
    <3>2. LE!HasGain(s1[t].order)
      BY <3>1 DEF LE!HasGain
    <3> QED BY <2>2, <3>2 DEF GainOrders
  <2> QED BY <1>4, <2>1, <2>2, <2>3, <2>4
<1>7. \A o \in GainOrders : \A t \in DOMAIN s1 : s1[t].order = o => s1[t].kind # "sale"
  BY <1>5 DEF GainOrders, LE!HasGain
<1> QED BY <1>3, <1>6, <1>7

\* As many rows of a card are held as it has copies.
LEMMA HeldAre ==
  ASSUME LedgerInv, AllPlain, NEW c \in LedgerCards
  PROVE  /\ LE!Held(c) = {t \in HeldRows : s1[t].card = c}
         /\ Cardinality(LE!Held(c)) = s2[c] /\ s2[c] \in Nat
<1> DEFINE S == LE!Acquired(c)
           X == LE!Disposed(c)
           R == {p \in (DOMAIN s1) \X (DOMAIN s1) : LE!Earlier(p[2], p[1])}
           k == s2[c]
<1>1. S \in SUBSET DOMAIN s1 /\ X \in SUBSET DOMAIN s1
  BY RowsAre DEF LE!Acquired, LE!Disposed
<1>2. IsFiniteSet(S) /\ IsFiniteSet(X) /\ Cardinality(S) \in Nat /\ Cardinality(X) \in Nat
  BY <1>1, RowsAre, FS_Subset, FS_CardinalityType
<1>3. k \in Nat /\ k = Cardinality(S) - Cardinality(X)
  <2>1. s4.rows \in Nat /\ Untracked[c] \in Nat
    BY BoundsAre, LedgerAssumption DEF LedgerInv
  <2>2. s2[c] \in 0..(Untracked[c] + s4.rows)
    BY DEF LedgerInv
  <2>3. Untracked[c] = 0 /\ s2[c] = LE!Copies(c)
    BY DEF AllPlain, LE!EveryCopyHasItsRow
  <2>4. LE!Copies(c) = Untracked[c] + Cardinality(S) - Cardinality(X)
    BY LedgerNames DEF LE!Copies
  <2> QED BY <1>2, <2>1, <2>2, <2>3, <2>4
<1>4. k \in 0..Cardinality(S)
  <2> DEFINE m == Cardinality(S)
             n == Cardinality(X)
  <2>1. m \in Nat /\ n \in Nat /\ k = m - n /\ k \in Nat
    BY <1>2, <1>3
  <2> HIDE DEF m, n, k
  <2>2. k \in 0..m
    BY <2>1
  <2> QED BY <2>2 DEF m
<1>5. StrictOrder(R, S)
  <2>1. StrictOrder(ByAge, S)
    BY <1>1, AgeOrders
  <2>2. \A x, y \in S : <<x, y>> \in R <=> <<y, x>> \in ByAge
    <3>1. \A x, y \in DOMAIN s1 : <<x, y>> \in R <=> LE!Earlier(y, x)
      OBVIOUS
    <3> HIDE DEF R
    <3> QED BY <1>1, <3>1, AgeOrders
  <2> HIDE DEF R, S
  <2>3. /\ \A x \in S : <<x, x>> \notin ByAge
        /\ \A x, y \in S : x # y => <<x, y>> \in ByAge \/ <<y, x>> \in ByAge
        /\ \A x, y, z \in S : <<x, y>> \in ByAge /\ <<y, z>> \in ByAge => <<x, z>> \in ByAge
    BY <2>1 DEF StrictOrder
  <2>4. \A x \in S : <<x, x>> \notin R
    BY <2>2, <2>3
  <2>5. \A x, y \in S : x # y => <<x, y>> \in R \/ <<y, x>> \in R
    BY <2>2, <2>3
  <2>6. \A x, y, z \in S : <<x, y>> \in R /\ <<y, z>> \in R => <<x, z>> \in R
    BY <2>2, <2>3
  <2> QED BY <2>4, <2>5, <2>6 DEF StrictOrder
<1>6. \A t \in S : LE!Cardinality({u \in S : LE!Earlier(t, u)}) = Place(R, S, t)
  <2> SUFFICES ASSUME NEW t \in S PROVE LE!Cardinality({u \in S : LE!Earlier(t, u)}) = Place(R, S, t)
    OBVIOUS
  <2>1. {u \in S : LE!Earlier(t, u)} = {u \in S : <<u, t>> \in R}
    BY <1>1
  <2> HIDE DEF R, S
  <2> QED BY <2>1, LedgerNames DEF Place
<1>7. LE!Held(c) = {t \in S : LE!Cardinality({u \in S : LE!Earlier(t, u)}) < k}
  BY DEF LE!Held
<1>8. LE!Held(c) = {t \in S : Place(R, S, t) < k}
  <2> HIDE DEF R, S, k
  <2> QED BY <1>6, <1>7
<1>9. Cardinality(LE!Held(c)) = k
  <2> HIDE DEF R, S, k
  <2> QED BY <1>2, <1>4, <1>5, <1>8, FirstOnes
<1>10. LE!Held(c) = {t \in HeldRows : s1[t].card = c}
  <2>1. \A t \in LE!Held(c) : t \in DOMAIN s1 /\ s1[t].card = c /\ LE!IsAcquisition(t)
    BY <1>1 DEF LE!Held, LE!Acquired
  <2>2. \A t \in LE!Held(c) : s1[t].kind \in LE!ACQUIRING
    <3>1. \A t \in DOMAIN s1 : s1[t].kind \in {"purchase", "sale", "ripped"}
      BY GainOrdersAre
    <3> QED BY <2>1, <3>1 DEF LE!IsAcquisition
  <2> QED BY <2>1, <2>2 DEF HeldRows
<1> QED BY <1>3, <1>9, <1>10

\* The value of what is owned, by card
Values == [c \in LedgerCards |-> s2[c] * Market[c]]

LEMMA WorthIs ==
  ASSUME LedgerInv
  PROVE  /\ \A t \in DOMAIN s1 : Worth[t] = Market[s1[t].card] /\ Worth[t] \in Nat
         /\ HeldRows \in SUBSET DOMAIN s1 /\ IsFiniteSet(HeldRows)
<1>1. \A t \in DOMAIN s1 : Worth[t] = Market[s1[t].card] /\ Worth[t] \in Nat
  BY RowsAre, LedgerAssumption DEF Worth
<1>2. HeldRows \in SUBSET DOMAIN s1
  BY DEF HeldRows
<1> QED BY <1>1, <1>2, RowsAre, FS_Subset

LEMMA ValueByCard ==
  ASSUME LedgerInv, AllPlain
  PROVE  LE!TotalValue = Sigma(Worth, HeldRows)
<1> DEFINE of == [t \in HeldRows |-> s1[t].card]
           g == ByClass(Worth, HeldRows, of, LedgerCards)
<1>1. IsFiniteSet(LedgerCards) /\ \A c \in LedgerCards : Market[c] \in Nat
  BY LedgerAssumption
<1>2. IsFiniteSet(HeldRows) /\ \A t \in HeldRows : of[t] \in LedgerCards /\ Worth[t] \in Int
  BY WorthIs, RowsAre
<1>3. LE!TotalValue = Sigma(Values, LedgerCards)
  <2>1. LE!TotalValue = LE!Total(Values) /\ DOMAIN Values = LedgerCards
    BY DEF LE!TotalValue, Values
  <2> QED BY <2>1, LedgerNames
<1>4. ASSUME NEW c \in LedgerCards PROVE Values[c] = g[c] /\ Values[c] \in Int
  <2> DEFINE H == LE!Held(c)
             k == s2[c]
             m == Market[c]
  <2>1. H = {t \in HeldRows : s1[t].card = c} /\ Cardinality(H) = k /\ k \in Nat
    BY HeldAre
  <2>2. g[c] = Sigma(Worth, {t \in HeldRows : of[t] = c})
    BY DEF ByClass
  <2>3. {t \in HeldRows : of[t] = c} = H
    BY <2>1
  <2>4. IsFiniteSet(H) /\ \A t \in H : Worth[t] = m
    BY <1>2, <2>1, WorthIs, FS_Subset
  <2>5. m \in Nat /\ m \in Int
    BY <1>1
  <2>6. Values[c] = k * m
    BY DEF Values
  <2> HIDE DEF H, k, m, g, of
  <2>7. Sigma(Worth, H) = m * k
    BY <2>1, <2>4, <2>5, SumOfSame
  <2>8. m * k = k * m /\ k * m \in Int
    BY <2>1, <2>5
  <2> QED BY <2>2, <2>3, <2>6, <2>7, <2>8
<1> HIDE DEF of, g
<1>5. Sigma(Values, LedgerCards) = Sigma(g, LedgerCards)
  BY <1>1, <1>4, SumAgrees
<1>6. Sigma(g, LedgerCards) = Sigma(Worth, HeldRows)
  BY <1>1, <1>2, SumByClass DEF g
<1> QED BY <1>3, <1>5, <1>6

\* The same by order
HeldValue(o) == LE!Total([t \in {t \in LE!RowsOf(o) : s1[t].kind \in LE!ACQUIRING /\ t \in LE!Held(s1[t].card)} |-> Market[s1[t].card]])
HeldValues == [o \in GainOrders |-> HeldValue(o)]

LEMMA ValueByOrder ==
  ASSUME LedgerInv, AllPlain
  PROVE  /\ LE!TotalValue = Sigma(HeldValues, GainOrders)
         /\ \A o \in GainOrders : HeldValues[o] = HeldValue(o) /\ HeldValues[o] \in Int
<1> DEFINE of == [t \in HeldRows |-> s1[t].order]
           g == ByClass(Worth, HeldRows, of, GainOrders)
<1>1. IsFiniteSet(GainOrders)
  BY GainOrdersAre
<1>2. IsFiniteSet(HeldRows) /\ \A t \in HeldRows : of[t] \in GainOrders /\ Worth[t] \in Int
  <2>1. \A t \in HeldRows : t \in DOMAIN s1 /\ s1[t].kind # "sale"
    BY DEF HeldRows, LE!ACQUIRING
  <2> QED BY <2>1, WorthIs, GainOrdersAre
<1>3. ASSUME NEW o \in GainOrders PROVE HeldValues[o] = g[o] /\ HeldValues[o] \in Int /\ HeldValues[o] = HeldValue(o)
  <2> DEFINE H == {t \in HeldRows : s1[t].order = o}
             f == [t \in H |-> Market[s1[t].card]]
  <2>1. {t \in LE!RowsOf(o) : s1[t].kind \in LE!ACQUIRING /\ t \in LE!Held(s1[t].card)} = H
    BY RowsAre DEF LE!RowsOf, HeldRows
  <2>2. HeldValues[o] = LE!Total(f) /\ HeldValues[o] = HeldValue(o)
    BY <2>1 DEF HeldValues, HeldValue
  <2>3. g[o] = Sigma(Worth, {t \in HeldRows : of[t] = o})
    BY DEF ByClass
  <2>4. {t \in HeldRows : of[t] = o} = H
    OBVIOUS
  <2>5. IsFiniteSet(H) /\ H \in SUBSET HeldRows
    BY <1>2, FS_Subset
  <2>6. DOMAIN f = H /\ \A t \in H : f[t] \in Int /\ f[t] = Worth[t]
    BY WorthIs
  <2> HIDE DEF H, f, g, of
  <2>7. LE!Total(f) = Sigma(f, H)
    BY <2>6, LedgerNames
  <2>8. Sigma(f, H) = Sigma(Worth, H) /\ Sigma(f, H) \in Int
    BY <2>5, <2>6, SumAgrees, SumOfInts
  <2> QED BY <2>2, <2>3, <2>4, <2>7, <2>8
<1> HIDE DEF of, g
<1>4. Sigma(HeldValues, GainOrders) = Sigma(g, GainOrders)
  BY <1>1, <1>3, SumAgrees
<1>5. Sigma(g, GainOrders) = Sigma(Worth, HeldRows)
  BY <1>1, <1>2, SumByClass DEF g
<1> QED BY <1>3, <1>4, <1>5, ValueByCard

AutoTotals == [o \in GainOrders |-> LE!AutoTotal(o)]
OrderGains == [o \in GainOrders |-> LE!OrderGain(o)]
PriceOf == [t \in DOMAIN s1 |-> s1[t].price]

\* An order's Total is its prices and its shipping, which only a row that costs
\* nothing can have apart from the others.
LEMMA AutoTotalIs ==
  ASSUME LedgerInv, AllPlain, NEW o \in GainOrders
  PROVE  LE!AutoTotal(o) = Sigma(PriceOf, LE!CashOf(o)) + LE!Shipped(o) /\ LE!AutoTotal(o) \in Nat
<1> DEFINE C == LE!CashOf(o)
           R == LE!RowsOf(o)
           all == {t \in R : s1[t].ship # 0}
           cash == {t \in C : s1[t].ship # 0}
           f == [t \in C |-> s1[t].price]
           first == IF all = {} THEN 0 ELSE s1[Min(all)].ship
           p == Sigma(PriceOf, C)
<1>1. o \in LE!Orders /\ R = {t \in DOMAIN s1 : s1[t].order = o} /\ C = {t \in R : s1[t].kind \in LE!CASH}
  BY GainOrdersAre, RowsAre DEF LE!RowsOf, LE!CashOf
<1>2. IsFiniteSet(C) /\ C \in SUBSET DOMAIN s1 /\ LE!Shipped(o) \in Nat
  BY <1>1, OrderPool
<1>3. LE!Total(f) = p /\ p \in Nat
  <2>1. DOMAIN f = C /\ \A t \in C : f[t] = PriceOf[t]
    BY <1>2 DEF PriceOf
  <2>2. \A t \in C : f[t] \in Nat
    BY <1>2, RowsAre
  <2> HIDE DEF f, C
  <2>3. LE!Total(f) = Sigma(f, C) /\ Sigma(f, C) \in Nat
    BY <1>2, <2>1, <2>2, LedgerNames, SumOfNats
  <2> QED BY <1>2, <2>1, <2>2, <2>3, SumAgrees
<1>4. LE!AutoTotal(o) = p + first
  <2>1. LE!Min(all) = Min(all)
    BY LedgerNames
  <2>2. {t \in LE!RowsOf(o) : s1[t].kind \in LE!CASH} = C
    BY <1>1
  <2>3. LE!AutoTotal(o) = LE!Total(f) + first
    BY <2>1, <2>2 DEF LE!AutoTotal
  <2> QED BY <1>3, <2>3
<1>5. LE!Shipped(o) = IF cash = {} THEN 0 ELSE s1[Min(cash)].ship
  <2>1. LE!Min(cash) = Min(cash)
    BY LedgerNames
  <2> QED BY <2>1 DEF LE!Shipped
<1>6. all # {} => Min(all) \in all
  <2>1. all \in SUBSET DOMAIN s1
    BY <1>1
  <2>2. all \in SUBSET Int /\ IsFiniteSet(all)
    BY <2>1, RowsAre, FS_Subset
  <2> HIDE DEF all
  <2>3. all # {} => \E i \in all : \A j \in all : i <= j
    BY <2>2, LeastElement
  <2> QED BY <2>3 DEF Min
<1>7. first \in Nat /\ (all # {} => first > 0)
  <2>1. CASE all # {}
    <3>1. Min(all) \in DOMAIN s1 /\ s1[Min(all)].ship # 0
      BY <1>1, <1>6, <2>1
    <3>2. s1[Min(all)].ship \in Nat
      BY <3>1, RowsAre
    <3>3. first = s1[Min(all)].ship
      BY <2>1
    <3> HIDE DEF all, first
    <3> QED BY <3>1, <3>2, <3>3
  <2> QED BY <2>1
<1>8. first = LE!Shipped(o)
  <2>1. CASE \E t \in R : s1[t].kind = "ripped"
    <3>1. p + first = 0
      BY <1>1, <1>4, <2>1, GainOrdersAre
    <3>2. first = 0
      <4> HIDE DEF p, first
      <4> QED BY <1>3, <1>7, <3>1
    <3>3. all = {}
      BY <1>7, <3>2
    <3>4. cash = {}
      BY <1>1, <3>3
    <3> QED BY <1>5, <3>2, <3>4
  <2>2. CASE \A t \in R : s1[t].kind # "ripped"
    <3>1. R = C
      <4>1. \A t \in R : s1[t].kind = "purchase"
        BY <1>1, <2>2, GainOrdersAre
      <4> QED BY <1>1, <4>1 DEF LE!CASH
    <3>2. all = cash
      BY <3>1
    <3> QED BY <1>5, <3>2
  <2> QED BY <2>1, <2>2
<1> HIDE DEF C, p, first
<1>9. LE!AutoTotal(o) = p + LE!Shipped(o) /\ LE!AutoTotal(o) \in Nat
  BY <1>2, <1>3, <1>4, <1>8
<1> QED BY <1>9 DEF p, C

\* What was bought is what the orders' Totals say.
LEMMA BoughtByOrder ==
  ASSUME LedgerInv, AllPlain
  PROVE  LE!TotalBought = Sigma(AutoTotals, GainOrders) /\ \A o \in GainOrders : AutoTotals[o] \in Int
<1> DEFINE B == Bought(DOMAIN s1)
           of == [t \in B |-> s1[t].order]
           g == ByClass(Nets, B, of, GainOrders)
<1>1. B \in SUBSET DOMAIN s1 /\ \A t \in DOMAIN s1 : t \in B <=> s1[t].kind = "purchase"
  BY DEF Bought
<1>2. LE!TotalBought = Sigma(Nets, B) /\ IsFiniteSet(B)
  <2>1. LE!TotalBought = LE!Total([t \in B |-> LE!NetInvested(t, LE!Ids)])
    BY RowsAre DEF LE!TotalBought, Bought
  <2> HIDE DEF B
  <2> QED BY <1>1, <2>1, NetTotal
<1>3. IsFiniteSet(GainOrders) /\ \A t \in B : of[t] \in GainOrders /\ Nets[t] \in Int
  <2>1. \A t \in B : t \in DOMAIN s1 /\ s1[t].kind # "sale"
    BY <1>1
  <2>2. \A t \in B : s1[t].order \in GainOrders /\ Nets[t] \in Int
    BY <2>1, GainOrdersAre, NetsAre
  <2> HIDE DEF B
  <2> QED BY <2>2, GainOrdersAre
<1>4. ASSUME NEW o \in GainOrders PROVE AutoTotals[o] = g[o] /\ AutoTotals[o] \in Int
  <2> DEFINE C == LE!CashOf(o)
  <2>1. o \in LE!Orders
    BY GainOrdersAre
  <2>2. C = {t \in DOMAIN s1 : s1[t].order = o /\ s1[t].kind \in LE!CASH}
    BY RowsAre DEF LE!CashOf, LE!RowsOf
  <2>3. \A t \in DOMAIN s1 : s1[t].order = o => s1[t].kind # "sale"
    BY GainOrdersAre
  <2>4. {t \in B : of[t] = o} = C
    BY <1>1, <2>2, <2>3 DEF LE!CASH
  <2>5. g[o] = Sigma(Nets, {t \in B : of[t] = o})
    BY DEF ByClass
  <2>6. IsFiniteSet(C) /\ C \in SUBSET DOMAIN s1
    BY <2>1, OrderPool
  <2>7. \A t \in C : PriceOf[t] \in Int /\ Shares[t] \in Int /\ Nets[t] = PriceOf[t] + Shares[t]
    <3> SUFFICES ASSUME NEW t \in C PROVE PriceOf[t] \in Int /\ Shares[t] \in Int /\ Nets[t] = PriceOf[t] + Shares[t]
      OBVIOUS
    <3>1. t \in DOMAIN s1 /\ s1[t].kind = "purchase" /\ s1[t].fee = 0
      <4>1. t \in DOMAIN s1 /\ s1[t].kind # "sale" /\ s1[t].kind \in LE!CASH
        BY <2>2, <2>3
      <4>2. s1[t].fee = 0
        BY <4>1, GainOrdersAre
      <4> QED BY <4>1, <4>2 DEF LE!CASH
    <3>2. s1[t].price \in Nat /\ Shares[t] \in Nat /\ Shares[t] = LE!Share(t, LE!Ids)
      BY <3>1, RowsAre, SharesAre
    <3>3. Nets[t] = LE!NetInvested(t, LE!Ids) /\ PriceOf[t] = s1[t].price
      BY <3>1 DEF Nets, PriceOf
    <3>4. Nets[t] = s1[t].price + s1[t].fee + Shares[t]
      BY <3>1, <3>2, <3>3 DEF LE!NetInvested
    <3> QED BY <3>1, <3>2, <3>3, <3>4
  <2> HIDE DEF B, of, g, C
  <2>8. Sigma(Nets, C) = Sigma(PriceOf, C) + Sigma(Shares, C)
    BY <2>6, <2>7, SumOfSums
  <2>9. Sigma(Shares, C) = LE!Shipped(o)
    BY <2>1, OrderShares DEF C, AllPlain
  <2>10. LE!AutoTotal(o) = Sigma(PriceOf, C) + LE!Shipped(o) /\ LE!AutoTotal(o) \in Nat
    BY AutoTotalIs DEF C
  <2>11. AutoTotals[o] = LE!AutoTotal(o)
    BY DEF AutoTotals
  <2> QED BY <2>4, <2>5, <2>8, <2>9, <2>10, <2>11
<1> HIDE DEF B, of, g
<1>5. Sigma(AutoTotals, GainOrders) = Sigma(g, GainOrders)
  BY <1>3, <1>4, SumAgrees
<1>6. Sigma(g, GainOrders) = Sigma(Nets, B)
  BY <1>2, <1>3, SumByClass DEF g
<1> QED BY <1>2, <1>4, <1>5, <1>6

\* No row was traded.
LEMMA NoTradeGain ==
  ASSUME LedgerInv, AllPlain, NEW o \in GainOrders
  PROVE  LE!TradeGain(o) = 0
<1> DEFINE f == [t \in {} |-> Market[s1[t].card] - s1[t].price]
<1>1. {t \in LE!RowsOf(o) : s1[t].kind = "in"} = {} /\ {t \in LE!RowsOf(o) : s1[t].kind = "out"} = {}
  <2>1. \A t \in LE!RowsOf(o) : t \in DOMAIN s1
    BY RowsAre DEF LE!RowsOf
  <2>2. \A t \in LE!RowsOf(o) : s1[t].kind # "in" /\ s1[t].kind # "out"
    BY <2>1, GainOrdersAre
  <2> QED BY <2>2
<1>2. LE!TradeGain(o) = LE!Total(f) - LE!Total(f)
  BY <1>1 DEF LE!TradeGain
<1>3. LE!Total(f) = 0
  <2>1. DOMAIN f = {}
    OBVIOUS
  <2> HIDE DEF f
  <2>2. LE!Total(f) = Sigma(f, {})
    BY <2>1, LedgerNames
  <2> QED BY <2>2, SumOfNone
<1> HIDE DEF f
<1> QED BY <1>2, <1>3

LEMMA GainsHold == ASSUME LedgerInv PROVE LE!GainsAddUp
<1> SUFFICES ASSUME AllPlain
             PROVE  LE!HeadlineGain = LE!Total([o \in {o \in LE!Orders : LE!HasGain(o)} |-> LE!OrderGain(o)]) + LE!TotalSold
  BY DEF LE!GainsAddUp, AllPlain
<1> DEFINE G == GainOrders
<1>1. {o \in LE!Orders : LE!HasGain(o)} = G /\ IsFiniteSet(G)
  BY GainOrdersAre DEF GainOrders
<1>2. ASSUME NEW o \in G
      PROVE  OrderGains[o] \in Int /\ AutoTotals[o] \in Int /\ HeldValues[o] = OrderGains[o] + AutoTotals[o]
  <2>1. /\ OrderGains[o] = LE!OrderGain(o) /\ AutoTotals[o] = LE!AutoTotal(o) /\ AutoTotals[o] \in Int
        /\ HeldValues[o] = HeldValue(o) /\ HeldValues[o] \in Int /\ LE!TradeGain(o) = 0
    BY ValueByOrder, BoughtByOrder, NoTradeGain DEF OrderGains, AutoTotals
  <2>2. LE!OrderGain(o) = HeldValue(o) - LE!AutoTotal(o) + LE!TradeGain(o)
    BY DEF LE!OrderGain, HeldValue
  <2> QED BY <2>1, <2>2
<1>3. LE!TotalValue = Sigma(HeldValues, G) /\ LE!TotalBought = Sigma(AutoTotals, G)
  BY ValueByOrder, BoughtByOrder
<1>4. DOMAIN OrderGains = G /\ LE!Total(OrderGains) = Sigma(OrderGains, G)
  <2>1. DOMAIN OrderGains = G
    BY DEF OrderGains
  <2> QED BY <2>1, LedgerNames
<1>5. LE!TotalSold \in Int
  <2> DEFINE O == SoldOf(DOMAIN s1)
             f == [t \in O |-> LE!NetProceeds(t, LE!Ids)]
  <2>1. LE!TotalSold = LE!Total(f)
    BY RowsAre DEF LE!TotalSold, SoldOf
  <2>2. O \in SUBSET DOMAIN s1 /\ \A t \in O : s1[t].kind = "sale"
    BY DEF SoldOf
  <2>3. DOMAIN f = O /\ \A t \in O : f[t] \in Int
    BY <2>2, NetsAre
  <2>4. IsFiniteSet(O)
    BY <2>2, RowsAre, FS_Subset
  <2> HIDE DEF O, f
  <2>5. LE!Total(f) = Sigma(f, O)
    BY <2>3, LedgerNames
  <2> QED BY <2>1, <2>3, <2>4, <2>5, SumOfInts
<1> HIDE DEF G
<1>6. Sigma(HeldValues, G) = Sigma(OrderGains, G) + Sigma(AutoTotals, G)
  BY <1>1, <1>2, SumOfSums
<1>7. Sigma(OrderGains, G) \in Int /\ Sigma(AutoTotals, G) \in Int
  BY <1>1, <1>2, SumOfInts
<1>8. LE!HeadlineGain = LE!TotalValue - (LE!TotalBought - LE!TotalSold)
  BY DEF LE!HeadlineGain, LE!Invested
<1>9. LE!HeadlineGain = LE!Total(OrderGains) + LE!TotalSold
  BY <1>3, <1>4, <1>5, <1>6, <1>7, <1>8
<1>10. OrderGains = [o \in {o \in LE!Orders : LE!HasGain(o)} |-> LE!OrderGain(o)]
  BY DEF OrderGains, GainOrders
<1> QED BY <1>9, <1>10

\* The books agree, whatever is registered, moved, edited and deleted, for any cards, days,
\* prices and shippings: each figure of net invested is the same, an order's shipping is
\* charged once, a sale's row says the same on every page, a disposal is costed against the
\* oldest free copy, the orders' gains add up to the headline's, and the fees to what was typed.
THEOREM BooksDoAgree == DailySpec => BooksAgree
<1> DEFINE I == (part = "ledger" => LedgerInv)
<1>1. DailyInit => I
  BY LedgerBegin DEF DailyInit
<1>2. I /\ [DailyNext]_dailyvars => I' /\ (part = "ledger" => LE!FeesAddUp)
  <2> SUFFICES ASSUME I, [DailyNext]_dailyvars, part = "ledger"
               PROVE  LedgerInv' /\ LE!FeesAddUp
    BY DEF DailyNext, dailyvars
  <2>1. LE!Next \/ UNCHANGED <<s1, s2, s3, s4>>
    BY DEF DailyNext, OtherPart, dailyvars
  <2> QED BY <2>1, LedgerStep, LedgerStutter, FeesStep, FeesStutter
<1>3. I => (part = "ledger" => /\ LE!InvestedAlike /\ LE!ShippingOnce /\ LE!SameOnEveryPage
                               /\ LE!OldestCopyFirst /\ LE!GainsAddUp)
  BY InvestedHolds, ShippingHolds, SameProceeds, OldestHolds, GainsHold
<1> HIDE DEF I
<1>4. I /\ [DailyNext]_dailyvars => [part = "ledger" => LE!FeesAddUp]_dailyvars
  BY <1>2
<1> QED BY <1>1, <1>2, <1>3, <1>4, PTL DEF DailySpec, BooksAgree
=============================================================================
