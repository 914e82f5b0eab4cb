----------------------------- MODULE Checklists -----------------------------
(***************************************************************************)
(* How a set's checklist comes to be (masterdata.py,                       *)
(* set_checklist_seed.py): Dex's cards create master cards, one per number *)
(* and variant; the seed, run by hand from another machine, puts every     *)
(* print TCGdex lists on a master card, an existing one where it can, and  *)
(* makes the checklist's members exactly those.  One set; descriptive      *)
(* columns (name, rarity, image) are left out.                             *)
(***************************************************************************)
EXTENDS Counting, SequencesExt

CONSTANTS
  Cards,       \* 1..n: rows Dex may export, in its order
  PrintOf,     \* card -> [number, variant], its master key
  Catalogues,  \* what TCGdex may list: number -> entries of variants_detailed
  Official,    \* the set's official count: numbers above it are secret
  MaxMatches   \* bound on the IDs matched or corrected outside the seed

None == "none"
BASE_VARIANTS == {"normal", "holo"}
BALL_FOILS == [pokeball |-> "poke_ball_holo", masterball |-> "master_ball_holo"]
BALL_TRACKS == [pokeball |-> "poke_ball", masterball |-> "master_ball"]
Absent == -1
Unlinked == 0
Unknown == 0
Nothing == <<>>
Idle == [catalogue |-> Nothing, masters |-> <<>>, owned |-> {}]

VARIABLES
  catalogue, \* what TCGdex lists now
  masters,   \* master_cards, oldest first: [number, variant, tcgdex]; tcgdex is how its ID was matched
  cards,     \* card -> its master, Unlinked, or Absent
  checklist, \* member -> track, Nothing before the first seed
  total,     \* sets.total_cards, or Unknown
  seed,      \* what the seed under way has read, or Idle
  seeded,    \* history: the catalogue the checklist was made of
  settled,   \* history: nothing has changed since that seed read it
  matches    \* IDs matched so far
vars == <<catalogue, masters, cards, checklist, total, seed, seeded, settled, matches>>

Key(m) == [number |-> m.number, variant |-> m.variant]
Owned == {cards[c] : c \in {c \in Cards : cards[c] > 0}}

TypeOK ==
  /\ catalogue \in Catalogues
  /\ \A m, n \in DOMAIN masters : Key(masters[m]) = Key(masters[n]) => m = n
  /\ \A m \in DOMAIN masters : masters[m].tcgdex \in {None, "verified", "verified_number", "manual"}
  /\ \A c \in Cards : cards[c] > 0 => Key(masters[cards[c]]) = PrintOf[c]
  /\ DOMAIN checklist \subseteq DOMAIN masters

\* Cards may be older than masterdata.
Init ==
  /\ catalogue \in Catalogues
  /\ masters = <<>> /\ cards \in [Cards -> {Absent, Unlinked}]
  /\ checklist = Nothing /\ total = Unknown
  /\ seed = Idle /\ seeded = Nothing /\ settled = FALSE /\ matches = 0

-----------------------------------------------------------------------------
(* masterdata.py *)

\* _get_or_create_master() of each card of S
Created(S) ==
  LET first == {c \in S : /\ \A m \in DOMAIN masters : Key(masters[m]) # PrintOf[c]
                          /\ \A d \in S : PrintOf[d] = PrintOf[c] => c <= d}
      row(c) == [number |-> PrintOf[c].number, variant |-> PrintOf[c].variant, tcgdex |-> None]
  IN  [i \in 1..Cardinality(first) |-> row(Nth(first, i))]

\* link_card()
LinkCards(S) ==
  /\ masters' = masters \o Created(S)
  /\ cards' = [c \in Cards |-> IF c \in S THEN CHOOSE m \in DOMAIN masters' : Key(masters'[m]) = PrintOf[c]
                               ELSE cards[c]]
  /\ settled' = FALSE
  /\ UNCHANGED <<catalogue, checklist, total, seed, seeded, matches>>

\* A sync: cards that are new, or were never linked
Import(S) == S # {} /\ (\A c \in S : cards[c] <= Unlinked) /\ LinkCards(S)

\* backfill_master_cards(), at a cold start
Backfill ==
  LET S == {c \in Cards : cards[c] = Unlinked}
  IN  S # {} /\ LinkCards(S)

\* A card is deleted; its master card stays.
Delete(c) ==
  /\ cards[c] # Absent
  /\ cards' = [cards EXCEPT ![c] = Absent]
  /\ settled' = FALSE
  /\ UNCHANGED <<catalogue, masters, checklist, total, seed, seeded, matches>>

\* Mutant: an automatic match overwrites any other.
MatchedAlways(old, how) == how

\* set_external_id(): what the mapping becomes
Matched(old, how) == IF old = "manual" /\ how # "manual" THEN old ELSE how

SetId(m, how) ==
  /\ matches < MaxMatches /\ matches' = matches + 1
  /\ masters' = [masters EXCEPT ![m].tcgdex = Matched(masters[m].tcgdex, how)]
  /\ settled' = FALSE
  /\ UNCHANGED <<catalogue, cards, checklist, total, seed, seeded>>

\* The TCGdex price run matches an owned card whose ID it does not know.
Verify(m) == m \in Owned /\ masters[m].tcgdex = None /\ \E how \in {"verified", "verified_number"} : SetId(m, how)

\* A wrong match is corrected in the database.
Correct(m) == SetId(m, "manual")

-----------------------------------------------------------------------------
(* set_checklist_seed.py *)

\* plan_prints(): each number's one base print and its ball prints; plain
\* reverse, other foils, stamped and oversized ones are skipped.
Readable(cat) == \A n \in DOMAIN cat : Cardinality(cat[n] \cap BASE_VARIANTS) = 1
Prints(cat) ==
  UNION {{[number |-> n, variant |-> v, base |-> TRUE, track |-> IF n <= Official THEN "main" ELSE "secret"] :
             v \in cat[n] \cap BASE_VARIANTS}
         \cup {[number |-> n, variant |-> BALL_FOILS[f], base |-> FALSE, track |-> BALL_TRACKS[f]] :
                 f \in cat[n] \cap DOMAIN BALL_FOILS}
         : n \in DOMAIN cat}

\* A base print fits whichever of Normal and Holo the number already has.
Fits(m, p) == m.number = p.number /\ IF p.base THEN m.variant \in BASE_VARIANTS ELSE m.variant = p.variant

\* Mutant: TCGdex's word comes before the cards owned.
ChooseBaseListed(S, p, ms, owned) ==
  CHOOSE m \in S : \A n \in S : (ms[n].variant = p.variant => ms[m].variant = p.variant)

\* The elements of A in B, if there are any
Preferred(A, B) == IF A \cap B = {} THEN A ELSE A \cap B

\* _choose_base(): the one with owned cards, then TCGdex's, then the oldest
ChooseBase(S, p, ms, owned) ==
  LET best == Preferred(Preferred(S, owned), {m \in S : ms[m].variant = p.variant})
  IN  CHOOSE m \in best : \A n \in best : m <= n

\* Mutant: only the master cards of owned cards are looked at.
PlanOwned(cat, ms, owned) ==
  LET fitting(p) == {m \in owned : Fits(ms[m], p)}
      new == SetToSeq({p \in Prints(cat) : fitting(p) = {}})
  IN  [added |-> [i \in DOMAIN new |->
                   [number |-> new[i].number, variant |-> new[i].variant, tcgdex |-> "verified_number"]],
       place |-> [p \in Prints(cat) |->
                   IF fitting(p) = {} THEN -(CHOOSE i \in DOMAIN new : new[i] = p)
                   ELSE ChooseBase(fitting(p), p, ms, owned)]]

\* The master cards a print fits, and the prints that fit none
Fitting(p, ms) == {m \in DOMAIN ms : Fits(ms[m], p)}
Fresh(cat, ms) == {p \in Prints(cat) : Fitting(p, ms) = {}}

\* Every print's master card: an existing one, or a new one at the end
Plan(cat, ms, owned) ==
  LET new == SetToSeq(Fresh(cat, ms))
  IN  [added |-> [i \in DOMAIN new |->
                   [number |-> new[i].number, variant |-> new[i].variant, tcgdex |-> "verified_number"]],
       place |-> [p \in Prints(cat) |->
                   IF Fitting(p, ms) = {} THEN -(CHOOSE i \in DOMAIN new : new[i] = p)
                   ELSE ChooseBase(Fitting(p, ms), p, ms, owned)]]

\* The set and its cards are fetched, then the master cards and the owned ones
\* are read.  A list that cannot be read safely ends the run with nothing written.
SeedRead ==
  /\ seed = Idle /\ Readable(catalogue)
  /\ seed' = [catalogue |-> catalogue, masters |-> masters, owned |-> Owned]
  /\ UNCHANGED <<catalogue, masters, cards, checklist, total, seeded, settled, matches>>

\* Mutant: members that are no longer listed stay.
MembersKept(plan) ==
  LET id(p) == IF plan.place[p] < 0 THEN Len(masters) - plan.place[p] ELSE plan.place[p]
  IN  [m \in {id(p) : p \in DOMAIN plan.place} \cup DOMAIN checklist |->
        IF m \in {id(p) : p \in DOMAIN plan.place} THEN (CHOOSE p \in DOMAIN plan.place : id(p) = m).track
        ELSE checklist[m]]

\* What the transaction leaves, if no unique constraint refuses it.  New
\* masters get the IDs that follow those that were created meanwhile.
Members(plan) ==
  LET id(p) == IF plan.place[p] < 0 THEN Len(masters) - plan.place[p] ELSE plan.place[p]
  IN  [m \in {id(p) : p \in DOMAIN plan.place} |-> (CHOOSE p \in DOMAIN plan.place : id(p) = m).track]

\* An ID row is written only where the mapping read was another one.
Ids(plan, read) ==
  LET placed == {plan.place[p] : p \in DOMAIN plan.place}
  IN  [m \in DOMAIN masters |->
        IF m \in placed /\ Matched(read[m].tcgdex, "verified_number") # read[m].tcgdex
          THEN [masters[m] EXCEPT !.tcgdex = "verified_number"] ELSE masters[m]]

\* Mutant: master cards have no unique key.
RefusedIds(plan) ==
  \E m \in {plan.place[p] : p \in DOMAIN plan.place} \cap DOMAIN seed.masters :
    seed.masters[m].tcgdex = None /\ masters[m].tcgdex # None

\* uq_master_cards_key, uq_master_card_ids_master_source
Refused(plan) ==
  \/ \E m \in DOMAIN masters, i \in DOMAIN plan.added : Key(masters[m]) = Key(plan.added[i])
  \/ \E m \in {plan.place[p] : p \in DOMAIN plan.place} \cap DOMAIN seed.masters :
       seed.masters[m].tcgdex = None /\ masters[m].tcgdex # None

BasePrints(cat) == Cardinality({p \in Prints(cat) : p.base})

SeedCommit ==
  /\ seed # Idle
  /\ LET plan == Plan(seed.catalogue, seed.masters, seed.owned)
     IN  /\ ~Refused(plan)
         /\ masters' = Ids(plan, seed.masters) \o plan.added
         /\ checklist' = Members(plan)
  /\ total' = IF \E c \in Cards : cards[c] > 0 THEN BasePrints(seed.catalogue) ELSE total
  /\ seeded' = seed.catalogue
  /\ settled' = (seed.masters = masters /\ seed.owned = Owned)
  /\ seed' = Idle
  /\ UNCHANGED <<catalogue, cards, matches>>

\* A unique constraint, or a lost connection: the transaction is rolled back.
SeedFails ==
  /\ seed # Idle
  /\ seed' = Idle
  /\ UNCHANGED <<catalogue, masters, cards, checklist, total, seeded, settled, matches>>

Publish(cat) ==
  /\ cat # catalogue
  /\ catalogue' = cat
  /\ UNCHANGED <<masters, cards, checklist, total, seed, seeded, settled, matches>>

Next ==
  \/ \E S \in SUBSET Cards : Import(S)
  \/ Backfill
  \/ \E c \in Cards : Delete(c)
  \/ \E m \in DOMAIN masters : Verify(m) \/ Correct(m)
  \/ SeedRead \/ SeedCommit \/ SeedFails
  \/ \E cat \in Catalogues : Publish(cat)

Spec == Init /\ [][Next]_vars

-----------------------------------------------------------------------------
(* "Make the checklist's membership exactly those prints": whatever has     *)
(* happened to the cards and master cards since, and while the seed ran,    *)
(* each print of the list it was made of has one member on its track, no    *)
(* two prints share one, and there is no other.                             *)
SlotPerPrint ==
  seeded # Nothing =>
    /\ Cardinality(DOMAIN checklist) = Cardinality(Prints(seeded))
    /\ \A p \in Prints(seeded) :
         Cardinality({m \in DOMAIN checklist :
            /\ masters[m].number = p.number /\ checklist[m] = p.track
            /\ masters[m].variant = p.variant \/ (p.base /\ masters[m].variant \in BASE_VARIANTS)}) = 1

(* "The base slot is whatever master card already holds that number's       *)
(* Normal or Holo print": after a seed that nothing ran beside, an owned    *)
(* card of a listed print is on its slot, unless another owned card is.     *)
OwnedPrintHasSlot ==
  settled => \A c \in Cards : cards[c] > 0 =>
    \A p \in Prints(seeded) :
      (p.number = PrintOf[c].number
       /\ (p.variant = PrintOf[c].variant \/ (p.base /\ PrintOf[c].variant \in BASE_VARIANTS)))
      => \E m \in DOMAIN checklist : checklist[m] = p.track /\ masters[m].number = p.number /\ m \in Owned

(* "A second run against unchanged TCGdex data changes nothing": with        *)
(* nothing else changed either, the plan of the next run creates no master  *)
(* card, rewrites no ID, and has the members and the total there are.       *)
SecondSeedIdle ==
  (settled /\ seed = Idle /\ catalogue = seeded) =>
    LET plan == Plan(catalogue, masters, Owned)
    IN  /\ plan.added = <<>> /\ Ids(plan, masters) = masters
        /\ Members(plan) = checklist
        /\ Owned # {} => total = BasePrints(catalogue)

(* A mapping that was manual when a run read it is never overwritten by it, *)
(* nor by a price run or a sync.                                            *)
ManualIdStays ==
  \A m \in DOMAIN masters :
    (masters[m].tcgdex = "manual" /\ (seed # Idle /\ m \in DOMAIN seed.masters => seed.masters[m].tcgdex = "manual"))
    => masters'[m].tcgdex = "manual"
=============================================================================
