-------------------------------- MODULE Sets --------------------------------
(***************************************************************************)
(* Which set a card links to (Card.set_id): written by a sync with the     *)
(* card's series and set name, and by the catch-all of every cold start    *)
(* (db.py), which may run in one instance beside a sync in another.  A set *)
(* row stands for its (series, name) pair, its key.  Both read first and   *)
(* write later; the sync, through the ORM, writes the columns it changed   *)
(* as it read them.  A row that one has written is locked until it commits *)
(* and the other's UPDATE waits, then looks at the row again, so that the  *)
(* writes of each are one step.                                            *)
(***************************************************************************)
CONSTANTS
  Cards,
  Pairs     \* [series, name] a card can have in Dex

NoSet == [series |-> "none", name |-> "none"]

VARIABLES
  pair,    \* card -> its series and set, as last exported
  link,    \* card -> the set it links to, or NoSet
  sync,    \* the card a sync has read and not yet written, if any: [card, to], the link it
           \* has seen, and whether a cold start wrote it since
  cold,    \* [started: one has been through, todo: the stale pairs one has read]
  mixed    \* history: cards last written by a sync that a cold start had come between
vars == <<pair, link, sync, cold, mixed>>

Reads == [card : Cards, to : Pairs, seen : Pairs \cup {NoSet}, crossed : BOOLEAN]

TypeOK ==
  /\ pair \in [Cards -> Pairs] /\ link \in [Cards -> Pairs \cup {NoSet}]
  /\ sync \subseteq Reads /\ mixed \subseteq Cards
  /\ cold \in [started : BOOLEAN, todo : SUBSET Pairs]

\* Cards may be older than the sets, or have been linked by hand.
Init ==
  /\ pair \in [Cards -> Pairs]
  /\ link \in [Cards -> Pairs \cup {NoSet}]
  /\ sync = {} /\ mixed = {}
  /\ cold = [started |-> FALSE, todo |-> {}]

-----------------------------------------------------------------------------
(* A sync (importer.py) *)

\* The export has the card c in the set p.
ImportRead(c, p) ==
  /\ sync = {}
  /\ sync' = {[card |-> c, to |-> p, seen |-> link[c], crossed |-> FALSE]}
  /\ UNCHANGED <<pair, link, cold, mixed>>

\* Mutant: a card that has a link keeps it.
LinkedOnce(r) == IF r.seen = NoSet THEN r.to ELSE link[r.card]

\* card.set_id = ...: no column of the UPDATE when it is what was read
Linked(r) == IF r.seen = r.to THEN link[r.card] ELSE r.to

ImportWrite ==
  \E r \in sync :
    /\ pair' = [pair EXCEPT ![r.card] = r.to]
    /\ link' = [link EXCEPT ![r.card] = Linked(r)]
    /\ mixed' = IF r.crossed THEN mixed \cup {r.card} ELSE mixed \ {r.card}
    /\ sync' = {}
    /\ UNCHANGED cold

-----------------------------------------------------------------------------
(* _backfill_sets() *)

\* The pairs with a card that is not linked to the pair's own set
StalePairs == {pair[c] : c \in {c \in Cards : link[c] # pair[c]}}

\* The usual cold start finds none, and writes nothing.
ColdRead ==
  /\ cold.todo = {}
  /\ cold' = [started |-> cold.started \/ StalePairs = {}, todo |-> StalePairs]
  /\ UNCHANGED <<pair, link, sync, mixed>>

\* Mutant: only cards without a link are written.
RelinkedUnset == {c \in Cards : pair[c] \in cold.todo /\ link[c] = NoSet}

\* The rows the UPDATEs find: those with the pair by now, and another link
Relinked == {c \in Cards : pair[c] \in cold.todo /\ link[c] # pair[c]}

ColdWrite ==
  /\ cold.todo # {}
  /\ link' = [c \in Cards |-> IF c \in Relinked THEN pair[c] ELSE link[c]]
  /\ sync' = {[r EXCEPT !.crossed = @ \/ r.card \in Relinked] : r \in sync}
  /\ mixed' = mixed \ Relinked
  /\ cold' = [started |-> TRUE, todo |-> {}]
  /\ UNCHANGED pair

\* Either is killed, or fails on a set that the other creates at the same moment.
Rollback ==
  /\ \/ sync # {} /\ sync' = {} /\ UNCHANGED cold
     \/ cold.todo # {} /\ cold' = [cold EXCEPT !.todo = {}] /\ UNCHANGED sync
  /\ UNCHANGED <<pair, link, mixed>>

Next ==
  \/ \E c \in Cards, p \in Pairs : ImportRead(c, p)
  \/ ImportWrite \/ ColdRead \/ ColdWrite \/ Rollback

Spec == Init /\ [][Next]_vars

-----------------------------------------------------------------------------
(* From the first cold start on every card links to the set it is in, also  *)
(* after Dex renames its set or moves it to another, and whatever reads and *)
(* writes of syncs and cold starts interleave; only a card that was written *)
(* by a cold start between a sync's read and its write may be left wrong,   *)
(* until it is next synced or an instance starts.                           *)
CardsLinked == cold.started => \A c \in Cards \ mixed : link[c] = pair[c]

(* Not kept (README, Remarks): no card is left linked to another set. *)
EveryCardLinked == cold.started => \A c \in Cards : link[c] = pair[c]
=============================================================================
