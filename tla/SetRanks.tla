------------------------------ MODULE SetRanks ------------------------------
(***************************************************************************)
(* The release ranks and sizes of sets, filled in by the monthly set sync  *)
(* (set_sync.py) from api.pokemontcg.io, whose list grows: by new sets, by *)
(* older ones it had not listed, by sets of the same day or of no known    *)
(* day.  A set row is created by a sync or a cold start, at any time.      *)
(***************************************************************************)
EXTENDS Integers, FiniteSets

CONSTANTS
  Pairs,    \* [series, name]: the key of a set
  Api,      \* sets the API may come to list: [id, series, name, date, total]
  HandRanks \* set_release_order: pair -> rank, for the pairs in it

Unknown == 0
Undated == 0

VARIABLES
  sets,    \* the set rows: pair -> [rank, total]; history: the list its rank is from (`from`)
           \* and the set of that list it matched (`of`), both empty when its rank is not from one
  api      \* the sets the API lists
vars == <<sets, api>>

TypeOK ==
  /\ DOMAIN sets \subseteq Pairs
  /\ \A p \in DOMAIN sets :
       /\ sets[p].rank \in Nat /\ sets[p].total \in Nat
       /\ sets[p].from \subseteq Api /\ sets[p].of \subseteq sets[p].from
  /\ api \subseteq Api

Init == sets = [p \in {} |-> 0] /\ api = {}

-----------------------------------------------------------------------------
\* get_or_create_set(): by a sync with no rank, by a cold start with the hand-made one
Create(p, rank) ==
  /\ p \notin DOMAIN sets
  /\ rank = Unknown \/ (p \in DOMAIN HandRanks /\ rank = HandRanks[p])
  /\ sets' = [q \in DOMAIN sets \cup {p} |->
               IF q = p THEN [rank |-> rank, total |-> Unknown, from |-> {}, of |-> {}] ELSE sets[q]]
  /\ UNCHANGED api

\* _match(): by name; by series only where the name is ambiguous
Matches(p) ==
  LET named == {s \in api : s.name = p.name}
      sameSeries == {s \in named : s.series = p.series}
  IN  IF Cardinality(named) = 1 THEN named
      ELSE IF Cardinality(sameSeries) = 1 THEN sameSeries ELSE {}

\* The sort key: the release date, a missing one last, then the ID
Before(s, t) ==
  \/ s.date # Undated /\ (t.date = Undated \/ s.date < t.date)
  \/ s.date = t.date /\ s.id < t.id

\* Mutant: the rank counts the matched sets only.
ApiRankOfOurs(s) == Cardinality({t \in api : Before(t, s) /\ \E p \in DOMAIN sets : t \in Matches(p)}) + 1

\* _release_ranks(): ordinal, over every set the API lists
ApiRank(s) == Cardinality({t \in api : Before(t, s)}) + 1

\* The row of p, which matches s
Filled(p, s, overwrite) ==
  IF overwrite \/ sets[p].rank = Unknown
  THEN [rank |-> ApiRank(s), total |-> s.total, from |-> api, of |-> {s}]
  ELSE [sets[p] EXCEPT !.total = s.total]

\* sync_set_metadata(); only a run by hand overwrites ranks.
SetSync(overwrite) ==
  /\ api # {}
  /\ sets' = [p \in DOMAIN sets |->
               IF Matches(p) = {} THEN sets[p]
               ELSE Filled(p, CHOOSE s \in Matches(p) : TRUE, overwrite)]
  /\ UNCHANGED api

Publish(s) ==
  /\ s \notin api
  /\ api' = api \cup {s}
  /\ UNCHANGED sets

Next ==
  \/ \E p \in Pairs : \E rank \in {Unknown} \cup {HandRanks[q] : q \in DOMAIN HandRanks} : Create(p, rank)
  \/ \E overwrite \in BOOLEAN : SetSync(overwrite)
  \/ \E s \in Api : Publish(s)

Spec == Init /\ [][Next]_vars

-----------------------------------------------------------------------------
(* Ranks that runs of different months gave compare as the release order    *)
(* does ("dense and consistent across the whole matched population"), even  *)
(* though only some sets had been created when each run matched them: the   *)
(* one exception is a set that was ranked first, and before which the API   *)
(* came to list another before the older one was ranked.                    *)
RanksFollowDates ==
  \A p, q \in DOMAIN sets : \A s \in sets[p].of, t \in sets[q].of :
    Before(s, t) /\ ~(\E u \in sets[p].from \ sets[q].from : Before(u, t))
    => sets[p].rank < sets[q].rank

(* Not kept (README, Remarks), when ranks are only filled in: an older set  *)
(* listed later moves the ranks of the runs to come.                        *)
RanksAlwaysFollowDates ==
  \A p, q \in DOMAIN sets : \A s \in sets[p].of, t \in sets[q].of :
    Before(s, t) => sets[p].rank < sets[q].rank
=============================================================================
