---------------------------- MODULE ExchangeRates ----------------------------
(***************************************************************************)
(* The NOK exchange rates (fx_rates.py): the cache and the last known      *)
(* rates of each process, the fx_rates table they share, and an API that   *)
(* may not answer, or not for every currency.  Time is in ticks.           *)
(***************************************************************************)
EXTENDS Integers

CONSTANTS
  Processes,  \* warm instances of the function
  Currencies,
  CacheTtl,   \* _CACHE_TTL, in ticks
  FailureTtl, \* _FAILURE_TTL
  Old         \* bound on ages, at least 2 * CacheTtl

VARIABLES
  cache, \* each process's _cache: [source, constant, filled, kept, age], or NoRates
  left,  \* ticks until it expires
  known, \* _last_known
  table  \* the newest row of each currency: [there, constant, age]
vars == <<cache, left, known, table>>

\* `constant`: the currencies whose rate is FALLBACK_RATES'; `filled`: the
\* ones marked so (fallback_currencies); `kept`: those an answer lacked, with
\* the rate of before; `age`: of each, since an answer had it.
Rates(source, constant, filled, kept, age) ==
  [source |-> source, constant |-> constant, filled |-> filled, kept |-> kept, age |-> age]
New == [c \in Currencies |-> 0]
NoRates == Rates("none", {}, {}, {}, New)
Fallback == Rates("fallback", Currencies, {}, {}, New)
NoRow == [there |-> FALSE, constant |-> FALSE, age |-> Old]

TypeOK ==
  /\ \A p \in Processes : /\ cache[p].source \in {"none", "live", "last-known", "stored", "fallback"}
                          /\ known[p].source \in {"none", "live"}
                          /\ cache[p].constant \cup cache[p].filled \cup cache[p].kept \subseteq Currencies
                          /\ cache[p].age \in [Currencies -> 0..Old]
                          /\ cache[p] = NoRates => left[p] = 0
  /\ left \in [Processes -> 0..CacheTtl]
  /\ table \in [Currencies -> [there : BOOLEAN, constant : BOOLEAN, age : 0..Old]]

Init ==
  /\ cache = [p \in Processes |-> NoRates]
  /\ left = [p \in Processes |-> 0]
  /\ known = [p \in Processes |-> NoRates]
  /\ table = [c \in Currencies |-> NoRow]

\* FxRates.usable()
Usable(rates, c) == rates.source # "fallback" /\ c \notin rates.filled

-----------------------------------------------------------------------------
\* Mutant: a stored rate counts however old it is.
RecentAny(c) == table[c].there

Recent(c) == table[c].there /\ table[c].age <= CacheTtl

\* _load_stored(): what is missing is filled in from the constants.
Stored(found, source) ==
  Rates(source,
        (Currencies \ found) \cup {c \in found : table[c].constant},
        Currencies \ found,
        {},
        [c \in Currencies |-> IF c \in found THEN table[c].age ELSE 0])

\* A response with the rates of `found`, the others taken from _last_known,
\* which may have kept them from an earlier answer itself.
Live(p, found) ==
  LET kept == IF known[p] = NoRates THEN {} ELSE (Currencies \ known[p].filled) \ found
  IN  Rates("live",
            Currencies \ (found \cup (kept \ known[p].constant)),
            Currencies \ (found \cup kept),
            kept,
            [c \in Currencies |-> IF c \in kept THEN known[p].age[c] ELSE 0])

\* Mutant: the rates are stored with what was filled in.
PersistMerged(p, found) ==
  [c \in Currencies |-> [there |-> TRUE, constant |-> c \in Live(p, found).constant, age |-> 0]]

\* _store(): only what the API returned
Persist(p, found) ==
  [c \in Currencies |-> IF c \in found THEN [there |-> TRUE, constant |-> FALSE, age |-> 0] ELSE table[c]]

-----------------------------------------------------------------------------
(* get_rates() when the cache has expired.  `bind`: the database can be read,
   `stored`: and written. *)

Keep(p, rates, ttl) ==
  /\ cache' = [cache EXCEPT ![p] = rates]
  /\ left' = [left EXCEPT ![p] = ttl]

RecentRates(bind) == IF bind THEN {c \in Currencies : Recent(c)} ELSE {}

GetStored(p) ==
  LET found == RecentRates(TRUE)
  IN  /\ left[p] = 0 /\ found # {}
      /\ Keep(p, Stored(found, "live"), CacheTtl)
      /\ known' = [known EXCEPT ![p] = Stored(found, "live")]
      /\ UNCHANGED table

GetLive(p, bind, found, stored) ==
  /\ left[p] = 0 /\ RecentRates(bind) = {} /\ found # {}
  /\ Keep(p, Live(p, found), CacheTtl)
  /\ known' = [known EXCEPT ![p] = Live(p, found)]
  /\ table' = IF stored THEN Persist(p, found) ELSE table

\* The API does not answer.
GetFallback(p, bind) ==
  LET all == IF bind THEN {c \in Currencies : table[c].there} ELSE {}
  IN  /\ left[p] = 0 /\ RecentRates(bind) = {}
      /\ Keep(p,
              IF known[p] # NoRates THEN [known[p] EXCEPT !.source = "last-known"]
              ELSE IF all # {} THEN Stored(all, "stored") ELSE Fallback,
              FailureTtl)
      /\ UNCHANGED <<known, table>>

\* A cold start
Restart(p) ==
  /\ cache' = [cache EXCEPT ![p] = NoRates]
  /\ left' = [left EXCEPT ![p] = 0]
  /\ known' = [known EXCEPT ![p] = NoRates]
  /\ UNCHANGED table

Aged(n) == IF n < Old THEN n + 1 ELSE Old
AgedRates(rates) ==
  IF rates.source \in {"none", "fallback"} THEN rates
  ELSE [rates EXCEPT !.age = [c \in Currencies |-> IF c \in rates.filled THEN 0 ELSE Aged(@[c])]]

Tick ==
  /\ cache' = [p \in Processes |-> AgedRates(cache[p])]
  /\ known' = [p \in Processes |-> AgedRates(known[p])]
  /\ left' = [p \in Processes |-> IF left[p] > 0 THEN left[p] - 1 ELSE 0]
  /\ table' = [c \in Currencies |-> [table[c] EXCEPT !.age = Aged(@)]]

Get(p) ==
  \/ GetStored(p)
  \/ \E bind, stored \in BOOLEAN, found \in SUBSET Currencies : GetLive(p, bind, found, stored)
  \/ \E bind \in BOOLEAN : GetFallback(p, bind)

Next == (\E p \in Processes : Get(p) \/ Restart(p)) \/ Tick

Spec == Init /\ [][Next]_vars

-----------------------------------------------------------------------------
(* "A fallback rate is never used to store a price": what any process calls
   usable was observed by Norges Bank, also when it comes from the table that
   another process filled after an answer without it. *)
UsableIsObserved ==
  \A p \in Processes : cache[p].source # "none" =>
    \A c \in Currencies : Usable(cache[p], c) => c \notin cache[p].constant

(* A "live" rate may be taken from the table just before it is too old, and
   then be cached: what an answer had, this process's or the one that filled
   the table, is at most twice _CACHE_TTL old.  A currency an answer lacked
   is as old as the last answer with it. *)
LiveIsRecent ==
  \A p \in Processes : left[p] > 0 /\ cache[p].source = "live" =>
    \A c \in Currencies \ (cache[p].filled \cup cache[p].kept) : cache[p].age[c] < 2 * CacheTtl

(* Not kept (README, Remarks): "live: fetched from Norges Bank within the last
   _CACHE_TTL", for any of the currencies. *)
LiveWithinTtl ==
  \A p \in Processes : left[p] > 0 /\ cache[p].source = "live" =>
    \A c \in Currencies \ cache[p].filled : cache[p].age[c] <= CacheTtl
=============================================================================
