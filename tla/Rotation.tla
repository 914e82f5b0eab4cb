------------------------------ MODULE Rotation ------------------------------
(***************************************************************************)
(* Which cards a daily price pass asks for, and in which order.  The       *)
(* TCGdex pass (tcgdex_prices.py): never priced first, then the oldest     *)
(* price, one card per lookup.  PokeTrace's (poketrace_prices.py): the     *)
(* cards whose IDs are known in batches, then the others one by one, the   *)
(* most valuable first.  Each sends as many requests as its budget of the  *)
(* day; one that fails for a passing reason stamps none of its cards, and  *)
(* a few in a row end the run.                                             *)
(***************************************************************************)
EXTENDS Integers, Sequences, FiniteSetsExt

CONSTANTS
  Passes,      \* the passes checked: [source : "tcgdex" or "poketrace", budget: requests of a day]
  N,           \* cards, the most valuable first
  Elsewhere,   \* cards that another source has a price for
  Broken,      \* cards the service always answers with an error (5xx) for
  Linkable,    \* cards whose PokeTrace record gives a TCGplayer ID
  BatchSize,   \* BATCH_SIZE, cards in a request of known IDs
  MaxErrors,   \* MAX_CONSECUTIVE_ERRORS
  CommitEvery, \* cards per commit, of each source
  StaleAfter,  \* days a price is not looked up again
  RetryAfter,  \* days a failed lookup is not tried again, of each source
  Old,         \* bound on ages
  MaxOutages   \* bound on runs that are killed, cut short or met with errors

Cards == 1..N
Never == Old + 1
Ages == 0..Never

VARIABLES
  pass,    \* the pass whose cards these are
  card,    \* [age, failed] of each card: of its price, and of its failed lookup
  linked,  \* cards with both IDs stored, for a batch
  queue,   \* the requests left to the run, each the cards it asks for
  got,     \* has the first of them been answered? its cards are recorded one by one
  pending, \* what is not committed yet: [card, ok, link]
  errors,  \* errors in a row
  ran,     \* has today's run ended?
  outages
vars == <<pass, card, linked, queue, got, pending, errors, ran, outages>>

TypeOK ==
  /\ pass \in Passes
  /\ card \in [Cards -> [age : Ages, failed : Ages]] /\ linked \subseteq Cards
  /\ queue \in Seq(SUBSET Cards) /\ Len(queue) <= pass.budget /\ got \in BOOLEAN
  /\ pending \in Seq([card : Cards, ok : BOOLEAN, link : BOOLEAN])
  /\ Len(pending) < CommitEvery[pass.source]
  /\ errors \in 0..(MaxErrors - 1) /\ ran \in BOOLEAN /\ outages \in 0..MaxOutages

Init ==
  /\ pass \in Passes
  /\ card = [c \in Cards |-> [age |-> Never, failed |-> Never]] /\ linked = {}
  /\ queue = <<>> /\ got = FALSE /\ pending = <<>> /\ errors = 0
  /\ ran = FALSE /\ outages = 0

-----------------------------------------------------------------------------
(* The order *)

\* Mutant: a failed lookup is tried again at once.
DueAfterFailure(c) == card[c].age > StaleAfter

\* due_filter()
Due(c) == card[c].age > StaleAfter /\ card[c].failed > RetryAfter[pass.source]

DueOnes == {c \in Cards : Due(c)}

\* Mutant: a card with a price comes before one that has none.
ClassPricedFirst(c) == IF card[c].age # Never THEN 0 ELSE 1

\* _priority(): no price at all, the oldest price, never tried, a retry
Class(c) ==
  LET failed == card[c].failed # Never
      priced == card[c].age # Never
  IN  IF ~priced /\ c \notin Elsewhere /\ ~failed THEN 0 ELSE IF priced THEN 1 ELSE IF ~failed THEN 2 ELSE 3

Age(c) == IF Class(c) = 1 THEN card[c].age ELSE IF Class(c) = 3 THEN card[c].failed ELSE 0

\* Is c asked for before d, or c itself?
Before(c, d) ==
  IF pass.source = "tcgdex"
  THEN \/ Class(c) < Class(d)
       \/ Class(c) = Class(d) /\ Age(c) > Age(d)
       \/ Class(c) = Class(d) /\ Age(c) = Age(d) /\ c <= d
  ELSE c <= d

\* The cards of PokeTrace's batches, and the number of their requests
Batched == IF pass.source = "poketrace" THEN linked \cap DueOnes ELSE {}
Batches == (Cardinality(Batched) + BatchSize - 1) \div BatchSize
Place(c, S) == Cardinality({d \in S : Before(d, c)})

\* The number of the request that asks for a due card
RequestOf(c) ==
  IF c \in Batched THEN (Place(c, Batched) + BatchSize - 1) \div BatchSize
                   ELSE Batches + Place(c, DueOnes \ Batched)
AllRequests == Batches + Cardinality(DueOnes \ Batched)

\* Mutant: the budget is not looked at.
AllOfThem(n) == n

\* MAX_LOOKUPS_PER_RUN, or the requests of a day
Cut(n) == Min({pass.budget, n})

Requests == [k \in 1..Cut(AllRequests) |-> {c \in DueOnes : RequestOf(c) = k}]

-----------------------------------------------------------------------------
(* A run *)

Start ==
  /\ ~ran /\ queue = <<>> /\ pending = <<>>
  /\ DueOnes # {}
  /\ queue' = Requests /\ errors' = 0
  /\ UNCHANGED <<pass, card, linked, got, pending, ran, outages>>

\* Mutant: only a price is stamped.
StampedPrice(c, ok) == IF ok THEN [age |-> 0, failed |-> Never] ELSE card[c]

\* record_price() clears the failure stamp, record_failure() keeps the price.
Stamped(c, ok) == IF ok THEN [age |-> 0, failed |-> Never] ELSE [card[c] EXCEPT !.failed = 0]

\* commit()
Written(answers) ==
  /\ card' = [c \in Cards |->
                LET mine == {i \in DOMAIN answers : answers[i].card = c}
                IN  IF mine = {} THEN card[c] ELSE Stamped(c, \E i \in mine : answers[i].ok)]
  /\ linked' = linked \cup {answers[i].card : i \in {j \in DOMAIN answers : answers[j].link}}

\* The rest of the queue is dropped, what was answered is committed.
Stop(answers) ==
  /\ Written(answers)
  /\ pending' = <<>> /\ queue' = <<>> /\ got' = FALSE /\ errors' = 0
  /\ ran' = TRUE

\* The first request, answered, gives a card a price, or nothing usable; a new
\* match also stores the card's IDs.
Answer(c, found, ok) ==
  LET answers == Append(pending, [card |-> c, ok |-> ok,
                                  link |-> found /\ pass.source = "poketrace" /\ c \in Linkable])
      rest == Head(queue) \ {c}
  IN  /\ queue # <<>> /\ c \in Head(queue) /\ \A d \in Head(queue) : c <= d
      /\ got \/ Head(queue) \cap Broken = {}
      /\ ok => found
      /\ IF rest = {} /\ Len(queue) = 1 THEN Stop(answers)
         ELSE /\ queue' = IF rest = {} THEN Tail(queue) ELSE [queue EXCEPT ![1] = rest]
              /\ got' = (rest # {}) /\ errors' = 0
              /\ IF Len(answers) = CommitEvery[pass.source] THEN Written(answers) /\ pending' = <<>>
                 ELSE UNCHANGED <<card, linked>> /\ pending' = answers
              /\ UNCHANGED ran
      /\ UNCHANGED <<pass, outages>>

\* TransientError: nothing is recorded of the request, all cards of a batch; the
\* last of MaxErrors in a row ends the run.
Transient ==
  /\ queue # <<>> /\ ~got
  /\ Head(queue) \cap Broken # {} \/ outages < MaxOutages
  /\ outages' = IF Head(queue) \cap Broken # {} THEN outages ELSE outages + 1
  /\ UNCHANGED pass
  /\ IF Len(queue) = 1 \/ errors + 1 = MaxErrors THEN Stop(pending)
     ELSE queue' = Tail(queue) /\ errors' = errors + 1 /\ UNCHANGED <<card, linked, got, pending, ran>>

\* Out of time, or rate limited
CutShort ==
  /\ queue # <<>> /\ ~got /\ outages < MaxOutages
  /\ outages' = outages + 1
  /\ Stop(pending)
  /\ UNCHANGED pass

\* The function is killed: what is not committed is lost.
Kill ==
  /\ queue # <<>> /\ outages < MaxOutages
  /\ outages' = outages + 1
  /\ ran' = TRUE /\ queue' = <<>> /\ got' = FALSE /\ pending' = <<>> /\ errors' = 0
  /\ UNCHANGED <<pass, card, linked>>

Older(age) == IF age < Old THEN age + 1 ELSE age

\* A new day; the cron runs daily.
Midnight ==
  /\ queue = <<>> /\ (ran \/ DueOnes = {})
  /\ card' = [c \in Cards |-> [age |-> Older(card[c].age), failed |-> Older(card[c].failed)]]
  /\ ran' = FALSE
  /\ UNCHANGED <<pass, linked, queue, got, pending, errors, outages>>

Run == (\E c \in Cards, found, ok \in BOOLEAN : Answer(c, found, ok)) \/ Transient
Next == Start \/ Run \/ CutShort \/ Kill \/ Midnight

\* The cron starts a run every day, and a run that goes on comes to its end.
Spec == Init /\ [][Next]_vars /\ WF_vars(Start) /\ WF_vars(Run) /\ WF_vars(Midnight)

-----------------------------------------------------------------------------
Answered(c) == card[c].age = 0 \/ card[c].failed = 0

\* Do the requests of StaleAfter + 1 days reach every card, one at a time, beside
\* those that always fail (none of them in a batch, which it would fail with it)?
Fits ==
  /\ Cardinality(Broken) < MaxErrors /\ Cardinality(Broken) < pass.budget /\ Broken \cap Linkable = {}
  /\ Cardinality(Cards \ Broken) <= (pass.budget - Cardinality(Broken)) * (StaleAfter + 1)

(* "The card is simply tried again next run": when the budget fits, every card
   that does not fail for good gets its answer again and again, whichever runs
   are killed, cut short or met with errors. *)
EveryCardIsAnswered == \A c \in Cards \ Broken : []<>(Fits => Answered(c))

(* With more cards than that, _priority() lets the cards that only another
   source prices, and those whose first lookup failed, wait for ever; those the
   TCGdex pass once priced, or that have no price at all, it still answers. *)
PricedIsAnswered ==
  \A c \in Cards \ Broken :
    (pass.source = "tcgdex" /\ Class(c) \in {0, 1}) ~> (pass.source = "tcgdex" => Answered(c))

(* "Retried after": a lookup that found nothing is not repeated for
   RETRY_AFTER_DAYS, so that misses do not eat the budget. *)
MissesWait ==
  \A c \in Cards : card[c].failed <= RetryAfter[pass.source] => card'[c].failed # 0 \/ card[c].failed = 0
=============================================================================
