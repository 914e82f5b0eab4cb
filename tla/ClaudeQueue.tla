------------------------------ MODULE ClaudeQueue ------------------------------
(***************************************************************************)
(* What the rules could not read is sent to Claude (background/claude.ts,  *)
(* claudeQueue.ts): one run at a time, the text items in one request, a    *)
(* request per claim-lot photo, then the lot photos to name in batches, a  *)
(* photo that failed before on its own.  All photos share an hourly cap;   *)
(* failures are per item, and the worker may be stopped at any await.      *)
(***************************************************************************)
EXTENDS Counting, FiniteSetsExt

CONSTANTS
  Texts, Photos,  \* items, by answer key; a photo is a number, the lower one is sent first
  Names,          \* lot photos to name, of auctions that stay open; numbers too
  MatchOf,        \* photo -> the text item its answer may leave open: claims to match
  Sales,          \* the items of each sale; a scan that saves more than one is as many saves
  Broken,         \* photos that cannot be read any more
  PhotoCap,       \* PHOTO_CALLS_PER_HOUR
  MaxLots,        \* MAX_CLAIM_LOTS
  MaxNames,       \* MAX_LOT_NAMES
  PerCall,        \* LOT_NAMES_PER_CALL
  MaxAttempts,    \* MAX_ATTEMPTS
  Hour, Cooldown, \* an hour and ERROR_COOLDOWN_MS, in ticks
  MaxTrouble      \* bound on stops of the worker, global errors and silent answers

Items == Texts \cup Photos \cup Names

VARIABLES
  wanted,   \* items of live sales in the store
  answers,  \* items with a stored answer
  failures, \* stored claudeFailures: item -> [attempts, age]; no record: no attempts
  calls,    \* claudeState.photoCalls: number of photos by age
  made,     \* history: the photos that were sent, by age
  cool,     \* ticks until the pause after a global error is over
  timer,    \* is the debounce timer set?
  again,
  run,      \* the run under way, or Idle
  trouble
vars == <<wanted, answers, failures, calls, made, cool, timer, again, run, trouble>>

Idle == [at |-> "idle"]
NoFailure == [attempts |-> 0, age |-> 0]
Ages == 0..Hour - 1
NoCalls == [a \in Ages |-> 0]
Sent(c) == Sigma(c, Ages)
Left(c) == IF Sent(c) < PhotoCap THEN PhotoCap - Sent(c) ELSE 0

Runs == [at : {"texts", "photo", "reply", "naming", "save", "close"}, texts : SUBSET Texts,
         photos : SUBSET Photos, names : SUBSET Names, more : BOOLEAN,
         saved : SUBSET Items, failed : SUBSET Items, calls : [Ages -> Nat]]

TypeOK ==
  /\ wanted \subseteq Items /\ answers \subseteq Items
  /\ failures \in [Items -> [attempts : 0..MaxAttempts, age : 0..Hour]]
  /\ calls \in [Ages -> Nat] /\ made \in [Ages -> Nat]
  /\ cool \in 0..Cooldown /\ {timer, again} \subseteq BOOLEAN
  /\ run \in Runs \cup {Idle}

Init ==
  /\ wanted = {} /\ answers = {} /\ failures = [i \in Items |-> NoFailure]
  /\ calls = NoCalls /\ made = NoCalls /\ cool = 0
  /\ timer = FALSE /\ again = FALSE /\ run = Idle /\ trouble = 0

-----------------------------------------------------------------------------
(* What to ask: claudeQueue.ts *)

\* failureStatus(): a quarter of an hour after the first failure and an hour
\* after the next, an item may be asked again, until it has failed too often.
Waits(f) == IF f.attempts = 1 THEN 1 ELSE Hour
Skipped(f) == f.attempts >= MaxAttempts
Ok(f) == f.attempts = 0 \/ (~Skipped(f) /\ f.age >= Waits(f))

\* A match is asked for once its photo is read.
Live == {i \in wanted : \A p \in Photos : MatchOf[p] = i => p \in answers}
Pending(S) == {i \in S \cap Live : i \notin answers /\ Ok(failures[i])}

\* The first n of S
FirstOf(S, n) == {p \in S : Cardinality({q \in S : q < p}) < n}
Smaller(a, b) == IF a < b THEN a ELSE b

\* Claim lots first, lot names get what is left of the cap.
Taken == FirstOf(Pending(Photos), Smaller(MaxLots, Left(calls)))
NamesLeft == Left(calls) - Cardinality(Taken)
TakenNames == FirstOf(Pending(Names), Smaller(MaxNames, NamesLeft))

\* pendingItems().more and not .photoLimited: what is held is held by the run's
\* own limits alone
Held == Pending(Photos) # Taken
NamesHeld == Pending(Names) # TakenNames
More ==
  /\ Held \/ NamesHeld
  /\ Held => MaxLots <= Left(calls)
  /\ NamesHeld => MaxNames <= NamesLeft

-----------------------------------------------------------------------------
(* A run: claude.ts *)

\* A scan or a read is saved: scheduleClaude() sets the timer, anew.
Save(S) ==
  /\ wanted' = wanted \cup S
  /\ timer' = TRUE
  /\ UNCHANGED <<answers, failures, calls, made, cool, again, run, trouble>>

\* run()'s finally, after the state in `run` is left: `again` schedules another.
Leave(more) ==
  /\ run' = Idle
  /\ timer' = (timer \/ again \/ more)
  /\ again' = FALSE

\* The timer goes off while a run is under way.
Again ==
  /\ timer /\ run # Idle
  /\ timer' = FALSE /\ again' = TRUE
  /\ UNCHANGED <<wanted, answers, failures, calls, made, cool, run, trouble>>

\* ... and when there is none: it may be cooling down, or have nothing to ask.
Start ==
  /\ timer /\ run = Idle
  /\ IF cool > 0 \/ (Pending(Texts) = {} /\ Taken = {} /\ TakenNames = {})
     THEN timer' = FALSE /\ UNCHANGED run
     ELSE /\ timer' = FALSE
          /\ run' = [at |-> "texts", texts |-> Pending(Texts), photos |-> Taken, names |-> TakenNames,
                     more |-> More, saved |-> {}, failed |-> {}, calls |-> calls]
  /\ UNCHANGED <<wanted, answers, failures, calls, made, cool, again, trouble>>

\* Mutant: a failed item keeps its number of tries.
RecordedOnce(f) == [attempts |-> 1, age |-> 0]

\* recordFailure()
Recorded(f) == [attempts |-> f.attempts + 1, age |-> 0]

\* The records at the end of a run
AfterRun == [i \in Items |-> IF i \in run.saved THEN NoFailure
                             ELSE IF i \in run.failed THEN Recorded(failures[i]) ELSE failures[i]]

\* A request that fails for all: saveAnswers(), then the pause.
GlobalError ==
  /\ run.at \in {"texts", "reply", "naming"} /\ trouble < MaxTrouble
  /\ run.at = "texts" => run.texts # {}
  /\ trouble' = trouble + 1
  /\ cool' = Cooldown
  /\ answers' = answers \cup run.saved
  /\ failures' = AfterRun
  /\ calls' = run.calls
  /\ Leave(FALSE)
  /\ UNCHANGED <<wanted, made>>

\* The text items, in one request: Claude may leave some out, or the whole
\* request fails, which is a failed try of each.
AskTexts ==
  /\ run.at = "texts"
  /\ \/ run' = [run EXCEPT !.at = "photo", !.saved = run.texts] /\ UNCHANGED trouble
     \/ /\ trouble < MaxTrouble /\ run.texts # {} /\ trouble' = trouble + 1
        /\ \/ \E S \in SUBSET run.texts \ {run.texts} : run' = [run EXCEPT !.at = "photo", !.saved = S]
           \/ run' = [run EXCEPT !.at = "photo", !.failed = run.texts]
  /\ UNCHANGED <<wanted, answers, failures, calls, made, cool, timer, again>>

\* Mutant: the call is stored when the run ends.
CountedLater(c) == calls

\* updateClaudeState({ photoCalls }) before the request
Counted(c) == c

\* A photo: its call is counted and stored, then the request is sent.
AskPhoto ==
  /\ run.at = "photo" /\ run.photos # {}
  /\ run' = [run EXCEPT !.at = "reply", !.calls[0] = @ + 1]
  /\ calls' = Counted(run'.calls)
  /\ made' = [made EXCEPT ![0] = @ + 1]
  /\ UNCHANGED <<wanted, answers, failures, cool, timer, again, trouble>>

\* "One broken lot doesn't hold up the others."
PhotoReply ==
  LET p == Min(run.photos) IN
  /\ run.at = "reply"
  /\ run' = [run EXCEPT !.at = "photo",
                        !.photos = @ \ {p},
                        !.saved  = IF p \in Broken THEN @ ELSE @ \cup {p},
                        !.failed = IF p \in Broken THEN @ \cup {p} ELSE @]
  /\ UNCHANGED <<wanted, answers, failures, calls, made, cool, timer, again, trouble>>

\* Mutant: one call of a batch is counted, whatever its photos.
CountedOnce(batch) == 1

\* photoCalls has a stamp for each photo of a batch.
Stamps(batch) == Cardinality(batch)

\* Mutant: the photos that failed before go with the others.
BatchOfAll(names) == FirstOf(names, PerCall)

\* lotNameBatches(): the fresh ones PerCall at a time, then one retried one
Batch(names) ==
  LET fresh == {i \in names : failures[i].attempts = 0}
  IN  IF fresh # {} THEN FirstOf(fresh, PerCall) ELSE FirstOf(names, 1)

\* A batch of lot photos is counted, stored and sent.
AskNames ==
  /\ run.at = "photo" /\ run.photos = {} /\ run.names # {}
  /\ run' = [run EXCEPT !.at = "naming", !.calls[0] = @ + Stamps(Batch(run.names))]
  /\ calls' = run'.calls
  /\ made' = [made EXCEPT ![0] = @ + Cardinality(Batch(run.names))]
  /\ UNCHANGED <<wanted, answers, failures, cool, timer, again, trouble>>

\* One broken photo fails its whole batch; of another, Claude may leave some out.
NamesReply ==
  LET batch == Batch(run.names)
      reply(S, F) == run' = [run EXCEPT !.at = "photo", !.names = @ \ batch,
                                        !.saved = @ \cup S, !.failed = @ \cup F]
  IN  /\ run.at = "naming"
      /\ \/ batch \cap Broken # {} /\ reply({}, batch) /\ UNCHANGED trouble
         \/ batch \cap Broken = {} /\ reply(batch, {}) /\ UNCHANGED trouble
         \/ /\ batch \cap Broken = {} /\ trouble < MaxTrouble /\ trouble' = trouble + 1
            /\ \E S \in SUBSET batch \ {batch} : reply(S, {})
      /\ UNCHANGED <<wanted, answers, failures, calls, made, cool, timer, again>>

\* saveAnswers()
SaveAnswers ==
  /\ run.at = "photo" /\ run.photos = {} /\ run.names = {}
  /\ answers' = answers \cup run.saved
  /\ run' = [run EXCEPT !.at = "save"]
  /\ UNCHANGED <<wanted, failures, calls, made, cool, timer, again, trouble>>

\* saveFailures()
SaveFailures ==
  /\ run.at = "save"
  /\ failures' = AfterRun
  /\ run' = [run EXCEPT !.at = "close"]
  /\ UNCHANGED <<wanted, answers, calls, made, cool, timer, again, trouble>>

\* The state for the overview; what is left, and the claims of newly read
\* photos, are for another run.
Close ==
  /\ run.at = "close"
  /\ calls' = run.calls
  /\ Leave(run.saved \cap Photos # {} \/ (run.more /\ Left(run.calls) > 0))
  /\ UNCHANGED <<wanted, answers, failures, made, cool, trouble>>

\* Chrome stops the worker: its variables and timers are gone.
WorkerStops ==
  /\ trouble < MaxTrouble /\ (timer \/ run # Idle)
  /\ trouble' = trouble + 1
  /\ timer' = FALSE /\ again' = FALSE /\ run' = Idle
  /\ UNCHANGED <<wanted, answers, failures, calls, made, cool>>

\* recentPhotoCalls() drops a call that is an hour old.
Older(c) == [a \in Ages |-> IF a = 0 THEN 0 ELSE c[a - 1]]

Tick ==
  /\ calls' = Older(calls) /\ made' = Older(made)
  /\ run' = IF run = Idle THEN run ELSE [run EXCEPT !.calls = Older(@)]
  /\ failures' = [i \in Items |-> [failures[i] EXCEPT !.age = IF failures[i].attempts = 0 THEN 0 ELSE Smaller(@ + 1, Hour)]]
  /\ cool' = IF cool = 0 THEN 0 ELSE cool - 1
  /\ UNCHANGED <<wanted, answers, timer, again, trouble>>

Saves == \E S \in Sales : Save(S)
RunStep == run # Idle /\ (AskTexts \/ AskPhoto \/ PhotoReply \/ AskNames \/ NamesReply
                          \/ SaveAnswers \/ SaveFailures \/ Close)
Next == Saves \/ Again \/ Start \/ RunStep \/ (run # Idle /\ GlobalError) \/ WorkerStops \/ Tick

\* Scans go on, timers go off, a request is answered, and time passes.
Spec ==
  /\ Init /\ [][Next]_vars
  /\ WF_vars(Saves) /\ WF_vars(Start) /\ WF_vars(RunStep) /\ WF_vars(Tick)

-----------------------------------------------------------------------------
(* PHOTO_CALLS_PER_HOUR: "across runs and service-worker restarts: one per
   claim lot call, and each photo of a lot-name batch", no hour has more. *)
WithinPhotoCap == Sent(made) <= PhotoCap

(* "The rest simply waits for later runs", and a broken photo does not hold
   up the others: every item that Claude can read is answered in the end,
   whatever runs are lost; a text item unless its requests fail too often. *)
ReadableIsAnswered ==
  \A i \in Items \ Broken : i \in Live ~> (i \in answers \/ (i \in Texts /\ Skipped(failures[i])))
=============================================================================
