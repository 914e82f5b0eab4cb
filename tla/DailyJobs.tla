------------------------------ MODULE DailyJobs ------------------------------
(***************************************************************************)
(* The bodies of the jobs (jobs.py) and what they leave: the row of each   *)
(* run in import_log (sync_status.py), the day's snapshots (snapshots.py)  *)
(* and the requests that count toward PokeTrace's daily cap.  JobLocks     *)
(* keeps one run per job; different jobs run at the same time.             *)
(***************************************************************************)
EXTENDS Integers, FiniteSets

CONSTANTS
  Cards,
  Jobs,     \* the jobs that are run
  MaxQty,   \* bound on quantities
  DailyCap  \* POKETRACE_DAILY_REQUESTS

DexSync == "dex-sync"
PriceRefresh == "price-refresh"
Poketrace == "poketrace-refresh"
Small == {"set-sync", "image-backfill"} \* one call, one row
NoRow == -1
\* _DEX_SNAPSHOT_SOURCE, _PRICE_SNAPSHOT_SOURCE; a connector's run is "manual".
SnapshotSource(j, trigger) ==
  IF trigger # "cron" THEN "manual" ELSE IF j = DexSync THEN "cron" ELSE "price-cron"
Sources == {"cron", "price-cron", "manual"}

VARIABLES
  qty,     \* copies of each card; 0 for one the database does not have
  snap,    \* today's snapshot rows: quantity by source and card, or NoRow
  run,     \* the run of each job
  log,     \* status of each job's latest row in import_log, by ran_at (overview())
  did,     \* what the latest run of each job has committed; history: the passes of a price
           \* refresh that went through, and whether the run was killed
  counted, \* PokeTrace requests in today's rows
  used,    \* PokeTrace requests made today
  lost     \* those of them that were made by killed runs
vars == <<qty, snap, run, log, did, counted, used, lost>>

Idle == [phase |-> "idle"]
NoSnapshots == [s \in Sources |-> [c \in Cards |-> NoRow]]
Known == {c \in Cards : qty[c] > 0}

TypeOK ==
  /\ qty \in [Cards -> 0..MaxQty]
  /\ snap \in [Sources -> [Cards -> {NoRow} \cup 1..MaxQty]]
  /\ \A j \in Jobs : run[j].phase \in {"idle", "body", "resolved", "snapshot", "images", "killed"}
  /\ \A j \in Jobs : log[j] \in {"none", "ok", "empty", "aborted", "failed", "degraded", "skipped"}
  /\ did \in [Jobs -> SUBSET {"import", "pokemontcg", "tcgdex", "tcgdex failed", "snapshot", "killed"}]
  /\ {counted, used, lost} \subseteq Nat

Init ==
  /\ qty = [c \in Cards |-> 0]
  /\ snap = NoSnapshots
  /\ run = [j \in Jobs |-> Idle]
  /\ log = [j \in Jobs |-> "none"]
  /\ did = [j \in Jobs |-> {}]
  /\ counted = 0 /\ used = 0 /\ lost = 0

requests == <<counted, used, lost>>

\* sync_status.record_run(), and the end of the run
Recorded(j, status) ==
  /\ log' = [log EXCEPT ![j] = status]
  /\ run' = [run EXCEPT ![j] = Idle]

Start(j, trigger) ==
  /\ run[j] = Idle
  /\ run' = [run EXCEPT ![j] = [phase |-> "body", source |-> SnapshotSource(j, trigger)]]
  /\ did' = [did EXCEPT ![j] = {}]
  /\ UNCHANGED <<qty, snap, log, requests>>

-----------------------------------------------------------------------------
(* _dex_sync() *)

\* The circuit breaker: rolled back, a row, no snapshot
AbortSync ==
  /\ DexSync \in Jobs /\ run[DexSync].phase = "body"
  /\ Recorded(DexSync, "aborted")
  /\ UNCHANGED <<qty, snap, did, requests>>

\* No CSV files: prices are resolved and the day gets its snapshot
EmptyFolder ==
  /\ DexSync \in Jobs /\ run[DexSync].phase = "body"
  /\ run' = [run EXCEPT ![DexSync] = [phase |-> "resolved", source |-> @.source, empty |-> TRUE]]
  /\ UNCHANGED <<qty, snap, log, did, requests>>

\* The import commits with its own row; then resolve_all_prices().
ImportExports ==
  /\ DexSync \in Jobs /\ run[DexSync].phase = "body"
  /\ \E c \in Cards, q \in 1..MaxQty : qty' = [qty EXCEPT ![c] = q]
  /\ log' = [log EXCEPT ![DexSync] = "ok"]
  /\ did' = [did EXCEPT ![DexSync] = {"import"}]
  /\ run' = [run EXCEPT ![DexSync] = [phase |-> "resolved", source |-> @.source, empty |-> FALSE]]
  /\ UNCHANGED <<snap, requests>>

-----------------------------------------------------------------------------
(* _price_refresh() *)

\* The pokemontcg.io pass, then the TCGdex pass, whose errors are contained
\* (_run_tcgdex_refresh()).  A pass with only the fallback exchange rate
\* writes nothing and makes the run degraded; a TCGdex pass that failed does not.
RefreshPrices(pokemontcg, tcgdex) ==
  /\ PriceRefresh \in Jobs /\ run[PriceRefresh].phase = "body"
  /\ run' = [run EXCEPT ![PriceRefresh] =
       [phase |-> "resolved", source |-> @.source, degraded |-> "degraded" \in {pokemontcg, tcgdex}]]
  /\ did' = [did EXCEPT ![PriceRefresh] =
       (IF pokemontcg = "ok" THEN {"pokemontcg"} ELSE {})
         \cup (CASE tcgdex = "ok" -> {"tcgdex"} [] tcgdex = "failed" -> {"tcgdex failed"} [] tcgdex = "degraded" -> {})]
  /\ UNCHANGED <<qty, snap, log, requests>>

\* run_backfill(), then the row: never "ok" when a pass had no exchange rate
FillImages ==
  LET r == run[PriceRefresh]
  IN  /\ PriceRefresh \in Jobs /\ r.phase = "images"
      /\ Recorded(PriceRefresh, IF r.degraded THEN "degraded" ELSE "ok")
      /\ UNCHANGED <<qty, snap, did, requests>>

-----------------------------------------------------------------------------
(* snapshots.record_daily_snapshot() *)

ReadForSnapshot(j) ==
  /\ run[j].phase = "resolved"
  /\ run' = [run EXCEPT ![j] =
       [phase  |-> "snapshot",
        source |-> @.source,
        flag   |-> IF j = DexSync THEN @.empty ELSE @.degraded,
        rows   |-> snap[@.source],
        qtys   |-> [c \in Known |-> qty[c]],
        today  |-> TRUE,
        stale  |-> FALSE,
        gone   |-> {}]]
  /\ UNCHANGED <<qty, snap, log, did, requests>>

\* Mutant: a second run of the day adds rows and updates none.
WrittenNew(j) == {c \in DOMAIN run[j].qtys : run[j].rows[c] = NoRow}

\* A row whose quantity is the one that was read is not written again.
Written(j) == {c \in DOMAIN run[j].qtys : run[j].qtys[c] # run[j].rows[c]}

\* A row that appeared since is a second one for its (card, date, source); a
\* card deleted since has no row.  The commit fails.
Conflict(j) ==
  \E c \in Written(j) :
    \/ c \in run[j].gone
    \/ run[j].today /\ run[j].rows[c] = NoRow /\ snap[run[j].source][c] # NoRow

\* What the other jobs have read of the same rows is old now.
After(j, end) ==
  [k \in Jobs |-> IF k = j THEN end
                  ELSE IF run[k].phase = "snapshot" THEN [run[k] EXCEPT !.stale = TRUE] ELSE run[k]]

WriteSnapshot(j) ==
  LET r == run[j]
      end == IF j = DexSync THEN Idle ELSE [phase |-> "images", degraded |-> r.flag]
  IN  /\ r.phase = "snapshot"
      /\ ~Conflict(j)
      /\ snap' = IF r.today
                 THEN [snap EXCEPT ![r.source] =
                        [c \in Cards |-> IF c \in Written(j) THEN r.qtys[c] ELSE @[c]]]
                 ELSE snap
      /\ run' = After(j, end)
      /\ did' = [did EXCEPT ![j] = @ \cup {"snapshot"}]
      /\ log' = IF j = DexSync /\ r.flag THEN [log EXCEPT ![j] = "empty"] ELSE log
      /\ UNCHANGED <<qty, requests>>

-----------------------------------------------------------------------------
(* _poketrace_refresh() *)

\* No key on the server, or today's cap is used
Skip ==
  /\ Poketrace \in Jobs /\ run[Poketrace].phase = "body"
  /\ Recorded(Poketrace, "skipped")
  /\ UNCHANGED <<qty, snap, did, requests>>

\* Mutant: the run may make as many requests as the whole day.
LeftWholeDay == DailyCap

\* max_requests of the run's client
Left == DailyCap - counted

Connect ==
  /\ Poketrace \in Jobs /\ run[Poketrace].phase = "body"
  /\ counted < DailyCap
  /\ run' = [run EXCEPT ![Poketrace] = [phase |-> "images", left |-> Left, made |-> 0, day |-> 0]]
  /\ UNCHANGED <<qty, snap, log, did, requests>>

Request ==
  LET r == run[Poketrace]
  IN  /\ Poketrace \in Jobs /\ r.phase = "images" /\ r.made < r.left
      /\ run' = [run EXCEPT ![Poketrace].made = @ + 1, ![Poketrace].day = @ + 1]
      /\ used' = used + 1
      /\ UNCHANGED <<qty, snap, log, did, counted, lost>>

\* The client stops at its budget, at an error or when no card is due: the
\* row, failed ones too, has the number of requests.
Stop(status) ==
  LET r == run[Poketrace]
  IN  /\ Poketrace \in Jobs /\ r.phase = "images"
      /\ Recorded(Poketrace, status)
      /\ counted' = counted + r.made
      /\ UNCHANGED <<qty, snap, did, used, lost>>

-----------------------------------------------------------------------------
\* run_set_sync(), run_image_backfill()
RunSmall(j) ==
  /\ j \in Small /\ run[j].phase = "body"
  /\ \E status \in {"ok", "failed"} : Recorded(j, status)
  /\ UNCHANGED <<qty, snap, did, requests>>

Running(j) == run[j].phase \notin {"idle", "killed"}

\* Mutant: an error after the import leaves the import's row as the last.
FailQuietly(j) ==
  /\ Running(j) /\ j # Poketrace
  /\ Recorded(j, IF "import" \in did[j] THEN "ok" ELSE "failed")
  /\ UNCHANGED <<qty, snap, did, requests>>

\* _record_failure(): rolled back, and a row; what was committed stays.
Fail(j) ==
  /\ Running(j) /\ j # Poketrace
  /\ Recorded(j, "failed")
  /\ UNCHANGED <<qty, snap, did, requests>>

\* The function is killed and leaves its lock.  `day`: of its requests, those since
\* midnight.  Bound: once a day's cap of them is lost, no more runs of PokeTrace's job
\* are killed that day.
Kill(j) ==
  /\ Running(j)
  /\ j = Poketrace => lost < DailyCap
  /\ run' = [run EXCEPT ![j] = [phase |-> "killed"]]
  /\ did' = [did EXCEPT ![j] = @ \cup {"killed"}]
  /\ lost' = IF j = Poketrace /\ run[j].phase = "images" THEN lost + run[j].day ELSE lost
  /\ UNCHANGED <<qty, snap, log, counted, used>>

\* Once the lock is stale, the next run of the job or a page load (JobLocks has the
\* steps) records the run, without its requests, as of the time it *started*
\* (_record_interrupted()): the row of its own import is later, and stays the latest.
Interrupted(j) ==
  /\ run[j].phase = "killed"
  /\ Recorded(j, IF "import" \in did[j] THEN log[j] ELSE "failed")
  /\ UNCHANGED <<qty, snap, did, requests>>

\* missing_cards.delete_missing_card()
DeleteCard(c) ==
  /\ c \in Known
  /\ qty' = [qty EXCEPT ![c] = 0]
  /\ snap' = [s \in Sources |-> [snap[s] EXCEPT ![c] = NoRow]]
  /\ run' = [j \in Jobs |->
               IF run[j].phase = "snapshot" THEN [run[j] EXCEPT !.gone = @ \cup {c}] ELSE run[j]]
  /\ UNCHANGED <<log, did, requests>>

\* A new UTC day.  A run's requests are recorded on the day it ends.
Midnight ==
  /\ snap' = NoSnapshots
  /\ run' = [j \in Jobs |->
               IF run[j].phase = "snapshot" THEN [run[j] EXCEPT !.today = FALSE]
               ELSE IF j = Poketrace /\ run[j].phase = "images" THEN [run[j] EXCEPT !.day = 0] ELSE run[j]]
  /\ counted' = 0 /\ used' = 0 /\ lost' = 0
  /\ UNCHANGED <<qty, log, did>>

Next ==
  \/ \E j \in Jobs, trigger \in {"cron", "manual"} : Start(j, trigger)
  \/ AbortSync \/ EmptyFolder \/ ImportExports
  \/ \E p \in {"ok", "degraded"}, t \in {"ok", "degraded", "failed"} : RefreshPrices(p, t)
  \/ FillImages
  \/ \E j \in Jobs \cap {DexSync, PriceRefresh} : ReadForSnapshot(j) \/ WriteSnapshot(j)
  \/ Skip \/ Connect \/ Request \/ \E status \in {"ok", "failed", "degraded"} : Stop(status)
  \/ \E j \in Jobs : RunSmall(j) \/ Fail(j) \/ Kill(j) \/ Interrupted(j)
  \/ \E c \in Cards : DeleteCard(c)
  \/ Midnight

Spec == Init /\ [][Next]_vars

-----------------------------------------------------------------------------
(* The snapshot after a sync has the sync's quantity of every card, also when
   the day has one already ("never yesterday's leftover state"), unless the
   other job wrote between its reading and its writing. *)
SnapshotIsPostSync ==
  \A j \in Jobs \cap {DexSync} :
    WriteSnapshot(j) /\ run[j].today /\ ~run[j].stale =>
      \A c \in Known : snap'[run[j].source][c] = qty[c]

(* The overview shows a job as done only when all of it is: a sync that is
   "ok" once it is over has its import and its snapshot (unless it was killed
   in between), one that was aborted or found no files has imported nothing,
   and a price refresh that is "ok" has its snapshot and had real exchange
   rates in both passes, or its TCGdex pass failed. *)
OkMeansDone ==
  \A j \in Jobs : run[j] = Idle =>
    /\ j = DexSync /\ log[j] = "ok" => did[j] = {"import", "snapshot"} \/ {"import", "killed"} \subseteq did[j]
    /\ j = DexSync /\ log[j] \in {"aborted", "empty"} => "import" \notin did[j]
    /\ j = PriceRefresh /\ log[j] = "ok" =>
         {"pokemontcg", "snapshot"} \subseteq did[j] /\ did[j] \cap {"tcgdex", "tcgdex failed"} # {}

(* Not kept (README, Remarks): a sync that is killed after its import stays
   "ok" although its snapshot is missing. *)
OkAlwaysMeansDone ==
  \A j \in Jobs : run[j] = Idle /\ j = DexSync /\ log[j] = "ok" => did[j] = {"import", "snapshot"}

(* However often PokeTrace's job is started in a day, by the cron and by
   clicks, its runs stay within the day's cap together, but for the requests
   of runs that were killed. *)
RecordedWithinCap == used - lost <= DailyCap

(* Not kept (README, Remarks): "At most POKETRACE_DAILY_REQUESTS requests per
   UTC day". *)
WithinCap == used <= DailyCap
=============================================================================
