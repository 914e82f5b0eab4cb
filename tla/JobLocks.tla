------------------------------ MODULE JobLocks ------------------------------
(***************************************************************************)
(* apps/tcg_inventory/job_locks.py and the caller jobs._single_flight: the *)
(* single-flight guard for background jobs, one row of table job_locks per *)
(* job in progress.  Every step of a run is one committed statement or one *)
(* read of the database; between two of them any other run, a page load    *)
(* that reaps stale locks, the passing of time, or the death of the        *)
(* process may come.                                                       *)
(*                                                                         *)
(* A row is represented by the run whose token it carries (tokens are      *)
(* random and unique): its started_at is start[token] and its job is       *)
(* JobOf[token].  The clock is the database servers' common UTC clock, in  *)
(* arbitrary units.                                                        *)
(***************************************************************************)
EXTENDS Integers

CONSTANTS
  Jobs,        \* the jobs of sync_status.JOBS
  Runs,        \* invocations of a job (a cron call, a Run-now click)
  JobOf,       \* the job a run is an invocation of
  Reapers,     \* loads of the /sync-status page
  NoRun,       \* "no row"
  StaleAfter,  \* STALE_AFTER: a row older than this is dead
  MaxRun,      \* the platform kills a process this old (Vercel's 300 s)
  Attempts,    \* _attempts of acquire()
  LogMayFail,  \* may the database refuse a row of import_log?
  MaxClock     \* bound: the clock stops here

ASSUME JobLocksAssumption ==
  /\ JobOf \in [Runs -> Jobs]
  /\ NoRun \notin Runs
  /\ StaleAfter \in Nat
  /\ MaxRun \in Nat
  /\ Attempts \in Nat \ {0}
  /\ LogMayFail \in BOOLEAN
  /\ MaxClock \in Nat

VARIABLES
  clock,
  row,          \* row[j]: the run whose token job j's row carries, or NoRun
  pc,           \* where each run is
  start,        \* acquire()'s `now`, also the row's started_at
  left,         \* acquire()'s remaining _attempts
  saw,          \* acquire()'s old_token
  interrupted,  \* how many "Interrupted" rows of import_log name the run
  rpc,          \* where each page load is
  todo,         \* the stale rows reap_stale() still has to remove
  cur           \* the row reap_stale() removed and has yet to record

runVars == <<pc, start, left, saw>>
reaperVars == <<rpc, todo, cur>>
vars == <<clock, row, pc, start, left, saw, interrupted, rpc, todo, cur>>

-----------------------------------------------------------------------------
Asking  == {"insert", "look", "takeover", "relook"}  \* inside acquire(), no lock yet
Holding == {"record", "body", "release"}             \* the row was written for this run
Alive   == Asking \cup Holding
Ended   == {"done", "killed", "out"}  \* released, killed while holding, never held

TypeOK ==
  /\ clock \in Nat
  /\ row \in [Jobs -> Runs \cup {NoRun}]
  /\ pc \in [Runs -> {"idle"} \cup Alive \cup Ended]
  /\ start \in [Runs -> Nat]
  /\ left \in [Runs -> Nat]
  /\ saw \in [Runs -> Runs \cup {NoRun}]
  /\ interrupted \in [Runs -> Nat]
  /\ rpc \in [Reapers -> {"idle", "reap", "record"}]
  /\ todo \in [Reapers -> SUBSET Runs]
  /\ cur \in [Reapers -> Runs \cup {NoRun}]

Init ==
  /\ clock = 0
  /\ row = [j \in Jobs |-> NoRun]
  /\ pc = [r \in Runs |-> "idle"]
  /\ start = [r \in Runs |-> 0]
  /\ left = [r \in Runs |-> 0]
  /\ saw = [r \in Runs |-> NoRun]
  /\ interrupted = [r \in Runs |-> 0]
  /\ rpc = [p \in Reapers |-> "idle"]
  /\ todo = [p \in Reapers |-> {}]
  /\ cur = [p \in Reapers |-> NoRun]

\* Mutants: a row that has just reached the limit is stale; the operands swapped.
IsStaleAtLimit(r, now) == now - start[r] >= StaleAfter
IsStaleSwapped(r, now) == start[r] - now > StaleAfter

\* _is_stale(started_at of run r's row, now)
IsStale(r, now) == now - start[r] > StaleAfter

\* Bound: a run begins only while its lock can still go stale before the clock
\* stops, so that what must happen to a dead lock can happen.
RoomToGoStale == clock + StaleAfter + 1 <= MaxClock

Goto(r, label) == pc' = [pc EXCEPT ![r] = label]

-----------------------------------------------------------------------------
(* acquire() *)

Begin(r) ==
  /\ pc[r] = "idle"
  /\ RoomToGoStale
  /\ Goto(r, "insert")
  /\ start' = [start EXCEPT ![r] = clock]
  /\ left' = [left EXCEPT ![r] = Attempts]
  /\ UNCHANGED <<clock, row, saw, interrupted, reaperVars>>

\* Mutant: an upsert instead of an INSERT.
InsertOrReplace(r) ==
  /\ pc[r] = "insert"
  /\ row' = [row EXCEPT ![JobOf[r]] = r]
  /\ Goto(r, "body")
  /\ UNCHANGED <<clock, start, left, saw, interrupted, reaperVars>>

\* INSERT, COMMIT: the primary key admits one row per job.
Insert(r) ==
  /\ pc[r] = "insert"
  /\ \/ /\ row[JobOf[r]] = NoRun
        /\ row' = [row EXCEPT ![JobOf[r]] = r]
        /\ Goto(r, "body")
     \/ /\ row[JobOf[r]] # NoRun
        /\ Goto(r, "look")
        /\ UNCHANGED row
  /\ UNCHANGED <<clock, start, left, saw, interrupted, reaperVars>>

\* No row where there was one a moment ago: once more from the INSERT, with the
\* same `now`, or AlreadyRunning when the attempts are used up.
TryAgain(r) ==
  /\ row[JobOf[r]] = NoRun
  /\ IF left[r] <= 1
     THEN Goto(r, "out") /\ UNCHANGED left
     ELSE Goto(r, "insert") /\ left' = [left EXCEPT ![r] = @ - 1]
  /\ UNCHANGED saw

\* _read() after the conflict.
Look(r) ==
  /\ pc[r] = "look"
  /\ \/ TryAgain(r)
     \/ /\ row[JobOf[r]] # NoRun
        /\ IF IsStale(row[JobOf[r]], start[r])
           THEN Goto(r, "takeover") /\ saw' = [saw EXCEPT ![r] = row[JobOf[r]]]
           ELSE Goto(r, "out") /\ UNCHANGED saw
        /\ UNCHANGED left
  /\ UNCHANGED <<clock, row, start, interrupted, reaperVars>>

\* Mutant: UPDATE ... WHERE job = ... only.
TakeOverByJob(r) ==
  /\ pc[r] = "takeover"
  /\ row' = [row EXCEPT ![JobOf[r]] = r] /\ Goto(r, "record")
  /\ UNCHANGED <<clock, start, left, saw, interrupted, reaperVars>>

\* UPDATE ... WHERE token = old_token, COMMIT.
TakeOver(r) ==
  /\ pc[r] = "takeover"
  /\ IF row[JobOf[r]] = saw[r]
     THEN row' = [row EXCEPT ![JobOf[r]] = r] /\ Goto(r, "record")
     ELSE UNCHANGED row /\ Goto(r, "relook")
  /\ UNCHANGED <<clock, start, left, saw, interrupted, reaperVars>>

\* _read() after losing the takeover.
Relook(r) ==
  /\ pc[r] = "relook"
  /\ \/ TryAgain(r)
     \/ /\ row[JobOf[r]] # NoRun
        /\ Goto(r, "out")
        /\ UNCHANGED <<left, saw>>
  /\ UNCHANGED <<clock, row, start, interrupted, reaperVars>>

\* One "Interrupted" row of import_log for run d; record_run() never raises, so
\* the caller goes on without the row when the database refuses it.
RecordInterrupted(d) ==
  \/ interrupted' = [interrupted EXCEPT ![d] = @ + 1]
  \/ LogMayFail /\ UNCHANGED interrupted

Record(r) ==
  /\ pc[r] = "record"
  /\ RecordInterrupted(saw[r])
  /\ Goto(r, "body")
  /\ UNCHANGED <<clock, row, start, left, saw, reaperVars>>

-----------------------------------------------------------------------------
(* jobs._single_flight: body(), then release() in its finally *)

\* The body returns or raises.
BodyEnds(r) ==
  /\ pc[r] = "body"
  /\ Goto(r, "release")
  /\ UNCHANGED <<clock, row, start, left, saw, interrupted, reaperVars>>

\* Mutant: DELETE WHERE job = ... only.
ReleasedByJob(r) == [row EXCEPT ![JobOf[r]] = NoRun]

\* The rows release() leaves: DELETE WHERE job = ... AND token = ...
Released(r) == [row EXCEPT ![JobOf[r]] = IF @ = r THEN NoRun ELSE @]

\* release() never raises: when its DELETE fails the row stays.
Release(r) ==
  /\ pc[r] = "release"
  /\ row' = Released(r) \/ UNCHANGED row
  /\ Goto(r, "done")
  /\ UNCHANGED <<clock, start, left, saw, interrupted, reaperVars>>

\* The process of a run dies: at the platform's limit, or for any other reason.
Kill(r) ==
  /\ pc[r] \in Alive
  /\ Goto(r, IF pc[r] \in Holding THEN "killed" ELSE "out")
  /\ UNCHANGED <<clock, row, start, left, saw, interrupted, reaperVars>>

-----------------------------------------------------------------------------
(* reap_stale(), run by each load of /sync-status *)

\* Mutant: the jobs of stale rows are collected, not their tokens.
ScanJobs(p) ==
  /\ rpc[p] = "idle"
  /\ \E r \in Runs : row[JobOf[r]] = r /\ IsStale(r, clock)
  /\ todo' = [todo EXCEPT ![p] = {j \in Jobs : row[j] # NoRun /\ IsStale(row[j], clock)}]
  /\ rpc' = [rpc EXCEPT ![p] = "reap"]
  /\ UNCHANGED <<clock, row, runVars, interrupted, cur>>

Scan(p) ==
  /\ rpc[p] = "idle"
  /\ LET stale == {r \in Runs : row[JobOf[r]] = r /\ IsStale(r, clock)} IN
       /\ stale # {}
       /\ todo' = [todo EXCEPT ![p] = stale]
  /\ rpc' = [rpc EXCEPT ![p] = "reap"]
  /\ UNCHANGED <<clock, row, runVars, interrupted, cur>>

\* Mutant: the row count of the DELETE is not looked at.
ReapUnchecked(p, r) ==
  /\ rpc[p] = "reap"
  /\ r \in todo[p]
  /\ todo' = [todo EXCEPT ![p] = @ \ {r}]
  /\ row' = [row EXCEPT ![JobOf[r]] = IF @ = r THEN NoRun ELSE @]
  /\ cur' = [cur EXCEPT ![p] = r]
  /\ rpc' = [rpc EXCEPT ![p] = "record"]
  /\ UNCHANGED <<clock, runVars, interrupted>>

\* DELETE ... WHERE token = ..., COMMIT; a row somebody else replaced is skipped.
Reap(p, r) ==
  /\ rpc[p] = "reap"
  /\ r \in todo[p]
  /\ todo' = [todo EXCEPT ![p] = @ \ {r}]
  /\ IF row[JobOf[r]] = r
     THEN /\ row' = [row EXCEPT ![JobOf[r]] = NoRun]
          /\ cur' = [cur EXCEPT ![p] = r]
          /\ rpc' = [rpc EXCEPT ![p] = "record"]
     ELSE UNCHANGED <<row, cur, rpc>>
  /\ UNCHANGED <<clock, runVars, interrupted>>

ReapRecord(p) ==
  /\ rpc[p] = "record"
  /\ RecordInterrupted(cur[p])
  /\ rpc' = [rpc EXCEPT ![p] = "reap"]
  /\ UNCHANGED <<clock, row, runVars, todo, cur>>

ReapEnds(p) ==
  /\ rpc[p] = "reap"
  /\ todo[p] = {}
  /\ rpc' = [rpc EXCEPT ![p] = "idle"]
  /\ UNCHANGED <<clock, row, runVars, interrupted, todo, cur>>

\* The process serving the page dies, or the database fails it, half-way.
ReaperDies(p) ==
  /\ rpc[p] # "idle"
  /\ rpc' = [rpc EXCEPT ![p] = "idle"]
  /\ UNCHANGED <<clock, row, runVars, interrupted, todo, cur>>

-----------------------------------------------------------------------------
\* Time passes; no live process gets older than MaxRun.
Tick ==
  /\ clock < MaxClock
  /\ \A r \in Runs : pc[r] \in Alive => clock - start[r] < MaxRun
  /\ clock' = clock + 1
  /\ UNCHANGED <<row, runVars, interrupted, reaperVars>>

RunStep(r) ==
  \/ Begin(r) \/ Insert(r) \/ Look(r) \/ TakeOver(r) \/ Relook(r) \/ Record(r)
  \/ BodyEnds(r) \/ Release(r) \/ Kill(r)

ReaperStep(p) ==
  \/ Scan(p) \/ ReapRecord(p) \/ ReapEnds(p) \/ ReaperDies(p)
  \/ \E r \in Runs : Reap(p, r)

Next ==
  \/ \E r \in Runs : RunStep(r)
  \/ \E p \in Reapers : ReaperStep(p)
  \/ Tick

Spec == Init /\ [][Next]_vars

\* A live run goes on or dies; the page keeps being opened, and some load of it
\* gets as far as the rows it found (a load may die, but not every load for ever).
Fairness ==
  /\ WF_vars(Tick)
  /\ \A r \in Runs : WF_vars(RunStep(r) /\ pc[r] # "idle")
  /\ \A p \in Reapers : WF_vars(Scan(p)) /\ WF_vars(ReapRecord(p) \/ ReapEnds(p))
  /\ \A p \in Reapers, r \in Runs : SF_vars(Reap(p, r))

FairSpec == Spec /\ Fairness

-----------------------------------------------------------------------------
(* Properties *)

\* Single flight (jobs.py:17): a run in its body holds its job's row, so no two
\* bodies of one job run at once.  It rests on the kill limit: MaxRun <= StaleAfter.
BodyHoldsTheRow == \A r \in Runs : pc[r] \in Holding => row[JobOf[r]] = r

\* "racing instances record a dead run once" (README.md, "Killed runs"; the
\* token-conditional writes of acquire() and reap_stale()).
InterruptedAtMostOnce == \A r \in Runs : interrupted[r] <= 1

\* Only a run that is over is recorded as interrupted, and only after its row is
\* gone: a live run never gets an "Interrupted" line.
InterruptedOnlyWhenOver ==
  \A r \in Runs : interrupted[r] > 0 => pc[r] \in Ended /\ row[JobOf[r]] # r

\* A step takes a run's row away only when that run releases it or when the row
\* has gone stale; in particular a late release never drops a newer run's row.
RowTakenOnlyFromOverOrStale ==
  [][\A r \in Runs :
       row[JobOf[r]] = r /\ row'[JobOf[r]] # r =>
         \/ pc[r] = "release" /\ pc'[r] = "done"
         \/ IsStale(r, clock)]_vars

\* A killed run's row does not block its job for ever.
DeadLockGoesAway ==
  \A r \in Runs : (pc[r] = "killed" /\ row[JobOf[r]] = r) ~> row[JobOf[r]] # r

\* Not kept (README, Remarks).  models.py, class JobLock: "a killed run no longer leaves no trace" - its row is
\* still there, its "Interrupted" line is written, or somebody is about to write it.
KilledRunLeavesATrace ==
  \A r \in Runs : pc[r] = "killed" =>
    \/ row[JobOf[r]] = r
    \/ interrupted[r] > 0
    \/ \E q \in Runs : pc[q] = "record" /\ saw[q] = r
    \/ \E p \in Reapers : rpc[p] = "record" /\ cur[p] = r

-----------------------------------------------------------------------------
(* The promise the lock keeps when no process outlives StaleAfter. *)

\* What has become of each run, seen from outside.
Fates == [r \in Runs |->
  IF pc[r] \in {"idle"} \cup Asking THEN "new"
  ELSE IF pc[r] \in Holding THEN "running"
  ELSE IF pc[r] = "out" THEN "out" ELSE "over"]

Declared == {r \in Runs : interrupted[r] > 0}

Flight == INSTANCE SingleFlight WITH
  Nobody <- NoRun, holder <- row, fate <- Fates, declared <- Declared

FlightSpec == Flight!Spec
=============================================================================
