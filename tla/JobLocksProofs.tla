--------------------------- MODULE JobLocksProofs ---------------------------
(***************************************************************************)
(* Theorems of JobLocks, for every set of jobs, runs and page loads and    *)
(* every value of the timing constants.                                    *)
(*                                                                         *)
(* RecordInv is inductive with no assumption on time: who owes an          *)
(* "Interrupted" line, and for which run.  TimeInv adds what the kill      *)
(* limit gives: a live run is younger than StaleAfter, so its row is       *)
(* never taken for a dead one.                                             *)
(***************************************************************************)
EXTENDS JobLocks, TLAPS

\* A recorder that removed run d's row and has yet to write its line.
RunOwes(q, d) == pc[q] = "record" /\ saw[q] = d
ReaperOwes(p, d) == rpc[p] = "record" /\ cur[p] = d

\* Never had the lock: the row was never written for this run.
NeverHeld == {"idle", "out"} \cup Asking

\* The row of a job belongs to a run of that job that got it and whose
\* interruption nobody has recorded or owes.
RowInv ==
  \A r \in Runs : \A j \in Jobs : row[j] = r =>
    /\ JobOf[r] = j
    /\ pc[r] \notin NeverHeld
    /\ interrupted[r] = 0
    /\ \A q \in Runs : ~ RunOwes(q, r)
    /\ \A p \in Reapers : ~ ReaperOwes(p, r)

\* An owed line is owed by one recorder and not yet written, for a run that had
\* the lock.
OwedInv ==
  \A d \in Runs :
    /\ pc[d] \in NeverHeld => interrupted[d] = 0
    /\ \A q \in Runs : RunOwes(q, d) =>
         /\ interrupted[d] = 0
         /\ pc[d] \notin NeverHeld
         /\ \A o \in Runs : RunOwes(o, d) => o = q
         /\ \A p \in Reapers : ~ ReaperOwes(p, d)
    /\ \A p \in Reapers : ReaperOwes(p, d) =>
         /\ interrupted[d] = 0
         /\ pc[d] \notin NeverHeld
         /\ \A o \in Reapers : ReaperOwes(o, d) => o = p

\* What a run saw before it takes over is another run of the same job.
SawInv ==
  /\ \A q \in Runs : pc[q] = "takeover" => saw[q] \in Runs /\ JobOf[saw[q]] = JobOf[q]
  /\ \A q \in Runs : pc[q] = "record" => saw[q] \in Runs
  /\ \A p \in Reapers : rpc[p] = "record" => cur[p] \in Runs

RecordInv == TypeOK /\ RowInv /\ OwedInv /\ SawInv /\ InterruptedAtMostOnce

USE JobLocksAssumption DEF TypeOK, vars, runVars, reaperVars, Goto

-----------------------------------------------------------------------------
(* Types *)

LEMMA TypeInit == Init => TypeOK
  BY DEF Init, Alive, Asking, Holding, Ended

LEMMA TypeNext == TypeOK /\ [Next]_vars => TypeOK'
<1> USE DEF Alive, Asking, Holding, Ended
<1> SUFFICES ASSUME TypeOK, [Next]_vars PROVE TypeOK'
  OBVIOUS
<1>1. ASSUME NEW r \in Runs, RunStep(r) PROVE TypeOK'
  <2>1. CASE Begin(r)   BY <2>1 DEF Begin
  <2>2. CASE Insert(r)  BY <2>2 DEF Insert
  <2>3. CASE Look(r)    BY <2>3 DEF Look, TryAgain
  <2>4. CASE TakeOver(r) BY <2>4 DEF TakeOver
  <2>5. CASE Relook(r)  BY <2>5 DEF Relook, TryAgain
  <2>6. CASE Record(r)  BY <2>6 DEF Record, RecordInterrupted
  <2>7. CASE BodyEnds(r) BY <2>7 DEF BodyEnds
  <2>8. CASE Release(r) BY <2>8 DEF Release, Released
  <2>9. CASE Kill(r)   BY <2>9 DEF Kill
  <2> QED BY <1>1, <2>1, <2>2, <2>3, <2>4, <2>5, <2>6, <2>7, <2>8, <2>9 DEF RunStep
<1>2. ASSUME NEW p \in Reapers, ReaperStep(p) PROVE TypeOK'
  <2>1. CASE Scan(p)       BY <2>1 DEF Scan
  <2>2. CASE ReapRecord(p) BY <2>2 DEF ReapRecord, RecordInterrupted
  <2>3. CASE ReapEnds(p)   BY <2>3 DEF ReapEnds
  <2>4. CASE ReaperDies(p) BY <2>4 DEF ReaperDies
  <2>5. ASSUME NEW r \in Runs, Reap(p, r) PROVE TypeOK' BY <2>5 DEF Reap
  <2> QED BY <1>2, <2>1, <2>2, <2>3, <2>4, <2>5 DEF ReaperStep
<1>3. CASE Tick BY <1>3 DEF Tick
<1>4. CASE UNCHANGED vars BY <1>4
<1> QED BY <1>1, <1>2, <1>3, <1>4 DEF Next

\* Type correctness: every field keeps the kind of value the table and the
\* functions of job_locks.py give it.
THEOREM TypeCorrect == Spec => []TypeOK
<1> QED BY TypeInit, TypeNext, PTL DEF Spec

-----------------------------------------------------------------------------
(* Who is recorded as interrupted *)

LEMMA RecordNext == RecordInv /\ [Next]_vars => RecordInv'
<1> USE DEF RecordInv, RowInv, OwedInv, SawInv, InterruptedAtMostOnce,
            RunOwes, ReaperOwes, NeverHeld, Alive, Asking, Holding, Ended
<1> SUFFICES ASSUME RecordInv, [Next]_vars
             PROVE RowInv' /\ OwedInv' /\ SawInv' /\ InterruptedAtMostOnce'
  BY TypeNext
<1>0. TypeOK' BY TypeNext
<1> DEFINE Goal == RowInv' /\ OwedInv' /\ SawInv' /\ InterruptedAtMostOnce'
<1>1. ASSUME NEW r \in Runs, RunStep(r) PROVE Goal
  <2>1. CASE Begin(r)
    <3>1. RowInv' BY <2>1, <1>0 DEF Begin
    <3>2. OwedInv' BY <2>1, <1>0 DEF Begin
    <3>3. SawInv' /\ InterruptedAtMostOnce' BY <2>1, <1>0 DEF Begin
    <3> QED BY <3>1, <3>2, <3>3
  <2>2. CASE Insert(r)
    <3>1. RowInv' BY <2>2, <1>0 DEF Insert
    <3>2. OwedInv' BY <2>2, <1>0 DEF Insert
    <3>3. SawInv' /\ InterruptedAtMostOnce' BY <2>2, <1>0 DEF Insert
    <3> QED BY <3>1, <3>2, <3>3
  <2>3. CASE Look(r)
    <3>1. RowInv' BY <2>3, <1>0 DEF Look, TryAgain
    <3>2. OwedInv' BY <2>3, <1>0 DEF Look, TryAgain
    <3>3. SawInv' /\ InterruptedAtMostOnce' BY <2>3, <1>0 DEF Look, TryAgain
    <3> QED BY <3>1, <3>2, <3>3
  <2>4. CASE TakeOver(r)
    <3>1. RowInv' BY <2>4, <1>0 DEF TakeOver
    <3>2. OwedInv' BY <2>4, <1>0 DEF TakeOver
    <3>3. SawInv' /\ InterruptedAtMostOnce' BY <2>4, <1>0 DEF TakeOver
    <3> QED BY <3>1, <3>2, <3>3
  <2>5. CASE Relook(r)
    <3>1. RowInv' BY <2>5, <1>0 DEF Relook, TryAgain
    <3>2. OwedInv' BY <2>5, <1>0 DEF Relook, TryAgain
    <3>3. SawInv' /\ InterruptedAtMostOnce' BY <2>5, <1>0 DEF Relook, TryAgain
    <3> QED BY <3>1, <3>2, <3>3
  <2>6. CASE Record(r)
    <3>1. RowInv' BY <2>6, <1>0 DEF Record, RecordInterrupted
    <3>2. OwedInv' BY <2>6, <1>0 DEF Record, RecordInterrupted
    <3>0. saw[r] \in Runs /\ interrupted[saw[r]] = 0 BY <2>6 DEF Record
    <3>3. SawInv' /\ InterruptedAtMostOnce'
      <4>1. SawInv' BY <2>6, <1>0 DEF Record, RecordInterrupted
      <4>2. ASSUME NEW d \in Runs PROVE interrupted'[d] <= 1
        <5>1. CASE UNCHANGED interrupted BY <5>1
        <5>2. CASE interrupted' = [interrupted EXCEPT ![saw[r]] = @ + 1]
          BY <5>2, <3>0
        <5> QED BY <2>6, <5>1, <5>2 DEF Record, RecordInterrupted
      <4> QED BY <4>1, <4>2
    <3> QED BY <3>1, <3>2, <3>3
  <2>7. CASE BodyEnds(r)
    <3>1. RowInv' BY <2>7, <1>0 DEF BodyEnds
    <3>2. OwedInv' BY <2>7, <1>0 DEF BodyEnds
    <3>3. SawInv' /\ InterruptedAtMostOnce' BY <2>7, <1>0 DEF BodyEnds
    <3> QED BY <3>1, <3>2, <3>3
  <2>8. CASE Release(r)
    <3>1. RowInv' BY <2>8, <1>0 DEF Release, Released
    <3>2. OwedInv' BY <2>8, <1>0 DEF Release, Released
    <3>3. SawInv' /\ InterruptedAtMostOnce' BY <2>8, <1>0 DEF Release, Released
    <3> QED BY <3>1, <3>2, <3>3
  <2>9. CASE Kill(r)
    <3>1. RowInv' BY <2>9, <1>0 DEF Kill
    <3>2. OwedInv' BY <2>9, <1>0 DEF Kill
    <3>3. SawInv' /\ InterruptedAtMostOnce' BY <2>9, <1>0 DEF Kill
    <3> QED BY <3>1, <3>2, <3>3
  <2> QED BY <1>1, <2>1, <2>2, <2>3, <2>4, <2>5, <2>6, <2>7, <2>8, <2>9 DEF RunStep
<1>2. ASSUME NEW p \in Reapers, ReaperStep(p) PROVE Goal
  <2>1. CASE Scan(p) BY <2>1, <1>0 DEF Scan
  <2>2. CASE ReapRecord(p) BY <2>2, <1>0 DEF ReapRecord, RecordInterrupted
  <2>3. CASE ReapEnds(p) BY <2>3, <1>0 DEF ReapEnds
  <2>4. CASE ReaperDies(p) BY <2>4, <1>0 DEF ReaperDies
  <2>5. ASSUME NEW r \in Runs, Reap(p, r) PROVE Goal
    <3>1. RowInv' BY <2>5, <1>0 DEF Reap
    <3>2. OwedInv'
      <4>1. CASE row[JobOf[r]] = r
        <5>1. interrupted[r] = 0 /\ pc[r] \notin NeverHeld
          BY <4>1
        <5>2. (\A q \in Runs : ~ RunOwes(q, r)) /\ (\A o \in Reapers : ~ ReaperOwes(o, r))
          BY <4>1
        <5>3. rpc' = [rpc EXCEPT ![p] = "record"] /\ cur' = [cur EXCEPT ![p] = r]
          BY <2>5, <4>1 DEF Reap
        <5>4. UNCHANGED <<pc, saw, interrupted>>
          BY <2>5 DEF Reap
        <5> QED BY <5>1, <5>2, <5>3, <5>4
      <4>2. CASE row[JobOf[r]] # r BY <2>5, <4>2 DEF Reap
      <4> QED BY <4>1, <4>2
    <3>3. SawInv' /\ InterruptedAtMostOnce' BY <2>5, <1>0 DEF Reap
    <3> QED BY <3>1, <3>2, <3>3
  <2> QED BY <1>2, <2>1, <2>2, <2>3, <2>4, <2>5 DEF ReaperStep
<1>3. CASE Tick BY <1>3 DEF Tick
<1>4. CASE UNCHANGED vars BY <1>4
<1> QED BY <1>1, <1>2, <1>3, <1>4 DEF Next

THEOREM RecordCorrect == Spec => []RecordInv
<1>1. Init => RecordInv
  BY TypeInit DEF Init, RecordInv, RowInv, OwedInv, SawInv, InterruptedAtMostOnce,
     RunOwes, ReaperOwes, NeverHeld, Asking
<1> QED BY <1>1, RecordNext, PTL DEF Spec

\* However many runs and page loads race for a dead lock, its run is recorded as
\* interrupted at most once (the token-conditional UPDATE and DELETE).
THEOREM InterruptedOnce == Spec => []InterruptedAtMostOnce
<1>1. RecordInv => InterruptedAtMostOnce BY DEF RecordInv
<1> QED BY <1>1, RecordCorrect, PTL

-----------------------------------------------------------------------------
(* Which rows are taken away *)

\* A live run is at most MaxRun old; whatever is about to be removed as stale has
\* had the lock and is older than StaleAfter.
AgeInv ==
  /\ \A r \in Runs : pc[r] # "idle" => start[r] <= clock
  /\ \A r \in Runs : pc[r] \in Alive => clock - start[r] <= MaxRun
  /\ \A q \in Runs : pc[q] = "takeover" =>
       IsStale(saw[q], start[q]) /\ pc[saw[q]] \notin NeverHeld
  /\ \A p \in Reapers : \A r \in todo[p] :
       IsStale(r, clock) /\ pc[r] \notin NeverHeld

LEMMA AgeNext == RecordInv /\ AgeInv /\ [Next]_vars => AgeInv'
<1> USE DEF RecordInv, RowInv, SawInv, AgeInv, IsStale, NeverHeld, Alive, Asking, Holding, Ended
<1> SUFFICES ASSUME RecordInv, AgeInv, [Next]_vars PROVE AgeInv'
  OBVIOUS
<1>0. TypeOK' BY TypeNext
<1> DEFINE Goal == AgeInv'
<1>1. ASSUME NEW r \in Runs, RunStep(r) PROVE Goal
  <2>1. CASE Begin(r) BY <2>1, <1>0 DEF Begin
  <2>2. CASE Insert(r) BY <2>2, <1>0 DEF Insert
  <2>3. CASE Look(r) BY <2>3, <1>0 DEF Look, TryAgain
  <2>4. CASE TakeOver(r) BY <2>4, <1>0 DEF TakeOver
  <2>5. CASE Relook(r) BY <2>5, <1>0 DEF Relook, TryAgain
  <2>6. CASE Record(r) BY <2>6, <1>0 DEF Record, RecordInterrupted
  <2>7. CASE BodyEnds(r) BY <2>7, <1>0 DEF BodyEnds
  <2>8. CASE Release(r) BY <2>8, <1>0 DEF Release, Released
  <2>9. CASE Kill(r) BY <2>9, <1>0 DEF Kill
  <2> QED BY <1>1, <2>1, <2>2, <2>3, <2>4, <2>5, <2>6, <2>7, <2>8, <2>9 DEF RunStep
<1>2. ASSUME NEW p \in Reapers, ReaperStep(p) PROVE Goal
  <2>1. CASE Scan(p) BY <2>1, <1>0 DEF Scan
  <2>2. CASE ReapRecord(p) BY <2>2, <1>0 DEF ReapRecord, RecordInterrupted
  <2>3. CASE ReapEnds(p) BY <2>3, <1>0 DEF ReapEnds
  <2>4. CASE ReaperDies(p) BY <2>4, <1>0 DEF ReaperDies
  <2>5. ASSUME NEW r \in Runs, Reap(p, r) PROVE Goal BY <2>5, <1>0 DEF Reap
  <2> QED BY <1>2, <2>1, <2>2, <2>3, <2>4, <2>5 DEF ReaperStep
<1>3. CASE Tick BY <1>3, <1>0 DEF Tick
<1>4. CASE UNCHANGED vars BY <1>4, <1>0
<1> QED BY <1>1, <1>2, <1>3, <1>4 DEF Next

LEMMA AgeCorrect == Spec => []AgeInv
<1>1. Init => AgeInv
  BY DEF Init, AgeInv, Alive, Asking, Holding
<1> QED BY <1>1, AgeNext, RecordCorrect, PTL DEF Spec

\* A row goes away only when its own run releases it or when it has gone stale: no
\* late release, lost takeover or slow page load removes a newer run's row.
THEOREM RowsSafe == Spec => RowTakenOnlyFromOverOrStale
<1> DEFINE Taken ==
      \A r \in Runs :
        row[JobOf[r]] = r /\ row'[JobOf[r]] # r =>
          \/ pc[r] = "release" /\ pc'[r] = "done"
          \/ IsStale(r, clock)
<1>1. RecordInv /\ AgeInv /\ [Next]_vars => [Taken]_vars
  <2> SUFFICES ASSUME RecordInv, AgeInv, Next,
                      NEW r \in Runs, row[JobOf[r]] = r, row'[JobOf[r]] # r
               PROVE \/ pc[r] = "release" /\ pc'[r] = "done"
                     \/ IsStale(r, clock)
    OBVIOUS
  <2> USE DEF RecordInv, AgeInv, SawInv, IsStale
  <2>1. ASSUME NEW q \in Runs, RunStep(q)
        PROVE \/ pc[r] = "release" /\ pc'[r] = "done"
              \/ IsStale(r, clock)
    <3>1. CASE TakeOver(q) BY <3>1 DEF TakeOver
    <3>2. CASE Release(q) BY <3>2 DEF Release, Released
    <3>3. CASE Insert(q) BY <3>3 DEF Insert
    <3>4. CASE ~ (TakeOver(q) \/ Release(q) \/ Insert(q))
      BY <2>1, <3>4 DEF RunStep, Begin, Look, Relook, TryAgain, Record, BodyEnds, Kill
    <3> QED BY <3>1, <3>2, <3>3, <3>4
  <2>2. ASSUME NEW p \in Reapers, ReaperStep(p)
        PROVE IsStale(r, clock)
    BY <2>2 DEF ReaperStep, Scan, Reap, ReapRecord, ReapEnds, ReaperDies
  <2>3. CASE Tick BY <2>3 DEF Tick
  <2> QED BY <2>1, <2>2, <2>3 DEF Next
<1> QED BY <1>1, RecordCorrect, AgeCorrect, PTL DEF Spec, RowTakenOnlyFromOverOrStale

-----------------------------------------------------------------------------
(* Single flight, when the platform kills every run before its row goes stale *)

KillLimit == MaxRun <= StaleAfter

\* Whoever is recorded as interrupted, or about to be, no longer runs.
OwedOver ==
  \A d \in Runs :
    (\/ interrupted[d] > 0
     \/ \E q \in Runs : RunOwes(q, d)
     \/ \E p \in Reapers : ReaperOwes(p, d))
    => pc[d] \in Ended

FlightInv == BodyHoldsTheRow /\ OwedOver

LEMMA FlightNext ==
  ASSUME KillLimit, RecordInv, AgeInv, FlightInv, [Next]_vars
  PROVE FlightInv'
<1> USE DEF RecordInv, RowInv, OwedInv, SawInv, AgeInv, FlightInv, BodyHoldsTheRow, OwedOver,
            KillLimit, IsStale, RunOwes, ReaperOwes, NeverHeld, Alive, Asking, Holding, Ended
<1>0. TypeOK' BY TypeNext
<1> DEFINE Goal == FlightInv'
<1>1. ASSUME NEW r \in Runs, RunStep(r) PROVE Goal
  <2>1. CASE Begin(r) BY <2>1, <1>0 DEF Begin
  <2>2. CASE Insert(r)
    <3>1. BodyHoldsTheRow' BY <2>2, <1>0 DEF Insert
    <3>2. OwedOver' BY <2>2, <1>0 DEF Insert
    <3> QED BY <3>1, <3>2
  <2>3. CASE Look(r) BY <2>3, <1>0 DEF Look, TryAgain
  <2>4. CASE TakeOver(r)
    <3>1. BodyHoldsTheRow'
      <4>1. CASE row[JobOf[r]] = saw[r]
        <5>1. saw[r] \in Runs /\ IsStale(saw[r], start[r]) /\ start[r] <= clock
          BY <2>4 DEF TakeOver
        <5>2. pc[saw[r]] \notin Alive
          BY <5>1
        <5>3. row' = [row EXCEPT ![JobOf[r]] = r] /\ pc' = [pc EXCEPT ![r] = "record"]
          BY <2>4, <4>1 DEF TakeOver
        <5> QED BY <4>1, <5>2, <5>3
      <4>2. CASE row[JobOf[r]] # saw[r] BY <2>4, <4>2 DEF TakeOver
      <4> QED BY <4>1, <4>2
    <3>2. OwedOver' BY <2>4, <1>0 DEF TakeOver
    <3> QED BY <3>1, <3>2
  <2>5. CASE Relook(r) BY <2>5, <1>0 DEF Relook, TryAgain
  <2>6. CASE Record(r) BY <2>6, <1>0 DEF Record, RecordInterrupted
  <2>7. CASE BodyEnds(r) BY <2>7, <1>0 DEF BodyEnds
  <2>8. CASE Release(r) BY <2>8, <1>0 DEF Release, Released
  <2>9. CASE Kill(r) BY <2>9, <1>0 DEF Kill
  <2> QED BY <1>1, <2>1, <2>2, <2>3, <2>4, <2>5, <2>6, <2>7, <2>8, <2>9 DEF RunStep
<1>2. ASSUME NEW p \in Reapers, ReaperStep(p) PROVE Goal
  <2>1. CASE Scan(p) BY <2>1, <1>0 DEF Scan
  <2>2. CASE ReapRecord(p) BY <2>2, <1>0 DEF ReapRecord, RecordInterrupted
  <2>3. CASE ReapEnds(p) BY <2>3, <1>0 DEF ReapEnds
  <2>4. CASE ReaperDies(p) BY <2>4, <1>0 DEF ReaperDies
  <2>5. ASSUME NEW r \in Runs, Reap(p, r) PROVE Goal BY <2>5, <1>0 DEF Reap
  <2> QED BY <1>2, <2>1, <2>2, <2>3, <2>4, <2>5 DEF ReaperStep
<1>3. CASE Tick BY <1>3, <1>0 DEF Tick
<1>4. CASE UNCHANGED vars BY <1>4, <1>0
<1> QED BY <1>1, <1>2, <1>3, <1>4 DEF Next

THEOREM FlightCorrect == ASSUME KillLimit PROVE Spec => []FlightInv
<1>1. Init => FlightInv
  BY DEF Init, FlightInv, BodyHoldsTheRow, OwedOver, RunOwes, ReaperOwes, Holding
<1>2. RecordInv /\ AgeInv /\ FlightInv /\ [Next]_vars => FlightInv'
  BY FlightNext
<1> QED BY <1>1, <1>2, RecordCorrect, AgeCorrect, PTL DEF Spec

\* A run in its body has its job's row: two bodies of one job never run at once.
THEOREM SingleFlightHolds == ASSUME KillLimit PROVE Spec => []BodyHoldsTheRow
<1>1. FlightInv => BodyHoldsTheRow BY DEF FlightInv
<1> QED BY <1>1, FlightCorrect, PTL

\* No live run is ever recorded as interrupted.
THEOREM InterruptedOver == ASSUME KillLimit PROVE Spec => []InterruptedOnlyWhenOver
<1>1. RecordInv /\ FlightInv => InterruptedOnlyWhenOver
  BY DEF RecordInv, RowInv, FlightInv, OwedOver, InterruptedOnlyWhenOver
<1> QED BY <1>1, RecordCorrect, FlightCorrect, PTL

-----------------------------------------------------------------------------
(* JobLocks implements SingleFlight *)

\* What a step does to what SingleFlight sees of the runs.
FateOnly(r, f) == Fates' = [Fates EXCEPT ![r] = f]

LEMMA FateChange ==
  ASSUME TypeOK, TypeOK', NEW r \in Runs, NEW l \in Alive \cup Ended, pc' = [pc EXCEPT ![r] = l]
  PROVE /\ l \in Holding => FateOnly(r, "running")
        /\ l \in {"done", "killed"} => FateOnly(r, "over")
        /\ l = "out" => FateOnly(r, "out")
        /\ l \in Asking => FateOnly(r, "new")
<1>1. ASSUME NEW f, Fates'[r] = f PROVE FateOnly(r, f)
  BY <1>1 DEF FateOnly, Fates
<1>2. pc'[r] = l BY DEF Alive, Asking, Holding, Ended
<1>3. CASE l \in Holding
  <2>1. Fates'[r] = "running" BY <1>2, <1>3 DEF Fates, Asking, Holding
  <2> QED BY <1>1, <1>3, <2>1 DEF Asking, Holding
<1>4. CASE l \in Asking
  <2>1. Fates'[r] = "new" BY <1>2, <1>4 DEF Fates, Asking, Holding
  <2> QED BY <1>1, <1>4, <2>1 DEF Asking, Holding
<1>5. CASE l \in {"done", "killed"}
  <2>1. Fates'[r] = "over" BY <1>2, <1>5 DEF Fates, Asking, Holding
  <2> QED BY <1>1, <1>5, <2>1 DEF Asking, Holding
<1>6. CASE l = "out"
  <2>1. Fates'[r] = "out" BY <1>2, <1>6 DEF Fates, Asking, Holding
  <2> QED BY <1>1, <1>6, <2>1 DEF Asking, Holding
<1> QED BY <1>3, <1>4, <1>5, <1>6 DEF Alive, Ended

LEMMA FateOf ==
  ASSUME TypeOK, NEW r \in Runs
  PROVE /\ Fates[r] = "new" <=> pc[r] \in {"idle"} \cup Asking
        /\ Fates[r] = "running" <=> pc[r] \in Holding
        /\ Fates[r] = "over" <=> pc[r] \in {"done", "killed"}
        /\ Fates = [Fates EXCEPT ![r] = Fates[r]]
  BY DEF Fates, Alive, Asking, Holding, Ended

LEMMA FateSame ==
  ASSUME TypeOK, UNCHANGED pc
  PROVE UNCHANGED Fates
  BY DEF Fates

LEMMA DeclaredChange ==
  ASSUME TypeOK
  PROVE /\ UNCHANGED interrupted => UNCHANGED Declared
        /\ \A d \in Runs : interrupted' = [interrupted EXCEPT ![d] = @ + 1] =>
             Declared' = Declared \cup {d}
  BY DEF Declared

LEMMA FlightStep ==
  ASSUME KillLimit, RecordInv, AgeInv, FlightInv, [Next]_vars
  PROVE [Flight!Next]_(Flight!vars)
<1> DEFINE Goal == [Flight!Next]_(Flight!vars)
<1>0. TypeOK /\ TypeOK' BY TypeNext DEF RecordInv
<1>1. ASSUME NEW r \in Runs, RunStep(r) PROVE Goal
  <2> USE DEF Alive, Asking, Holding, Ended
  <2>0. /\ Fates[r] = "new" <=> pc[r] \in {"idle"} \cup Asking
        /\ Fates[r] = "running" <=> pc[r] \in Holding
        /\ Fates = [Fates EXCEPT ![r] = Fates[r]]
    BY <1>0, FateOf
  <2>00. /\ UNCHANGED pc => UNCHANGED Fates
         /\ UNCHANGED interrupted => UNCHANGED Declared
    BY <1>0, FateSame, DeclaredChange
  <2>1. CASE Insert(r) /\ row[JobOf[r]] = NoRun
    <3>1. FateOnly(r, "running") BY <2>1, <1>0, FateChange DEF Insert
    <3>2. Flight!Start(r)
      BY <2>1, <3>1, <2>0, <2>00 DEF Insert, FateOnly, Flight!Start, Flight!Available
    <3> QED BY <3>2 DEF Flight!Next
  <2>2. CASE TakeOver(r) /\ row[JobOf[r]] = saw[r]
    <3>1. pc[saw[r]] \in {"done", "killed"} /\ saw[r] \in Runs
      BY <2>2, <1>0 DEF TakeOver, RecordInv, RowInv, SawInv, AgeInv, KillLimit, IsStale, NeverHeld
    <3>2. Fates[saw[r]] = "over" BY <3>1, <1>0, FateOf
    <3>3. FateOnly(r, "running") BY <2>2, <1>0, FateChange DEF TakeOver
    <3>4. Flight!Start(r)
      BY <2>2, <3>2, <3>3, <2>0, <2>00 DEF TakeOver, FateOnly, Flight!Start, Flight!Available
    <3> QED BY <3>4 DEF Flight!Next
  <2>3. CASE Record(r)
    <3>1. UNCHANGED <<row, Fates>>
      <4>1. FateOnly(r, "running") BY <2>3, <1>0, FateChange DEF Record
      <4> QED BY <2>3, <4>1, <2>0 DEF Record, FateOnly
    <3>2. CASE UNCHANGED interrupted
      BY <3>1, <3>2, <2>00 DEF Flight!vars
    <3>3. CASE interrupted' = [interrupted EXCEPT ![saw[r]] = @ + 1]
      <4>1. saw[r] \in Runs /\ interrupted[saw[r]] = 0 /\ pc[saw[r]] \in {"done", "killed"}
            /\ row[JobOf[saw[r]]] # saw[r]
        BY <2>3, <1>0 DEF Record, RecordInv, RowInv, OwedInv, SawInv, FlightInv, OwedOver, RunOwes, NeverHeld
      <4>2. Fates[saw[r]] = "over" BY <4>1, <1>0, FateOf
      <4>3. saw[r] \notin Declared BY <4>1, <1>0 DEF Declared
      <4>4. Declared' = Declared \cup {saw[r]} BY <3>3, <4>1, <1>0, DeclaredChange
      <4>5. Flight!Declare(saw[r]) BY <3>1, <4>1, <4>2, <4>3, <4>4 DEF Flight!Declare
      <4> QED BY <4>1, <4>5 DEF Flight!Next
    <3> QED BY <2>3, <3>2, <3>3 DEF Record, RecordInterrupted
  <2>4. CASE Release(r)
    <3>1. FateOnly(r, "over") BY <2>4, <1>0, FateChange DEF Release
    <3>2. row[JobOf[r]] = r BY <2>4 DEF Release, FlightInv, BodyHoldsTheRow
    <3>3. row' = [row EXCEPT ![JobOf[r]] = NoRun] \/ UNCHANGED row
      BY <2>4, <3>2, <1>0 DEF Release, Released
    <3>4. Flight!Finish(r)
      BY <2>4, <3>1, <3>2, <3>3, <2>0, <2>00 DEF Release, FateOnly, Flight!Finish
    <3> QED BY <3>4 DEF Flight!Next
  <2>5. CASE Kill(r) /\ pc[r] \in Holding
    <3>1. FateOnly(r, "over") BY <2>5, <1>0, FateChange DEF Kill
    <3>2. Flight!Finish(r) BY <2>5, <3>1, <2>0, <2>00 DEF Kill, FateOnly, Flight!Finish
    <3> QED BY <3>2 DEF Flight!Next
  <2>6. CASE pc[r] \in Asking /\ Goto(r, "out") /\ UNCHANGED <<row, interrupted>>
    <3>1. FateOnly(r, "out") BY <2>6, <1>0, FateChange
    <3>2. Flight!Leave(r) BY <2>6, <3>1, <2>0, <2>00 DEF FateOnly, Flight!Leave
    <3> QED BY <3>2 DEF Flight!Next
  <2>7. ASSUME NEW l \in Asking, pc[r] \in {"idle"} \cup Asking, Goto(r, l), UNCHANGED <<row, interrupted>>
        PROVE Goal
    <3>1. FateOnly(r, "new") BY <2>7, <1>0, FateChange
    <3> QED BY <2>7, <3>1, <2>0, <2>00 DEF FateOnly, Flight!vars
  <2>8. CASE Kill(r) /\ pc[r] \notin Holding BY <2>8, <2>6 DEF Kill
  <2>9. CASE Look(r) BY <2>9, <2>6, <2>7 DEF Look, TryAgain
  <2>10. CASE Relook(r) BY <2>10, <2>6, <2>7 DEF Relook, TryAgain
  <2>11. CASE Insert(r) /\ row[JobOf[r]] # NoRun BY <2>11, <2>7 DEF Insert
  <2>12. CASE TakeOver(r) /\ row[JobOf[r]] # saw[r] BY <2>12, <2>7 DEF TakeOver
  <2>13. CASE Begin(r) BY <2>13, <2>7 DEF Begin
  <2>14. CASE BodyEnds(r)
    <3>1. FateOnly(r, "running") BY <2>14, <1>0, FateChange DEF BodyEnds
    <3> QED BY <2>14, <3>1, <2>0, <2>00 DEF BodyEnds, FateOnly, Flight!vars
  <2> QED BY <1>1, <2>1, <2>2, <2>3, <2>4, <2>5, <2>8, <2>9, <2>10, <2>11, <2>12, <2>13, <2>14
          DEF RunStep
<1>2. ASSUME NEW p \in Reapers, ReaperStep(p) PROVE Goal
  <2>00. /\ UNCHANGED pc => UNCHANGED Fates
         /\ UNCHANGED interrupted => UNCHANGED Declared
    BY <1>0, FateSame, DeclaredChange
  <2>1. ASSUME NEW r \in Runs, Reap(p, r) PROVE Goal
    <3>1. CASE row[JobOf[r]] = r
      <4>1. pc[r] \in {"done", "killed"}
        BY <2>1, <1>0 DEF Reap, RecordInv, AgeInv, KillLimit, IsStale,
                          NeverHeld, Alive, Asking, Holding, Ended
      <4>2. Fates[r] = "over" BY <4>1, <1>0, FateOf
      <4>3. Flight!Vacate(JobOf[r])
        BY <2>1, <3>1, <4>2, <2>00 DEF Reap, Flight!Vacate, Flight!Available
      <4> QED BY <4>3 DEF Flight!Next
    <3>2. CASE row[JobOf[r]] # r
      BY <2>1, <3>2, <2>00 DEF Reap, Flight!vars
    <3> QED BY <3>1, <3>2
  <2>2. CASE ReapRecord(p)
    <3>1. CASE UNCHANGED interrupted
      BY <2>2, <3>1, <2>00 DEF ReapRecord, Flight!vars
    <3>2. CASE interrupted' = [interrupted EXCEPT ![cur[p]] = @ + 1]
      <4>1. cur[p] \in Runs /\ interrupted[cur[p]] = 0 /\ pc[cur[p]] \in {"done", "killed"}
            /\ row[JobOf[cur[p]]] # cur[p]
        BY <2>2, <1>0 DEF ReapRecord, RecordInv, RowInv, OwedInv, SawInv, FlightInv, OwedOver, ReaperOwes,
                          NeverHeld, Alive, Asking, Holding, Ended
      <4>2. Fates[cur[p]] = "over" BY <4>1, <1>0, FateOf
      <4>3. cur[p] \notin Declared BY <4>1, <1>0 DEF Declared
      <4>4. Declared' = Declared \cup {cur[p]} BY <3>2, <4>1, <1>0, DeclaredChange
      <4>5. Flight!Declare(cur[p])
        BY <2>2, <4>1, <4>2, <4>3, <4>4, <2>00 DEF ReapRecord, Flight!Declare
      <4>6. \E d \in Runs : Flight!Declare(d) BY <4>1, <4>5
      <4> QED BY <4>6 DEF Flight!Next
    <3> QED BY <2>2, <3>1, <3>2 DEF ReapRecord, RecordInterrupted
  <2>3. CASE Scan(p) \/ ReapEnds(p) \/ ReaperDies(p)
    BY <2>3, <2>00 DEF Scan, ReapEnds, ReaperDies, Flight!vars
  <2> QED BY <1>2, <2>1, <2>2, <2>3 DEF ReaperStep
<1>3. CASE Tick BY <1>3, <1>0, FateSame, DeclaredChange DEF Tick, Flight!vars
<1>4. CASE UNCHANGED vars BY <1>4, <1>0, FateSame, DeclaredChange DEF Flight!vars
<1> QED BY <1>1, <1>2, <1>3, <1>4 DEF Next

\* The lock keeps SingleFlight's promise: every step of a run or a page load is a
\* step of the abstract lock or changes nothing it shows.
THEOREM Implements == ASSUME KillLimit PROVE Spec => FlightSpec
<1>1. Init => Flight!Init
  BY DEF Init, Flight!Init, Fates, Declared, Asking
<1>2. RecordInv /\ AgeInv /\ FlightInv /\ [Next]_vars => [Flight!Next]_(Flight!vars)
  BY FlightStep
<1> QED BY <1>1, <1>2, RecordCorrect, AgeCorrect, FlightCorrect, PTL DEF Spec, FlightSpec, Flight!Spec
=============================================================================
