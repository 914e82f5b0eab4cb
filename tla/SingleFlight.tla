---------------------------- MODULE SingleFlight ----------------------------
(***************************************************************************)
(* What the job lock promises to the code that uses it, with none of the   *)
(* steps it takes to keep the promise: a job has at most one holder, the   *)
(* holder changes hands only once its run is over, and a run is declared   *)
(* interrupted at most once and never while it runs.  JobLocks implements  *)
(* this module.                                                            *)
(***************************************************************************)
CONSTANTS
  Jobs,     \* the background jobs, one lock each
  Runs,     \* the invocations of those jobs
  JobOf,    \* the job each run is an invocation of
  Nobody    \* "no holder"

VARIABLES
  holder,   \* holder[j]: the run job j belongs to, or Nobody
  fate,     \* fate[r]: "new", "running", "over" or, without a turn, "out"
  declared  \* the runs declared interrupted

vars == <<holder, fate, declared>>

Init ==
  /\ holder = [j \in Jobs |-> Nobody]
  /\ fate = [r \in Runs |-> "new"]
  /\ declared = {}

\* The job is free for a new run: nobody has it, or its holder is over.
Available(j) == holder[j] = Nobody \/ fate[holder[j]] = "over"

Start(r) ==
  /\ fate[r] = "new"
  /\ Available(JobOf[r])
  /\ holder' = [holder EXCEPT ![JobOf[r]] = r]
  /\ fate' = [fate EXCEPT ![r] = "running"]
  /\ UNCHANGED declared

Leave(r) ==
  /\ fate[r] = "new"
  /\ fate' = [fate EXCEPT ![r] = "out"]
  /\ UNCHANGED <<holder, declared>>

\* A run is over: it gave the job back, or it could not.
Finish(r) ==
  /\ fate[r] = "running"
  /\ fate' = [fate EXCEPT ![r] = "over"]
  /\ \/ UNCHANGED holder
     \/ /\ holder[JobOf[r]] = r
        /\ holder' = [holder EXCEPT ![JobOf[r]] = Nobody]
  /\ UNCHANGED declared

Vacate(j) ==
  /\ holder[j] # Nobody
  /\ Available(j)
  /\ holder' = [holder EXCEPT ![j] = Nobody]
  /\ UNCHANGED <<fate, declared>>

Declare(r) ==
  /\ fate[r] = "over"
  /\ r \notin declared
  /\ holder[JobOf[r]] # r
  /\ declared' = declared \cup {r}
  /\ UNCHANGED <<holder, fate>>

Next ==
  \/ \E r \in Runs : Start(r) \/ Leave(r) \/ Finish(r) \/ Declare(r)
  \/ \E j \in Jobs : Vacate(j)

Spec == Init /\ [][Next]_vars
=============================================================================
