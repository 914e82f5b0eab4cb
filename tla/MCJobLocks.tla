----------------------------- MODULE MCJobLocks -----------------------------
(* Invocations of one job, racing with loads of the status page. *)
EXTENDS JobLocks, TLC
CONSTANTS dex
MCJobOf == [r \in Runs |-> dex]
Symmetry == Permutations(Runs) \cup Permutations(Reapers)
=============================================================================
