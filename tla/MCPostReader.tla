---------------------------- MODULE MCPostReader ----------------------------
(* Two posts; re-reads and clicks of both; minutes scaled to Gap = 1. *)
EXTENDS PostReader, TLC
CONSTANTS p1, p2, t1, t2
Job(p, k) == [post |-> p, kind |-> k]
MCAsks == {Job(p1, "auto"), Job(p2, "auto"), Job(p1, "open")}
MCClicks == {Job(p1, "auto"), Job(p2, "click"), Job(p1, "open")}
MCTwo == {Job(p1, "auto"), Job(p2, "open")}
MCHolders == {"reader", "other"}
\* Nothing tells one tab from another.  (MCPostReader.cfg only: no liveness there)
Interchangeable == Permutations(Tabs)
MCLimit == [h \in MCHolders |-> IF h = "reader" THEN 6 ELSE 1]
=============================================================================
