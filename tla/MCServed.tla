------------------------------ MODULE MCServed ------------------------------
(***************************************************************************)
(* Values for the constants of Served (MCServed.cfg): five cards, two of   *)
(* them priced elsewhere, one that always fails, a budget that fits and    *)
(* one that does not; a sale with a broken photo and one whose answer      *)
(* opens a text item, a sale with two lots to name, one of them broken;  *)
(* two bids, one of them removed, and two reads at a time.                 *)
(***************************************************************************)
EXTENDS Served

MCPasses == {[source |-> "tcgdex", budget |-> 3], [source |-> "tcgdex", budget |-> 2],
             [source |-> "poketrace", budget |-> 3]}
MCCommitEvery == "tcgdex" :> 2 @@ "poketrace" :> 2
MCRetryAfter == "tcgdex" :> 2 @@ "poketrace" :> 1

MCMatchOf == 1 :> 0 @@ 3 :> 12
MCSales == {{}, {1, 3, 12}, {4, 5}}
=============================================================================
