-------------------------------- MODULE MCShop --------------------------------
(* Values for the constants of Shop (MCShop*.cfg). *)
EXTENDS Shop

(* Orders: two carts and a win; one edit of an order and one lone row. *)
MCCarts == {<<"no item">>, <<"i1">>, <<"i1", "i1">>, <<"i1", "no item">>}

(* Neither the carts and submits nor the listings are told apart anywhere. *)
MCSymmetry == Permutations(Tabs) \cup Permutations(Ads)

(* WonSale: a sale of three items, one of them with no known price. *)
MCPriceOf == "p" :> 10 @@ "q" :> 6 @@ "r" :> -1
MCNoPrice == -1

(* MasterSets: a main print and its ball prints, of which the Master Ball one
   does not count, and a print on no checklist. *)
MCTrackOf == "m" :> "main" @@ "k" :> "poke_ball" @@ "b" :> "master_ball" @@ "o" :> "off list"
MCNumberOf == "m" :> 1 @@ "k" :> 1 @@ "b" :> 1 @@ "o" :> 2
MCDexNumber == "a" :> 1 @@ "b" :> 2

(* Checklists: one number that TCGdex lists with balls, as Holo, or as both. *)
MCCardKey == <<[number |-> 1, variant |-> "holo"], [number |-> 1, variant |-> "normal"]>>
MCCatalogues == {<<{"normal", "pokeball", "reverse"}>>, <<{"holo"}>>, <<{"normal", "holo"}>>}

(* Sets: two series share a set name; "151 jp" is only in the hand-made ranks.
   The API lists two sets of one day and one of no known day. *)
Set(s, n) == [series |-> s, name |-> n]
Release(i, s, n, d) == [id |-> i, series |-> s, name |-> n, date |-> d, total |-> 10 * i]
MCPairs == {Set("e", "base"), Set("f", "base"), Set("e", "neo"), Set("e", "151 jp")}
MCApi == {Release(1, "e", "base", 1), Release(4, "x", "jungle", 2), Release(3, "e", "neo", 2),
          Release(2, "f", "base", 0)}
MCHandRanks == Set("e", "151 jp") :> 7
=============================================================================
