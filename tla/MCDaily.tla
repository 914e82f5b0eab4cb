-------------------------------- MODULE MCDaily --------------------------------
(* Values for the constants of Daily (MCDaily*.cfg). *)
EXTENDS Daily

(* DexSync: three cards; more than half of them going missing trips the breaker. *)
File(cat, day, rows) == [cat |-> cat, day |-> day, rows |-> rows]
All == "a" :> 1 @@ "b" :> 2 @@ "c" :> 1
One == "a" :> 2
Two == "a" :> 1 @@ "b" :> 0
Owned(day, rows) == File("My Collection", day, rows)
Transit(day) == File("Incoming", day, "b" :> 1 @@ "a" :> 5)
MCFolders == {
  <<>>,
  <<File("My Collection", 1, <<>>)>>,
  <<Owned(1, All)>>,
  <<Owned(1, One)>>,
  <<Owned(1, All), Owned(1, Two)>>,
  <<Owned(1, All), Owned(2, Two), Transit(2)>>,
  <<Transit(1), Owned(2, All)>>,
  <<Transit(2), Owned(1, All), File("Komiya", 1, "a" :> 1 @@ "c" :> 1)>>,
  <<Owned(1, All), File("Tradebinder", 1, "a" :> 1 @@ "b" :> 1), File("Komiya", 1, "b" :> 1)>>,
  <<File("Komiya", 1, "a" :> 1), File("Illustrator Binder", 1, "b" :> 1), File("Tradebinder", 1, "b" :> 1),
    File("Wishlist", 1, "a" :> 1)>>}
MCAutoBinder == <<[colls |-> {"Komiya"}, binder |-> "Illustrator Binder"], [colls |-> {"151"}, binder |-> "151 Binder"]>>

(* History: card a has a price of Dex, then of pokemontcg.io, which is dropped
   for another of Dex, and none. *)
Value(qty, price, source) == [qty |-> qty, price |-> price, source |-> source]
MCValuesOf == "a" :> {Value(1, 10, "dex"), Value(2, 20, "pokemontcg"), Value(2, 8, "dex"), Value(0, 0, "none")}
              @@ "b" :> {Value(3, 5, "dex")}

(* Collections: set 1 under two Dex names, one of them with a card of no
   checklist, the other with the card of set 2. *)
Copies(qty, incoming) == [qty |-> qty, incoming |-> incoming]
MCSetOf == "x" :> 1 @@ "y" :> 1 @@ "z" :> 2 @@ "w" :> 0
MCPrintOf == "x" :> "p" @@ "y" :> "p" @@ "z" :> "q" @@ "w" :> "no print"
MCSectionOf == "x" :> 1 @@ "y" :> 2 @@ "z" :> 2 @@ "w" :> 1
MCRankOf == 1 :> 9 @@ 2 :> 5
MCLeftovers == {{}, {"z", "x"}}
MCCopiesOf == "x" :> {Copies(0, 0), Copies(1, 0), Copies(2, 1)} @@ "y" :> {Copies(0, 0), Copies(2, 0)}
              @@ "z" :> {Copies(0, 0), Copies(1, 0)} @@ "w" :> {Copies(0, 0), Copies(1, 1)}

(* Ledger: three rows in two orders with shipping and fees (a row added later
   has no shipping), and two rows with an edit, of orders with shipping or
   without. *)
MCBounds == {[rows |-> 3, edits |-> 0, ships |-> {12}, fees |-> {0, 3}],
             [rows |-> 2, edits |-> 1, ships |-> {0, 12}, fees |-> {0}]}
MCKindsOf == "a" :> {"purchase", "sale", "ripped", "in", "out"} @@ "b" :> {"purchase"}
MCUntracked == "a" :> 0 @@ "b" :> 0
MCOneUntracked == "a" :> 1 @@ "b" :> 0
MCMarket == "a" :> 7 @@ "b" :> 5
=============================================================================
