--------------------------- MODULE PokemonFolders ---------------------------
(***************************************************************************)
(* Pokemon folders (queries.py, app.py): names merged into one folder, and *)
(* the folders that are favorites.  A request reads the aliases, and       *)
(* writes later: requests of two tabs overlap.                             *)
(***************************************************************************)
EXTENDS Integers, FiniteSets, Functions

CONSTANTS
  Names, \* printed card names
  Tabs

VARIABLES
  alias,     \* pokemon_alias: name -> canonical_name
  favorites, \* favorite_pokemon
  form,      \* the request of each tab between its reading and its writing
  clean      \* has every request written on what it had read?
vars == <<alias, favorites, form, clean>>

Nothing == [op |-> "none"]

TypeOK ==
  /\ DOMAIN alias \subseteq Names /\ Range(alias) \subseteq Names
  /\ favorites \subseteq Names
  /\ \A t \in Tabs : form[t] # Nothing =>
       form[t].op \in {"merge", "favorite"} /\ {form[t].name, form[t].root} \subseteq Names
  /\ clean \in BOOLEAN

Init ==
  /\ alias = <<>> /\ favorites = {} /\ clean = TRUE
  /\ form = [t \in Tabs |-> Nothing]

\* resolve_pokemon_name(): follow the chain; a cycle ends where it began.
Resolved(name) ==
  LET walk[i \in 0..Cardinality(Names)] ==
        IF i = 0 THEN name
        ELSE IF walk[i - 1] \notin DOMAIN alias \/ \E j \in 0..i - 2 : walk[j] = walk[i - 1]
             THEN walk[i - 1] ELSE alias[walk[i - 1]]
  IN  walk[Cardinality(Names)]

\* by_pokemon_breakdown(): the cards' names in a folder
Folder(root) == {n \in Names : Resolved(n) = root}

-----------------------------------------------------------------------------
\* A request reads pokemon_alias_map(); merging a name into its own folder
\* does nothing.
Read(t, op, name, canonical) ==
  /\ form[t] = Nothing
  /\ op = "merge" => name # Resolved(canonical)
  /\ form' = [form EXCEPT ![t] = [op |-> op, name |-> name, root |-> Resolved(canonical), stale |-> FALSE]]
  /\ UNCHANGED <<alias, favorites, clean>>

\* The write of tab t, and what the other tab has read
Wrote(t) ==
  /\ form' = [u \in Tabs |-> IF u = t THEN Nothing
                             ELSE IF form[u] = Nothing THEN Nothing ELSE [form[u] EXCEPT !.stale = TRUE]]
  /\ clean' = (clean /\ ~(form[t] # Nothing /\ form[t].stale))

\* Mutant: what was folded into the name stays there.
MergedAlone(name, root) ==
  [n \in DOMAIN alias \cup {name} |-> IF n = name THEN root ELSE alias[n]]

\* merge_pokemon(): the name and all that was folded into it
Merged(name, root) ==
  [n \in DOMAIN alias \cup {name} |-> IF n = name \/ alias[n] = name THEN root ELSE alias[n]]

\* Mutant: the old favorite stays where it was.
FavoredStill(name, root) == favorites

\* A favorite that is merged makes its new folder one.
Favored(name, root) == IF name \in favorites THEN (favorites \ {name}) \cup {root} ELSE favorites

Merge(t) ==
  /\ form[t].op = "merge"
  /\ alias' = Merged(form[t].name, form[t].root)
  /\ favorites' = Favored(form[t].name, form[t].root)
  /\ Wrote(t)

\* toggle_pokemon_favorite(): of the folder the name is in
ToggleFavorite(t) ==
  /\ form[t].op = "favorite"
  /\ favorites' = IF form[t].root \in favorites THEN favorites \ {form[t].root} ELSE favorites \cup {form[t].root}
  /\ Wrote(t)
  /\ UNCHANGED alias

\* unmerge_pokemon(): one row goes
Unmerge(t, name) ==
  /\ form[t] = Nothing /\ name \in DOMAIN alias
  /\ alias' = Restrict(alias, DOMAIN alias \ {name})
  /\ Wrote(t)
  /\ UNCHANGED favorites

Next == \E t \in Tabs :
  \/ \E name, canonical \in Names : Read(t, "merge", name, canonical)
  \/ \E name \in Names : Read(t, "favorite", name, name)
  \/ Merge(t) \/ ToggleFavorite(t)
  \/ \E name \in Names : Unmerge(t, name)

Spec == Init /\ [][Next]_vars

-----------------------------------------------------------------------------
(* "No alias chain ever needs more than one hop to resolve", as long as no
   request writes on aliases that changed since it read them. *)
OneHop == clean => \A n \in DOMAIN alias : alias[n] \notin DOMAIN alias

(* "Favorited Pokemon always show": a favorite is the name of a folder that
   has at least its own cards. *)
FavoritesShow == clean => \A n \in favorites : n \in Folder(n)
=============================================================================
