------------------------------- MODULE SlotOps -------------------------------
(***************************************************************************)
(* fb_auction_watcher/src/background/slot.ts as functions of the stored    *)
(* slot: what each operation of makeSlot() makes of the value it read.     *)
(* A slot value is NoSlot (null) or a record of the holder, its tab and    *)
(* the time since it was taken (Slot.since seen from now).                 *)
(***************************************************************************)
EXTENDS Integers

CONSTANTS
  Holders,  \* SlotHolder
  Tabs,     \* browser tabs
  NoTab,    \* tab ID -1: the holder took the slot before its tab existed
  NoSlot,   \* null
  Limit     \* LIMIT_MS: how long each holder may keep the slot

ASSUME SlotAssumption ==
  /\ NoTab \notin Tabs
  /\ Limit \in [Holders -> Nat]
  /\ NoSlot \notin [holder : Holders, tab : Tabs \cup {NoTab}, age : Nat]

SlotValues == [holder : Holders, tab : Tabs \cup {NoTab}, age : Nat] \cup {NoSlot}

\* Mutant: since - Date.now() instead of Date.now() - since.
ExpiredBackwards(s) == - s.age > Limit[s.holder]

Expired(s) == s.age > Limit[s.holder]

\* The slot can be had: nobody has it, or whoever has it kept it too long.
Free(s) == s # NoSlot => Expired(s)

HeldBy(s, h, t) == s # NoSlot /\ s.holder = h /\ s.tab = t

\* acquire() when Free(s)
Taken(h, t) == [holder |-> h, tab |-> t, age |-> 0]

\* Mutant: release() compares the tab only.
ReleasedByTab(s, h, t) == IF s # NoSlot /\ s.tab = t THEN NoSlot ELSE s

\* release(): only this holder in this tab
Released(s, h, t) == IF HeldBy(s, h, t) THEN NoSlot ELSE s

\* Mutant: moveTo() compares the tab it moves to.
MovedWrongWay(s, h, from, to) == IF HeldBy(s, h, to) THEN [s EXCEPT !.tab = to] ELSE s

\* moveTo()
Moved(s, h, from, to) == IF HeldBy(s, h, from) THEN [s EXCEPT !.tab = to] ELSE s

\* Mutant: releaseTab() compares nothing.
TabReleasedAlways(s, t) == NoSlot

\* releaseTab(): whoever holds it there
TabReleased(s, t) == IF s # NoSlot /\ s.tab = t THEN NoSlot ELSE s

\* Mutant: the age is counted down.
OlderBackwards(s) == IF s # NoSlot THEN [s EXCEPT !.age = @ - 1] ELSE s

\* A minute later; past the limit a slot need not get any older.
Older(s) ==
  IF s # NoSlot /\ s.age <= Limit[s.holder] THEN [s EXCEPT !.age = @ + 1] ELSE s
=============================================================================
