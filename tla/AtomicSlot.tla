----------------------------- MODULE AtomicSlot -----------------------------
(***************************************************************************)
(* The Facebook slot as the code that uses it may think of it: each        *)
(* operation of slot.ts reads and writes the slot in one step.             *)
(* FacebookSlot implements this module, so the modules built on the slot   *)
(* (PostReader, TabActivities) take its operations in one step each.       *)
(***************************************************************************)
EXTENDS SlotOps

VARIABLE slot

Init == slot = NoSlot

Acquire(h, t) == Free(slot) /\ slot' = Taken(h, t)
Release(h, t) == slot' = Released(slot, h, t)
Move(h, t)    == slot' = Moved(slot, h, NoTab, t)
TabClosed(t)  == slot' = TabReleased(slot, t)
Tick          == slot' = Older(slot)

Next ==
  \/ \E h \in Holders, t \in Tabs \cup {NoTab} : Acquire(h, t) \/ Release(h, t)
  \/ \E h \in Holders, t \in Tabs : Move(h, t)
  \/ \E t \in Tabs : TabClosed(t)
  \/ Tick

Spec == Init /\ [][Next]_slot
=============================================================================
