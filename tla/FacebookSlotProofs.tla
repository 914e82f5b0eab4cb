------------------------- MODULE FacebookSlotProofs -------------------------
(***************************************************************************)
(* Proofs about FacebookSlot for any set of callers, tabs and limits:      *)
(* types, mutual exclusion up to expiry, and that nobody frees a slot of   *)
(* somebody else.                                                          *)
(***************************************************************************)
EXTENDS FacebookSlot, TLAPS

\* The assumptions as the provers use them.
LEMMA SlotType ==
  /\ NoTab \notin Tabs
  /\ NoSlot \notin [holder : Holders, tab : Tabs \cup {NoTab}, age : Nat]
  /\ NotRead \notin SlotValues
  /\ Nobody \notin Callers
  /\ \A c \in Callers : HolderOf[c] \in Holders /\ TabOf[c] \in Tabs
  /\ \A c \in Callers : StartTab(c) \in {NoTab, TabOf[c]}
  /\ Callers \cap Tabs = {}
BY SlotAssumption, FacebookSlotAssumption DEF StartTab

-----------------------------------------------------------------------------
(* Every operation leaves a slot value. *)

LEMMA TakenType ==
  ASSUME NEW h \in Holders, NEW t \in Tabs \cup {NoTab}
  PROVE  Taken(h, t) \in SlotValues /\ Taken(h, t) # NoSlot
BY SlotType DEF Taken, SlotValues

LEMMA MovedType ==
  ASSUME NEW s \in SlotValues, NEW h, NEW from, NEW to \in Tabs \cup {NoTab}
  PROVE  /\ Moved(s, h, from, to) \in SlotValues
         /\ Moved(s, h, from, to) = NoSlot <=> s = NoSlot
BY SlotType DEF Moved, HeldBy, SlotValues

LEMMA OlderType ==
  ASSUME NEW s \in SlotValues
  PROVE  /\ Older(s) \in SlotValues
         /\ Older(s) = NoSlot <=> s = NoSlot
         /\ s # NoSlot => Older(s).holder = s.holder /\ Older(s).tab = s.tab
BY SlotType DEF Older, SlotValues

LEMMA TypeNext == ASSUME TypeOK, [Next]_vars PROVE TypeOK'
<1> USE DEF TypeOK, Waiting
<1>1. ASSUME NEW c \in Callers, CallerStep(c) PROVE TypeOK'
  <2>0. c \in Requests /\ StartTab(c) \in Tabs \cup {NoTab}
    BY SlotType DEF Requests
  <2>1. CASE AskAcquire(c) BY <2>0, <2>1 DEF AskAcquire, Ask, Goto
  <2>2. CASE GiveUp(c) BY <2>2 DEF GiveUp, Goto
  <2>3. CASE AskMove(c) BY <2>0, <2>3 DEF AskMove, Ask, Goto
  <2>4. CASE AskRelease(c) BY <2>0, <2>4 DEF AskRelease, Ask, Goto
  <2> QED BY <1>1, <2>1, <2>2, <2>3, <2>4 DEF CallerStep
<1>2. ASSUME NEW t \in Tabs, CloseTab(t) PROVE TypeOK'
  BY <1>2 DEF CloseTab, Requests
<1>3. ASSUME NEW x \in Requests, Get(x) PROVE TypeOK'
  BY <1>3 DEF Get
<1>4. ASSUME NEW x \in Requests, Set(x) PROVE TypeOK'
  <2>1. seen[x] \in SlotValues BY <1>4 DEF Set
  <2>2. /\ seen' = [seen EXCEPT ![x] = NotRead] /\ queue' = Tail(queue)
        /\ UNCHANGED closed /\ queue # <<>>
    BY <1>4 DEF Set, Turn
  <2>3. seen' \in [Requests -> SlotValues \cup {NotRead}] /\ queue' \in Seq(Requests)
    BY <2>2
  <2>4. CASE x \in Callers /\ SetAcquire(x)
    BY <2>1, <2>2, <2>3, <2>4, SlotType, TakenType DEF SetAcquire, Write, Goto
  <2>5. CASE x \in Callers /\ SetMove(x)
    BY <2>1, <2>2, <2>3, <2>5, SlotType, MovedType DEF SetMove, Write, Goto
  <2>6. CASE x \in Callers /\ SetRelease(x)
    BY <2>1, <2>2, <2>3, <2>6 DEF SetRelease, Write, Goto, Released, SlotValues
  <2>7. CASE SetTabClosed(x)
    BY <2>1, <2>2, <2>3, <2>7 DEF SetTabClosed, Write, TabReleased, SlotValues
  <2> QED BY <1>4, <2>4, <2>5, <2>6, <2>7 DEF Set
<1>5. CASE WorkerStops BY <1>5 DEF WorkerStops
<1>6. CASE Tick BY <1>6, OlderType DEF Tick
<1>7. CASE UNCHANGED vars BY <1>7 DEF vars
<1> QED BY <1>1, <1>2, <1>3, <1>4, <1>5, <1>6, <1>7 DEF Next

LEMMA TypeInit == Init => TypeOK
BY SlotType DEF Init, TypeOK, Requests, SlotValues

\* Types hold in every reachable state.
THEOREM TypeCorrect == Spec => []TypeOK
<1>1. TypeOK /\ [Next]_vars => TypeOK' BY TypeNext
<1> QED BY <1>1, TypeInit, PTL DEF Spec

-----------------------------------------------------------------------------
(* The chain: the operation in service is the first one, and the slot has not
   changed since it read it. *)

ChainInv == \A x \in Requests : seen[x] # NotRead => Turn(x) /\ seen[x] = slot

\* releaseTab() is only asked for tabs that are closed.
ClosedInv == \A i \in 1..Len(queue) : queue[i] \in Tabs => queue[i] \in closed

LEMMA AppendTurn ==
  ASSUME NEW q \in Seq(Requests), NEW x \in Requests
  PROVE  /\ q # <<>> => Append(q, x) # <<>> /\ Head(Append(q, x)) = Head(q)
         /\ Len(Append(q, x)) = Len(q) + 1
         /\ \A i \in 1..Len(q) + 1 : Append(q, x)[i] = IF i = Len(q) + 1 THEN x ELSE q[i]
OBVIOUS

LEMMA ChainNext ==
  ASSUME TypeOK, ChainInv, ClosedInv, [Next]_vars
  PROVE  ChainInv' /\ ClosedInv'
<1> DEFINE Goal == ChainInv' /\ ClosedInv'
<1>0. queue \in Seq(Requests) /\ seen \in [Requests -> SlotValues \cup {NotRead}]
  BY DEF TypeOK
<1>a. ASSUME NEW x \in Requests, queue' = Append(queue, x), UNCHANGED <<slot, seen>>,
             x \in Tabs => x \in closed', closed \subseteq closed'
      PROVE  Goal
  BY <1>0, <1>a, AppendTurn DEF ChainInv, ClosedInv, Turn
<1>1. ASSUME NEW c \in Callers, CallerStep(c) PROVE Goal
  <2>1. CASE GiveUp(c) BY <2>1 DEF GiveUp, ChainInv, ClosedInv, Turn
  <2>2. CASE AskAcquire(c) \/ AskMove(c) \/ AskRelease(c)
    BY <1>a, <2>2, SlotType DEF AskAcquire, AskMove, AskRelease, Ask, Requests
  <2> QED BY <1>1, <2>1, <2>2 DEF CallerStep
<1>2. ASSUME NEW t \in Tabs, CloseTab(t) PROVE Goal
  BY <1>a, <1>2 DEF CloseTab, Requests
<1>3. ASSUME NEW x \in Requests, Get(x) PROVE Goal
  BY <1>0, <1>3 DEF Get, ChainInv, ClosedInv, Turn
<1>4. ASSUME NEW x \in Requests, Set(x) PROVE Goal
  <2>1. /\ queue # <<>> /\ Head(queue) = x /\ queue' = Tail(queue)
        /\ seen' = [seen EXCEPT ![x] = NotRead] /\ UNCHANGED closed
    BY <1>4 DEF Set, Turn
  <2>2. ASSUME NEW y \in Requests PROVE seen'[y] = NotRead
    BY <1>0, <2>1 DEF ChainInv, Turn
  <2>3. ClosedInv'
    <3>1. Len(queue') = Len(queue) - 1 /\ \A i \in 1..Len(queue') : queue'[i] = queue[i + 1]
      BY <1>0, <2>1
    <3>2. ASSUME NEW i \in 1..Len(queue') PROVE i + 1 \in 1..Len(queue)
      BY <1>0, <3>1
    <3> QED BY <2>1, <3>1, <3>2 DEF ClosedInv
  <2> QED BY <2>2, <2>3 DEF ChainInv
<1>5. CASE WorkerStops BY <1>5 DEF WorkerStops, ChainInv, ClosedInv
<1>6. CASE Tick BY <1>6 DEF Tick, ChainInv, ClosedInv
<1>7. CASE UNCHANGED vars BY <1>7 DEF vars, ChainInv, ClosedInv, Turn
<1> QED BY <1>1, <1>2, <1>3, <1>4, <1>5, <1>6, <1>7 DEF Next

-----------------------------------------------------------------------------
(* Whose the slot is *)

\* The slot carries the name of its owner and a tab of its owner.
OwnerInv ==
  /\ slot = NoSlot <=> owner = Nobody
  /\ owner \in Callers =>
       /\ slot.holder = HolderOf[owner]
       /\ slot.tab \in {StartTab(owner), TabOf[owner]}
  /\ \A c \in Callers : at[c] \in {StartTab(c), TabOf[c]}
  /\ \A c \in Callers : pc[c] = "moving" => c \in OpensTab

\* Who works has the slot, or had it until it expired, or its tab is closed.
WorkInv ==
  \A c \in Callers :
    pc[c] \in {"working", "moving"} /\ TabOf[c] \notin closed => owner = c \/ c \in lapsed

Inv == TypeOK /\ ChainInv /\ ClosedInv /\ OwnerInv /\ WorkInv

\* A caller's key opens no slot but its own.
LEMMA KeyIsOwn ==
  ASSUME TypeOK, OwnerInv, NEW c \in Callers, HeldBy(slot, HolderOf[c], at[c])
  PROVE  owner = c
<1>1. owner \in Callers
  BY DEF HeldBy, OwnerInv, TypeOK
<1>2. SUFFICES ASSUME owner # c PROVE FALSE
  OBVIOUS
<1>3. /\ HolderOf[owner] = HolderOf[c]
      /\ slot.tab = at[c]
      /\ slot.tab \in {StartTab(owner), TabOf[owner]}
      /\ at[c] \in {StartTab(c), TabOf[c]}
  BY <1>1 DEF HeldBy, OwnerInv
<1>4. TabOf[owner] # TabOf[c] /\ ~ {owner, c} \subseteq OpensTab
  BY <1>1, <1>2, <1>3, FacebookSlotAssumption DEF KeysDistinct
<1> QED BY <1>1, <1>3, <1>4, SlotType DEF StartTab

\* releaseTab() finds a slot of that tab only with an owner that works there.
LEMMA TabIsOwners ==
  ASSUME TypeOK, OwnerInv, NEW t \in Tabs, slot # NoSlot, slot.tab = t
  PROVE  owner \in Callers /\ TabOf[owner] = t
BY SlotType DEF OwnerInv, TypeOK, StartTab

\* What Set(x) works from.
LEMMA SetReads ==
  ASSUME TypeOK, ChainInv, ClosedInv, NEW x \in Requests, Set(x)
  PROVE  /\ seen[x] = slot
         /\ x \in Tabs => x \in closed
         /\ UNCHANGED closed
<1>1. queue # <<>> /\ Head(queue) = x /\ queue \in Seq(Requests)
  BY DEF Set, Turn, TypeOK
<1>2. queue[1] = x /\ 1 \in 1..Len(queue)
  BY <1>1
<1> QED BY <1>2 DEF Set, ChainInv, ClosedInv

LEMMA OwnerNext ==
  ASSUME Inv, [Next]_vars
  PROVE  OwnerInv' /\ WorkInv'
<1> DEFINE Goal == OwnerInv' /\ WorkInv'
<1> USE DEF Inv
<1>1. ASSUME NEW c \in Callers, CallerStep(c) PROVE Goal
  <2>1. CASE AskAcquire(c)
    BY <2>1 DEF AskAcquire, Ask, Goto, OwnerInv, WorkInv, StartTab, TypeOK
  <2>2. CASE GiveUp(c) BY <2>2 DEF GiveUp, Goto, OwnerInv, WorkInv, StartTab, TypeOK
  <2>3. CASE AskMove(c) BY <2>3, SlotType DEF AskMove, Ask, Goto, OwnerInv, WorkInv, StartTab, TypeOK
  <2>4. CASE AskRelease(c) BY <2>4 DEF AskRelease, Ask, Goto, OwnerInv, WorkInv, StartTab, TypeOK
  <2> QED BY <1>1, <2>1, <2>2, <2>3, <2>4 DEF CallerStep
<1>2. ASSUME NEW t \in Tabs, CloseTab(t) PROVE Goal
  BY <1>2 DEF CloseTab, OwnerInv, WorkInv, StartTab
<1>3. ASSUME NEW x \in Requests, Get(x) PROVE Goal
  BY <1>3 DEF Get, OwnerInv, WorkInv, StartTab
<1>4. ASSUME NEW x \in Requests, Set(x) PROVE Goal
  <2>1. seen[x] = slot /\ (x \in Tabs => x \in closed) /\ UNCHANGED closed
    BY <1>4, SetReads
  <2>2. CASE x \in Callers /\ SetAcquire(x)
    <3>1. CASE Free(slot)
      <4>1. /\ slot' = Taken(HolderOf[x], at[x]) /\ owner' = x
            /\ pc' = [pc EXCEPT ![x] = "working"] /\ UNCHANGED at
            /\ lapsed' = (lapsed \cup ({owner} \cap Callers)) \ {x}
        BY <2>1, <2>2, <3>1, SlotType, TakenType DEF SetAcquire, Write, Goto, TypeOK
      <4>2. slot' # NoSlot /\ slot'.holder = HolderOf[x] /\ slot'.tab = at[x]
        BY <2>2, <4>1, SlotType, TakenType DEF Taken, TypeOK
      <4>3. OwnerInv'
        BY <2>2, <4>1, <4>2, SlotType DEF OwnerInv, StartTab
      <4>4. WorkInv'
        BY <2>1, <2>2, <4>1 DEF WorkInv, TypeOK
      <4> QED BY <4>3, <4>4
    <3>2. CASE ~ Free(slot)
      BY <2>1, <2>2, <3>2 DEF SetAcquire, Goto, OwnerInv, WorkInv, StartTab, TypeOK
    <3> QED BY <3>1, <3>2
  <2>3. CASE x \in Callers /\ SetMove(x)
    <3>1. /\ slot' = Moved(slot, HolderOf[x], NoTab, TabOf[x])
          /\ owner' = owner /\ (slot' = NoSlot <=> slot = NoSlot)
          /\ at' = [at EXCEPT ![x] = TabOf[x]]
          /\ pc' = [pc EXCEPT ![x] = "working"] /\ pc[x] = "moving" /\ UNCHANGED lapsed
      BY <2>1, <2>3, SlotType, MovedType DEF SetMove, Write, Goto, TypeOK, OwnerInv
    <3>2. WorkInv'
      BY <2>1, <2>3, <3>1 DEF WorkInv, TypeOK
    <3>3. ASSUME owner \in Callers
          PROVE  slot'.holder = HolderOf[owner] /\ slot'.tab \in {StartTab(owner), TabOf[owner]}
      <4>1. CASE HeldBy(slot, HolderOf[x], NoTab)
        <5>1. slot \in [holder : Holders, tab : Tabs \cup {NoTab}, age : Nat]
          BY <4>1 DEF HeldBy, TypeOK, SlotValues
        <5>2. slot' = [slot EXCEPT !.tab = TabOf[x]]
          BY <3>1, <4>1 DEF Moved
        <5>3. owner = x
          <6>1. StartTab(owner) = NoTab /\ HolderOf[owner] = HolderOf[x]
            BY <3>3, <4>1, SlotType DEF HeldBy, OwnerInv
          <6>2. owner \in OpensTab
            BY <3>3, <6>1, SlotType DEF StartTab
          <6>3. x \in OpensTab
            BY <2>3 DEF SetMove, OwnerInv
          <6> QED BY <2>3, <3>3, <6>1, <6>2, <6>3, FacebookSlotAssumption DEF KeysDistinct
        <5> QED BY <5>1, <5>2, <5>3, <3>3 DEF OwnerInv
      <4>2. CASE ~ HeldBy(slot, HolderOf[x], NoTab)
        BY <3>1, <3>3, <4>2 DEF Moved, OwnerInv
      <4> QED BY <4>1, <4>2
    <3> QED BY <2>3, <3>1, <3>2, <3>3 DEF OwnerInv, StartTab, TypeOK
  <2>4. CASE x \in Callers /\ SetRelease(x)
    <3>1. CASE HeldBy(slot, HolderOf[x], at[x])
      <4>1. owner = x BY <2>4, <3>1, KeyIsOwn
      <4>2. slot' = NoSlot /\ owner' = Nobody /\ pc' = [pc EXCEPT ![x] = "idle"]
            /\ UNCHANGED <<at, lapsed>>
        BY <2>1, <2>4, <3>1 DEF SetRelease, Write, Released, Goto
      <4> QED BY <2>1, <2>4, <4>1, <4>2, SlotType DEF OwnerInv, WorkInv, StartTab, TypeOK
    <3>2. CASE ~ HeldBy(slot, HolderOf[x], at[x])
      <4>1. slot' = slot /\ owner' = owner /\ pc' = [pc EXCEPT ![x] = "idle"]
            /\ UNCHANGED <<at, lapsed>>
        BY <2>1, <2>4, <3>2 DEF SetRelease, Write, Released, Goto, OwnerInv
      <4> QED BY <2>1, <2>4, <4>1 DEF OwnerInv, WorkInv, StartTab, TypeOK
    <3> QED BY <3>1, <3>2
  <2>5. CASE SetTabClosed(x)
    <3>1. x \in Tabs /\ x \in closed /\ UNCHANGED <<pc, at, lapsed>>
      BY <2>1, <2>5 DEF SetTabClosed
    <3>2. CASE slot # NoSlot /\ slot.tab = x
      <4>1. owner \in Callers /\ TabOf[owner] = x BY <3>1, <3>2, TabIsOwners
      <4>2. slot' = NoSlot /\ owner' = Nobody
        BY <2>1, <2>5, <3>2 DEF SetTabClosed, Write, TabReleased
      <4> QED BY <2>1, <3>1, <4>1, <4>2, SlotType DEF OwnerInv, WorkInv, StartTab, TypeOK
    <3>3. CASE ~ (slot # NoSlot /\ slot.tab = x)
      <4>1. slot' = slot /\ owner' = owner
        BY <2>1, <2>5, <3>3 DEF SetTabClosed, Write, TabReleased, OwnerInv
      <4> QED BY <2>1, <3>1, <4>1 DEF OwnerInv, WorkInv, StartTab
    <3> QED BY <3>2, <3>3
  <2> QED BY <1>4, <2>2, <2>3, <2>4, <2>5 DEF Set
<1>5. CASE WorkerStops
  BY <1>5 DEF WorkerStops, OwnerInv, WorkInv, StartTab, TypeOK, Waiting
<1>6. CASE Tick
  BY <1>6, OlderType, SlotType DEF Tick, OwnerInv, WorkInv, StartTab, TypeOK
<1>7. CASE UNCHANGED vars BY <1>7 DEF vars, OwnerInv, WorkInv, StartTab
<1> QED BY <1>1, <1>2, <1>3, <1>4, <1>5, <1>6, <1>7 DEF Next

THEOREM InvCorrect == Spec => []Inv
<1>1. Init => Inv
  BY SlotType, TypeInit DEF Init, Inv, ChainInv, ClosedInv, OwnerInv, WorkInv, StartTab
<1>2. Inv /\ [Next]_vars => Inv'
  BY TypeNext, ChainNext, OwnerNext DEF Inv
<1> QED BY <1>1, <1>2, PTL DEF Spec

\* slot.ts:1-2: at most one activity at work has not outlived its time limit.
THEOREM OneActivityHolds == Spec => []OneActivity
<1>1. Inv => OneActivity
  BY DEF Inv, WorkInv, OneActivity, Working
<1> QED BY <1>1, InvCorrect, PTL

\* Nobody frees somebody else's slot.
THEOREM OwnerKeeps == Spec => OwnerKeepsSlot
<1>1. ASSUME Inv, [Next]_vars, owner \in Callers, owner' # owner
      PROVE  MayLose(owner)
  <2>1. slot # NoSlot BY <1>1, SlotType DEF Inv, OwnerInv
  <2>2. PICK x \in Requests : Set(x)
    BY <1>1 DEF Next, CallerStep, AskAcquire, GiveUp, AskMove, AskRelease, Ask, CloseTab, Get,
                WorkerStops, Tick, vars
  <2>3. seen[x] = slot /\ (x \in Tabs => x \in closed)
    BY <1>1, <2>2, SetReads DEF Inv
  <2>4. CASE x \in Callers /\ SetAcquire(x)
    BY <1>1, <2>1, <2>3, <2>4 DEF SetAcquire, Free, MayLose
  <2>5. CASE x \in Callers /\ SetMove(x)
    BY <1>1, <2>1, <2>3, <2>5, SlotType, MovedType DEF SetMove, Write, Inv, TypeOK
  <2>6. CASE x \in Callers /\ SetRelease(x)
    <3>1. HeldBy(slot, HolderOf[x], at[x])
      BY <1>1, <2>1, <2>3, <2>6 DEF SetRelease, Write, Released
    <3> QED BY <1>1, <2>6, <3>1, KeyIsOwn DEF Inv, SetRelease, MayLose
  <2>7. CASE SetTabClosed(x)
    <3>1. slot.tab = x /\ x \in Tabs
      BY <1>1, <2>1, <2>3, <2>7 DEF SetTabClosed, Write, TabReleased
    <3> QED BY <1>1, <2>1, <2>3, <3>1, TabIsOwners DEF Inv, MayLose
  <2> QED BY <2>2, <2>4, <2>5, <2>6, <2>7 DEF Set
<1>2. Inv /\ [Next]_vars => [(owner \in Callers /\ owner' # owner) => MayLose(owner)]_vars
  BY <1>1
<1> QED BY <1>2, InvCorrect, PTL DEF Spec, OwnerKeepsSlot

\* Every step is one operation on the slot, or leaves it alone.
THEOREM Implements == Spec => AtomicSpec
<1>1. Init => Atomic!Init
  BY DEF Init, Atomic!Init
<1>2. ASSUME Inv, [Next]_vars PROVE [Atomic!Next]_slot
  <2>1. CASE UNCHANGED slot BY <2>1
  <2>2. CASE Tick
    <3>1. slot' = Older(slot) BY <2>2 DEF Tick
    <3>2. Atomic!Older(slot) = Older(slot)
      BY DEF Older, Atomic!Older
    <3> QED BY <3>1, <3>2 DEF Atomic!Tick, Atomic!Next
  <2>3. ASSUME NEW x \in Requests, Set(x) PROVE [Atomic!Next]_slot
    <3>1. seen[x] = slot BY <1>2, <2>3, SetReads DEF Inv
    <3>2. CASE x \in Callers /\ SetAcquire(x)
      <4>1. HolderOf[x] \in Holders /\ at[x] \in Tabs \cup {NoTab}
        BY <1>2, <3>2, SlotType DEF Inv, TypeOK
      <4>2. CASE Free(slot)
        <5>1. Atomic!Acquire(HolderOf[x], at[x])
          BY <3>1, <3>2, <4>2 DEF SetAcquire, Write, Taken, Free, Expired, Atomic!Acquire,
            Atomic!Taken, Atomic!Free, Atomic!Expired
        <5> QED BY <4>1, <5>1 DEF Atomic!Next
      <4>3. CASE ~ Free(slot) BY <3>1, <3>2, <4>3 DEF SetAcquire
      <4> QED BY <4>2, <4>3
    <3>3. CASE x \in Callers /\ SetMove(x)
      <4>1. HolderOf[x] \in Holders /\ TabOf[x] \in Tabs
        BY <3>3, SlotType
      <4>2. Atomic!Move(HolderOf[x], TabOf[x])
        BY <3>1, <3>3 DEF SetMove, Write, Moved, HeldBy, Atomic!Move, Atomic!Moved, Atomic!HeldBy
      <4> QED BY <4>1, <4>2 DEF Atomic!Next
    <3>4. CASE x \in Callers /\ SetRelease(x)
      <4>1. HolderOf[x] \in Holders /\ at[x] \in Tabs \cup {NoTab}
        BY <1>2, <3>4, SlotType DEF Inv, TypeOK
      <4>2. Atomic!Release(HolderOf[x], at[x])
        BY <3>1, <3>4 DEF SetRelease, Write, Released, HeldBy, Atomic!Release, Atomic!Released,
          Atomic!HeldBy
      <4> QED BY <4>1, <4>2 DEF Atomic!Next
    <3>5. CASE SetTabClosed(x)
      <4>1. x \in Tabs /\ Atomic!TabClosed(x)
        BY <3>1, <3>5 DEF SetTabClosed, Write, TabReleased, Atomic!TabClosed, Atomic!TabReleased
      <4> QED BY <4>1 DEF Atomic!Next
    <3> QED BY <2>3, <3>2, <3>3, <3>4, <3>5 DEF Set
  <2> QED
    BY <1>2, <2>1, <2>2, <2>3 DEF Next, CallerStep, AskAcquire, GiveUp, AskMove, AskRelease, Ask,
      CloseTab, Get, WorkerStops, vars
<1> QED BY <1>1, <1>2, InvCorrect, PTL DEF Spec, AtomicSpec, Atomic!Spec
=============================================================================
