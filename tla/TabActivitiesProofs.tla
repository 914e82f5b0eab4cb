------------------------ MODULE TabActivitiesProofs ------------------------
(***************************************************************************)
(* Proofs about TabActivities for any activities, tabs and limits: types,  *)
(* that one tab at a time talks to Facebook, and that without accidents    *)
(* whoever has the slot is still going to give it back.                    *)
(***************************************************************************)
EXTENDS TabActivities, TLAPS

\* The assumptions as the provers use them.
LEMMA Given ==
  /\ NoTab \notin Tabs
  /\ NoSlot \notin [holder : Holders, tab : Tabs \cup {NoTab}, age : Nat]
  /\ Limit \in [Holders -> Nat]
  /\ \A c \in Calls : TabOf[c] \in Tabs
  /\ \A c \in Calls : Kind[c] \in {"scan", "read", "continue", "new", "auto"}
  /\ \A c \in Calls : HolderOf(c) \in Holders
  /\ \A c, d \in Calls : Kind[c] = "new" /\ Kind[d] = "new" /\ TabOf[c] = TabOf[d] => c = d
BY SlotAssumption, TabActivitiesAssumption DEF HolderOf

-----------------------------------------------------------------------------
(* The inductive invariant *)

One(b) == IF b THEN 1 ELSE 0

\* How much is at work in a tab: its page, and reports of its end.
Uses(t) == One(run[t] # "none") + dones[t] + One(t \in autoDone)

\* A function at work, in a tab that is open or yet to be opened
Live(c) == AtWork(c) /\ (at[c] = NoTab \/ at[c] \in open)

InTime == slot # NoSlot /\ slot.age <= Limit[slot.holder]

\* The tab of a call that has not opened it yet is nobody's.
Unborn(c) ==
  LET t == TabOf[c] IN
  /\ t \notin open
  /\ dones[t] = 0 /\ halfDone[t] = 0 /\ t \notin autoDone \cup removed
  /\ \A d \in Calls \ {c} : TabOf[d] = t => pc[d] = "idle"

\* Where the calls are, and what closed tabs cannot have
Places ==
  /\ \A t \in Tabs \ open : run[t] = "none"
  /\ removed \cap open = {}
  /\ \A c \in Calls :
       /\ at[c] \in {NoTab, TabOf[c]}
       /\ Kind[c] # "new" => at[c] = TabOf[c]
       /\ pc[c] \in {"load", "send"} => at[c] = TabOf[c]
       /\ pc[c] = "move" => Kind[c] = "new"
       /\ Kind[c] = "new" /\ pc[c] \in {"idle", "wait", "got", "move"} => at[c] = NoTab
       /\ Kind[c] = "new" /\ pc[c] \in {"idle", "wait", "got"} => Unborn(c)

\* A live function has the slot, alone.
FunctionsHold ==
  \A c \in Calls : Live(c) =>
    /\ HeldBy(slot, HolderOf(c), at[c]) /\ InTime
    /\ \A d \in Calls : Live(d) => d = c
    /\ \A t \in open : Uses(t) = 0

\* So has a page at work, or one whose report is on its way.
PagesHold ==
  \A t \in open : Uses(t) > 0 =>
    /\ InTime /\ slot.tab = t
    /\ Uses(t) = 1
    /\ run[t] = "menu" \/ dones[t] > 0 => slot.holder \in {"menu-scan", "menu-read"}
    /\ run[t] = "auto" \/ t \in autoDone => slot.holder = "auto-scan"

\* Until the slot is lost.
SlotInv == TypeOK /\ Places /\ (~ astray => FunctionsHold /\ PagesHold)

\* Where the tabs of the calls are without accidents.
CalmTabs ==
  /\ removed = {}
  /\ \A c \in Calls : Kind[c] # "new" /\ pc[c] # "idle" => TabOf[c] \in open
  /\ \A c \in Calls : Kind[c] = "new" /\ at[c] # NoTab => TabOf[c] \in open
  /\ \A c \in Calls : Kind[c] = "new" /\ pc[c] = "move" => TabOf[c] \in open

\* What the slot is held for then.
HeldForUse ==
  slot # NoSlot =>
    \/ \E c \in Calls : Live(c)
    \/ slot.tab \in open /\ Uses(slot.tab) > 0
    \/ slot.tab \in open /\ slot.holder = "menu-read" /\ halfDone[slot.tab] > 0

CalmInv == calm => CalmTabs /\ (~ astray => HeldForUse)

-----------------------------------------------------------------------------
(* Types *)

LEMMA TakenType ==
  ASSUME NEW h \in Holders, NEW t \in Tabs \cup {NoTab}
  PROVE  Taken(h, t) \in SlotValues /\ Taken(h, t) # NoSlot
BY Given DEF Taken, SlotValues

LEMMA MovedType ==
  ASSUME NEW s \in SlotValues, NEW h, NEW from, NEW t \in Tabs \cup {NoTab}
  PROVE  Moved(s, h, from, t) \in SlotValues
BY Given DEF Moved, HeldBy, SlotValues

LEMMA FreedType ==
  ASSUME NEW s \in SlotValues, NEW h, NEW t
  PROVE  /\ NoSlot \in SlotValues
         /\ Released(s, h, t) \in {s, NoSlot}
         /\ TabReleased(s, t) \in {s, NoSlot}
BY DEF Released, TabReleased, SlotValues

LEMMA OlderType ==
  ASSUME NEW s \in SlotValues
  PROVE  Older(s) \in SlotValues
BY Given DEF Older, SlotValues

LEMMA TypeInit == Init => TypeOK
<1>1. Init => astray \in BOOLEAN
  BY Zenon DEF Init
<1> HIDE DEF Init
<1> SUFFICES ASSUME Init PROVE TypeOK
  OBVIOUS
<1>2. /\ slot = NoSlot /\ pc = [c \in Calls |-> "idle"]
      /\ at = [c \in Calls |-> IF Kind[c] = "new" THEN NoTab ELSE TabOf[c]]
      /\ open = Tabs \ NewTabs /\ run = [t \in Tabs |-> "none"]
      /\ dones = [t \in Tabs |-> 0] /\ halfDone = [t \in Tabs |-> 0]
      /\ autoDone = {} /\ removed = {} /\ calm \in BOOLEAN
  BY DEF Init
<1> QED BY <1>1, <1>2, Given DEF TypeOK, NewTabs, SlotValues

\* A slot that was not lost in this step was not lost before.
LEMMA NotLost ==
  ASSUME [Next]_vars, ~ astray'
  PROVE  ~ astray /\ (Next => ~ Outlasts /\ \A t \in Tabs : ~ Crosses(t))
<1>0. ~ astray' /\ (Next \/ UNCHANGED vars)
  OBVIOUS
<1>1. ASSUME Next PROVE astray' = (astray \/ Outlasts \/ \E t \in Tabs : Crosses(t))
  BY <1>1, Zenon DEF Next
<1>2. ASSUME UNCHANGED vars PROVE astray' = astray
  BY <1>2 DEF vars
<1>3. ASSUME Next PROVE ~ astray /\ ~ Outlasts /\ \A t \in Tabs : ~ Crosses(t)
  BY ONLY <1>0, <1>1, <1>3, Zenon
<1>4. ASSUME UNCHANGED vars PROVE ~ astray
  BY ONLY <1>0, <1>2, <1>4
<1> QED BY ONLY <1>0, <1>3, <1>4, Zenon

LEMMA TypeNext == ASSUME TypeOK, [Next]_vars PROVE TypeOK'
<1> USE DEF TypeOK, Step, Plus, Minus, messages
<1>0. calm' \in BOOLEAN /\ astray' \in BOOLEAN
  <2>1. Next => calm' \in BOOLEAN /\ astray' \in BOOLEAN
    BY Zenon DEF Next
  <2>2. UNCHANGED vars => calm' \in BOOLEAN /\ astray' \in BOOLEAN
    BY DEF vars
  <2> QED BY <2>1, <2>2
<1>1. ASSUME NEW c \in Calls, CallStep(c) PROVE TypeOK'
  <2>0. /\ TabOf[c] \in Tabs /\ HolderOf(c) \in Holders /\ calm' \in BOOLEAN /\ astray' \in BOOLEAN
        /\ at[c] \in Tabs \cup {NoTab}
    BY <1>0, Given
  <2>1. CASE Start(c) BY <2>0, <2>1 DEF Start
  <2>2. CASE Acquire(c) BY <2>0, <2>2, TakenType DEF Acquire
  <2>3. CASE GiveUp(c) BY <2>0, <2>3 DEF GiveUp
  <2>4. CASE OnNewPosts(c) BY <2>0, <2>4 DEF OnNewPosts
  <2>5. CASE Update(c) BY <2>0, <2>5 DEF Update
  <2>6. CASE Create(c) BY <2>0, <2>6 DEF Create
  <2>7. CASE Move(c) BY <2>0, <2>7, MovedType DEF Move
  <2>8. CASE Load(c) BY <2>0, <2>8 DEF Load
  <2>9. CASE Send(c) BY <2>0, <2>9 DEF Send, Asked
  <2>10. CASE Fail(c) BY <2>0, <2>10, FreedType DEF Fail
  <2> QED BY <1>1, <2>1, <2>2, <2>3, <2>4, <2>5, <2>6, <2>7, <2>8, <2>9, <2>10 DEF CallStep
<1>2. ASSUME NEW t \in Tabs, TabStep(t) PROVE TypeOK'
  <2>1. CASE PageDone(t) BY <1>0, <2>1 DEF PageDone
  <2>2. CASE ActivityDone(t) BY <1>0, <2>2, FreedType DEF ActivityDone
  <2>3. CASE ThenRead(t) BY <1>0, <2>3, FreedType DEF ThenRead
  <2>4. CASE AutoScanDone(t) BY <1>0, <2>4, FreedType DEF AutoScanDone
  <2>5. CASE CloseTab(t) BY <1>0, <2>5 DEF CloseTab
  <2>6. CASE TabRemoved(t) BY <1>0, <2>6, FreedType DEF TabRemoved
  <2>7. CASE PageDies(t) BY <1>0, <2>7 DEF PageDies
  <2> QED BY <1>2, <2>1, <2>2, <2>3, <2>4, <2>5, <2>6, <2>7 DEF TabStep
<1>3. CASE WorkerStops BY <1>0, <1>3 DEF WorkerStops
<1>4. CASE Tick BY <1>0, <1>4, OlderType DEF Tick
<1>5. CASE UNCHANGED vars BY <1>5 DEF vars
<1> QED BY <1>1, <1>2, <1>3, <1>4, <1>5 DEF Next

-----------------------------------------------------------------------------
(* Places *)

LEMMA PlacesInit == Init => Places
<1> SUFFICES ASSUME Init PROVE Places
  OBVIOUS
<1>1. \A c \in Calls : pc[c] = "idle" /\ at[c] = (IF Kind[c] = "new" THEN NoTab ELSE TabOf[c])
  BY DEF Init
<1>2. \A c \in Calls : Kind[c] = "new" => TabOf[c] \notin open
  BY DEF Init, NewTabs
<1>3. \A t \in Tabs : run[t] = "none" /\ dones[t] = 0 /\ halfDone[t] = 0
  BY DEF Init
<1>4. autoDone = {} /\ removed = {}
  BY DEF Init
<1> QED BY <1>1, <1>2, <1>3, <1>4, Given DEF Places, Unborn

LEMMA PlacesNext == ASSUME TypeOK, Places, [Next]_vars PROVE Places'
<1> USE DEF TypeOK, Places, Unborn, Step, messages
<1>1. ASSUME NEW c \in Calls, CallStep(c) PROVE Places'
  <2>0. /\ TabOf[c] \in Tabs
        /\ \A d \in Calls : Kind[c] = "new" /\ Kind[d] = "new" /\ TabOf[c] = TabOf[d] => c = d
        /\ NoTab \notin Tabs
        /\ \A d \in Calls : TabOf[d] \in Tabs
    BY Given
  <2>1. CASE Start(c) BY <2>0, <2>1 DEF Start
  <2>2. CASE Acquire(c) BY <2>0, <2>2 DEF Acquire
  <2>3. CASE GiveUp(c) BY <2>0, <2>3 DEF GiveUp
  <2>4. CASE OnNewPosts(c) BY <2>0, <2>4 DEF OnNewPosts
  <2>5. CASE Update(c) BY <2>0, <2>5 DEF Update
  <2>6. CASE Create(c) BY <2>0, <2>6 DEF Create
  <2>7. CASE Move(c) BY <2>0, <2>7 DEF Move
  <2>8. CASE Load(c) BY <2>0, <2>8 DEF Load
  <2>9. CASE Send(c) BY <2>0, <2>9 DEF Send, Asked, Plus
  <2>10. CASE Fail(c) BY <2>0, <2>10 DEF Fail
  <2> QED BY <1>1, <2>1, <2>2, <2>3, <2>4, <2>5, <2>6, <2>7, <2>8, <2>9, <2>10 DEF CallStep
<1>2. ASSUME NEW t \in Tabs, TabStep(t) PROVE Places'
  <2>0. \A d \in Calls : TabOf[d] \in Tabs
    BY Given
  <2> USE DEF Plus, Minus
  <2>1. CASE PageDone(t) BY <2>0, <2>1 DEF PageDone
  <2>2. CASE ActivityDone(t) BY <2>0, <2>2 DEF ActivityDone
  <2>3. CASE ThenRead(t) BY <2>0, <2>3 DEF ThenRead
  <2>4. CASE AutoScanDone(t) BY <2>0, <2>4 DEF AutoScanDone
  <2>5. CASE CloseTab(t) BY <2>0, <2>5 DEF CloseTab
  <2>6. CASE TabRemoved(t) BY <2>0, <2>6 DEF TabRemoved
  <2>7. CASE PageDies(t) BY <2>0, <2>7 DEF PageDies
  <2> QED BY <1>2, <2>1, <2>2, <2>3, <2>4, <2>5, <2>6, <2>7 DEF TabStep
<1>3. CASE WorkerStops BY <1>3, Given DEF WorkerStops
<1>4. CASE Tick BY <1>4 DEF Tick
<1>5. CASE UNCHANGED vars BY <1>5 DEF vars
<1> QED BY <1>1, <1>2, <1>3, <1>4, <1>5 DEF Next

-----------------------------------------------------------------------------
(* Holding the slot *)

Hold == FunctionsHold /\ PagesHold

\* Nobody is at work: no function, no page of an open tab, no report of one.
Idle ==
  /\ \A c \in Calls : ~ Live(c)
  /\ \A t \in open : Uses(t) = 0

LEMMA UsesSplit ==
  ASSUME TypeOK, NEW t \in Tabs
  PROVE  /\ Uses(t) \in Nat
         /\ Uses(t) = 0 <=> run[t] = "none" /\ dones[t] = 0 /\ t \notin autoDone
BY DEF TypeOK, Uses, One

LEMMA UsesKept ==
  ASSUME NEW t \in Tabs, run'[t] = run[t], dones'[t] = dones[t],
         t \in autoDone' <=> t \in autoDone
  PROVE  Uses(t)' = Uses(t)
BY DEF Uses, One

LEMMA IdleHolds ==
  ASSUME TypeOK, Idle
  PROVE  Hold
BY UsesSplit DEF Idle, Hold, FunctionsHold, PagesHold, TypeOK

LEMMA IdleHoldsNext == TypeOK' /\ Idle' => Hold'
<1>1. TypeOK /\ Idle => Hold
  BY IdleHolds
<1> QED BY <1>1, PTL

\* A step that brings no new work leaves nobody at work if nobody was.
LEMMA StaysIdle ==
  ASSUME TypeOK, TypeOK', Idle, open' \subseteq open,
         \A c \in Calls : Live(c)' => Live(c),
         \A t \in open' : /\ run'[t] = run[t] /\ dones'[t] = dones[t]
                          /\ t \in autoDone' <=> t \in autoDone
  PROVE  Hold'
<1>0. open \subseteq Tabs
  BY DEF TypeOK
<1>1. \A t \in open' : Uses(t)' = Uses(t)
  BY <1>0, UsesKept
<1>2. Idle'
  BY <1>1 DEF Idle
<1> QED BY <1>2, IdleHoldsNext

\* Whoever finds the slot free, or held in a tab that is gone, is alone.
LEMMA FreeIsIdle ==
  ASSUME TypeOK, Hold, Free(slot) \/ slot = NoSlot \/ slot.tab \in Tabs \ open
  PROVE  Idle
<1>1. slot # NoSlot => slot.age \in Nat /\ Limit[slot.holder] \in Nat
  BY Given DEF TypeOK, SlotValues
<1>2. InTime => slot # NoSlot /\ ~ Free(slot)
  BY <1>1 DEF InTime, Free, Expired
<1>3. ASSUME NEW c \in Calls, Live(c) PROVE FALSE
  <2>1. HeldBy(slot, HolderOf(c), at[c]) /\ InTime
    BY <1>3 DEF Hold, FunctionsHold
  <2>2. slot.tab = NoTab \/ slot.tab \in open
    BY <1>3, <2>1 DEF HeldBy, Live
  <2> QED BY <1>2, <2>1, <2>2, Given
<1>4. ASSUME NEW t \in open, Uses(t) # 0 PROVE FALSE
  <2>1. Uses(t) > 0
    BY <1>4, UsesSplit DEF TypeOK
  <2>2. InTime /\ slot.tab = t
    BY <2>1 DEF Hold, PagesHold
  <2> QED BY <1>2, <2>2
<1> QED BY <1>3, <1>4 DEF Idle

\* A step that brings no new work, in tabs that were open, and leaves the slot.
LEMMA QuietHolds ==
  ASSUME TypeOK, Hold, slot' = slot, open' \subseteq open,
         \A c \in Calls : Live(c)' => Live(c) /\ at'[c] = at[c],
         \A t \in open' : /\ run'[t] = run[t] /\ dones'[t] = dones[t]
                          /\ t \in autoDone' <=> t \in autoDone
  PROVE  Hold'
<1>0. open \subseteq Tabs
  BY DEF TypeOK
<1>1. \A t \in open' : Uses(t)' = Uses(t)
  BY <1>0, UsesKept
<1>2. InTime' <=> InTime
  BY DEF InTime
<1>3. FunctionsHold'
  <2> SUFFICES ASSUME NEW c \in Calls, Live(c)'
               PROVE  /\ HeldBy(slot', HolderOf(c), at'[c]) /\ InTime'
                      /\ \A d \in Calls : Live(d)' => d = c
                      /\ \A t \in open' : Uses(t)' = 0
    BY DEF FunctionsHold
  <2> QED BY <1>1, <1>2 DEF Hold, FunctionsHold
<1>4. PagesHold'
  BY <1>1, <1>2 DEF Hold, PagesHold
<1> QED BY <1>3, <1>4 DEF Hold

LEMMA HoldInit == Init => Hold
<1> SUFFICES ASSUME Init PROVE Hold
  OBVIOUS
<1>1. Idle
  BY TypeInit, UsesSplit DEF Init, Idle, Live, AtWork, TypeOK
<1> QED BY <1>1, TypeInit, IdleHolds

\* A step after which at most one function is at work, and it has the slot.
LEMMA AloneHolds ==
  ASSUME TypeOK', NEW c \in Calls,
         \A d \in Calls : Live(d)' => d = c,
         Live(c)' => HeldBy(slot', HolderOf(c), at'[c]) /\ InTime',
         \A t \in open' : Uses(t)' = 0
  PROVE  Hold'
<1>1. FunctionsHold'
  BY DEF FunctionsHold
<1>2. PagesHold'
  BY DEF PagesHold
<1> QED BY <1>1, <1>2 DEF Hold

LEMMA CallHolds ==
  ASSUME SlotInv, ~ astray, TypeOK', NEW c \in Calls, CallStep(c)
  PROVE  Hold'
<1> USE DEF Step, messages, Live, AtWork
<1>0. /\ TypeOK /\ Places /\ Hold
      /\ TabOf[c] \in Tabs /\ HolderOf(c) \in Holders /\ NoTab \notin Tabs
      /\ Limit[HolderOf(c)] \in Nat
      /\ \A d \in Calls : TabOf[d] \in Tabs
  BY Given DEF SlotInv, Hold
<1>1. CASE Start(c) \/ GiveUp(c) \/ OnNewPosts(c) \/ Load(c)
  BY <1>0, <1>1, QuietHolds DEF Start, GiveUp, OnNewPosts, Load, TypeOK
<1>2. CASE Acquire(c)
  <2>1. Idle
    BY <1>0, <1>2, FreeIsIdle DEF Acquire
  <2>2. \A d \in Calls : Live(d)' => d = c
    BY <1>2, <2>1 DEF Acquire, TypeOK, Idle
  <2>3. \A t \in open' : Uses(t)' = 0
    BY <1>0, <1>2, <2>1, UsesKept DEF Acquire, TypeOK, Idle
  <2>4. slot' = Taken(HolderOf(c), at'[c]) /\ slot' # NoSlot
    BY <1>0, <1>2, TakenType DEF Acquire, TypeOK
  <2>5. HeldBy(slot', HolderOf(c), at'[c]) /\ InTime'
    BY <1>0, <2>4 DEF HeldBy, InTime, Taken
  <2> QED BY <2>2, <2>3, <2>5, AloneHolds
<1>3. CASE Update(c)
  <2>1. at[c] = TabOf[c] /\ pc[c] = "got"
    BY <1>0, <1>3 DEF Update, Places
  <2>2. run[TabOf[c]] = "none"
    <3>1. CASE TabOf[c] \in open
      <4>1. Uses(TabOf[c]) = 0
        BY <1>0, <2>1, <3>1 DEF Hold, FunctionsHold
      <4> QED BY <1>0, <4>1, UsesSplit
    <3>2. CASE TabOf[c] \notin open
      BY <1>0, <3>2 DEF Places
    <3> QED BY <3>1, <3>2
  <2>3. run' = run
    BY <1>0, <1>3, <2>2 DEF Update, TypeOK
  <2> QED BY <1>0, <1>3, <2>1, <2>3, QuietHolds DEF Update, TypeOK
<1>4. CASE Create(c)
  <2>1. Kind[c] = "new" /\ pc[c] = "got" /\ at[c] = NoTab /\ Unborn(c) /\ Live(c)
    BY <1>0, <1>4 DEF Create, Places
  <2>2. CASE open' = open
    BY <1>0, <1>4, <2>1, <2>2, QuietHolds DEF Create, TypeOK
  <2>3. CASE open' = open \cup {TabOf[c]}
    <3>1. /\ HeldBy(slot, HolderOf(c), at[c]) /\ InTime
          /\ \A d \in Calls : Live(d) => d = c
          /\ \A t \in open : Uses(t) = 0
      BY <1>0, <2>1 DEF Hold, FunctionsHold
    <3>2. Uses(TabOf[c]) = 0
      BY <1>0, <2>1, UsesSplit DEF Unborn, Places
    <3>3. \A t \in open' : Uses(t)' = 0
      BY <1>0, <1>4, <2>3, <3>1, <3>2, UsesKept DEF Create, TypeOK
    <3>4. ASSUME NEW d \in Calls, Live(d)', d # c PROVE FALSE
      <4>1. pc[d] = pc'[d] /\ at[d] = at'[d] /\ at[d] \in {NoTab, TabOf[d]}
        BY <1>0, <1>4, <3>4 DEF Create, TypeOK, Places
      <4>2. TabOf[d] = TabOf[c] => pc[d] = "idle"
        BY <2>1, <3>4 DEF Unborn
      <4> QED BY <2>3, <3>1, <3>4, <4>1, <4>2
    <3>5. slot' = slot /\ at' = at
      BY <1>4 DEF Create
    <3>6. HeldBy(slot', HolderOf(c), at'[c]) /\ InTime'
      BY <3>1, <3>5 DEF InTime
    <3> QED BY <3>3, <3>4, <3>6, AloneHolds
  <2> QED BY <1>4, <2>2, <2>3 DEF Create
<1>5. CASE Move(c)
  <2>1. Kind[c] = "new" /\ pc[c] = "move" /\ at[c] = NoTab /\ Live(c)
    BY <1>0, <1>5 DEF Move, Places
  <2>2. /\ HeldBy(slot, HolderOf(c), NoTab) /\ InTime
        /\ \A d \in Calls : Live(d) => d = c
        /\ \A t \in open : Uses(t) = 0
    BY <1>0, <2>1 DEF Hold, FunctionsHold
  <2>3. slot' = [slot EXCEPT !.tab = TabOf[c]] /\ at'[c] = TabOf[c]
    BY <1>0, <1>5, <2>2 DEF Move, Moved, TypeOK
  <2>4. slot \in [holder : Holders, tab : Tabs \cup {NoTab}, age : Nat] /\ slot' # NoSlot
    BY <1>0, <2>2, <2>3, Given DEF TypeOK, SlotValues, HeldBy
  <2>5. HeldBy(slot', HolderOf(c), at'[c]) /\ InTime'
    BY <2>2, <2>3, <2>4 DEF HeldBy, InTime
  <2>6. \A d \in Calls : Live(d)' => d = c
    BY <1>0, <1>5, <2>2 DEF Move, TypeOK
  <2>7. \A t \in open' : Uses(t)' = 0
    BY <1>0, <1>5, <2>2, UsesKept DEF Move, TypeOK
  <2> QED BY <2>5, <2>6, <2>7, AloneHolds
<1>6. CASE Send(c)
  <2> DEFINE t == TabOf[c]
  <2>1. pc[c] = "send" /\ at[c] = t
    BY <1>0, <1>6 DEF Send, Places
  <2>2. CASE pc' = [pc EXCEPT ![c] = "fail"] /\ UNCHANGED <<run, dones>>
    BY <1>0, <1>6, <2>1, <2>2, QuietHolds DEF Send, TypeOK
  <2>3. CASE t \in open /\ pc' = [pc EXCEPT ![c] = "over"] /\ Asked(c)
    <3>1. /\ HeldBy(slot, HolderOf(c), t) /\ InTime
          /\ \A d \in Calls : Live(d) => d = c
          /\ \A s \in open : Uses(s) = 0
      BY <1>0, <2>1, <2>3 DEF Hold, FunctionsHold
    <3>2. run[t] = "none" /\ dones[t] = 0 /\ t \notin autoDone
      BY <1>0, <2>3, <3>1, UsesSplit
    <3>3. /\ run' = [run EXCEPT ![t] = IF Kind[c] = "auto" THEN "auto" ELSE "menu"]
          /\ UNCHANGED <<slot, at, open, dones, halfDone, autoDone>>
      BY <1>6, <2>3, <3>2 DEF Send, Asked
    <3>4. \A d \in Calls : ~ Live(d)'
      BY <1>0, <1>6, <2>3, <3>1, <3>3 DEF TypeOK
    <3>5. \A s \in open \ {t} : Uses(s)' = 0
      BY <1>0, <3>1, <3>3, UsesKept DEF TypeOK
    <3>6. Uses(t)' = 1 /\ run'[t] = (IF Kind[c] = "auto" THEN "auto" ELSE "menu")
      BY <1>0, <3>2, <3>3 DEF TypeOK, Uses, One
    <3>7. InTime' /\ slot.tab = t /\ slot.holder = HolderOf(c)
      BY <3>1, <3>3 DEF InTime, HeldBy
    <3>8. PagesHold'
      BY <1>0, <3>2, <3>3, <3>5, <3>6, <3>7 DEF PagesHold, HolderOf
    <3>9. FunctionsHold'
      BY <3>4 DEF FunctionsHold
    <3> QED BY <3>8, <3>9 DEF Hold
  <2> QED BY <1>6, <2>2, <2>3 DEF Send
<1>7. CASE Fail(c)
  <2>1. /\ slot' = Released(slot, HolderOf(c), at[c]) /\ pc[c] = "fail"
        /\ UNCHANGED <<at, open, run, dones, halfDone, autoDone>>
        /\ \A d \in Calls : Live(d)' => Live(d) /\ d # c
    BY <1>0, <1>7 DEF Fail, TypeOK
  <2>2. CASE ~ HeldBy(slot, HolderOf(c), at[c])
    BY <1>0, <2>1, <2>2, QuietHolds DEF Released
  <2>3. CASE HeldBy(slot, HolderOf(c), at[c]) /\ at[c] \in Tabs \ open
    <3>1. Idle
      BY <1>0, <2>3, FreeIsIdle DEF HeldBy
    <3> QED BY <1>0, <2>1, <3>1, StaysIdle
  <2>4. CASE at[c] = NoTab \/ at[c] \in open
    <3>1. /\ \A d \in Calls : Live(d) => d = c
          /\ \A t \in open : Uses(t) = 0
      BY <1>0, <2>1, <2>4 DEF Hold, FunctionsHold
    <3>2. \A t \in open' : Uses(t)' = 0
      BY <1>0, <2>1, <3>1, UsesKept DEF TypeOK
    <3>3. \A d \in Calls : ~ Live(d)'
      BY <2>1, <3>1
    <3> QED BY <3>2, <3>3, AloneHolds
  <2> QED BY <1>0, <2>2, <2>3, <2>4 DEF TypeOK
<1> QED BY <1>1, <1>2, <1>3, <1>4, <1>5, <1>6, <1>7 DEF CallStep

\* A tab with a use under way: the slot is held for it, and nobody is at work.
LEMMA InUseAlone ==
  ASSUME TypeOK, Hold, NEW t \in open, Uses(t) > 0
  PROVE  /\ InTime /\ slot.tab = t /\ Uses(t) = 1
         /\ \A c \in Calls : ~ Live(c)
         /\ \A s \in open \ {t} : Uses(s) = 0
<1>1. InTime /\ slot.tab = t /\ Uses(t) = 1
  BY DEF Hold, PagesHold
<1>2. \A c \in Calls : ~ Live(c)
  BY <1>1 DEF Hold, FunctionsHold
<1>3. ASSUME NEW s \in open \ {t}, Uses(s) # 0 PROVE FALSE
  <2>1. Uses(s) > 0
    BY <1>3, UsesSplit DEF TypeOK
  <2> QED BY <1>1, <2>1 DEF Hold, PagesHold
<1> QED BY <1>1, <1>2, <1>3

LEMMA TabHolds ==
  ASSUME SlotInv, ~ astray, TypeOK', NEW t \in Tabs, TabStep(t), ~ Crosses(t)
  PROVE  Hold'
<1> USE DEF messages, Live, AtWork
<1>0. TypeOK /\ Places /\ Hold
  BY DEF SlotInv, Hold
<1>1. CASE PageDone(t)
  <2>1. t \in open /\ run[t] # "none" /\ Uses(t) > 0
    <3>1. t \in open /\ run[t] # "none"
      BY <1>0, <1>1 DEF PageDone, Places
    <3> QED BY <1>0, <3>1, UsesSplit
  <2>2. /\ InTime /\ slot.tab = t /\ Uses(t) = 1
        /\ \A c \in Calls : ~ Live(c)
        /\ \A s \in open \ {t} : Uses(s) = 0
    BY <1>0, <2>1, InUseAlone
  <2>3. dones[t] = 0 /\ t \notin autoDone
    BY <1>0, <2>1, <2>2 DEF Uses, One, TypeOK
  <2>4. /\ run[t] = "menu" => slot.holder \in {"menu-scan", "menu-read"}
        /\ run[t] = "auto" => slot.holder = "auto-scan"
    BY <1>0, <2>1 DEF Hold, PagesHold
  <2>5. /\ run[t] \in {"menu", "auto"}
        /\ run'[t] = "none" /\ halfDone'[t] = halfDone[t] /\ dones'[t] = One(run[t] = "menu")
        /\ t \in autoDone' <=> run[t] = "auto"
        /\ UNCHANGED <<slot, pc, at, open>>
    BY <1>0, <1>1, <2>1, <2>3 DEF PageDone, TypeOK, Plus, One
  <2>6. Uses(t)' = 1
    BY <1>0, <2>3, <2>5 DEF Uses, One, TypeOK
  <2>7. \A s \in open \ {t} : Uses(s)' = 0
    BY <1>0, <1>1, <2>2, UsesKept DEF PageDone, TypeOK, Plus
  <2>8. \A c \in Calls : ~ Live(c)'
    BY <2>2, <2>5
  <2>9. PagesHold'
    BY <2>2, <2>3, <2>4, <2>5, <2>6, <2>7 DEF PagesHold, InTime, One
  <2> QED BY <2>8, <2>9 DEF Hold, FunctionsHold
<1>2. CASE ActivityDone(t)
  <2>1. /\ slot' = Released(slot, "menu-scan", t) /\ dones[t] > 0
        /\ UNCHANGED <<pc, at, open, run, autoDone>>
        /\ dones'[t] = dones[t] - 1 /\ halfDone'[t] = halfDone[t] + 1
        /\ \A s \in Tabs \ {t} : dones'[s] = dones[s] /\ halfDone'[s] = halfDone[s]
    BY <1>0, <1>2 DEF ActivityDone, TypeOK, Plus, Minus
  <2>2. CASE t \notin open
    <3>1. CASE slot' = slot
      BY <1>0, <2>1, <2>2, <3>1, QuietHolds DEF TypeOK
    <3>2. CASE slot.tab = t
      <4>1. Idle
        BY <1>0, <2>2, <3>2, FreeIsIdle
      <4> QED BY <1>0, <2>1, <2>2, <4>1, StaysIdle DEF TypeOK
    <3> QED BY <2>1, <3>1, <3>2 DEF Released, HeldBy
  <2>3. CASE t \in open
    <3>1. Uses(t) > 0
      BY <1>0, <2>1, UsesSplit
    <3>2. /\ InTime /\ slot.tab = t /\ Uses(t) = 1
          /\ \A c \in Calls : ~ Live(c)
          /\ \A s \in open \ {t} : Uses(s) = 0
      BY <1>0, <2>3, <3>1, InUseAlone
    <3>3. dones[t] = 1 /\ run[t] = "none" /\ t \notin autoDone
      BY <1>0, <2>1, <3>2 DEF Uses, One, TypeOK
    <3>4. slot.holder \in {"menu-scan", "menu-read"} /\ slot # NoSlot
      BY <1>0, <2>1, <2>3, <3>1 DEF Hold, PagesHold, InTime
    <3>5. \A s \in open' \ {t} : Uses(s)' = 0
      BY <1>0, <2>1, <3>2, UsesKept DEF TypeOK
    <3>6. Uses(t)' = 0
      BY <2>1, <3>3 DEF Uses, One
    <3>7. Idle'
      BY <2>1, <3>2, <3>5, <3>6 DEF Idle
    <3> QED BY <3>7, IdleHoldsNext
  <2> QED BY <2>2, <2>3
<1>3. CASE ThenRead(t)
  <2>1. /\ slot' = Released(slot, "menu-read", t)
        /\ UNCHANGED <<pc, at, open, run, dones, autoDone>>
    BY <1>3 DEF ThenRead
  <2>2. CASE slot' = slot
    BY <1>0, <2>1, <2>2, QuietHolds
  <2>3. CASE HeldBy(slot, "menu-read", t)
    <3>1. ~ InUse /\ ~ (dones[t] > 0)
      BY <1>3, <2>3 DEF Crosses
    <3>2. \A c \in Calls : ~ Live(c)
      BY <1>0, <3>1 DEF InUse, Hold, FunctionsHold
    <3>3. ASSUME NEW s \in open, Uses(s) # 0 PROVE FALSE
      <4>1. s \in Tabs /\ Uses(s) > 0
        BY <1>0, <3>3, UsesSplit DEF TypeOK
      <4>2. /\ slot.tab = s /\ s = t /\ slot.holder = "menu-read"
            /\ s \in autoDone => slot.holder = "auto-scan"
        BY <1>0, <2>3, <4>1 DEF Hold, PagesHold, HeldBy
      <4>3. run[t] = "none" /\ dones[t] = 0 /\ t \notin autoDone
        BY <1>0, <3>1, <4>1, <4>2 DEF InUse, TypeOK
      <4> QED BY <1>0, <3>3, <4>2, <4>3, UsesSplit
    <3>4. Idle
      BY <3>2, <3>3 DEF Idle
    <3> QED BY <1>0, <2>1, <3>4, StaysIdle
  <2> QED BY <2>1, <2>2, <2>3 DEF Released
<1>4. CASE AutoScanDone(t)
  <2>1. /\ slot' = Released(slot, "auto-scan", t) /\ t \in autoDone
        /\ UNCHANGED <<pc, at, open, run, dones, halfDone>>
        /\ autoDone' = autoDone \ {t}
    BY <1>4 DEF AutoScanDone
  <2>2. CASE t \notin open
    <3>1. CASE slot' = slot
      BY <1>0, <2>1, <2>2, <3>1, QuietHolds DEF TypeOK
    <3>2. CASE slot.tab = t
      <4>1. Idle
        BY <1>0, <2>2, <3>2, FreeIsIdle
      <4> QED BY <1>0, <2>1, <2>2, <4>1, StaysIdle DEF TypeOK
    <3> QED BY <2>1, <3>1, <3>2 DEF Released, HeldBy
  <2>3. CASE t \in open
    <3>1. Uses(t) > 0
      BY <1>0, <2>1, UsesSplit
    <3>2. /\ Uses(t) = 1
          /\ \A c \in Calls : ~ Live(c)
          /\ \A s \in open \ {t} : Uses(s) = 0
      BY <1>0, <2>3, <3>1, InUseAlone
    <3>3. \A s \in open' \ {t} : Uses(s)' = 0
      BY <1>0, <2>1, <3>2, UsesKept DEF TypeOK
    <3>4. Uses(t)' = 0
      BY <1>0, <2>1, <3>2 DEF Uses, One, TypeOK
    <3>5. Idle'
      BY <2>1, <3>2, <3>3, <3>4 DEF Idle
    <3> QED BY <3>5, IdleHoldsNext
  <2> QED BY <2>2, <2>3
<1>5. CASE CloseTab(t)
  BY <1>0, <1>5, QuietHolds DEF CloseTab, TypeOK
<1>6. CASE TabRemoved(t)
  <2>1. /\ slot' = TabReleased(slot, t) /\ t \notin open
        /\ UNCHANGED <<pc, at, open, run, dones, halfDone, autoDone>>
    BY <1>0, <1>6 DEF TabRemoved, Places
  <2>2. CASE slot' = slot
    BY <1>0, <2>1, <2>2, QuietHolds
  <2>3. CASE slot.tab = t
    <3>1. Idle
      BY <1>0, <2>1, <2>3, FreeIsIdle
    <3> QED BY <1>0, <2>1, <3>1, StaysIdle
  <2> QED BY <2>1, <2>2, <2>3 DEF TabReleased
<1>7. CASE PageDies(t)
  <2>1. t \in open /\ run[t] # "none"
    BY <1>0, <1>7 DEF PageDies, Places
  <2>2. Uses(t) > 0
    BY <1>0, <2>1, UsesSplit
  <2>3. /\ Uses(t) = 1
        /\ \A c \in Calls : ~ Live(c)
        /\ \A s \in open \ {t} : Uses(s) = 0
    BY <1>0, <2>1, <2>2, InUseAlone
  <2>4. \A s \in open' \ {t} : Uses(s)' = 0
    BY <1>0, <1>7, <2>3, UsesKept DEF PageDies, TypeOK
  <2>5. Uses(t)' = 0
    BY <1>0, <1>7, <2>1, <2>3 DEF PageDies, Uses, One, TypeOK
  <2>6. Idle'
    BY <1>7, <2>3, <2>4, <2>5 DEF PageDies, Idle
  <2> QED BY <2>6, IdleHoldsNext
<1> QED BY <1>1, <1>2, <1>3, <1>4, <1>5, <1>6, <1>7 DEF TabStep

LEMMA SlotInvNext ==
  ASSUME SlotInv, [Next]_vars
  PROVE  SlotInv'
<1>a. TypeOK' /\ Places'
  BY TypeNext, PlacesNext DEF SlotInv
<1> SUFFICES ASSUME ~ astray' PROVE Hold'
  BY <1>a DEF SlotInv, Hold
<1>b. ~ astray /\ (Next => ~ Outlasts /\ \A t \in Tabs : ~ Crosses(t))
  BY NotLost
<1>0. TypeOK /\ Places /\ Hold
  BY <1>b DEF SlotInv, Hold
<1>1. TypeOK'
  BY <1>a
<1>2. ASSUME NEW c \in Calls, CallStep(c) PROVE Hold'
  BY <1>b, <1>1, <1>2, CallHolds
<1>3. ASSUME Next, NEW t \in Tabs, TabStep(t) PROVE Hold'
  BY <1>b, <1>1, <1>3, TabHolds
<1>4. ASSUME WorkerStops PROVE Hold'
  <2>1. /\ UNCHANGED <<slot, at, open, run, dones, autoDone>>
        /\ \A c \in Calls : ~ Live(c)'
        /\ \A t \in Tabs : halfDone'[t] = 0
    BY <1>0, <1>4 DEF WorkerStops, Live, AtWork, TypeOK
  <2>2. ASSUME NEW t \in open, Uses(t)' > 0
        PROVE  Uses(t) > 0 /\ Uses(t)' = Uses(t)
    BY <1>0, <2>1, <2>2 DEF Uses, One, TypeOK, Hold, PagesHold
  <2>3. PagesHold'
    BY <1>0, <2>1, <2>2 DEF Hold, PagesHold, InTime, TypeOK
  <2> QED BY <2>1, <2>3 DEF Hold, FunctionsHold
<1>5. ASSUME Next, Tick PROVE Hold'
  <2>1. /\ slot' = Older(slot) /\ slot # NoSlot
        /\ UNCHANGED <<pc, at, open, run, dones, halfDone, autoDone>>
        /\ \A t \in Tabs : dones[t] = 0 /\ halfDone[t] = 0
        /\ autoDone = {}
        /\ ~ (InUse /\ slot.age >= Limit[slot.holder])
    BY <1>b, <1>5 DEF Tick, messages, Outlasts
  <2>2. /\ slot \in [holder : Holders, tab : Tabs \cup {NoTab}, age : Nat]
        /\ Limit[slot.holder] \in Nat
    BY <1>0, <2>1, Given DEF TypeOK, SlotValues
  <2>3. slot' \in [holder : Holders, tab : Tabs \cup {NoTab}, age : Nat] /\ slot' # NoSlot
        /\ slot'.holder = slot.holder /\ slot'.tab = slot.tab
    BY <2>1, <2>2, Given DEF Older
  <2>4. InUse => InTime'
    BY <2>1, <2>2, <2>3 DEF InTime, Older
  <2>5. \A t \in open : Uses(t)' = Uses(t)
    BY <1>0, <2>1, UsesKept DEF TypeOK
  <2>6. FunctionsHold'
    <3> SUFFICES ASSUME NEW c \in Calls, Live(c)'
                 PROVE  /\ HeldBy(slot', HolderOf(c), at'[c]) /\ InTime'
                        /\ \A d \in Calls : Live(d)' => d = c
                        /\ \A t \in open' : Uses(t)' = 0
      BY DEF FunctionsHold
    <3>1. Live(c) /\ (\A d \in Calls : Live(d)' => Live(d))
      BY <2>1 DEF Live, AtWork
    <3>2. /\ HeldBy(slot, HolderOf(c), at[c])
          /\ \A d \in Calls : Live(d) => d = c
          /\ \A t \in open : Uses(t) = 0
      BY <1>0, <3>1 DEF Hold, FunctionsHold
    <3>3. InUse
      BY <3>1, <3>2 DEF InUse, Live
    <3> QED BY <2>1, <2>3, <2>4, <2>5, <3>1, <3>2, <3>3 DEF HeldBy
  <2>7. PagesHold'
    <3>1. ASSUME NEW t \in open, Uses(t) > 0 PROVE InUse
      <4>1. slot.tab = t /\ t \in Tabs
        BY <1>0, <3>1 DEF Hold, PagesHold, TypeOK
      <4>2. run[t] # "none"
        BY <1>0, <2>1, <3>1, <4>1 DEF Uses, One, TypeOK
      <4> QED BY <4>1, <4>2 DEF InUse
    <3> QED BY <1>0, <2>1, <2>3, <2>4, <2>5, <3>1 DEF Hold, PagesHold
  <2> QED BY <2>6, <2>7 DEF Hold
<1>6. ASSUME UNCHANGED vars PROVE Hold'
  BY <1>0, <1>6, QuietHolds DEF vars, Live, AtWork
<1> QED BY <1>2, <1>3, <1>4, <1>5, <1>6 DEF Next

-----------------------------------------------------------------------------
(* Without accidents *)

LEMMA CalmInit == Init => CalmInv
<1> SUFFICES ASSUME Init PROVE CalmInv
  OBVIOUS
<1>1. \A c \in Calls : pc[c] = "idle" /\ at[c] = (IF Kind[c] = "new" THEN NoTab ELSE TabOf[c])
  BY DEF Init
<1> QED BY <1>1 DEF Init, CalmInv, CalmTabs, HeldForUse

LEMMA CalmTabsNext ==
  ASSUME TypeOK, Places, calm, CalmTabs, [Next]_vars
  PROVE  CalmTabs'
<1> USE DEF CalmTabs, TypeOK, Step, messages
<1>1. ASSUME NEW c \in Calls, CallStep(c) PROVE CalmTabs'
  BY <1>1 DEF CallStep, Start, Acquire, GiveUp, OnNewPosts, Update, Create, Move, Load, Send, Fail, Places
<1>2. ASSUME NEW t \in Tabs, TabStep(t) PROVE CalmTabs'
  BY <1>2 DEF TabStep, PageDone, ActivityDone, ThenRead, AutoScanDone, CloseTab, TabRemoved, PageDies
<1>3. CASE WorkerStops BY <1>3 DEF WorkerStops
<1>4. CASE Tick BY <1>4 DEF Tick
<1>5. CASE UNCHANGED vars BY <1>5 DEF vars
<1> QED BY <1>1, <1>2, <1>3, <1>4, <1>5 DEF Next

LEMMA HeldForUseNext ==
  ASSUME SlotInv, ~ astray, calm, CalmTabs, HeldForUse, [Next]_vars
  PROVE  HeldForUse'
<1> USE DEF Step, messages, Live, AtWork
<1>0. /\ TypeOK /\ Places /\ Hold
      /\ \A c \in Calls : TabOf[c] \in Tabs
  BY Given DEF SlotInv, Hold
<1>a. \A c \in Calls : AtWork(c) => Live(c)
  BY <1>0 DEF CalmTabs, Places
<1>b. \A t \in Tabs : run[t] # "none" \/ dones[t] > 0 \/ t \in autoDone => Uses(t) > 0
  BY <1>0, UsesSplit DEF TypeOK
<1>1. ASSUME NEW c \in Calls, CallStep(c) PROVE HeldForUse'
  <2>1. CASE Start(c) \/ GiveUp(c) \/ OnNewPosts(c) \/ Load(c)
    <3>1. UNCHANGED <<slot, at, open, run, dones, halfDone, autoDone>>
      BY <2>1 DEF Start, GiveUp, OnNewPosts, Load
    <3>2. \A d \in Calls : Live(d) => Live(d)'
      BY <1>0, <2>1 DEF Start, GiveUp, OnNewPosts, Load, TypeOK
    <3>3. \A t \in open : Uses(t)' = Uses(t)
      BY <1>0, <3>1, UsesKept DEF TypeOK
    <3> QED BY <3>1, <3>2, <3>3 DEF HeldForUse
  <2>2. CASE Acquire(c) \/ Update(c) \/ Create(c) \/ Move(c)
    <3>1. Live(c)'
      BY <1>0, <2>2 DEF Acquire, Update, Create, Move, CalmTabs, Places, TypeOK
    <3> QED BY <3>1 DEF HeldForUse
  <2>3. CASE Send(c)
    <3>1. CASE pc' = [pc EXCEPT ![c] = "fail"]
      <4>1. Live(c)'
        BY <1>0, <1>a, <2>3, <3>1 DEF Send, TypeOK
      <4> QED BY <4>1 DEF HeldForUse
    <3>2. CASE TabOf[c] \in open /\ Asked(c)
      <4>1. at[c] = TabOf[c] /\ Live(c)
        BY <1>0, <2>3, <3>2 DEF Send, Places
      <4>2. HeldBy(slot, HolderOf(c), TabOf[c]) /\ Uses(TabOf[c]) = 0
        BY <1>0, <3>2, <4>1 DEF Hold, FunctionsHold
      <4>3. run[TabOf[c]] = "none"
        BY <1>0, <4>2, UsesSplit
      <4>4. run'[TabOf[c]] # "none" /\ dones'[TabOf[c]] \in Nat /\ halfDone'[TabOf[c]] \in Nat
        BY <1>0, <2>3, <3>2, <4>3 DEF Send, Asked, TypeOK
      <4>5. Uses(TabOf[c])' > 0
        BY <4>4 DEF Uses, One
      <4> QED BY <2>3, <3>2, <4>2, <4>5 DEF HeldForUse, Send, HeldBy
    <3> QED BY <2>3, <3>1, <3>2 DEF Send
  <2>4. CASE Fail(c)
    <3>1. HeldBy(slot, HolderOf(c), at[c])
      BY <1>0, <1>a, <2>4 DEF Fail, Hold, FunctionsHold
    <3> QED BY <2>4, <3>1 DEF Fail, Released, HeldForUse
  <2> QED BY <1>1, <2>1, <2>2, <2>3, <2>4 DEF CallStep
<1>2. ASSUME NEW t \in Tabs, TabStep(t) PROVE HeldForUse'
  <2>1. CASE PageDone(t)
    <3>1. t \in open /\ run[t] # "none" /\ Uses(t) > 0
      BY <1>0, <1>b, <2>1 DEF PageDone, Places
    <3>2. slot.tab = t
      BY <1>0, <3>1 DEF Hold, PagesHold
    <3>3. /\ dones'[t] > 0 \/ t \in autoDone'
          /\ dones'[t] \in Nat /\ halfDone'[t] \in Nat
      BY <1>0, <2>1 DEF PageDone, TypeOK, Plus
    <3>4. Uses(t)' > 0
      BY <3>3 DEF Uses, One
    <3> QED BY <2>1, <3>1, <3>2, <3>4 DEF PageDone, HeldForUse
  <2>2. CASE ActivityDone(t) \/ ThenRead(t) \/ AutoScanDone(t)
    <3> SUFFICES ASSUME slot' # NoSlot PROVE HeldForUse'
      BY DEF HeldForUse
    <3>0. ASSUME NEW u \in open', slot'.tab = u,
                 Uses(u)' > 0 \/ (slot'.holder = "menu-read" /\ halfDone'[u] > 0)
          PROVE  HeldForUse'
      BY <3>0 DEF HeldForUse
    <3>1. /\ slot' = slot
          /\ UNCHANGED <<pc, at, open, run>>
          /\ \A s \in Tabs \ {t} : /\ dones'[s] = dones[s] /\ halfDone'[s] = halfDone[s]
                                   /\ s \in autoDone' <=> s \in autoDone
      BY <1>0, <2>2 DEF ActivityDone, ThenRead, AutoScanDone, Released, TypeOK, Plus, Minus
    <3>2. CASE \E c \in Calls : Live(c)
      BY <3>1, <3>2 DEF HeldForUse
    <3>3. ASSUME NEW u \in open, slot.tab = u, Uses(u) > 0, u # t PROVE HeldForUse'
      <4>1. Uses(u)' = Uses(u)
        BY <1>0, <3>1, <3>3, UsesKept DEF TypeOK
      <4> QED BY <3>0, <3>1, <3>3, <4>1
    <3>4. CASE t \in open /\ slot.tab = t /\ Uses(t) > 0
      <4>1. /\ dones[t] > 0 => slot.holder \in {"menu-scan", "menu-read"}
            /\ t \in autoDone => slot.holder = "auto-scan"
        BY <1>0, <3>4 DEF Hold, PagesHold
      <4>2. CASE ActivityDone(t)
        <5>1. slot.holder = "menu-read"
          BY <3>1, <3>4, <4>1, <4>2 DEF ActivityDone, Released, HeldBy
        <5>2. halfDone'[t] > 0
          BY <1>0, <4>2 DEF ActivityDone, Plus, TypeOK
        <5> QED BY <3>0, <3>1, <3>4, <5>1, <5>2
      <4>3. CASE ThenRead(t)
        <5>1. Uses(t)' = Uses(t)
          BY <4>3 DEF ThenRead, Uses
        <5> QED BY <3>0, <3>1, <3>4, <5>1
      <4>4. CASE AutoScanDone(t)
        BY <3>1, <3>4, <4>1, <4>4 DEF AutoScanDone, Released, HeldBy
      <4> QED BY <2>2, <4>2, <4>3, <4>4
    <3>5. ASSUME NEW u \in open, slot.tab = u, slot.holder = "menu-read", halfDone[u] > 0 PROVE HeldForUse'
      <4>1. CASE u = t /\ ThenRead(t)
        BY <3>1, <3>5, <4>1 DEF ThenRead, Released, HeldBy
      <4>2. CASE ~ (u = t /\ ThenRead(t))
        <5>1. halfDone'[u] > 0
          BY <1>0, <2>2, <3>1, <3>5, <4>2 DEF ActivityDone, AutoScanDone, Plus, TypeOK
        <5> QED BY <3>0, <3>1, <3>5, <5>1
      <4> QED BY <4>1, <4>2
    <3> QED BY <3>1, <3>2, <3>3, <3>4, <3>5 DEF HeldForUse
  <2>3. CASE CloseTab(t) \/ TabRemoved(t) \/ PageDies(t)
    BY <2>3 DEF CloseTab, TabRemoved, PageDies, CalmTabs
  <2> QED BY <1>2, <2>1, <2>2, <2>3 DEF TabStep
<1>3. CASE WorkerStops BY <1>3 DEF WorkerStops
<1>4. CASE Tick
  <2>1. /\ UNCHANGED <<pc, at, open, run, dones, halfDone, autoDone>>
        /\ slot # NoSlot /\ slot' = Older(slot)
    BY <1>4 DEF Tick
  <2>2. slot'.tab = slot.tab /\ slot'.holder = slot.holder
    BY <1>0, <2>1 DEF Older, TypeOK, SlotValues
  <2>3. \A t \in open : Uses(t)' = Uses(t)
    BY <1>0, <2>1, UsesKept DEF TypeOK
  <2> QED BY <2>1, <2>2, <2>3 DEF HeldForUse
<1>5. CASE UNCHANGED vars
  <2>1. \A t \in open : Uses(t)' = Uses(t)
    BY <1>0, <1>5, UsesKept DEF TypeOK, vars
  <2> QED BY <1>5, <2>1 DEF HeldForUse, vars
<1> QED BY <1>1, <1>2, <1>3, <1>4, <1>5 DEF Next

-----------------------------------------------------------------------------
(* The theorems *)

\* Types hold in every reachable state.
THEOREM TypeCorrect == Spec => []TypeOK
BY TypeInit, TypeNext, PTL DEF Spec

LEMMA SlotInvInit == Init => SlotInv
BY TypeInit, PlacesInit, HoldInit DEF SlotInv, Hold, Init

LEMMA SlotInvHolds == Spec => []SlotInv
BY SlotInvInit, SlotInvNext, PTL DEF Spec

\* slot.ts:1-2 "never more than one tab talks to Facebook at a time", for any
\* activities in any tabs and whatever is closed, dies or stops, as long as the
\* slot has not been lost at work: past its time limit, or to the second release
\* of a scan's report in the tab of a read.
THEOREM OneTabTalksHolds == Spec => []OneTabTalks
<1>1. ASSUME SlotInv PROVE OneTabTalks
  <2> SUFFICES ASSUME ~ astray, NEW t \in Tabs, NEW u \in Tabs, Talks(t), Talks(u) PROVE t = u
    BY DEF OneTabTalks
  <2>0. TypeOK /\ Places /\ Hold
    BY <1>1 DEF SlotInv, Hold
  <2>1. ASSUME NEW s \in Tabs, run[s] # "none"
        PROVE  s \in open /\ slot.tab = s /\ \A c \in Calls : ~ Live(c)
    <3>1. s \in open
      BY <2>0, <2>1 DEF Places
    <3>2. Uses(s) > 0
      BY <2>0, <2>1, UsesSplit
    <3> QED BY <2>0, <3>1, <3>2, InUseAlone
  <2>2. ASSUME NEW s \in open, NEW c \in Calls, TabOf[c] = s, pc[c] \in {"move", "load"}
        PROVE  Live(c)
    BY <2>0, <2>2 DEF Live, AtWork, Places
  <2>3. \A c, d \in Calls : Live(c) /\ Live(d) => c = d
    BY <2>0 DEF Hold, FunctionsHold
  <2> QED BY <2>1, <2>2, <2>3 DEF Talks
<1> QED BY <1>1, SlotInvHolds, PTL

\* Without accidents a taken slot is in use, or its release is on its way.
THEOREM CalmSlotIsInUseHolds == Spec => []CalmSlotIsInUse
<1>1. SlotInv /\ CalmInv /\ [Next]_vars => CalmInv'
  <2> SUFFICES ASSUME SlotInv, CalmInv, [Next]_vars, calm' PROVE CalmTabs' /\ (~ astray' => HeldForUse')
    BY DEF CalmInv
  <2>1. calm /\ TypeOK /\ Places
    BY DEF Next, vars, SlotInv
  <2>2. ~ astray' => ~ astray
    BY NotLost
  <2> QED BY <2>1, <2>2, CalmTabsNext, HeldForUseNext DEF CalmInv
<1>2. SlotInv /\ CalmInv => CalmSlotIsInUse
  <2> SUFFICES ASSUME SlotInv, CalmInv, calm, ~ astray, slot # NoSlot
               PROVE  \/ InUse
                      \/ slot.tab \in removed \cup autoDone
                      \/ slot.tab \in Tabs /\ (dones[slot.tab] > 0 \/ halfDone[slot.tab] > 0)
    BY DEF CalmSlotIsInUse
  <2>1. CASE \E c \in Calls : Live(c)
    BY <2>1 DEF SlotInv, FunctionsHold, InUse, Live
  <2>2. CASE slot.tab \in open /\ Uses(slot.tab) > 0
    BY <2>2 DEF SlotInv, TypeOK, Uses, One, InUse
  <2>3. CASE slot.tab \in open /\ halfDone[slot.tab] > 0
    BY <2>3 DEF SlotInv, TypeOK
  <2> QED BY <2>1, <2>2, <2>3 DEF CalmInv, HeldForUse
<1> QED BY <1>1, <1>2, SlotInvHolds, CalmInit, PTL DEF Spec
=============================================================================
