-------------------------- MODULE PostReaderProofs --------------------------
(***************************************************************************)
(* Proofs about PostReader for any posts, jobs, tabs and time limits: the  *)
(* queue stays in order, automatic reads are paced, no tab is opened       *)
(* without the slot or forgotten, and what is in flight or queued goes on  *)
(* until the first mishap.                                                 *)
(***************************************************************************)
EXTENDS PostReader, CountingProofs

\* The assumptions as the provers use them.
LEMMA Given ==
  /\ NoTab \notin Tabs
  /\ NoSlot \notin [holder : Holders, tab : Tabs \cup {NoTab}, age : Nat]
  /\ Limit \in [Holders -> Nat]
  /\ Holders = {Reader, Other} /\ Reader # Other
  /\ Asks \subseteq Jobs
  /\ Gap \in Nat /\ Loading \in Nat /\ HiddenLimit \in Nat /\ Cap \in Nat /\ VisibleLimit \in Nat
  /\ MaxStops \in Nat
  /\ 0 < Gap /\ 0 < HiddenLimit /\ 0 < Loading
  /\ HiddenLimit <= VisibleLimit /\ Gap <= VisibleLimit
  /\ Loading + Cap < VisibleLimit
  /\ VisibleLimit + Loading <= Limit[Reader]
  /\ Limit[Reader] \in Nat
  /\ NoRead \notin [post : Posts, kind : Kinds, tab : Tabs, age : 0..VisibleLimit]
  /\ NoAlarm \notin 0..VisibleLimit
BY SlotAssumption, PostReaderAssumption DEF Reader, Other

-----------------------------------------------------------------------------
(* The inductive invariants *)

HasTab == {"move", "record", "arm", "load", "send", "giveup"}

\* The reader's slot, in tab t
Held(t) == HeldBy(slot, Reader, t)

\* Where the running kickOnce() is: whatever it read of the state before, no other
\* read can have begun, and its slot is still its own.
KickInv ==
  /\ kpc \in HasTab <=> ktab \in Tabs
  /\ kpc \in {"query", "acquire", "open", "notab", "move", "record"} => current = NoRead
  /\ kpc \in {"query", "acquire", "open", "notab", "move", "record", "arm"} => seen # <<>>
  /\ kpc \in {"open", "move"} => Held(NoTab) /\ slot.age = 0
  /\ kpc \in {"move", "record"} =>
       /\ spent[ktab] = 0
       /\ \A f \in fins : f.tab # ktab
  /\ kpc \in {"arm", "load", "send"} /\ current # NoRead => current.tab = ktab
  /\ kpc = "arm" => spent[ktab] = 0
  /\ kpc = "load" => spent[ktab] <= Loading
  /\ kpc \in {"record", "arm", "load", "send"} /\ page[ktab] # "none" =>
       Held(ktab) /\ slot.age <= Loading
  /\ kpc \in {"record", "arm"} /\ page[ktab] # "none" => slot.age = 0
  /\ kpc = "load" /\ page[ktab] = "loading" => slot.age <= spent[ktab]
  /\ kpc \in {"arm", "load", "send"} /\ page[ktab] # "none" =>
       Reading(ktab) \/ \E f \in fins : f.tab = ktab
  /\ kpc = "giveup" /\ page[ktab] # "none" => \E f \in fins : f.tab = ktab

\* What the copies of finishRead() are about to do.
FinInv ==
  \A f \in fins :
    /\ f.at = "clear" /\ current # NoRead => f.tab = current.tab
    /\ f.at = "clear" /\ current = NoRead => pause = 0
    /\ f.at = "close" /\ current # NoRead => f.tab # current.tab

\* What the pages do.
PageInv ==
  \A t \in Tabs :
    /\ t \in removed => page[t] = "none"
    /\ page[t] = "reading" => /\ Held(t)
                              /\ spent[t] <= Cap /\ slot.age <= Loading + spent[t]
    /\ stops = 0 /\ page[t] = "loading" =>
         \/ ktab = t /\ kpc \in {"move", "record", "arm", "load"}
         \/ Held(t) /\ slot.age <= Loading /\ \E f \in fins : f.tab = t

Base == KickInv /\ FinInv /\ PageInv /\ NoTabLeftOpen

ReaderInv == TypeOK /\ Base

\* The queue a kick read is as sound as the queue it writes back.
Distinct(q) == \A i, j \in 1..Len(q) : q[i].post = q[j].post => i = j
Sorted(q) == \A i, j \in 1..Len(q) : i < j /\ Click(q[j]) => Click(q[i])

QueueInv ==
  /\ Distinct(queue) /\ Sorted(queue) /\ Distinct(seen) /\ Sorted(seen)
  /\ current # NoRead => ~ Queued(current.post)

PaceInv ==
  kpc \in {"query", "acquire", "open"} /\ ~ Click(Head(seen)) => pause >= Gap

\* Without a mishap: the alarm of the read in flight is its own.
Armed ==
  current # NoRead /\ kpc # "arm" =>
    /\ \A f \in fins : f.at = "clear" \/ f.next # "auto"
    /\ \/ alarm = LimitOf(current) - current.age
       \/ TimedOut(current) /\ (kicks > 0 \/ kpc \in {"look", "timeout"})

\* The read in flight has its tab's slot, and not much longer than it is under way.
KeepsSlot ==
  current # NoRead =>
    /\ current.age <= LimitOf(current)
    /\ kpc = "arm" => current.age = 0 /\ current.kind = Head(seen).kind
    /\ page[current.tab] # "none" => Held(current.tab) /\ slot.age <= current.age + Loading

\* Somebody will look at the queue again.
Awaited ==
  queue # <<>> /\ current = NoRead =>
    \/ alarm # NoAlarm \/ kicks > 0
    \/ kpc \in {"look", "query", "acquire", "open", "notab", "move", "record"}
    \/ \E f \in fins : f.at = "clear" \/ f.next # "none"

\* The worker has not been stopped at its work; a tab that could not be opened was for
\* the last job.
Running == stops = 0 /\ (kpc = "notab" => Tail(seen) = <<>>)

GoingOn == Running /\ Armed /\ KeepsSlot /\ Awaited

-----------------------------------------------------------------------------
(* Types *)

LEMMA SlotStays ==
  ASSUME NEW s \in SlotValues, NEW h, NEW t
  PROVE  /\ NoSlot \in SlotValues
         /\ Released(s, h, t) \in {s, NoSlot}
         /\ TabReleased(s, t) \in {s, NoSlot}
BY DEF Released, TabReleased, SlotValues

LEMMA TakenType ==
  ASSUME NEW h \in Holders, NEW t \in Tabs \cup {NoTab}
  PROVE  Taken(h, t) \in SlotValues /\ HeldBy(Taken(h, t), h, t) /\ Taken(h, t).age = 0
BY Given DEF Taken, SlotValues, HeldBy

LEMMA MovedType ==
  ASSUME NEW s \in SlotValues, NEW h, NEW from, NEW t \in Tabs \cup {NoTab}
  PROVE  /\ Moved(s, h, from, t) \in SlotValues
         /\ ~ HeldBy(s, h, from) => Moved(s, h, from, t) = s
         /\ HeldBy(s, h, from) => /\ HeldBy(Moved(s, h, from, t), h, t)
                                  /\ Moved(s, h, from, t).age = s.age
BY Given DEF Moved, HeldBy, SlotValues

LEMMA OlderType ==
  ASSUME NEW s \in SlotValues
  PROVE  /\ Older(s) \in SlotValues
         /\ Older(s) = NoSlot <=> s = NoSlot
         /\ s # NoSlot => /\ Older(s).holder = s.holder /\ Older(s).tab = s.tab
                          /\ s.age \in Nat /\ Older(s).age \in {s.age, s.age + 1}
BY Given DEF Older, SlotValues

LEMMA KeptType ==
  ASSUME NEW q \in Seq(Jobs), NEW S
  PROVE  Kept(q, S) \in Seq(Jobs)
BY KeptOf

LEMMA ClicksFirstType ==
  ASSUME NEW q \in Seq(Jobs)
  PROVE  ClicksFirst(q) \in Seq(Jobs)
BY KeptType DEF ClicksFirst

LEMMA LimitType ==
  ASSUME NEW job
  PROVE  LimitOf(job) \in 1..VisibleLimit
BY Given DEF LimitOf

LEMMA FinishType ==
  ASSUME TypeOK, NEW t \in Tabs, NEW by \in {"kick", "report", "removed"}, FinishRead(t, by)
  PROVE  fins' \subseteq Finish
<1> DEFINE f == [tab |-> t, visible |-> Visible(current), by |-> by, at |-> "clear", next |-> "none"]
<1>1. Visible(current) \in BOOLEAN
  BY DEF Visible
<1>2. f \in Finish
  BY <1>1 DEF Finish
<1>3. fins' = fins \/ fins' = fins \cup {f}
  BY DEF FinishRead
<1> QED BY <1>2, <1>3 DEF TypeOK

LEMMA WakeType ==
  ASSUME TypeOK, NEW n \in Nat, Wake(n)
  PROVE  up' = TRUE /\ kicks' \in Nat /\ kicks' >= kicks + n
BY DEF Wake, TypeOK

LEMMA SeenType ==
  ASSUME TypeOK, seen # <<>>
  PROVE  /\ Head(seen) \in Jobs /\ Tail(seen) \in Seq(Jobs)
         /\ Head(seen).post \in Posts /\ Head(seen).kind \in Kinds
<1>1. Head(seen) \in Jobs /\ Tail(seen) \in Seq(Jobs)
  BY DEF TypeOK
<1> QED BY <1>1 DEF Jobs

\* What the kick in its step may rely on for its types.
SeenInv ==
  /\ kpc \in HasTab => ktab \in Tabs
  /\ kpc \in {"query", "acquire", "open", "notab", "move", "record", "arm"} => seen # <<>>

LEMMA TypeKick == ASSUME TypeOK, SeenInv, KickStep PROVE TypeOK'
<1> USE DEF Goto, KickSteps, HasTab, SeenInv, stored, kick, pages, events
<1>0. /\ Gap \in Nat /\ VisibleLimit \in Nat /\ Gap <= VisibleLimit /\ 0 < Gap
      /\ Reader \in Holders /\ Other \in Holders
      /\ <<>> \in Seq(Jobs)
  BY Given
<1>1. CASE Kick BY <1>1 DEF Kick, TypeOK
<1>2. CASE LookAtCurrent
  <2>1. current # NoRead => current.tab \in Tabs
    BY DEF TypeOK
  <2>2. fins' \subseteq Finish
    BY <1>2, <2>1, FinishType DEF LookAtCurrent, TypeOK
  <2> QED BY <1>2, <2>2 DEF LookAtCurrent, TypeOK
<1>3. CASE LookAtQueue
  <2>1. pause < Gap => Gap - pause \in 0..VisibleLimit
    BY <1>0 DEF TypeOK
  <2> QED BY <1>3, <2>1 DEF LookAtQueue, TypeOK
<1>4. CASE Query
  <2>1. Tail(seen) \in Seq(Jobs)
    BY <1>4, SeenType DEF Query
  <2>2. queue' \in Seq(Jobs) /\ seen' \in Seq(Jobs)
    BY <1>0, <1>4, <2>1, KeptType DEF Query, TypeOK
  <2> QED BY <1>4, <2>2 DEF Query, TypeOK
<1>5. CASE Acquire
  <2>1. seen' \in Seq(Jobs)
    BY <1>0, <1>5 DEF Acquire, TypeOK
  <2>2. slot' \in SlotValues
    BY <1>0, <1>5, TakenType DEF Acquire, TypeOK
  <2>3. alarm' \in 0..VisibleLimit \cup {NoAlarm}
    BY <1>0, <1>5 DEF Acquire, TypeOK
  <2>4. kpc' \in KickSteps
    BY <1>5 DEF Acquire
  <2> QED BY <1>5, <2>1, <2>2, <2>3, <2>4 DEF Acquire, TypeOK
<1>6. CASE Open
  <2>1. slot' \in SlotValues
    BY <1>6, SlotStays DEF Open, TypeOK
  <2>2. /\ page' \in [Tabs -> {"none", "loading", "ready", "reading"}]
        /\ spent' \in [Tabs -> Nat] /\ ktab' \in Tabs \cup {NoTab}
    <3>1. CASE UNCHANGED <<page, spent, ktab>>
      BY <3>1 DEF TypeOK
    <3>2. ASSUME NEW t \in Tabs, page' = [page EXCEPT ![t] = "loading"],
                 spent' = [spent EXCEPT ![t] = 0], ktab' = t
          PROVE  /\ page' \in [Tabs -> {"none", "loading", "ready", "reading"}]
                 /\ spent' \in [Tabs -> Nat] /\ ktab' \in Tabs \cup {NoTab}
      BY <3>2 DEF TypeOK
    <3> QED BY <1>6, <3>1, <3>2 DEF Open
  <2>3. kpc' \in KickSteps
    BY <1>6 DEF Open
  <2> QED BY <1>6, <2>1, <2>2, <2>3 DEF Open, TypeOK
<1>7. CASE NoTabOpened BY <1>0, <1>7, SeenType DEF NoTabOpened, KickEnds, TypeOK
<1>8. CASE Move BY <1>8, MovedType DEF Move, TypeOK
<1>9. CASE Record
  <2>1. current' \in [post : Posts, kind : Kinds, tab : Tabs, age : 0..VisibleLimit]
    BY <1>0, <1>9, SeenType DEF Record
  <2> QED BY <1>9, <2>1, SeenType DEF Record, TypeOK
<1>10. CASE Arm BY <1>0, <1>10, LimitType DEF Arm, TypeOK
<1>11. CASE Load
  <2>1. fins' \subseteq Finish
    BY <1>11, FinishType DEF Load, TypeOK
  <2> QED BY <1>11, <2>1 DEF Load, TypeOK
<1>12. CASE Send
  <2>1. fins' \subseteq Finish
    BY <1>12, FinishType DEF Send, TypeOK
  <2>2. seen' \in Seq(Jobs) /\ ktab' \in Tabs \cup {NoTab} /\ kpc' \in KickSteps
    BY <1>0, <1>12 DEF Send, KickEnds, TypeOK
  <2>3. /\ page' \in [Tabs -> {"none", "loading", "ready", "reading"}]
        /\ spent' \in [Tabs -> Nat]
    <3>1. page \in [Tabs -> {"none", "loading", "ready", "reading"}] /\ spent \in [Tabs -> Nat]
      BY DEF TypeOK
    <3> QED BY <1>12, <3>1 DEF Send
  <2> QED BY <1>12, <2>1, <2>2, <2>3 DEF Send, TypeOK
<1>13. CASE AfterFinish BY <1>0, <1>13 DEF AfterFinish, KickEnds, TypeOK
<1> QED BY <1>1, <1>2, <1>3, <1>4, <1>5, <1>6, <1>7, <1>8, <1>9, <1>10, <1>11, <1>12, <1>13 DEF KickStep

LEMMA TypeNext == ASSUME TypeOK, SeenInv, [Next]_vars PROVE TypeOK'
<1> USE DEF stored, kick, pages, events
<1>0. /\ Gap \in Nat /\ VisibleLimit \in Nat /\ Gap <= VisibleLimit /\ 0 < Gap /\ MaxStops \in Nat
      /\ Reader \in Holders /\ Other \in Holders /\ NoAlarm \notin 0..VisibleLimit
      /\ <<>> \in Seq(Jobs)
  BY Given
<1>1. ASSUME NEW job \in Asks, Ask(job) PROVE TypeOK'
  <2>1. job \in Jobs
    BY Given
  <2>2. Kept(queue, {j \in Jobs : j.post # job.post}) \in Seq(Jobs)
    BY KeptType DEF TypeOK
  <2>3. ClicksFirst(Append(Kept(queue, {j \in Jobs : j.post # job.post}), job)) \in Seq(Jobs)
    <3> DEFINE q == Kept(queue, {j \in Jobs : j.post # job.post})
    <3>1. q \in Seq(Jobs)
      BY <2>2
    <3> HIDE DEF q
    <3>2. Append(q, job) \in Seq(Jobs)
      BY <2>1, <3>1
    <3>3. ClicksFirst(Append(q, job)) \in Seq(Jobs)
      BY <3>2, ClicksFirstType
    <3> QED BY <3>3 DEF q
  <2>4. up' = TRUE /\ kicks' \in Nat
    BY <1>1, WakeType DEF Ask
  <2> QED BY <1>1, <2>3, <2>4 DEF Ask, TypeOK
<1>2. CASE KickStep BY <1>2, TypeKick
<1>3. ASSUME NEW f \in fins, Clear(f) PROVE TypeOK'
  <2>1. fins' \subseteq Finish
    BY <1>3 DEF Clear, TypeOK, Finish
  <2> QED BY <1>0, <1>3, <2>1 DEF Clear, TypeOK
<1>4. ASSUME NEW f \in fins, Close(f) PROVE TypeOK'
  <2>1. slot' \in SlotValues
    BY <1>4, SlotStays DEF Close, TypeOK
  <2>2. f.tab \in Tabs
    BY DEF TypeOK, Finish
  <2> QED BY <1>0, <1>4, <2>1, <2>2 DEF Close, TypeOK
<1>5. CASE AlarmFires BY <1>5, WakeType DEF AlarmFires, TypeOK
<1>6. ASSUME NEW t \in Tabs, Reported(t) PROVE TypeOK'
  <2>1. fins' \subseteq Finish /\ up' = TRUE /\ kicks' \in Nat
    BY <1>6, FinishType, WakeType DEF Reported
  <2> QED BY <1>6, <2>1 DEF Reported, TypeOK
<1>7. ASSUME NEW t \in Tabs, TabRemoved(t) PROVE TypeOK'
  <2>1. fins' \subseteq Finish /\ up' = TRUE /\ kicks' \in Nat
    BY <1>7, FinishType, WakeType DEF TabRemoved
  <2>2. slot' \in SlotValues
    BY <1>7, SlotStays DEF TabRemoved, TypeOK
  <2> QED BY <1>7, <2>1, <2>2 DEF TabRemoved, TypeOK
<1>8. ASSUME NEW t \in Tabs, PageLoads(t) \/ PageReports(t) \/ PageDies(t) \/ UserCloses(t) PROVE TypeOK'
  BY <1>8 DEF PageLoads, PageReports, PageDies, UserCloses, TypeOK
<1>9. CASE OtherTakes BY <1>0, <1>9, TakenType DEF OtherTakes, TypeOK
<1>10. CASE OtherEnds BY <1>10, SlotStays DEF OtherEnds, TypeOK
<1>14. CASE WorkerRests BY <1>14 DEF WorkerRests, TypeOK
<1>11. CASE WorkerStops
  <2>1. seen' \in Seq(Jobs) /\ ktab' \in Tabs \cup {NoTab} /\ kpc' \in KickSteps
    BY <1>0, <1>11 DEF WorkerStops, KickEnds, KickSteps
  <2>2. kicks' \in Nat /\ stops' \in 0..MaxStops /\ up' \in BOOLEAN /\ fins' \subseteq Finish
    <3>1. stops \in 0..MaxStops
      BY DEF TypeOK
    <3>2. fins' = {} /\ kicks' = 0 /\ up' = FALSE /\ stops' = stops + 1 /\ stops < MaxStops
      BY <1>11 DEF WorkerStops
    <3>3. up' \in BOOLEAN
      BY <3>2
    <3>4. stops' \in 0..MaxStops /\ kicks' \in Nat
      BY <1>0, <3>1, <3>2
    <3> QED BY <3>2, <3>3, <3>4
  <2> QED BY <1>11, <2>1, <2>2 DEF WorkerStops, TypeOK
<1>12. CASE Tick
  <2>1. pause' \in 0..Gap
    BY <1>0, <1>12 DEF Tick, TypeOK
  <2>2. alarm' \in 0..VisibleLimit \cup {NoAlarm}
    BY <1>0, <1>12 DEF Tick, Settled, TypeOK
  <2>3. current' \in [post : Posts, kind : Kinds, tab : Tabs, age : 0..VisibleLimit] \cup {NoRead}
    <3>1. CASE current # NoRead /\ ~ TimedOut(current)
      <4>1. current \in [post : Posts, kind : Kinds, tab : Tabs, age : 0..VisibleLimit]
        BY <3>1 DEF TypeOK
      <4>2. current.age + 1 \in 0..VisibleLimit
        BY <1>0, <3>1, <4>1, LimitType DEF TimedOut
      <4>3. current' = [current EXCEPT !.age = current.age + 1]
        BY <1>12, <3>1 DEF Tick
      <4> QED BY <4>1, <4>2, <4>3
    <3> QED BY <1>12, <3>1 DEF Tick, TypeOK
  <2>4. spent' \in [Tabs -> Nat]
    BY <1>12 DEF Tick, TypeOK
  <2>5. slot' \in SlotValues
    BY <1>12, OlderType DEF Tick, TypeOK
  <2> QED BY <1>12, <2>1, <2>2, <2>3, <2>4, <2>5 DEF Tick, TypeOK
<1>13. CASE UNCHANGED vars BY <1>13 DEF vars, TypeOK
<1> QED BY <1>1, <1>2, <1>3, <1>4, <1>5, <1>6, <1>7, <1>8, <1>9, <1>10, <1>11, <1>12, <1>13, <1>14
     DEF Next, FinishStep, Event, PageStep

-----------------------------------------------------------------------------
(* The reader, its tabs and the slot *)

\* What the steps below need of the types.
LEMMA Typed ==
  ASSUME TypeOK
  PROVE  /\ page \in [Tabs -> {"none", "loading", "ready", "reading"}]
         /\ spent \in [Tabs -> Nat]
         /\ ktab \in Tabs \cup {NoTab} /\ NoTab \notin Tabs
         /\ \A f \in fins : f.tab \in Tabs /\ f.at \in {"clear", "close"}
         /\ current # NoRead => current.tab \in Tabs
         /\ slot \in SlotValues
         /\ pause \in 0..Gap /\ Gap \in Nat /\ 0 < Gap
         /\ Loading \in Nat /\ Cap \in Nat
BY Given DEF TypeOK, Finish

\* The reader's slot is not to be had before its time is up.
LEMMA NotFree ==
  ASSUME TypeOK, NEW t, Held(t), slot.age <= Loading + Cap
  PROVE  ~ Free(slot)
<1>1. slot # NoSlot /\ slot.holder = Reader /\ slot.age \in Nat
  BY DEF Held, HeldBy, TypeOK, SlotValues
<1>2. slot.age <= Limit[Reader] /\ Limit[Reader] \in Nat
  BY <1>1, Given
<1> QED BY <1>1, <1>2 DEF Free, Expired

\* A finishRead() joins those under way only if the read is still the current one.
LEMMA Finishes ==
  ASSUME NEW t, NEW by, FinishRead(t, by)
  PROVE  /\ fins \subseteq fins'
         /\ \A f \in fins' \ fins : f.tab = t /\ f.at = "clear" /\ Reading(t)
         /\ Reading(t) => \E f \in fins' : f.tab = t
<1> DEFINE new == [tab |-> t, visible |-> Visible(current), by |-> by, at |-> "clear", next |-> "none"]
<1>1. fins' = IF Reading(t) THEN fins \cup {new} ELSE fins
  BY DEF FinishRead
<1>2. new.tab = t /\ new.at = "clear"
  OBVIOUS
<1> HIDE DEF new
<1> QED BY <1>1, <1>2

\* Nobody but the reader frees its slot in a tab, and only for that tab.
LEMMA SlotKept ==
  ASSUME NEW s, NEW t, HeldBy(s, Reader, t)
  PROVE  /\ \A u : u # t => Released(s, Reader, u) = s /\ TabReleased(s, u) = s
         /\ \A u : u # t => Moved(s, Reader, u, ktab) = s
         /\ Released(s, Other, NoTab) = s
BY Given DEF HeldBy, Released, TabReleased, Moved

\* Steps that leave the reader, its tabs and its slot as they are.
LEMMA BaseKept ==
  ASSUME Base,
         UNCHANGED <<current, pause, slot, stops, kpc, seen, ktab, fins, page, spent, removed>>
  PROVE  Base'
BY DEF Base, KickInv, FinInv, PageInv, NoTabLeftOpen, Held, Reading

LEMMA BaseKick ==
  ASSUME TypeOK, Base, KickStep
  PROVE  Base'
<1> USE DEF Goto, KickEnds, stored, kick, pages, events, HasTab
<1>0. KickInv /\ FinInv /\ PageInv /\ NoTabLeftOpen
  BY DEF Base
<1>1. CASE Kick \/ LookAtQueue \/ AfterFinish
  <2>1. UNCHANGED <<current, pause, slot, stops, fins, page, spent, removed>>
    BY <1>1 DEF Kick, LookAtQueue, AfterFinish
  <2>2. KickInv'
    BY <1>0, <1>1, <2>1, Typed DEF KickInv, Held, Reading, Kick, LookAtQueue, AfterFinish
  <2>3. FinInv'
    BY <1>0, <2>1 DEF FinInv
  <2>4. PageInv'
    BY <1>0, <1>1, <2>1 DEF PageInv, Held, Kick, LookAtQueue, AfterFinish
  <2>5. NoTabLeftOpen'
    BY <1>0, <1>1, <2>1, Typed DEF NoTabLeftOpen, KickInv, Reading, Kick, LookAtQueue, AfterFinish
  <2> QED BY <2>2, <2>3, <2>4, <2>5 DEF Base
<1>2. CASE LookAtCurrent
  <2>1. /\ UNCHANGED <<current, pause, slot, stops, ktab, page, spent, removed>>
        /\ kpc = "look" /\ kpc' \in {"timeout", "idle"}
        /\ fins \subseteq fins'
        /\ \A f \in fins' \ fins : f.tab = current.tab /\ f.at = "clear" /\ current # NoRead
    <3>1. /\ UNCHANGED <<current, pause, slot, stops, ktab, page, spent, removed>>
          /\ kpc = "look" /\ kpc' \in {"timeout", "idle"} /\ current # NoRead
      BY <1>2 DEF LookAtCurrent
    <3>2. FinishRead(current.tab, "kick") \/ fins' = fins
      BY <1>2 DEF LookAtCurrent
    <3> QED BY <3>1, <3>2, Finishes
  <2>2. KickInv'
    BY <1>0, <2>1 DEF KickInv
  <2>3. FinInv'
    BY <1>0, <2>1 DEF FinInv
  <2>4. PageInv'
    BY <1>0, <2>1 DEF PageInv, Held
  <2>5. NoTabLeftOpen'
    BY <1>0, <2>1 DEF NoTabLeftOpen, Reading
  <2> QED BY <2>2, <2>3, <2>4, <2>5 DEF Base
<1>3. CASE Query
  <2>1. /\ UNCHANGED <<current, pause, slot, stops, ktab, fins, page, spent, removed>>
        /\ kpc = "query" /\ ((kpc' = "acquire" /\ seen' = seen) \/ kpc' = "look")
    BY <1>3 DEF Query
  <2>2. KickInv'
    BY <1>0, <2>1 DEF KickInv
  <2>3. FinInv'
    BY <1>0, <2>1 DEF FinInv
  <2>4. PageInv'
    BY <1>0, <2>1 DEF PageInv, Held
  <2>5. NoTabLeftOpen'
    BY <1>0, <2>1 DEF NoTabLeftOpen, Reading
  <2> QED BY <2>2, <2>3, <2>4, <2>5 DEF Base
<1>4. CASE Acquire
  <2>1. /\ UNCHANGED <<current, pause, stops, ktab, fins, page, spent, removed>>
        /\ kpc = "acquire" /\ current = NoRead /\ seen # <<>> /\ ktab \notin Tabs
        /\ \/ Free(slot) /\ slot' = Taken(Reader, NoTab) /\ kpc' = "open" /\ seen' = seen
           \/ slot' = slot /\ kpc' = "idle"
    BY <1>0, <1>4 DEF Acquire, KickInv
  <2>2. Free(slot) => \A t : Held(t) => slot.age > Loading + Cap
    <3>1. \A t : Held(t) => slot.age \in Nat
      BY Typed DEF Held, HeldBy, SlotValues
    <3> QED BY <3>1, NotFree, Typed
  <2>3. KickInv'
    BY <1>0, <2>1, TakenType, Given DEF KickInv, Held
  <2>4. FinInv'
    BY <1>0, <2>1 DEF FinInv
  <2>5. ASSUME NEW t \in Tabs, Held(t), slot.age <= Loading + Cap PROVE slot' = slot
    BY <2>1, <2>5, NotFree
  <2>6. PageInv'
    <3> SUFFICES ASSUME NEW t \in Tabs
                 PROVE  /\ t \in removed' => page'[t] = "none"
                        /\ page'[t] = "reading" => /\ HeldBy(slot', Reader, t)
                                                  /\ spent'[t] <= Cap /\ slot'.age <= Loading + spent'[t]
                        /\ stops' = 0 /\ page'[t] = "loading" =>
                             HeldBy(slot', Reader, t) /\ slot'.age <= Loading /\ \E f \in fins' : f.tab = t
      BY DEF PageInv, Held
    <3>1. /\ t \in removed => page[t] = "none"
          /\ page[t] = "reading" => Held(t) /\ spent[t] <= Cap /\ slot.age <= Loading + spent[t]
          /\ stops = 0 /\ page[t] = "loading" => Held(t) /\ slot.age <= Loading /\ \E f \in fins : f.tab = t
      BY <1>0, <2>1 DEF PageInv
    <3>2. page[t] = "reading" \/ (stops = 0 /\ page[t] = "loading") => slot.age <= Loading + Cap
      <4>1. Held(t) => slot.age \in Nat
        BY Typed DEF Held, HeldBy, SlotValues
      <4> QED BY <3>1, <4>1, Typed
    <3> QED BY <2>1, <2>5, <3>1, <3>2 DEF Held
  <2>7. NoTabLeftOpen'
    BY <1>0, <2>1 DEF NoTabLeftOpen, Reading
  <2> QED BY <2>3, <2>4, <2>6, <2>7 DEF Base
<1>5. CASE Open
  <2>1. /\ UNCHANGED <<current, pause, stops, seen, fins, removed>>
        /\ kpc = "open" /\ current = NoRead /\ seen # <<>> /\ ktab \notin Tabs
        /\ Held(NoTab) /\ slot.age = 0
    BY <1>0, <1>5 DEF Open, KickInv
  <2>2. ASSUME NEW t \in Tabs, Fresh(t), page' = [page EXCEPT ![t] = "loading"],
               spent' = [spent EXCEPT ![t] = 0], ktab' = t, kpc' = "move", slot' = slot
        PROVE  Base'
    <3>1. KickInv'
      BY <2>1, <2>2, Typed DEF KickInv, Held, Fresh
    <3>2. FinInv'
      BY <1>0, <2>1 DEF FinInv
    <3>3. PageInv'
      BY <1>0, <2>1, <2>2, Typed DEF PageInv, Held, Fresh
    <3>4. NoTabLeftOpen'
      BY <1>0, <2>1, <2>2, Typed DEF NoTabLeftOpen, Reading
    <3> QED BY <3>1, <3>2, <3>3, <3>4 DEF Base
  <2>3. CASE slot' = Released(slot, Reader, NoTab) /\ kpc' = "notab" /\ UNCHANGED <<page, spent, ktab>>
    <3>1. \A t \in Tabs : ~ Held(t)
      BY <2>1, Typed DEF Held, HeldBy
    <3>2. KickInv'
      BY <2>1, <2>3 DEF KickInv
    <3>3. FinInv'
      BY <1>0, <2>1 DEF FinInv
    <3>4. PageInv'
      BY <1>0, <2>1, <2>3, <3>1 DEF PageInv
    <3>5. NoTabLeftOpen'
      BY <1>0, <2>1, <2>3 DEF NoTabLeftOpen, Reading
    <3> QED BY <3>2, <3>3, <3>4, <3>5 DEF Base
  <2> QED BY <1>5, <2>2, <2>3 DEF Open
<1>6. CASE NoTabOpened
  <2>1. /\ UNCHANGED <<current, slot, stops, fins, page, spent, removed>>
        /\ kpc = "notab" /\ current = NoRead /\ ktab \notin Tabs
        /\ kpc' = "idle" /\ ktab' = NoTab /\ pause' = 0
    BY <1>0, <1>6 DEF NoTabOpened, KickInv
  <2>2. KickInv'
    BY <2>1, Typed DEF KickInv
  <2>3. FinInv'
    BY <1>0, <2>1 DEF FinInv
  <2>4. PageInv'
    BY <1>0, <2>1 DEF PageInv, Held
  <2>5. NoTabLeftOpen'
    BY <1>0, <2>1 DEF NoTabLeftOpen, Reading
  <2> QED BY <2>2, <2>3, <2>4, <2>5 DEF Base
<1>7. CASE Move
  <2>1. /\ UNCHANGED <<current, pause, stops, seen, ktab, fins, page, spent, removed>>
        /\ kpc = "move" /\ current = NoRead /\ seen # <<>> /\ ktab \in Tabs
        /\ Held(NoTab) /\ slot.age = 0 /\ spent[ktab] = 0 /\ \A f \in fins : f.tab # ktab
        /\ kpc' = "record" /\ slot' = Moved(slot, Reader, NoTab, ktab)
    BY <1>0, <1>7 DEF Move, KickInv
  <2>2. HeldBy(slot', Reader, ktab) /\ slot'.age = 0
    BY <2>1, Typed, MovedType DEF Held
  <2>3. \A t \in Tabs : ~ Held(t)
    BY <2>1, Typed DEF Held, HeldBy
  <2>4. KickInv'
    BY <2>1, <2>2, Typed DEF KickInv, Held
  <2>5. FinInv'
    BY <1>0, <2>1 DEF FinInv
  <2>6. PageInv'
    BY <1>0, <2>1, <2>3 DEF PageInv
  <2>7. NoTabLeftOpen'
    BY <1>0, <2>1 DEF NoTabLeftOpen, Reading
  <2> QED BY <2>4, <2>5, <2>6, <2>7 DEF Base
<1>8. CASE Record
  <2>1. /\ UNCHANGED <<pause, slot, stops, seen, ktab, fins, page, spent, removed>>
        /\ kpc = "record" /\ current = NoRead /\ seen # <<>> /\ ktab \in Tabs
        /\ \A f \in fins : f.tab # ktab /\ f.at # "clear"
        /\ kpc' = "arm" /\ current'.tab = ktab
    BY <1>0, <1>8 DEF Record, KickInv
  <2>2. current' # NoRead
    <3>1. current' = [post |-> Head(seen).post, kind |-> Head(seen).kind, tab |-> ktab, age |-> 0]
      BY <1>8 DEF Record
    <3>2. current' \in [post : Posts, kind : Kinds, tab : Tabs, age : 0..VisibleLimit]
      BY <2>1, <3>1, SeenType, Given
    <3> QED BY <3>2, Given
  <2>3. KickInv'
    BY <1>0, <2>1, <2>2 DEF KickInv, Held, Reading
  <2>4. FinInv'
    BY <1>0, <2>1 DEF FinInv
  <2>5. PageInv'
    BY <1>0, <2>1 DEF PageInv, Held
  <2>6. NoTabLeftOpen'
    BY <1>0, <2>1 DEF NoTabLeftOpen, Reading
  <2> QED BY <2>3, <2>4, <2>5, <2>6 DEF Base
<1>9. CASE Arm
  <2>1. /\ UNCHANGED <<current, pause, slot, stops, seen, ktab, fins, page, spent, removed>>
        /\ kpc = "arm" /\ kpc' = "load"
    BY <1>9 DEF Arm
  <2>2. KickInv'
    BY <1>0, <2>1, Typed DEF KickInv, Held, Reading
  <2>3. FinInv'
    BY <1>0, <2>1 DEF FinInv
  <2>4. PageInv'
    BY <1>0, <2>1 DEF PageInv, Held
  <2>5. NoTabLeftOpen'
    BY <1>0, <2>1 DEF NoTabLeftOpen, Reading
  <2> QED BY <2>2, <2>3, <2>4, <2>5 DEF Base
<1>10. CASE Load
  <2>1. /\ UNCHANGED <<current, pause, slot, stops, seen, ktab, page, spent, removed>>
        /\ kpc = "load" /\ ktab \in Tabs
        /\ \/ page[ktab] = "ready" /\ kpc' = "send" /\ fins' = fins
           \/ kpc' = "giveup" /\ FinishRead(ktab, "kick")
    BY <1>0, <1>10 DEF Load, KickInv
  <2>2. /\ fins \subseteq fins'
        /\ \A f \in fins' \ fins : f.tab = ktab /\ f.at = "clear" /\ Reading(ktab)
        /\ kpc' = "giveup" /\ Reading(ktab) => \E f \in fins' : f.tab = ktab
    BY <2>1, Finishes
  <2>3. KickInv'
    BY <1>0, <2>1, <2>2 DEF KickInv, Held, Reading
  <2>4. FinInv'
    BY <1>0, <2>1, <2>2 DEF FinInv, Reading
  <2>5. PageInv'
    BY <1>0, <2>1, <2>2, <2>3 DEF PageInv, KickInv, Held
  <2>6. NoTabLeftOpen'
    BY <1>0, <2>1, <2>2 DEF NoTabLeftOpen, Reading
  <2> QED BY <2>3, <2>4, <2>5, <2>6 DEF Base
<1>11. CASE Send
  <2>1. /\ UNCHANGED <<current, pause, slot, stops, removed>>
        /\ kpc = "send" /\ ktab \in Tabs
        /\ page[ktab] # "none" => Held(ktab) /\ slot.age <= Loading /\ (Reading(ktab) \/ \E f \in fins : f.tab = ktab)
    BY <1>0, <1>11 DEF Send, KickInv
  <2>2. CASE /\ page[ktab] = "ready" /\ page' = [page EXCEPT ![ktab] = "reading"]
             /\ spent' = [spent EXCEPT ![ktab] = 0]
             /\ KickEnds /\ UNCHANGED fins
    <3>1. KickInv'
      BY <2>2, Typed DEF KickInv
    <3>2. FinInv'
      BY <1>0, <2>1, <2>2 DEF FinInv
    <3>3. PageInv'
      BY <1>0, <2>1, <2>2, Typed DEF PageInv, Held
    <3>4. NoTabLeftOpen'
      BY <1>0, <2>1, <2>2, Typed DEF NoTabLeftOpen, Reading
    <3> QED BY <3>1, <3>2, <3>3, <3>4 DEF Base
  <2>3. CASE FinishRead(ktab, "kick") /\ kpc' = "giveup" /\ UNCHANGED <<page, spent, seen, ktab>>
    <3>1. /\ fins \subseteq fins'
          /\ \A f \in fins' \ fins : f.tab = ktab /\ f.at = "clear" /\ Reading(ktab)
          /\ Reading(ktab) => \E f \in fins' : f.tab = ktab
      BY <2>3, Finishes
    <3>2. KickInv'
      BY <2>1, <2>3, <3>1 DEF KickInv
    <3>3. FinInv'
      BY <1>0, <2>1, <2>3, <3>1 DEF FinInv, Reading
    <3>4. PageInv'
      BY <1>0, <2>1, <2>3, <3>1 DEF PageInv, Held
    <3>5. NoTabLeftOpen'
      BY <1>0, <2>1, <2>3, <3>1 DEF NoTabLeftOpen, Reading
    <3> QED BY <3>2, <3>3, <3>4, <3>5 DEF Base
  <2> QED BY <1>11, <2>2, <2>3 DEF Send
<1> QED BY <1>1, <1>2, <1>3, <1>4, <1>5, <1>6, <1>7, <1>8, <1>9, <1>10, <1>11 DEF KickStep

LEMMA BaseNext ==
  ASSUME TypeOK, Base, [Next]_vars
  PROVE  Base'
<1> USE DEF stored, kick, pages, events, HasTab
<1>0. KickInv /\ FinInv /\ PageInv /\ NoTabLeftOpen
  BY DEF Base
<1>1. CASE (\E job \in Asks : Ask(job)) \/ AlarmFires \/ WorkerRests \/ UNCHANGED vars
  BY <1>1, BaseKept DEF Ask, AlarmFires, WorkerRests, vars
<1>2. CASE KickStep BY <1>2, BaseKick
<1>3. ASSUME NEW f \in fins, Clear(f) PROVE Base'
  <2>1. /\ UNCHANGED <<slot, stops, kpc, seen, ktab, page, spent, removed>>
        /\ current' = NoRead /\ pause' = 0
        /\ current # NoRead => f.tab = current.tab
    BY <1>0, <1>3 DEF Clear, FinInv
  <2>2. /\ \A h \in fins : \E g \in fins' : g.tab = h.tab
        /\ \A g \in fins' : \E h \in fins : g.tab = h.tab
    <3>1. PICK n : fins' = (fins \ {f}) \cup {[f EXCEPT !.at = "close", !.next = n]}
      BY <1>3 DEF Clear
    <3>2. f \in Finish
      BY DEF TypeOK
    <3>3. [f EXCEPT !.at = "close", !.next = n].tab = f.tab
      BY <3>2 DEF Finish
    <3> HIDE <1>3
    <3> QED BY <3>1, <3>3
  <2>3. KickInv'
    BY <1>0, <2>1, <2>2 DEF KickInv, Held, Reading
  <2>4. FinInv'
    BY <2>1 DEF FinInv
  <2>5. PageInv'
    BY <1>0, <2>1, <2>2 DEF PageInv, Held
  <2>6. NoTabLeftOpen'
    BY <1>0, <2>1, <2>2 DEF NoTabLeftOpen, Reading
  <2> QED BY <2>3, <2>4, <2>5, <2>6 DEF Base
<1>4. ASSUME NEW f \in fins, Close(f) PROVE Base'
  <2>1. /\ UNCHANGED <<current, pause, stops, kpc, seen, ktab, spent>>
        /\ fins' = fins \ {f}
        /\ page' = [page EXCEPT ![f.tab] = "none"] /\ f.tab \in Tabs
        /\ removed' \subseteq removed \cup {f.tab}
        /\ \A t : t # f.tab /\ Held(t) => slot' = slot
    BY <1>4, Typed, SlotKept DEF Close, Held
  <2>2. KickInv'
    BY <1>0, <2>1, Typed DEF KickInv, Held, Reading
  <2>3. FinInv'
    BY <1>0, <2>1 DEF FinInv
  <2>4. PageInv'
    BY <1>0, <2>1, Typed DEF PageInv, Held
  <2>5. NoTabLeftOpen'
    BY <1>0, <2>1, Typed DEF NoTabLeftOpen, Reading
  <2> QED BY <2>2, <2>3, <2>4, <2>5 DEF Base
<1>5. ASSUME NEW t \in Tabs, Reported(t) \/ TabRemoved(t) PROVE Base'
  <2>1. /\ UNCHANGED <<current, pause, stops, kpc, seen, ktab, page, spent>>
        /\ removed' \subseteq removed
        /\ \A u : (u \in Tabs => page[u] # "none") /\ Held(u) => slot' = slot
    <3>1. CASE Reported(t) BY <3>1 DEF Reported
    <3>2. CASE TabRemoved(t)
      <4>1. page[t] = "none"
        BY <1>0, <3>2 DEF TabRemoved, PageInv
      <4> QED BY <3>2, <4>1, SlotKept DEF TabRemoved, Held
    <3> QED BY <1>5, <3>1, <3>2
  <2>2. fins \subseteq fins' /\ \A f \in fins' \ fins : f.tab = t /\ f.at = "clear" /\ Reading(t)
    BY <1>5, Finishes DEF Reported, TabRemoved
  <2>3. KickInv'
    BY <1>0, <2>1, <2>2, Typed DEF KickInv, Held, Reading
  <2>4. FinInv'
    BY <1>0, <2>1, <2>2 DEF FinInv, Reading
  <2>5. PageInv'
    BY <1>0, <2>1, <2>2 DEF PageInv, Held
  <2>6. NoTabLeftOpen'
    BY <1>0, <2>1, <2>2 DEF NoTabLeftOpen, Reading
  <2> QED BY <2>3, <2>4, <2>5, <2>6 DEF Base
<1>6. ASSUME NEW t \in Tabs, PageLoads(t) \/ PageReports(t) \/ PageDies(t) \/ UserCloses(t) PROVE Base'
  <2>1. /\ UNCHANGED <<current, pause, slot, stops, kpc, seen, ktab, fins, spent>>
        /\ \/ page[t] # "none" /\ page' = [page EXCEPT ![t] = "ready"] /\ removed' = removed
           \/ page' = [page EXCEPT ![t] = "none"] /\ removed' = removed \cup {t}
    BY <1>6 DEF PageLoads, PageReports, PageDies, UserCloses
  <2>2. KickInv'
    BY <1>0, <2>1, Typed DEF KickInv, Held, Reading
  <2>3. FinInv'
    BY <1>0, <2>1 DEF FinInv
  <2>4. PageInv'
    BY <1>0, <2>1, Typed DEF PageInv, Held
  <2>5. NoTabLeftOpen'
    BY <1>0, <2>1, Typed DEF NoTabLeftOpen, Reading
  <2> QED BY <2>2, <2>3, <2>4, <2>5 DEF Base
<1>7. CASE OtherTakes \/ OtherEnds
  <2>1. /\ UNCHANGED <<current, pause, stops, kpc, seen, ktab, fins, page, spent, removed>>
        /\ \A t : Held(t) /\ slot.age <= Loading + Cap => slot' = slot
    <3>1. CASE OtherTakes
      BY <3>1, NotFree DEF OtherTakes
    <3>2. CASE OtherEnds
      BY <3>2, SlotKept DEF OtherEnds, Held
    <3> QED BY <1>7, <3>1, <3>2 DEF OtherTakes, OtherEnds
  <2>2. \A t : Held(t) => slot.age \in Nat
    BY Typed DEF Held, HeldBy, SlotValues
  <2>3. KickInv'
    <3>1. \A t : Held(t) /\ slot.age <= Loading => slot' = slot
      BY <2>1, <2>2, Typed
    <3>2. \A t : Held(t) /\ slot.age = 0 => slot' = slot
      BY <3>1, Typed
    <3> QED BY <1>0, <2>1, <3>1, <3>2 DEF KickInv, Held, Reading
  <2>4. FinInv'
    BY <1>0, <2>1 DEF FinInv
  <2>5. PageInv'
    BY <1>0, <2>1, <2>2, Typed DEF PageInv, Held
  <2>6. NoTabLeftOpen'
    BY <1>0, <2>1 DEF NoTabLeftOpen, Reading
  <2> QED BY <2>3, <2>4, <2>5, <2>6 DEF Base
<1>8. CASE WorkerStops
  <2>1. /\ UNCHANGED <<current, pause, slot, page, spent, removed>>
        /\ kpc' = "idle" /\ ktab' = NoTab /\ fins' = {} /\ stops' = stops + 1
    BY <1>8 DEF WorkerStops, KickEnds
  <2>2. stops' # 0
    <3>1. stops \in Nat
      BY Given DEF TypeOK
    <3> QED BY <2>1, <3>1
  <2>3. KickInv'
    BY <2>1, Typed DEF KickInv
  <2>4. FinInv'
    BY <2>1 DEF FinInv
  <2>5. PageInv'
    BY <1>0, <2>1, <2>2 DEF PageInv, Held
  <2>6. NoTabLeftOpen'
    BY <2>2 DEF NoTabLeftOpen
  <2> QED BY <2>3, <2>4, <2>5, <2>6 DEF Base
<1>9. CASE Tick
  <2>1. /\ UNCHANGED <<stops, kpc, seen, ktab, fins, page, removed>> /\ fins = {}
        /\ kpc = "idle" \/ (kpc = "load" /\ page[ktab] = "loading" /\ spent[ktab] < Loading)
        /\ \A t \in Tabs : page[t] = "reading" => spent[t] < Cap
    BY <1>9 DEF Tick, Settled
  <2>2. (current' = NoRead <=> current = NoRead) /\ (current # NoRead => current'.tab = current.tab)
    <3>1. CASE current # NoRead /\ ~ TimedOut(current)
      <4>1. current \in [post : Posts, kind : Kinds, tab : Tabs, age : 0..VisibleLimit]
        BY <3>1 DEF TypeOK
      <4>2. current' = [current EXCEPT !.age = current.age + 1]
        BY <1>9, <3>1 DEF Tick
      <4>3. current' \in [post : Posts, kind : Kinds, tab : Tabs, age : 0..VisibleLimit] \/ current'.age \notin 0..VisibleLimit
        BY <4>1, <4>2
      <4>4. current.age + 1 \in 0..VisibleLimit
        BY Given, <3>1, <4>1, LimitType DEF TimedOut
      <4> QED BY <3>1, <4>1, <4>2, <4>4, Given
    <3> QED BY <1>9, <3>1 DEF Tick
  <2>3. /\ \A t : Held(t) => /\ HeldBy(slot', Reader, t) /\ slot.age \in Nat
                             /\ slot'.age \in {slot.age, slot.age + 1}
    BY <1>9, OlderType, Typed DEF Tick, Held, HeldBy
  <2>4. \A t \in Tabs : spent'[t] = IF \/ page[t] = "reading"
                                       \/ page[t] = "loading" /\ spent[t] < Loading
                                    THEN spent[t] + 1 ELSE spent[t]
    BY <1>9 DEF Tick
  <2>5. KickInv'
    <3>1. CASE kpc = "idle"
      BY <1>0, <2>1, <3>1 DEF KickInv
    <3>2. CASE kpc = "load" /\ page[ktab] = "loading" /\ spent[ktab] < Loading
      <4>1. ktab \in Tabs /\ Held(ktab) /\ slot.age <= spent[ktab] /\ Reading(ktab)
        BY <1>0, <2>1, <3>2 DEF KickInv
      <4>2. HeldBy(slot', Reader, ktab) /\ slot'.age <= spent'[ktab] /\ spent'[ktab] <= Loading /\ slot'.age <= Loading
        BY <2>3, <2>4, <3>2, <4>1, Typed
      <4> QED BY <1>0, <2>1, <2>2, <3>2, <4>1, <4>2 DEF KickInv, Reading, Held
    <3> QED BY <2>1, <3>1, <3>2
  <2>6. FinInv'
    BY <2>1 DEF FinInv
  <2>7. PageInv'
    <3> SUFFICES ASSUME NEW t \in Tabs
                 PROVE  /\ t \in removed => page[t] = "none"
                        /\ page[t] = "reading" => /\ HeldBy(slot', Reader, t)
                                                  /\ spent'[t] <= Cap /\ slot'.age <= Loading + spent'[t]
                        /\ stops = 0 /\ page[t] = "loading" => ktab = t /\ kpc = "load"
      BY <2>1 DEF PageInv, Held
    <3>1. CASE page[t] = "reading"
      <4>1. Held(t) /\ slot.age <= Loading + spent[t] /\ t \notin removed
        BY <1>0, <3>1 DEF PageInv
      <4> QED BY <2>1, <2>3, <2>4, <3>1, <4>1, Typed
    <3>2. CASE page[t] # "reading"
      BY <1>0, <2>1, <3>2 DEF PageInv
    <3> QED BY <3>1, <3>2
  <2>8. NoTabLeftOpen'
    BY <1>0, <2>1, <2>2 DEF NoTabLeftOpen, Reading
  <2> QED BY <2>5, <2>6, <2>7, <2>8 DEF Base
<1> QED BY <1>1, <1>2, <1>3, <1>4, <1>5, <1>6, <1>7, <1>8, <1>9
     DEF Next, FinishStep, Event, PageStep

LEMMA ReaderIsSound == Spec => []ReaderInv
<1> USE DEF ReaderInv
<1>1. Init => ReaderInv
  <2> SUFFICES ASSUME Init PROVE TypeOK /\ Base
    OBVIOUS
  <2>0. <<>> \in Seq(Jobs)
    OBVIOUS
  <2>1. TypeOK
    <3>1. stops \in 0..MaxStops /\ pause \in 0..Gap
      BY Given DEF Init
    <3> QED BY <2>0, <3>1, SlotStays DEF Init, TypeOK, KickSteps, SlotValues
  <2>2. Base
    BY Typed, <2>1 DEF Init, Base, KickInv, FinInv, PageInv, NoTabLeftOpen, HasTab
  <2> QED BY <2>1, <2>2
<1>2. ReaderInv /\ [Next]_vars => ReaderInv'
  <2>1. Base => SeenInv
    BY DEF Base, KickInv, SeenInv
  <2> QED BY <2>1, TypeNext, BaseNext
<1> QED BY <1>1, <1>2, PTL DEF Spec

\* Each variable of the reader keeps its type.
THEOREM TypeCorrect == Spec => []TypeOK
<1>1. ReaderInv => TypeOK
  BY DEF ReaderInv
<1> QED BY <1>1, ReaderIsSound, PTL

\* Every read takes the one Facebook slot first (reader.ts:13), also when the worker
\* that started it has stopped: a page reads only under the slot, loads only under it
\* as long as the worker runs, and no tab the reader opened is forgotten.
THEOREM TabsAreAccountedFor == Spec => []TabsAccountedFor
<1>1. ReaderInv => TabsAccountedFor
  <2> SUFFICES ASSUME ReaderInv PROVE TabsAccountedFor
    OBVIOUS
  <2>0. KickInv /\ PageInv /\ NoTabLeftOpen
    BY DEF ReaderInv, Base
  <2>1. ReadsWithSlot
    BY <2>0 DEF ReadsWithSlot, PageInv, Held
  <2>2. LoadsWithSlot
    BY <2>0 DEF LoadsWithSlot, PageInv, KickInv, Held
  <2> QED BY <2>0, <2>1, <2>2 DEF TabsAccountedFor
<1> QED BY <1>1, ReaderIsSound, PTL

-----------------------------------------------------------------------------
(* The queue *)

LEMMA KeptIsDrawn ==
  ASSUME NEW q \in Seq(Jobs), NEW S
  PROVE  /\ Kept(q, S) \in Seq(Jobs)
         /\ \A k \in 1..Len(Kept(q, S)) :
              Kept(q, S)[k] \in S /\ \E i \in 1..Len(q) : Kept(q, S)[k] = q[i]
         /\ Distinct(q) => Distinct(Kept(q, S))
<1> DEFINE r == Kept(q, S)
           place(k) == Nth(Spots(q, S), k)
<1>1. /\ r \in Seq(Jobs)
      /\ \A k \in 1..Len(r) : place(k) \in 1..Len(q) /\ q[place(k)] \in S /\ r[k] = q[place(k)]
      /\ \A k, l \in 1..Len(r) : k < l => place(k) < place(l)
  BY KeptOf
<1> HIDE DEF r, place
<1>2. ASSUME Distinct(q), NEW k \in 1..Len(r), NEW l \in 1..Len(r), r[k].post = r[l].post PROVE k = l
  <2>1. place(k) = place(l)
    BY <1>1, <1>2 DEF Distinct
  <2>2. ~ (k < l) /\ ~ (l < k)
    BY <1>1, <2>1
  <2> QED BY <1>1, <2>2
<1>3. Distinct(q) => Distinct(r)
  BY <1>2 DEF Distinct
<1>4. \A k \in 1..Len(r) : r[k] \in S /\ \E i \in 1..Len(q) : r[k] = q[i]
  BY <1>1
<1> QED BY <1>1, <1>3, <1>4 DEF r

LEMMA ClicksFirstOrders ==
  ASSUME NEW q \in Seq(Jobs), Distinct(q)
  PROVE  /\ Distinct(ClicksFirst(q)) /\ Sorted(ClicksFirst(q))
         /\ \A k \in 1..Len(ClicksFirst(q)) : \E i \in 1..Len(q) : ClicksFirst(q)[k] = q[i]
<1> DEFINE others == Jobs \ Clicks
           A == Kept(q, Clicks)
           B == Kept(q, others)
           r == ClicksFirst(q)
<1>0. \A j \in Jobs : (j \in Clicks <=> Click(j)) /\ (j \in others <=> ~ Click(j))
  BY DEF Clicks
<1> HIDE DEF others
<1>1. /\ A \in Seq(Jobs) /\ Distinct(A)
      /\ \A k \in 1..Len(A) : A[k] \in Clicks /\ \E i \in 1..Len(q) : A[k] = q[i]
  BY KeptIsDrawn
<1>2. /\ B \in Seq(Jobs) /\ Distinct(B)
      /\ \A k \in 1..Len(B) : B[k] \in others /\ \E i \in 1..Len(q) : B[k] = q[i]
  BY KeptIsDrawn
<1>3. r = A \o B
  BY DEF ClicksFirst, others
<1> HIDE DEF A, B, r
<1>4. /\ Len(r) = Len(A) + Len(B) /\ Len(A) \in Nat /\ Len(B) \in Nat
      /\ \A k \in 1..Len(A) : r[k] = A[k]
      /\ \A k \in 1..Len(r) : ~ (k <= Len(A)) => k - Len(A) \in 1..Len(B) /\ r[k] = B[k - Len(A)]
  BY <1>1, <1>2, <1>3
<1>5. ASSUME NEW k \in 1..Len(r)
      PROVE  /\ \E i \in 1..Len(q) : r[k] = q[i]
             /\ Click(r[k]) <=> k <= Len(A)
  <2>1. CASE k <= Len(A)
    <3>1. k \in 1..Len(A)
      BY <1>4, <2>1
    <3>2. r[k] = A[k] /\ A[k] \in Jobs
      BY <1>1, <1>4, <3>1
    <3> QED BY <1>0, <1>1, <2>1, <3>1, <3>2
  <2>2. CASE ~ (k <= Len(A))
    <3>1. k - Len(A) \in 1..Len(B) /\ r[k] = B[k - Len(A)]
      BY <1>4, <2>2
    <3>2. B[k - Len(A)] \in Jobs
      BY <1>2, <3>1
    <3> QED BY <1>0, <1>2, <2>2, <3>1, <3>2
  <2> QED BY <2>1, <2>2
<1>6. \A k \in 1..Len(r) : Click(r[k]) <=> k <= Len(A)
  BY <1>5
<1>7. Sorted(r)
  BY <1>4, <1>6 DEF Sorted
<1>8. ASSUME NEW k \in 1..Len(r), NEW l \in 1..Len(r), r[k].post = r[l].post PROVE k = l
  <2>1. r[k] = r[l]
    BY <1>5, <1>8 DEF Distinct
  <2>2. k <= Len(A) <=> l <= Len(A)
    BY <1>6, <2>1
  <2>3. CASE k <= Len(A)
    BY <1>1, <1>4, <1>8, <2>2, <2>3 DEF Distinct
  <2>4. CASE ~ (k <= Len(A))
    <3>1. /\ k - Len(A) \in 1..Len(B) /\ l - Len(A) \in 1..Len(B)
          /\ r[k] = B[k - Len(A)] /\ r[l] = B[l - Len(A)]
      BY <1>4, <2>2, <2>4
    <3>2. k - Len(A) = l - Len(A)
      BY <1>2, <1>8, <3>1 DEF Distinct
    <3> QED BY <1>4, <3>2
  <2> QED BY <2>3, <2>4
<1>9. Distinct(r)
  BY <1>8 DEF Distinct
<1> QED BY <1>5, <1>7, <1>9 DEF r

\* What remains after the first job.
LEMMA RestIsSound ==
  ASSUME NEW q \in Seq(Jobs), q # <<>>, Distinct(q), Sorted(q)
  PROVE  /\ Tail(q) \in Seq(Jobs) /\ Distinct(Tail(q)) /\ Sorted(Tail(q))
         /\ \A k \in 1..Len(Tail(q)) : Tail(q)[k].post # Head(q).post
<1>1. /\ Tail(q) \in Seq(Jobs) /\ Len(Tail(q)) = Len(q) - 1 /\ Len(q) \in Nat /\ Len(q) >= 1
      /\ \A k \in 1..Len(Tail(q)) : Tail(q)[k] = q[k + 1] /\ k + 1 \in 1..Len(q)
      /\ Head(q) = q[1] /\ 1 \in 1..Len(q)
  OBVIOUS
<1>2. Distinct(Tail(q))
  <2>1. \A k, l \in 1..Len(Tail(q)) : q[k + 1].post = q[l + 1].post => k + 1 = l + 1
    BY <1>1 DEF Distinct
  <2>2. \A k, l \in 1..Len(Tail(q)) : k + 1 = l + 1 => k = l
    BY <1>1
  <2> QED BY <1>1, <2>1, <2>2 DEF Distinct
<1>3. Sorted(Tail(q))
  <2>1. \A k, l \in 1..Len(Tail(q)) : k < l => k + 1 < l + 1
    BY <1>1
  <2> QED BY <1>1, <2>1 DEF Sorted
<1>4. \A k \in 1..Len(Tail(q)) : q[k + 1].post # q[1].post
  <2>1. \A k \in 1..Len(Tail(q)) : k + 1 # 1
    BY <1>1
  <2> QED BY <1>1, <2>1 DEF Distinct
<1> QED BY <1>1, <1>2, <1>3, <1>4

LEMMA QueueNext ==
  ASSUME TypeOK, KickInv, QueueInv, [Next]_vars
  PROVE  QueueInv'
<1> USE DEF stored, kick, pages, events
<1>0. /\ queue \in Seq(Jobs) /\ seen \in Seq(Jobs)
      /\ Distinct(<<>>) /\ Sorted(<<>>)
  BY DEF TypeOK, Distinct, Sorted
<1>1. ASSUME NEW job \in Asks, Ask(job) PROVE QueueInv'
  <2> DEFINE S == {j \in Jobs : j.post # job.post}
             q == Kept(queue, S)
             r == Append(q, job)
  <2>1. CASE Adds(job)
    <3>1. queue' = ClicksFirst(r) /\ seen' = seen /\ current' = current
      BY <1>1, <2>1 DEF Ask
    <3>2. job \in Jobs
      BY Given
    <3>3. /\ q \in Seq(Jobs) /\ Distinct(q)
          /\ \A k \in 1..Len(q) : q[k].post # job.post /\ \E i \in 1..Len(queue) : q[k] = queue[i]
      <4>1. \A j \in S : j.post # job.post
        OBVIOUS
      <4> HIDE DEF S
      <4> QED BY <1>0, <4>1, KeptIsDrawn DEF QueueInv
    <3> HIDE DEF q
    <3>4. /\ r \in Seq(Jobs) /\ Len(r) = Len(q) + 1 /\ Len(q) \in Nat
          /\ \A k \in 1..Len(q) : r[k] = q[k]
          /\ r[Len(q) + 1] = job
          /\ \A k \in 1..Len(r) : k \in 1..Len(q) \/ k = Len(q) + 1
      BY <3>2, <3>3
    <3> HIDE DEF r
    <3>5. Distinct(r)
      BY <3>3, <3>4 DEF Distinct
    <3>6. /\ Distinct(queue') /\ Sorted(queue')
          /\ \A k \in 1..Len(queue') : \E i \in 1..Len(r) : queue'[k] = r[i]
      BY <3>1, <3>4, <3>5, ClicksFirstOrders
    <3>7. current # NoRead => \A k \in 1..Len(queue') : queue'[k].post # current.post
      <4>1. current # NoRead => current.post # job.post /\ \A i \in 1..Len(queue) : queue[i].post # current.post
        BY <2>1 DEF Adds, QueueInv, Queued
      <4>2. \A i \in 1..Len(r) : r[i] = job \/ \E h \in 1..Len(queue) : r[i] = queue[h]
        BY <3>3, <3>4
      <4> QED BY <3>6, <4>1, <4>2
    <3> QED BY <3>1, <3>6, <3>7 DEF QueueInv, Queued
  <2>2. CASE ~ Adds(job)
    BY <1>1, <2>2 DEF Ask, QueueInv, Queued
  <2> QED BY <2>1, <2>2
<1>2. CASE KickStep
  <2>1. CASE Kick \/ LookAtCurrent \/ Acquire \/ Open \/ Move \/ Arm \/ Load \/ Send \/ AfterFinish
    <3>1. UNCHANGED <<queue, current>> /\ seen' \in {seen, <<>>}
      BY <2>1 DEF Kick, LookAtCurrent, Acquire, Open, Move, Arm, Load, Send, AfterFinish, KickEnds
    <3> QED BY <1>0, <3>1 DEF QueueInv, Queued
  <2>2. CASE LookAtQueue
    <3>1. UNCHANGED <<queue, current>> /\ seen' \in {seen, queue}
      BY <2>2 DEF LookAtQueue
    <3> QED BY <3>1 DEF QueueInv, Queued
  <2>3. CASE Query
    <3>1. CASE UNCHANGED <<queue, seen>>
      BY <2>3, <3>1 DEF Query, QueueInv, Queued
    <3>2. CASE queue' = Kept(Tail(seen), Clicks) /\ seen' = <<>>
      <4>1. current' = NoRead /\ seen # <<>>
        BY <2>3 DEF Query, KickInv
      <4>2. Tail(seen) \in Seq(Jobs) /\ Distinct(Tail(seen))
        BY <1>0, <4>1, RestIsSound DEF QueueInv
      <4>3. Distinct(queue') /\ \A k \in 1..Len(queue') : queue'[k] \in Clicks
        BY <3>2, <4>2, KeptIsDrawn
      <4>4. Sorted(queue')
        BY <4>3 DEF Sorted, Clicks
      <4> QED BY <1>0, <3>2, <4>1, <4>3, <4>4 DEF QueueInv
    <3> QED BY <2>3, <3>1, <3>2 DEF Query
  <2>4. CASE NoTabOpened \/ Record
    <3>1. seen # <<>> /\ queue' = Tail(seen) /\ seen' \in {seen, <<>>}
      BY <2>4 DEF NoTabOpened, Record, KickEnds, KickInv
    <3>2. current' # NoRead => current'.post = Head(seen).post
      BY <2>4 DEF NoTabOpened, Record, KickInv
    <3> QED BY <1>0, <3>1, <3>2, RestIsSound DEF QueueInv, Queued
  <2> QED BY <1>2, <2>1, <2>2, <2>3, <2>4 DEF KickStep
<1>3. CASE FinishStep \/ Event \/ PageStep \/ OtherTakes \/ OtherEnds \/ WorkerRests \/ WorkerStops
  <2>1. UNCHANGED queue /\ seen' \in {seen, <<>>} /\ current' \in {current, NoRead}
    BY <1>3 DEF FinishStep, Clear, Close, Event, AlarmFires, Reported, TabRemoved, PageStep,
                PageLoads, PageReports, PageDies, UserCloses, OtherTakes, OtherEnds, WorkerRests,
                WorkerStops, KickEnds
  <2> QED BY <1>0, <2>1 DEF QueueInv, Queued
<1>4. CASE Tick
  <2>1. UNCHANGED <<queue, seen>>
    BY <1>4 DEF Tick
  <2>2. current' # NoRead => current # NoRead /\ current'.post = current.post
    <3>1. CASE current # NoRead /\ ~ TimedOut(current)
      <4>1. current \in [post : Posts, kind : Kinds, tab : Tabs, age : 0..VisibleLimit]
        BY <3>1 DEF TypeOK
      <4>2. current' = [current EXCEPT !.age = current.age + 1]
        BY <1>4, <3>1 DEF Tick
      <4> QED BY <3>1, <4>1, <4>2
    <3> QED BY <1>4, <3>1 DEF Tick
  <2> QED BY <2>1, <2>2 DEF QueueInv, Queued
<1>5. CASE UNCHANGED vars
  BY <1>5 DEF vars, QueueInv, Queued
<1> QED BY <1>1, <1>2, <1>3, <1>4, <1>5 DEF Next

\* No post is queued twice, or queued while it is being read, and clicks go first
\* (enqueueReads(), reader.ts:64-91), although a kick writes back the queue as it was
\* when it looked.
THEOREM QueueStaysInOrder == Spec => []QueueInOrder
<1>1. Init => QueueInv
  BY DEF Init, QueueInv, Distinct, Sorted
<1>2. ReaderInv /\ QueueInv /\ [Next]_vars => QueueInv'
  BY QueueNext DEF ReaderInv, Base
<1>3. QueueInv => QueueInOrder
  BY DEF QueueInv, QueueInOrder, NoPostTwice, ClicksGoFirst, Distinct, Sorted
<1> QED BY <1>1, <1>2, <1>3, ReaderIsSound, PTL DEF Spec

-----------------------------------------------------------------------------
(* The pause between automatic reads *)

\* A kick that found the pause over is the only one who can end it: as long as it is
\* at work no read is current, and a finishRead() that has still to clear one found
\* the pause begun.
LEMMA PaceNext ==
  ASSUME TypeOK, Base, PaceInv, [Next]_vars
  PROVE  PaceInv'
<1> USE DEF stored, kick, pages, events, Goto
<1>0. KickInv /\ FinInv
  BY DEF Base
<1>1. CASE KickStep
  <2>1. CASE LookAtQueue
    <3>1. CASE queue # <<>> /\ seen' = queue /\ UNCHANGED pause /\ (Click(Head(queue)) \/ pause >= Gap)
      BY <3>1 DEF PaceInv
    <3> QED BY <2>1, <3>1 DEF LookAtQueue, PaceInv
  <2>2. CASE Query \/ Acquire
    BY <2>2 DEF Query, Acquire, PaceInv
  <2>3. CASE Kick \/ LookAtCurrent \/ Open \/ NoTabOpened \/ Move \/ Record \/ Arm \/ Load \/ Send \/ AfterFinish
    <3>1. kpc' \notin {"query", "acquire", "open"}
      BY <2>3 DEF Kick, LookAtCurrent, Open, NoTabOpened, Move, Record, Arm, Load, Send, AfterFinish, KickEnds
    <3> QED BY <3>1 DEF PaceInv
  <2> QED BY <1>1, <2>1, <2>2, <2>3 DEF KickStep
<1>2. ASSUME NEW f \in fins, Clear(f) PROVE PaceInv'
  <2>1. CASE kpc \in {"query", "acquire", "open"}
    <3>1. pause = 0
      BY <1>0, <1>2, <2>1 DEF KickInv, FinInv, Clear
    <3>2. Click(Head(seen))
      BY <2>1, <3>1, Given DEF PaceInv
    <3> QED BY <1>2, <3>2 DEF Clear, PaceInv
  <2> QED BY <1>2, <2>1 DEF Clear, PaceInv
<1>3. ASSUME NEW f \in fins, Close(f) PROVE PaceInv'
  BY <1>3 DEF Close, PaceInv
<1>4. CASE (\E job \in Asks : Ask(job)) \/ Event \/ PageStep \/ OtherTakes \/ OtherEnds \/ WorkerRests
  <2>1. UNCHANGED <<pause, kpc, seen>>
    BY <1>4 DEF Ask, Event, AlarmFires, Reported, TabRemoved, PageStep,
                PageLoads, PageReports, PageDies, UserCloses, OtherTakes, OtherEnds, WorkerRests
  <2> QED BY <2>1 DEF PaceInv
<1>5. CASE WorkerStops \/ Tick
  <2>1. kpc' \in {"idle", "load"}
    BY <1>5 DEF WorkerStops, KickEnds, Tick, Settled
  <2> QED BY <2>1 DEF PaceInv
<1>6. CASE UNCHANGED vars BY <1>6 DEF vars, PaceInv
<1> QED BY <1>1, <1>2, <1>3, <1>4, <1>5, <1>6 DEF Next, FinishStep

\* "Automatic re-reads are paced" (reader.ts): the pause a kick found over is still
\* over when it opens the tab, whatever finishRead() did in between.
THEOREM ReadsArePaced == Spec => Paced
<1>1. Init => PaceInv
  BY DEF Init, PaceInv
<1>2. ReaderInv /\ PaceInv /\ [Next]_vars => PaceInv'
  BY PaceNext DEF ReaderInv
<1>3. PaceInv => (kpc = "open" /\ kpc' = "move" /\ ~ Click(Head(seen)) => pause >= Gap)
  BY DEF PaceInv
<1>4. PaceInv => [kpc = "open" /\ kpc' = "move" /\ ~ Click(Head(seen)) => pause >= Gap]_vars
  BY <1>3
<1> QED BY <1>1, <1>2, <1>4, ReaderIsSound, PTL DEF Spec, Paced

-----------------------------------------------------------------------------
(* What is in flight or queued goes on *)

LEMMA CurrentType ==
  ASSUME TypeOK, current # NoRead
  PROVE  /\ current \in [post : Posts, kind : Kinds, tab : Tabs, age : 0..VisibleLimit]
         /\ current.age \in Nat /\ current.tab \in Tabs
         /\ LimitOf(current) \in 1..VisibleLimit /\ VisibleLimit \in Nat
BY LimitType, Given DEF TypeOK

LEMMA AlarmType ==
  ASSUME TypeOK, current # NoRead, current.age <= LimitOf(current),
         alarm = LimitOf(current) - current.age
  PROVE  alarm \in Nat /\ alarm # NoAlarm
<1>1. LimitOf(current) - current.age \in 0..VisibleLimit
  BY CurrentType
<1> QED BY <1>1, Given

\* An hour's steps: the read in flight gets older until it has timed out.
LEMMA Ages ==
  ASSUME TypeOK, Tick
  PROVE  /\ current' = NoRead <=> current = NoRead
         /\ current # NoRead => /\ current'.tab = current.tab /\ current'.kind = current.kind
                                /\ LimitOf(current') = LimitOf(current)
                                /\ ~ TimedOut(current) => current'.age = current.age + 1
                                /\ TimedOut(current) => current' = current
<1>1. CASE current # NoRead /\ ~ TimedOut(current)
  <2>1. current' = [current EXCEPT !.age = current.age + 1]
    BY <1>1 DEF Tick
  <2>2. current' \in [post : Posts, kind : Kinds, tab : Tabs, age : 0..VisibleLimit]
    <3>1. current.age + 1 \in 0..VisibleLimit
      BY <1>1, CurrentType DEF TimedOut
    <3> QED BY <1>1, <2>1, <3>1, CurrentType
  <2>3. current'.tab = current.tab /\ current'.kind = current.kind /\ current'.age = current.age + 1
    BY <1>1, <2>1, CurrentType
  <2> QED BY <1>1, <2>2, <2>3, Given DEF LimitOf, Visible
<1> QED BY <1>1 DEF Tick

LEMMA Unexpired ==
  ASSUME TypeOK, NEW t, Held(t), slot.age <= Limit[Reader]
  PROVE  ~ Free(slot)
<1>1. slot # NoSlot /\ slot.holder = Reader /\ slot.age \in Nat
  BY DEF Held, HeldBy, TypeOK, SlotValues
<1> QED BY <1>1, Given DEF Free, Expired

LEMMA RunningNext ==
  ASSUME TypeOK, Running, ~ Mishap, [Next]_vars
  PROVE  Running'
<1> USE DEF Goto, KickEnds, stored, kick, pages, events, Running
<1>1. ~ WorkerStops
  BY DEF Mishap
<1>2. CASE KickStep
  <2>1. stops' = stops /\ (kpc' = "notab" => kpc = "open" /\ seen' = seen)
    BY <1>2 DEF KickStep, Kick, LookAtCurrent, LookAtQueue, Query, Acquire, Open, NoTabOpened,
                Move, Record, Arm, Load, Send, AfterFinish
  <2> QED BY <2>1 DEF Mishap
<1>3. CASE \/ (\E job \in Asks : Ask(job)) \/ FinishStep \/ Event \/ PageStep
           \/ OtherTakes \/ OtherEnds \/ WorkerRests \/ Tick
  BY <1>3 DEF Ask, FinishStep, Clear, Close, Event, AlarmFires, Reported, TabRemoved, PageStep,
              PageLoads, PageReports, PageDies, UserCloses, OtherTakes, OtherEnds, WorkerRests, Tick
<1> QED BY <1>1, <1>2, <1>3 DEF Next, vars

LEMMA KeepsSlotNext ==
  ASSUME TypeOK, Base, GoingOn, ~ Mishap, [Next]_vars
  PROVE  KeepsSlot'
<1> USE DEF Goto, KickEnds, stored, kick, pages, events, HasTab
<1>0. KickInv /\ FinInv /\ PageInv /\ Running /\ Armed /\ KeepsSlot
  BY DEF Base, GoingOn
<1>1. CASE KickStep
  <2>1. CASE kpc \in {"query", "acquire", "open", "notab", "move"}
    <3>1. current' = NoRead
      BY <1>0, <1>1, <2>1 DEF KickInv, KickStep, Kick, LookAtCurrent, LookAtQueue, Query, Acquire, Open,
                              NoTabOpened, Move, Record, Arm, Load, Send, AfterFinish
    <3> QED BY <3>1 DEF KeepsSlot
  <2>2. CASE Record
    <3>1. /\ UNCHANGED <<slot, page>> /\ ktab \in Tabs
          /\ page[ktab] # "none" => Held(ktab) /\ slot.age = 0
          /\ kpc' = "arm" /\ seen' = seen /\ seen # <<>>
          /\ current' = [post |-> Head(seen).post, kind |-> Head(seen).kind, tab |-> ktab, age |-> 0]
      BY <1>0, <2>2 DEF Record, KickInv
    <3>2. LimitOf(current') \in 1..VisibleLimit
      BY LimitType
    <3>3. current'.tab = ktab /\ current'.age = 0 /\ current'.kind = Head(seen).kind
      BY <3>1
    <3>4. KeepsSlot'
      BY <3>1, <3>2, <3>3, Given DEF KeepsSlot, Held
    <3> QED BY <3>4
  <2>3. CASE Kick \/ LookAtCurrent \/ LookAtQueue \/ Arm \/ Load \/ AfterFinish
    <3>1. UNCHANGED <<current, slot, page>> /\ kpc' # "arm"
      BY <2>3 DEF Kick, LookAtCurrent, LookAtQueue, Arm, Load, AfterFinish
    <3> QED BY <1>0, <3>1 DEF KeepsSlot, Held
  <2>4. CASE Send
    <3>1. UNCHANGED <<current, slot>> /\ kpc' # "arm"
          /\ (page' = page \/ (page[ktab] # "none" /\ page' = [page EXCEPT ![ktab] = "reading"]))
      BY <2>4 DEF Send
    <3>2. \A t \in Tabs : page'[t] # "none" => page[t] # "none"
      BY <3>1, Typed
    <3> QED BY <1>0, <3>1, <3>2, CurrentType DEF KeepsSlot, Held
  <2> QED BY <1>1, <2>1, <2>2, <2>3, <2>4 DEF KickStep, Query, Acquire, Open, NoTabOpened, Move
<1>2. ASSUME NEW f \in fins, Clear(f) PROVE KeepsSlot'
  BY <1>2 DEF Clear, KeepsSlot
<1>3. ASSUME NEW f \in fins, Close(f) PROVE KeepsSlot'
  <2>1. /\ UNCHANGED <<current, kpc, seen>> /\ f.tab \in Tabs
        /\ page' = [page EXCEPT ![f.tab] = "none"]
        /\ \A t : t # f.tab /\ Held(t) => slot' = slot
        /\ current # NoRead => f.tab # current.tab
    BY <1>0, <1>3, Typed, SlotKept DEF Close, Held, FinInv
  <2> QED BY <1>0, <2>1, Typed DEF KeepsSlot, Held
<1>4. CASE (\E job \in Asks : Ask(job)) \/ AlarmFires \/ WorkerRests \/ UNCHANGED vars
  <2>1. UNCHANGED <<current, kpc, seen, slot, page>>
    BY <1>4 DEF Ask, AlarmFires, WorkerRests, vars
  <2> QED BY <1>0, <2>1 DEF KeepsSlot, Held
<1>5. ASSUME NEW t \in Tabs, Reported(t) \/ TabRemoved(t) PROVE KeepsSlot'
  <2>1. UNCHANGED <<current, kpc, seen, page>> /\ (slot' = slot \/ (slot' = TabReleased(slot, t) /\ page[t] = "none"))
    BY <1>0, <1>5 DEF Reported, TabRemoved, PageInv
  <2>2. \A u : u # t /\ Held(u) => slot' = slot
    BY <2>1, SlotKept DEF Held
  <2> QED BY <1>0, <2>1, <2>2 DEF KeepsSlot, Held
<1>6. ASSUME NEW t \in Tabs, PageLoads(t) \/ PageReports(t) \/ PageDies(t) \/ UserCloses(t) PROVE KeepsSlot'
  <2>1. /\ UNCHANGED <<current, kpc, seen, slot>>
        /\ \/ page[t] # "none" /\ page' = [page EXCEPT ![t] = "ready"]
           \/ page' = [page EXCEPT ![t] = "none"]
    BY <1>6 DEF PageLoads, PageReports, PageDies, UserCloses
  <2>2. \A u \in Tabs : page'[u] # "none" => page[u] # "none"
    BY <2>1, Typed
  <2> QED BY <1>0, <2>1, <2>2, CurrentType DEF KeepsSlot, Held
<1>7. CASE OtherTakes \/ OtherEnds
  <2>1. UNCHANGED <<current, kpc, seen, page>>
    BY <1>7 DEF OtherTakes, OtherEnds
  <2>2. ASSUME current # NoRead, page[current.tab] # "none" PROVE slot' = slot
    <3>1. Held(current.tab) /\ slot.age <= current.age + Loading /\ current.age <= LimitOf(current)
      BY <1>0, <2>2 DEF KeepsSlot
    <3>2. slot.age <= Limit[Reader]
      <4>1. slot.age \in Nat
        BY <3>1, Typed DEF Held, HeldBy, SlotValues
      <4> QED BY <2>2, <3>1, <4>1, CurrentType, Given
    <3>3. CASE OtherTakes
      BY <3>1, <3>2, <3>3, Unexpired DEF OtherTakes
    <3>4. CASE OtherEnds
      BY <3>1, <3>4, SlotKept DEF OtherEnds, Held
    <3> QED BY <1>7, <3>3, <3>4
  <2> QED BY <1>0, <2>1, <2>2 DEF KeepsSlot, Held
<1>8. CASE Tick
  <2>1. UNCHANGED <<kpc, seen, page, fins, kicks>> /\ Settled
    BY <1>8 DEF Tick
  <2>2. kpc # "arm" /\ fins = {}
    BY <2>1 DEF Settled
  <2>3. SUFFICES ASSUME current # NoRead
                 PROVE  /\ current'.age <= LimitOf(current')
                        /\ page[current.tab] # "none" =>
                             HeldBy(slot', Reader, current.tab) /\ slot'.age <= current'.age + Loading
    BY <1>8, <2>1, <2>2, Ages DEF KeepsSlot, Held
  <2>4. current'.age <= LimitOf(current')
    BY <1>0, <1>8, <2>3, Ages, CurrentType DEF KeepsSlot, TimedOut
  <2>5. ASSUME page[current.tab] # "none"
        PROVE  HeldBy(slot', Reader, current.tab) /\ slot'.age <= current'.age + Loading
    <3>1. Held(current.tab) /\ slot.age <= current.age + Loading
      BY <1>0, <2>3, <2>5 DEF KeepsSlot
    <3>2. HeldBy(slot', Reader, current.tab) /\ slot.age \in Nat /\ slot'.age \in {slot.age, slot.age + 1}
      BY <1>8, <3>1, OlderType, Typed DEF Tick, Held, HeldBy
    <3>3. CASE ~ TimedOut(current)
      BY <1>8, <2>3, <3>1, <3>2, <3>3, Ages, CurrentType, Typed
    <3>4. CASE TimedOut(current)
      <4>1. alarm # LimitOf(current) - current.age
        <5>1. LimitOf(current) - current.age = 0
          BY <1>0, <2>3, <3>4, CurrentType DEF KeepsSlot, TimedOut
        <5> QED BY <2>1, <5>1 DEF Settled
      <4>2. kpc = "load" /\ page[ktab] = "loading" /\ spent[ktab] < Loading
        BY <1>0, <2>1, <2>2, <2>3, <4>1 DEF Armed, Settled
      <4>3. current.tab = ktab /\ slot.age <= spent[ktab] /\ ktab \in Tabs
        BY <1>0, <2>3, <4>2 DEF KickInv
      <4>4. current'.age = current.age
        BY <1>8, <2>3, <3>4, Ages
      <4>5. spent[ktab] \in Nat
        BY <4>3, Typed
      <4> QED BY <2>3, <3>2, <4>2, <4>3, <4>4, <4>5, CurrentType, Typed
    <3> QED BY <3>3, <3>4
  <2> QED BY <2>4, <2>5
<1>9. ~ WorkerStops
  BY DEF Mishap
<1> QED BY <1>1, <1>2, <1>3, <1>4, <1>5, <1>6, <1>7, <1>8, <1>9 DEF Next, FinishStep, Event, PageStep

LEMMA ArmedNext ==
  ASSUME TypeOK, Base, GoingOn, ~ Mishap, [Next]_vars
  PROVE  Armed'
<1> USE DEF Goto, KickEnds, stored, kick, pages, events, HasTab
<1>0. KickInv /\ FinInv /\ Running /\ Armed /\ KeepsSlot
  BY DEF Base, GoingOn
<1>1. CASE KickStep
  <2>1. CASE kpc \in {"query", "acquire", "open", "notab", "move"} \/ Record \/ LookAtQueue
    <3>1. current' = NoRead \/ kpc' = "arm"
      BY <1>0, <1>1, <2>1 DEF KickInv, KickStep, Kick, LookAtCurrent, LookAtQueue, Query, Acquire, Open,
                              NoTabOpened, Move, Record, Arm, Load, Send, AfterFinish
    <3> QED BY <3>1 DEF Armed
  <2>2. CASE Kick
    BY <1>0, <2>2 DEF Kick, Armed
  <2>3. CASE LookAtCurrent
    <3>1. UNCHANGED <<current, alarm, kicks>> /\ kpc = "look" /\ current # NoRead
      BY <2>3 DEF LookAtCurrent
    <3>2. CASE TimedOut(current)
      <4>1. FinishRead(current.tab, "kick") /\ kpc' = "timeout"
        BY <2>3, <3>2 DEF LookAtCurrent
      <4>2. \A f \in fins' \ fins : f.at = "clear"
        BY <4>1, Finishes
      <4> QED BY <1>0, <3>1, <3>2, <4>1, <4>2 DEF Armed
    <3>3. CASE ~ TimedOut(current)
      BY <1>0, <2>3, <3>1, <3>3 DEF LookAtCurrent, Armed
    <3> QED BY <3>2, <3>3
  <2>4. CASE Arm
    <3>1. /\ UNCHANGED <<current, fins>> /\ kpc = "arm" /\ alarm' = LimitOf(Head(seen))
          /\ current # NoRead => \A f \in fins : ~ (f.at = "close" /\ f.next = "auto")
      BY <2>4 DEF Arm, Mishap
    <3>3. \A f \in fins : f.at \in {"clear", "close"}
      BY Typed
    <3>2. current # NoRead => LimitOf(Head(seen)) = LimitOf(current) - current.age
      <4>1. current # NoRead => LimitOf(Head(seen)) = LimitOf(current) /\ current.age = 0
        BY <1>0, <3>1 DEF KeepsSlot, LimitOf, Visible
      <4> QED BY <4>1, CurrentType
    <3> QED BY <3>1, <3>2, <3>3 DEF Armed
  <2>5. CASE Load \/ Send
    <3>1. UNCHANGED <<current, alarm, kicks>> /\ kpc \in {"load", "send"}
      BY <2>5 DEF Load, Send
    <3>2. fins' = fins \/ FinishRead(ktab, "kick")
      BY <2>5 DEF Load, Send
    <3>3. fins \subseteq fins' /\ \A f \in fins' \ fins : f.at = "clear"
      BY <3>2, Finishes
    <3> QED BY <1>0, <3>1, <3>3 DEF Armed
  <2>6. CASE AfterFinish
    <3>1. UNCHANGED <<current, alarm, kicks, fins>> /\ ((kpc = "timeout" /\ kpc' = "look") \/ kpc = "giveup")
      BY <2>6 DEF AfterFinish
    <3> QED BY <1>0, <3>1 DEF Armed
  <2> QED BY <1>1, <2>1, <2>2, <2>3, <2>4, <2>5, <2>6 DEF KickStep, Query, Acquire, Open, NoTabOpened, Move
<1>2. ASSUME NEW f \in fins, Clear(f) PROVE Armed'
  BY <1>2 DEF Clear, Armed
<1>3. ASSUME NEW f \in fins, Close(f) PROVE Armed'
  <2>1. /\ UNCHANGED <<current, kpc>> /\ f.at = "close" /\ fins' = fins \ {f}
        /\ kicks' = IF f.next = "click" THEN kicks + 1 ELSE kicks
        /\ alarm' = IF f.next = "auto" THEN Gap ELSE alarm
    BY <1>3 DEF Close
  <2>2. CASE current = NoRead \/ kpc = "arm"
    BY <2>1, <2>2 DEF Armed
  <2>3. CASE current # NoRead /\ kpc # "arm"
    <3>1. f.next # "auto" /\ f.tab # current.tab
      BY <1>0, <2>1, <2>3 DEF Armed, FinInv
    <3>2. kicks > 0 => kicks' > 0
      BY <2>1 DEF TypeOK
    <3> QED BY <1>0, <2>1, <2>3, <3>1, <3>2 DEF Armed
  <2> QED BY <2>2, <2>3
<1>4. CASE (\E job \in Asks : Ask(job)) \/ PageStep \/ OtherTakes \/ OtherEnds \/ WorkerRests \/ UNCHANGED vars
  <2>1. UNCHANGED <<current, kpc, fins, alarm>> /\ (kicks > 0 => kicks' > 0)
    <3>1. CASE \E job \in Asks : Ask(job)
      <4>1. kicks \in Nat
        BY DEF TypeOK
      <4> QED BY <3>1, <4>1 DEF Ask, Wake
    <3>2. CASE PageStep \/ OtherTakes \/ OtherEnds \/ WorkerRests \/ UNCHANGED vars
      BY <3>2 DEF PageStep, PageLoads, PageReports, PageDies, UserCloses, OtherTakes, OtherEnds,
                  WorkerRests, vars
    <3> QED BY <1>4, <3>1, <3>2
  <2> QED BY <1>0, <2>1 DEF Armed
<1>5. CASE AlarmFires
  <2>1. UNCHANGED <<current, kpc, fins>> /\ alarm = 0 /\ kicks' > 0
    <3>1. kicks \in Nat
      BY DEF TypeOK
    <3> QED BY <1>5, <3>1 DEF AlarmFires, Wake
  <2>2. ASSUME current # NoRead, kpc # "arm" PROVE TimedOut(current)
    <3>1. CASE alarm = LimitOf(current) - current.age
      BY <2>1, <2>2, <3>1, CurrentType DEF TimedOut
    <3> QED BY <1>0, <2>2, <3>1 DEF Armed
  <2> QED BY <1>0, <2>1, <2>2 DEF Armed
<1>6. ASSUME NEW t \in Tabs, Reported(t) \/ TabRemoved(t) PROVE Armed'
  <2>1. UNCHANGED <<current, kpc, alarm>> /\ (kicks > 0 => kicks' > 0)
    <3>1. kicks \in Nat
      BY DEF TypeOK
    <3> QED BY <1>6, <3>1 DEF Reported, TabRemoved, Wake
  <2>2. fins \subseteq fins' /\ \A f \in fins' \ fins : f.at = "clear"
    BY <1>6, Finishes DEF Reported, TabRemoved
  <2> QED BY <1>0, <2>1, <2>2 DEF Armed
<1>7. CASE Tick
  <2>1. UNCHANGED <<kpc, fins, kicks>> /\ Settled /\ alarm' = IF alarm = NoAlarm THEN NoAlarm ELSE alarm - 1
    BY <1>7 DEF Tick
  <2>2. SUFFICES ASSUME current # NoRead, kpc # "arm"
                 PROVE  \/ alarm' = LimitOf(current') - current'.age
                        \/ TimedOut(current') /\ kicks > 0
    BY <1>7, <2>1, Ages DEF Armed, Settled
  <2>3. CASE alarm = LimitOf(current) - current.age
    <3>1. alarm \in Nat /\ alarm # NoAlarm /\ alarm # 0
      BY <1>0, <2>1, <2>2, <2>3, AlarmType DEF KeepsSlot, Settled
    <3>2. ~ TimedOut(current)
      BY <2>2, <2>3, <3>1, CurrentType DEF TimedOut
    <3> QED BY <1>7, <2>1, <2>2, <2>3, <3>1, <3>2, Ages, CurrentType
  <2>4. CASE TimedOut(current) /\ (kicks > 0 \/ kpc \in {"look", "timeout"})
    <3>1. kicks > 0
      BY <2>1, <2>4 DEF Settled
    <3> QED BY <1>7, <2>2, <2>4, <3>1, Ages
  <2> QED BY <1>0, <2>2, <2>3, <2>4 DEF Armed
<1>8. ~ WorkerStops
  BY DEF Mishap
<1> QED BY <1>1, <1>2, <1>3, <1>4, <1>5, <1>6, <1>7, <1>8 DEF Next, FinishStep, Event

LEMMA AwaitedNext ==
  ASSUME TypeOK, Base, GoingOn, ~ Mishap, [Next]_vars
  PROVE  Awaited'
<1> USE DEF Goto, KickEnds, stored, kick, pages, events
<1>0. KickInv /\ Running /\ Awaited /\ kicks \in Nat
  BY DEF Base, GoingOn, TypeOK
<1>1. CASE KickStep
  <2>1. CASE Kick \/ Query \/ Open \/ Move
    <3>1. kpc' \in {"look", "acquire", "notab", "move", "record"}
      BY <2>1 DEF Kick, Query, Open, Move
    <3> QED BY <3>1 DEF Awaited
  <2>2. CASE LookAtCurrent \/ Record
    <3>1. current' # NoRead
      <4>1. CASE LookAtCurrent BY <4>1 DEF LookAtCurrent
      <4>2. CASE Record
        <5>1. current' = [post |-> Head(seen).post, kind |-> Head(seen).kind, tab |-> ktab, age |-> 0]
              /\ seen # <<>> /\ ktab \in Tabs
          BY <1>0, <4>2 DEF Record, KickInv, HasTab
        <5>2. current' \in [post : Posts, kind : Kinds, tab : Tabs, age : 0..VisibleLimit]
          BY <5>1, SeenType, Given
        <5> QED BY <5>2, Given
      <4> QED BY <2>2, <4>1, <4>2
    <3> QED BY <3>1 DEF Awaited
  <2>3. CASE LookAtQueue
    <3>1. CASE queue = <<>> /\ queue' = queue
      BY <3>1 DEF Awaited
    <3>2. CASE pause < Gap /\ alarm' = Gap - pause
      <4>1. Gap - pause \in 0..VisibleLimit
        BY <3>2, Typed, Given
      <4> QED BY <3>2, <4>1, Given DEF Awaited
    <3>3. CASE kpc' \in {"query", "acquire"}
      BY <3>3 DEF Awaited
    <3> QED BY <2>3, <3>1, <3>2, <3>3 DEF LookAtQueue
  <2>4. CASE Acquire
    <3>1. Gap # NoAlarm
      BY Given
    <3> QED BY <2>4, <3>1 DEF Acquire, Awaited
  <2>5. CASE Arm
    <3>1. alarm' # NoAlarm
      BY <2>5, LimitType, Given DEF Arm
    <3> QED BY <3>1 DEF Awaited
  <2>6. CASE Load \/ Send
    <3>1. UNCHANGED <<queue, current, alarm, kicks>> /\ kpc \in {"load", "send"}
      BY <2>6 DEF Load, Send
    <3>2. fins' = fins \/ FinishRead(ktab, "kick")
      BY <2>6 DEF Load, Send
    <3>3. fins \subseteq fins'
      BY <3>2, Finishes
    <3> QED BY <1>0, <3>1, <3>3 DEF Awaited
  <2>7. CASE AfterFinish
    <3>1. UNCHANGED <<queue, current, alarm, kicks, fins>> /\ kpc \in {"timeout", "giveup"}
      BY <2>7 DEF AfterFinish
    <3> QED BY <1>0, <3>1 DEF Awaited
  <2>8. CASE NoTabOpened
    <3>1. queue' = Tail(seen) /\ Tail(seen) = <<>>
      BY <1>0, <2>8 DEF NoTabOpened, Running
    <3> QED BY <3>1 DEF Awaited
  <2> QED BY <1>1, <2>1, <2>2, <2>3, <2>4, <2>5, <2>6, <2>7, <2>8 DEF KickStep
<1>2. ASSUME NEW f \in fins, Clear(f) PROVE Awaited'
  <2> DEFINE next == IF queue = <<>> THEN "none" ELSE IF Click(Head(queue)) THEN "click" ELSE "auto"
             g == [f EXCEPT !.at = "close", !.next = next]
  <2>1. g \in fins' /\ queue' = queue
    BY <1>2 DEF Clear
  <2>2. queue # <<>> => g.next # "none"
    <3>1. f \in Finish
      BY DEF TypeOK
    <3> QED BY <3>1 DEF Finish
  <2> QED BY <2>1, <2>2 DEF Awaited
<1>3. ASSUME NEW f \in fins, Close(f) PROVE Awaited'
  <2>1. /\ UNCHANGED <<queue, current, kpc>> /\ f.at = "close" /\ fins' = fins \ {f}
        /\ kicks' = IF f.next = "click" THEN kicks + 1 ELSE kicks
        /\ alarm' = IF f.next = "auto" THEN Gap ELSE alarm
    BY <1>3 DEF Close
  <2>2. f.next \in {"none", "click", "auto"} /\ Gap # NoAlarm
    BY Given DEF TypeOK, Finish
  <2>3. CASE f.next = "none"
    BY <1>0, <2>1, <2>3 DEF Awaited
  <2>4. CASE f.next = "click"
    BY <1>0, <2>1, <2>4 DEF Awaited
  <2>5. CASE f.next = "auto"
    BY <2>1, <2>2, <2>5 DEF Awaited
  <2> QED BY <2>2, <2>3, <2>4, <2>5
<1>4. ASSUME NEW job \in Asks, Ask(job) PROVE Awaited'
  <2>1. UNCHANGED <<current, alarm, kpc, fins>> /\ (kicks' > 0 \/ UNCHANGED <<queue, kicks>>)
    BY <1>0, <1>4 DEF Ask, Wake
  <2> QED BY <1>0, <2>1 DEF Awaited
<1>5. CASE AlarmFires
  <2>1. kicks' > 0
    BY <1>0, <1>5 DEF AlarmFires, Wake
  <2> QED BY <2>1 DEF Awaited
<1>6. ASSUME NEW t \in Tabs, Reported(t) \/ TabRemoved(t) PROVE Awaited'
  <2>1. UNCHANGED <<queue, current, kpc, alarm>> /\ (kicks' > 0 \/ kicks' = kicks)
    BY <1>0, <1>6 DEF Reported, TabRemoved, Wake
  <2>2. fins \subseteq fins'
    BY <1>6, Finishes DEF Reported, TabRemoved
  <2> QED BY <1>0, <2>1, <2>2 DEF Awaited
<1>7. CASE PageStep \/ OtherTakes \/ OtherEnds \/ WorkerRests \/ UNCHANGED vars
  <2>1. UNCHANGED <<queue, current, kpc, alarm, kicks, fins>>
    BY <1>7 DEF PageStep, PageLoads, PageReports, PageDies, UserCloses, OtherTakes, OtherEnds,
                WorkerRests, vars
  <2> QED BY <1>0, <2>1 DEF Awaited
<1>8. CASE Tick
  <2>1. UNCHANGED <<queue, kpc, kicks, fins>> /\ alarm # 0 /\ alarm' = IF alarm = NoAlarm THEN NoAlarm ELSE alarm - 1
    BY <1>8 DEF Tick, Settled
  <2>2. alarm # NoAlarm => alarm' # NoAlarm
    <3>1. alarm # NoAlarm => alarm \in 0..VisibleLimit
      BY DEF TypeOK
    <3> QED BY <2>1, <3>1, Given
  <2> QED BY <1>0, <1>8, <2>1, <2>2, Ages DEF Awaited
<1>9. ~ WorkerStops
  BY DEF Mishap
<1> QED BY <1>1, <1>2, <1>3, <1>4, <1>5, <1>6, <1>7, <1>8, <1>9 DEF Next, FinishStep, Event

\* Until the worker is stopped at its work, a tab cannot be opened while more is queued
\* or the end of one read overtakes the alarm of the next, the read in flight keeps the
\* slot until it is over or its tab is gone, and an alarm brings the worker, running or
\* stopped, back to whatever is left (reader.ts:94, index.ts:158): with any limits, with
\* late finishes, tabs that fail and a worker that is stopped whenever it rests.
THEOREM ReadsGoOn == Spec /\ [][~ Mishap]_vars => []GoesOn
<1>1. Init => GoingOn
  BY DEF Init, GoingOn, Running, Armed, KeepsSlot, Awaited
<1>2. ReaderInv /\ GoingOn /\ [Next]_vars /\ [~ Mishap]_vars => GoingOn'
  <2> SUFFICES ASSUME ReaderInv, GoingOn, [Next]_vars, [~ Mishap]_vars
               PROVE  Running' /\ Armed' /\ KeepsSlot' /\ Awaited'
    BY DEF GoingOn
  <2>0. ~ Mishap
    BY DEF Mishap, WorkerStops, vars, stored, kick, pages, events
  <2>1. TypeOK /\ Base /\ Running
    BY DEF ReaderInv, GoingOn
  <2>2. Running'
    BY <2>0, <2>1, RunningNext
  <2>3. Armed'
    BY <2>0, <2>1, ArmedNext
  <2>4. KeepsSlot' /\ Awaited'
    BY <2>0, <2>1, KeepsSlotNext, AwaitedNext
  <2> QED BY <2>2, <2>3, <2>4
<1>3. ReaderInv /\ GoingOn => GoesOn
  <2> SUFFICES ASSUME TypeOK, GoingOn PROVE CurrentHasSlot /\ NeverStuck
    BY DEF ReaderInv, GoesOn
  <2>1. CurrentHasSlot
    BY DEF GoingOn, KeepsSlot, CurrentHasSlot, Held
  <2>2. ASSUME Settled, kpc = "idle", alarm = NoAlarm PROVE queue = <<>> /\ current = NoRead
    <3>1. kicks = 0 /\ fins = {}
      BY <2>2 DEF Settled
    <3>2. current = NoRead
      <4>1. SUFFICES ASSUME current # NoRead PROVE FALSE
        OBVIOUS
      <4>2. alarm = LimitOf(current) - current.age /\ current.age <= LimitOf(current)
        BY <2>2, <3>1, <4>1 DEF GoingOn, Armed, KeepsSlot
      <4> QED BY <2>2, <4>1, <4>2, AlarmType
    <3> QED BY <2>2, <3>1, <3>2 DEF GoingOn, Awaited
  <2> QED BY <2>1, <2>2 DEF NeverStuck
<1> QED BY <1>1, <1>2, <1>3, ReaderIsSound, PTL DEF Spec
=============================================================================
