---------------------------- MODULE FacebookSlot ----------------------------
(***************************************************************************)
(* The one Facebook slot under concurrent callers: background/slot.ts with *)
(* its promise chain.  Every operation reads the slot from                 *)
(* chrome.storage.session and writes it back in a second step; `serial`    *)
(* makes an operation wait for the ones asked before it.  A caller is one  *)
(* activity of the service worker (an automatic scan, a post read, a scan  *)
(* or read from the toolbar menu) with its tab.  The worker may be stopped *)
(* at any moment: the chain and what the callers were waiting for are      *)
(* gone, the stored slot stays.                                            *)
(***************************************************************************)
EXTENDS SlotOps, Sequences

CONSTANTS
  Callers,   \* activities
  HolderOf,  \* the SlotHolder each passes
  TabOf,     \* the tab each works in
  OpensTab,  \* the callers that take the slot before their tab exists
  Nobody,
  NotRead    \* "storage.get() has not returned yet"

\* Two callers never pass the same holder and tab: a holder works in one tab of
\* its own, and at most one caller of a kind is opening its tab.
KeysDistinct ==
  \A c, d \in Callers : c # d /\ HolderOf[c] = HolderOf[d] =>
    TabOf[c] # TabOf[d] /\ ~ {c, d} \subseteq OpensTab

ASSUME FacebookSlotAssumption ==
  /\ HolderOf \in [Callers -> Holders]
  /\ TabOf \in [Callers -> Tabs]
  /\ OpensTab \subseteq Callers
  /\ Callers \cap Tabs = {}
  /\ Nobody \notin Callers
  /\ NotRead \notin SlotValues
  /\ KeysDistinct

VARIABLES
  slot,    \* facebookSlot in chrome.storage.session
  queue,   \* the promise chain: callers with an operation asked for, and closed
           \* tabs with a releaseTab() asked for
  seen,    \* what storage.get() returned to the operation in service
  pc,      \* where each caller is
  at,      \* the tab each caller would name to release()
  closed,  \* tabs that were closed
  owner,   \* history: the caller the present slot value was granted to
  lapsed   \* history: callers whose slot expired and went to another

vars == <<slot, queue, seen, pc, at, closed, owner, lapsed>>

Requests == Callers \cup Tabs

\* waiting for acquire(), moveTo() or release()
Waiting == {"asking", "moving", "leaving"}

TypeOK ==
  /\ slot \in SlotValues
  /\ queue \in Seq(Requests)
  /\ seen \in [Requests -> SlotValues \cup {NotRead}]
  /\ pc \in [Callers -> Waiting \cup {"idle", "refused", "working", "lost"}]
  /\ at \in [Callers -> Tabs \cup {NoTab}]
  /\ closed \in SUBSET Tabs
  /\ owner \in Callers \cup {Nobody}
  /\ lapsed \in SUBSET Callers

StartTab(c) == IF c \in OpensTab THEN NoTab ELSE TabOf[c]

Init ==
  /\ slot = NoSlot
  /\ queue = <<>>
  /\ seen = [x \in Requests |-> NotRead]
  /\ pc = [c \in Callers |-> "idle"]
  /\ at = [c \in Callers |-> StartTab(c)]
  /\ closed = {}
  /\ owner = Nobody
  /\ lapsed = {}

Goto(c, label) == pc' = [pc EXCEPT ![c] = label]

-----------------------------------------------------------------------------
(* What callers ask for: each joins the chain and waits. *)

Ask(c, from, label) ==
  /\ pc[c] \in from
  /\ Goto(c, label)
  /\ queue' = Append(queue, c)
  /\ UNCHANGED <<slot, seen, closed, owner>>

\* acquire(); acquireWhenFree() polls it until it gets the slot or gives up.
AskAcquire(c) ==
  /\ Ask(c, {"idle", "refused", "lost"}, "asking")
  /\ at' = [at EXCEPT ![c] = StartTab(c)]
  /\ UNCHANGED lapsed

GiveUp(c) ==
  /\ pc[c] = "refused"
  /\ Goto(c, "idle")
  /\ UNCHANGED <<slot, queue, seen, at, closed, owner, lapsed>>

\* The tab the caller opened exists now: moveTo().
AskMove(c) ==
  /\ at[c] = NoTab
  /\ Ask(c, {"working"}, "moving")
  /\ UNCHANGED <<at, lapsed>>

AskRelease(c) ==
  /\ Ask(c, {"working"}, "leaving")
  /\ UNCHANGED <<at, lapsed>>

\* chrome.tabs.onRemoved: releaseTab().
CloseTab(t) ==
  /\ t \notin closed
  /\ closed' = closed \cup {t}
  /\ queue' = Append(queue, t)
  /\ UNCHANGED <<slot, seen, pc, at, owner, lapsed>>

-----------------------------------------------------------------------------
(* serial(): one operation at a time, in the order asked *)

\* Mutant: no `serial`, every operation runs at once.
TurnNow(x) == \E i \in 1..Len(queue) : queue[i] = x

Turn(x) == queue # <<>> /\ Head(queue) = x

\* const current = await storage.get()
Get(x) ==
  /\ Turn(x)
  /\ seen[x] = NotRead
  /\ seen' = [seen EXCEPT ![x] = slot]
  /\ UNCHANGED <<slot, queue, pc, at, closed, owner, lapsed>>

\* The slot an operation leaves, and whose it then is.
Write(value, whose) == slot' = value /\ owner' = IF value = NoSlot THEN Nobody ELSE whose

SetAcquire(c) ==
  /\ pc[c] = "asking"
  /\ IF Free(seen[c])
     THEN /\ Write(Taken(HolderOf[c], at[c]), c)
          /\ Goto(c, "working")
          /\ lapsed' = (lapsed \cup (IF Free(slot) THEN {owner} \cap Callers ELSE {})) \ {c}
     ELSE Goto(c, "refused") /\ UNCHANGED <<slot, owner, lapsed>>
  /\ UNCHANGED at

SetMove(c) ==
  /\ pc[c] = "moving"
  /\ Write(Moved(seen[c], HolderOf[c], NoTab, TabOf[c]), owner)
  /\ at' = [at EXCEPT ![c] = TabOf[c]]
  /\ Goto(c, "working")
  /\ UNCHANGED lapsed

SetRelease(c) ==
  /\ pc[c] = "leaving"
  /\ Write(Released(seen[c], HolderOf[c], at[c]), owner)
  /\ Goto(c, "idle")
  /\ UNCHANGED <<at, lapsed>>

SetTabClosed(t) ==
  /\ t \in Tabs
  /\ Write(TabReleased(seen[t], t), owner)
  /\ UNCHANGED <<pc, at, lapsed>>

\* Mutant: a refused acquire() never settles, so the chain stops behind it.
SetUnlessRefused(x) ==
  /\ Turn(x)
  /\ seen[x] # NotRead
  /\ \/ x \in Callers /\ (SetAcquire(x) \/ SetMove(x) \/ SetRelease(x))
     \/ SetTabClosed(x)
  /\ seen' = [seen EXCEPT ![x] = NotRead]
  /\ queue' = IF x \in Callers /\ pc'[x] = "refused" THEN queue ELSE Tail(queue)
  /\ UNCHANGED closed

\* Mutant: what an operation read is kept for the caller's next one.
SetFromCache(x) ==
  /\ Turn(x)
  /\ seen[x] # NotRead
  /\ \/ x \in Callers /\ (SetAcquire(x) \/ SetMove(x) \/ SetRelease(x))
     \/ SetTabClosed(x)
  /\ queue' = Tail(queue)
  /\ UNCHANGED <<seen, closed>>

\* await storage.set(...), and the next operation's turn
Set(x) ==
  /\ Turn(x)
  /\ seen[x] # NotRead
  /\ \/ x \in Callers /\ (SetAcquire(x) \/ SetMove(x) \/ SetRelease(x))
     \/ SetTabClosed(x)
  /\ seen' = [seen EXCEPT ![x] = NotRead]
  /\ queue' = Tail(queue)
  /\ UNCHANGED closed

-----------------------------------------------------------------------------
\* MV3: the service worker is stopped.  A content script at work goes on, a
\* function of the worker is forgotten wherever it was.
WorkerStops ==
  /\ queue' = <<>>
  /\ seen' = [x \in Requests |-> NotRead]
  /\ \E gone \in SUBSET {c \in Callers : pc[c] = "working"} :
       pc' = [c \in Callers |->
                IF pc[c] \in {"asking", "refused"} THEN "idle"
                ELSE IF pc[c] \in {"moving", "leaving"} \/ c \in gone THEN "lost"
                ELSE pc[c]]
  /\ UNCHANGED <<slot, at, closed, owner, lapsed>>

\* A minute passes; an operation's get and set are milliseconds apart.
Tick ==
  /\ \A x \in Requests : seen[x] = NotRead
  /\ slot' = Older(slot)
  /\ UNCHANGED <<queue, seen, pc, at, closed, owner, lapsed>>

CallerStep(c) == AskAcquire(c) \/ GiveUp(c) \/ AskMove(c) \/ AskRelease(c)

Next ==
  \/ \E c \in Callers : CallerStep(c)
  \/ \E t \in Tabs : CloseTab(t)
  \/ \E x \in Requests : Get(x) \/ Set(x)
  \/ WorkerStops
  \/ Tick

Spec == Init /\ [][Next]_vars

\* Chrome answers storage calls, a worker that is needed is not stopped for ever,
\* and time passes.
FairSpec ==
  /\ Spec
  /\ \A x \in Requests : WF_vars(Get(x)) /\ SF_vars(Set(x))
  /\ SF_vars(Tick)

-----------------------------------------------------------------------------
(* Properties *)

\* slot.ts:1-2 "never more than one tab talks to Facebook at a time": of two
\* activities at work in open tabs, one has outlived its time limit.
Working(c) == pc[c] = "working" /\ TabOf[c] \notin closed

OneActivity ==
  \A c, d \in Callers : Working(c) /\ Working(d) /\ c # d => c \in lapsed \/ d \in lapsed

\* The slot leaves a holder only because that holder asked (release), its tab was
\* closed, or its time limit ran out: nobody frees somebody else's slot.
MayLose(c) == pc[c] = "leaving" \/ TabOf[c] \in closed \/ Expired(slot)

OwnerKeepsSlot == [][(owner \in Callers /\ owner' # owner) => MayLose(owner)]_vars

\* The chain never wedges: who asks for an operation is answered, unless the
\* worker is stopped in between.
AskersAreAnswered == \A c \in Callers : pc[c] \in Waiting ~> pc[c] \notin Waiting

\* "A holder that never frees it ... expires after its time limit" (slot.ts:5-6):
\* whatever became of its holder, a taken slot can be had again.
SlotComesFree == slot # NoSlot ~> Free(slot)

-----------------------------------------------------------------------------
\* serial() makes a read and a write one operation: no update is lost.
Atomic == INSTANCE AtomicSlot

AtomicSpec == Atomic!Spec
=============================================================================
