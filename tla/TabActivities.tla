--------------------------- MODULE TabActivities ---------------------------
(***************************************************************************)
(* The activities of fb_auction_watcher that work in a tab of yours, as    *)
(* background/index.ts and background/autoScan.ts start and end them: a    *)
(* scan or read from the toolbar menu, "Continue to older posts", a scan   *)
(* in a new tab, and the automatic scan.  Each takes the Facebook slot,    *)
(* asks the tab's content script to work, and frees the slot when the      *)
(* content script reports that it is done.  One step is what happens       *)
(* between two awaits; slot operations are atomic (FacebookSlot).          *)
(***************************************************************************)
EXTENDS SlotOps

CONSTANTS
  Calls,      \* the activities started in this run, each once
  Kind,       \* "scan", "read", "continue", "new" or "auto"
  TabOf       \* the tab each works in ("new": the ID its tab will get)

ASSUME TabActivitiesAssumption ==
  /\ Kind \in [Calls -> {"scan", "read", "continue", "new", "auto"}]
  /\ TabOf \in [Calls -> Tabs]
  /\ {"menu-scan", "menu-read", "auto-scan"} \subseteq Holders
  \* Chrome gives every new tab an ID of its own.
  /\ \A c, d \in Calls : Kind[c] = "new" /\ Kind[d] = "new" /\ TabOf[c] = TabOf[d] => c = d

HolderOf(c) ==
  IF Kind[c] = "read" THEN "menu-read" ELSE IF Kind[c] = "auto" THEN "auto-scan" ELSE "menu-scan"

VARIABLES
  slot,
  pc,       \* where the function of each call is
  at,       \* the tab it would name to release()
  open,     \* tabs that are open
  run,      \* what the content script of each tab does: `running` and for whom
  dones,    \* ACTIVITY_DONE messages on their way, by tab
  halfDone, \* ACTIVITY_DONE handlers between their two releases, by tab
  autoDone, \* AUTO_SCAN_DONE messages on their way
  removed,  \* tabs.onRemoved events on their way
  calm,     \* chosen at the start: no page reloads or crashes at work, no tab is
            \* closed, and the worker is not stopped
  astray    \* has the slot been lost by one who was at work under it?

vars == <<slot, pc, at, open, run, dones, halfDone, autoDone, removed, calm, astray>>

TypeOK ==
  /\ slot \in SlotValues
  /\ pc \in [Calls -> {"idle", "wait", "got", "move", "load", "send", "fail", "over"}]
  /\ at \in [Calls -> Tabs \cup {NoTab}]
  /\ open \subseteq Tabs
  /\ run \in [Tabs -> {"none", "menu", "auto"}]
  /\ dones \in [Tabs -> Nat] /\ halfDone \in [Tabs -> Nat]
  /\ autoDone \subseteq Tabs /\ removed \subseteq Tabs
  /\ calm \in BOOLEAN /\ astray \in BOOLEAN

NewTabs == {TabOf[c] : c \in {d \in Calls : Kind[d] = "new"}}

Init ==
  /\ slot = NoSlot
  /\ pc = [c \in Calls |-> "idle"]
  /\ at = [c \in Calls |-> IF Kind[c] = "new" THEN NoTab ELSE TabOf[c]]
  /\ open = Tabs \ NewTabs
  /\ run = [t \in Tabs |-> "none"]
  /\ dones = [t \in Tabs |-> 0] /\ halfDone = [t \in Tabs |-> 0]
  /\ autoDone = {} /\ removed = {}
  /\ calm \in BOOLEAN
  /\ astray = FALSE

Step(c, from, to) == pc[c] = from /\ pc' = [pc EXCEPT ![c] = to]
Plus(counts, t) == [counts EXCEPT ![t] = @ + 1]
Minus(counts, t) == [counts EXCEPT ![t] = @ - 1]

messages == <<dones, halfDone, autoDone, removed>>

-----------------------------------------------------------------------------
(* startInTab(), continueScan(), scanFeedInNewTab(), runAutoScan() *)

\* chrome.tabs.get(), findFeedTab(): there is such a tab (or none is needed yet).
Start(c) ==
  /\ Kind[c] # "new" => TabOf[c] \in open
  /\ Kind[c] = "continue" => run[TabOf[c]] = "none"
  /\ Step(c, "idle", "wait")
  /\ UNCHANGED <<slot, at, open, run, messages>>

\* await facebookSlot.acquireWhenFree(), or acquire() of the automatic scan
Acquire(c) ==
  /\ Free(slot)
  /\ Step(c, "wait", IF Kind[c] \in {"read", "continue"} THEN "send" ELSE "got")
  /\ slot' = Taken(HolderOf(c), at[c])
  /\ UNCHANGED <<at, open, run, messages>>

\* Busy for too long; the automatic scan skips its round at once.
GiveUp(c) ==
  /\ Step(c, "wait", "over")
  /\ UNCHANGED <<slot, at, open, run, messages>>

\* The scan from the menu finds its tab on "New posts" already.
OnNewPosts(c) ==
  /\ Kind[c] = "scan"
  /\ Step(c, "got", "send")
  /\ UNCHANGED <<slot, at, open, run, messages>>

\* await chrome.tabs.update(): the page's script and what it did are gone.  It
\* rejects when the tab is gone, and nothing catches that.
Update(c) ==
  /\ Kind[c] \in {"scan", "auto"}
  /\ Step(c, "got", IF TabOf[c] \in open THEN "load" ELSE "over")
  /\ run' = [run EXCEPT ![TabOf[c]] = "none"]
  /\ UNCHANGED <<slot, at, open, messages>>

\* await chrome.tabs.create()
Create(c) ==
  /\ Kind[c] = "new"
  /\ \/ Step(c, "got", "move") /\ open' = open \cup {TabOf[c]}
     \/ Step(c, "got", "fail") /\ UNCHANGED open
  /\ UNCHANGED <<slot, at, run, messages>>

\* await facebookSlot.moveTo()
Move(c) ==
  /\ Step(c, "move", "load")
  /\ slot' = Moved(slot, HolderOf(c), NoTab, TabOf[c])
  /\ at' = [at EXCEPT ![c] = TabOf[c]]
  /\ UNCHANGED <<open, run, messages>>

\* await waitForTabLoad(): the scan from the menu goes on however that ends.
Load(c) ==
  /\ \/ (Kind[c] = "scan" \/ TabOf[c] \in open) /\ Step(c, "load", "send")
     \/ Kind[c] # "scan" /\ Step(c, "load", "fail")
  /\ UNCHANGED <<slot, at, open, run, messages>>

\* The content script answers a request for work: readOpenPost(), autoScan().
Asked(c) ==
  LET t == TabOf[c] IN
  IF run[t] = "none"
  THEN run' = [run EXCEPT ![t] = IF Kind[c] = "auto" THEN "auto" ELSE "menu"] /\ UNCHANGED dones
  ELSE dones' = (IF Kind[c] = "auto" THEN dones ELSE Plus(dones, t)) /\ UNCHANGED run

\* await chrome.tabs.sendMessage(); it rejects without a content script.
Send(c) ==
  /\ \/ TabOf[c] \in open /\ Step(c, "send", "over") /\ Asked(c)
     \/ Step(c, "send", "fail") /\ UNCHANGED <<run, dones>>
  /\ UNCHANGED <<slot, at, open, halfDone, autoDone, removed>>

\* Mutant: the catch block logs, and frees nothing.
FailKeepsSlot(c) ==
  /\ Step(c, "fail", "over")
  /\ UNCHANGED <<slot, at, open, run, messages>>

\* await facebookSlot.release() of a start that failed
Fail(c) ==
  /\ Step(c, "fail", "over")
  /\ slot' = Released(slot, HolderOf(c), at[c])
  /\ UNCHANGED <<at, open, run, messages>>

-----------------------------------------------------------------------------
(* The content scripts and their reports *)

\* The work is over: `running` is reset, then the report goes out.
PageDone(t) ==
  /\ run[t] # "none"
  /\ run' = [run EXCEPT ![t] = "none"]
  /\ dones' = IF run[t] = "menu" THEN Plus(dones, t) ELSE dones
  /\ autoDone' = IF run[t] = "auto" THEN autoDone \cup {t} ELSE autoDone
  /\ UNCHANGED <<slot, pc, at, open, halfDone, removed>>

\* ACTIVITY_DONE: release("menu-scan") and then release("menu-read").
ActivityDone(t) ==
  /\ dones[t] > 0
  /\ dones' = Minus(dones, t)
  /\ halfDone' = Plus(halfDone, t)
  /\ slot' = Released(slot, "menu-scan", t)
  /\ UNCHANGED <<pc, at, open, run, autoDone, removed>>

ThenRead(t) ==
  /\ halfDone[t] > 0
  /\ halfDone' = Minus(halfDone, t)
  /\ slot' = Released(slot, "menu-read", t)
  /\ UNCHANGED <<pc, at, open, run, dones, autoDone, removed>>

AutoScanDone(t) ==
  /\ t \in autoDone
  /\ autoDone' = autoDone \ {t}
  /\ slot' = Released(slot, "auto-scan", t)
  /\ UNCHANGED <<pc, at, open, run, dones, halfDone, removed>>

-----------------------------------------------------------------------------
(* Tabs, the worker, time *)

CloseTab(t) ==
  /\ ~ calm
  /\ t \in open
  /\ open' = open \ {t}
  /\ run' = [run EXCEPT ![t] = "none"]
  /\ removed' = removed \cup {t}
  /\ UNCHANGED <<slot, pc, at, dones, halfDone, autoDone>>

\* chrome.tabs.onRemoved
TabRemoved(t) ==
  /\ t \in removed
  /\ removed' = removed \ {t}
  /\ slot' = TabReleased(slot, t)
  /\ UNCHANGED <<pc, at, open, run, dones, halfDone, autoDone>>

\* A page at work is reloaded, left or crashes: no report.
PageDies(t) ==
  /\ ~ calm
  /\ run[t] # "none"
  /\ run' = [run EXCEPT ![t] = "none"]
  /\ UNCHANGED <<slot, pc, at, open, messages>>

\* Chrome stops the service worker: its functions are gone, pages work on.
WorkerStops ==
  /\ ~ calm
  /\ \E c \in Calls : pc[c] \notin {"idle", "over"}
  /\ pc' = [c \in Calls |-> IF pc[c] = "idle" THEN "idle" ELSE "over"]
  /\ halfDone' = [t \in Tabs |-> 0]
  /\ UNCHANGED <<slot, at, open, run, dones, autoDone, removed>>

\* The holder of the slot is at work under it: its function, or its page.
AtWork(c) == pc[c] \in {"got", "move", "load", "send", "fail"}
InUse == \/ \E c \in Calls : AtWork(c) /\ HeldBy(slot, HolderOf(c), at[c])
         \/ slot.tab \in Tabs /\ run[slot.tab] # "none"

\* Messages and events take no time.
Tick ==
  /\ slot # NoSlot
  /\ \A t \in Tabs : dones[t] = 0 /\ halfDone[t] = 0
  /\ autoDone = {} /\ removed = {}
  /\ slot' = Older(slot)
  /\ UNCHANGED <<pc, at, open, run, messages>>

CallStep(c) ==
  \/ Start(c) \/ Acquire(c) \/ GiveUp(c) \/ OnNewPosts(c) \/ Update(c) \/ Create(c)
  \/ Move(c) \/ Load(c) \/ Send(c) \/ Fail(c)

TabStep(t) ==
  \/ PageDone(t) \/ ActivityDone(t) \/ ThenRead(t) \/ AutoScanDone(t)
  \/ CloseTab(t) \/ TabRemoved(t) \/ PageDies(t)

\* The two ways to lose the slot at work: its time limit runs out, or the second
\* release of a scan's report finds a read in the scan's tab.
Outlasts == Tick /\ InUse /\ slot.age >= Limit[slot.holder]
Crosses(t) == ThenRead(t) /\ HeldBy(slot, "menu-read", t) /\ (InUse \/ dones[t] > 0)

Next ==
  /\ \/ \E c \in Calls : CallStep(c)
     \/ \E t \in Tabs : TabStep(t)
     \/ WorkerStops
     \/ Tick
  /\ UNCHANGED calm
  /\ astray' = (astray \/ Outlasts \/ \E t \in Tabs : Crosses(t))

Spec == Init /\ [][Next]_vars

-----------------------------------------------------------------------------
(* Properties *)

\* A tab talks to Facebook while an activity loads it or its script works.
Talks(t) ==
  \/ run[t] # "none"
  \/ t \in open /\ \E c \in Calls : TabOf[c] = t /\ pc[c] \in {"move", "load"}

\* slot.ts:1-2 "never more than one tab talks to Facebook at a time", whatever is
\* closed, dies or stops, until a page has worked past its slot's time limit, or
\* the report of a scan has freed the slot of a read that came into its tab.
OneTabTalks == ~ astray => \A t, u \in Tabs : Talks(t) /\ Talks(u) => t = u

\* Without accidents the slot is never taken in vain: whoever has it will give it
\* back - a function on its way, a page at work, a message or an event to come.
CalmSlotIsInUse ==
  calm /\ ~ astray /\ slot # NoSlot =>
    \/ InUse
    \/ slot.tab \in removed \cup autoDone
    \/ slot.tab \in Tabs /\ (dones[slot.tab] > 0 \/ halfDone[slot.tab] > 0)
=============================================================================
