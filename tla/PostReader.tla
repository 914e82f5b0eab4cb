----------------------------- MODULE PostReader -----------------------------
(***************************************************************************)
(* fb_auction_watcher/src/background/reader.ts: the queue of post reads,   *)
(* the one read in flight, its tab, its alarm and the Facebook slot, with  *)
(* the handlers of index.ts that drive it (clicks, reports, closed tabs,   *)
(* alarms, worker starts) and what the content script does in the tab.     *)
(*                                                                         *)
(* One step is what happens between two awaits.  kickReader() runs one     *)
(* kickOnce() after another; finishRead() may run in several copies, one   *)
(* for each thing that ended the read.  Slot operations and                *)
(* setReaderState() are single steps: each goes through its own queue      *)
(* (FacebookSlot shows that this makes them atomic).                       *)
(*                                                                         *)
(* Time is in units no shorter than the pauses; steps of the worker take   *)
(* none of it.                                                             *)
(***************************************************************************)
EXTENDS SlotOps, Counting

CONSTANTS
  Posts,
  Asks,         \* the jobs enqueueReads() is given in this run, each [post, kind]
  Gap,          \* GAP_MS, and SLOT_RETRY_MS: 30 s
  Loading,      \* waitForTabLoad(): 45 s
  HiddenLimit,  \* READ_TIMEOUT_MS: 3 min
  Cap,          \* content/post/index.ts: a quiet read stops itself after 4 min
  VisibleLimit, \* VISIBLE_TIMEOUT_MS: 5 min
  FinishMayLag, \* may a finishRead() under way be overtaken by the whole start of a read?
  TabsMayFail,  \* may chrome.tabs.create() fail?
  MaxStops,     \* bound: how often Chrome stops the worker at its work
  NoRead,       \* current: null
  NoAlarm

\* A job's kind stands for its reason and visibility: a background re-read, a
\* click read in a hidden tab, a click read in a tab you see.
Kinds == {"auto", "click", "open"}
Jobs == [post : Posts, kind : Kinds]
Click(job) == job.kind # "auto"
Visible(job) == job.kind = "open"
Clicks == {job \in Jobs : Click(job)}

Reader == "reader"
Other == "other"  \* the automatic scan, or a scan or read from the menu

ASSUME PostReaderAssumption ==
  /\ Asks \subseteq Jobs
  /\ Holders = {Reader, Other}
  /\ {Gap, Loading, HiddenLimit, Cap, VisibleLimit, MaxStops} \subseteq Nat
  /\ 0 < Gap /\ 0 < HiddenLimit /\ 0 < Loading
  /\ HiddenLimit <= VisibleLimit /\ Gap <= VisibleLimit
  /\ Loading + Cap < VisibleLimit       \* 45 s + 16 s + 4 min: before the alarm at 5 min 5 s
  /\ VisibleLimit + Loading <= Limit[Reader]
  /\ TabsMayFail \in BOOLEAN /\ FinishMayLag \in BOOLEAN
  /\ NoRead \notin [post : Posts, kind : Kinds, tab : Tabs, age : 0..VisibleLimit]
  /\ NoAlarm \notin 0..VisibleLimit

LimitOf(job) == IF Visible(job) THEN VisibleLimit ELSE HiddenLimit

VARIABLES
  queue,    \* readerState.queue
  current,  \* readerState.current: its job, tab and age; NoRead
  pause,    \* time since readerState.lastAt, up to Gap
  slot,     \* facebookSlot
  alarm,    \* time until READER_ALARM
  asked,    \* the jobs already given to enqueueReads()
  up,       \* is the service worker running?
  stops,    \* how often it has been stopped at its work
  kicks,    \* kickOnce() calls waiting in the chain `kicking`
  kpc,      \* where the running kickOnce() is
  seen,     \* its `state.queue`: [job, ...rest]
  ktab,     \* its `tabId`
  fins,     \* the running copies of finishRead()
  page,     \* what each tab the reader opened is doing
  spent,    \* how long each has been doing it
  removed,  \* tabs.onRemoved events on their way
  reports   \* READ_DONE messages on their way

stored == <<queue, current, pause>>
kick == <<kicks, kpc, seen, ktab>>
pages == <<page, spent>>
events == <<removed, reports>>
vars == <<stored, slot, alarm, asked, up, stops, kick, fins, pages, events>>

KickSteps == {"idle", "look", "query", "acquire", "open", "notab", "move", "record", "arm", "load",
              "send", "timeout", "giveup"}
Finish == [tab : Tabs, visible : BOOLEAN, by : {"kick", "report", "removed"},
           at : {"clear", "close"}, next : {"none", "click", "auto"}]

TypeOK ==
  /\ queue \in Seq(Jobs) /\ seen \in Seq(Jobs)
  /\ current \in [post : Posts, kind : Kinds, tab : Tabs, age : 0..VisibleLimit] \cup {NoRead}
  /\ pause \in 0..Gap
  /\ slot \in SlotValues
  /\ alarm \in 0..VisibleLimit \cup {NoAlarm}
  /\ asked \subseteq Asks
  /\ up \in BOOLEAN /\ stops \in 0..MaxStops
  /\ kicks \in Nat /\ kpc \in KickSteps /\ ktab \in Tabs \cup {NoTab}
  /\ fins \subseteq Finish
  /\ page \in [Tabs -> {"none", "loading", "ready", "reading"}]
  /\ spent \in [Tabs -> Nat]
  /\ removed \subseteq Tabs /\ reports \subseteq Tabs

Init ==
  /\ queue = <<>> /\ current = NoRead /\ pause = Gap
  /\ slot = NoSlot
  /\ alarm = NoAlarm
  /\ asked = {}
  /\ up = TRUE /\ stops = 0
  /\ kicks = 0 /\ kpc = "idle" /\ seen = <<>> /\ ktab = NoTab
  /\ fins = {}
  /\ page = [t \in Tabs |-> "none"]
  /\ spent = [t \in Tabs |-> 0]
  /\ removed = {} /\ reports = {}

\* n kickReader() calls by an event's handler; starting the worker is one more.
Wake(n) == up' = TRUE /\ kicks' = kicks + n + (IF up THEN 0 ELSE 1)

Reading(t) == current # NoRead /\ current.tab = t
\* Mutant: later than the limit, not at it.
TimedOutLater(read) == read.age > LimitOf(read)

TimedOut(read) == read.age >= LimitOf(read)

-----------------------------------------------------------------------------
(* enqueueReads() *)

\* Mutant: the queue is not sorted.
AsTheyCame(q) == q

\* Your clicks first, each group in the order it came.
ClicksFirst(q) == Kept(q, Clicks) \o Kept(q, Jobs \ Clicks)

Queued(p) == \E i \in 1..Len(queue) : queue[i].post = p

\* Mutant: the post being read is forgotten.
AddsUnlessQueued(job) ==
  \A i \in 1..Len(queue) : queue[i].post = job.post => Click(job) /\ ~ Click(queue[i])

\* A click upgrades a queued re-read; nothing else is added twice.
Adds(job) ==
  /\ current # NoRead => current.post # job.post
  /\ \A i \in 1..Len(queue) : queue[i].post = job.post => Click(job) /\ ~ Click(queue[i])

Ask(job) ==
  /\ job \in Asks \ asked
  /\ asked' = asked \cup {job}
  /\ IF Adds(job)
     THEN /\ queue' = ClicksFirst(Append(Kept(queue, {j \in Jobs : j.post # job.post}), job))
          /\ Wake(1)
     ELSE Wake(0) /\ UNCHANGED queue
  /\ UNCHANGED <<current, pause, slot, alarm, stops, kpc, seen, ktab, fins, pages, events>>

-----------------------------------------------------------------------------
(* kickOnce() *)

Goto(label) == kpc' = label
KickEnds == kpc' = "idle" /\ seen' = <<>> /\ ktab' = NoTab

\* Mutant: finishRead() does not ask whose read is current.
FinishAnyRead(t, by) ==
  fins' = fins \cup {[tab |-> t, visible |-> current # NoRead /\ Visible(current), by |-> by,
                      at |-> "clear", next |-> "none"]}

\* finishRead(): the read in tab t is over, if it is still the current one.
FinishRead(t, by) ==
  fins' = IF Reading(t)
          THEN fins \cup {[tab |-> t, visible |-> Visible(current), by |-> by,
                           at |-> "clear", next |-> "none"]}
          ELSE fins

Kick ==
  /\ kpc = "idle" /\ kicks > 0
  /\ kicks' = kicks - 1
  /\ Goto("look")
  /\ UNCHANGED <<stored, slot, alarm, asked, up, stops, seen, ktab, fins, pages, events>>

\* await getReaderState()
LookAtCurrent ==
  /\ kpc = "look" /\ current # NoRead
  /\ IF TimedOut(current)
     THEN FinishRead(current.tab, "kick") /\ Goto("timeout")
     ELSE Goto("idle") /\ UNCHANGED fins
  /\ UNCHANGED <<stored, slot, alarm, asked, up, stops, kicks, seen, ktab, pages, events>>

\* Mutant: automatic reads are not paced.
LookAtQueueUnpaced ==
  /\ kpc = "look" /\ current = NoRead
  /\ \/ queue = <<>> /\ Goto("idle") /\ UNCHANGED seen
     \/ /\ queue # <<>>
        /\ seen' = queue
        /\ Goto(IF Click(Head(queue)) THEN "acquire" ELSE "query")
  /\ UNCHANGED <<stored, slot, alarm, asked, up, stops, kicks, ktab, fins, pages, events>>

LookAtQueue ==
  /\ kpc = "look" /\ current = NoRead
  /\ \/ queue = <<>> /\ Goto("idle") /\ UNCHANGED <<alarm, seen>>
     \/ /\ queue # <<>> /\ ~ Click(Head(queue)) /\ pause < Gap
        /\ alarm' = Gap - pause
        /\ Goto("idle")
        /\ UNCHANGED seen
     \/ /\ queue # <<>> /\ (Click(Head(queue)) \/ pause >= Gap)
        /\ seen' = queue
        /\ Goto(IF Click(Head(queue)) THEN "acquire" ELSE "query")
        /\ UNCHANGED alarm
  /\ UNCHANGED <<stored, slot, asked, up, stops, kicks, ktab, fins, pages, events>>

\* await chrome.idle.queryState(): away drops the automatic reads and starts over.
Query ==
  /\ kpc = "query"
  /\ \/ Goto("acquire") /\ UNCHANGED <<queue, seen>>
     \/ queue' = Kept(Tail(seen), Clicks) /\ seen' = <<>> /\ Goto("look")
  /\ UNCHANGED <<current, pause, slot, alarm, asked, up, stops, kicks, ktab, fins, pages, events>>

\* Mutants: a busy slot is not retried; the answer of acquire() is not looked at.
AcquireOnce ==
  /\ kpc = "acquire"
  /\ \/ Free(slot) /\ slot' = Taken(Reader, NoTab) /\ Goto("open") /\ UNCHANGED seen
     \/ ~ Free(slot) /\ Goto("idle") /\ seen' = <<>> /\ UNCHANGED slot
  /\ UNCHANGED <<stored, alarm, asked, up, stops, kicks, ktab, fins, pages, events>>
AcquireOrNot ==
  /\ kpc = "acquire"
  /\ slot' = IF Free(slot) THEN Taken(Reader, NoTab) ELSE slot
  /\ Goto("open")
  /\ UNCHANGED <<stored, alarm, asked, up, stops, kicks, seen, ktab, fins, pages, events>>

\* await facebookSlot.acquire("reader", -1), or later(SLOT_RETRY_MS)
Acquire ==
  /\ kpc = "acquire"
  /\ \/ Free(slot) /\ slot' = Taken(Reader, NoTab) /\ Goto("open") /\ UNCHANGED <<alarm, seen>>
     \/ ~ Free(slot) /\ alarm' = Gap /\ Goto("idle") /\ seen' = <<>> /\ UNCHANGED slot
  /\ UNCHANGED <<stored, asked, up, stops, kicks, ktab, fins, pages, events>>

\* A tab ID nobody remembers; Chrome gives each new tab a new one.
Fresh(t) ==
  /\ page[t] = "none"
  /\ t \notin removed \cup reports
  /\ ~ Reading(t)
  /\ \A f \in fins : f.tab # t
  /\ slot # NoSlot => slot.tab # t

\* await chrome.tabs.create()
Open ==
  /\ kpc = "open"
  /\ \/ /\ \E t \in Tabs :
             /\ Fresh(t)
             /\ page' = [page EXCEPT ![t] = "loading"]
             /\ spent' = [spent EXCEPT ![t] = 0]
             /\ ktab' = t
        /\ Goto("move")
        /\ UNCHANGED slot
     \/ /\ TabsMayFail
        /\ slot' = Released(slot, Reader, NoTab)
        /\ Goto("notab")
        /\ UNCHANGED <<pages, ktab>>
  /\ UNCHANGED <<stored, alarm, asked, up, stops, kicks, seen, fins, events>>

NoTabOpened ==
  /\ kpc = "notab"
  /\ queue' = Tail(seen) /\ pause' = 0
  /\ KickEnds
  /\ UNCHANGED <<current, slot, alarm, asked, up, stops, kicks, fins, pages, events>>

\* await facebookSlot.moveTo("reader", -1, tabId)
Move ==
  /\ kpc = "move"
  /\ slot' = Moved(slot, Reader, NoTab, ktab)
  /\ Goto("record")
  /\ UNCHANGED <<stored, alarm, asked, up, stops, kicks, seen, ktab, fins, pages, events>>

\* await setReaderState({ queue: rest, current: ... }): `rest` as it was when this
\* kick looked.  A state change asked for earlier goes first (stateQueue).
Record ==
  /\ kpc = "record"
  /\ \A f \in fins : f.at # "clear"
  /\ queue' = Tail(seen)
  /\ current' = [post |-> Head(seen).post, kind |-> Head(seen).kind, tab |-> ktab, age |-> 0]
  /\ Goto("arm")
  /\ UNCHANGED <<pause, slot, alarm, asked, up, stops, kicks, seen, ktab, fins, pages, events>>

\* await later(limit + 5000), a dozen awaits after the slot was free.
Arm ==
  /\ kpc = "arm"
  /\ FinishMayLag \/ fins = {}
  /\ alarm' = LimitOf(Head(seen))
  /\ Goto("load")
  /\ UNCHANGED <<stored, slot, asked, up, stops, kicks, seen, ktab, fins, pages, events>>

\* await waitForTabLoad(tabId): false when the tab is gone or slow.
Load ==
  /\ kpc = "load"
  /\ \/ page[ktab] = "ready" /\ Goto("send") /\ UNCHANGED fins
     \/ /\ page[ktab] = "none" \/ spent[ktab] >= Loading
        /\ FinishRead(ktab, "kick") /\ Goto("giveup")
  /\ UNCHANGED <<stored, slot, alarm, asked, up, stops, kicks, seen, ktab, pages, events>>

\* await chrome.tabs.sendMessage(): the page starts reading, or there is no
\* content script in it (or no page).
Send ==
  /\ kpc = "send"
  /\ \/ /\ page[ktab] = "ready"
        /\ page' = [page EXCEPT ![ktab] = "reading"]
        /\ spent' = [spent EXCEPT ![ktab] = 0]
        /\ KickEnds
        /\ UNCHANGED fins
     \/ FinishRead(ktab, "kick") /\ Goto("giveup") /\ UNCHANGED <<pages, seen, ktab>>
  /\ UNCHANGED <<stored, slot, alarm, asked, up, stops, kicks, events>>

\* The finishRead() this kick waited for has returned.
AfterFinish ==
  /\ kpc \in {"timeout", "giveup"}
  /\ \A f \in fins : f.by # "kick"
  /\ IF kpc = "timeout" THEN Goto("look") /\ UNCHANGED <<seen, ktab>> ELSE KickEnds
  /\ UNCHANGED <<stored, slot, alarm, asked, up, stops, kicks, fins, pages, events>>

-----------------------------------------------------------------------------
(* finishRead(), after its check *)

\* await setReaderState({ current: null, ... })
Clear(f) ==
  /\ f \in fins /\ f.at = "clear"
  /\ current' = NoRead /\ pause' = 0
  /\ LET next == IF queue = <<>> THEN "none" ELSE IF Click(Head(queue)) THEN "click" ELSE "auto"
     IN  fins' = (fins \ {f}) \cup {[f EXCEPT !.at = "close", !.next = next]}
  /\ UNCHANGED <<queue, slot, alarm, asked, up, stops, kick, pages, events>>

\* A hidden tab is closed, a visible one left to you; the slot is freed; then the
\* next read is started or put off.
Close(f) ==
  /\ f \in fins /\ f.at = "close"
  /\ fins' = fins \ {f}
  /\ page' = [page EXCEPT ![f.tab] = "none"]
  /\ removed' = IF ~ f.visible /\ page[f.tab] # "none" THEN removed \cup {f.tab} ELSE removed
  /\ slot' = Released(slot, Reader, f.tab)
  /\ kicks' = IF f.next = "click" THEN kicks + 1 ELSE kicks
  /\ alarm' = IF f.next = "auto" THEN Gap ELSE alarm
  /\ UNCHANGED <<stored, asked, up, stops, kpc, seen, ktab, spent, reports>>

-----------------------------------------------------------------------------
(* The events that drive the reader *)

\* Mutant: the alarm has another name.
AlarmIsIgnored ==
  /\ alarm = 0
  /\ alarm' = NoAlarm
  /\ Wake(0)
  /\ UNCHANGED <<stored, slot, asked, stops, kpc, seen, ktab, fins, pages, events>>

\* chrome.alarms.onAlarm
AlarmFires ==
  /\ alarm = 0
  /\ alarm' = NoAlarm
  /\ Wake(1)
  /\ UNCHANGED <<stored, slot, asked, stops, kpc, seen, ktab, fins, pages, events>>

\* READ_DONE
Reported(t) ==
  /\ t \in reports
  /\ reports' = reports \ {t}
  /\ FinishRead(t, "report")
  /\ Wake(0)
  /\ UNCHANGED <<stored, slot, alarm, asked, stops, kpc, seen, ktab, pages, removed>>

\* chrome.tabs.onRemoved
TabRemoved(t) ==
  /\ t \in removed
  /\ removed' = removed \ {t}
  /\ FinishRead(t, "removed")
  /\ slot' = TabReleased(slot, t)
  /\ Wake(0)
  /\ UNCHANGED <<stored, alarm, asked, stops, kpc, seen, ktab, pages, reports>>

AtRest == kpc = "idle" /\ kicks = 0 /\ fins = {}

\* Chrome stops a worker that has nothing to do; the next event starts it again.
WorkerRests ==
  /\ up /\ AtRest
  /\ up' = FALSE
  /\ UNCHANGED <<stored, slot, alarm, asked, stops, kick, fins, pages, events>>

\* Chrome stops the worker at its work: what it was about to do is not done.
WorkerStops ==
  /\ up /\ ~ AtRest /\ stops < MaxStops
  /\ up' = FALSE /\ stops' = stops + 1
  /\ kicks' = 0 /\ KickEnds /\ fins' = {}
  /\ UNCHANGED <<stored, slot, alarm, asked, pages, events>>

-----------------------------------------------------------------------------
(* The tabs, the rest of the extension, and time *)

PageLoads(t) ==
  /\ page[t] = "loading"
  /\ page' = [page EXCEPT ![t] = "ready"]
  /\ UNCHANGED <<stored, slot, alarm, asked, up, stops, kick, fins, spent, events>>

PageReports(t) ==
  /\ page[t] = "reading"
  /\ page' = [page EXCEPT ![t] = "ready"]
  /\ reports' = reports \cup {t}
  /\ UNCHANGED <<stored, slot, alarm, asked, up, stops, kick, fins, spent, removed>>

\* The page dies or is navigated away from: nothing is reported.
PageDies(t) ==
  /\ page[t] = "reading"
  /\ page' = [page EXCEPT ![t] = "ready"]
  /\ UNCHANGED <<stored, slot, alarm, asked, up, stops, kick, fins, spent, events>>

UserCloses(t) ==
  /\ page[t] # "none"
  /\ page' = [page EXCEPT ![t] = "none"]
  /\ removed' = removed \cup {t}
  /\ UNCHANGED <<stored, slot, alarm, asked, up, stops, kick, fins, spent, reports>>

OtherTakes ==
  /\ Free(slot)
  /\ slot' = Taken(Other, NoTab)
  /\ UNCHANGED <<stored, alarm, asked, up, stops, kick, fins, pages, events>>

OtherEnds ==
  /\ HeldBy(slot, Other, NoTab)
  /\ slot' = Released(slot, Other, NoTab)
  /\ UNCHANGED <<stored, alarm, asked, up, stops, kick, fins, pages, events>>

\* Nothing the worker can do at once is left.
Settled ==
  /\ fins = {} /\ removed = {} /\ reports = {}
  /\ alarm # 0
  /\ \/ kpc = "idle" /\ kicks = 0
     \/ kpc = "load" /\ page[ktab] = "loading" /\ spent[ktab] < Loading

Tick ==
  /\ Settled
  /\ \A t \in Tabs : page[t] = "reading" => spent[t] < Cap
  /\ pause' = IF pause < Gap THEN pause + 1 ELSE pause
  /\ current' = IF current # NoRead /\ ~ TimedOut(current)
                THEN [current EXCEPT !.age = @ + 1] ELSE current
  /\ slot' = Older(slot)
  /\ alarm' = IF alarm = NoAlarm THEN NoAlarm ELSE alarm - 1
  /\ spent' = [t \in Tabs |-> IF \/ page[t] = "reading"
                                 \/ page[t] = "loading" /\ spent[t] < Loading
                              THEN spent[t] + 1 ELSE spent[t]]
  /\ UNCHANGED <<queue, asked, up, stops, kick, fins, page, events>>

KickStep ==
  \/ Kick \/ LookAtCurrent \/ LookAtQueue \/ Query \/ Acquire \/ Open \/ NoTabOpened \/ Move
  \/ Record \/ Arm \/ Load \/ Send \/ AfterFinish

FinishStep == \E f \in fins : Clear(f) \/ Close(f)

Event == AlarmFires \/ \E t \in Tabs : Reported(t) \/ TabRemoved(t)

PageStep == \E t \in Tabs : PageLoads(t) \/ PageReports(t) \/ PageDies(t) \/ UserCloses(t)

Next ==
  \/ \E job \in Asks : Ask(job)
  \/ KickStep \/ FinishStep \/ Event
  \/ PageStep
  \/ OtherTakes \/ OtherEnds
  \/ WorkerRests \/ WorkerStops
  \/ Tick

Spec == Init /\ [][Next]_vars

\* The worker's steps are taken, events are delivered, time passes, and an
\* activity that holds the slot ends.  Pages owe nothing: the reader's own time
\* limits have to do.  A reader that keeps trying finds the slot free some time:
\* scans come at intervals of 8 minutes or more, or when you ask for one.
Fairness ==
  /\ WF_vars(KickStep) /\ WF_vars(FinishStep) /\ WF_vars(Event)
  /\ WF_vars(OtherEnds)
  /\ []<>(kpc = "acquire") => []<>(kpc = "acquire" /\ Free(slot))
  /\ SF_vars(Acquire /\ Free(slot))
  /\ WF_vars(Tick)
  /\ \A t \in Tabs : WF_vars(page[t] = "reading" /\ spent[t] >= Cap /\ PageReports(t))

FairSpec == Spec /\ Fairness

-----------------------------------------------------------------------------
(* Properties *)

\* No post is queued twice, or queued while it is being read (enqueueReads).
NoPostTwice ==
  /\ \A i, j \in 1..Len(queue) : queue[i].post = queue[j].post => i = j
  /\ current # NoRead => ~ Queued(current.post)

\* "Your clicks in the overview ... go first" (reader.ts:11).
ClicksGoFirst ==
  \A i, j \in 1..Len(queue) : i < j /\ Click(queue[j]) => Click(queue[i])

\* The queue is sound: one job per post, clicks first.
QueueInOrder == NoPostTwice /\ ClicksGoFirst

\* "Every read takes the one Facebook slot first" (reader.ts:13): a page reads only
\* under the slot, whether or not the worker that started it is still there.
ReadsWithSlot ==
  \A t \in Tabs : page[t] = "reading" => HeldBy(slot, Reader, t)

\* As long as the worker is not stopped at its work, the page does not even load
\* without it.
LoadsWithSlot ==
  \A t \in Tabs : stops = 0 /\ page[t] = "loading" =>
    \/ HeldBy(slot, Reader, t)
    \/ ktab = t /\ HeldBy(slot, Reader, NoTab)

\* The read in flight keeps the slot until it is over or its tab is gone: its time
\* limits end it before the slot expires.
CurrentHasSlot ==
  current # NoRead => page[current.tab] = "none" \/ HeldBy(slot, Reader, current.tab)

\* "open a second tab, and leave the first one open" (reader.ts:41-42) never
\* happens while the worker is not stopped at its work: each open tab is the current read's, or
\* somebody is about to make it so or to close it.
NoTabLeftOpen ==
  \A t \in Tabs : stops = 0 /\ page[t] # "none" =>
    Reading(t) \/ ktab = t \/ \E f \in fins : f.tab = t

\* Every tab the reader opened is accounted for: it loads and reads under the slot, and
\* none is forgotten.
TabsAccountedFor == ReadsWithSlot /\ LoadsWithSlot /\ NoTabLeftOpen

\* "Starts the next read if nothing is in flight; reschedules itself when it has to
\* wait" (reader.ts:94), "finish or time out reads left over" (index.ts:158): when
\* the worker rests or has been stopped while it rested, an alarm will bring it back
\* to whatever is left to do.
NeverStuck ==
  Settled /\ kpc = "idle" /\ alarm = NoAlarm => queue = <<>> /\ current = NoRead

\* What is in flight or queued goes on: the read keeps the slot, the rest an alarm.
\* This is so until the first mishap (README, Remarks).
GoesOn == CurrentHasSlot /\ NeverStuck

\* The steps after which nobody may look at the queue again before the next event: the
\* worker is stopped at its work; no tab can be opened while more is queued
\* (reader.ts:128); the alarm of a read is set while the end of an earlier one has its
\* own still to set (reader.ts:173).
Mishap ==
  \/ WorkerStops
  \/ kpc = "open" /\ kpc' = "notab" /\ Tail(seen) # <<>>
  \/ /\ kpc = "arm" /\ kpc' = "load" /\ current # NoRead
     /\ \E f \in fins : f.at = "close" /\ f.next = "auto"

\* "Automatic re-reads are paced": a tab is opened for one only when the pause after
\* the read before is over.
Paced ==
  [][kpc = "open" /\ kpc' = "move" /\ ~ Click(Head(seen)) => pause >= Gap]_vars

\* A post in the queue is read, or dropped; it does not wait for ever.
QueuedIsServed == \A p \in Posts : Queued(p) ~> ~ Queued(p)

\* README.md:108: "your Read waits ("Queued") and starts as soon as it's done": a
\* click leaves the queue by being read, or because no tab could be opened.
ClickQueued(p) == \E i \in 1..Len(queue) : queue[i].post = p /\ Click(queue[i])

ClickIsNotLost ==
  [][\A p \in Posts : ClickQueued(p) /\ ~ ClickQueued(p)' =>
       \/ current' # NoRead /\ current'.post = p /\ Click(current')
       \/ kpc = "notab" /\ Head(seen).post = p]_vars

\* Not kept (README, Remarks).  content/post/index.ts:127 "A quiet read must always report back: cap it, and read
\* whatever has loaded by then": the reader does not close a tab on a read that is
\* still within its cap.
ReadIsNotCut ==
  \A f \in fins : f.at = "close" /\ ~ f.visible => page[f.tab] # "reading"
=============================================================================
