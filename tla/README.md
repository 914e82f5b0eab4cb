# Verification of PokemonCollector

TLA+ specifications of the programs in this repository, the TLC configurations
that check them on small instances, and TLAPS proofs of the theorems that
matter most. `PROJECT.json` is the index: components, runs, mutants, the map
from definitions to source lines, findings, hazards and theorems.

## The system

The repository holds two programs that work together, and some tools.

**fb_auction_watcher** is a Chrome (Manifest V3) extension. Content scripts in
Facebook tabs scan a group feed and read posts; a service worker schedules that
work; an overview page shows what was found and queues reads. Chrome may stop the
worker at any await and starts it again for the next event.

**tcg_inventory** is a FastAPI application on serverless instances with one
database. Cron calls and clicks start background jobs; pages show and edit the
collection. Any instance may be killed, above all at the 300 s limit, and two
requests, or a request and a job, may overlap.

| component | state it keeps | operations | interacts by | hard behaviour | what makes it correct |
|---|---|---|---|---|---|
| job lock (`job_locks.py`) | table `job_locks` | acquire, release, reap_stale | conditional statements in one database | racing instances, kills, failed writes, stale rows | single flight; a dead run is recorded once and never while alive; no lock blocks for ever |
| job service (`jobs.py`, `sync_status.py`) | `import_log`, the day's snapshots | the jobs, record_run, overview | the job lock, the services below | kills between commits, a daily request cap | the log says what was committed, caps hold |
| Facebook slot (`slot.ts`) | `facebookSlot` in session storage, a promise chain in memory | acquire, release, moveTo, releaseTab, acquireWhenFree | shared by all activities | read-modify-write across awaits, worker stops, expiry | one activity at a time; nobody frees another's slot; a forgotten slot comes free |
| post reader (`reader.ts`) | `readerState` in local storage, one alarm, two chains in memory | enqueueReads, kickReader, finishRead | slot, tabs, alarms, messages | stale snapshots, duplicate endings, late alarms, stops | no click lost, no tab forgotten, always an alarm for what is left, pacing |
| tab activities (`index.ts`, `autoScan.ts`, `content/post/index.ts`) | the slot, `running` in each tab, `autoScanState` | menu scan and read, continue, scan in a new tab, automatic scan | slot, messages both ways, tab events | closed tabs, reloads, two-step release, silence | one tab talks to Facebook; whoever takes the slot frees it |
| captures, store, watch (`store/`, `captures.ts`, `watch.ts`, `notify.ts`) | IndexedDB, `notified` | saveCapture, merge, watchMyAuctions, showNotes, retention | handlers of `index.ts` | merges racing with saves, partial reads, removed bids | a result holds every bid; each notice is shown once |
| Claude queue (`claude.ts`, `claudeQueue.ts`) | answers, failures, photo-call log, in-memory flags | scheduleClaude, run | native host, store | lost runs, cooldown, cap | an item is asked until answered or skipped; the hourly cap |
| won inbox (`inbox.ts`, `won_inbox.py`) | `inboxSent`; `won_items` | send, upsert, ignore, complete, register, link | HTTP between the two programs | lost answers, resends, concurrent edits | a win goes where its card goes; no money counted twice |
| orders and listings (`app.py`, `queries.py`, `missing_cards.py`) | transactions, listings | CRUD handlers | one database | overlapping requests | orders never merge, a submit that comes after a sale sells nothing |
| Dex import (`importer.py`, ...) | the collection | match, import, flag missing, override | Dropbox, job service | truncated and late exports | the circuit breaker; what is flagged is missing |
| pricing (`pricing.py`, `tcgdex_prices.py`, `poketrace_prices.py`, `fx_rates.py`) | prices per source, dates of failures, rates | passes, resolve | price services, job service | partial runs, two jobs, budgets | the chain of sources; every card has its turn |
| reports (`queries.py`) | none, snapshots | dashboard, history, transactions, collections | the tables above | the same figure computed several ways | the pages agree |
| sets, checklists, card lists (`set_sync.py`, `set_checklist_seed.py`, `card_lists.py`, ...) | sets, master cards, checklists, lists | syncs, backfill, seed, list edits | the cards of the sync | one row written by several processes | one slot per print; links follow cards |
| feed scan, post extraction, domain parsing, images, authentication, overview pages, finn.no scraper, tools | see `PROJECT.json` | | | sequential or presentation | |

## The modules

```
SingleFlight  <== JobLocks            JobLocks refines SingleFlight
AtomicSlot    <== FacebookSlot        FacebookSlot refines AtomicSlot
SlotOps       the operations of slot.ts as functions, used by AtomicSlot,
              FacebookSlot, PostReader and TabActivities
Counting      places in a finite set of numbers, what a sequence keeps of a set, and
              sums: used by PostReader, Orders, WonSale, Rotation and all reports
Shop          Orders (extended), WonSale, Listings, MasterSets, Checklists, Sets, SetRanks
Daily         DexSync (extended), DailyJobs (twice), Prices, ExchangeRates, History,
              Collections, PokemonFolders, Ledger
Served        Captures (extended), Rotation, ClaudeQueue
MCX           values for the constants of X
XProofs       theorems about X: JobLocks, FacebookSlot, PostReader, TabActivities, Shop,
              Daily, Served; CountingProofs has the laws of Counting
```

`Shop`, `Daily` and `Served` put together components of the two programs that keep data
of their own. Each extends one of them and instantiates the others over the shared
variables `s1`, `s2`, ... The variable `part` says which one the behaviour is about: an
initial state picks it, and only its next-state relation moves. So one run checks, and
one module proves, several components, each on its own, and a property `part = "x" =>
X!P` is about that component alone. The component that the module extends has variables
of its own, which rest while another part moves. A property of these modules gathers the
related statements of its parts; each of those is stated and explained in the part's
module, and has a mutant of its own. `DailyJobs` is there once with the jobs that take
snapshots and once with those that take none; `Rotation` has the TCGdex pass, with a
budget that fits its cards and with one that does not, and the PokeTrace pass, with its batches.

### JobLocks, SingleFlight

One step is one committed statement or one read of the database.

| model | code |
|---|---|
| `row[j]` | job j's row of `job_locks`, named by the run whose token it carries |
| `Begin` `Insert` `Look` `TakeOver` `Relook` `Record` | `acquire()`: `now`, INSERT, `_read`, conditional UPDATE, `_read` again, `_record_interrupted` |
| `TryAgain` | the recursion with `_attempts - 1` and the same `now` |
| `Save` `BodyEnds` `Release` | the body of `jobs._single_flight`, its `finally`, `release()` |
| `Scan` `Reap` `ReapRecord` `ReapEnds` `ReaperDies` | `reap_stale()`, run by each load of `/sync-status` |
| `Kill`, `Tick` | a process dies at any point; time, where no process gets older than `MaxRun` |
| `LogMayFail` | `record_run()` swallows its errors |

`SingleFlight` is the promise without the steps: a job has at most one holder,
it changes hands only once its run is over, and a run is declared interrupted
once and only when over.

### SlotOps, FacebookSlot, AtomicSlot

`FacebookSlot` splits each operation at its awaits: it joins the promise chain
(`Ask*`, `CloseTab`), reads storage when its turn comes (`Get`) and writes it back
(`Set`). `WorkerStops` forgets the chain and every waiting caller; a content
script that works goes on, or not. `owner` and `lapsed` are history variables.
`AtomicSlot` is what the rest of the extension may assume: each operation is one
step. `PostReader` and `TabActivities` rely on it.

### PostReader

One step is what happens between two awaits of `kickOnce()` and `finishRead()`.

| model | code |
|---|---|
| `queue`, `current`, `pause` | `readerState.queue`, `.current` with its age, time since `.lastAt` |
| `kicks`, `kpc`, `seen`, `ktab` | the chain `kicking`, the place in the running `kickOnce()`, its `state.queue`, its `tabId` |
| `fins` | the running copies of `finishRead()`: after a report, a closed tab, a time-out, a failed load |
| `alarm` | the one alarm `fbaw-reader` |
| `page`, `spent` | what each tab the reader opened is doing and for how long |
| `removed`, `reports` | `tabs.onRemoved` events and `READ_DONE` messages on their way |

`Record` writes back the queue this kick looked at, as the code does, not the
queue of that moment. `FinishMayLag` says whether a `finishRead()` may be overtaken
by the whole start of the next read; `TabsMayFail` and `MaxStops` switch failures on.
Chrome may stop a worker that has nothing to do at any time (`WorkerRests`), and one at work
`MaxStops` times (`WorkerStops`). `Mishap` names the three steps after which the queue may
wait for an event from outside.

### TabActivities

The activities that work in a tab of yours. `pc` is the place in the function of
the worker, `run` is the content script's `running` flag and for whom, `dones`,
`halfDone` and `autoDone` are the `ACTIVITY_DONE` messages, their handlers between
the two releases, and `AUTO_SCAN_DONE`. Nothing keeps work within the slot's limit, nor a
read out of a scan's tab: the history variable `astray` says that the slot has been lost
at work in one of these ways (`Outlasts`, `Crosses`), and the properties are stated of
the time before. The variable `calm` is chosen in the initial state and never changes: in a calm
behaviour no tab is closed, no page dies and the worker is not stopped.

### Captures, ClaudeQueue

`Captures` is one auction: `there` is what Facebook shows, `stored` the merged
capture, and each handler of `SAVE_POST_CAPTURE` reads the earlier one (`Get`), writes
the merged one (`Put`) and shows the result note (`Note`), with other handlers and stops
of the worker between. A read takes minutes: it begins, bids load one by one while others are
made and deleted, and it is stamped when it ends. A complete one has every bid that was
there when it began, and of those made meanwhile the ones that happened to load; a
partial one has some. `missed` keeps what a capture lacks of the bids that were there when
the read that settled it began.

`ClaudeQueue` has the debounce timer, the `running` and `again` flags, the
stored failures with their attempts, the pause after a global error and the hourly
log of photo requests. After the texts and the photos of claim lots come the lots to name, in
batches of up to `PerCall` photos, one that failed before alone; all photos count against one
cap. `MatchOf` says which photo's answer opens a text item. A batch's reply names all of its
lots or fails (a partial reply leaves the others for the next run, without a failure), and the
slices of the other kinds (`MAX_END_TIMES`, `MAX_BIDS`, `MAX_CLAIM_MATCHES`) and a lot whose
auction closes while it waits for a name are left out.

### Orders, WonSale, Listings, Ledger

`Orders` keeps the rows of `transactions` by purchase_id and the `won_items` that point
at them. A request is one step, except Register, which checks linked items, takes the
Order ID lock and commits in three. `WonSale` has the money of a sale: what
`open_sale()` leaves of it for the next cart's Total. `Listings` splits Mark sold into
the check and the commit, and the deletion of a missing card into its checks, the flush that
reads the card's rows, and the DELETE, which cascades to a row committed since; a listing may
be delisted or deleted from a stale page at any time. `Ledger` computes, from
one table of rows, what each page computes on each load: shipping shares,
net invested, FIFO costs, held copies, order gains and the headline; `qty` follows
only with the next import.

### MasterSets, Checklists, Sets, SetRanks

`Checklists` creates master cards from Dex's cards and from the seed, whose read and
commit are apart, so that imports and corrections come between. `MasterSets` counts a
checklist against the cards, with the want and sale lists built from it. `Sets` has
the link of each card to its set, which a sync and a cold start's backfill, both reading first
and writing later, write beside each other (`mixed` keeps the cards for which one came
between the other's steps). `SetRanks` has the ranks and sizes the monthly set sync fills in
from a catalogue that grows by new sets, by older ones, by sets of the same day and by
sets without a date; each rank remembers the list it was given from.

### DexSync, DailyJobs

`DexSync` goes from the files in the folder to the commit: which files are read, the
circuit breaker and the override that confirms a count, cards, binders, collections,
copies on the way, the missing flag. The loop over the other categories is given by what
it leaves behind: a card is in the last binder category read that lists it, and in
each collection read that lists it (`BinderOf`, `CollsOf`). `DailyJobs` has the bodies of the jobs as
sequences of commits with kills between them, the snapshot's read and write, the log row of
each run and PokeTrace's requests. A killed run is recorded only by the next run of its job
or load of the status page, with the time it started at, so that its row is not the latest
where the run had recorded something itself (`Interrupted`). A failure of `record_run()`
itself, and a recorder that dies between its two statements, are in `JobLocks` only.

### Prices, Rotation, ExchangeRates

`Prices` is one card: its rows of `card_prices`, two jobs with one transaction each, and
the resolve that reads the rows (`Begin`), then the card (`Compare`), and commits later. Ages
are in days; `clean` says that no other commit came between. `Rotation` is a day's pass over all cards: the
order, the requests (PokeTrace's for several cards at once, where their IDs are known; cards
that share a product ID are one), the budget, misses, the errors in a row that end it, the
batches of commits. `ExchangeRates`
has each process's cache and last known rates, the shared table, and an API that
answers fully, in part or not at all; what an answer lacked is kept from before (`kept`) or
filled in with a constant (`filled`), each with the age it has.

### History, Collections, PokemonFolders

`History` takes snapshots, changes prices, drops those of another print as the price jobs
do (`DropOtherPrint`), and defines the four reports as the four queries compute them. `Collections` stores nothing but cards: overview, pages and set homes are
operators over them, as in the code. `PokemonFolders` has requests that read the
aliases and write later.

## The runs

| run | shows | bounds |
|---|---|---|
| `job_lock` | `BodyHoldsTheRow`, `InterruptedOnlyWhenOver`, refinement of `SingleFlight` | 3 runs of one job, 1 page load at a time, clock to 6, `StaleAfter` = `MaxRun` = 2 |
| `job_lock_slow` | `InterruptedAtMostOnce`, `RowTakenOnlyFromOverOrStale` without the kill limit; `DeadLockGoesAway` | 2 runs, 1 page load, `MaxRun` 4 |
| `slot` | `OneActivity`, `OwnerKeepsSlot`, refinement of `AtomicSlot`, `AskersAreAnswered`, `SlotComesFree` | a read opening its tab and a read from the menu there, 2 tabs |
| `reader` | `QueueInOrder` (no post twice, clicks first), `TabsAccountedFor` (reads and loads hold the slot, no tab left open), `Paced` | 2 posts, 2 re-reads and a click, 2 tabs, failing tabs, late finishes, one stop at any await and any number at rest |
| `reader_live` | `GoesOn` (the read in flight keeps the slot, what is left has an alarm), `QueuedIsServed` | a re-read and a click; tabs open, no late finish, stops at rest only |
| `tabs` | `OneTabTalks`; `CalmSlotIsInUse` in the calm behaviours, where nothing fails but the content script's answer; both until the slot is lost at work | six activities, among them a read in the tab of a scan, three tabs, closed tabs, dying pages, stops |
| `shop` | `OrdersStayWhole`, `HandEntriesStay`, `SoldOnceForGood`, `ListsFollowHoldings`, `SeedSettles`, `SetsLinked`, `ShopTypeOK` | see below |
| `daily` | `FollowsTheExport`, `JobsDoAsLogged`, `PriceHolds`, `ChartAddsUp`, `GroupsAreComplete`, `BooksAgree`, `DailyTypeOK` | see below |
| `served` | `ResultHoldsEveryBid`, `WithinLimits`, `ServedInTheEnd`, `ServedTypeOK` | see below |
| `reader_lost`, `won_totals`, `held_sold` | violations, see Findings | |

Deadlock is checked except in `JobLocks`, `TabActivities` and `Shop`, where every run,
activity or request happens a bounded number of times and the system may really come
to rest.

### What the gathered properties say

- `OrdersStayWhole`: concurrent carts never merge into one order
  (`OneFlowPerOrder`), a win follows its rows through Edit order (`FollowsItsCards`), an
  ignored win stays ignored when sent again (`IgnoredStays`).
- `HandEntriesStay`: a typed quantity survives a bulk add (`TypedQtyStays`), a manual ID
  survives the runs that read it (`ManualIdStays`).
- `SoldOnceForGood`: a submit that comes after a sale of its listing sells nothing unless
  the sale was delisted (`SoldOnce`), no request deletes a sale's row that was there when the
  deletion of its card looked for rows (`HistoryKept`), no money of a sale is in two
  Totals unless a lot was linked while on an order (`MoneyOnceUnlessAgain`).
- `ListsFollowHoldings`: `EveryOwnedCardOnce`, `WantsWhatItCounts`, `KeepsOneCopy`.
- `SeedSettles`: after a seed each print has one slot, the owned print has it, and a
  second seed has nothing to do.
- `SetsLinked`: every card links to its set but one that a cold start wrote between a sync's
  read and write (`CardsLinked`); ranks given in different months compare as the releases do,
  unless an older set was listed in between (`RanksFollowDates`).
- `BooksAgree`: net invested is the same by card, by month and in all (`InvestedAlike`) and
  charges each order's shipping once (`ShippingOnce`, for shares in whole numbers; the
  code's are floats that are not rounded, `queries.py:1409`); a sale brings in the same on
  every page (`SameOnEveryPage`); each disposal is costed against the oldest free copy
  (`OldestCopyFirst`); the gains of the orders and the sales are the headline's, once every
  copy has its row (`GainsAddUp`); a typed fee is split without remainder (`FeesAddUp`).
- `FollowsTheExport`: `FlaggedIsMissing`, `OnTheWayIsExported`, `BindersAsExported`, and
  no sync flags most cards unless a user confirmed that very count (`NoMassFlagging`).
- `JobsDoAsLogged`: "ok" means everything was committed, unless a sync was killed after
  its import, or TCGdex's pass failed, which the job does not count (`OkMeansDone`); PokeTrace's
  requests stay in the cap but for those of killed runs (`RecordedWithinCap`); the snapshot
  after a sync has its quantities (`SnapshotIsPostSync`).
- `PriceHolds`: `MarketIsBest` (by the chain, when resolved last), `StaysPriced` (no failure
  takes a stored price, and no commit the price of a card, unless another job's commit came
  between), `NoOtherPrint`, and rates that are observed (`UsableIsObserved`) and, where an
  answer had them, less than twice their TTL old (`LiveIsRecent`).
- `ChartAddsUp`: `ChangeAddsUp`, `SwitchesAgree`, `MoversKeepTheirSource` (save where the guess
  of an old row's source is wrong), `LiveNoteHolds`.
- `GroupsAreComplete`: Collections and Bulk are the headline (`CountedOnce`), a set's link
  leads to a page with its block (`HomeShowsItsSet`), every owned card of a collection is on
  its page (`NoCardLost`), duplicates leave a copy of each print (`LeavesACopy`); one hop
  leads to a Pokémon's folder (`OneHop`), and favorites are folders (`FavoritesShow`).
- `WithinLimits`: no hour has more photo requests than the cap (`WithinPhotoCap`), and a
  lookup that found nothing is not repeated too soon (`MissesWait`).
- `ServedInTheEnd`: every card that does not fail for good is answered again and again when
  the budget fits (`EveryCardIsAnswered`); with more cards than that, those with a price of
  the pass's own or with none at all still are (`PricedIsAnswered`); every item Claude can
  read is answered (`ReadableIsAnswered`).

### Why the bounds are enough

A conflict over a job's row needs a holder, a run that finds it stale and one that
comes in between: three runs. Jobs share nothing, so one job shows all. In the reader
one read is in flight at a time, so a second post gives the queue something to
lose, and a second tab a late ending for the first. The numbers keep the order of
the real limits (pause 30 s, load 45 s, hidden 3 min, cap 4 min, visible 5 min, slot
6 min), not their sizes. In `TabActivities` every kind of activity appears once, but reads twice, and the
feed tab is shared by four of them; behaviours are followed until the slot is lost at work
(`CONSTRAINT`). `MCJobLocks.cfg` and `MCPostReader.cfg` use the symmetry
of runs and of tabs; no run with a liveness property does.

| part | bound | because |
|---|---|---|
| orders | 2 carts, 1 win, 3 rows, 3 orders, 1 edit, 1 lone row | a race needs two carts; the edit and the row move what they made |
| won sale | 3 items, one without a price, 3 orders | one on an order, one in the cart, one still open |
| listings | 2 cards, 2 listings, 2 submits | two listings may share a card, two submits a listing, one of them after the other or beside it |
| master sets | 4 prints (main, Poké Ball, Master Ball, one off the list), 2 cards, 1 list, 2 copies | each way to count or not to, three variants of one number |
| checklists | 2 cards of one number, 3 catalogues, 1 match | Normal and Holo compete for one slot |
| sets | 2 cards, 4 pairs, one sync and one cold start at a time | a card that is renamed, one that is moved, one never linked |
| ranks | 4 pairs, 4 sets of the API, published in any order | a shared name, two sets of one day, one of no day, one we do not have, a hand rank |
| ledger | 3 rows in 2 orders, all with shipping, with fees or without; 2 rows with 1 edit, with shipping or without; every kind of row for one card, purchases for the other | two acquisitions and a disposal; a row that moves |
| dex sync | 3 cards, 10 folders, 2 days | half of three trips the breaker; one folder per rule of the reader |
| jobs | dex-sync with price-refresh; PokeTrace with set-sync, cap 2 | the two that write snapshots; a small job beside the capped one |
| prices | ages to 2 days, limits 0 to 1, exports of today or old | before, at and after each limit |
| rates | 2 processes, 2 currencies, TTL 2, age to 4 | a partial answer, a shared table, 2 TTL |
| history | 2 cards, 2 days, 3 snapshots | a switch of source, a price that is dropped, two runs of a day, and the live point |
| collections | 4 cards, 3 Dex names, 3 collections | a set under two names, a name with two sets, a card of no set, a status collection |
| folders | 3 names, 2 tabs | a chain needs three names |
| rotation | 5 cards, 2 priced elsewhere, 1 broken, TCGdex with budgets 3 (fits) and 2 (does not), PokeTrace with 3 and batches of 3, 1 outage | a budget smaller than the cards, cards that starve, a batch that fails |
| Claude | 2 sales: 2 photos, one broken, and a text that opens with one; 2 lots to name, one broken; cap 2, 2 attempts | failures that fill the cap before the readable photo, a batch with a broken photo |
| captures | 2 bids, 2 reads at a time, 1 removal | two merges with the same earlier capture, a bid one read missed, a close while one reads |

### Mutants

Each mutant (`PROJECT.json`) is a plausible slip in one mapped definition, such as
an UPDATE that drops the token, an operation outside the promise chain, or a sort
by the wrong date; the property it names catches it. They are the operators whose
comment says "Mutant".

### Fairness

- `JobLocks`: a live run goes on or dies, time passes, the status page keeps being
  opened, and some load of it gets to remove the rows it found (strong fairness of
  `Reap`, as single loads may die).
- `FacebookSlot`: Chrome answers storage calls; a worker that is needed is not
  stopped for ever (strong fairness of `Set`); time passes.
- `PostReader`: the worker's steps, events and time are taken; another holder of
  the slot ends; a reader that keeps asking finds the slot free some time. The last
  is an assumption about the load and not something the code enforces: the reader asks every 30 s
  and a start from the menu every 2 s. Pages owe nothing but the 4-minute cap.
- `Served`: cron starts a pass every day and midnight comes, a run goes on until it ends
  or is killed (kills are bounded by `MaxOutages`); the debounce timer fires, Claude answers or
  fails, and scans go on, so that posts keep being saved, which is what schedules the
  queue.

## What is proved

TLAPS checks the following for every value of the constants that satisfies the
modules' assumptions.

`JobLocksProofs`: `TypeCorrect`, `InterruptedOnce`, `RowsSafe` hold whatever the
limits; `SingleFlightHolds`, `InterruptedOver` and `Implements` assume
`KillLimit == MaxRun <= StaleAfter`, which is the relation of the platform's 300 s and
`STALE_AFTER` = 15 min. `InterruptedAtMostOnce` is not inductive: it must be known
that whoever is about to write the line owns the one right to do it. `RecordInv` says
so: for each dead run there is at most one of its row, a run between UPDATE and
record, a page load between DELETE and record, and the line itself. Single flight
needs `AgeInv` (no live run is older than `MaxRun`, and what is to be taken over is
older than `StaleAfter`), from which a live run's row is never stale.

`FacebookSlotProofs`: `TypeCorrect`; the invariant `Inv`: only the head of the chain
has read the slot and what it read is still there (`ChainInv`), the slot's holder and
tab are its owner's (`OwnerInv`), and who works in an open tab owns the slot or has
lapsed (`WorkInv`). From it `OneActivityHolds`, `OwnerKeeps`, and `Implements`
(refinement of `AtomicSlot`). They rest on `KeysDistinct`: no two callers pass the same
holder and tab.

`PostReaderProofs`: no hypothesis but the order of the limits (`PostReaderAssumption`).
`ReaderInv` is `TypeOK` with four parts: `KickInv` (where the running `kickOnce()` is, no
other read can have begun, and the slot it took is still its own and young enough),
`FinInv` (what the copies of `finishRead()` are about to clear or close), `PageInv` (a
page reads under the slot and within the slot's limit) and `NoTabLeftOpen`. They need
each other: that the slot is not expired under a page follows from `Loading + Cap <
VisibleLimit` and `VisibleLimit + Loading <= Limit`, and that a late `finishRead()` does
no harm follows from `KickInv`. From it `TypeCorrect` and `TabsAreAccountedFor`; with
`QueueInv` (the queue the kick read is as sound as the stored one) `QueueStaysInOrder`;
with `PaceInv` `ReadsArePaced`. `ReadsGoOn` assumes nothing of the constants: late
finishes, failing tabs and stops at rest are all there. It says `Spec /\ [][~ Mishap]_vars =>
[]GoesOn`, that is, GoesOn holds until a step is taken of which Remarks tells that the code
does not go on by itself; its invariant `GoingOn` says whose alarm is set.

`TabActivitiesProofs`: `TypeCorrect`, `OneTabTalksHolds`, `CalmSlotIsInUseHolds`, without
hypothesis on the constants. The invariant `SlotInv` counts what each tab still has under way
(page, messages, the second half of handling one) and says that, until the slot is lost,
at most one of these, and then nothing else anywhere, uses the slot while it has not expired;
`CalmInv` says what the slot is held for.

The other three modules prove the properties of the combined specifications. Each part has
an inductive invariant of its own, kept by each of its steps, and the types of all parts
follow from them (`ShopTypes`, `DailyTypes`, `ServedTypes`).

`ShopProofs`:

- `OrdersStay` (and `TypeCorrect`), from the types, `OneFlowPerOrder` and `IdIsFree`: while
  a cart has the lock, no row of another flow has its order ID. That the next ID is new is
  `NextOrderIsNew`, that inserted rows replace none is `InsertOf`.
- `SetsAreLinked`: `SetsInv` says that a cold start has read every stale pair there is, and
  that what a sync has seen of its card is so unless a cold start has written it since. For
  the ranks, `RanksInv` says that a rank is the place of its set in the list it was given
  from, whatever the catalogue has become since; that later sets then rank higher is a
  matter of counting (`LaterRanksHigher`).
- `SoldOnceHolds`, without hypothesis on what races. `ListingsInv`: a listing with a sale row is
  sold or that sale was delisted, and so was every sale a submit has seen; a row of a card whose
  deletion has read its rows came later. `WonInv`, kept while no lot is linked again: an order's
  rows are those of the items that point at it, each priced at no more than it was won for; that
  the prefilled total never exceeds what the sale has left is `PrefilledFits`.
- `ListsFollow` for any prints, tracks and lists: cards are split into those on a print
  that counts, on one that does not, and on none (`EveryCardOnce`), and sums over the
  prints are sums over their cards.
- `SeedDoesSettle`: `ChecklistsInv` has the properties with two parts more. The rows that a
  running seed has read are the beginning of the table, whatever IDs it has now (`SeedRuns`).
  After a seed, planning again over the current table gives what is there (`NothingToDo`):
  the choice of a base print (`SameBase`), the masters the plan creates (`PlanIs`) and the
  list it commits (`SeedListIs`, `SameSlots`) are then those of the plan before.
- `HandEntriesDoStay`, of steps, from the invariants of both parts.

`DailyProofs`:

- `ExportIsFollowed` (and `TypeCorrect`) for any exports: `ImportedOf` says what an import does
  to one card, through the stages of the code (`CollectedOf`, `OnTheWayOf`, `BinderIs`,
  `CollsAre`). `BindersAsExported` needs that a card in a collection with a rule already has a
  binder when a run imports nothing (`BindersImplied`), and `NoMassFlagging` that a cron run
  confirms no count (`CronConfirmsNothing`).
- `JobsDo`: `JobsInv` ties each job's phase to what it has committed and to its row in the
  log (`JobLogged`), for a killed run until it is recorded and after, and says that what the
  snapshot has read is still what the cards have (`ReadIsSo`), as no other job writes
  quantities and a deleted card is no longer asked for. `CapInv`: what the running PokeTrace
  job may still request fits under the cap, and requests are recorded, lost or its own. The other
  jobs are assumed to be other than the two with snapshots (`OtherJobsAssumption`).
- `PricesHold`: `PricesInv` says of each open transaction that what it will write takes no
  price away, and that, unless the other job has committed since, its market price is that of the
  rows it saw and it was compared with the card's (`TxSound`); the two jobs
  write different sources (`WritesApart`). `ResolvedIs` has the chain of sources. `RatesInv`: a cached rate's age and the time left in the cache
  add up to no more than two TTLs.
- `ChartDoesAddUp`: `HistoryInv` says that a card with a row on some day has one on every
  later day with rows, and that a row records the source of its price or none. So no card
  is lost between the two ends of a period, and the split into prices and cards is summed
  card by card (`ClosingSum`, `PeriodIs`, `Distributes`).
- `GroupsDoStayComplete`: the invariant of `Collections` is its type, as nothing but cards
  is stored; the work is in the operators. `FirstIs` and `BlocksAre` say which section
  carries a block, `HomeIs` that the home of a set has it, `RowsLeaveACopy` and
  `SetsLeaveACopy` that duplicates leave a copy, card by card and print by print. A print is
  assumed to be on one checklist (`CollectionsAssumption`). `FoldersInv`: while every request
  has written on what it read, no alias points to an alias and no favorite is one;
  `ResolvesTo` has the walk along the aliases.
- `BooksDoAgree`: `LedgerInv` bounds the rows and their fields, and the properties are about
  what is computed from them. The totals are sums of one amount for each row (`NetsAre`),
  grouped by card, month or order with `SumByClass`. The shares of an order are its shipping
  (`OrderShares`, from `SharesAddUp`), in whatever order the rows come (`SharesAgree`). The
  use of copies by disposals is a recursive function over the disposals in order of age:
  `UsesExist` shows by induction that there is one, `UsedSoFar` that after i disposals the
  copies used are the oldest ones, `OldestCosted` that the next one is the oldest free.
  With a row for every copy, the copies held are as many as the cards have (`HeldAre`,
  `ValueByOrder`), which closes `GainsHold`. The fees are rounded up for some rows, as many as
  are needed (`RoundUpIs`, `SplitAddsUp`); that these are the ones with the largest
  fractions keeps rows without a price at none (`RegisterFees`).

`ServedProofs`:

- `ResultHolds`, and `ServedResultHolds` in the composition, from `SettledInv`: of what is
  stored as final, of what a handler got before its await, and of a complete read that ended
  after the close, the bids that were there at its begin and are missing are gone, and the sale
  is closed, so that none comes back.
- `LimitsHold`: `ClaudeInv` counts the photos a run has sent and will still send in this
  hour, claim lots and batches to name alike (`RunFits`, `Unsent`), against the cap;
  `RotationInv` says that a run's requests have each card once, and only cards whose last
  failure is long enough ago.

`CountingProofs`: the elements of a finite set of numbers in order (`NthOf`), what a sequence
keeps of a set (`KeptOf`, `KeptLists`), the least and greatest of a bounded set (`Extremes`),
the rules of `Sigma` (`SumStep`, `SumOfBoth`, `SumByClass`, `SumRenamed`, ...), rounding
(`RoundUpIs`, `SplitAddsUp`, `SharesAddUp`). Where induction is needed, on numbers (`UpFrom0`)
or on finite sets (`Subsets`), it is stated for sets of numbers or of sets rather than for
an operator, so that the provers can use it; a recursive function then exists because
each finite part of it does (`SumRecurs`).

Besides the hypotheses named here, the theorems rest on the named assumptions of the
modules only: sets that the code enumerates are finite, numbers are natural, limits that
the code compares are in its order.

Only model-checked: every liveness property (`DeadLockGoesAway`, `AskersAreAnswered`,
`SlotComesFree`, `QueuedIsServed`, `ServedInTheEnd`), as fairness and ENABLED are out of the
prover's reach, and the three violations. Every other property that a run checks is
a theorem.

## Findings

Runs marked "violation" check what a comment or a document says and the code does
not do.

1. `reader_lost`: a click made while `kickOnce()` waits is overwritten (`reader.ts:136`).
2. `won_totals`: a lot kept as not complete on one order and linked in another cart has
   its money in both Totals (`won_inbox.py:461`).
3. `held_sold`: with a copy that has no row, the copy a sale is costed against is still
   held by its purchase order (`queries.py:1334`), so that order counts its value and the
   sale its gain.

## Remarks

What the models showed beside the findings. Each is seen by the named definition, which
no run checks, or by the named change of a configuration.

Extension:

- `reader_live` fails after each of three mishaps (`PostReader!Mishap`): with `FinishMayLag =
  TRUE`, where a slow `finishRead()` replaces the next read's alarm (`reader.ts:173`); with
  `TabsMayFail = TRUE`, where no tab opens and the rest of the queue has no alarm
  (`reader.ts:132`); with `MaxStops = 1`, where the worker stops before the alarm of a read
  that it has recorded, or its tab, is left behind (`reader.ts:136-138`). Each ends when some
  other event comes.
- `PostReader!ReadIsNotCut`: the 3-minute limit of a hidden read (`reader.ts:26`) beats its
  4-minute cap (`content/post/index.ts:127`).
- `TabActivities!astray`: the slot expires under a scan or read that works on, such as one
  paused in a hidden tab (`Outlasts`); `ACTIVITY_DONE` releases menu-scan, then menu-read
  (`index.ts:315-318`), and the second one frees the slot of a read that was started in the
  same tab between the two (`Crosses`). After either a second tab may start: `OneTabTalks`
  fails without `~astray`. A tab closed while `startInTab` waits (`index.ts:66`) leaves the
  slot to its expiry.
- A stop of the worker during `runAutoScan` loses its one-shot alarm, and
  `autoScanState` is patched across awaits (`autoScan.ts:54`).
- Two captures saved at the same moment: the second drops the first's bids until the
  next read (`index.ts:281`); `ResultHoldsEveryBid` shows that no result comes of it. A reply
  deleted on Facebook makes every later read count as partial, so such a sale never
  settles. A stop between `saveCapture` and `showNotes` loses the result note. 
  `Captures!ReadInFull`: a read that begins before the close and ends after it counts as final
  (`content/post/index.ts:141` stamps it when it ends) without the bids made behind its
  scroll; `watch.ts:56` asks "Was this read in full after the sale closed?".
- A failed batch of texts counts against each item in it; a text or a lot's name that Claude
  leaves out of its answer is asked again without limit.
- A post seen again while the clean-up deletes it (`retention.ts:123`) comes back with
  a new `firstSeenAt`.

Jobs and prices:

- `BodyHoldsTheRow` needs `MaxRun <= StaleAfter`. `JobLocks!KilledRunLeavesATrace`: a
  recorder killed between removing a dead run's row and writing its line leaves no trace
  of that run (`job_locks.py:173`; `models.py:1062` says it does).
- `DailyJobs!WithinCap`: a killed PokeTrace run's requests are not counted
  (`jobs.py:563`). `DailyJobs!OkAlwaysMeansDone`: a sync that is killed between its import and
  its snapshot stays "ok", as the Interrupted line is dated at its start, before the import's
  own row (`job_locks.py:86`, `importer.py:687`, `sync_status.py:114-126`); that line's "Nothing
  from that run was saved" is wrong then. The snapshot called last is so by the order of its source
  (`queries.py:579-583`).
- `Prices!AlwaysStaysPriced`: a resolve reads the price rows and then the cards in a second
  SELECT (`pricing.py:447`, `449`); the first price of a card that is committed between the
  two is compared as the card's and written over with none, until the next resolve.
- `ExchangeRates!LiveWithinTtl`: a row another process stored is taken for up to a
  second TTL (`fx_rates.py:18`), and a currency that the answers lack is kept as "live" for
  as long as they do (`fx_rates.py:282`).
- `Rotation`: with more cards than the budget reaches, `_priority()` (`tcgdex_prices.py:530-544`)
  lets the cards that another source prices and those whose lookup failed wait for ever. A
  card that fails a batch of PokeTrace's for good fails the others in it, too
  (`poketrace_prices.py:668-695`); `Fits` leaves it out.

Requests and pages:

- `Orders!RegisteredOnce`, `Orders!MissingStaysOpen`: two carts with one lot both
  register it; a win whose order lost every row stops being shown as missing when its
  order ID is given out again.
  A row moved out of an order keeps its shipping, which is then charged twice.
- `Listings!EachCardSoldOnce`: two submits of mark-sold that overlap (`app.py:2437`, `2505`) both
  write a row of each card; so does a submit after the sale was delisted from a stale page, as
  `listings_delist()` asks for no status (`app.py:2096`). A sale committed after the deletion of
  its card has read the card's rows goes with the card (`models.py:207`, `482`), which is
  why `HistoryKept` leaves the late rows out. `Listings!OnTheWayNotListed`: a card listed before
  its copies went on the way stays listed.
- `History!ChangeAlwaysAddsUp` (`queries.py:1013-1022`): on a day with several runs whose
  last one lacks a card the day has, the chart and the split start from different
  totals. `History!NoSwitchIsAMove` (`queries.py:896-904`): for a card first priced by
  pokemontcg.io after an old snapshot the guessed source is wrong either way round, and so it
  is for one whose stored price was another print's and has been dropped since
  (`pricing.py:362-410`).
- `Ledger`: Sold tab's net received and Net invested differ where rows of one order
  disagree on shipping (`app.py:2957-2959`); a ripped order's shipping is in its gain and
  not in Net invested.
- `Sets!EveryCardLinked`: a sync whose card a cold start relinks between its read and its
  write leaves the new set name with the old set's link, until the next of either.
- `SetRanks!RanksAlwaysFollowDates`: an older set that is listed later shifts the API's ranks
  but not the stored ones, so a set ranked after it may rank below an older one; fill-only
  ranks mix the hand-made scale with the API's; a name that is unique matches although the
  series differs.
- `Checklists`: an ID typed between the seed's read and its commit is overwritten when
  the row it read was another; a card bought later as another variant makes a second
  master until the next seed.
- `Collections`: a set under two Dex names counts duplicates twice; a Dex name that mixes
  two checklisted sets hides the higher one's block from its home
  (`queries.py:2124`; `app.py:1241` says that the home shows it); a leftover status
  collection can be a home (`queries.py:2107`, `2172`).
- `PokemonFolders`: two overlapping merges break the single hop (`queries.py:474`); the
  properties are stated for `clean` writes.

## Plan

Built: everything under "The modules". Next:

1. Theorems: that what the violation runs show false holds where their cause is absent
   (`SoldIsNotHeld` with a row for every copy).
2. `Retention`, the due moments of `watch.ts`, `AutoScan`'s own state next to `TabActivities`.
3. The composition of `DailyJobs` with the promise of `SingleFlight`.

## Not modelled

`PROJECT.json` gives the reason for each component: selectors and clicks on Facebook's
pages, parsing of free text, HTTP clients, prompts, templates, images, presentation,
authentication, developer scripts, and the finn.no pipeline. Within the modelled
components these are left out: the daily clean-up of the store (`retention.ts`, one
pass over what is old), `autoScanState`, which auctions are due for a re-read (any
re-read may be asked for at any time instead), the wording of pages and log lines, sorting
and searching, and the migrations of `db.py` that run once.
