------------------------------- MODULE Captures -------------------------------
(***************************************************************************)
(* The reads of one auction (background/index.ts, domain/captures.ts,      *)
(* background/watch.ts, notify.ts): each is merged with what earlier reads *)
(* saw, also with a partial one, and the first read in full that ends      *)
(* after the close is the result you are told.  A read takes minutes and   *)
(* bids are made meanwhile; handlers of two reads interleave at their      *)
(* awaits, and the worker may be stopped between them.                     *)
(***************************************************************************)
EXTENDS Integers, FiniteSets

CONSTANTS Bids,       \* the bids (replies) there can be, by Facebook ID: numbers
          Reads,      \* reads of the post, in a tab or being saved, under way at once
          MaxRemoved  \* bound on bids that are removed on Facebook

NoCapture == [seen |-> {}, final |-> FALSE, reads |-> FALSE, missed |-> {}]
NotTold == [told |-> FALSE, missed |-> {}]

VARIABLES
  there,    \* bids on Facebook
  removed,
  closed,   \* is the sale over, antisnipe included?
  stored,   \* the stored capture: bids, whether isFinal() holds of it
  save,     \* read -> its place, what it has seen; then the capture its handler merged
  told      \* has the result note been shown (its key is in notified), and which bids it missed
\* History, in `missed`: the bids that were there when the read (of a capture:
\* the last complete one of its reads) began and that it does not hold.
vars == <<there, removed, closed, stored, save, told>>

Done == [at |-> "done"]
Captured == [seen : SUBSET Bids, final : BOOLEAN, reads : BOOLEAN, missed : SUBSET Bids]
Reading == [at : {"page"}, seen : SUBSET Bids, from : SUBSET Bids]
Ended == [at : {"get"}, seen : SUBSET Bids, missed : SUBSET Bids, done : BOOLEAN, late : BOOLEAN]
Saving == [at : {"put"}, merged : Captured, was : BOOLEAN]
Noting == [at : {"note"}, missed : SUBSET Bids, news : BOOLEAN]

TypeOK ==
  /\ there \subseteq Bids /\ removed \subseteq Bids /\ closed \in BOOLEAN
  /\ stored \in Captured
  /\ save \in [Reads -> Reading \cup Ended \cup Saving \cup Noting \cup {Done}]
  /\ told \in [told : BOOLEAN, missed : SUBSET Bids]

Init ==
  /\ there = {} /\ removed = {} /\ closed = FALSE
  /\ stored = NoCapture /\ save = [r \in Reads |-> Done] /\ told = NotTold

-----------------------------------------------------------------------------
(* The sale on Facebook *)

\* IDs increase with time.
Bid(b) ==
  /\ ~closed /\ b \notin there \cup removed
  /\ \A c \in Bids : c < b => c \in there \cup removed
  /\ there' = there \cup {b} /\ UNCHANGED <<removed, closed, stored, save, told>>

Remove(b) ==
  /\ b \in there /\ Cardinality(removed) < MaxRemoved
  /\ there' = there \ {b} /\ removed' = removed \cup {b}
  /\ UNCHANGED <<closed, stored, save, told>>

Close ==
  /\ ~closed /\ closed' = TRUE
  /\ UNCHANGED <<there, removed, stored, save, told>>

-----------------------------------------------------------------------------
(* A read of the post, in its tab *)

\* ensureAllComments() and expandAll() begin.
Begin(r) ==
  /\ save[r] = Done
  /\ save' = [save EXCEPT ![r] = [at |-> "page", seen |-> {}, from |-> there]]
  /\ UNCHANGED <<there, removed, closed, stored, told>>

\* Facebook loads a bid; what has loaded stays on the page.
Load(r, b) ==
  /\ save[r].at = "page" /\ b \in there
  /\ save' = [save EXCEPT ![r].seen = @ \cup {b}]
  /\ UNCHANGED <<there, removed, closed, stored, told>>

\* Stopped by you, failed, or its tab is closed: nothing is saved.
Quit(r) ==
  /\ save[r].at = "page"
  /\ save' = [save EXCEPT ![r] = Done]
  /\ UNCHANGED <<there, removed, closed, stored, told>>

\* extractCapture() takes what has loaded and capturedAt is now.  Expanded to
\* the end ("done"), that is every bid that was there from the start; of
\* those made meanwhile, the ones that happened to load.  Of a partial read,
\* the time and the beginning are of no account.
End(r, done) ==
  /\ save[r].at = "page"
  /\ done => save[r].from \cap there \subseteq save[r].seen
  /\ save' = [save EXCEPT ![r] = [at |-> "get", seen |-> @.seen, done |-> done,
                                  missed |-> IF done THEN @.from \ @.seen ELSE {}, late |-> done /\ closed]]
  /\ UNCHANGED <<there, removed, closed, stored, told>>

-----------------------------------------------------------------------------
(* SAVE_POST_CAPTURE, in the worker *)

\* isCompleteRead(): sorted by "All comments", expanded to the end, and no fewer
\* comments and replies than the stored read has
Complete(before, s) == s.done /\ (before.reads => Cardinality(s.seen) >= Cardinality(before.seen))

\* Mutant: the newer read replaces the stored one.
MergedNewer(before, s) ==
  [seen |-> s.seen, reads |-> TRUE,
   final |-> IF Complete(before, s) THEN s.late ELSE before.final,
   missed |-> IF Complete(before, s) THEN s.missed ELSE before.missed \cup (before.seen \ s.seen)]

\* mergeCaptures(); a complete read that ended after the close makes it final.
Merged(before, s) ==
  [seen |-> before.seen \cup s.seen, reads |-> TRUE,
   final |-> IF Complete(before, s) THEN s.late ELSE before.final,
   missed |-> (IF Complete(before, s) THEN s.missed ELSE before.missed) \ (before.seen \cup s.seen)]

\* await store.getCapture()
Get(r) ==
  /\ save[r].at = "get"
  /\ save' = [save EXCEPT ![r] = [at |-> "put", merged |-> Merged(stored, @), was |-> stored.final]]
  /\ UNCHANGED <<there, removed, closed, stored, told>>

\* await store.saveCapture()
Put(r) ==
  /\ save[r].at = "put"
  /\ stored' = save[r].merged
  /\ save' = [save EXCEPT ![r] = [at |-> "note", missed |-> @.merged.missed, news |-> @.merged.final /\ ~@.was]]
  /\ UNCHANGED <<there, removed, closed, told>>

\* noticeChanges(): the result, when this read made the sale final; showNotes()
\* shows it unless it has shown it before.
Note(r) ==
  /\ save[r].at = "note"
  /\ told' = IF save[r].news /\ ~told.told THEN [told |-> TRUE, missed |-> save[r].missed] ELSE told
  /\ save' = [save EXCEPT ![r] = Done]
  /\ UNCHANGED <<there, removed, closed, stored>>

\* The worker is stopped: what its handlers had not stored is lost, a read in
\* its tab goes on.
WorkerStops ==
  /\ save' = [r \in Reads |-> IF save[r].at = "page" THEN save[r] ELSE Done]
  /\ UNCHANGED <<there, removed, closed, stored, told>>

Next ==
  \/ Close \/ WorkerStops
  \/ \E b \in Bids : Bid(b) \/ Remove(b)
  \/ \E r \in Reads : \/ Begin(r) \/ Quit(r) \/ \E b \in Bids : Load(r, b)
                      \/ \E done \in BOOLEAN : End(r, done)
                      \/ Get(r) \/ Put(r) \/ Note(r)

Spec == Init /\ [][Next]_vars

-----------------------------------------------------------------------------
(* "a partial read must not hide a bid" (index.ts:280): what counts as the  *)
(* result, and what you are told of it, holds every bid still there that    *)
(* was there when the read that settled the sale began, whatever partial    *)
(* reads were merged in, in any order.  One that began after the close      *)
(* leaves no bid out; one that began before it may, see ReadInFull.         *)
ResultHoldsEveryBid ==
  /\ stored.final => there \cap stored.missed = {}
  /\ told.told => there \cap told.missed = {}

(* "Was this read in full after the sale closed? Then its result is final." *)
(* (watch.ts:56): a final capture holds every bid that is still there.  Not *)
(* so: a read is late when it ends late, and a bid made while it scrolled   *)
(* may not be on its page.                                                  *)
ReadInFull == stored.final => there \subseteq stored.seen
=============================================================================
