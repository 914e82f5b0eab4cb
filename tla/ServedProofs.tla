--------------------------- MODULE ServedProofs ---------------------------
(***************************************************************************)
(* Proofs about Served: Captures, for any bids and any number of reads of  *)
(* one auction at the same time; the price passes, for any cards, budget   *)
(* and days; the Claude queue, for any items and cap.                      *)
(***************************************************************************)
EXTENDS Served, CountingProofs, TLAPS

Places == Reading \cup Ended \cup Saving \cup Noting \cup {Done}

\* Where a read is tells what is known of it.
LEMMA PlaceIs ==
  ASSUME NEW s \in Places
  PROVE  /\ s.at = "page" => s \in Reading /\ s.seen \in SUBSET Bids /\ s.from \in SUBSET Bids
         /\ s.at = "get" => s \in Ended /\ s.seen \in SUBSET Bids /\ s.missed \in SUBSET Bids
                            /\ s.done \in BOOLEAN /\ s.late \in BOOLEAN
         /\ s.at = "put" => s \in Saving /\ s.merged \in Captured /\ s.was \in BOOLEAN
         /\ s.at = "note" => s \in Noting /\ s.missed \in SUBSET Bids /\ s.news \in BOOLEAN
BY DEF Places, Reading, Ended, Saving, Noting, Done

LEMMA MergedType ==
  ASSUME NEW before \in Captured, NEW s \in Ended
  PROVE  Merged(before, s) \in Captured
<1>1. /\ before.seen \in SUBSET Bids /\ before.final \in BOOLEAN /\ before.missed \in SUBSET Bids
      /\ s.seen \in SUBSET Bids /\ s.missed \in SUBSET Bids /\ s.late \in BOOLEAN
  BY DEF Captured, Ended
<1>2. (IF Complete(before, s) THEN s.late ELSE before.final) \in BOOLEAN
  BY <1>1
<1> QED BY <1>1, <1>2 DEF Merged, Captured

LEMMA TypeInit == Init => TypeOK
<1> USE DEF Init, TypeOK
<1>1. Init => stored \in Captured BY DEF Captured, NoCapture
<1>2. Init => told \in [told : BOOLEAN, missed : SUBSET Bids] BY DEF NotTold
<1> QED BY <1>1, <1>2

LEMMA TypeNext == ASSUME TypeOK, [Next]_vars PROVE TypeOK'
<1>0. /\ there \subseteq Bids /\ removed \subseteq Bids /\ closed \in BOOLEAN /\ stored \in Captured
      /\ save \in [Reads -> Places] /\ told \in [told : BOOLEAN, missed : SUBSET Bids]
  BY DEF TypeOK, Places
<1>1. ASSUME /\ there' \subseteq Bids /\ removed' \subseteq Bids /\ closed' \in BOOLEAN /\ stored' \in Captured
             /\ save' \in [Reads -> Places] /\ told' \in [told : BOOLEAN, missed : SUBSET Bids]
      PROVE  TypeOK'
  BY <1>1 DEF TypeOK, Places, Reading, Ended, Saving, Noting, Captured, Done
<1>2. ASSUME NEW b \in Bids, Bid(b) \/ Remove(b) PROVE TypeOK'
  BY <1>0, <1>1, <1>2 DEF Bid, Remove
<1>3. ASSUME NEW r \in Reads, NEW s \in Places, save' = [save EXCEPT ![r] = s] PROVE save' \in [Reads -> Places]
  BY <1>0, <1>3
<1>4. ASSUME NEW r \in Reads, Begin(r) PROVE TypeOK'
  <2>1. [at |-> "page", seen |-> {}, from |-> there] \in Places
    BY <1>0 DEF Places, Reading
  <2> QED BY <1>0, <1>1, <1>3, <1>4, <2>1 DEF Begin
<1>5. ASSUME NEW r \in Reads, NEW b \in Bids, Load(r, b) PROVE TypeOK'
  <2>1. save[r].at = "page" /\ save[r] \in Places /\ save' = [save EXCEPT ![r] = [save[r] EXCEPT !.seen = @ \cup {b}]]
    BY <1>0, <1>5 DEF Load
  <2>2. [save[r] EXCEPT !.seen = @ \cup {b}] \in Places
    BY <2>1, PlaceIs DEF Places, Reading
  <2> QED BY <1>0, <1>1, <1>3, <1>5, <2>1, <2>2 DEF Load
<1>6. ASSUME NEW r \in Reads, Quit(r) PROVE TypeOK'
  BY <1>0, <1>1, <1>3, <1>6 DEF Quit, Places
<1>7. ASSUME NEW r \in Reads, NEW done \in BOOLEAN, End(r, done) PROVE TypeOK'
  <2> DEFINE s == [at |-> "get", seen |-> save[r].seen, done |-> done,
                   missed |-> IF done THEN save[r].from \ save[r].seen ELSE {}, late |-> done /\ closed]
  <2>1. save[r].at = "page" /\ save[r] \in Places /\ save' = [save EXCEPT ![r] = s]
    BY <1>0, <1>7 DEF End
  <2>2. s \in Places
    <3>1. (done /\ closed) \in BOOLEAN /\ save[r].seen \in SUBSET Bids /\ save[r].from \in SUBSET Bids
      BY <1>0, <2>1, PlaceIs
    <3> QED BY <3>1 DEF Places, Ended
  <2> QED BY <1>0, <1>1, <1>3, <1>7, <2>1, <2>2 DEF End
<1>8. ASSUME NEW r \in Reads, Get(r) PROVE TypeOK'
  <2> DEFINE s == [at |-> "put", merged |-> Merged(stored, save[r]), was |-> stored.final]
  <2>1. save[r].at = "get" /\ save[r] \in Places /\ save' = [save EXCEPT ![r] = s]
    BY <1>0, <1>8 DEF Get
  <2>2. s \in Places
    <3>1. Merged(stored, save[r]) \in Captured /\ stored.final \in BOOLEAN
      BY <1>0, <2>1, PlaceIs, MergedType DEF Captured
    <3> QED BY <3>1 DEF Places, Saving
  <2> QED BY <1>0, <1>1, <1>3, <1>8, <2>1, <2>2 DEF Get
<1>9. ASSUME NEW r \in Reads, Put(r) PROVE TypeOK'
  <2> DEFINE s == [at |-> "note", missed |-> save[r].merged.missed, news |-> save[r].merged.final /\ ~save[r].was]
  <2>1. save[r].at = "put" /\ save[r] \in Places /\ stored' = save[r].merged /\ save' = [save EXCEPT ![r] = s]
    BY <1>0, <1>9 DEF Put
  <2>2. save[r].merged \in Captured
    BY <2>1, PlaceIs
  <2>3. s \in Places
    <3>1. save[r].merged.missed \in SUBSET Bids /\ (save[r].merged.final /\ ~save[r].was) \in BOOLEAN
      BY <2>2 DEF Captured
    <3> QED BY <3>1 DEF Places, Noting
  <2> QED BY <1>0, <1>1, <1>3, <1>9, <2>1, <2>2, <2>3 DEF Put
<1>10. ASSUME NEW r \in Reads, Note(r) PROVE TypeOK'
  <2>1. save[r].missed \in SUBSET Bids
    BY <1>0, <1>10, PlaceIs DEF Note
  <2>2. told' \in [told : BOOLEAN, missed : SUBSET Bids] /\ save' \in [Reads -> Places]
    BY <1>0, <1>3, <1>10, <2>1 DEF Note, Places
  <2> QED BY <1>0, <1>1, <1>10, <2>2 DEF Note
<1>11. CASE Close \/ WorkerStops \/ UNCHANGED vars
  <2>1. save' \in [Reads -> Places]
    BY <1>0, <1>11 DEF Close, WorkerStops, vars, Places
  <2> QED BY <1>0, <1>1, <1>11, <2>1 DEF Close, WorkerStops, vars
<1> QED BY <1>2, <1>4, <1>5, <1>6, <1>7, <1>8, <1>9, <1>10, <1>11 DEF Next

\* Types hold in every reachable state.
THEOREM TypeCorrect == Spec => []TypeOK
<1>1. TypeOK /\ [Next]_vars => TypeOK' BY TypeNext
<1> QED BY <1>1, TypeInit, PTL DEF Spec

-----------------------------------------------------------------------------
(* What was missed does not count: the sale is over, so that no bid comes   *)
(* any more, and the bids that were missed are no longer there.             *)
Settled(missed) == closed /\ there \cap missed = {}

\* What is known of a read on its way to be told: it is settled when it is late,
\* or merged with what is.
PlaceSettled(s) ==
  /\ s.at = "get" /\ s.late => Settled(s.missed)
  /\ s.at = "put" /\ s.merged.final => Settled(s.merged.missed)
  /\ s.at = "note" /\ s.news => Settled(s.missed)

\* What is stored as final, what was told, and what a handler has read or merged
\* before its await, is settled at every moment up to its use.
SettledInv ==
  /\ stored.final => Settled(stored.missed)
  /\ told.told => Settled(told.missed)
  /\ \A r \in Reads : PlaceSettled(save[r])

\* A merge of a settled read, or of a settled capture with any read, is settled:
\* a partial read neither takes a bid away nor makes a capture final.
LEMMA MergedSettled ==
  ASSUME SettledInv, NEW r \in Reads, save[r].at = "get", Merged(stored, save[r]).final
  PROVE  Settled(Merged(stored, save[r]).missed)
<1>1. CASE Complete(stored, save[r]) BY <1>1 DEF Merged, SettledInv, PlaceSettled, Settled
<1>2. CASE ~ Complete(stored, save[r]) BY <1>2 DEF Merged, SettledInv, Settled
<1> QED BY <1>1, <1>2

LEMMA SettledNext == ASSUME TypeOK, SettledInv, [Next]_vars PROVE SettledInv'
<1>0. save \in [Reads -> Places]
  BY DEF TypeOK, Places
<1>1. ASSUME UNCHANGED <<stored, told, save>>, \A m : Settled(m) => Settled(m)' PROVE SettledInv'
  BY <1>1 DEF SettledInv, PlaceSettled
<1>2. ASSUME NEW r \in Reads, NEW s, save' = [save EXCEPT ![r] = s], UNCHANGED <<there, closed>>,
             PlaceSettled(s), (stored.final => Settled(stored.missed))', (told.told => Settled(told.missed))'
      PROVE  SettledInv'
  <2>1. \A q \in Reads : save'[q] = IF q = r THEN s ELSE save[q]
    BY <1>0, <1>2
  <2>2. \A m : Settled(m)' = Settled(m)
    BY <1>2 DEF Settled
  <2>3. \A q \in Reads : PlaceSettled(save'[q])
    BY <1>2, <2>1 DEF SettledInv
  <2> QED BY <1>2, <2>2, <2>3 DEF SettledInv, PlaceSettled
<1>3. ASSUME UNCHANGED <<there, closed, stored, told>>
      PROVE  (stored.final => Settled(stored.missed))' /\ (told.told => Settled(told.missed))'
  BY <1>3 DEF SettledInv, Settled
<1>4. PlaceSettled(Done)
  BY DEF PlaceSettled, Done
<1>5. ASSUME NEW b \in Bids, Bid(b) \/ Remove(b) PROVE SettledInv'
  BY <1>1, <1>5 DEF Bid, Remove, Settled
<1>6. ASSUME NEW r \in Reads, Begin(r) PROVE SettledInv'
  <2>1. PlaceSettled([at |-> "page", seen |-> {}, from |-> there])
    BY DEF PlaceSettled
  <2> QED BY <1>2, <1>3, <1>6, <2>1 DEF Begin
<1>7. ASSUME NEW r \in Reads, NEW b \in Bids, Load(r, b) PROVE SettledInv'
  <2> DEFINE s == [save[r] EXCEPT !.seen = @ \cup {b}]
  <2>1. save[r].at = "page" /\ save[r] \in Places /\ save' = [save EXCEPT ![r] = s]
    BY <1>0, <1>7 DEF Load
  <2>2. s.at = "page"
    BY <2>1, PlaceIs DEF Reading
  <2> HIDE DEF s
  <2>3. PlaceSettled(s)
    BY <2>2 DEF PlaceSettled
  <2> QED BY <1>2, <1>3, <1>7, <2>1, <2>3 DEF Load
<1>8. ASSUME NEW r \in Reads, Quit(r) PROVE SettledInv'
  BY <1>2, <1>3, <1>4, <1>8 DEF Quit
<1>9. ASSUME NEW r \in Reads, NEW done \in BOOLEAN, End(r, done) PROVE SettledInv'
  <2> DEFINE s == [at |-> "get", seen |-> save[r].seen, done |-> done,
                   missed |-> IF done THEN save[r].from \ save[r].seen ELSE {}, late |-> done /\ closed]
  <2>1. done => save[r].from \cap there \subseteq save[r].seen
    BY <1>9 DEF End
  <2>2. PlaceSettled(s)
    BY <2>1 DEF PlaceSettled, Settled
  <2> QED BY <1>2, <1>3, <1>9, <2>2 DEF End
<1>10. ASSUME NEW r \in Reads, Get(r) PROVE SettledInv'
  <2> DEFINE m == Merged(stored, save[r])
             s == [at |-> "put", merged |-> m, was |-> stored.final]
  <2>1. save[r].at = "get" /\ save' = [save EXCEPT ![r] = s] /\ UNCHANGED <<there, closed, stored, told>>
    BY <1>10 DEF Get
  <2>2. m.final => Settled(m.missed)
    BY <2>1, MergedSettled
  <2> HIDE DEF m
  <2>3. PlaceSettled(s)
    BY <2>2 DEF PlaceSettled
  <2> QED BY <1>2, <1>3, <2>1, <2>3
<1>11. ASSUME NEW r \in Reads, Put(r) PROVE SettledInv'
  <2> DEFINE m == save[r].merged
             s == [at |-> "note", missed |-> m.missed, news |-> m.final /\ ~save[r].was]
  <2>1. /\ save[r].at = "put" /\ save' = [save EXCEPT ![r] = s] /\ UNCHANGED <<there, closed, told>>
        /\ stored' = m
    BY <1>11 DEF Put
  <2>2. m.final => Settled(m.missed)
    BY <2>1 DEF SettledInv, PlaceSettled
  <2> HIDE DEF m
  <2>3. PlaceSettled(s)
    BY <2>2 DEF PlaceSettled
  <2>4. (stored.final => Settled(stored.missed))' /\ (told.told => Settled(told.missed))'
    BY <2>1, <2>2 DEF SettledInv, Settled
  <2> QED BY <1>2, <2>1, <2>3, <2>4
<1>12. ASSUME NEW r \in Reads, Note(r) PROVE SettledInv'
  <2>1. save[r].at = "note" /\ save' = [save EXCEPT ![r] = Done] /\ UNCHANGED <<there, closed, stored>>
    BY <1>12 DEF Note
  <2>2. (told.told => Settled(told.missed))'
    BY <1>12, <2>1 DEF Note, SettledInv, PlaceSettled, Settled
  <2>3. (stored.final => Settled(stored.missed))'
    BY <2>1 DEF SettledInv, Settled
  <2> QED BY <1>2, <1>4, <2>1, <2>2, <2>3
<1>13. CASE Close \/ UNCHANGED vars
  BY <1>1, <1>13 DEF Close, vars, Settled
<1>14. CASE WorkerStops
  <2>1. UNCHANGED <<there, closed, stored, told>> /\ \A r \in Reads : save'[r] \in {save[r], Done}
    BY <1>14 DEF WorkerStops
  <2>2. \A r \in Reads : PlaceSettled(save'[r])
    BY <1>4, <2>1 DEF SettledInv
  <2> QED BY <1>3, <2>1, <2>2 DEF SettledInv, PlaceSettled, Settled
<1> QED BY <1>5, <1>6, <1>7, <1>8, <1>9, <1>10, <1>11, <1>12, <1>13, <1>14 DEF Next

\* The result of a sale, and the note of it, holds every bid that is still there and
\* was there when the read that settled the sale began, however long reads take,
\* partial and complete ones overlap, and whenever the worker is stopped.
THEOREM ResultHolds == Spec => []ResultHoldsEveryBid
<1>1. Init => TypeOK /\ SettledInv
  BY TypeInit DEF Init, SettledInv, PlaceSettled, NoCapture, NotTold, Done
<1>2. TypeOK /\ SettledInv /\ [Next]_vars => TypeOK' /\ SettledInv' BY TypeNext, SettledNext
<1>3. SettledInv => ResultHoldsEveryBid BY DEF SettledInv, Settled, ResultHoldsEveryBid
<1> QED BY <1>1, <1>2, <1>3, PTL DEF Spec

-----------------------------------------------------------------------------
(* Rotation, of either price pass *)

PassCards == 1..N
Stamps == [age : 0..(Old + 1), failed : 0..(Old + 1)]
AnswerRecs == [card : PassCards, ok : BOOLEAN, link : BOOLEAN]
Answers == Seq(AnswerRecs)
Wait == RetryAfter[s1.source]

\* A run asks for each card once, and only for cards whose last failure is long
\* enough ago; what it has asked for and not committed is as old.
Waiting(card, q, p) ==
  /\ \A i, j \in 1..Len(q) : i # j => q[i] \cap q[j] = {}
  /\ \A i \in 1..Len(q), j \in 1..Len(p) : p[j].card \notin q[i]
  /\ \A i \in 1..Len(q) : \A c \in q[i] : card[c].failed > Wait
  /\ \A j \in 1..Len(p) : card[p[j].card].failed > Wait

RotationInv ==
  /\ s1 \in Passes /\ s2 \in [PassCards -> Stamps] /\ s3 \subseteq PassCards
  /\ s4 \in Seq(SUBSET PassCards) /\ Len(s4) <= s1.budget /\ s5 \in BOOLEAN
  /\ s6 \in Answers /\ Len(s6) < CommitEvery[s1.source]
  /\ s7 \in 0..(MaxErrors - 1) /\ s8 \in BOOLEAN /\ s9 \in 0..MaxOutages
  /\ s4 = <<>> => s6 = <<>>
  /\ Waiting(s2, s4, s6)

LEMMA RotationTyped == ASSUME RotationInv PROVE RO!TypeOK
BY DEF RotationInv, RO!TypeOK, RO!Cards, RO!Ages, RO!Never, PassCards, Stamps, AnswerRecs, Answers

LEMMA RotationGiven ==
  ASSUME s1 \in Passes
  PROVE  /\ CommitEvery[s1.source] \in Nat \ {0} /\ Wait \in Nat /\ s1.budget \in Nat
         /\ 0 \in 0..(MaxErrors - 1) /\ 0 \in 0..MaxOutages /\ Old \in Nat /\ N \in Nat /\ BatchSize \in Nat \ {0}
BY RotationAssumption DEF Wait

LEMMA CardsAre ==
  ASSUME RotationInv
  PROVE  /\ \A c \in PassCards : /\ s2[c] \in Stamps /\ s2[c].age \in 0..(Old + 1)
                                 /\ s2[c].failed \in 0..(Old + 1) /\ s2[c].failed \in Int
<1>1. \A c \in PassCards : s2[c] \in Stamps
  BY DEF RotationInv
<1>2. \A r \in Stamps : r.age \in 0..(Old + 1) /\ r.failed \in 0..(Old + 1) /\ r.failed \in Int
  BY RotationAssumption DEF Stamps
<1> QED BY <1>1, <1>2

\* Nothing waits in an empty run.
LEMMA NothingWaits ==
  /\ <<>> \in Seq(SUBSET PassCards) /\ <<>> \in Answers /\ Len(<<>>) = 0
  /\ \A card : Waiting(card, <<>>, <<>>)
<1>1. Len(<<>>) = 0 /\ 1..0 = {} /\ <<>> \in Seq(SUBSET PassCards) /\ <<>> \in Answers
  BY DEF Answers
<1> QED BY <1>1 DEF Waiting

LEMMA RotationBegin == ASSUME RO!Init PROVE RotationInv
<1>1. s2 \in [PassCards -> Stamps]
  BY RotationAssumption DEF RO!Init, RO!Cards, RO!Never, PassCards, Stamps
<1>2. /\ s1 \in Passes /\ s3 = {} /\ s4 = <<>> /\ s5 = FALSE /\ s6 = <<>> /\ s7 = 0 /\ s8 = FALSE /\ s9 = 0
  BY DEF RO!Init
<1>3. 0 <= s1.budget /\ 0 < CommitEvery[s1.source]
  BY <1>2, RotationGiven
<1> QED BY <1>1, <1>2, <1>3, NothingWaits, RotationGiven DEF RotationInv

\* What is written: the cards answered, and no other.
LEMMA WrittenIs ==
  ASSUME RotationInv, NEW answers \in Answers, RO!Written(answers),
         \A j \in 1..Len(answers) : s2[answers[j].card].failed > Wait
  PROVE  /\ s2' \in [PassCards -> Stamps] /\ s3' \subseteq PassCards
         /\ \A c \in PassCards : (\A j \in 1..Len(answers) : answers[j].card # c) => s2'[c] = s2[c]
         /\ \A c \in PassCards : s2[c].failed <= Wait => s2'[c] = s2[c]
<1> DEFINE mine(c) == {i \in DOMAIN answers : answers[i].card = c}
           ok(c) == \E i \in mine(c) : answers[i].ok
           W(c) == IF mine(c) = {} THEN s2[c] ELSE RO!Stamped(c, ok(c))
<1>1. s2' = [c \in PassCards |-> W(c)]
  BY DEF RO!Written, RO!Cards, PassCards
<1>2. DOMAIN answers = 1..Len(answers) /\ \A j \in 1..Len(answers) : answers[j] \in AnswerRecs /\ answers[j].card \in PassCards
  <2>1. \A x \in AnswerRecs : x.card \in PassCards
    BY DEF AnswerRecs
  <2> QED BY <2>1 DEF Answers
<1>3. ASSUME NEW c \in PassCards PROVE W(c) \in Stamps
  <2>1. [age |-> 0, failed |-> Old + 1] \in Stamps
    BY RotationAssumption DEF Stamps
  <2>2. [s2[c] EXCEPT !.failed = 0] \in Stamps
    <3>1. s2[c] \in Stamps /\ 0 \in 0..(Old + 1)
      BY CardsAre, RotationAssumption
    <3> QED BY ONLY <3>1 DEF Stamps
  <2> QED BY <2>1, <2>2, CardsAre DEF RO!Stamped, RO!Never
<1>4. \A c \in PassCards : (\A j \in 1..Len(answers) : answers[j].card # c) => mine(c) = {}
  BY <1>2
<1>5. \A c \in PassCards : mine(c) = {} => W(c) = s2[c]
  OBVIOUS
<1>6. ASSUME NEW c \in PassCards, s2[c].failed <= Wait PROVE mine(c) = {}
  <2>1. \A j \in 1..Len(answers) : answers[j].card # c
    BY <1>6, CardsAre, RotationGiven DEF RotationInv
  <2> QED BY <2>1, <1>4
<1>7. s3' \subseteq PassCards
  <2>1. s3' = s3 \cup {answers[i].card : i \in {j \in DOMAIN answers : answers[j].link}}
    BY DEF RO!Written
  <2> QED BY <1>2, <2>1 DEF RotationInv
<1> HIDE DEF W, mine
<1> QED BY <1>1, <1>3, <1>4, <1>5, <1>6, <1>7

LEMMA RunStops ==
  ASSUME RotationInv, NEW answers \in Answers,
         \A j \in 1..Len(answers) : s2[answers[j].card].failed > Wait,
         RO!Stop(answers), s1' = s1, s9' \in 0..MaxOutages
  PROVE  RotationInv' /\ RO!MissesWait
<1>1. RO!Written(answers) /\ s4' = <<>> /\ s5' = FALSE /\ s6' = <<>> /\ s7' = 0 /\ s8' = TRUE
  BY DEF RO!Stop
<1>2. /\ s2' \in [PassCards -> Stamps] /\ s3' \subseteq PassCards
      /\ \A c \in PassCards : s2[c].failed <= Wait => s2'[c] = s2[c]
  BY <1>1, WrittenIs
<1>3. RO!MissesWait
  BY <1>2 DEF RO!MissesWait, RO!Cards, PassCards, Wait
<1>4. s1' \in Passes /\ Len(s4') <= s1'.budget /\ Len(s6') < CommitEvery[s1'.source]
  BY <1>1, RotationGiven, NothingWaits DEF RotationInv
<1>5. Waiting(s2, s4, s6)'
  <2>1. 1..Len(s4') = {} /\ 1..Len(s6') = {}
    BY <1>1, NothingWaits
  <2> QED BY <2>1 DEF Waiting
<1> QED BY <1>1, <1>2, <1>3, <1>4, <1>5, NothingWaits, RotationGiven DEF RotationInv

LEMMA RoNames == \A S : RO!Cardinality(S) = Cardinality(S)
BY DEF RO!Cardinality, Cardinality

\* The requests of a run: a card is in one of them, and due.
LEMMA RequestsAre ==
  ASSUME RotationInv
  PROVE  /\ RO!Requests \in Seq(SUBSET PassCards) /\ Len(RO!Requests) <= s1.budget
         /\ Waiting(s2, RO!Requests, <<>>)
<1> DEFINE n == RO!AllRequests
           m == RO!Cut(n)
<1>1. RO!DueOnes \in SUBSET PassCards /\ IsFiniteSet(PassCards)
  <2>1. IsFiniteSet(1..N)
    BY RotationAssumption, FS_Interval
  <2> QED BY <2>1 DEF RO!DueOnes, RO!Cards, PassCards
<1>2. n \in Nat
  <2>1. RO!Batched \in SUBSET PassCards /\ RO!DueOnes \ RO!Batched \in SUBSET PassCards
    BY <1>1 DEF RO!Batched
  <2>2. Cardinality(RO!Batched) \in Nat /\ Cardinality(RO!DueOnes \ RO!Batched) \in Nat
    BY <1>1, <2>1, FS_Subset, FS_CardinalityType
  <2>3. ASSUME NEW x \in Nat, NEW y \in Nat \ {0} PROVE (x + y - 1) \div y \in Nat
    OBVIOUS
  <2>4. RO!Batches \in Nat
    BY <2>2, <2>3, RotationAssumption, RoNames DEF RO!Batches
  <2> QED BY <2>2, <2>4, RoNames DEF RO!AllRequests
<1>3. m <= s1.budget /\ m \in Nat
  <2>1. \E x \in {s1.budget, n} : \A y \in {s1.budget, n} : x <= y
    BY <1>2, RotationGiven DEF RotationInv
  <2>2. m \in {s1.budget, n} /\ \A y \in {s1.budget, n} : m <= y
    BY <2>1 DEF RO!Min, RO!Cut
  <2> HIDE DEF m, n
  <2> QED BY <1>2, <2>2, RotationGiven DEF RotationInv
<1>4. RO!Requests = [k \in 1..m |-> {c \in RO!DueOnes : RO!RequestOf(c) = k}]
  BY DEF RO!Requests
<1> HIDE DEF m
<1>5. /\ RO!Requests \in Seq(SUBSET PassCards) /\ Len(RO!Requests) = m
      /\ \A k \in 1..m : RO!Requests[k] = {c \in RO!DueOnes : RO!RequestOf(c) = k}
  BY <1>1, <1>3, <1>4
<1>6. \A c \in RO!DueOnes : s2[c].failed > Wait
  BY DEF RO!DueOnes, RO!Due, Wait
<1> QED BY <1>3, <1>5, <1>6, NothingWaits DEF Waiting

\* The queue of a run after its first request, or after the first card of it.
LEMMA RestWaits ==
  ASSUME NEW card, NEW q \in Seq(SUBSET PassCards), NEW p, Waiting(card, q, p), NEW Q,
         Q \in Seq(SUBSET PassCards), NEW d \in {0, 1}, \A i \in 1..Len(Q) : i + d \in 1..Len(q) /\ Q[i] \subseteq q[i + d]
  PROVE  Waiting(card, Q, p)
<1>1. ASSUME NEW i \in 1..Len(Q), NEW j \in 1..Len(Q), i # j PROVE Q[i] \cap Q[j] = {}
  <2>1. i + d # j + d
    BY <1>1
  <2>2. q[i + d] \cap q[j + d] = {}
    BY <2>1 DEF Waiting
  <2> QED BY <2>2
<1>2. \A i \in 1..Len(Q) : \A c \in Q[i] : card[c].failed > Wait
  BY DEF Waiting
<1>3. \A i \in 1..Len(Q), j \in 1..Len(p) : p[j].card \notin Q[i]
  BY DEF Waiting
<1>4. \A j \in 1..Len(p) : card[p[j].card].failed > Wait
  BY DEF Waiting
<1> QED BY <1>1, <1>2, <1>3, <1>4 DEF Waiting

LEMMA TailIs ==
  ASSUME NEW T, NEW q \in Seq(T), q # <<>>
  PROVE  /\ Len(q) \in Nat \ {0} /\ Head(q) = q[1] /\ q[1] \in T /\ Tail(q) \in Seq(T) /\ Len(Tail(q)) = Len(q) - 1
         /\ \A i \in 1..Len(Tail(q)) : Tail(q)[i] = q[i + 1] /\ i + 1 \in 1..Len(q)
         /\ Len(q) # 1 => Tail(q) # <<>>
<1>1. Len(q) \in Nat \ {0} /\ Head(q) = q[1] /\ q[1] \in T /\ Tail(q) \in Seq(T) /\ Len(Tail(q)) = Len(q) - 1
  OBVIOUS
<1>2. \A i \in 1..(Len(q) - 1) : Tail(q)[i] = q[i + 1] /\ i + 1 \in 1..Len(q)
  BY <1>1
<1>3. Len(<<>>) = 0
  OBVIOUS
<1>4. Len(q) # 1 => Len(Tail(q)) # 0
  BY <1>1
<1> QED BY <1>1, <1>2, <1>3, <1>4

LEMMA FirstIs ==
  ASSUME NEW T, NEW q \in Seq(T), 1 \in 1..Len(q), NEW x \in T
  PROVE  LET Q == [q EXCEPT ![1] = x]
         IN  Q \in Seq(T) /\ Len(Q) = Len(q) /\ Q[1] = x /\ \A i \in 1..Len(q) : i # 1 => Q[i] = q[i]
OBVIOUS

\* One card of the first request is answered: it is in no request that is left.
LEMMA OneIsAnswered ==
  ASSUME RotationInv, s4 # <<>>, NEW c \in Head(s4), NEW a \in AnswerRecs, a.card = c, NEW Q,
         LET rest == Head(s4) \ {c} IN
         \/ rest = {} /\ Len(s4) # 1 /\ Q = Tail(s4)
         \/ rest # {} /\ Q = [s4 EXCEPT ![1] = rest]
  PROVE  /\ Q \in Seq(SUBSET PassCards) /\ Len(Q) <= Len(s4) /\ Q # <<>>
         /\ Append(s6, a) \in Answers /\ Waiting(s2, Q, Append(s6, a))
<1> DEFINE rest == Head(s4) \ {c}
           answers == Append(s6, a)
<1>0. s4 \in Seq(SUBSET PassCards) /\ s6 \in Seq(AnswerRecs) /\ Waiting(s2, s4, s6)
  BY DEF RotationInv, Answers
<1>1. /\ Len(s4) \in Nat \ {0} /\ Head(s4) = s4[1] /\ s4[1] \in SUBSET PassCards /\ 1 \in 1..Len(s4)
      /\ Tail(s4) \in Seq(SUBSET PassCards) /\ Len(Tail(s4)) = Len(s4) - 1
      /\ \A i \in 1..Len(Tail(s4)) : Tail(s4)[i] = s4[i + 1] /\ i + 1 \in 1..Len(s4)
      /\ Len(s4) # 1 => Tail(s4) # <<>>
  <2>1. Len(s4) \in Nat \ {0} => 1 \in 1..Len(s4)
    OBVIOUS
  <2> QED BY <1>0, <2>1, TailIs
<1>2. \A i \in 1..Len(s4) : s4[i] \in SUBSET PassCards
  BY <1>0
<1>3. \A i \in 1..Len(s4) : i # 1 => c \notin s4[i]
  BY <1>0, <1>1 DEF Waiting
<1>4. /\ Q \in Seq(SUBSET PassCards) /\ Len(Q) <= Len(s4) /\ Q # <<>> /\ Waiting(s2, Q, s6)
      /\ \A i \in 1..Len(Q) : c \notin Q[i]
  <2>1. CASE rest = {} /\ Len(s4) # 1 /\ Q = Tail(s4)
    <3>1. Q \in Seq(SUBSET PassCards) /\ Len(Q) = Len(s4) - 1 /\ Q # <<>>
      BY <1>1, <2>1
    <3>2. \A i \in 1..Len(Q) : Q[i] = s4[i + 1] /\ i + 1 \in 1..Len(s4) /\ i + 1 # 1
      <4>1. \A i \in 1..Len(Q) : Q[i] = s4[i + 1] /\ i + 1 \in 1..Len(s4)
        BY <1>1, <2>1
      <4>2. \A i \in 1..Len(Q) : i + 1 # 1
        BY <1>1, <3>1
      <4> QED BY <4>1, <4>2
    <3>3. Waiting(s2, Q, s6)
      BY <1>0, <3>1, <3>2, RestWaits
    <3> QED BY <1>1, <1>3, <3>1, <3>2, <3>3
  <2>2. CASE rest # {} /\ Q = [s4 EXCEPT ![1] = rest]
    <3>1. rest \in SUBSET PassCards
      BY <1>1
    <3> HIDE DEF rest
    <3>2. Q \in Seq(SUBSET PassCards) /\ Len(Q) = Len(s4) /\ Q[1] = rest /\ \A i \in 1..Len(s4) : i # 1 => Q[i] = s4[i]
      <4>1. s4 \in Seq(SUBSET PassCards) /\ 1 \in 1..Len(s4) /\ Q = [s4 EXCEPT ![1] = rest]
        BY <1>0, <1>1, <2>2
      <4> QED BY ONLY <3>1, <4>1, FirstIs
    <3> USE DEF rest
    <3>3. \A i \in 1..Len(Q) : i + 0 \in 1..Len(s4) /\ Q[i] \subseteq s4[i + 0] /\ c \notin Q[i]
      <4> SUFFICES ASSUME NEW i \in 1..Len(Q) PROVE i + 0 \in 1..Len(s4) /\ Q[i] \subseteq s4[i + 0] /\ c \notin Q[i]
        OBVIOUS
      <4>1. i \in 1..Len(s4) /\ i + 0 = i
        BY <1>1, <3>2
      <4>2. CASE i = 1
        BY <1>1, <3>2, <4>1, <4>2
      <4>3. CASE i # 1
        BY <1>3, <3>2, <4>1, <4>3
      <4> QED BY <4>2, <4>3
    <3>4. Waiting(s2, Q, s6)
      BY <1>0, <3>2, <3>3, RestWaits
    <3>5. Q # <<>>
      <4>1. Len(Q) # 0
        BY <1>1, <3>2
      <4> QED BY <4>1
    <3> QED BY <1>1, <3>2, <3>3, <3>4, <3>5
  <2> QED BY <2>1, <2>2
<1>5. /\ answers \in Answers /\ Len(answers) = Len(s6) + 1 /\ Len(s6) \in Nat /\ answers[Len(s6) + 1] = a
      /\ \A j \in 1..Len(s6) : answers[j] = s6[j]
  BY <1>0 DEF Answers
<1> HIDE DEF answers
<1>6. \A j \in 1..Len(answers) : j \in 1..Len(s6) \/ j = Len(s6) + 1
  BY <1>5
<1>7. s2[c].failed > Wait
  BY <1>0, <1>1 DEF Waiting
<1>8. Waiting(s2, Q, answers)
  <2>1. \A i, j \in 1..Len(Q) : i # j => Q[i] \cap Q[j] = {}
    BY <1>4 DEF Waiting
  <2>2. \A i \in 1..Len(Q), j \in 1..Len(answers) : answers[j].card \notin Q[i]
    BY <1>4, <1>5, <1>6 DEF Waiting
  <2>3. \A i \in 1..Len(Q) : \A x \in Q[i] : s2[x].failed > Wait
    BY <1>4 DEF Waiting
  <2>4. \A j \in 1..Len(answers) : s2[answers[j].card].failed > Wait
    BY <1>4, <1>5, <1>6, <1>7 DEF Waiting
  <2> QED BY <2>1, <2>2, <2>3, <2>4 DEF Waiting
<1> QED BY <1>4, <1>5, <1>8 DEF answers

LEMMA RotationStep == ASSUME RotationInv, RO!Next PROVE RotationInv' /\ RO!MissesWait
<1>0. /\ s4 \in Seq(SUBSET PassCards) /\ s6 \in Answers /\ Len(s4) \in Nat /\ Len(s6) \in Nat
      /\ Waiting(s2, s4, s6) /\ s1 \in Passes /\ \A j \in 1..Len(s6) : s2[s6[j].card].failed > Wait
      /\ s1.budget \in Nat /\ CommitEvery[s1.source] \in Nat \ {0}
  <2>1. s4 \in Seq(SUBSET PassCards) /\ s6 \in Answers /\ Waiting(s2, s4, s6) /\ s1 \in Passes
    BY DEF RotationInv
  <2>2. Len(s4) \in Nat /\ Len(s6) \in Nat
    BY <2>1 DEF Answers
  <2>3. \A j \in 1..Len(s6) : s2[s6[j].card].failed > Wait
    BY <2>1 DEF Waiting
  <2> QED BY <2>1, <2>2, <2>3, RotationGiven
<1>2. CASE RO!Start
  <2>1. s4' = RO!Requests /\ s7' = 0 /\ UNCHANGED <<s1, s2, s3, s5, s6, s8, s9>> /\ s6 = <<>>
    BY <1>2 DEF RO!Start
  <2>2. RO!MissesWait
    BY <2>1 DEF RO!MissesWait
  <2>3. Waiting(s2, s4, s6)'
    BY <2>1, RequestsAre DEF Waiting, Wait
  <2> QED BY <2>1, <2>2, <2>3, RequestsAre, RotationGiven DEF RotationInv
<1>3. ASSUME NEW c \in RO!Cards, NEW found \in BOOLEAN, NEW ok \in BOOLEAN, RO!Answer(c, found, ok)
      PROVE  RotationInv' /\ RO!MissesWait
  <2> DEFINE a == [card |-> c, ok |-> ok, link |-> found /\ s1.source = "poketrace" /\ c \in Linkable]
             answers == Append(s6, a)
             rest == Head(s4) \ {c}
  <2>1. s4 # <<>> /\ c \in Head(s4) /\ UNCHANGED <<s1, s9>>
    BY <1>3 DEF RO!Answer
  <2>2. a \in AnswerRecs /\ a.card = c
    BY DEF AnswerRecs, RO!Cards, PassCards
  <2>3. \/ rest = {} /\ Len(s4) = 1 /\ RO!Stop(answers)
        \/ /\ rest # {} \/ Len(s4) # 1
           /\ s4' = IF rest = {} THEN Tail(s4) ELSE [s4 EXCEPT ![1] = rest]
           /\ s5' = (rest # {}) /\ s7' = 0 /\ s8' = s8
           /\ \/ Len(answers) = CommitEvery[s1.source] /\ RO!Written(answers) /\ s6' = <<>>
              \/ Len(answers) # CommitEvery[s1.source] /\ UNCHANGED <<s2, s3>> /\ s6' = answers
    BY <1>3 DEF RO!Answer
  <2> HIDE DEF a
  <2>4. CASE rest = {} /\ Len(s4) = 1 /\ RO!Stop(answers)
    <3>1. c \in s4[1] /\ 1 \in 1..Len(s4)
      BY <1>0, <2>1, <2>4, TailIs
    <3>2. s2[c].failed > Wait
      BY <1>0, <3>1 DEF Waiting
    <3>3. /\ answers \in Answers /\ Len(answers) = Len(s6) + 1 /\ answers[Len(s6) + 1] = a
          /\ \A j \in 1..Len(s6) : answers[j] = s6[j]
      BY <1>0, <2>2 DEF Answers
    <3> HIDE DEF answers
    <3>4. \A j \in 1..Len(answers) : j \in 1..Len(s6) \/ j = Len(s6) + 1
      BY <1>0, <3>3
    <3>5. \A j \in 1..Len(answers) : s2[answers[j].card].failed > Wait
      BY <1>0, <2>2, <3>2, <3>3, <3>4
    <3>6. s9' \in 0..MaxOutages
      BY <2>1 DEF RotationInv
    <3> QED BY <2>1, <2>4, <3>3, <3>5, <3>6, RunStops
  <2>5. CASE /\ rest # {} \/ Len(s4) # 1
             /\ s4' = IF rest = {} THEN Tail(s4) ELSE [s4 EXCEPT ![1] = rest]
             /\ s5' = (rest # {}) /\ s7' = 0 /\ s8' = s8
             /\ \/ Len(answers) = CommitEvery[s1.source] /\ RO!Written(answers) /\ s6' = <<>>
                \/ Len(answers) # CommitEvery[s1.source] /\ UNCHANGED <<s2, s3>> /\ s6' = answers
    <3>1. \/ rest = {} /\ Len(s4) # 1 /\ s4' = Tail(s4)
          \/ rest # {} /\ s4' = [s4 EXCEPT ![1] = rest]
      BY <2>5
    <3>2. /\ s4' \in Seq(SUBSET PassCards) /\ Len(s4') <= Len(s4) /\ s4' # <<>>
          /\ answers \in Answers /\ Waiting(s2, s4', answers)
      BY <2>1, <2>2, <3>1, OneIsAnswered
    <3>3. Len(s4') <= s1'.budget /\ s1' \in Passes /\ s7' \in 0..(MaxErrors - 1) /\ s8' \in BOOLEAN /\ s9' \in 0..MaxOutages
          /\ s5' \in BOOLEAN
      <4>1. Len(s4') \in Nat /\ Len(s4') <= Len(s4) /\ Len(s4) <= s1.budget
        BY <3>2 DEF RotationInv
      <4>2. s7' = 0 /\ s8' = s8 /\ s5' \in BOOLEAN
        BY <2>5
      <4>3. Len(s4') <= s1.budget
        BY <1>0, <4>1
      <4> QED BY <1>0, <2>1, <4>2, <4>3, RotationGiven DEF RotationInv
    <3>4. Len(answers) = Len(s6) + 1 /\ Len(s6) < CommitEvery[s1.source]
      BY <1>0, <2>2 DEF RotationInv, Answers
    <3>5. CASE Len(answers) = CommitEvery[s1.source] /\ RO!Written(answers) /\ s6' = <<>>
      <4>1. \A j \in 1..Len(answers) : s2[answers[j].card].failed > Wait
        BY <3>2 DEF Waiting
      <4>2. /\ s2' \in [PassCards -> Stamps] /\ s3' \subseteq PassCards
            /\ \A x \in PassCards : (\A j \in 1..Len(answers) : answers[j].card # x) => s2'[x] = s2[x]
            /\ \A x \in PassCards : s2[x].failed <= Wait => s2'[x] = s2[x]
        BY <3>2, <3>5, <4>1, WrittenIs
      <4>3. RO!MissesWait
        BY <4>2 DEF RO!MissesWait, RO!Cards, PassCards, Wait
      <4> HIDE DEF answers
      <4>4. \A i \in 1..Len(s4') : \A x \in s4'[i] : x \in PassCards /\ s2'[x] = s2[x] /\ s2[x].failed > Wait
        BY <3>2, <4>2 DEF Waiting
      <4>5. Len(s6') = 0 /\ 1..Len(s6') = {} /\ s6' \in Answers
        BY <3>5, NothingWaits
      <4>6. Waiting(s2, s4, s6)'
        <5>1. \A i, j \in 1..Len(s4') : i # j => s4'[i] \cap s4'[j] = {}
          BY <3>2 DEF Waiting
        <5>2. Wait' = Wait
          BY <2>1 DEF Wait
        <5> QED BY <4>4, <4>5, <5>1, <5>2 DEF Waiting
      <4>7. Len(s6') < CommitEvery[s1'.source]
        BY <1>0, <2>1, <4>5
      <4> QED BY <3>2, <3>3, <4>2, <4>3, <4>5, <4>6, <4>7 DEF RotationInv
    <3>6. CASE Len(answers) # CommitEvery[s1.source] /\ UNCHANGED <<s2, s3>> /\ s6' = answers
      <4>1. RO!MissesWait
        BY <3>6 DEF RO!MissesWait
      <4>2. Len(s6') < CommitEvery[s1'.source]
        <5>1. \A x, y \in Nat : x < y /\ x + 1 # y => x + 1 < y
          OBVIOUS
        <5> QED BY <1>0, <2>1, <3>4, <3>6, <5>1
      <4>3. Waiting(s2, s4, s6)'
        BY <2>1, <3>2, <3>6 DEF Waiting, Wait
      <4> HIDE DEF answers
      <4> QED BY <3>2, <3>3, <3>6, <4>1, <4>2, <4>3 DEF RotationInv
    <3> QED BY <2>5, <3>5, <3>6
  <2> HIDE DEF answers, rest
  <2> QED BY <2>3, <2>4, <2>5
<1>4. CASE RO!Transient
  <2>0. s4 # <<>> /\ s1' = s1 /\ s9' \in 0..MaxOutages
    BY <1>4, RotationAssumption DEF RO!Transient, RotationInv
  <2>1. CASE RO!Stop(s6)
    BY <1>0, <2>0, <2>1, RunStops
  <2>2. CASE Len(s4) # 1 /\ s7 + 1 # MaxErrors /\ s4' = Tail(s4) /\ s7' = s7 + 1 /\ UNCHANGED <<s2, s3, s5, s6, s8>>
    <3>1. /\ s4' \in Seq(SUBSET PassCards) /\ Len(s4') = Len(s4) - 1 /\ s4' # <<>>
          /\ \A i \in 1..Len(s4') : s4'[i] = s4[i + 1] /\ i + 1 \in 1..Len(s4)
      BY <1>0, <2>0, <2>2, TailIs
    <3>2. Waiting(s2, s4', s6)
      BY <1>0, <3>1, RestWaits
    <3>3. s7' \in 0..(MaxErrors - 1)
      BY <2>2, RotationAssumption DEF RotationInv
    <3>4. Len(s4') <= s1.budget
      BY <1>0, <3>1 DEF RotationInv
    <3>5. RO!MissesWait
      BY <2>2 DEF RO!MissesWait
    <3>6. Waiting(s2, s4, s6)'
      BY <2>0, <2>2, <3>2 DEF Waiting, Wait
    <3> QED BY <2>0, <2>2, <3>1, <3>3, <3>4, <3>5, <3>6 DEF RotationInv
  <2> QED BY <1>4, <2>1, <2>2 DEF RO!Transient
<1>5. CASE RO!CutShort
  <2>1. s9' \in 0..MaxOutages /\ s1' = s1 /\ RO!Stop(s6)
    BY <1>5, RotationAssumption DEF RO!CutShort, RotationInv
  <2> QED BY <1>0, <2>1, RunStops
<1>6. CASE RO!Kill
  <2>1. /\ s9' \in 0..MaxOutages /\ UNCHANGED <<s1, s2, s3>> /\ s8' = TRUE /\ s4' = <<>> /\ s5' = FALSE
        /\ s6' = <<>> /\ s7' = 0
    BY <1>6, RotationAssumption DEF RO!Kill, RotationInv
  <2>2. RO!MissesWait
    BY <2>1 DEF RO!MissesWait
  <2>3. Len(s4') <= s1'.budget /\ Len(s6') < CommitEvery[s1'.source]
    BY <1>0, <2>1, NothingWaits
  <2>4. Waiting(s2, s4, s6)'
    BY <2>1 DEF Waiting
  <2> QED BY <2>1, <2>2, <2>3, <2>4, NothingWaits, RotationGiven DEF RotationInv
<1>7. CASE RO!Midnight
  <2> DEFINE r(c) == [age |-> RO!Older(s2[c].age), failed |-> RO!Older(s2[c].failed)]
  <2>1. s4 = <<>> /\ s2' = [c \in PassCards |-> r(c)] /\ s8' = FALSE /\ UNCHANGED <<s1, s3, s4, s5, s6, s7, s9>>
    BY <1>7 DEF RO!Midnight, RO!Cards, PassCards
  <2>2. ASSUME NEW x \in 0..(Old + 1) PROVE RO!Older(x) \in 0..(Old + 1) /\ (RO!Older(x) # 0 \/ x = 0)
    BY RotationAssumption DEF RO!Older
  <2>3. ASSUME NEW c \in PassCards PROVE r(c) \in Stamps /\ r(c).failed = RO!Older(s2[c].failed)
    <3>1. RO!Older(s2[c].age) \in 0..(Old + 1) /\ RO!Older(s2[c].failed) \in 0..(Old + 1)
      BY <2>2, CardsAre
    <3> QED BY <3>1 DEF Stamps
  <2>4. RO!MissesWait
    <3>1. \A c \in PassCards : s2'[c].failed # 0 \/ s2[c].failed = 0
      BY <2>1, <2>2, <2>3, CardsAre
    <3> QED BY <3>1 DEF RO!MissesWait, RO!Cards, PassCards
  <2>5. s2' \in [PassCards -> Stamps]
    <3> HIDE DEF r
    <3> QED BY <2>1, <2>3
  <2>6. s4' = <<>> /\ s6' = <<>>
    BY <2>1 DEF RotationInv
  <2>7. Waiting(s2, s4, s6)'
    BY <2>6 DEF Waiting
  <2> HIDE DEF r
  <2> QED BY <2>1, <2>4, <2>5, <2>6, <2>7 DEF RotationInv
<1> QED BY <1>2, <1>3, <1>4, <1>5, <1>6, <1>7 DEF RO!Next, RO!Run

LEMMA RotationStutter ==
  ASSUME RotationInv, UNCHANGED <<s1, s2, s3, s4, s5, s6, s7, s8, s9>>
  PROVE  RotationInv' /\ RO!MissesWait
BY DEF RotationInv, RO!MissesWait, Waiting, Wait

-----------------------------------------------------------------------------
(* The Claude queue *)

Asked == Texts \cup Photos \cup Names
Tries == [attempts : 0..MaxAttempts, age : 0..Hour]
Counts == [0..(Hour - 1) -> Nat]

LEMMA ClaudeNames ==
  /\ CQ!Items = Asked /\ CQ!Ages = 0..(Hour - 1)
  /\ \A f, S : CQ!Sigma(f, S) = Sigma(f, S)
  /\ \A S : CQ!Cardinality(S) = Cardinality(S)
  /\ \A c : CQ!Sent(c) = Sigma(c, 0..(Hour - 1))
<1>1. \A f, S : CQ!Sigma(f, S) = Sigma(f, S)
  BY DEF CQ!Sigma, Sigma, CQ!Fns!SumFunctionOnSet, CQ!Fns!FoldFunctionOnSet, CQ!Fns!MapThenFoldSet,
         Fns!SumFunctionOnSet, Fns!FoldFunctionOnSet, Fns!MapThenFoldSet
<1>2. \A S : CQ!Cardinality(S) = Cardinality(S)
  BY DEF CQ!Cardinality, Cardinality
<1>3. \A c : CQ!Sent(c) = Sigma(c, 0..(Hour - 1))
  BY <1>1 DEF CQ!Sent, CQ!Ages
<1> QED BY <1>1, <1>2, <1>3 DEF CQ!Items, Asked, CQ!Ages

LEMMA HoursAre == /\ IsFiniteSet(0..(Hour - 1)) /\ 0 \in 0..(Hour - 1) /\ Hour \in Nat \ {0} /\ Hour - 1 \in Nat
                  /\ PhotoCap \in Nat /\ MaxLots \in Nat /\ MaxAttempts \in Nat \ {0} /\ Cooldown \in Nat
                  /\ MaxNames \in Nat /\ PerCall \in Nat \ {0}
<1>1. /\ Hour \in Nat \ {0} /\ PhotoCap \in Nat /\ MaxLots \in Nat /\ MaxAttempts \in Nat \ {0} /\ Cooldown \in Nat
      /\ MaxNames \in Nat /\ PerCall \in Nat \ {0}
  BY ClaudeAssumption
<1>2. 0 \in 0..(Hour - 1) /\ Hour - 1 \in Int /\ Hour - 1 \in Nat /\ 0 \in Int
  BY <1>1
<1>3. IsFiniteSet(0..(Hour - 1))
  BY ONLY <1>2, FS_Interval
<1> QED BY <1>1, <1>2, <1>3

\* The first n are n at most.
LEMMA FirstOfFew ==
  ASSUME NEW S \in SUBSET Nat, IsFiniteSet(S), NEW n \in Nat
  PROVE  /\ CQ!FirstOf(S, n) \in SUBSET S /\ IsFiniteSet(CQ!FirstOf(S, n))
         /\ Cardinality(CQ!FirstOf(S, n)) <= n
<1> DEFINE F == CQ!FirstOf(S, n)
<1>1. F = {p \in S : Cardinality({q \in S : q < p}) < n}
  BY ClaudeNames DEF CQ!FirstOf
<1>2. F \in SUBSET S /\ IsFiniteSet(F) /\ F \in SUBSET Int
  <2>1. F \in SUBSET S
    BY <1>1
  <2> HIDE DEF F
  <2>2. IsFiniteSet(F)
    BY <2>1, FS_Subset
  <2>3. \A p \in F : p \in Int
    BY <2>1
  <2> QED BY <2>1, <2>2, <2>3
<1>3. \A p \in F : Cardinality({q \in S : q < p}) < n
  BY <1>1
<1> HIDE DEF F
<1>4. Cardinality(F) \in Nat
  BY <1>2, FS_CardinalityType
<1>5. ASSUME Cardinality(F) > n PROVE FALSE
  <2>1. n + 1 \in 1..Cardinality(F)
    BY <1>4, <1>5
  <2>2. PICK p \in F : Rank(F, p) = n + 1
    BY <1>2, <2>1, RankTaken
  <2> DEFINE A == {q \in F : q <= p}
             B == {q \in S : q < p}
  <2>3. Cardinality(A) = n + 1
    BY <2>2 DEF Rank
  <2>4. A \in SUBSET F /\ p \in A /\ B \in SUBSET S /\ A \ {p} \in SUBSET B
    <3>1. \A q \in F : q \in S /\ q \in Int
      BY <1>2
    <3>2. \A q \in A : q \in F /\ (q # p => q \in B)
      BY <3>1
    <3>3. p \in A /\ B \in SUBSET S
      BY <3>1
    <3> HIDE DEF A, B
    <3> QED BY <3>2, <3>3
  <2>5. Cardinality(B) < n
    BY <1>3
  <2> HIDE DEF A, B
  <2>6. IsFiniteSet(A) /\ IsFiniteSet(B)
    BY <1>2, <2>4, FS_Subset
  <2>7. Cardinality(A \ {p}) = Cardinality(A) - 1
    BY <2>4, <2>6, FS_RemoveElement
  <2>8. Cardinality(A \ {p}) <= Cardinality(B) /\ Cardinality(B) \in Nat
    BY <2>4, <2>6, FS_Subset, FS_CardinalityType
  <2> QED BY <2>3, <2>5, <2>7, <2>8
<1> QED BY <1>2, <1>4, <1>5 DEF F

\* Calls that are counted are that many more in the hour; a call is never
\* forgotten within it, and none is counted twice when time passes.
LEMMA CallCounted ==
  ASSUME NEW c \in Counts, NEW k \in Nat
  PROVE  /\ [c EXCEPT ![0] = @ + k] \in Counts
         /\ CQ!Sent([c EXCEPT ![0] = @ + k]) = CQ!Sent(c) + k /\ CQ!Sent(c) \in Nat
<1> DEFINE S == 0..(Hour - 1)
           d == [c EXCEPT ![0] = @ + k]
<1>1. IsFiniteSet(S) /\ 0 \in S /\ IsFiniteSet(S \ {0})
  <2>1. IsFiniteSet(S) /\ 0 \in S
    BY HoursAre
  <2> HIDE DEF S
  <2> QED BY <2>1, FS_Subset
<1>2. d \in Counts /\ d[0] = c[0] + k /\ \A a \in S \ {0} : d[a] = c[a]
  BY <1>1 DEF Counts
<1>3. \A a \in S : c[a] \in Nat /\ d[a] \in Nat /\ c[a] \in Int /\ d[a] \in Int
  BY <1>2 DEF Counts
<1> HIDE DEF d, S
<1>4. Sigma(c, S) = c[0] + Sigma(c, S \ {0}) /\ Sigma(d, S) = d[0] + Sigma(d, S \ {0})
  BY <1>1, <1>3, SumOfInts
<1>5. Sigma(c, S \ {0}) = Sigma(d, S \ {0})
  BY <1>1, <1>2, <1>3, SumAgrees
<1>6. Sigma(c, S) \in Nat /\ Sigma(c, S \ {0}) \in Nat
  BY <1>1, <1>3, SumOfNats
<1>7. Sigma(d, S) = Sigma(c, S) + k
  BY <1>1, <1>2, <1>3, <1>4, <1>5, <1>6
<1> QED BY <1>2, <1>6, <1>7, ClaudeNames DEF d, S

LEMMA CallsAge ==
  ASSUME NEW c \in Counts
  PROVE  CQ!Older(c) \in Counts /\ CQ!Sent(CQ!Older(c)) <= CQ!Sent(c)
<1> DEFINE o == CQ!Older(c)
           Good == {n \in Nat : n \in 0..(Hour - 1) => Sigma(o, 0..n) + c[n] = Sigma(c, 0..n)}
<1>1. o \in Counts /\ o[0] = 0 /\ \A a \in 0..(Hour - 1) : a # 0 => a - 1 \in 0..(Hour - 1) /\ o[a] = c[a - 1]
  BY HoursAre DEF CQ!Older, CQ!Ages, Counts
<1>2. \A a \in 0..(Hour - 1) : c[a] \in Nat /\ o[a] \in Nat /\ c[a] \in Int /\ o[a] \in Int
  BY <1>1 DEF Counts
<1> HIDE DEF o
<1>3. 0 \in Good
  <2>1. 0..0 = {} \cup {0} /\ 0 \notin {} /\ IsFiniteSet({})
    BY FS_EmptySet
  <2>2. \A y \in {} \cup {0} : c[y] \in Int /\ o[y] \in Int
    BY <1>2, HoursAre
  <2>3. Sigma(c, {} \cup {0}) = c[0] + Sigma(c, {}) /\ Sigma(o, {} \cup {0}) = o[0] + Sigma(o, {})
    BY <2>1, <2>2, SumWith
  <2> QED BY <1>1, <1>2, <2>1, <2>3, SumOfNone, HoursAre
<1>4. ASSUME NEW n \in Good PROVE n + 1 \in Good
  <2> SUFFICES ASSUME n + 1 \in 0..(Hour - 1) PROVE Sigma(o, 0..(n + 1)) + c[n + 1] = Sigma(c, 0..(n + 1))
    OBVIOUS
  <2>1. n \in 0..(Hour - 1) /\ n \in Nat /\ \A a \in 0..(n + 1) : a \in 0..(Hour - 1)
    BY HoursAre
  <2>2. IsFiniteSet(0..n) /\ n + 1 \notin 0..n /\ 0..(n + 1) = (0..n) \cup {n + 1}
    <3>1. 0 \in Int /\ n \in Int
      BY <2>1
    <3>2. IsFiniteSet(0..n)
      BY ONLY <3>1, FS_Interval
    <3> QED BY <2>1, <3>2
  <2>3. \A a \in (0..n) \cup {n + 1} : c[a] \in Int /\ o[a] \in Int
    BY <1>2, <2>1, <2>2
  <2>4. /\ Sigma(c, (0..n) \cup {n + 1}) = c[n + 1] + Sigma(c, 0..n)
        /\ Sigma(o, (0..n) \cup {n + 1}) = o[n + 1] + Sigma(o, 0..n)
    BY <2>2, <2>3, SumWith
  <2>5. o[n + 1] = c[n] /\ c[n] \in Int /\ c[n + 1] \in Int
    BY <1>1, <1>2, <2>1
  <2>6. Sigma(o, 0..n) + c[n] = Sigma(c, 0..n)
    BY <2>1
  <2>7. Sigma(o, 0..n) \in Int /\ Sigma(c, 0..n) \in Int
    BY <2>2, <2>3, SumOfInts
  <2> HIDE DEF Good
  <2>8. o[n + 1] + Sigma(o, 0..n) + c[n + 1] = c[n + 1] + Sigma(c, 0..n)
    <3> DEFINE x == Sigma(o, 0..n)
               y == Sigma(c, 0..n)
    <3>1. x + c[n] = y /\ x \in Int /\ y \in Int
      BY <2>6, <2>7
    <3> HIDE DEF x, y
    <3>2. o[n + 1] + x + c[n + 1] = c[n + 1] + y
      BY <2>5, <3>1
    <3> QED BY <3>2 DEF x, y
  <2> QED BY <2>2, <2>4, <2>8
<1>5. Hour - 1 \in Good
  <2> HIDE DEF Good
  <2> QED BY <1>3, <1>4, UpFrom0, HoursAre
<1>6. Sigma(o, 0..(Hour - 1)) + c[Hour - 1] = Sigma(c, 0..(Hour - 1))
  BY <1>5, HoursAre
<1>7. Sigma(o, 0..(Hour - 1)) \in Nat /\ Sigma(c, 0..(Hour - 1)) \in Nat /\ c[Hour - 1] \in Nat
  <2>1. Hour - 1 \in 0..(Hour - 1)
    BY HoursAre
  <2> QED BY <1>2, <2>1, HoursAre, SumOfNats
<1>8. Sigma(o, 0..(Hour - 1)) <= Sigma(c, 0..(Hour - 1))
  BY <1>6, <1>7
<1> QED BY <1>1, <1>8, ClaudeNames DEF o

ClaudeRuns == [at : {"texts", "photo", "reply", "naming", "save", "close"}, texts : SUBSET Texts,
               photos : SUBSET Photos, names : SUBSET Names, more : BOOLEAN,
               saved : SUBSET Asked, failed : SUBSET Asked, calls : Counts]

\* A batch, by the failures that are stored
BatchOf(names, failures) ==
  LET fresh == {i \in names : failures[i].attempts = 0}
  IN  IF fresh # {} THEN CQ!FirstOf(fresh, PerCall) ELSE CQ!FirstOf(names, 1)

\* The photos that a run may still send, over those sent in this hour.
Unsent(r, failures) ==
  Cardinality(r.photos) + Cardinality(r.names)
    - (IF r.at = "reply" THEN 1 ELSE IF r.at = "naming" THEN Cardinality(BatchOf(r.names, failures)) ELSE 0)

\* A run knows the calls that are stored, and what it has taken on fits in the
\* hour's cap; what it may record as failed has not failed too often before.
RunFits(r, calls, failures) ==
  /\ r.calls = calls
  /\ r.at = "reply" => r.photos # {}
  /\ r.at \in {"save", "close"} => r.photos = {} /\ r.names = {}
  /\ CQ!Sent(calls) + Unsent(r, failures) <= PhotoCap
  /\ r.at # "close" => \A i \in r.texts \cup r.photos \cup r.names \cup r.failed : failures[i].attempts < MaxAttempts

ClaudeInv ==
  /\ s1 \subseteq Asked /\ s2 \subseteq Asked /\ s3 \in [Asked -> Tries]
  /\ s4 \in Counts /\ s5 = s4 /\ CQ!Sent(s4) <= PhotoCap
  /\ s6 \in 0..Cooldown /\ s7 \in BOOLEAN /\ s8 \in BOOLEAN
  /\ s9 \in ClaudeRuns \cup {CQ!Idle}
  /\ s9 # CQ!Idle => RunFits(s9, s4, s3)

LEMMA RunsAre == CQ!Runs = ClaudeRuns /\ CQ!Idle \notin ClaudeRuns /\ CQ!Idle.at = "idle"
<1>1. CQ!Idle.at = "idle"
  BY DEF CQ!Idle
<1>2. \A r \in ClaudeRuns : r.at # "idle"
  BY DEF ClaudeRuns
<1>3. CQ!Runs = ClaudeRuns
  BY ClaudeNames DEF CQ!Runs, ClaudeRuns, Counts
<1> QED BY <1>1, <1>2, <1>3

LEMMA ClaudeTyped == ASSUME ClaudeInv PROVE CQ!TypeOK /\ CQ!WithinPhotoCap
<1>1. CQ!TypeOK
  BY ClaudeNames, RunsAre DEF ClaudeInv, CQ!TypeOK, Tries, Counts
<1> QED BY <1>1 DEF ClaudeInv, CQ!WithinPhotoCap

LEMMA ClaudeBegin == ASSUME CQ!Init PROVE ClaudeInv
<1>1. CQ!NoCalls \in Counts /\ \A a \in 0..(Hour - 1) : CQ!NoCalls[a] = 0
  BY ClaudeNames DEF CQ!NoCalls, Counts
<1>2. CQ!Sent(CQ!NoCalls) = 0
  BY <1>1, ClaudeNames, HoursAre, SumOfZeros
<1>3. CQ!NoFailure \in Tries
  BY HoursAre DEF CQ!NoFailure, Tries
<1>4. [i \in Asked |-> CQ!NoFailure] \in [Asked -> Tries]
  BY <1>3
<1>5. 0 <= PhotoCap /\ 0 \in 0..Cooldown
  BY HoursAre
<1> QED BY <1>1, <1>2, <1>4, <1>5, ClaudeNames DEF CQ!Init, ClaudeInv

\* A batch is a part of the names that are left, and not empty.
LEMMA BatchIs ==
  ASSUME NEW S \in SUBSET Nat, IsFiniteSet(S), NEW failures
  PROVE  /\ BatchOf(S, failures) \in SUBSET S /\ IsFiniteSet(BatchOf(S, failures))
         /\ Cardinality(BatchOf(S, failures)) \in Nat /\ Cardinality(BatchOf(S, failures)) <= Cardinality(S)
         /\ Cardinality(S \ BatchOf(S, failures)) = Cardinality(S) - Cardinality(BatchOf(S, failures))
         /\ Cardinality(S) \in Nat
<1> DEFINE fresh == {i \in S : failures[i].attempts = 0}
           B == BatchOf(S, failures)
<1>1. fresh \in SUBSET S /\ fresh \in SUBSET Nat /\ IsFiniteSet(fresh)
  BY FS_Subset
<1>2. CQ!FirstOf(fresh, PerCall) \in SUBSET fresh /\ CQ!FirstOf(S, 1) \in SUBSET S
  <2> HIDE DEF fresh
  <2>1. PerCall \in Nat /\ 1 \in Nat
    BY HoursAre
  <2> QED BY <1>1, <2>1, FirstOfFew
<1>3. B = IF fresh # {} THEN CQ!FirstOf(fresh, PerCall) ELSE CQ!FirstOf(S, 1)
  BY DEF BatchOf
<1>4. B \in SUBSET S
  BY <1>1, <1>2, <1>3
<1> HIDE DEF B, fresh
<1>5. IsFiniteSet(B) /\ Cardinality(B) \in Nat /\ Cardinality(B) <= Cardinality(S) /\ Cardinality(S) \in Nat
  BY <1>4, FS_Subset, FS_CardinalityType
<1>6. Cardinality(S \ B) = Cardinality(S) - Cardinality(B)
  <2>1. Cardinality(S \ B) = Cardinality(S) - Cardinality(S \cap B)
    BY <1>5, FS_Difference
  <2>2. S \cap B = B
    BY <1>4
  <2> QED BY <2>1, <2>2
<1> QED BY <1>4, <1>5, <1>6 DEF B

\* What a batch is depends on the number of tries alone.
LEMMA BatchStays ==
  ASSUME NEW S, NEW f, NEW g, \A i \in S : f[i].attempts = g[i].attempts
  PROVE  BatchOf(S, f) = BatchOf(S, g)
<1>1. {i \in S : f[i].attempts = 0} = {i \in S : g[i].attempts = 0}
  OBVIOUS
<1> QED BY <1>1 DEF BatchOf

LEMMA BatchNamed == \A S : CQ!Batch(S) = BatchOf(S, s3)
BY DEF CQ!Batch, BatchOf

LEMMA OfRun ==
  ASSUME ClaudeInv, s9 # CQ!Idle
  PROVE  /\ s9 \in ClaudeRuns /\ s9.at \in {"texts", "photo", "reply", "naming", "save", "close"}
         /\ s9.texts \subseteq Texts /\ s9.photos \subseteq Photos /\ s9.names \subseteq Names /\ s9.more \in BOOLEAN
         /\ s9.saved \subseteq Asked /\ s9.failed \subseteq Asked /\ s9.calls = s4
         /\ IsFiniteSet(s9.photos) /\ s9.photos \in SUBSET Nat /\ Cardinality(s9.photos) \in Nat
         /\ IsFiniteSet(s9.names) /\ s9.names \in SUBSET Nat /\ Cardinality(s9.names) \in Nat
         /\ s9.texts \subseteq Asked /\ s9.photos \subseteq Asked /\ s9.names \subseteq Asked
         /\ Cardinality(BatchOf(s9.names, s3)) \in Nat
         /\ CQ!Sent(s4) \in Nat /\ Unsent(s9, s3) \in Int /\ CQ!Sent(s4) + Unsent(s9, s3) <= PhotoCap
<1>1. s9 \in ClaudeRuns
  BY DEF ClaudeInv
<1>2. /\ s9.at \in {"texts", "photo", "reply", "naming", "save", "close"}
      /\ s9.texts \subseteq Texts /\ s9.photos \subseteq Photos /\ s9.names \subseteq Names /\ s9.more \in BOOLEAN
      /\ s9.saved \subseteq Asked /\ s9.failed \subseteq Asked
  BY <1>1 DEF ClaudeRuns
<1>3. s9.calls = s4 /\ CQ!Sent(s4) + Unsent(s9, s3) <= PhotoCap
  BY DEF ClaudeInv, RunFits
<1>4. /\ IsFiniteSet(s9.photos) /\ s9.photos \in SUBSET Nat /\ IsFiniteSet(s9.names) /\ s9.names \in SUBSET Nat
  <2>1. IsFiniteSet(Photos) /\ Photos \in SUBSET Nat /\ IsFiniteSet(Names) /\ Names \in SUBSET Nat
    BY ClaudeAssumption
  <2> QED BY <1>2, <2>1, FS_Subset
<1>5. Cardinality(s9.photos) \in Nat /\ Cardinality(s9.names) \in Nat
  BY <1>4, FS_CardinalityType
<1>6. CQ!Sent(s4) \in Nat
  BY CallCounted DEF ClaudeInv
<1>7. Cardinality(BatchOf(s9.names, s3)) \in Nat
  BY <1>4, BatchIs
<1>8. Unsent(s9, s3) \in Int
  BY <1>5, <1>7 DEF Unsent
<1> QED BY <1>1, <1>2, <1>3, <1>4, <1>5, <1>6, <1>7, <1>8 DEF Asked

\* What is left when a run is over.
LEMMA RunIsOver ==
  ASSUME ClaudeInv, s1' = s1, s2' \subseteq Asked, s3' \in [Asked -> Tries], s4' = s4, s5' = s5,
         s6' \in 0..Cooldown, s7' \in BOOLEAN, s8' \in BOOLEAN, s9' = CQ!Idle
  PROVE  ClaudeInv'
BY DEF ClaudeInv

\* A run that goes on.
LEMMA RunGoesOn ==
  ASSUME ClaudeInv, UNCHANGED <<s1, s2, s3, s4, s5, s6>>, s7' \in BOOLEAN, s8' \in BOOLEAN,
         s9' \in ClaudeRuns, RunFits(s9', s4, s3)
  PROVE  ClaudeInv'
BY DEF ClaudeInv

\* A run as far as before, that sends nothing now.
LEMMA FitsStill ==
  ASSUME ClaudeInv, s9 # CQ!Idle, s9.at # "close", NEW r \in ClaudeRuns, r.calls = s9.calls,
         r.at \notin {"reply", "naming", "save", "close"},
         Cardinality(r.photos) + Cardinality(r.names) <= Unsent(s9, s3),
         Cardinality(r.photos) \in Nat, Cardinality(r.names) \in Nat, r.texts = s9.texts,
         r.photos \subseteq s9.photos, r.names \subseteq s9.names,
         r.failed \subseteq s9.failed \cup s9.texts \cup s9.photos \cup s9.names
  PROVE  RunFits(r, s4, s3)
<1>1. r.calls = s4 /\ r.at # "reply" /\ r.at \notin {"save", "close"}
  BY OfRun
<1>2. CQ!Sent(s4) + Unsent(r, s3) <= PhotoCap
  <2>1. Unsent(r, s3) = Cardinality(r.photos) + Cardinality(r.names)
    BY DEF Unsent
  <2>2. CQ!Sent(s4) \in Nat /\ Unsent(s9, s3) \in Int /\ CQ!Sent(s4) + Unsent(s9, s3) <= PhotoCap
    BY OfRun
  <2> QED BY ONLY <2>1, <2>2, HoursAre, Cardinality(r.photos) + Cardinality(r.names) <= Unsent(s9, s3),
                  Cardinality(r.photos) \in Nat, Cardinality(r.names) \in Nat
<1>3. \A i \in s9.texts \cup s9.photos \cup s9.names \cup s9.failed : s3[i].attempts < MaxAttempts
  BY DEF ClaudeInv, RunFits
<1> QED BY <1>1, <1>2, <1>3 DEF RunFits

LEMMA TriesRecorded ==
  ASSUME ClaudeInv, s9 # CQ!Idle, s9.at # "close"
  PROVE  CQ!AfterRun \in [Asked -> Tries]
<1>1. CQ!NoFailure \in Tries
  BY HoursAre DEF CQ!NoFailure, Tries
<1>2. \A i \in Asked : s3[i] \in Tries
  BY DEF ClaudeInv
<1>3. ASSUME NEW i \in Asked, i \in s9.failed PROVE CQ!Recorded(s3[i]) \in Tries
  <2>1. s3[i].attempts < MaxAttempts
    BY <1>3 DEF ClaudeInv, RunFits
  <2>2. s3[i].attempts \in 0..MaxAttempts
    BY <1>2 DEF Tries
  <2>3. s3[i].attempts + 1 \in 0..MaxAttempts /\ 0 \in 0..Hour
    BY <2>1, <2>2, HoursAre
  <2> QED BY ONLY <2>3 DEF CQ!Recorded, Tries
<1> QED BY <1>1, <1>2, <1>3, ClaudeNames DEF CQ!AfterRun

\* What a run takes on, of the claim lots and then of the names.
LEMMA TakenFits ==
  ASSUME ClaudeInv
  PROVE  /\ CQ!Taken \in SUBSET CQ!Pending(Photos) /\ CQ!TakenNames \in SUBSET CQ!Pending(Names)
         /\ Cardinality(CQ!Taken) \in Nat /\ Cardinality(CQ!TakenNames) \in Nat /\ CQ!Sent(s4) \in Nat
         /\ CQ!Sent(s4) + (Cardinality(CQ!Taken) + Cardinality(CQ!TakenNames)) <= PhotoCap
<1> DEFINE n == CQ!Smaller(MaxLots, CQ!Left(s4))
           m == CQ!Smaller(MaxNames, CQ!NamesLeft)
<1>1. CQ!Sent(s4) \in Nat /\ CQ!Left(s4) \in Nat /\ CQ!Sent(s4) + CQ!Left(s4) <= PhotoCap
  <2>1. CQ!Sent(s4) \in Nat /\ CQ!Sent(s4) <= PhotoCap
    BY CallCounted DEF ClaudeInv
  <2>2. CQ!Left(s4) = IF CQ!Sent(s4) < PhotoCap THEN PhotoCap - CQ!Sent(s4) ELSE 0
    BY DEF CQ!Left
  <2> QED BY ONLY <2>1, <2>2, HoursAre
<1>2. n \in Nat /\ n <= CQ!Left(s4)
  BY <1>1, HoursAre DEF CQ!Smaller
<1>3. \A S : CQ!Pending(S) \subseteq S
  BY DEF CQ!Pending
<1>4. /\ CQ!Pending(Photos) \in SUBSET Nat /\ IsFiniteSet(CQ!Pending(Photos))
      /\ CQ!Pending(Names) \in SUBSET Nat /\ IsFiniteSet(CQ!Pending(Names))
  BY <1>3, ClaudeAssumption, FS_Subset
<1>5. /\ CQ!Taken = CQ!FirstOf(CQ!Pending(Photos), n) /\ CQ!TakenNames = CQ!FirstOf(CQ!Pending(Names), m)
      /\ CQ!NamesLeft = CQ!Left(s4) - Cardinality(CQ!Taken)
  BY ClaudeNames DEF CQ!Taken, CQ!TakenNames, CQ!NamesLeft
<1> HIDE DEF n
<1>6. /\ CQ!Taken \in SUBSET CQ!Pending(Photos) /\ IsFiniteSet(CQ!Taken)
      /\ Cardinality(CQ!Taken) <= n /\ Cardinality(CQ!Taken) \in Nat
  <2>1. /\ CQ!Taken \in SUBSET CQ!Pending(Photos) /\ IsFiniteSet(CQ!Taken) /\ Cardinality(CQ!Taken) <= n
    BY <1>2, <1>4, <1>5, FirstOfFew
  <2> QED BY <2>1, FS_CardinalityType
<1>7. CQ!NamesLeft \in Nat
  BY <1>1, <1>2, <1>5, <1>6
<1>8. m \in Nat /\ m <= CQ!NamesLeft
  BY <1>7, HoursAre DEF CQ!Smaller
<1> HIDE DEF m
<1>9. /\ CQ!TakenNames \in SUBSET CQ!Pending(Names) /\ IsFiniteSet(CQ!TakenNames)
      /\ Cardinality(CQ!TakenNames) <= m /\ Cardinality(CQ!TakenNames) \in Nat
  <2>1. /\ CQ!TakenNames \in SUBSET CQ!Pending(Names) /\ IsFiniteSet(CQ!TakenNames)
        /\ Cardinality(CQ!TakenNames) <= m
    BY <1>4, <1>5, <1>8, FirstOfFew
  <2> QED BY <2>1, FS_CardinalityType
<1>10. CQ!Sent(s4) + (Cardinality(CQ!Taken) + Cardinality(CQ!TakenNames)) <= PhotoCap
  <2>1. Cardinality(CQ!Taken) + Cardinality(CQ!TakenNames) <= CQ!Left(s4)
    BY <1>1, <1>5, <1>6, <1>7, <1>8, <1>9
  <2> QED BY <1>1, <1>6, <1>9, <2>1, HoursAre
<1> QED BY <1>1, <1>6, <1>9, <1>10

LEMMA RunStarts == ASSUME ClaudeInv, CQ!Start PROVE ClaudeInv'
<1> DEFINE r == [at |-> "texts", texts |-> CQ!Pending(Texts), photos |-> CQ!Taken, names |-> CQ!TakenNames,
                 more |-> CQ!More, saved |-> {}, failed |-> {}, calls |-> s4]
<1>1. UNCHANGED <<s1, s2, s3, s4, s5, s6, s8, s10>> /\ s7' \in BOOLEAN /\ (s9' = s9 \/ s9' = r) /\ s9 = CQ!Idle
  BY DEF CQ!Start
<1>2. CASE s9' = s9
  BY <1>1, <1>2 DEF ClaudeInv
<1>3. CASE s9' = r
  <2>1. \A S : CQ!Pending(S) \subseteq S /\ \A i \in CQ!Pending(S) : CQ!Ok(s3[i])
    BY DEF CQ!Pending
  <2>2. \A i \in Asked : CQ!Ok(s3[i]) => s3[i].attempts < MaxAttempts
    <3>1. \A f \in Tries : f.attempts \in Nat
      BY HoursAre DEF Tries
    <3> QED BY <3>1, HoursAre DEF ClaudeInv, CQ!Ok, CQ!Skipped
  <2>3. /\ CQ!Pending(Texts) \in SUBSET Texts /\ CQ!Taken \in SUBSET Photos /\ CQ!TakenNames \in SUBSET Names
        /\ \A i \in CQ!Pending(Texts) \cup CQ!Taken \cup CQ!TakenNames : i \in Asked /\ CQ!Ok(s3[i])
    BY <2>1, TakenFits DEF Asked
  <2>4. r \in ClaudeRuns
    <3>1. CQ!More \in BOOLEAN /\ s4 \in Counts
      BY DEF CQ!More, ClaudeInv
    <3> QED BY <2>3, <3>1 DEF ClaudeRuns
  <2>5. RunFits(r, s4, s3)
    <3>1. /\ r.calls = s4 /\ r.at = "texts" /\ r.photos = CQ!Taken /\ r.names = CQ!TakenNames
          /\ r.texts = CQ!Pending(Texts) /\ r.failed = {}
      OBVIOUS
    <3> HIDE DEF r
    <3>2. \A i \in r.texts \cup r.photos \cup r.names \cup r.failed : s3[i].attempts < MaxAttempts
      BY <2>2, <2>3, <3>1
    <3>3. CQ!Sent(s4) + Unsent(r, s3) <= PhotoCap
      <4>1. Unsent(r, s3) = Cardinality(CQ!Taken) + Cardinality(CQ!TakenNames)
        BY <3>1, TakenFits DEF Unsent
      <4> QED BY <4>1, TakenFits
    <3> QED BY <3>1, <3>2, <3>3 DEF RunFits
  <2> HIDE DEF r
  <2>6. s9' \in ClaudeRuns /\ RunFits(s9', s4, s3)
    BY <1>3, <2>4, <2>5
  <2>7. s7' \in BOOLEAN /\ s8' \in BOOLEAN
    BY <1>1 DEF ClaudeInv
  <2> QED BY <1>1, <2>6, <2>7, RunGoesOn
<1> QED BY <1>1, <1>2, <1>3

\* A run counts and stores the calls of the photos it sends next, k of them.
LEMMA AskKeeps ==
  ASSUME ClaudeInv, s9 # CQ!Idle, s9.at = "photo", NEW k \in Nat, NEW place \in {"reply", "naming"},
         UNCHANGED <<s1, s2, s3, s6, s7, s8>>,
         s9' = [s9 EXCEPT !.at = place, !.calls[0] = @ + k], s4' = s9'.calls, s5' = [s5 EXCEPT ![0] = @ + k],
         place = "reply" => k = 1 /\ s9.photos # {}, place = "naming" => k = Cardinality(BatchOf(s9.names, s3)),
         k <= Cardinality(s9.photos) + Cardinality(s9.names)
  PROVE  ClaudeInv'
<1> DEFINE d == [s4 EXCEPT ![0] = @ + k]
           r == [s9 EXCEPT !.at = place, !.calls = d]
<1>1. d \in Counts /\ CQ!Sent(d) = CQ!Sent(s4) + k /\ CQ!Sent(s4) \in Nat
  BY CallCounted DEF ClaudeInv
<1>2. s5' = d
  BY DEF ClaudeInv
<1>3. s9' = r
  BY OfRun DEF ClaudeRuns
<1> HIDE DEF d
<1>4. /\ r \in ClaudeRuns /\ r.at = place /\ r.texts = s9.texts /\ r.photos = s9.photos /\ r.names = s9.names
      /\ r.failed = s9.failed /\ r.calls = d
  BY <1>1, OfRun DEF ClaudeRuns
<1> HIDE DEF r
<1>5. s4' = d
  BY <1>3, <1>4
<1>6. Unsent(s9, s3) = Cardinality(s9.photos) + Cardinality(s9.names) /\ Unsent(r, s3) = Unsent(s9, s3) - k
  <2>1. Unsent(s9, s3) = Cardinality(s9.photos) + Cardinality(s9.names)
    BY OfRun DEF Unsent
  <2>2. Unsent(r, s3) = Cardinality(s9.photos) + Cardinality(s9.names) - k
    <3>1. CASE place = "reply"
      BY <1>4, <3>1 DEF Unsent
    <3>2. CASE place = "naming"
      BY <1>4, <3>2 DEF Unsent
    <3> QED BY <3>1, <3>2
  <2> QED BY <2>1, <2>2, OfRun
<1>7. CQ!Sent(d) + Unsent(r, s3) <= PhotoCap /\ CQ!Sent(d) <= PhotoCap
  <2>1. Unsent(s9, s3) \in Int /\ CQ!Sent(s4) + Unsent(s9, s3) <= PhotoCap /\ k <= Unsent(s9, s3)
    BY <1>6, OfRun
  <2> QED BY <1>1, <1>6, <2>1, HoursAre
<1>8. \A i \in r.texts \cup r.photos \cup r.names \cup r.failed : s3[i].attempts < MaxAttempts
  BY <1>4 DEF ClaudeInv, RunFits
<1>9. RunFits(r, d, s3)
  BY <1>4, <1>7, <1>8 DEF RunFits
<1> QED BY <1>1, <1>2, <1>3, <1>4, <1>5, <1>7, <1>9 DEF ClaudeInv

\* The steps of a run.
LEMMA RunStepKeeps == ASSUME ClaudeInv, s9 # CQ!Idle, CQ!RunStep PROVE ClaudeInv'
<1>0. s7 \in BOOLEAN /\ s8 \in BOOLEAN
  BY DEF ClaudeInv
<1>1. ASSUME s9.at # "close", UNCHANGED <<s1, s2, s3, s4, s5, s6, s7, s8>>, NEW P \in SUBSET s9.photos,
             NEW M \in SUBSET s9.names, NEW S \in SUBSET Asked,
             NEW F \in SUBSET (s9.failed \cup s9.texts \cup s9.photos \cup s9.names),
             s9' = [s9 EXCEPT !.at = "photo", !.photos = P, !.names = M, !.saved = S, !.failed = F],
             Cardinality(P) + Cardinality(M) <= Unsent(s9, s3)
      PROVE  ClaudeInv'
  <2>1. P \in SUBSET Photos /\ M \in SUBSET Names /\ F \in SUBSET Asked
    BY <1>1, OfRun
  <2>2. /\ s9' \in ClaudeRuns /\ s9'.at = "photo" /\ s9'.texts = s9.texts /\ s9'.photos = P /\ s9'.names = M
        /\ s9'.failed = F /\ s9'.calls = s9.calls
    BY <1>1, <2>1, OfRun DEF ClaudeRuns
  <2>3. Cardinality(P) \in Nat /\ Cardinality(M) \in Nat
    BY OfRun, FS_Subset, FS_CardinalityType
  <2>4. RunFits(s9', s4, s3)
    BY <1>1, <2>2, <2>3, FitsStill
  <2> QED BY <1>0, <1>1, <2>2, <2>4, RunGoesOn
<1>2. CASE CQ!AskTexts
  <2>1. s9.at = "texts" /\ UNCHANGED <<s1, s2, s3, s4, s5, s6, s7, s8>>
    BY <1>2 DEF CQ!AskTexts
  <2>2. \E S \in SUBSET Asked, F \in SUBSET (s9.failed \cup s9.texts \cup s9.photos \cup s9.names) :
           s9' = [s9 EXCEPT !.at = "photo", !.photos = s9.photos, !.names = s9.names, !.saved = S, !.failed = F]
    <3>1. \/ \E S \in SUBSET s9.texts : s9' = [s9 EXCEPT !.at = "photo", !.saved = S]
          \/ s9' = [s9 EXCEPT !.at = "photo", !.failed = s9.texts]
      BY <1>2 DEF CQ!AskTexts
    <3>2. CASE \E S \in SUBSET s9.texts : s9' = [s9 EXCEPT !.at = "photo", !.saved = S]
      <4>1. PICK S \in SUBSET s9.texts : s9' = [s9 EXCEPT !.at = "photo", !.saved = S]
        BY <3>2
      <4>2. S \in SUBSET Asked /\ s9 \in ClaudeRuns
        BY OfRun
      <4>3. s9' = [s9 EXCEPT !.at = "photo", !.photos = s9.photos, !.names = s9.names, !.saved = S, !.failed = s9.failed]
        BY <4>1, <4>2 DEF ClaudeRuns
      <4> QED BY <4>2, <4>3
    <3>3. CASE s9' = [s9 EXCEPT !.at = "photo", !.failed = s9.texts]
      <4>1. s9 \in ClaudeRuns /\ s9.saved \in SUBSET Asked
        BY OfRun
      <4>2. s9' = [s9 EXCEPT !.at = "photo", !.photos = s9.photos, !.names = s9.names, !.saved = s9.saved, !.failed = s9.texts]
        BY <3>3, <4>1 DEF ClaudeRuns
      <4> QED BY <4>1, <4>2
    <3> QED BY <3>1, <3>2, <3>3
  <2>3. Cardinality(s9.photos) + Cardinality(s9.names) <= Unsent(s9, s3)
    BY <2>1, OfRun DEF Unsent
  <2> QED BY <1>1, <2>1, <2>2, <2>3
<1>3. CASE CQ!AskPhoto
  <2>1. /\ s9.at = "photo" /\ s9.photos # {} /\ UNCHANGED <<s1, s2, s3, s6, s7, s8>>
        /\ s9' = [s9 EXCEPT !.at = "reply", !.calls[0] = @ + 1] /\ s4' = s9'.calls
        /\ s5' = [s5 EXCEPT ![0] = @ + 1]
    BY <1>3 DEF CQ!AskPhoto, CQ!Counted
  <2>2. Cardinality(s9.photos) # 0
    BY <2>1, OfRun, FS_EmptySet
  <2>3. 1 <= Cardinality(s9.photos) + Cardinality(s9.names)
    BY <2>2, OfRun
  <2> QED BY <2>1, <2>3, AskKeeps
<1>4. CASE CQ!PhotoReply
  <2> DEFINE p == CQ!Min(s9.photos)
             S == IF p \in BrokenPhotos THEN s9.saved ELSE s9.saved \cup {p}
             F == IF p \in BrokenPhotos THEN s9.failed \cup {p} ELSE s9.failed
             P == s9.photos \ {p}
  <2>1. /\ s9.at = "reply" /\ UNCHANGED <<s1, s2, s3, s4, s5, s6, s7, s8>>
        /\ s9' = [s9 EXCEPT !.at = "photo", !.photos = P, !.saved = S, !.failed = F]
    BY <1>4 DEF CQ!PhotoReply
  <2>2. s9.photos # {}
    BY <2>1 DEF ClaudeInv, RunFits
  <2>3. p \in s9.photos
    <3>1. \E x \in s9.photos : \A y \in s9.photos : x <= y
      BY <2>2, OfRun, LeastNatural
    <3> QED BY <3>1 DEF CQ!Min
  <2> HIDE DEF p
  <2>4. P \in SUBSET s9.photos /\ S \in SUBSET Asked /\ F \in SUBSET (s9.failed \cup s9.texts \cup s9.photos \cup s9.names)
    BY <2>3, OfRun
  <2>5. Cardinality(P) = Cardinality(s9.photos) - 1
    BY <2>3, OfRun, FS_RemoveElement
  <2> HIDE DEF P, S, F
  <2>6. s9' = [s9 EXCEPT !.at = "photo", !.photos = P, !.names = s9.names, !.saved = S, !.failed = F]
    BY <2>1, OfRun DEF ClaudeRuns
  <2>7. Cardinality(P) + Cardinality(s9.names) <= Unsent(s9, s3)
    BY <2>1, <2>5, OfRun DEF Unsent
  <2> QED BY <1>1, <2>1, <2>4, <2>6, <2>7
<1>5. CASE CQ!AskNames
  <2> DEFINE k == Cardinality(BatchOf(s9.names, s3))
  <2>1. /\ s9.at = "photo" /\ UNCHANGED <<s1, s2, s3, s6, s7, s8>>
        /\ s9' = [s9 EXCEPT !.at = "naming", !.calls[0] = @ + k] /\ s4' = s9'.calls
        /\ s5' = [s5 EXCEPT ![0] = @ + k]
    BY <1>5, BatchNamed, ClaudeNames DEF CQ!AskNames, CQ!Stamps
  <2>2. k \in Nat /\ k <= Cardinality(s9.names)
    BY OfRun, BatchIs
  <2>3. k <= Cardinality(s9.photos) + Cardinality(s9.names)
    BY <2>2, OfRun
  <2> HIDE DEF k
  <2>4. k = Cardinality(BatchOf(s9.names, s3))
    BY DEF k
  <2> QED BY <2>1, <2>2, <2>3, <2>4, AskKeeps
<1>6. CASE CQ!NamesReply
  <2> DEFINE B == BatchOf(s9.names, s3)
  <2>1. /\ s9.at = "naming" /\ UNCHANGED <<s1, s2, s3, s4, s5, s6, s7, s8>>
        /\ \E S \in SUBSET B, F \in SUBSET B :
              s9' = [s9 EXCEPT !.at = "photo", !.names = @ \ B, !.saved = @ \cup S, !.failed = @ \cup F]
    BY <1>6, BatchNamed DEF CQ!NamesReply
  <2>2. PICK S \in SUBSET B, F \in SUBSET B :
           s9' = [s9 EXCEPT !.at = "photo", !.names = s9.names \ B, !.saved = s9.saved \cup S, !.failed = s9.failed \cup F]
    BY <2>1
  <2>3. B \in SUBSET s9.names /\ Cardinality(s9.names \ B) = Cardinality(s9.names) - Cardinality(B) /\ Cardinality(B) \in Nat
    BY OfRun, BatchIs
  <2>4. Cardinality(s9.photos) + Cardinality(s9.names \ B) <= Unsent(s9, s3)
    BY <2>1, <2>3, OfRun DEF Unsent
  <2> HIDE DEF B
  <2>5. /\ s9.saved \cup S \in SUBSET Asked
        /\ s9.failed \cup F \in SUBSET (s9.failed \cup s9.texts \cup s9.photos \cup s9.names)
    BY <2>3, OfRun
  <2>6. s9' = [s9 EXCEPT !.at = "photo", !.photos = s9.photos, !.names = s9.names \ B, !.saved = s9.saved \cup S,
                         !.failed = s9.failed \cup F]
    BY <2>2, OfRun DEF ClaudeRuns
  <2>7. s9.names \ B \in SUBSET s9.names /\ s9.photos \in SUBSET s9.photos
    OBVIOUS
  <2> QED BY <1>1, <2>1, <2>4, <2>5, <2>6, <2>7
<1>7. CASE CQ!SaveAnswers
  <2>1. /\ s9.at = "photo" /\ s9.photos = {} /\ s9.names = {} /\ UNCHANGED <<s1, s3, s4, s5, s6, s7, s8>>
        /\ s2' = s2 \cup s9.saved /\ s9' = [s9 EXCEPT !.at = "save"]
    BY <1>7 DEF CQ!SaveAnswers
  <2>2. /\ s9' \in ClaudeRuns /\ s9'.at = "save" /\ s9'.texts = s9.texts /\ s9'.photos = s9.photos
        /\ s9'.names = s9.names /\ s9'.failed = s9.failed /\ s9'.calls = s9.calls
    BY <2>1, OfRun DEF ClaudeRuns
  <2>3. RunFits(s9', s4, s3)
    BY <2>1, <2>2 DEF ClaudeInv, RunFits, Unsent
  <2>4. s2' \subseteq Asked
    BY <2>1, OfRun DEF ClaudeInv
  <2> QED BY <2>1, <2>2, <2>3, <2>4 DEF ClaudeInv
<1>8. CASE CQ!SaveFailures
  <2>1. /\ s9.at = "save" /\ UNCHANGED <<s1, s2, s4, s5, s6, s7, s8>>
        /\ s3' = CQ!AfterRun /\ s9' = [s9 EXCEPT !.at = "close"]
    BY <1>8 DEF CQ!SaveFailures
  <2>2. /\ s9' \in ClaudeRuns /\ s9'.at = "close" /\ s9'.photos = s9.photos /\ s9'.names = s9.names
        /\ s9'.calls = s9.calls
    BY <2>1, OfRun DEF ClaudeRuns
  <2>3. Unsent(s9', s3') = Unsent(s9, s3)
    BY <2>1, <2>2 DEF Unsent
  <2>4. RunFits(s9', s4, s3')
    BY <2>1, <2>2, <2>3 DEF ClaudeInv, RunFits
  <2>5. s3' \in [Asked -> Tries]
    BY <2>1, TriesRecorded
  <2> QED BY <2>1, <2>2, <2>4, <2>5 DEF ClaudeInv
<1>9. CASE CQ!Close
  <2>1. /\ UNCHANGED <<s1, s2, s3, s5, s6>> /\ s4' = s9.calls /\ s9' = CQ!Idle /\ s7' \in BOOLEAN /\ s8' \in BOOLEAN
    BY <1>0, <1>9 DEF CQ!Close, CQ!Leave
  <2>2. s4' = s4 /\ s2' \subseteq Asked /\ s3' \in [Asked -> Tries] /\ s6' \in 0..Cooldown
    BY <2>1, OfRun DEF ClaudeInv
  <2> QED BY <2>1, <2>2, RunIsOver
<1> QED BY <1>2, <1>3, <1>4, <1>5, <1>6, <1>7, <1>8, <1>9 DEF CQ!RunStep

LEMMA ClaudeStep == ASSUME ClaudeInv, CQ!Next PROVE ClaudeInv'
<1>0. s7 \in BOOLEAN /\ s8 \in BOOLEAN /\ s6 \in 0..Cooldown /\ s2 \subseteq Asked /\ s3 \in [Asked -> Tries]
  BY DEF ClaudeInv
<1>1. ASSUME NEW S \in Sales, CQ!Save(S) PROVE ClaudeInv'
  <2>1. S \subseteq Asked
    BY ClaudeAssumption DEF Asked
  <2> QED BY <1>1, <2>1 DEF CQ!Save, ClaudeInv
<1>2. CASE CQ!Again
  BY <1>2 DEF CQ!Again, ClaudeInv
<1>3. CASE s9 # CQ!Idle /\ CQ!GlobalError
  <2>1. /\ s9.at # "close" /\ UNCHANGED <<s1, s5>> /\ s2' = s2 \cup s9.saved /\ s3' = CQ!AfterRun
        /\ s4' = s9.calls /\ s6' = Cooldown /\ s9' = CQ!Idle /\ s7' \in BOOLEAN /\ s8' \in BOOLEAN
    BY <1>0, <1>3 DEF CQ!GlobalError, CQ!Leave
  <2>2. s2' \subseteq Asked /\ s4' = s4 /\ s6' \in 0..Cooldown
    BY <1>0, <1>3, <2>1, OfRun, HoursAre
  <2>3. s3' \in [Asked -> Tries]
    BY <1>3, <2>1, TriesRecorded
  <2> QED BY <2>1, <2>2, <2>3, RunIsOver
<1>4. CASE CQ!WorkerStops
  <2>1. UNCHANGED <<s1, s2, s3, s4, s5, s6>> /\ s7' = FALSE /\ s8' = FALSE /\ s9' = CQ!Idle
    BY <1>4 DEF CQ!WorkerStops
  <2> QED BY <1>0, <2>1, RunIsOver
<1>5. CASE CQ!Tick
  <2>1. /\ UNCHANGED <<s1, s2, s7, s8>> /\ s4' = CQ!Older(s4) /\ s5' = CQ!Older(s5)
        /\ s9' = IF s9 = CQ!Idle THEN s9 ELSE [s9 EXCEPT !.calls = CQ!Older(@)]
        /\ s6' = IF s6 = 0 THEN 0 ELSE s6 - 1
        /\ s3' = [i \in Asked |-> [s3[i] EXCEPT !.age = IF s3[i].attempts = 0 THEN 0 ELSE CQ!Smaller(@ + 1, Hour)]]
    BY <1>5, ClaudeNames DEF CQ!Tick
  <2>2. s4' \in Counts /\ s5' = s4' /\ CQ!Sent(s4') <= CQ!Sent(s4) /\ CQ!Sent(s4) \in Nat /\ CQ!Sent(s4') \in Nat
    BY <2>1, CallsAge, CallCounted DEF ClaudeInv
  <2>3. CQ!Sent(s4') <= PhotoCap /\ s6' \in 0..Cooldown
    BY <1>0, <2>1, <2>2, HoursAre DEF ClaudeInv
  <2>4. s3' \in [Asked -> Tries] /\ \A i \in Asked : s3'[i].attempts = s3[i].attempts
    <3> DEFINE age(i) == IF s3[i].attempts = 0 THEN 0 ELSE CQ!Smaller(s3[i].age + 1, Hour)
               g(i) == [s3[i] EXCEPT !.age = age(i)]
    <3>1. ASSUME NEW i \in Asked PROVE g(i) \in Tries /\ g(i).attempts = s3[i].attempts
      <4>1. s3[i] \in Tries
        BY <1>0
      <4>2. s3[i].age \in 0..Hour
        BY <4>1 DEF Tries
      <4>3. age(i) \in 0..Hour
        BY <4>2, HoursAre DEF CQ!Smaller
      <4> HIDE DEF age
      <4> QED BY <4>1, <4>3 DEF Tries
    <3>2. s3' = [i \in Asked |-> g(i)]
      BY <2>1
    <3> HIDE DEF g
    <3> QED BY <3>1, <3>2
  <2>5. CASE s9 = CQ!Idle
    BY <2>1, <2>2, <2>3, <2>4, <2>5 DEF ClaudeInv
  <2>6. CASE s9 # CQ!Idle
    <3>1. s9' = [s9 EXCEPT !.calls = s4'] /\ s9.calls = s4
      BY <2>1, <2>6, OfRun
    <3>2. /\ s9' \in ClaudeRuns /\ s9'.at = s9.at /\ s9'.texts = s9.texts /\ s9'.photos = s9.photos
          /\ s9'.names = s9.names /\ s9'.failed = s9.failed /\ s9'.calls = s4'
      BY <2>2, <2>6, <3>1, OfRun DEF ClaudeRuns
    <3>3. Unsent(s9', s3') = Unsent(s9, s3) /\ Unsent(s9, s3) \in Int /\ CQ!Sent(s4) + Unsent(s9, s3) <= PhotoCap
      <4>1. \A i \in s9.names : s3'[i].attempts = s3[i].attempts
        BY <2>4, <2>6, OfRun
      <4>2. BatchOf(s9.names, s3') = BatchOf(s9.names, s3)
        BY <4>1, BatchStays
      <4> QED BY <2>6, <3>2, <4>2, OfRun DEF Unsent
    <3>4. CQ!Sent(s4') + Unsent(s9', s3') <= PhotoCap
      BY <2>2, <3>3, HoursAre
    <3>5. \A i \in s9.texts \cup s9.photos \cup s9.names \cup s9.failed : i \in Asked
      BY <2>6, OfRun
    <3>6. RunFits(s9', s4', s3')
      BY <2>4, <2>6, <3>2, <3>4, <3>5 DEF ClaudeInv, RunFits
    <3> QED BY <2>1, <2>2, <2>3, <2>4, <3>2, <3>6 DEF ClaudeInv
  <2> QED BY <2>5, <2>6
<1> QED BY <1>1, <1>2, <1>3, <1>4, <1>5, RunStarts, RunStepKeeps DEF CQ!Next, CQ!Saves, CQ!RunStep

LEMMA ClaudeStutter == ASSUME ClaudeInv, UNCHANGED <<s1, s2, s3, s4, s5, s6, s7, s8, s9, s10>> PROVE ClaudeInv'
BY DEF ClaudeInv

-----------------------------------------------------------------------------
(* Served *)

PartsInv == (part = "prices" => RotationInv) /\ (part = "claude" => ClaudeInv)

LEMMA PartsBegin == ServedInit => PartsInv /\ Init
BY RotationBegin, ClaudeBegin DEF ServedInit, PartsInv

LEMMA PartsStep ==
  ASSUME PartsInv, [ServedNext]_servedvars
  PROVE  PartsInv' /\ [Next]_vars /\ (part = "prices" => RO!MissesWait)
<1>1. part' = part /\ [Next]_vars
  BY DEF ServedNext, servedvars
<1>2. CASE part = "prices"
  <2>1. RotationInv /\ (RO!Next \/ UNCHANGED <<s1, s2, s3, s4, s5, s6, s7, s8, s9>>)
    BY <1>2 DEF PartsInv, ServedNext, servedvars
  <2>2. RotationInv' /\ RO!MissesWait
    BY <2>1, RotationStep, RotationStutter
  <2> QED BY <1>1, <1>2, <2>2 DEF PartsInv
<1>3. CASE part = "claude"
  <2>1. ClaudeInv /\ (CQ!Next \/ UNCHANGED <<s1, s2, s3, s4, s5, s6, s7, s8, s9, s10>>)
    BY <1>3 DEF PartsInv, ServedNext, servedvars
  <2>2. ClaudeInv'
    BY <2>1, ClaudeStep, ClaudeStutter
  <2> QED BY <1>1, <1>3, <2>2 DEF PartsInv
<1>4. CASE part # "prices" /\ part # "claude"
  BY <1>1, <1>4 DEF PartsInv
<1> QED BY <1>1, <1>2, <1>3, <1>4

\* Every part keeps its types, for all values of the constants.
THEOREM ServedTypes == ServedSpec => []ServedTypeOK
<1>1. ServedInit => PartsInv /\ Init
  BY PartsBegin
<1>2. PartsInv /\ [ServedNext]_servedvars => PartsInv' /\ [Next]_vars
  BY PartsStep
<1>3. PartsInv /\ TypeOK => ServedTypeOK
  BY RotationTyped, ClaudeTyped DEF PartsInv, ServedTypeOK
<1> QED BY <1>1, <1>2, <1>3, TypeCorrect, PTL DEF ServedSpec, Spec

\* No hour has more photo requests than the cap, whatever stops the worker between the
\* count and the request; and no pass looks a card up again that it missed lately.
THEOREM LimitsHold == ServedSpec => WithinLimits
<1>1. ServedInit => PartsInv
  BY PartsBegin
<1>2. PartsInv /\ [ServedNext]_servedvars => PartsInv' /\ (part = "prices" => RO!MissesWait)
  BY PartsStep
<1>3. PartsInv => (part = "claude" => CQ!WithinPhotoCap)
  BY ClaudeTyped DEF PartsInv
<1> QED BY <1>1, <1>2, <1>3, PTL DEF ServedSpec, WithinLimits

\* The result of a sale holds every bid that is still there, also as a part of Served.
THEOREM ServedResultHolds == ServedSpec => []ResultHoldsEveryBid
<1>1. PartsInv /\ [ServedNext]_servedvars => PartsInv' /\ [Next]_vars
  BY PartsStep
<1>2. ServedInit => PartsInv /\ Init
  BY PartsBegin
<1> QED BY <1>1, <1>2, ResultHolds, PTL DEF ServedSpec, Spec
=============================================================================
