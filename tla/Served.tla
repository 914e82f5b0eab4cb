------------------------------- MODULE Served -------------------------------
(***************************************************************************)
(* What must be served in the end although every run takes only a part:    *)
(* the two daily price passes and the Claude queue; and the reads that     *)
(* settle an auction, the module this one extends.  As in Shop, the        *)
(* initial state picks a part, the only one that moves.                    *)
(***************************************************************************)
EXTENDS Captures, TLC

CONSTANTS
  \* Rotation
  Passes, N, Elsewhere, FailingCards, Linkable, BatchSize, MaxErrors, StaleAfter, Old, MaxOutages,
  CommitEvery, RetryAfter,
  \* ClaudeQueue
  Texts, Photos, Names, MatchOf, Sales, BrokenPhotos, PhotoCap, MaxLots, MaxNames, PerCall, MaxAttempts,
  Hour, Cooldown, MaxTrouble

ASSUME RotationAssumption ==
  /\ N \in Nat /\ Old \in Nat /\ MaxOutages \in Nat /\ {MaxErrors, BatchSize} \subseteq Nat \ {0}
  /\ \A pass \in Passes : /\ pass.budget \in Nat /\ RetryAfter[pass.source] \in Nat
                         /\ CommitEvery[pass.source] \in Nat \ {0}
ASSUME ClaudeAssumption ==
  /\ \A S \in {Photos, Names} : S \in SUBSET Nat /\ IsFiniteSet(S)
  /\ \A S \in Sales : S \subseteq Texts \cup Photos \cup Names
  /\ {PhotoCap, MaxLots, MaxNames, MaxAttempts, Hour, Cooldown, MaxTrouble} \subseteq Nat
  /\ Hour # 0 /\ MaxAttempts # 0 /\ PerCall \in Nat \ {0}

VARIABLES part, s1, s2, s3, s4, s5, s6, s7, s8, s9, s10
servedvars == <<vars, part, s1, s2, s3, s4, s5, s6, s7, s8, s9, s10>>

RO == INSTANCE Rotation WITH
       Broken <- FailingCards, pass <- s1, card <- s2, linked <- s3, queue <- s4, got <- s5,
       pending <- s6, errors <- s7, ran <- s8, outages <- s9
CQ == INSTANCE ClaudeQueue WITH
       Broken <- BrokenPhotos, wanted <- s1, answers <- s2, failures <- s3, calls <- s4, made <- s5,
       cool <- s6, timer <- s7, again <- s8, run <- s9, trouble <- s10

ServedInit ==
  /\ Init
  /\ \/ part = "prices" /\ RO!Init /\ s10 = 0
     \/ part = "claude" /\ CQ!Init
     \/ /\ part = "captures" /\ s1 = 0 /\ s2 = 0 /\ s3 = 0 /\ s4 = 0 /\ s5 = 0
        /\ s6 = 0 /\ s7 = 0 /\ s8 = 0 /\ s9 = 0 /\ s10 = 0

ServedNext ==
  \/ part = "prices" /\ RO!Next /\ UNCHANGED <<vars, part, s10>>
  \/ part = "claude" /\ CQ!Next /\ UNCHANGED <<vars, part>>
  \/ part = "captures" /\ Next /\ UNCHANGED <<part, s1, s2, s3, s4, s5, s6, s7, s8, s9, s10>>

\* The steps that each part is fair to; only one part's can be enabled.
Start ==
  \/ part = "prices" /\ RO!Start /\ UNCHANGED <<vars, part, s10>>
  \/ part = "claude" /\ CQ!Start /\ UNCHANGED <<vars, part>>
Run ==
  \/ part = "prices" /\ RO!Run /\ UNCHANGED <<vars, part, s10>>
  \/ part = "claude" /\ CQ!RunStep /\ UNCHANGED <<vars, part>>
Time ==
  \/ part = "prices" /\ RO!Midnight /\ UNCHANGED <<vars, part, s10>>
  \/ part = "claude" /\ CQ!Tick /\ UNCHANGED <<vars, part>>
Saves == part = "claude" /\ CQ!Saves /\ UNCHANGED <<vars, part>>

ServedSpec ==
  /\ ServedInit /\ [][ServedNext]_servedvars
  /\ WF_servedvars(Start) /\ WF_servedvars(Run) /\ WF_servedvars(Time) /\ WF_servedvars(Saves)

-----------------------------------------------------------------------------
(* The properties, each defined and explained in its part's module;        *)
(* ResultHoldsEveryBid is that of Captures itself.                         *)

\* Every part's type invariant.
ServedTypeOK ==
  /\ TypeOK
  /\ part = "prices" => RO!TypeOK
  /\ part = "claude" => CQ!TypeOK

\* Rotation, ClaudeQueue: a lookup that found nothing is not repeated too soon, and no
\* hour has more photo requests than the cap.
WithinLimits ==
  /\ [](part = "claude" => CQ!WithinPhotoCap)
  /\ [][part = "prices" => RO!MissesWait]_servedvars

\* Rotation, ClaudeQueue: every card that does not fail for good is answered again and
\* again when the budget fits, the priced ones and those without any price also when it
\* does not; and every item that Claude can read is answered in the end.
ServedInTheEnd ==
  /\ \A c \in RO!Cards \ FailingCards :
       /\ []<>(part = "prices" /\ RO!Fits => RO!Answered(c))
       /\ (part = "prices" /\ s1.source = "tcgdex" /\ RO!Class(c) \in {0, 1})
            ~> (part = "prices" /\ s1.source = "tcgdex" => RO!Answered(c))
  /\ \A i \in CQ!Items \ BrokenPhotos :
       (part = "claude" /\ i \in CQ!Live) ~> (part # "claude" \/ i \in s2 \/ (i \in Texts /\ CQ!Skipped(s3[i])))
=============================================================================
