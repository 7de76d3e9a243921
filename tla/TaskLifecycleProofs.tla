------------------------- MODULE TaskLifecycleProofs -------------------------
(***************************************************************************)
(* The theorems of TaskLifecycle, for every value of the policy, and of     *)
(* the two modules that look at it: what the dashboard says of a task      *)
(* (Fleet), and what the engine's counters count (RecomputeHistory).       *)
(*                                                                         *)
(* Every request leaves the task in one of three ways: it holds the mode   *)
(* and says nothing, it announces an offer, or it moves the mode and       *)
(* records that. The shapes below name the three, the lemmas of the second *)
(* part show that each step of the code has one of them, and the theorems  *)
(* are argued from the shapes alone.                                        *)
(***************************************************************************)
EXTENDS RecomputeHistory, Fleet, TLAPS, SequenceTheorems

NeverRetired == task.effectiveMode # "RETIRED"

\* The inductive invariant. The five safety properties support each other: an offer
\* can be accepted only because it is live, and a streak can be cut short only
\* because it excludes an offer.
IInv ==
  /\ TypeOK
  /\ NeverRetired
  /\ AuditAccountsForMode
  /\ PendingIsLive
  /\ AltitudeIsGranted
  /\ StreaksAreExclusive

------------------------------------------------------------------------------
(* The three shapes of a step *)

\* The mode is held and the log says nothing new; at most one streak is building.
Holds(ready, subFloor, pending, insufficient, baseline) ==
  /\ task' = MkState(task.effectiveMode, ready, subFloor, pending, insufficient,
                     baseline)
  /\ log' = log
  /\ ready \in Nat /\ subFloor \in Nat /\ insufficient \in Nat
  /\ baseline \in Ranks \cup {NoRank}
  /\ pending \in {task.pending, NoPending}
  /\ \/ ready = 0
     \/ /\ ready < PromotionHysteresisRecomputes
        /\ subFloor = 0 /\ insufficient = 0 /\ pending = NoPending
        /\ NextBandUp(task.effectiveMode) # NoBand
  /\ \/ subFloor = 0
     \/ /\ subFloor < ScoreDropConfirmRecomputes
        /\ insufficient = 0 /\ pending = NoPending
        /\ task.effectiveMode \in {"CO_PILOT", "SOLO"}
  /\ \/ insufficient = 0
     \/ /\ insufficient < SignalLossGraceRecomputes
        /\ task.effectiveMode \in {"CO_PILOT", "SOLO"}

\* The mode is held and the log ends with an offer of the next band up.
Offers(awaiting, baseline) ==
  LET up == NextBandUp(task.effectiveMode)
      row == MakeTransition(task.effectiveMode, up, "PROMOTION", "SCORE_CROSS",
                            IF awaiting THEN "PENDING_APPROVAL" ELSE "PROPOSED",
                            "ENGINE")
  IN /\ up # NoBand
     /\ task' = MkState(task.effectiveMode, 0, 0,
                        [toMode |-> up, awaitingApproval |-> awaiting], 0, baseline)
     /\ log' = [last |-> row, setter |-> log.setter]
     /\ awaiting \in BOOLEAN
     /\ baseline \in Ranks \cup {NoRank}
     /\ HasPending(task) => task.pending.toMode = up

\* The mode is set, every streak and offer is gone, and the log ends with the row that
\* set it.
Moves(to, direction, trigger, status, authority, baseline) ==
  LET row == MakeTransition(task.effectiveMode, to, direction, trigger, status,
                            authority)
  IN /\ task' = MkState(to, 0, 0, NoPending, 0, baseline)
     /\ log' = [last |-> row, setter |-> row]
     /\ to \in Modes \ {"RETIRED"}
     /\ direction \in Directions
     /\ trigger \in Triggers
     /\ status \in {"APPLIED", "AUTO_APPLIED"}
     /\ authority \in Authorities
     /\ baseline \in Ranks \cup {NoRank}

\* The engine takes authority away.
EngineFalls(to, trigger, baseline) ==
  /\ Moves(to, "DEMOTION", trigger, "AUTO_APPLIED", "ENGINE", baseline)
  /\ \/ /\ trigger = "GUARDRAIL" /\ to = "SUSPENDED"
        /\ task.effectiveMode # "SUSPENDED"
     \/ /\ trigger \in {"DRIFT", "SIGNAL_LOSS", "SCORE_CROSS"}
        /\ task.effectiveMode \in Operating
        /\ to = OneBandDown(task.effectiveMode)
        /\ trigger # "DRIFT" => task.effectiveMode # "SHADOW"

\* Observation ends: the engine starts the agent at the bottom.
EngineEnters(baseline) ==
  /\ task.effectiveMode = "OBSERVING"
  /\ Moves("SHADOW", "LATERAL", "SCORE_CROSS", "AUTO_APPLIED", "ENGINE", baseline)

\* What a recompute may do.
RecomputeShape ==
  \/ \E ready, subFloor, pending, insufficient, baseline :
       Holds(ready, subFloor, pending, insufficient, baseline)
  \/ \E awaiting, baseline :
       Offers(awaiting, baseline) /\ task.effectiveMode \in Operating
  \/ \E to, trigger, baseline : EngineFalls(to, trigger, baseline)
  \/ \E baseline : EngineEnters(baseline)
\* A human accepts the pending offer.
Accepts(baseline) ==
  /\ HasPending(task)
  /\ Moves(task.pending.toMode, "PROMOTION", "SCORE_CROSS", "APPLIED", "APPROVER",
           baseline)

\* A human acts directly: sets an operating mode, parks the task or lets it start over.
ActorSets(to, direction, trigger, baseline) ==
  /\ Moves(to, direction, trigger, "APPLIED", "ACTOR", baseline)
  /\ \/ task.effectiveMode # "SUSPENDED" /\ to \in Operating \cup {"SUSPENDED"}
     \/ /\ task.effectiveMode = "SUSPENDED"
        /\ to = "OBSERVING" /\ baseline = NoRank
  /\ trigger \in {"MANUAL_OVERRIDE", "SUSPEND", "RESUME"}
  /\ to = "SUSPENDED" => trigger = "SUSPEND"
  /\ to = "OBSERVING" => trigger = "RESUME"

HumanShape ==
  \/ \E baseline : Accepts(baseline)
  \/ \E to, direction, trigger, baseline : ActorSets(to, direction, trigger, baseline)

------------------------------------------------------------------------------
(* The steps of the code have these shapes *)

\* A step that emits nothing leaves the log alone.
LEMMA HoldWrites ==
  ASSUME TypeOK, NEW s, Write(Hold(s))
  PROVE  task' = s /\ log' = log
BY DEF TypeOK, Write, Hold, Result, NoTransition, Sets, MakeTransition, NoBand

\* A step that emits a mode-setting row makes it the last row and the setter.
LEMMA SetterWrites ==
  ASSUME NEW s, NEW superseded, NEW from \in Modes, NEW to, NEW direction,
         NEW trigger, NEW status \in {"APPLIED", "AUTO_APPLIED"}, NEW authority,
         Write(Result(s, superseded, MakeTransition(from, to, direction, trigger,
                                                    status, authority)))
  PROVE  LET row == MakeTransition(from, to, direction, trigger, status, authority)
         IN task' = s /\ log' = [last |-> row, setter |-> row]
BY DEF Write, Result, NoTransition, Sets, MakeTransition, Modes, Operating, NoBand

\* A fall of the engine moves the mode.
LEMMA FallMoves ==
  ASSUME TypeOK, NEW to \in Modes \ {"RETIRED"}, NEW trigger \in Triggers,
         NEW baseline \in Ranks \cup {NoRank},
         Write(Fall(task, to, trigger, baseline))
  PROVE  Moves(to, "DEMOTION", trigger, "AUTO_APPLIED", "ENGINE", baseline)
<1>1. task.effectiveMode \in Modes
  BY DEF TypeOK, LifecycleStates
<1>2. LET row == MakeTransition(task.effectiveMode, to, "DEMOTION", trigger,
                                "AUTO_APPLIED", "ENGINE")
      IN /\ task' = MkState(to, 0, 0, NoPending, 0, baseline)
         /\ log' = [last |-> row, setter |-> row]
  BY <1>1, SetterWrites DEF Fall
<1> QED
  BY <1>2 DEF Moves, Directions, Authorities

\* So does a human's own decision.
LEMMA ActorMovesMoves ==
  ASSUME TypeOK, NEW to \in Modes \ {"RETIRED"}, NEW direction \in Directions,
         NEW trigger \in Triggers, NEW baseline \in Ranks \cup {NoRank},
         Write(ActorMoves(task, to, direction, trigger, baseline))
  PROVE  Moves(to, direction, trigger, "APPLIED", "ACTOR", baseline)
<1>1. task.effectiveMode \in Modes
  BY DEF TypeOK, LifecycleStates
<1>2. LET row == MakeTransition(task.effectiveMode, to, direction, trigger,
                                "APPLIED", "ACTOR")
      IN /\ task' = MkState(to, 0, 0, NoPending, 0, baseline)
         /\ log' = [last |-> row, setter |-> row]
  BY <1>1, SetterWrites DEF ActorMoves
<1> QED
  BY <1>2 DEF Moves, Authorities

\* What the bands and the constants give.
LEMMA BandFacts ==
  ASSUME NEW mode \in Operating
  PROVE  /\ OneBandDown(mode) \in Modes \ {"RETIRED"}
         /\ BandRank(OneBandDown(mode)) < BandRank(mode)
         /\ NextBandUp(mode) \in Operating \cup {NoBand}
         /\ NextBandUp(mode) # NoBand => BandRank(NextBandUp(mode)) > BandRank(mode)
         /\ BandRank(mode) \in Ranks
BY DEF Operating, OneBandDown, NextBandUp, BandRank, Modes, NoBand, Ranks
\* A task that has no streak or offer to lose just keeps its mode.
LEMMA ClearHolds ==
  ASSUME TypeOK, NEW baseline \in Ranks \cup {NoRank},
         Write(Hold(MkState(task.effectiveMode, 0, 0, NoPending, 0, baseline)))
  PROVE  Holds(0, 0, NoPending, 0, baseline)
BY HoldWrites DEF Holds

\* A guardrail trip parks a task, or leaves it parked.
LEMMA GuardrailStepShape ==
  ASSUME TypeOK, NeverRetired, Write(GuardrailStep(task))
  PROVE  RecomputeShape
<1>1. task.lastImpliedRank \in Ranks \cup {NoRank}
  BY DEF TypeOK, LifecycleStates
<1>2. CASE task.effectiveMode = "SUSPENDED"
  BY <1>1, <1>2, ClearHolds DEF GuardrailStep, RecomputeShape
<1>3. CASE task.effectiveMode # "SUSPENDED"
  <2>1. Moves("SUSPENDED", "DEMOTION", "GUARDRAIL", "AUTO_APPLIED", "ENGINE",
              task.lastImpliedRank)
    BY <1>1, <1>3, FallMoves DEF GuardrailStep, Modes, Triggers
  <2> QED
    BY <1>3, <2>1 DEF RecomputeShape, EngineFalls
<1> QED
  BY <1>2, <1>3

\* A fall of one band, for drift, a lost signal or a low score.
LEMMA OneBandFallShape ==
  ASSUME TypeOK, task.effectiveMode \in Operating,
         NEW trigger \in {"DRIFT", "SIGNAL_LOSS", "SCORE_CROSS"},
         trigger # "DRIFT" => task.effectiveMode # "SHADOW",
         NEW baseline \in Ranks \cup {NoRank},
         Write(Fall(task, OneBandDown(task.effectiveMode), trigger, baseline))
  PROVE  RecomputeShape
<1>1. trigger \in Triggers
  BY DEF Triggers
<1>2. Moves(OneBandDown(task.effectiveMode), "DEMOTION", trigger, "AUTO_APPLIED",
            "ENGINE", baseline)
  BY <1>1, BandFacts, FallMoves
<1>3. EngineFalls(OneBandDown(task.effectiveMode), trigger, baseline)
  BY <1>2 DEF EngineFalls
<1> QED
  BY <1>3 DEF RecomputeShape

\* In OBSERVING the task enters SHADOW or nothing moves.
LEMMA ObservingStepShape ==
  ASSUME TypeOK, NEW r \in Readiness, task.effectiveMode = "OBSERVING",
         Write(ObservingStep(task, r))
  PROVE  RecomputeShape
<1>1. /\ task.lastImpliedRank \in Ranks \cup {NoRank}
      /\ r.impliedRank \in Ranks \cup {NoRank}
  BY DEF TypeOK, LifecycleStates, Readiness
<1>2. CASE Scored(r) /\ r.resolved >= ObservingExitMinResolved
  <2>1. Write(Result(MkState("SHADOW", 0, 0, NoPending, 0, r.impliedRank), FALSE,
                     MakeTransition("OBSERVING", "SHADOW", "LATERAL", "SCORE_CROSS",
                                    "AUTO_APPLIED", "ENGINE")))
    BY <1>2 DEF ObservingStep
  <2>2. LET row == MakeTransition("OBSERVING", "SHADOW", "LATERAL", "SCORE_CROSS",
                                  "AUTO_APPLIED", "ENGINE")
        IN /\ task' = MkState("SHADOW", 0, 0, NoPending, 0, r.impliedRank)
           /\ log' = [last |-> row, setter |-> row]
    BY <2>1, SetterWrites DEF Modes
  <2>3. EngineEnters(r.impliedRank)
    BY <1>1, <2>2 DEF EngineEnters, Moves, Modes, Operating, Directions, Triggers,
                      Authorities
  <2> QED
    BY <2>3 DEF RecomputeShape
<1>3. CASE ~(Scored(r) /\ r.resolved >= ObservingExitMinResolved)
  BY <1>1, <1>3, ClearHolds DEF ObservingStep, RecomputeShape
<1> QED
  BY <1>2, <1>3

\* A lost signal holds the mode within the grace and lowers it one band after.
LEMMA SignalLossStepShape ==
  ASSUME TypeOK, task.effectiveMode \in Operating,
         Write(SignalLossStep(task))
  PROVE  RecomputeShape
<1>1. /\ task.lastImpliedRank \in Ranks \cup {NoRank}
      /\ task.insufficient \in Nat
  BY DEF TypeOK, LifecycleStates
<1> DEFINE lost == task.insufficient + 1
           held(n) == MkState(task.effectiveMode, 0, 0, task.pending, n,
                              task.lastImpliedRank)
<1>2. CASE task.effectiveMode = "SHADOW"
  <2>1. Write(Hold(held(0)))
    BY <1>2 DEF SignalLossStep
  <2>2. Holds(0, 0, task.pending, 0, task.lastImpliedRank)
    BY <1>1, <2>1, HoldWrites DEF Holds
  <2> QED
    BY <2>2 DEF RecomputeShape
<1>3. CASE task.effectiveMode # "SHADOW" /\ lost >= SignalLossGraceRecomputes
  BY <1>1, <1>3, OneBandFallShape DEF SignalLossStep
<1>4. CASE task.effectiveMode # "SHADOW" /\ ~(lost >= SignalLossGraceRecomputes)
  <2>1. Write(Hold(held(lost)))
    BY <1>4 DEF SignalLossStep
  <2>2. /\ lost \in Nat
        /\ lost < SignalLossGraceRecomputes
        /\ task.effectiveMode \in {"CO_PILOT", "SOLO"}
    BY <1>1, <1>4, PolicyAssumption DEF Operating
  <2>3. Holds(0, 0, task.pending, lost, task.lastImpliedRank)
    BY <1>1, <2>1, <2>2, HoldWrites DEF Holds
  <2> QED
    BY <2>3 DEF RecomputeShape
<1> QED
  BY <1>2, <1>3, <1>4
\* A low score holds the mode until it is confirmed and lowers it one band then.
LEMMA RegressionStepShape ==
  ASSUME TypeOK, task.effectiveMode \in Operating,
         NEW r \in Readiness, Scored(r), Regressed(task, r),
         Write(RegressionStep(task, r))
  PROVE  RecomputeShape
<1>1. /\ task.lastImpliedRank \in Ranks \cup {NoRank}
      /\ task.subFloor \in Nat
      /\ r.impliedRank \in Ranks
  BY DEF TypeOK, LifecycleStates, Readiness, Scored
\* Nothing is below the floor of SHADOW.
<1>2. task.effectiveMode \in {"CO_PILOT", "SOLO"}
  BY <1>1 DEF Regressed, BandRank, Ranks, Operating
<1> DEFINE below == task.subFloor + 1
<1>3. CASE below >= ScoreDropConfirmRecomputes
  BY <1>1, <1>2, <1>3, OneBandFallShape DEF RegressionStep
<1>4. CASE ~(below >= ScoreDropConfirmRecomputes)
  <2>1. Write(Hold(MkState(task.effectiveMode, 0, below, NoPending, 0,
                           task.lastImpliedRank)))
    BY <1>4 DEF RegressionStep
  <2>2. below \in Nat /\ below < ScoreDropConfirmRecomputes
    BY <1>1, <1>4, PolicyAssumption
  <2>3. Holds(0, below, NoPending, 0, task.lastImpliedRank)
    BY <1>1, <1>2, <2>1, <2>2, HoldWrites DEF Holds
  <2> QED
    BY <2>3 DEF RecomputeShape
<1> QED
  BY <1>3, <1>4

\* A step that announces an offer makes it the last row, and no setter.
LEMMA OfferWrites ==
  ASSUME NEW s, NEW from \in Modes, NEW to, NEW status \in {"PROPOSED", "PENDING_APPROVAL"},
         Write(Result(s, FALSE, MakeTransition(from, to, "PROMOTION", "SCORE_CROSS",
                                               status, "ENGINE")))
  PROVE  /\ task' = s
         /\ log' = [last |-> MakeTransition(from, to, "PROMOTION", "SCORE_CROSS",
                                            status, "ENGINE"),
                    setter |-> log.setter]
BY DEF Write, Result, NoTransition, Sets, MakeTransition, Modes, Operating, NoBand

\* A pending promotion is announced or kept; the mode holds.
LEMMA PendingStepShape ==
  ASSUME TypeOK, PendingIsLive, HasPending(task), task.effectiveMode \in Operating,
         NEW r \in Readiness, Scored(r), Write(PendingStep(task, r))
  PROVE  RecomputeShape
<1>1. /\ task.effectiveMode \in Modes
      /\ r.impliedRank \in Ranks \cup {NoRank}
  BY DEF TypeOK, LifecycleStates, Readiness
<1>2. /\ task.pending \in [toMode : {"CO_PILOT", "SOLO"}, awaitingApproval : BOOLEAN]
      /\ task.pending.toMode = NextBandUp(task.effectiveMode)
      /\ NextBandUp(task.effectiveMode) # NoBand
  BY DEF TypeOK, LifecycleStates, PendingPromotions, HasPending, PendingIsLive, NoBand
<1> DEFINE up == NextBandUp(task.effectiveMode)
           waiting == [toMode |-> task.pending.toMode, awaitingApproval |-> TRUE]
<1>3. waiting = [toMode |-> up, awaitingApproval |-> TRUE]
  BY <1>2
<1>4. CASE task.pending.awaitingApproval
  <2>1. waiting = task.pending
    BY <1>2, <1>3, <1>4
  <2>2. Write(Hold(MkState(task.effectiveMode, 0, 0, task.pending, 0, r.impliedRank)))
    BY <1>4, <2>1 DEF PendingStep, Hold
  <2>3. Holds(0, 0, task.pending, 0, r.impliedRank)
    BY <1>1, <2>2, HoldWrites DEF Holds
  <2> QED
    BY <2>3 DEF RecomputeShape
<1>5. CASE ~task.pending.awaitingApproval
  <2>1. Write(Result(MkState(task.effectiveMode, 0, 0, waiting, 0, r.impliedRank),
                     FALSE,
                     MakeTransition(task.effectiveMode, up, "PROMOTION", "SCORE_CROSS",
                                    "PENDING_APPROVAL", "ENGINE")))
    BY <1>2, <1>5 DEF PendingStep, Earned
  <2>2. /\ task' = MkState(task.effectiveMode, 0, 0, waiting, 0, r.impliedRank)
        /\ log' = [last |-> MakeTransition(task.effectiveMode, up, "PROMOTION",
                                           "SCORE_CROSS", "PENDING_APPROVAL", "ENGINE"),
                   setter |-> log.setter]
    BY <1>1, <2>1, OfferWrites
  <2>3. Offers(TRUE, r.impliedRank)
    BY <1>1, <1>2, <1>3, <2>2 DEF Offers
  <2> QED
    BY <2>3 DEF RecomputeShape
<1> QED
  BY <1>4, <1>5

\* A high score builds the streak or makes an offer; the mode holds.
LEMMA ReadyStepShape ==
  ASSUME TypeOK, ~HasPending(task), task.effectiveMode \in Operating,
         NEW r \in Readiness, PromotionReady(task, r), Write(ReadyStep(task, r))
  PROVE  RecomputeShape
<1>1. /\ task.effectiveMode \in Modes
      /\ task.ready \in Nat
      /\ r.impliedRank \in Ranks \cup {NoRank}
      /\ NextBandUp(task.effectiveMode) # NoBand
  BY DEF TypeOK, LifecycleStates, Readiness, PromotionReady
<1> DEFINE up == NextBandUp(task.effectiveMode)
           offer == [toMode |-> up, awaitingApproval |-> FALSE]
           sustained == task.ready + 1
           proposed == MkState(task.effectiveMode, 0, 0, offer, 0, r.impliedRank)
<1>2. CASE sustained >= PromotionHysteresisRecomputes
  <2>1. /\ proposed.effectiveMode = task.effectiveMode
        /\ proposed.pending.toMode = up
    BY DEF MkState
  <2>2. Write(Result(proposed, FALSE,
                     MakeTransition(task.effectiveMode, up, "PROMOTION", "SCORE_CROSS",
                                    "PROPOSED", "ENGINE")))
    BY <1>2, <2>1 DEF ReadyStep, Earned
  <2>3. /\ task' = proposed
        /\ log' = [last |-> MakeTransition(task.effectiveMode, up, "PROMOTION",
                                           "SCORE_CROSS", "PROPOSED", "ENGINE"),
                   setter |-> log.setter]
    BY <1>1, <2>2, OfferWrites
  <2>4. Offers(FALSE, r.impliedRank)
    BY <1>1, <2>3 DEF Offers
  <2> QED
    BY <2>4 DEF RecomputeShape
<1>3. CASE ~(sustained >= PromotionHysteresisRecomputes)
  <2>1. Write(Hold(MkState(task.effectiveMode, sustained, 0, NoPending, 0,
                           r.impliedRank)))
    BY <1>3 DEF ReadyStep
  <2>2. sustained \in Nat /\ sustained < PromotionHysteresisRecomputes
    BY <1>1, <1>3, PolicyAssumption
  <2>3. Holds(sustained, 0, NoPending, 0, r.impliedRank)
    BY <1>1, <2>1, <2>2, HoldWrites DEF Holds
  <2> QED
    BY <2>3 DEF RecomputeShape
<1> QED
  BY <1>2, <1>3

\* Whatever the score is, a task in an operating mode takes one of these shapes.
LEMMA ScoredStepShape ==
  ASSUME TypeOK, PendingIsLive, task.effectiveMode \in Operating,
         NEW r \in Readiness, Scored(r), Write(ScoredStep(task, r))
  PROVE  RecomputeShape
<1>1. CASE Regressed(task, r)
  BY <1>1, RegressionStepShape DEF ScoredStep
<1>2. CASE ~Regressed(task, r) /\ HasPending(task)
  BY <1>2, PendingStepShape DEF ScoredStep
<1>3. CASE ~Regressed(task, r) /\ ~HasPending(task) /\ PromotionReady(task, r)
  BY <1>3, ReadyStepShape DEF ScoredStep
<1>4. CASE ~Regressed(task, r) /\ ~HasPending(task) /\ ~PromotionReady(task, r)
  <2>1. r.impliedRank \in Ranks \cup {NoRank}
    BY DEF Readiness
  <2>2. Holds(0, 0, NoPending, 0, r.impliedRank)
    BY <1>4, <2>1, ClearHolds DEF ScoredStep
  <2> QED
    BY <2>2 DEF RecomputeShape
<1> QED
  BY <1>1, <1>2, <1>3, <1>4

\* A recompute, whatever was ingested, has one of the four shapes.
LEMMA RecomputeHasShape ==
  ASSUME TypeOK, NeverRetired, PendingIsLive,
         NEW r \in Readiness, NEW signals \in IngestSignals, Recompute(r, signals)
  PROVE  RecomputeShape
<1> DEFINE mode == task.effectiveMode
<1>1. /\ Write(StepLifecycle(task, r, signals))
      /\ mode \in Operating \cup {"OBSERVING", "SUSPENDED"}
      /\ mode # "RETIRED"
      /\ task.lastImpliedRank \in Ranks \cup {NoRank}
      /\ signals.manual = "NONE"
  BY DEF Recompute, TypeOK, LifecycleStates, NeverRetired, Modes, IngestSignals
<1>2. CASE signals.guardrail
  BY <1>1, <1>2, GuardrailStepShape DEF StepLifecycle
<1>3. CASE ~signals.guardrail /\ signals.drift /\ mode \in Operating
  <2>1. Write(DriftStep(task))
    BY <1>1, <1>3 DEF StepLifecycle
  <2> QED
    BY <1>1, <1>3, <2>1, OneBandFallShape DEF DriftStep
<1>4. CASE ~signals.guardrail /\ mode = "OBSERVING"
  <2>1. Write(ObservingStep(task, r))
    BY <1>1, <1>4 DEF StepLifecycle, Operating
  <2> QED
    BY <1>4, <2>1, ObservingStepShape
<1>5. CASE ~signals.guardrail /\ mode = "SUSPENDED"
  <2>1. Write(SuspendedStep(task))
    BY <1>1, <1>5 DEF StepLifecycle, Operating
  <2>2. Holds(0, 0, NoPending, 0, task.lastImpliedRank)
    BY <1>1, <1>5, <2>1, ClearHolds DEF SuspendedStep
  <2> QED
    BY <2>2 DEF RecomputeShape
<1>6. CASE ~signals.guardrail /\ ~signals.drift /\ mode \in Operating /\ ~Scored(r)
  <2>1. Write(SignalLossStep(task))
    BY <1>1, <1>6 DEF StepLifecycle, Operating
  <2> QED
    BY <1>6, <2>1, SignalLossStepShape
<1>7. CASE ~signals.guardrail /\ ~signals.drift /\ mode \in Operating /\ Scored(r)
  <2>1. Write(ScoredStep(task, r))
    BY <1>1, <1>7 DEF StepLifecycle, Operating
  <2> QED
    BY <1>7, <2>1, ScoredStepShape
<1> QED
  BY <1>1, <1>2, <1>3, <1>4, <1>5, <1>6, <1>7
\* Approving accepts the offer that was pending.
LEMMA ApproveHasShape ==
  ASSUME TypeOK, NeverRetired, NEW r \in Readiness, Approve(r)
  PROVE  HumanShape
<1>1. /\ HasPending(task)
      /\ task.effectiveMode \in Modes
      /\ task.lastImpliedRank \in Ranks \cup {NoRank}
      /\ task.pending.toMode \in {"CO_PILOT", "SOLO"}
  BY DEF Approve, HasPending, TypeOK, LifecycleStates, PendingPromotions
<1>2. Write(ManualStep(task, "APPROVE"))
  BY <1>1 DEF Approve, StepLifecycle, NeverRetired
<1>3. Write(Result(MkState(task.pending.toMode, 0, 0, NoPending, 0,
                           task.lastImpliedRank), FALSE,
                   MakeTransition(task.effectiveMode, task.pending.toMode, "PROMOTION",
                                  "SCORE_CROSS", "APPLIED", "APPROVER")))
  BY <1>2 DEF ManualStep, Earned
<1>4. LET row == MakeTransition(task.effectiveMode, task.pending.toMode, "PROMOTION",
                                "SCORE_CROSS", "APPLIED", "APPROVER")
      IN /\ task' = MkState(task.pending.toMode, 0, 0, NoPending, 0,
                            task.lastImpliedRank)
         /\ log' = [last |-> row, setter |-> row]
  BY <1>1, <1>3, SetterWrites
<1>5. Accepts(task.lastImpliedRank)
  BY <1>1, <1>4 DEF Accepts, Moves, Modes, Operating, Directions, Triggers, Authorities
<1> QED
  BY <1>5 DEF HumanShape

\* A free-set is the actor's own move to an operating mode.
LEMMA FreeSetModeHasShape ==
  ASSUME TypeOK, NEW target \in Operating, FreeSetMode(target)
  PROVE  HumanShape
<1> DEFINE direction == DirectionOf(task.effectiveMode, target)
<1>1. /\ task.lastImpliedRank \in Ranks \cup {NoRank}
      /\ target \in Modes \ {"RETIRED"}
      /\ direction \in Directions
      /\ "MANUAL_OVERRIDE" \in Triggers
  BY DEF TypeOK, LifecycleStates, Modes, Operating, DirectionOf, Directions, Triggers
<1>2. Write(ActorMoves(task, target, direction, "MANUAL_OVERRIDE",
                       task.lastImpliedRank))
  BY DEF FreeSetMode, ManualOverride
<1>3. ActorSets(target, direction, "MANUAL_OVERRIDE", task.lastImpliedRank)
  BY <1>1, <1>2, ActorMovesMoves DEF ActorSets, FreeSetMode, CanOverrideFrom, Operating
<1> QED
  BY <1>3 DEF HumanShape

\* So is the kill-switch, to SUSPENDED.
LEMMA SuspendHasShape ==
  ASSUME TypeOK, Suspend
  PROVE  HumanShape
<1>1. /\ task.lastImpliedRank \in Ranks \cup {NoRank}
      /\ "SUSPENDED" \in Modes \ {"RETIRED"}
      /\ "DEMOTION" \in Directions
      /\ "SUSPEND" \in Triggers
  BY DEF TypeOK, LifecycleStates, Modes, Directions, Triggers
<1>2. Write(ActorMoves(task, "SUSPENDED", "DEMOTION", "SUSPEND", task.lastImpliedRank))
  BY DEF Suspend, SuspendAgent
<1>3. ActorSets("SUSPENDED", "DEMOTION", "SUSPEND", task.lastImpliedRank)
  BY <1>1, <1>2, ActorMovesMoves DEF ActorSets, Suspend, CanSuspendFrom
<1> QED
  BY <1>3 DEF HumanShape

\* And the resume, to a clean OBSERVING.
LEMMA ResumeHasShape ==
  ASSUME Resume
  PROVE  HumanShape
<1>1. task.effectiveMode = "SUSPENDED" /\ "SUSPENDED" \in Modes
  BY DEF Resume, CanResumeFrom, Modes
<1>2. LET row == MakeTransition("SUSPENDED", "OBSERVING", "PROMOTION", "RESUME",
                                "APPLIED", "ACTOR")
      IN /\ task' = InitialLifecycleState
         /\ log' = [last |-> row, setter |-> row]
  BY <1>1, SetterWrites DEF Resume, ResumeAgent
<1>3. ActorSets("OBSERVING", "PROMOTION", "RESUME", NoRank)
  BY <1>1, <1>2 DEF ActorSets, Moves, InitialLifecycleState, Modes, Directions,
                    Triggers, Authorities
<1> QED
  BY <1>3 DEF HumanShape

\* Every request has a shape, and reads and writes scores of the type.
LEMMA NextHasShape ==
  ASSUME TypeOK, NeverRetired, PendingIsLive, Next
  PROVE  /\ RecomputeShape \/ HumanShape
         /\ score' \in Ranks \cup {NoRank, NoScore}
<1>1. ASSUME NEW r \in Readiness, NEW signals \in IngestSignals, Recompute(r, signals)
      PROVE  RecomputeShape /\ score' \in Ranks \cup {NoRank, NoScore}
  BY <1>1, RecomputeHasShape DEF Recompute, Readiness, TypeOK
<1>2. ASSUME NEW r \in Readiness, Approve(r)
      PROVE  HumanShape /\ score' \in Ranks \cup {NoRank, NoScore}
  BY <1>2, ApproveHasShape DEF Approve, TypeOK
<1>3. ASSUME NEW target \in Operating, FreeSetMode(target)
      PROVE  HumanShape /\ score' \in Ranks \cup {NoRank, NoScore}
  BY <1>3, FreeSetModeHasShape DEF FreeSetMode, TypeOK
<1>4. CASE Suspend
  BY <1>4, SuspendHasShape DEF Suspend, TypeOK
<1>5. CASE Resume
  BY <1>5, ResumeHasShape DEF Resume, TypeOK
<1> QED
  BY <1>1, <1>2, <1>3, <1>4, <1>5 DEF Next

------------------------------------------------------------------------------
(* Each shape keeps the invariant *)

ScoreOK == score \in Ranks \cup {NoRank, NoScore}

\* Holding the mode, with a streak that stays legal, keeps the invariant.
LEMMA HoldsKeepsIInv ==
  ASSUME IInv, ScoreOK', NEW ready, NEW subFloor, NEW pending, NEW insufficient,
         NEW baseline, Holds(ready, subFloor, pending, insufficient, baseline)
  PROVE  IInv'
<1>1. /\ task \in LifecycleStates
      /\ task.pending \in PendingPromotions
      /\ NoPending \in PendingPromotions
  BY DEF IInv, TypeOK, LifecycleStates, PendingPromotions
<1>2. /\ task'.effectiveMode = task.effectiveMode
      /\ task'.ready = ready /\ task'.subFloor = subFloor
      /\ task'.insufficient = insufficient /\ task'.pending = pending
      /\ pending \in PendingPromotions
      /\ log' = log
  BY <1>1 DEF Holds, MkState
<1>3. TypeOK'
  BY <1>1, <1>2 DEF IInv, TypeOK, ScoreOK, Holds, MkState, LifecycleStates
<1>4. NeverRetired' /\ AuditAccountsForMode' /\ AltitudeIsGranted'
  BY <1>2 DEF IInv, NeverRetired, AuditAccountsForMode, AltitudeIsGranted
<1>5. PendingIsLive'
  <2>1. CASE pending = NoPending
    BY <1>2, <2>1 DEF PendingIsLive, HasPending
  <2>2. CASE pending = task.pending
    BY <1>2, <2>2 DEF IInv, PendingIsLive, HasPending, Earned
  <2> QED
    BY <2>1, <2>2 DEF Holds
<1>6. StreaksAreExclusive'
  BY <1>2, PolicyAssumption DEF Holds, StreaksAreExclusive, HasPending
<1> QED
  BY <1>3, <1>4, <1>5, <1>6 DEF IInv

\* Making or announcing an offer keeps the invariant.
LEMMA OffersKeepsIInv ==
  ASSUME IInv, ScoreOK', NEW awaiting, NEW baseline, Offers(awaiting, baseline)
  PROVE  IInv'
<1> DEFINE up == NextBandUp(task.effectiveMode)
           offer == [toMode |-> up, awaitingApproval |-> awaiting]
           status == IF awaiting THEN "PENDING_APPROVAL" ELSE "PROPOSED"
           row == MakeTransition(task.effectiveMode, up, "PROMOTION", "SCORE_CROSS",
                                 status, "ENGINE")
<1>1. /\ task.effectiveMode \in Modes
      /\ log.setter \in Transitions \cup {NoTransition}
  BY DEF IInv, TypeOK, LifecycleStates
<1>2. /\ up \in {"CO_PILOT", "SOLO"}
      /\ awaiting \in BOOLEAN
  BY DEF Offers, NextBandUp, NoBand
<1>3. /\ task'.effectiveMode = task.effectiveMode
      /\ task'.ready = 0 /\ task'.subFloor = 0 /\ task'.insufficient = 0
      /\ task'.pending = offer
      /\ log'.last = row /\ log'.setter = log.setter
  BY DEF Offers, MkState
<1>4. offer \in PendingPromotions
  BY <1>2 DEF PendingPromotions
<1>5. row \in Transitions
  BY <1>1, <1>2 DEF MakeTransition, Transitions, Modes, Operating, Directions, Triggers,
                    Statuses, Authorities
<1>6. TypeOK'
  <2>1. task' \in LifecycleStates
    BY <1>1, <1>4 DEF Offers, MkState, LifecycleStates
  <2>2. log' \in [last : Transitions \cup {NoTransition},
                  setter : Transitions \cup {NoTransition}]
    BY <1>1, <1>5 DEF Offers
  <2> QED
    BY <2>1, <2>2 DEF TypeOK, ScoreOK
<1>7. NeverRetired' /\ AuditAccountsForMode' /\ AltitudeIsGranted'
  BY <1>3 DEF IInv, NeverRetired, AuditAccountsForMode, AltitudeIsGranted
<1>8. PendingIsLive'
  BY <1>2, <1>3 DEF PendingIsLive, Earned
<1>9. StreaksAreExclusive'
  BY <1>3, PolicyAssumption DEF StreaksAreExclusive
<1> QED
  BY <1>6, <1>7, <1>8, <1>9 DEF IInv

\* A move keeps the invariant if what it sets the mode to is granted.
LEMMA MovesKeepsIInv ==
  ASSUME IInv, ScoreOK', NEW to, NEW direction, NEW trigger, NEW status, NEW authority,
         NEW baseline, Moves(to, direction, trigger, status, authority, baseline),
         \/ to \notin {"CO_PILOT", "SOLO"}
         \/ authority # "ENGINE"
         \/ task.effectiveMode = "SOLO" /\ direction = "DEMOTION"
  PROVE  IInv'
<1> DEFINE row == MakeTransition(task.effectiveMode, to, direction, trigger, status,
                                 authority)
<1>1. task.effectiveMode \in Modes
  BY DEF IInv, TypeOK, LifecycleStates
<1>2. /\ task'.effectiveMode = to
      /\ task'.ready = 0 /\ task'.subFloor = 0 /\ task'.insufficient = 0
      /\ task'.pending = NoPending
      /\ log'.last = row /\ log'.setter = row
  BY DEF Moves, MkState
<1>3. row \in Transitions
  BY <1>1 DEF Moves, MakeTransition, Transitions, Statuses
<1>4. TypeOK'
  <2>1. task' \in LifecycleStates
    BY DEF Moves, MkState, LifecycleStates, PendingPromotions
  <2>2. log' \in [last : Transitions \cup {NoTransition},
                  setter : Transitions \cup {NoTransition}]
    BY <1>3 DEF Moves
  <2> QED
    BY <2>1, <2>2 DEF TypeOK, ScoreOK
<1>5. NeverRetired'
  BY <1>2 DEF NeverRetired, Moves
<1>6. AuditAccountsForMode'
  <2>1. row # NoTransition /\ row.toMode = to
    BY <1>1 DEF MakeTransition, NoTransition, Modes, Operating, NoBand
  <2> QED
    BY <1>2, <2>1 DEF AuditAccountsForMode
<1>7. AltitudeIsGranted'
  <2>1. /\ row.authority = authority /\ row.direction = direction
        /\ row.fromMode = task.effectiveMode
    BY DEF MakeTransition
  <2>2. to \in {"CO_PILOT", "SOLO"} \/ ~(BandRank(to) > BandRank("SHADOW"))
    BY DEF Moves, Modes, Operating, BandRank
  <2> QED
    BY <1>2, <2>1, <2>2 DEF AltitudeIsGranted
<1>8. PendingIsLive' /\ StreaksAreExclusive'
  BY <1>2, PolicyAssumption DEF PendingIsLive, StreaksAreExclusive, HasPending
<1> QED
  BY <1>4, <1>5, <1>6, <1>7, <1>8 DEF IInv

------------------------------------------------------------------------------
(* The theorems *)

\* The invariant holds of a task that was never touched.
LEMMA InitIInv == Init => IInv
<1> SUFFICES ASSUME Init
             PROVE  IInv
  OBVIOUS
<1>1. /\ task = [effectiveMode |-> "OBSERVING", ready |-> 0, subFloor |-> 0,
                insufficient |-> 0, pending |-> NoPending, lastImpliedRank |-> NoRank]
      /\ score = NoScore
      /\ log = [last |-> NoTransition, setter |-> NoTransition]
  BY DEF Init, InitialLifecycleState, MkState
<1>2. TypeOK
  BY <1>1 DEF TypeOK, LifecycleStates, Modes, PendingPromotions
<1>3. AltitudeIsGranted
  BY <1>1 DEF AltitudeIsGranted, BandRank
<1>4. NeverRetired /\ AuditAccountsForMode /\ PendingIsLive /\ StreaksAreExclusive
  BY <1>1, PolicyAssumption DEF NeverRetired, AuditAccountsForMode, PendingIsLive,
                                StreaksAreExclusive, HasPending
<1> QED
  BY <1>2, <1>3, <1>4 DEF IInv

\* Every request keeps the invariant.
LEMMA NextIInv == IInv /\ [Next]_vars => IInv'
<1> SUFFICES ASSUME IInv, [Next]_vars
             PROVE  IInv'
  OBVIOUS
<1>1. CASE Next
  <2>1. (RecomputeShape \/ HumanShape) /\ ScoreOK'
    BY <1>1, NextHasShape DEF IInv, ScoreOK
  <2>2. ASSUME NEW ready, NEW subFloor, NEW pending, NEW insufficient, NEW baseline,
               Holds(ready, subFloor, pending, insufficient, baseline)
        PROVE  IInv'
    BY <2>1, <2>2, HoldsKeepsIInv
  <2>3. ASSUME NEW awaiting, NEW baseline, Offers(awaiting, baseline)
        PROVE  IInv'
    BY <2>1, <2>3, OffersKeepsIInv
  <2>4. ASSUME NEW to, NEW trigger, NEW baseline, EngineFalls(to, trigger, baseline)
        PROVE  IInv'
    <3>1. Moves(to, "DEMOTION", trigger, "AUTO_APPLIED", "ENGINE", baseline)
      BY <2>4 DEF EngineFalls
    <3>2. to \notin {"CO_PILOT", "SOLO"} \/ task.effectiveMode = "SOLO"
      BY <2>4 DEF EngineFalls, OneBandDown, Operating
    <3> QED
      BY <2>1, <3>1, <3>2, MovesKeepsIInv
  <2>5. ASSUME NEW baseline, EngineEnters(baseline)
        PROVE  IInv'
    BY <2>1, <2>5, MovesKeepsIInv DEF EngineEnters
  <2>6. ASSUME NEW baseline, Accepts(baseline)
        PROVE  IInv'
    BY <2>1, <2>6, MovesKeepsIInv DEF Accepts
  <2>7. ASSUME NEW to, NEW direction, NEW trigger, NEW baseline,
               ActorSets(to, direction, trigger, baseline)
        PROVE  IInv'
    BY <2>1, <2>7, MovesKeepsIInv DEF ActorSets
  <2> QED
    BY <2>1, <2>2, <2>3, <2>4, <2>5, <2>6, <2>7 DEF RecomputeShape, HumanShape
<1>2. CASE UNCHANGED vars
  BY <1>2 DEF vars, IInv, TypeOK, NeverRetired, AuditAccountsForMode, PendingIsLive,
              AltitudeIsGranted, StreaksAreExclusive
<1> QED
  BY <1>1, <1>2

\* The inductive invariant, for every policy: the theorems below are its conjuncts, or
\* follow from it and one step.
THEOREM Invariance == Spec => []IInv
BY InitIInv, NextIInv, PTL DEF Spec

\* Every reachable state has the types of TaskLifecycle.
THEOREM TypeCorrect == Spec => []TypeOK
BY Invariance, PTL DEF IInv

\* The audit trail accounts for the mode in force, after any number of requests.
THEOREM AuditTrail == Spec => []AuditAccountsForMode
BY Invariance, PTL DEF IInv

\* An offer that can be accepted is the next band up and the last word of the log.
THEOREM OfferIsLive == Spec => []PendingIsLive
BY Invariance, PTL DEF IInv

\* No agent works above SHADOW on the engine's authority.
THEOREM Altitude == Spec => []AltitudeIsGranted
BY Invariance, PTL DEF IInv

\* The streaks exclude each other and stay below their thresholds, for any thresholds.
THEOREM Streaks == Spec => []StreaksAreExclusive
BY Invariance, PTL DEF IInv

\* A mode rises only by a human, the start at SHADOW excepted.
THEOREM OnlyHumansRaiseTheMode == Spec => OnlyHumansRaise
<1> DEFINE Rise ==
      BandRank(task'.effectiveMode) > BandRank(task.effectiveMode) =>
        \/ task.effectiveMode = "OBSERVING" /\ task'.effectiveMode = "SHADOW"
        \/ /\ log'.setter.authority = "APPROVER"
           /\ task'.effectiveMode = task.pending.toMode
        \/ log'.setter.authority = "ACTOR"
<1>1. IInv /\ Next => Rise
  <2> SUFFICES ASSUME IInv, Next
               PROVE  Rise
    OBVIOUS
  <2>1. RecomputeShape \/ HumanShape
    BY NextHasShape DEF IInv
  <2>2. task.effectiveMode \in Modes \ {"RETIRED"}
    BY DEF IInv, NeverRetired, TypeOK, LifecycleStates
  <2>3. BandRank(task.effectiveMode) \in Int
    BY <2>2 DEF BandRank, Modes, Operating
  <2>4. ASSUME task'.effectiveMode = task.effectiveMode
        PROVE  Rise
    BY <2>3, <2>4
  <2>5. ASSUME NEW ready, NEW subFloor, NEW pending, NEW insufficient, NEW baseline,
               Holds(ready, subFloor, pending, insufficient, baseline)
        PROVE  Rise
    BY <2>4, <2>5 DEF Holds, MkState
  <2>6. ASSUME NEW awaiting, NEW baseline, Offers(awaiting, baseline)
        PROVE  Rise
    BY <2>4, <2>6 DEF Offers, MkState
  <2>7. ASSUME NEW to, NEW trigger, NEW baseline, EngineFalls(to, trigger, baseline)
        PROVE  Rise
    <3>1. task'.effectiveMode = to
      BY <2>7 DEF EngineFalls, Moves, MkState
    <3>2. CASE to = "SUSPENDED"
      BY <2>2, <3>1, <3>2 DEF BandRank, Modes, Operating
    <3>3. CASE task.effectiveMode \in Operating /\ to = OneBandDown(task.effectiveMode)
      BY <3>1, <3>3 DEF BandRank, Operating, OneBandDown
    <3> QED
      BY <2>7, <3>2, <3>3 DEF EngineFalls
  <2>8. ASSUME NEW baseline, EngineEnters(baseline)
        PROVE  Rise
    BY <2>8 DEF EngineEnters, Moves, MkState
  <2>9. ASSUME NEW baseline, Accepts(baseline)
        PROVE  Rise
    BY <2>9 DEF Accepts, Moves, MkState, MakeTransition
  <2>10. ASSUME NEW to, NEW direction, NEW trigger, NEW baseline,
                ActorSets(to, direction, trigger, baseline)
         PROVE  Rise
    BY <2>10 DEF ActorSets, Moves, MakeTransition
  <2> QED
    BY <2>1, <2>5, <2>6, <2>7, <2>8, <2>9, <2>10 DEF RecomputeShape, HumanShape
<1> QED
  BY <1>1, Invariance, PTL DEF Spec, OnlyHumansRaise

\* Without a human the mode falls one band, or is parked by a guardrail or by drift.
THEOREM EngineFallsAreBounded == Spec => EngineFallsOneBand
<1> DEFINE Lowered ==
      /\ BandRank(task'.effectiveMode) < BandRank(task.effectiveMode)
      /\ log'.setter.authority = "ENGINE"
<1>1. IInv /\ Next => (Lowered => EngineFall)
  <2> SUFFICES ASSUME IInv, Next, Lowered
               PROVE  EngineFall
    OBVIOUS
  <2>1. RecomputeShape \/ HumanShape
    BY NextHasShape DEF IInv
  <2>2. task.effectiveMode \in Modes
    BY DEF IInv, TypeOK, LifecycleStates
  <2>3. task'.effectiveMode # task.effectiveMode
    BY <2>2 DEF BandRank, Modes, Operating
  <2>4. ASSUME NEW ready, NEW subFloor, NEW pending, NEW insufficient, NEW baseline,
               Holds(ready, subFloor, pending, insufficient, baseline)
        PROVE  FALSE
    BY <2>3, <2>4 DEF Holds, MkState
  <2>5. ASSUME NEW awaiting, NEW baseline, Offers(awaiting, baseline)
        PROVE  FALSE
    BY <2>3, <2>5 DEF Offers, MkState
  <2>6. ASSUME NEW to, NEW trigger, NEW baseline, EngineFalls(to, trigger, baseline)
        PROVE  EngineFall
    <3>1. /\ task'.effectiveMode = to /\ task'.pending = NoPending
          /\ log'.setter.trigger = trigger
      BY <2>6 DEF EngineFalls, Moves, MkState, MakeTransition
    <3>2. CASE trigger = "GUARDRAIL" /\ to = "SUSPENDED"
      BY <3>1, <3>2 DEF EngineFall, HasPending
    <3>3. CASE /\ trigger \in {"DRIFT", "SIGNAL_LOSS", "SCORE_CROSS"}
               /\ task.effectiveMode \in Operating
               /\ to = OneBandDown(task.effectiveMode)
               /\ trigger # "DRIFT" => task.effectiveMode # "SHADOW"
      BY <3>1, <3>3 DEF EngineFall, HasPending, OneBandDown, Operating
    <3> QED
      BY <2>6, <3>2, <3>3 DEF EngineFalls
  <2>7. ASSUME NEW baseline, EngineEnters(baseline)
        PROVE  FALSE
    BY <2>7 DEF EngineEnters, Moves, MkState, BandRank
  <2>8. ASSUME NEW baseline, Accepts(baseline)
        PROVE  FALSE
    BY <2>8 DEF Accepts, Moves, MakeTransition
  <2>9. ASSUME NEW to, NEW direction, NEW trigger, NEW baseline,
               ActorSets(to, direction, trigger, baseline)
        PROVE  FALSE
    BY <2>9 DEF ActorSets, Moves, MakeTransition
  <2> QED
    BY <2>1, <2>4, <2>5, <2>6, <2>7, <2>8, <2>9 DEF RecomputeShape, HumanShape
<1> QED
  BY <1>1, Invariance, PTL DEF Spec, EngineFallsOneBand

\* Only a human lets a parked task go, and it starts over with nothing kept.
THEOREM ParkedUntilResumed == Spec => SuspendedIsASink
<1> DEFINE Parked ==
      task.effectiveMode = "SUSPENDED" =>
        \/ task'.effectiveMode = "SUSPENDED" /\ UNCHANGED log
        \/ task' = InitialLifecycleState /\ log'.setter.authority = "ACTOR"
<1>1. IInv /\ Next => Parked
  <2> SUFFICES ASSUME IInv, Next, task.effectiveMode = "SUSPENDED"
               PROVE  Parked
    OBVIOUS
  <2>1. RecomputeShape \/ HumanShape
    BY NextHasShape DEF IInv
  <2>2. NextBandUp(task.effectiveMode) = NoBand /\ task.effectiveMode \notin Operating
    BY DEF NextBandUp, Operating
  <2>3. ~HasPending(task)
    BY <2>2 DEF IInv, TypeOK, LifecycleStates, PendingPromotions, PendingIsLive,
                HasPending, NoBand
  <2>4. ASSUME NEW ready, NEW subFloor, NEW pending, NEW insufficient, NEW baseline,
               Holds(ready, subFloor, pending, insufficient, baseline)
        PROVE  Parked
    BY <2>4 DEF Holds, MkState
  <2>5. ASSUME NEW awaiting, NEW baseline, Offers(awaiting, baseline)
        PROVE  FALSE
    BY <2>2, <2>5 DEF Offers
  <2>6. ASSUME NEW to, NEW trigger, NEW baseline, EngineFalls(to, trigger, baseline)
        PROVE  FALSE
    BY <2>2, <2>6 DEF EngineFalls
  <2>7. ASSUME NEW baseline, EngineEnters(baseline)
        PROVE  FALSE
    BY <2>7 DEF EngineEnters
  <2>8. ASSUME NEW baseline, Accepts(baseline)
        PROVE  FALSE
    BY <2>3, <2>8 DEF Accepts
  <2>9. ASSUME NEW to, NEW direction, NEW trigger, NEW baseline,
               ActorSets(to, direction, trigger, baseline)
        PROVE  Parked
    BY <2>9 DEF ActorSets, Moves, MakeTransition, InitialLifecycleState
  <2> QED
    BY <2>1, <2>4, <2>5, <2>6, <2>7, <2>8, <2>9 DEF RecomputeShape, HumanShape
<1> QED
  BY <1>1, Invariance, PTL DEF Spec, SuspendedIsASink

------------------------------------------------------------------------------
(* The detailed lifecycle implements the abstract one *)

\* An offer of the abstract specification is a pending promotion, and the other way.
LEMMA OfferIsPending ==
  ASSUME TypeOK
  PROVE  HasPending(task) <=> task.pending.toMode # NoBand
BY DEF TypeOK, LifecycleStates, PendingPromotions, HasPending, NoPending, NoBand

\* Each shape maps to the abstract action of its name, or to a stutter.
LEMMA HoldsImplements ==
  ASSUME TypeOK, NEW ready, NEW subFloor, NEW pending, NEW insufficient, NEW baseline,
         Holds(ready, subFloor, pending, insufficient, baseline)
  PROVE  Abstract!Withdraw \/ UNCHANGED Abstract!vars
<1>1. /\ task'.effectiveMode = task.effectiveMode
      /\ task'.pending = pending
      /\ log' = log
  BY DEF Holds, MkState
<1>2. CASE pending = task.pending
  BY <1>1, <1>2 DEF Abstract!vars
<1>3. CASE pending = NoPending /\ ~HasPending(task)
  BY <1>1, <1>3 DEF HasPending, Abstract!vars
<1>4. CASE pending = NoPending /\ HasPending(task)
  BY <1>1, <1>4, OfferIsPending DEF Abstract!Withdraw, NoPending
<1> QED
  BY <1>2, <1>3, <1>4 DEF Holds

\* An offer that is made is Offer; one that is announced is a stutter.
LEMMA OffersImplements ==
  ASSUME TypeOK, task.effectiveMode \in Operating, NEW awaiting, NEW baseline,
         Offers(awaiting, baseline)
  PROVE  Abstract!Offer \/ UNCHANGED Abstract!vars
<1> DEFINE up == NextBandUp(task.effectiveMode)
<1>1. /\ task'.effectiveMode = task.effectiveMode
      /\ task'.pending.toMode = up
      /\ log'.setter = log.setter
      /\ up # NoBand
  BY DEF Offers, MkState
<1>2. CASE HasPending(task)
  <2>1. task.pending.toMode = up
    BY <1>2 DEF Offers
  <2> QED
    BY <1>1, <2>1 DEF Abstract!vars
<1>3. CASE ~HasPending(task)
  BY <1>1, <1>3, OfferIsPending DEF Abstract!Offer
<1> QED
  BY <1>2, <1>3

\* A fall of the engine is Fall.
LEMMA EngineFallsImplements ==
  ASSUME NEW to, NEW trigger, NEW baseline, EngineFalls(to, trigger, baseline)
  PROVE  Abstract!Fall
<1>1. /\ task'.effectiveMode = to /\ task'.pending.toMode = NoBand
      /\ Authority(log'.setter) = "ENGINE"
  BY DEF EngineFalls, Moves, MkState, NoPending, MakeTransition, Authority
<1>2. task.effectiveMode # "SUSPENDED"
  BY DEF EngineFalls, Operating
<1>3. \/ task.effectiveMode \in Operating /\ to = OneBandDown(task.effectiveMode)
      \/ to = "SUSPENDED"
  BY DEF EngineFalls
<1> QED
  BY <1>1, <1>2, <1>3 DEF Abstract!Fall

\* The start of work is Enter.
LEMMA EngineEntersImplements ==
  ASSUME NEW baseline, EngineEnters(baseline)
  PROVE  Abstract!Enter
BY DEF EngineEnters, Moves, MkState, NoPending, MakeTransition, Authority, Abstract!Enter

\* An approval is Accept.
LEMMA AcceptsImplements ==
  ASSUME TypeOK, NEW baseline, Accepts(baseline)
  PROVE  Abstract!Accept
BY OfferIsPending DEF Accepts, Moves, MkState, NoPending, MakeTransition, Authority,
                      Abstract!Accept

\* A human's own move is FreeSet or KillSwitch.
LEMMA ActorSetsImplements ==
  ASSUME NEW to, NEW direction, NEW trigger, NEW baseline,
         ActorSets(to, direction, trigger, baseline)
  PROVE  Abstract!FreeSet \/ Abstract!KillSwitch
<1>1. /\ task'.effectiveMode = to /\ task'.pending.toMode = NoBand
      /\ Authority(log'.setter) = "HUMAN"
  BY DEF ActorSets, Moves, MkState, NoPending, MakeTransition, Authority
<1>2. CASE task.effectiveMode # "SUSPENDED" /\ to \in Operating
  BY <1>1, <1>2 DEF Abstract!FreeSet
<1>3. CASE task.effectiveMode # "SUSPENDED" /\ to = "SUSPENDED"
  BY <1>1, <1>3 DEF Abstract!KillSwitch
<1>4. CASE task.effectiveMode = "SUSPENDED" /\ to = "OBSERVING"
  BY <1>1, <1>4 DEF Abstract!KillSwitch
<1> QED
  BY <1>2, <1>3, <1>4 DEF ActorSets

\* Authority is given by humans and taken away by anyone: every behaviour of the code
\* is one of the abstract specification, whatever the policy.
THEOREM Implementation == Spec => ImplementsAutonomy
<1>1. Init => Abstract!Init
  BY DEF Init, InitialLifecycleState, MkState, NoPending, NoTransition, MakeTransition,
         Authority, NoBand, Abstract!Init
<1>2. IInv /\ [Next]_vars => [Abstract!Next]_(Abstract!vars)
  <2> SUFFICES ASSUME IInv, [Next]_vars
               PROVE  Abstract!Next \/ UNCHANGED Abstract!vars
    OBVIOUS
  <2>1. CASE Next
    <3>1. TypeOK /\ (RecomputeShape \/ HumanShape)
      BY <2>1, NextHasShape DEF IInv
    <3>2. CASE RecomputeShape
      BY <3>1, <3>2, HoldsImplements, OffersImplements, EngineFallsImplements,
         EngineEntersImplements DEF RecomputeShape, Abstract!Next
    <3>3. CASE HumanShape
      BY <3>1, <3>3, AcceptsImplements, ActorSetsImplements
         DEF HumanShape, Abstract!Next
    <3> QED
      BY <3>1, <3>2, <3>3
  <2>2. CASE UNCHANGED vars
    BY <2>2 DEF vars, Abstract!vars
  <2> QED
    BY <2>1, <2>2
<1> QED
  BY <1>1, <1>2, Invariance, PTL DEF Spec, ImplementsAutonomy, Abstract!Spec

------------------------------------------------------------------------------
(* Fleet: what the dashboard says of a task is so. Argued from the shapes of  *)
(* the steps, the invariant above and two facts about the log that the        *)
(* read-model relies on.                                                      *)

\* A row that parks a task names its cause, a human's or the engine's; and only a resume leads
\* back to OBSERVING.
NamesItsCause(row) ==
  /\ row.toMode = "SUSPENDED" =>
       /\ row.trigger \in {"SUSPEND", "GUARDRAIL", "DRIFT"}
       /\ row.trigger = "SUSPEND" <=> row.authority = "ACTOR"
  /\ row.toMode = "OBSERVING" => row.trigger = "RESUME"

\* The log keeps its last two rows apart: a last row that sets a mode is the setter.
LogInv ==
  /\ Sets(log.last) => log.last = log.setter
  /\ NamesItsCause(log.setter)

------------------------------------------------------------------------------
(* The facts about the log hold in every state *)

\* A request that moves the mode keeps them if its own row names its cause.
LEMMA MovesKeepsLogInv ==
  ASSUME NEW to, NEW direction, NEW trigger, NEW status, NEW authority, NEW baseline,
         Moves(to, direction, trigger, status, authority, baseline),
         NamesItsCause(MakeTransition(task.effectiveMode, to, direction, trigger, status,
                                      authority))
  PROVE  LogInv'
BY DEF Moves, LogInv, NamesItsCause

LEMMA LogInvHolds == IInv /\ LogInv /\ [Next]_vars => LogInv'
<1> SUFFICES ASSUME IInv, LogInv, [Next]_vars
             PROVE  LogInv'
  OBVIOUS
<1>1. CASE Next
  <2>1. RecomputeShape \/ HumanShape
    BY <1>1, NextHasShape DEF IInv
  <2>2. ASSUME NEW ready, NEW subFloor, NEW pending, NEW insufficient, NEW baseline,
               Holds(ready, subFloor, pending, insufficient, baseline)
        PROVE  LogInv'
    BY <2>2 DEF Holds, LogInv, NamesItsCause
  <2>3. ASSUME NEW awaiting, NEW baseline, Offers(awaiting, baseline)
        PROVE  LogInv'
    BY <2>3 DEF Offers, LogInv, NamesItsCause, Sets, MakeTransition
  <2>4. ASSUME NEW to, NEW trigger, NEW baseline, EngineFalls(to, trigger, baseline)
        PROVE  LogInv'
    <3>1. NamesItsCause(MakeTransition(task.effectiveMode, to, "DEMOTION", trigger,
                                       "AUTO_APPLIED", "ENGINE"))
      BY <2>4 DEF EngineFalls, NamesItsCause, MakeTransition, OneBandDown, Operating
    <3> QED
      BY <2>4, <3>1, MovesKeepsLogInv DEF EngineFalls
  <2>5. ASSUME NEW baseline, EngineEnters(baseline)
        PROVE  LogInv'
    BY <2>5, MovesKeepsLogInv DEF EngineEnters, NamesItsCause, MakeTransition
  <2>6. ASSUME NEW baseline, Accepts(baseline)
        PROVE  LogInv'
    <3>1. task.pending.toMode \in {"CO_PILOT", "SOLO"}
      BY <2>6 DEF Accepts, HasPending, IInv, TypeOK, LifecycleStates, PendingPromotions
    <3> QED
      BY <2>6, <3>1, MovesKeepsLogInv DEF Accepts, NamesItsCause, MakeTransition
  <2>7. ASSUME NEW to, NEW direction, NEW trigger, NEW baseline,
               ActorSets(to, direction, trigger, baseline)
        PROVE  LogInv'
    <3>1. NamesItsCause(MakeTransition(task.effectiveMode, to, direction, trigger,
                                       "APPLIED", "ACTOR"))
      BY <2>7 DEF ActorSets, NamesItsCause, MakeTransition
    <3> QED
      BY <2>7, <3>1, MovesKeepsLogInv DEF ActorSets
  <2> QED
    BY <2>1, <2>2, <2>3, <2>4, <2>5, <2>6, <2>7 DEF RecomputeShape, HumanShape
<1>2. CASE UNCHANGED vars
  BY <1>2 DEF vars, LogInv, NamesItsCause
<1> QED
  BY <1>1, <1>2

LEMMA LogInvariance == Spec => []LogInv
<1>1. Init => LogInv
  BY DEF Init, LogInv, NamesItsCause, NoTransition, NoBand, MakeTransition
<1> QED
  BY <1>1, LogInvHolds, Invariance, PTL DEF Spec

------------------------------------------------------------------------------
(* What the dashboard says *)

\* A live offer is the last word of the log, so nothing above PROMOTABLE applies.
LEMMA LiveOffersAreShown ==
  ASSUME IInv
  PROVE  OffersAreShown
<1> SUFFICES ASSUME HasPending(task), HasScore, EarnedAbove, ~ViaOverride
             PROVE  Status = "PROMOTABLE" /\ log.last.toMode = task.pending.toMode
  BY DEF OffersAreShown
<1>1. /\ task.pending.toMode \in {"CO_PILOT", "SOLO"}
      /\ task.pending.toMode = NextBandUp(task.effectiveMode)
      /\ log.last.toMode = task.pending.toMode
      /\ log.last.status \in {"PROPOSED", "PENDING_APPROVAL"}
  BY DEF IInv, TypeOK, LifecycleStates, PendingPromotions, HasPending, PendingIsLive,
         Earned, MakeTransition
<1>2. task.effectiveMode \in {"SHADOW", "CO_PILOT"}
  BY <1>1 DEF NextBandUp, NoBand
<1>3. ~JustDegraded /\ LivePromotion
  BY <1>1 DEF JustDegraded, LivePromotion
<1> QED
  BY <1>1, <1>2, <1>3 DEF Status

\* The row that set SUSPENDED says why.
LEMMA SuspendCausesAreHonest ==
  ASSUME IInv, LogInv
  PROVE  SuspendCauseIsHonest
<1>1. task.effectiveMode = "SUSPENDED" => log.setter.toMode = "SUSPENDED"
  BY DEF IInv, AuditAccountsForMode
<1> QED
  BY <1>1 DEF LogInv, NamesItsCause, SuspendCauseIsHonest, SuspendTrigger

\* A task in OBSERVING is new or resumed, so nothing hides that it observes.
LEMMA ObservingIsShown ==
  ASSUME IInv, LogInv
  PROVE  ObservingIsObserveOnly
<1>1. ASSUME task.effectiveMode = "OBSERVING"
      PROVE  /\ ~JustDegraded
             /\ log.setter = NoTransition \/ log.setter.trigger = "RESUME"
  <2>1. CASE log.setter = NoTransition
    BY <2>1 DEF LogInv, JustDegraded, Sets, NoTransition, MakeTransition, NoBand
  <2>2. CASE log.setter # NoTransition
    <3>1. log.setter.toMode = "OBSERVING"
      BY <1>1, <2>2 DEF IInv, AuditAccountsForMode
    <3> QED
      BY <3>1 DEF LogInv, NamesItsCause, JustDegraded, Sets
  <2> QED
    BY <2>1, <2>2
<1> QED
  BY <1>1 DEF ObservingIsObserveOnly, Status

\* What the dashboard says of a task is so, for every policy: its offers, the cause of its
\* suspension, and that it is only observed.
THEOREM TheFleetIsHonest == Spec => []FleetIsHonest
<1>1. IInv /\ LogInv => FleetIsHonest
  BY LiveOffersAreShown, SuspendCausesAreHonest, ObservingIsShown DEF FleetIsHonest
<1> QED
  BY <1>1, Invariance, LogInvariance, PTL

------------------------------------------------------------------------------
(* RecomputeHistory: the engine's counters count the recomputes that there    *)
(* were. The memory of the recomputes is as deep as the longest streak asks   *)
(* for, whatever the thresholds are, so each counter can be read off its end. *)

Entries == [mode : Modes, says : {"LOST", "BELOW", "READY", "LEVEL"}]

\* Each counter is a run of recomputes at the end of the memory that all said so of the
\* mode in force, and no run is longer than its counter, but for a run that has led to an
\* offer or that SHADOW, which has no signal to lose, does not count.
CountersInv ==
  /\ recent \in Seq(Entries)
  /\ LastAll(recent, task.ready, task.effectiveMode, "READY")
  /\ LastAll(recent, task.subFloor, task.effectiveMode, "BELOW")
  /\ LastAll(recent, task.insufficient, task.effectiveMode, "LOST")
  /\ ~HasPending(task) =>
       \A n \in Nat : LastAll(recent, n, task.effectiveMode, "READY") => n <= task.ready
  /\ task.effectiveMode \in {"CO_PILOT", "SOLO"} =>
       \A n \in Nat :
         LastAll(recent, n, task.effectiveMode, "LOST") => n <= task.insufficient

\* A recompute that found this mode supported by the score.
Supports(e, mode) == e \in [mode : {mode}, says : {"READY", "LEVEL"}]

\* The regression baseline is as high as the mode after a score that supported it, and from
\* there on the sub-floor counter counts every recompute below.
DeclineInv ==
  /\ Len(recent) > 0 /\ Supports(recent[Len(recent)], task.effectiveMode) =>
       task.lastImpliedRank >= BandRank(task.effectiveMode)
  /\ \A n \in Nat \ {0} :
       /\ LastAll(recent, n, task.effectiveMode, "BELOW")
       /\ Len(recent) > n
       /\ Supports(recent[Len(recent) - n], task.effectiveMode)
       => n <= task.subFloor

------------------------------------------------------------------------------
(* The memory *)

\* The memory reaches as far back as each threshold.
LEMMA DepthFacts ==
  /\ Depth \in Nat \ {0}
  /\ Depth >= PromotionHysteresisRecomputes
  /\ Depth >= ScoreDropConfirmRecomputes
  /\ Depth >= SignalLossGraceRecomputes
<1> DEFINE S == {PromotionHysteresisRecomputes, ScoreDropConfirmRecomputes,
                 SignalLossGraceRecomputes}
<1>1. \E x \in S : \A y \in S : x >= y
  BY PolicyAssumption
<1>2. Depth \in S /\ \A y \in S : Depth >= y
  BY <1>1 DEF Depth, Max
<1> QED
  BY <1>2, PolicyAssumption

\* Remembering an entry keeps the latest before it, in their order from the end.
LEMMA RememberFacts ==
  ASSUME recent \in Seq(Entries), NEW e \in Entries
  PROVE  /\ Remember(e) \in Seq(Entries)
         /\ Len(Remember(e)) = IF Len(recent) + 1 <= Depth THEN Len(recent) + 1 ELSE Depth
         /\ Remember(e)[Len(Remember(e))] = e
         /\ \A j \in 1..(Len(Remember(e)) - 1) :
              Remember(e)[Len(Remember(e)) - j] = recent[Len(recent) + 1 - j]
<1> DEFINE all == Append(recent, e)
           k == Max({1, Len(all) - Depth + 1})
<1>1. /\ all \in Seq(Entries) /\ Len(recent) \in Nat /\ Len(all) = Len(recent) + 1
      /\ all[Len(all)] = e
      /\ \A i \in 1..Len(recent) : all[i] = recent[i]
  BY AppendProperties, LenProperties
<1>2. k = IF Len(all) <= Depth THEN 1 ELSE Len(all) - Depth + 1
  <2> HIDE DEF all
  <2>1. Len(all) \in Nat
    BY <1>1
  <2> DEFINE S == {1, Len(all) - Depth + 1}
             m == IF Len(all) <= Depth THEN 1 ELSE Len(all) - Depth + 1
  <2>2. m \in S /\ \A y \in S : m >= y
    BY <2>1, DepthFacts
  <2>3. \A x \in S : (\A y \in S : x >= y) => x = m
    BY <2>1, <2>2, DepthFacts
  <2> QED
    BY <2>2, <2>3 DEF Max
<1>3. k \in 1..Len(all)
  BY <1>1, <1>2, DepthFacts
<1>4. Remember(e) = SubSeq(all, k, Len(all))
  BY DEF Remember
<1> HIDE DEF k, all
<1>5. /\ Remember(e) \in Seq(Entries)
      /\ Len(Remember(e)) = Len(all) - k + 1
      /\ \A i \in 1..(Len(all) - k + 1) : Remember(e)[i] = all[k + i - 1]
  <2>1. \A i \in k..Len(all) : all[i] \in Entries
    BY <1>1, <1>3, ElementOfSeq
  <2> QED
    BY <1>1, <1>3, <1>4, <2>1, SubSeqProperties
<1>6. Len(Remember(e)) = IF Len(recent) + 1 <= Depth THEN Len(recent) + 1 ELSE Depth
  BY <1>1, <1>2, <1>5, DepthFacts
<1>7. Remember(e)[Len(Remember(e))] = e
  BY <1>1, <1>3, <1>5
<1>8. ASSUME NEW j \in 1..(Len(Remember(e)) - 1)
      PROVE  Remember(e)[Len(Remember(e)) - j] = recent[Len(recent) + 1 - j]
  <2>1. /\ Len(Remember(e)) - j \in 1..(Len(all) - k + 1)
        /\ k + (Len(Remember(e)) - j) - 1 = Len(all) - j
        /\ Len(all) - j \in 1..Len(recent)
    BY <1>1, <1>3, <1>5
  <2> QED
    BY <1>1, <1>5, <2>1
<1> QED
  BY <1>5, <1>6, <1>7, <1>8

\* A run goes on with an entry that says the same, as long as the memory is deep enough.
LEMMA RunGoesOn ==
  ASSUME recent \in Seq(Entries), NEW m \in Modes,
         NEW says \in {"LOST", "BELOW", "READY", "LEVEL"},
         NEW n \in Nat, n < Depth, LastAll(recent, n, m, says)
  PROVE  LastAll(Remember([mode |-> m, says |-> says]), n + 1, m, says)
<1> DEFINE e == [mode |-> m, says |-> says]
           R == Remember(e)
<1>1. e \in Entries
  BY DEF Entries
<1>2. /\ Len(recent) \in Nat /\ Len(recent) >= n
      /\ \A i \in Len(recent) - n + 1 .. Len(recent) : recent[i] = e
  BY LenProperties DEF LastAll
<1>3. /\ Len(R) = IF Len(recent) + 1 <= Depth THEN Len(recent) + 1 ELSE Depth
      /\ R[Len(R)] = e
      /\ \A j \in 1..(Len(R) - 1) : R[Len(R) - j] = recent[Len(recent) + 1 - j]
  BY <1>1, RememberFacts
<1> HIDE DEF R, e
<1>4. Len(R) \in Nat /\ Len(R) >= n + 1
  BY <1>2, <1>3, DepthFacts
<1>5. ASSUME NEW i \in Len(R) - (n + 1) + 1 .. Len(R)
      PROVE  R[i] = e
  <2>1. CASE i = Len(R)
    BY <1>3, <2>1
  <2>2. CASE i # Len(R)
    <3> DEFINE j == Len(R) - i
    <3>1. /\ j \in 1..(Len(R) - 1) /\ Len(R) - j = i
          /\ Len(recent) + 1 - j \in Len(recent) - n + 1 .. Len(recent)
      BY <1>2, <1>4, <2>2
    <3> QED
      BY <1>2, <1>3, <3>1
  <2> QED
    BY <2>1, <2>2
<1> QED
  BY <1>4, <1>5 DEF LastAll, R, e

\* A run at the end of the memory is the last entry and a run before it.
LEMMA RunComesFrom ==
  ASSUME recent \in Seq(Entries), NEW e \in Entries, NEW m, NEW says,
         NEW n \in Nat \ {0}, LastAll(Remember(e), n, m, says)
  PROVE  /\ e = [mode |-> m, says |-> says]
         /\ LastAll(recent, n - 1, m, says)
<1> DEFINE x == [mode |-> m, says |-> says]
           R == Remember(e)
<1>1. /\ R \in Seq(Entries)
      /\ Len(R) = IF Len(recent) + 1 <= Depth THEN Len(recent) + 1 ELSE Depth
      /\ R[Len(R)] = e
      /\ \A j \in 1..(Len(R) - 1) : R[Len(R) - j] = recent[Len(recent) + 1 - j]
  BY RememberFacts
<1>2. /\ Len(R) \in Nat /\ Len(R) >= n /\ Len(recent) \in Nat
      /\ \A i \in Len(R) - n + 1 .. Len(R) : R[i] = x
  BY <1>1, LenProperties DEF LastAll
<1> HIDE DEF R, x
<1>3. e = x
  BY <1>1, <1>2
<1>4. Len(recent) >= n - 1
  BY <1>1, <1>2, DepthFacts
<1>5. ASSUME NEW i \in Len(recent) - (n - 1) + 1 .. Len(recent)
      PROVE  recent[i] = x
  <2> DEFINE j == Len(recent) + 1 - i
  <2>1. /\ j \in 1..(Len(R) - 1) /\ Len(recent) + 1 - j = i
        /\ Len(R) - j \in Len(R) - n + 1 .. Len(R)
    BY <1>2, <1>4
  <2> QED
    BY <1>1, <1>2, <2>1
<1> QED
  BY <1>3, <1>4, <1>5 DEF LastAll, x

\* A run of none is always there, and nothing else is in an empty memory.
LEMMA NoRun ==
  ASSUME NEW seq, Len(seq) \in Nat, NEW m, NEW says
  PROVE  LastAll(seq, 0, m, says)
BY DEF LastAll

LEMMA EmptyMemory ==
  ASSUME NEW n \in Nat, NEW m, NEW says, LastAll(<<>>, n, m, says)
  PROVE  n = 0
BY DEF LastAll

------------------------------------------------------------------------------
(* What a request does to the counters *)

\* A recompute that finds an operating mode without a signal, and holds it: a counter that
\* is not cleared has counted what the reading said, and what it said of is counted.
Counts(says) ==
  /\ task'.effectiveMode = task.effectiveMode
  /\ task'.ready = 0 \/ (says = "READY" /\ task'.ready = task.ready + 1)
  /\ task'.subFloor = 0 \/ (says = "BELOW" /\ task'.subFloor = task.subFloor + 1)
  /\ task'.insufficient = 0 \/ (says = "LOST" /\ task'.insufficient = task.insufficient + 1)
  /\ says = "READY" /\ ~HasPending(task') =>
       ~HasPending(task) /\ task'.ready = task.ready + 1
  /\ says = "LOST" /\ task.effectiveMode # "SHADOW" =>
       task'.insufficient = task.insufficient + 1
  /\ HasPending(task) /\ ~HasPending(task') => says = "BELOW"
  /\ ~HasPending(task) /\ HasPending(task') =>
       says = "READY" /\ task.ready + 1 >= PromotionHysteresisRecomputes
  /\ says \in {"READY", "LEVEL"} => task'.lastImpliedRank >= BandRank(task.effectiveMode)
  /\ says = "BELOW" /\ (task.subFloor > 0
                       \/ task.lastImpliedRank >= BandRank(task.effectiveMode)) =>
       task'.subFloor = task.subFloor + 1

Cleared ==
  task'.ready = 0 /\ task'.subFloor = 0 /\ task'.insufficient = 0 /\ ~HasPending(task')

\* ... or lowers it, because a counter has reached its threshold.
Lowers(says) ==
  /\ Cleared
  /\ Sets(log'.last)
  /\ task'.effectiveMode # task.effectiveMode
  /\ log'.setter.trigger = "SCORE_CROSS" =>
       says = "BELOW" /\ task.subFloor + 1 >= ScoreDropConfirmRecomputes
  /\ log'.setter.trigger = "SIGNAL_LOSS" =>
       says = "LOST" /\ task.insufficient + 1 >= SignalLossGraceRecomputes

\* Whatever else happens clears every counter, ends an offer by setting a mode, and demotes
\* for neither of the two causes that have to be confirmed.
Breaks ==
  /\ Cleared
  /\ HasPending(task) => Sets(log'.last)
  /\ task'.effectiveMode # task.effectiveMode =>
       \/ log'.setter.direction # "DEMOTION"
       \/ log'.setter.trigger \notin {"SCORE_CROSS", "SIGNAL_LOSS"}

\* A move that no counter led to breaks the succession.
LEMMA MovesBreaks ==
  ASSUME NEW to, NEW direction, NEW trigger, NEW status, NEW authority, NEW baseline,
         Moves(to, direction, trigger, status, authority, baseline),
         direction # "DEMOTION" \/ trigger \notin {"SCORE_CROSS", "SIGNAL_LOSS"}
  PROVE  Breaks
BY DEF Moves, Breaks, Cleared, MkState, MakeTransition, HasPending, Sets

LEMMA HoldClearedBreaks ==
  ASSUME TypeOK, ~HasPending(task), NEW mode, mode = task.effectiveMode, NEW baseline,
         Write(Hold(MkState(mode, 0, 0, NoPending, 0, baseline)))
  PROVE  Breaks
BY HoldWrites DEF Breaks, Cleared, MkState, HasPending

\* So do all that humans do.
LEMMA HumansBreak ==
  ASSUME HumanShape
  PROVE  Breaks
<1>1. ASSUME NEW baseline, Accepts(baseline)
      PROVE  Breaks
  BY <1>1, MovesBreaks DEF Accepts
<1>2. ASSUME NEW to, NEW direction, NEW trigger, NEW baseline,
             ActorSets(to, direction, trigger, baseline)
      PROVE  Breaks
  BY <1>2, MovesBreaks DEF ActorSets
<1> QED
  BY <1>1, <1>2 DEF HumanShape

\* So does a recompute with a signal, or of a task that does not operate.
LEMMA InterruptionsBreak ==
  ASSUME TypeOK, NeverRetired, PendingIsLive, NEW r \in Readiness, NEW signals \in IngestSignals,
         Recompute(r, signals),
         signals.guardrail \/ signals.drift \/ task.effectiveMode \notin Operating
  PROVE  Breaks
<1>1. /\ Write(StepLifecycle(task, r, signals))
      /\ task.effectiveMode \in Operating \cup {"OBSERVING", "SUSPENDED"}
      /\ task.effectiveMode # "RETIRED"
      /\ task.lastImpliedRank \in Ranks \cup {NoRank}
      /\ r.impliedRank \in Ranks \cup {NoRank}
      /\ signals.manual = "NONE"
  BY DEF Recompute, TypeOK, LifecycleStates, NeverRetired, Modes, IngestSignals, Readiness
<1>6. task.effectiveMode \in {"OBSERVING", "SUSPENDED"} => ~HasPending(task)
  BY DEF PendingIsLive, HasPending, NextBandUp, NoBand, TypeOK, LifecycleStates,
         PendingPromotions
<1>2. CASE signals.guardrail
  <2>1. Write(GuardrailStep(task))
    BY <1>1, <1>2 DEF StepLifecycle
  <2>2. CASE task.effectiveMode = "SUSPENDED"
    BY <1>6, <2>1, <2>2, HoldClearedBreaks DEF GuardrailStep
  <2>3. CASE task.effectiveMode # "SUSPENDED"
    <3>1. Moves("SUSPENDED", "DEMOTION", "GUARDRAIL", "AUTO_APPLIED", "ENGINE",
                task.lastImpliedRank)
      BY <1>1, <2>1, <2>3, FallMoves DEF GuardrailStep, Modes, Triggers
    <3> QED
      BY <3>1, MovesBreaks
  <2> QED
    BY <2>2, <2>3
<1>3. CASE ~signals.guardrail /\ signals.drift /\ task.effectiveMode \in Operating
  <2>1. Write(DriftStep(task))
    BY <1>1, <1>3 DEF StepLifecycle
  <2>2. Moves(OneBandDown(task.effectiveMode), "DEMOTION", "DRIFT", "AUTO_APPLIED",
              "ENGINE", task.lastImpliedRank)
    BY <1>1, <1>3, <2>1, BandFacts, FallMoves DEF DriftStep, Triggers
  <2> QED
    BY <2>2, MovesBreaks
<1>4. CASE ~signals.guardrail /\ task.effectiveMode = "OBSERVING"
  <2>1. Write(ObservingStep(task, r))
    BY <1>1, <1>4 DEF StepLifecycle, Operating
  <2>2. CASE Scored(r) /\ r.resolved >= ObservingExitMinResolved
    <3>1. Write(Result(MkState("SHADOW", 0, 0, NoPending, 0, r.impliedRank), FALSE,
                       MakeTransition("OBSERVING", "SHADOW", "LATERAL", "SCORE_CROSS",
                                      "AUTO_APPLIED", "ENGINE")))
      BY <2>1, <2>2 DEF ObservingStep
    <3>2. LET row == MakeTransition("OBSERVING", "SHADOW", "LATERAL", "SCORE_CROSS",
                                    "AUTO_APPLIED", "ENGINE")
          IN /\ task' = MkState("SHADOW", 0, 0, NoPending, 0, r.impliedRank)
             /\ log' = [last |-> row, setter |-> row]
      BY <3>1, SetterWrites DEF Modes
    <3> QED
      BY <3>2 DEF Breaks, Cleared, MkState, MakeTransition, HasPending, Sets
  <2>3. CASE ~(Scored(r) /\ r.resolved >= ObservingExitMinResolved)
    BY <1>4, <1>6, <2>1, <2>3, HoldClearedBreaks DEF ObservingStep
  <2> QED
    BY <2>2, <2>3
<1>5. CASE ~signals.guardrail /\ task.effectiveMode = "SUSPENDED"
  <2>1. Write(SuspendedStep(task))
    BY <1>1, <1>5 DEF StepLifecycle, Operating
  <2> QED
    BY <1>5, <1>6, <2>1, HoldClearedBreaks DEF SuspendedStep
<1> QED
  BY <1>1, <1>2, <1>3, <1>4, <1>5

\* A fall of one band clears the counters and names its trigger.
LEMMA OneBandFalls ==
  ASSUME TypeOK, task.effectiveMode \in Operating, NEW trigger \in Triggers,
         NEW baseline \in Ranks \cup {NoRank},
         Write(Fall(task, OneBandDown(task.effectiveMode), trigger, baseline))
  PROVE  /\ Cleared
         /\ task'.effectiveMode # task.effectiveMode
         /\ log'.setter.trigger = trigger
         /\ Sets(log'.last)
<1>1. OneBandDown(task.effectiveMode) \in Modes \ {"RETIRED"}
  BY BandFacts
<1>2. Moves(OneBandDown(task.effectiveMode), "DEMOTION", trigger, "AUTO_APPLIED",
            "ENGINE", baseline)
  BY <1>1, FallMoves
<1>3. OneBandDown(task.effectiveMode) # task.effectiveMode
  BY DEF OneBandDown, Operating
<1> QED
  BY <1>2, <1>3 DEF Moves, Cleared, MkState, MakeTransition, HasPending, Sets

\* A recompute of an operating task without a signal counts what the reading says, or
\* lowers the mode.
LEMMA RecomputesCount ==
  ASSUME TypeOK, NeverRetired, PendingIsLive, StreaksAreExclusive,
         NEW r \in Readiness, NEW signals \in IngestSignals, Recompute(r, signals),
         ~signals.guardrail, ~signals.drift, task.effectiveMode \in Operating
  PROVE  LET says == Says(task.effectiveMode, r.impliedRank)
         IN Counts(says) \/ Lowers(says)
<1> DEFINE mode == task.effectiveMode
           says == Says(mode, r.impliedRank)
<1>1. /\ Write(StepLifecycle(task, r, signals))
      /\ mode \in Modes /\ mode # "RETIRED"
      /\ task.lastImpliedRank \in Ranks \cup {NoRank}
      /\ r.impliedRank \in Ranks \cup {NoRank}
      /\ task.ready \in Nat /\ task.subFloor \in Nat /\ task.insufficient \in Nat
      /\ task.pending \in PendingPromotions
      /\ signals.manual = "NONE"
  BY DEF Recompute, TypeOK, LifecycleStates, NeverRetired, IngestSignals, Readiness
<1>7. ASSUME Scored(r)
      PROVE  /\ says \in {"READY", "LEVEL"} => r.impliedRank >= BandRank(mode)
             /\ says = "BELOW" /\ ~Regressed(task, r) =>
                  ~(task.subFloor > 0 \/ task.lastImpliedRank >= BandRank(mode))
  BY <1>1, <1>7 DEF Scored, Says, Regressed, BandRank, Operating, Ranks, NoRank
<1>2. CASE ~Scored(r)
  <2>1. says = "LOST"
    BY <1>2 DEF Scored, Says
  <2>2. Write(SignalLossStep(task))
    BY <1>1, <1>2 DEF StepLifecycle, Operating
  <2>3. CASE mode # "SHADOW" /\ task.insufficient + 1 >= SignalLossGraceRecomputes
    <3>1. Write(Fall(task, OneBandDown(mode), "SIGNAL_LOSS", task.lastImpliedRank))
      BY <2>2, <2>3 DEF SignalLossStep
    <3> QED
      BY <1>1, <2>1, <2>3, <3>1, OneBandFalls DEF Lowers, Triggers
  <2>4. CASE ~(mode # "SHADOW" /\ task.insufficient + 1 >= SignalLossGraceRecomputes)
    <3>1. PICK n \in {0, task.insufficient + 1} :
            /\ Write(Hold(MkState(mode, 0, 0, task.pending, n, task.lastImpliedRank)))
            /\ mode # "SHADOW" => n = task.insufficient + 1
      BY <2>2, <2>4 DEF SignalLossStep
    <3>2. task' = MkState(mode, 0, 0, task.pending, n, task.lastImpliedRank)
      BY <3>1, HoldWrites
    <3> QED
      BY <2>1, <3>1, <3>2 DEF Counts, MkState, HasPending
  <2> QED
    BY <2>3, <2>4
<1>3. CASE Scored(r) /\ Regressed(task, r)
  <2>1. says = "BELOW"
    BY <1>3 DEF Scored, Says, Regressed
  <2>2. Write(RegressionStep(task, r))
    BY <1>1, <1>3 DEF StepLifecycle, ScoredStep, Operating
  <2>3. CASE task.subFloor + 1 >= ScoreDropConfirmRecomputes
    <3>1. Write(Fall(task, OneBandDown(mode), "SCORE_CROSS", r.impliedRank))
      BY <2>2, <2>3 DEF RegressionStep
    <3> QED
      BY <1>1, <2>1, <2>3, <3>1, OneBandFalls DEF Lowers, Triggers
  <2>4. CASE ~(task.subFloor + 1 >= ScoreDropConfirmRecomputes)
    <3>1. task' = MkState(mode, 0, task.subFloor + 1, NoPending, 0, task.lastImpliedRank)
      BY <2>2, <2>4, HoldWrites DEF RegressionStep
    <3> QED
      BY <2>1, <3>1 DEF Counts, MkState, HasPending
  <2> QED
    BY <2>3, <2>4
<1>4. CASE Scored(r) /\ ~Regressed(task, r) /\ HasPending(task)
  <2>1. says # "LOST"
    BY <1>4 DEF Scored, Says
  <2>2. Write(PendingStep(task, r))
    BY <1>1, <1>4 DEF StepLifecycle, ScoredStep, Operating
  <2>3. task' = MkState(mode, 0, 0, [toMode |-> task.pending.toMode,
                                     awaitingApproval |-> TRUE], 0, r.impliedRank)
    BY <2>2 DEF PendingStep, Write, Result
  <2>4. HasPending(task')
    BY <2>3 DEF HasPending, MkState, NoPending
  <2> QED
    BY <1>1, <1>4, <1>7, <2>1, <2>3, <2>4 DEF Counts, MkState
<1>5. CASE Scored(r) /\ ~Regressed(task, r) /\ ~HasPending(task) /\ PromotionReady(task, r)
  <2>1. says = "READY"
    BY <1>1, <1>5 DEF Scored, Says, PromotionReady, NextBandUp, BandRank, NoBand,
                      Operating, Ranks, NoRank
  <2>2. Write(ReadyStep(task, r))
    BY <1>1, <1>5 DEF StepLifecycle, ScoredStep, Operating
  <2>3. CASE task.ready + 1 >= PromotionHysteresisRecomputes
    <3>1. task' = MkState(mode, 0, 0, [toMode |-> NextBandUp(mode),
                                       awaitingApproval |-> FALSE], 0, r.impliedRank)
      BY <2>2, <2>3 DEF ReadyStep, Write, Result
    <3>2. HasPending(task')
      BY <1>5, <3>1 DEF HasPending, MkState, NoPending, PromotionReady
    <3> QED
      BY <1>5, <1>7, <2>1, <2>3, <3>1, <3>2 DEF Counts, MkState
  <2>4. CASE ~(task.ready + 1 >= PromotionHysteresisRecomputes)
    <3>1. task' = MkState(mode, task.ready + 1, 0, NoPending, 0, r.impliedRank)
      BY <2>2, <2>4, HoldWrites DEF ReadyStep
    <3> QED
      BY <1>5, <1>7, <2>1, <3>1 DEF Counts, MkState, HasPending
  <2> QED
    BY <2>3, <2>4
<1>6. CASE Scored(r) /\ ~Regressed(task, r) /\ ~HasPending(task) /\ ~PromotionReady(task, r)
  <2>1. says \notin {"LOST", "READY"}
    BY <1>1, <1>6 DEF Scored, Says, PromotionReady, NextBandUp, BandRank, NoBand,
                      Operating, Ranks, NoRank
  <2>2. Write(Hold(MkState(mode, 0, 0, NoPending, 0, r.impliedRank)))
    BY <1>1, <1>6 DEF StepLifecycle, ScoredStep, Operating
  <2>3. task' = MkState(mode, 0, 0, NoPending, 0, r.impliedRank)
    BY <2>2, HoldWrites
  <2> QED
    BY <1>1, <1>6, <1>7, <2>1, <2>3 DEF Counts, MkState, HasPending
<1> QED
  BY <1>2, <1>3, <1>4, <1>5, <1>6

------------------------------------------------------------------------------
(* The counters count *)

\* Every request breaks the succession of recomputes, or is one more of them.
LEMMA HistoryHasShape ==
  ASSUME IInv, HistoryNext
  PROVE  \/ Breaks /\ recent' = <<>>
         \/ \E says \in {"LOST", "BELOW", "READY", "LEVEL"} :
              /\ task.effectiveMode \in Operating
              /\ recent' = Remember([mode |-> task.effectiveMode, says |-> says])
              /\ Counts(says) \/ Lowers(says)
<1>1. ASSUME NEW r \in Readiness, NEW signals \in IngestSignals,
             Recompute(r, signals), recent' = Remembered(r, signals),
             signals.guardrail \/ signals.drift \/ task.effectiveMode \notin Operating
      PROVE  Breaks /\ recent' = <<>>
  BY <1>1, InterruptionsBreak DEF IInv, Remembered
<1>2. ASSUME NEW r \in Readiness, NEW signals \in IngestSignals,
             Recompute(r, signals), recent' = Remembered(r, signals),
             ~(signals.guardrail \/ signals.drift \/ task.effectiveMode \notin Operating)
      PROVE  \E says \in {"LOST", "BELOW", "READY", "LEVEL"} :
               /\ task.effectiveMode \in Operating
               /\ recent' = Remember([mode |-> task.effectiveMode, says |-> says])
               /\ Counts(says) \/ Lowers(says)
  <2> DEFINE says == Says(task.effectiveMode, r.impliedRank)
  <2>1. says \in {"LOST", "BELOW", "READY", "LEVEL"}
    BY DEF Says
  <2>2. recent' = Remember([mode |-> task.effectiveMode, says |-> says])
    BY <1>2 DEF Remembered
  <2>3. Counts(says) \/ Lowers(says)
    BY <1>2, RecomputesCount DEF IInv
  <2> HIDE DEF says
  <2> QED
    BY <1>2, <2>1, <2>2, <2>3
<1>3. ASSUME \/ \E r \in Readiness : Approve(r)
             \/ \E target \in Operating : FreeSetMode(target)
             \/ Suspend \/ Resume
      PROVE  Breaks
  BY <1>3, ApproveHasShape, FreeSetModeHasShape, SuspendHasShape, ResumeHasShape,
     HumansBreak DEF IInv
<1> QED
  BY <1>1, <1>2, <1>3 DEF HistoryNext

\* A break leaves nothing to count.
LEMMA BreaksKeepCounters ==
  ASSUME Breaks, recent' = <<>>
  PROVE  CountersInv'
<1>1. /\ Len(<<>>) \in Nat /\ <<>> \in Seq(Entries)
  BY EmptySeq
<1> QED
  BY <1>1, NoRun, EmptyMemory DEF CountersInv, Breaks, Cleared

\* After a fall no run is of the mode in force.
LEMMA LowersKeepsCounters ==
  ASSUME IInv, CountersInv, NEW says \in {"LOST", "BELOW", "READY", "LEVEL"},
         recent' = Remember([mode |-> task.effectiveMode, says |-> says]), Lowers(says)
  PROVE  CountersInv'
<1> DEFINE e == [mode |-> task.effectiveMode, says |-> says]
<1>1. e \in Entries /\ recent \in Seq(Entries)
  BY DEF Entries, CountersInv, IInv, TypeOK, LifecycleStates
<1>2. recent' \in Seq(Entries) /\ Len(recent') \in Nat
  BY <1>1, RememberFacts, LenProperties
<1>3. ASSUME NEW n \in Nat, NEW x, LastAll(recent', n, task'.effectiveMode, x)
      PROVE  n = 0
  BY <1>1, <1>3, RunComesFrom DEF Lowers
<1>4. task'.ready = 0 /\ task'.subFloor = 0 /\ task'.insufficient = 0
  BY DEF Lowers, Cleared
<1>5. /\ LastAll(recent', 0, task'.effectiveMode, "READY")
      /\ LastAll(recent', 0, task'.effectiveMode, "BELOW")
      /\ LastAll(recent', 0, task'.effectiveMode, "LOST")
  BY <1>2, NoRun
<1> QED
  BY <1>2, <1>3, <1>4, <1>5 DEF CountersInv

\* A recompute that holds the mode makes each run, and the counter of it, longer by one.
LEMMA CountsKeepsCounters ==
  ASSUME IInv, CountersInv, NEW says \in {"LOST", "BELOW", "READY", "LEVEL"},
         recent' = Remember([mode |-> task.effectiveMode, says |-> says]), Counts(says)
  PROVE  CountersInv'
<1> DEFINE mode == task.effectiveMode
           e == [mode |-> mode, says |-> says]
<1>1. e \in Entries /\ recent \in Seq(Entries) /\ mode \in Modes
  BY DEF Entries, CountersInv, IInv, TypeOK, LifecycleStates
<1>2. recent' \in Seq(Entries) /\ Len(recent') \in Nat
  BY <1>1, RememberFacts, LenProperties
<1>3. /\ task.ready \in Nat /\ task.ready < Depth
      /\ task.subFloor \in Nat /\ task.subFloor < Depth
      /\ task.insufficient \in Nat /\ task.insufficient < Depth
  BY DepthFacts, PolicyAssumption DEF IInv, StreaksAreExclusive, TypeOK, LifecycleStates
<1>4. task'.effectiveMode = mode
  BY DEF Counts
<1>11. ASSUME NEW n \in Nat, n < Depth, LastAll(recent, n, mode, says)
       PROVE  LastAll(recent', n + 1, mode, says)
  BY <1>1, <1>11, RunGoesOn
<1>5. LastAll(recent', task'.ready, mode, "READY")
  <2>1. task'.ready = 0 \/ (says = "READY" /\ task'.ready = task.ready + 1)
    BY DEF Counts
  <2>2. LastAll(recent, task.ready, mode, "READY")
    BY DEF CountersInv
  <2> HIDE DEF mode
  <2> QED
    BY <1>2, <1>3, <1>11, <2>1, <2>2, NoRun
<1>6. LastAll(recent', task'.subFloor, mode, "BELOW")
  <2>1. task'.subFloor = 0 \/ (says = "BELOW" /\ task'.subFloor = task.subFloor + 1)
    BY DEF Counts
  <2>2. LastAll(recent, task.subFloor, mode, "BELOW")
    BY DEF CountersInv
  <2> HIDE DEF mode
  <2> QED
    BY <1>2, <1>3, <1>11, <2>1, <2>2, NoRun
<1>7. LastAll(recent', task'.insufficient, mode, "LOST")
  <2>1. task'.insufficient = 0 \/ (says = "LOST" /\ task'.insufficient = task.insufficient + 1)
    BY DEF Counts
  <2>2. LastAll(recent, task.insufficient, mode, "LOST")
    BY DEF CountersInv
  <2> HIDE DEF mode
  <2> QED
    BY <1>2, <1>3, <1>11, <2>1, <2>2, NoRun
<1>8. ASSUME NEW n \in Nat \ {0}, NEW x, LastAll(recent', n, mode, x)
      PROVE  says = x /\ LastAll(recent, n - 1, mode, x) /\ n - 1 \in Nat
  BY <1>1, <1>8, RunComesFrom
<1>9. ASSUME ~HasPending(task'), NEW n \in Nat, LastAll(recent', n, mode, "READY")
      PROVE  n <= task'.ready
  <2>1. task'.ready \in Nat
    BY <1>3 DEF Counts
  <2>2. CASE n # 0
    <3>1. says = "READY" /\ LastAll(recent, n - 1, mode, "READY") /\ n - 1 \in Nat
      BY <1>8, <1>9, <2>2
    <3>2. ~HasPending(task) /\ task'.ready = task.ready + 1
      BY <1>9, <3>1 DEF Counts
    <3>3. n - 1 <= task.ready
      BY <3>1, <3>2 DEF CountersInv
    <3> QED
      BY <1>3, <3>2, <3>3
  <2> QED
    BY <2>1, <2>2
<1>10. ASSUME mode \in {"CO_PILOT", "SOLO"}, NEW n \in Nat,
              LastAll(recent', n, mode, "LOST")
       PROVE  n <= task'.insufficient
  <2>1. task'.insufficient \in Nat
    BY <1>3 DEF Counts
  <2>2. CASE n # 0
    <3>1. says = "LOST" /\ LastAll(recent, n - 1, mode, "LOST") /\ n - 1 \in Nat
      BY <1>8, <1>10, <2>2
    <3>2. task'.insufficient = task.insufficient + 1
      BY <1>10, <3>1 DEF Counts
    <3>3. n - 1 <= task.insufficient
      BY <1>10, <3>1 DEF CountersInv
    <3> QED
      BY <1>3, <3>2, <3>3
  <2> QED
    BY <2>1, <2>2
<1> HIDE DEF mode
<1> QED
  BY <1>2, <1>4, <1>5, <1>6, <1>7, <1>9, <1>10 DEF CountersInv

\* What the baseline and the sub-floor counter are after a supporting score.
LEMMA DeclineIsCounted ==
  ASSUME IInv, CountersInv, DeclineInv, HistoryNext
  PROVE  DeclineInv'
<1>1. CASE Breaks /\ recent' = <<>>
  BY <1>1 DEF DeclineInv
<1>2. ASSUME NEW says \in {"LOST", "BELOW", "READY", "LEVEL"},
             recent' = Remember([mode |-> task.effectiveMode, says |-> says]),
             Counts(says) \/ Lowers(says)
      PROVE  DeclineInv'
  <2> DEFINE mode == task.effectiveMode
             e == [mode |-> mode, says |-> says]
  <2>1. e \in Entries /\ recent \in Seq(Entries)
    BY DEF Entries, CountersInv, IInv, TypeOK, LifecycleStates
  <2>2. /\ recent' \in Seq(Entries) /\ Len(recent') \in Nat /\ Len(recent) \in Nat
        /\ Len(recent') = IF Len(recent) + 1 <= Depth THEN Len(recent) + 1 ELSE Depth
        /\ recent'[Len(recent')] = e
        /\ \A j \in 1..(Len(recent') - 1) :
             recent'[Len(recent') - j] = recent[Len(recent) + 1 - j]
    BY <1>2, <2>1, RememberFacts, LenProperties
  <2>3. ASSUME NEW n \in Nat \ {0}, NEW m, LastAll(recent', n, m, "BELOW")
        PROVE  e = [mode |-> m, says |-> "BELOW"] /\ LastAll(recent, n - 1, m, "BELOW")
    BY <1>2, <2>1, <2>3, RunComesFrom
  <2>4. CASE Lowers(says)
    <3>1. task'.effectiveMode # mode
      BY <2>4 DEF Lowers
    <3>2. ~Supports(recent'[Len(recent')], task'.effectiveMode)
      BY <2>2, <3>1 DEF Supports
    <3>3. ASSUME NEW n \in Nat \ {0}, LastAll(recent', n, task'.effectiveMode, "BELOW")
          PROVE  FALSE
      BY <2>3, <3>1, <3>3
    <3> QED
      BY <3>2, <3>3 DEF DeclineInv
  <2>5. CASE Counts(says)
    <3>1. task'.effectiveMode = mode /\ task.subFloor \in Nat
      BY <2>5 DEF Counts, IInv, TypeOK, LifecycleStates
    <3>2. ASSUME Supports(recent'[Len(recent')], mode)
          PROVE  task'.lastImpliedRank >= BandRank(mode)
      BY <2>2, <2>5, <3>2 DEF Supports, Counts
    <3>3. ASSUME NEW n \in Nat \ {0}, LastAll(recent', n, mode, "BELOW"),
                 Len(recent') > n, Supports(recent'[Len(recent') - n], mode)
          PROVE  n <= task'.subFloor
      <4>1. says = "BELOW" /\ LastAll(recent, n - 1, mode, "BELOW")
        BY <2>3, <3>3
      <4>2. /\ recent'[Len(recent') - n] = recent[Len(recent) - (n - 1)]
            /\ Len(recent) > n - 1
        <5>1. n \in 1..(Len(recent') - 1) /\ Len(recent) + 1 - n = Len(recent) - (n - 1)
          BY <2>2, <3>3
        <5> QED
          BY <2>2, <3>3, <5>1, DepthFacts
      <4>3. Supports(recent[Len(recent) - (n - 1)], mode)
        BY <3>3, <4>2
      <4>4. CASE n = 1
        <5>1. Len(recent) > 0 /\ Supports(recent[Len(recent)], mode)
          BY <2>2, <4>2, <4>3, <4>4
        <5> QED
          BY <2>5, <3>1, <4>1, <4>4, <5>1 DEF DeclineInv, Counts
      <4>5. CASE n # 1
        <5>1. n - 1 \in Nat \ {0}
          BY <4>5
        <5>2. n - 1 <= task.subFloor
          BY <4>1, <4>2, <4>3, <5>1 DEF DeclineInv
        <5> QED
          BY <2>5, <3>1, <4>1, <5>1, <5>2 DEF Counts
      <4> QED
        BY <4>4, <4>5
    <3> HIDE DEF mode, e
    <3> QED
      BY <3>1, <3>2, <3>3 DEF DeclineInv
  <2> QED
    BY <1>2, <2>4, <2>5
<1> QED
  BY <1>1, <1>2, HistoryHasShape

LEMMA HistoryInvariance == HistorySpec => [](IInv /\ CountersInv /\ DeclineInv)
<1>1. HistoryInit => IInv /\ CountersInv /\ DeclineInv
  <2> SUFFICES ASSUME HistoryInit
               PROVE  IInv /\ CountersInv /\ DeclineInv
    OBVIOUS
  <2>1. IInv
    BY InitIInv DEF HistoryInit
  <2>2. /\ task.ready = 0 /\ task.subFloor = 0 /\ task.insufficient = 0
        /\ recent = <<>> /\ Len(<<>>) \in Nat /\ <<>> \in Seq(Entries)
    BY EmptySeq DEF HistoryInit, Init, InitialLifecycleState, MkState
  <2> QED
    BY <2>1, <2>2, NoRun, EmptyMemory DEF CountersInv, DeclineInv
<1>2. IInv /\ CountersInv /\ DeclineInv /\ [HistoryNext]_historyVars =>
        (IInv /\ CountersInv /\ DeclineInv)'
  <2> SUFFICES ASSUME IInv, CountersInv, DeclineInv, [HistoryNext]_historyVars
               PROVE  (IInv /\ CountersInv /\ DeclineInv)'
    OBVIOUS
  <2>1. [Next]_vars
    BY DEF HistoryNext, Next, historyVars, vars
  <2>2. IInv'
    BY <2>1, NextIInv
  <2>3. ASSUME HistoryNext
        PROVE  CountersInv'
    <3>1. CASE Breaks /\ recent' = <<>>
      BY <3>1, BreaksKeepCounters
    <3>2. ASSUME NEW says \in {"LOST", "BELOW", "READY", "LEVEL"},
                 recent' = Remember([mode |-> task.effectiveMode, says |-> says]),
                 Counts(says) \/ Lowers(says)
          PROVE  CountersInv'
      BY <3>2, LowersKeepsCounters, CountsKeepsCounters
    <3> QED
      BY <2>3, <3>1, <3>2, HistoryHasShape
  <2>4. ASSUME UNCHANGED historyVars
        PROVE  CountersInv' /\ DeclineInv'
    BY <2>4 DEF historyVars, CountersInv, DeclineInv, Supports, HasPending
  <2> QED
    BY <2>2, <2>3, <2>4, DeclineIsCounted
<1> QED
  BY <1>1, <1>2, PTL DEF HistorySpec

------------------------------------------------------------------------------
(* The theorems *)

\* What the policy says of consecutive recomputes is done as soon as they have been made,
\* for any thresholds: an offer that was sustained is there, a loss was acted on, and so was
\* a decline from a score that supported the mode.
THEOREM SuccessionsAreActedOn == HistorySpec => []HistoryIsActedOn
<1>1. IInv /\ CountersInv /\ DeclineInv => HistoryIsActedOn
  <2> SUFFICES ASSUME IInv, CountersInv, DeclineInv
               PROVE  HistoryIsActedOn
    OBVIOUS
  <2>1. /\ task.ready \in Nat /\ task.ready < PromotionHysteresisRecomputes
        /\ task.insufficient \in Nat /\ task.insufficient < SignalLossGraceRecomputes
        /\ task.subFloor \in Nat /\ task.subFloor < ScoreDropConfirmRecomputes
    BY DEF IInv, StreaksAreExclusive, TypeOK, LifecycleStates
  <2>2. SustainedIsOffered
    BY <2>1, PolicyAssumption DEF SustainedIsOffered, CountersInv
  <2>3. LossIsActedOn
    BY <2>1, PolicyAssumption DEF LossIsActedOn, CountersInv
  <2>4. DeclineSeenIsActedOn
    BY <2>1, PolicyAssumption DEF DeclineSeenIsActedOn, DeclineInv, Supports
  <2> QED
    BY <2>2, <2>3, <2>4 DEF HistoryIsActedOn
<1> QED
  BY <1>1, HistoryInvariance, PTL

\* A run that has one recompute fewer than its threshold reaches it with the next.
LEMMA RunReaches ==
  ASSUME IInv, CountersInv, NEW says \in {"LOST", "BELOW", "READY", "LEVEL"},
         recent' = Remember([mode |-> task.effectiveMode, says |-> says]),
         NEW n \in Nat, NEW threshold \in Nat \ {0}, n < threshold, threshold <= Depth,
         n + 1 >= threshold, LastAll(recent, n, task.effectiveMode, says)
  PROVE  LastAll(recent', threshold, task.effectiveMode, says)
<1>1. task.effectiveMode \in Modes /\ recent \in Seq(Entries)
  BY DEF IInv, TypeOK, LifecycleStates, CountersInv
<1>2. n < Depth /\ n + 1 = threshold
  BY DepthFacts
<1>3. LastAll(recent', n + 1, task.effectiveMode, says)
  BY <1>1, <1>2, RunGoesOn
<1> QED
  BY <1>2, <1>3

\* No promotion is offered that the last recomputes did not imply, every one of them; and
\* none ends without a row of the log but by a recompute below the mode's floor.
THEOREM OffersAreEarned == HistorySpec => OffersAreSustained
<1>1. ASSUME IInv, CountersInv, HistoryNext, ~HasPending(task), HasPending(task')
      PROVE  LastAll(recent', PromotionHysteresisRecomputes, task.effectiveMode, "READY")
  <2>1. PICK says \in {"LOST", "BELOW", "READY", "LEVEL"} :
          /\ recent' = Remember([mode |-> task.effectiveMode, says |-> says])
          /\ Counts(says)
    BY <1>1, HistoryHasShape DEF Breaks, Lowers, Cleared
  <2>2. says = "READY" /\ task.ready + 1 >= PromotionHysteresisRecomputes
    BY <1>1, <2>1 DEF Counts
  <2>3. /\ task.ready \in Nat /\ task.ready < PromotionHysteresisRecomputes
        /\ LastAll(recent, task.ready, task.effectiveMode, "READY")
    BY <1>1 DEF IInv, StreaksAreExclusive, TypeOK, LifecycleStates, CountersInv
  <2> QED
    BY <1>1, <2>1, <2>2, <2>3, DepthFacts, PolicyAssumption, RunReaches
<1>2. ASSUME IInv, CountersInv, HistoryNext, HasPending(task), ~HasPending(task'),
             log'.last = log.last
      PROVE  LastAll(recent', 1, task.effectiveMode, "BELOW")
  <2>1. ~Sets(log'.last)
    BY <1>2 DEF IInv, PendingIsLive, Earned, MakeTransition, Sets
  <2>2. PICK says \in {"LOST", "BELOW", "READY", "LEVEL"} :
          /\ task.effectiveMode \in Operating
          /\ recent' = Remember([mode |-> task.effectiveMode, says |-> says])
          /\ Counts(says)
    BY <1>2, <2>1, HistoryHasShape DEF Breaks, Lowers
  <2>3. says = "BELOW"
    BY <1>2, <2>2 DEF Counts
  <2>4. recent \in Seq(Entries) /\ task.effectiveMode \in Modes
    BY <1>2 DEF CountersInv, IInv, TypeOK, LifecycleStates
  <2>5. LastAll(recent, 0, task.effectiveMode, "BELOW") /\ 0 < Depth
    BY <2>4, NoRun, LenProperties, DepthFacts
  <2>6. LastAll(recent', 0 + 1, task.effectiveMode, "BELOW")
    BY <2>2, <2>3, <2>4, <2>5, RunGoesOn
  <2> QED
    BY <2>6
<1>3. IInv /\ CountersInv /\ [HistoryNext]_historyVars =>
        [/\ ~HasPending(task) /\ HasPending(task') =>
              LastAll(recent', PromotionHysteresisRecomputes, task.effectiveMode, "READY")
         /\ HasPending(task) /\ ~HasPending(task') =>
              \/ log'.last # log.last
              \/ LastAll(recent', 1, task.effectiveMode, "BELOW")
        ]_historyVars
  BY <1>1, <1>2
<1> QED
  BY <1>3, HistoryInvariance, PTL DEF HistorySpec, OffersAreSustained

\* No mode is lowered for the score or for a lost signal that the last recomputes did not
\* confirm, as many as its grace asks for.
THEOREM FallsAreConfirmed == HistorySpec => DemotionsAreConfirmed
<1>1. IInv /\ CountersInv /\ [HistoryNext]_historyVars =>
        [task'.effectiveMode # task.effectiveMode /\ log'.setter.direction = "DEMOTION" =>
           /\ log'.setter.trigger = "SCORE_CROSS" =>
                LastAll(recent', ScoreDropConfirmRecomputes, task.effectiveMode, "BELOW")
           /\ log'.setter.trigger = "SIGNAL_LOSS" =>
                LastAll(recent', SignalLossGraceRecomputes, task.effectiveMode, "LOST")
        ]_historyVars
  <2> SUFFICES ASSUME IInv, CountersInv, HistoryNext,
                      task'.effectiveMode # task.effectiveMode,
                      log'.setter.direction = "DEMOTION",
                      log'.setter.trigger \in {"SCORE_CROSS", "SIGNAL_LOSS"}
               PROVE
           /\ log'.setter.trigger = "SCORE_CROSS" =>
                LastAll(recent', ScoreDropConfirmRecomputes, task.effectiveMode, "BELOW")
           /\ log'.setter.trigger = "SIGNAL_LOSS" =>
                LastAll(recent', SignalLossGraceRecomputes, task.effectiveMode, "LOST")
    OBVIOUS
  <2>1. PICK says \in {"LOST", "BELOW", "READY", "LEVEL"} :
          /\ recent' = Remember([mode |-> task.effectiveMode, says |-> says])
          /\ Lowers(says)
    BY HistoryHasShape DEF Breaks, Counts
  <2>2. /\ task.subFloor \in Nat /\ task.subFloor < ScoreDropConfirmRecomputes
        /\ LastAll(recent, task.subFloor, task.effectiveMode, "BELOW")
        /\ task.insufficient \in Nat /\ task.insufficient < SignalLossGraceRecomputes
        /\ LastAll(recent, task.insufficient, task.effectiveMode, "LOST")
    BY DEF IInv, StreaksAreExclusive, TypeOK, LifecycleStates, CountersInv
  <2>3. CASE log'.setter.trigger = "SCORE_CROSS"
    BY <2>1, <2>2, <2>3, DepthFacts, PolicyAssumption, RunReaches DEF Lowers
  <2>4. CASE log'.setter.trigger = "SIGNAL_LOSS"
    BY <2>1, <2>2, <2>4, DepthFacts, PolicyAssumption, RunReaches DEF Lowers
  <2> QED
    BY <2>3, <2>4
<1> QED
  BY <1>1, HistoryInvariance, PTL DEF HistorySpec, DemotionsAreConfirmed
==============================================================================
