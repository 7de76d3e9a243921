------------------------------ MODULE Lifecycle ------------------------------
(***************************************************************************)
(* The governed autonomy state machine of one agent x task, as the pure    *)
(* operators of packages/core/src/lifecycle.ts: what a recompute, an       *)
(* approval, a free-set and the two kill-switch actions make of a          *)
(* lifecycle state, and which transitions they emit.                       *)
(*                                                                         *)
(* Abstracted: identifiers, reasons and timestamps of a transition, and    *)
(* the readiness score itself, of which the engine reads only the status,  *)
(* the implied band and the resolved count.                                *)
(***************************************************************************)
EXTENDS Integers

CONSTANTS
  ObservingExitMinResolved,      \* resolved verdicts needed to leave OBSERVING
  PromotionHysteresisRecomputes, \* consecutive ready recomputes before a proposal
  ScoreDropConfirmRecomputes,    \* consecutive sub-floor recomputes before a demotion
  SignalLossGraceRecomputes      \* consecutive unscored recomputes before a demotion

\* The policy knobs are recompute counts; a count of zero would act on nothing.
ASSUME PolicyAssumption ==
  /\ ObservingExitMinResolved \in Nat \ {0}
  /\ PromotionHysteresisRecomputes \in Nat \ {0}
  /\ ScoreDropConfirmRecomputes \in Nat \ {0}
  /\ SignalLossGraceRecomputes \in Nat \ {0}

------------------------------------------------------------------------------
(* Modes and bands *)

Operating == {"SHADOW", "CO_PILOT", "SOLO"}
Modes == Operating \cup {"OBSERVING", "SUSPENDED", "RETIRED"}

BandRank(mode) ==
  CASE mode = "RETIRED"   -> -2
    [] mode = "SUSPENDED" -> -1
    [] mode = "OBSERVING" -> 0
    [] mode = "SHADOW"    -> 1
    [] mode = "CO_PILOT"  -> 2
    [] mode = "SOLO"      -> 3

NoBand == "NONE"  \* stands for undefined

NextBandUp(mode) ==
  CASE mode = "SHADOW"   -> "CO_PILOT"
    [] mode = "CO_PILOT" -> "SOLO"
    [] OTHER             -> NoBand

\* Mutant: the band below SHADOW is OBSERVING.
OneBandDownToObserving(mode) ==
  CASE mode = "SOLO"     -> "CO_PILOT"
    [] mode = "CO_PILOT" -> "SHADOW"
    [] OTHER             -> "OBSERVING"

\* Mutant: the case of CO_PILOT is forgotten.
OneBandDownPartial(mode) ==
  CASE mode = "SOLO"     -> "CO_PILOT"
    [] OTHER             -> NoBand

OneBandDown(mode) ==
  CASE mode = "SOLO"     -> "CO_PILOT"
    [] mode = "CO_PILOT" -> "SHADOW"
    [] OTHER             -> "SUSPENDED"

------------------------------------------------------------------------------
(* What the engine keeps and what it reads *)

NoPending == [toMode |-> NoBand, awaitingApproval |-> FALSE]
PendingPromotions ==
  [toMode : {"CO_PILOT", "SOLO"}, awaitingApproval : BOOLEAN] \cup {NoPending}

NoRank == 0  \* lastImpliedRank before the first scored recompute
Ranks == 1..3

LifecycleStates ==
  [effectiveMode : Modes, ready : Nat, subFloor : Nat, insufficient : Nat,
   pending : PendingPromotions, lastImpliedRank : Ranks \cup {NoRank}]

MkState(mode, ready, subFloor, pending, insufficient, baseline) ==
  [effectiveMode |-> mode, ready |-> ready, subFloor |-> subFloor,
   insufficient |-> insufficient, pending |-> pending,
   lastImpliedRank |-> baseline]

InitialLifecycleState == MkState("OBSERVING", 0, 0, NoPending, 0, NoRank)

\* A readiness result: impliedRank is NoRank exactly when it is INSUFFICIENT.
Readings == [impliedRank : Ranks \cup {NoRank}, resolved : Nat]
Scored(r) == r.impliedRank # NoRank

Signals ==
  [guardrail : BOOLEAN, drift : BOOLEAN, manual : {"NONE", "APPROVE", "REJECT"}]

Directions == {"PROMOTION", "DEMOTION", "LATERAL"}
Triggers ==
  {"SCORE_CROSS", "DRIFT", "GUARDRAIL", "SIGNAL_LOSS", "MANUAL_OVERRIDE",
   "SUSPEND", "RESUME"}
Statuses ==
  {"PROPOSED", "PENDING_APPROVAL", "APPLIED", "AUTO_APPLIED", "REJECTED",
   "SUPERSEDED"}

\* Who answers for a transition: nobody but the engine, the approver of an earned
\* promotion, or the human acting directly.
Authorities == {"ENGINE", "APPROVER", "ACTOR"}
Transitions ==
  [fromMode : Modes, toMode : Modes, direction : Directions,
   trigger : Triggers, status : Statuses, authority : Authorities]

MakeTransition(from, to, direction, trigger, status, authority) ==
  [fromMode |-> from, toMode |-> to, direction |-> direction,
   trigger |-> trigger, status |-> status, authority |-> authority]

NoTransition == MakeTransition(NoBand, NoBand, NoBand, NoBand, NoBand, NoBand)

------------------------------------------------------------------------------
(* A step's result: the next state and what it emits, which is at most one  *)
(* transition of its own, after a SUPERSEDED record for the promotion that  *)
(* was in flight.                                                           *)

Result(state, superseded, transition) ==
  [state |-> state, superseded |-> superseded, transition |-> transition]

Hold(state) == Result(state, FALSE, NoTransition)

HasPending(s) == s.pending # NoPending

\* The engine takes authority away: a fall to `to`, counters and pending cleared.
Fall(s, to, trigger, baseline) ==
  Result(MkState(to, 0, 0, NoPending, 0, baseline),
         HasPending(s),
         MakeTransition(s.effectiveMode, to, "DEMOTION", trigger,
                        "AUTO_APPLIED", "ENGINE"))

\* A promotion record of the earned path; its target is the pending one.
Earned(s, status, authority) ==
  MakeTransition(s.effectiveMode, s.pending.toMode, "PROMOTION", "SCORE_CROSS",
                 status, authority)

------------------------------------------------------------------------------
(* stepLifecycle, one operator per numbered step of the source *)

\* 1) A guardrail trip parks the task at once; a parked task stays parked.
GuardrailStep(s) ==
  IF s.effectiveMode = "SUSPENDED"
  THEN Hold(MkState("SUSPENDED", 0, 0, NoPending, 0, s.lastImpliedRank))
  ELSE Fall(s, "SUSPENDED", "GUARDRAIL", s.lastImpliedRank)

\* Mutant: the pending promotion outlives the demotion.
DriftStepKeepsOffer(s) ==
  LET to == OneBandDown(s.effectiveMode)
  IN Result(MkState(to, 0, 0, s.pending, 0, s.lastImpliedRank), FALSE,
            MakeTransition(s.effectiveMode, to, "DEMOTION", "DRIFT",
                           "AUTO_APPLIED", "ENGINE"))

\* 2) Drift takes an operating task one band down, with no grace.
DriftStep(s) ==
  Fall(s, OneBandDown(s.effectiveMode), "DRIFT", s.lastImpliedRank)

\* 3) A human resolves the pending promotion.
ManualStep(s, kind) ==
  LET approved == kind = "APPROVE"
      mode == IF approved THEN s.pending.toMode ELSE s.effectiveMode
  IN Result(MkState(mode, 0, 0, NoPending, 0, s.lastImpliedRank), FALSE,
            Earned(s, IF approved THEN "APPLIED" ELSE "REJECTED", "APPROVER"))

\* 4) OBSERVING ends when the window is scored and holds enough resolved verdicts.
ObservingStep(s, r) ==
  IF Scored(r) /\ r.resolved >= ObservingExitMinResolved
  THEN Result(MkState("SHADOW", 0, 0, NoPending, 0, r.impliedRank), FALSE,
              MakeTransition("OBSERVING", "SHADOW", "LATERAL", "SCORE_CROSS",
                             "AUTO_APPLIED", "ENGINE"))
  ELSE Hold(MkState("OBSERVING", 0, 0, NoPending, 0, s.lastImpliedRank))

\* Mutant: recovery on the next recompute.
SuspendedStepRecovers(s) ==
  Hold(MkState("SHADOW", 0, 0, NoPending, 0, s.lastImpliedRank))

\* 5) SUSPENDED holds: the engine never resumes a task.
SuspendedStep(s) ==
  Hold(MkState("SUSPENDED", 0, 0, NoPending, 0, s.lastImpliedRank))

\* Mutant: neither a grace nor an exception for SHADOW.
SignalLossStepNoGrace(s) ==
  Fall(s, OneBandDown(s.effectiveMode), "SIGNAL_LOSS", s.lastImpliedRank)

\* 5b) An unscored recompute of a governed task counts towards a signal-loss
\* demotion; within the grace a pending promotion is kept. SHADOW just holds.
SignalLossStep(s) ==
  LET lost == s.insufficient + 1
      held(n) == MkState(s.effectiveMode, 0, 0, s.pending, n, s.lastImpliedRank)
  IN IF s.effectiveMode = "SHADOW" THEN Hold(held(0))
     ELSE IF lost >= SignalLossGraceRecomputes
          THEN Fall(s, OneBandDown(s.effectiveMode), "SIGNAL_LOSS",
                    s.lastImpliedRank)
          ELSE Hold(held(lost))

\* The regression check: below the mode's floor, and either a fresh decline
\* against the baseline or the continuation of one.
Regressed(s, r) ==
  /\ r.impliedRank < BandRank(s.effectiveMode)
  /\ \/ s.lastImpliedRank # NoRank /\ r.impliedRank < s.lastImpliedRank
     \/ s.subFloor > 0

\* Mutant: the first sub-floor recompute demotes.
RegressionStepHasty(s, r) ==
  Fall(s, OneBandDown(s.effectiveMode), "SCORE_CROSS", r.impliedRank)

\* Mutant: a confirmed regression falls to the band the score implies.
RegressionStepToEarned(s, r) ==
  LET below == s.subFloor + 1
      earned == CHOOSE m \in Operating : BandRank(m) = r.impliedRank
  IN IF below >= ScoreDropConfirmRecomputes
     THEN Fall(s, earned, "SCORE_CROSS", r.impliedRank)
     ELSE Hold(MkState(s.effectiveMode, 0, below, NoPending, 0,
                       s.lastImpliedRank))

\* 6) A confirmed regression demotes; an unconfirmed one drops the promotion
\* progress, the pending promotion included, and freezes the baseline.
RegressionStep(s, r) ==
  LET below == s.subFloor + 1
  IN IF below >= ScoreDropConfirmRecomputes
     THEN Fall(s, OneBandDown(s.effectiveMode), "SCORE_CROSS", r.impliedRank)
     ELSE Hold(MkState(s.effectiveMode, 0, below, NoPending, 0,
                       s.lastImpliedRank))

\* 7) A pending promotion is announced once, then waits for a human.
PendingStep(s, r) ==
  LET waiting == [toMode |-> s.pending.toMode, awaitingApproval |-> TRUE]
  IN Result(MkState(s.effectiveMode, 0, 0, waiting, 0, r.impliedRank), FALSE,
            IF s.pending.awaitingApproval THEN NoTransition
            ELSE Earned(s, "PENDING_APPROVAL", "ENGINE"))

\* Mutant: a score at the current band will do, in the top band too.
PromotionReadyLoose(s, r) == r.impliedRank >= BandRank(s.effectiveMode)

\* Mutant: the score must exceed the next band.
PromotionReadyStrict(s, r) ==
  /\ NextBandUp(s.effectiveMode) # NoBand
  /\ r.impliedRank > BandRank(NextBandUp(s.effectiveMode))

\* Does the score imply the next band up?
PromotionReady(s, r) ==
  /\ NextBandUp(s.effectiveMode) # NoBand
  /\ r.impliedRank >= BandRank(NextBandUp(s.effectiveMode))

\* Mutant: the hysteresis is ignored and the engine applies the promotion itself.
ReadyStepAutoApplied(s, r) ==
  LET up == NextBandUp(s.effectiveMode)
  IN Result(MkState(up, 0, 0, NoPending, 0, r.impliedRank), FALSE,
            MakeTransition(s.effectiveMode, up, "PROMOTION", "SCORE_CROSS",
                           "AUTO_APPLIED", "ENGINE"))

\* 7) Readiness sustained long enough is proposed; the mode does not move.
ReadyStep(s, r) ==
  LET sustained == s.ready + 1
      offer == [toMode |-> NextBandUp(s.effectiveMode), awaitingApproval |-> FALSE]
      proposed == MkState(s.effectiveMode, 0, 0, offer, 0, r.impliedRank)
  IN IF sustained >= PromotionHysteresisRecomputes
     THEN Result(proposed, FALSE, Earned(proposed, "PROPOSED", "ENGINE"))
     ELSE Hold(MkState(s.effectiveMode, sustained, 0, NoPending, 0,
                       r.impliedRank))

\* Steps 6 and 7: an operating mode with a scored readiness.
ScoredStep(s, r) ==
  IF Regressed(s, r) THEN RegressionStep(s, r)
  ELSE IF HasPending(s) THEN PendingStep(s, r)
  ELSE IF PromotionReady(s, r) THEN ReadyStep(s, r)
  ELSE Hold(MkState(s.effectiveMode, 0, 0, NoPending, 0, r.impliedRank))

\* The precedence of the steps: the first that applies decides.
StepLifecycle(s, r, signals) ==
  IF s.effectiveMode = "RETIRED" THEN Hold(s)
  ELSE IF signals.guardrail THEN GuardrailStep(s)
  ELSE IF signals.drift /\ s.effectiveMode \in Operating THEN DriftStep(s)
  ELSE IF signals.manual # "NONE" /\ HasPending(s) THEN ManualStep(s, signals.manual)
  ELSE IF s.effectiveMode = "OBSERVING" THEN ObservingStep(s, r)
  ELSE IF s.effectiveMode = "SUSPENDED" THEN SuspendedStep(s)
  ELSE IF ~Scored(r) THEN SignalLossStep(s)
  ELSE ScoredStep(s, r)

------------------------------------------------------------------------------
(* The human actions that bypass the score *)

DirectionOf(from, to) ==
  IF BandRank(to) > BandRank(from) THEN "PROMOTION"
  ELSE IF BandRank(to) < BandRank(from) THEN "DEMOTION"
  ELSE "LATERAL"

\* A human moves the task to `to` on their own authority.
ActorMoves(s, to, direction, trigger, baseline) ==
  Result(MkState(to, 0, 0, NoPending, 0, baseline),
         HasPending(s),
         MakeTransition(s.effectiveMode, to, direction, trigger, "APPLIED",
                        "ACTOR"))

CanOverrideFrom(mode) == mode = "OBSERVING" \/ mode \in Operating

\* Free-set: any operating band, at once; the regression baseline is kept.
ManualOverride(s, target) ==
  ActorMoves(s, target, DirectionOf(s.effectiveMode, target), "MANUAL_OVERRIDE",
             s.lastImpliedRank)

\* Mutant: only a working task can be suspended.
CanSuspendFromWork(mode) == mode \in Operating

CanSuspendFrom(mode) == mode \notin {"SUSPENDED", "RETIRED"}

\* Kill-switch: park the task, keeping the baseline.
SuspendAgent(s) ==
  ActorMoves(s, "SUSPENDED", "DEMOTION", "SUSPEND", s.lastImpliedRank)

CanResumeFrom(mode) == mode = "SUSPENDED"

\* Mutant: recovery straight back to work.
ResumeAgentToShadow(s) ==
  ActorMoves(s, "SHADOW", "PROMOTION", "RESUME", s.lastImpliedRank)

\* Recovery: always to a clean OBSERVING slate, the baseline cleared.
ResumeAgent(s) ==
  Result(InitialLifecycleState, FALSE,
         MakeTransition("SUSPENDED", "OBSERVING", "PROMOTION", "RESUME",
                        "APPLIED", "ACTOR"))
==============================================================================
