-------------------------------- MODULE Fleet --------------------------------
(***************************************************************************)
(* The fleet read-model: one governance status per agent x task, derived   *)
(* from the task row, the latest score row and the transition log           *)
(* (apps/api/src/fleet.ts, packages/core/src/governance.ts), and what a    *)
(* reader of the dashboard may conclude from it. It writes nothing: its    *)
(* behaviours are those of TaskLifecycle.                                  *)
(***************************************************************************)
EXTENDS TaskLifecycle

\* The latest score row is a scored one.
HasScore == score \in Ranks

\* Mutant: only an announced offer counts.
LivePromotionAnnounced == log.last.status = "PENDING_APPROVAL"

\* The last row of the log offers a promotion.
LivePromotion == log.last.status \in {"PROPOSED", "PENDING_APPROVAL"}

\* The last row of the log is a demotion for a lost signal or for drift.
JustDegraded ==
  /\ log.last.status = "AUTO_APPLIED"
  /\ log.last.direction = "DEMOTION"
  /\ log.last.trigger \in {"SIGNAL_LOSS", "DRIFT"}

\* The mode in force was set by a free-set.
ViaOverride ==
  /\ log.setter.trigger = "MANUAL_OVERRIDE"
  /\ log.setter.toMode = task.effectiveMode

\* The score implies more than the mode in force.
EarnedAbove == score > BandRank(task.effectiveMode)

\* deriveGovernanceStatus: the first that applies.
Status ==
  IF task.effectiveMode = "SUSPENDED" THEN "SUSPENDED"
  ELSE IF task.effectiveMode = "OBSERVING" /\ ~JustDegraded THEN "OBSERVING"
  ELSE IF ~HasScore \/ JustDegraded THEN "DEGRADED"
  ELSE IF ViaOverride /\ EarnedAbove THEN "HELD"
  ELSE IF EarnedAbove /\ LivePromotion THEN "PROMOTABLE"
  ELSE "AT_LEVEL"

ActionAvailable == Status = "PROMOTABLE"

\* headroomTo, as a rank: how far the dashboard says the task may rise.
Headroom == IF Status \in {"HELD", "PROMOTABLE"} THEN score ELSE NoRank

\* Why a parked task is parked, as the dashboard's chip says it.
SuspendTrigger == log.setter.trigger

------------------------------------------------------------------------------
(* Properties *)

\* An offer that the score still supports is shown to the approver, unless the task is
\* held below its earned level by an override: no live offer hides behind another
\* status, and the offer shown is the one approving would apply.
OffersAreShown ==
  HasPending(task) /\ HasScore /\ EarnedAbove /\ ~ViaOverride =>
    Status = "PROMOTABLE" /\ log.last.toMode = task.pending.toMode

\* The chip of a parked task is honest: the row it names is the one that parked the
\* task, a human's SUSPEND or one of the two events that park automatically.
\* (fleet.ts:84-85.)
SuspendCauseIsHonest ==
  task.effectiveMode = "SUSPENDED" =>
    /\ SuspendTrigger \in {"SUSPEND", "GUARDRAIL", "DRIFT"}
    /\ SuspendTrigger = "SUSPEND" <=> log.setter.authority = "ACTOR"

\* A task in OBSERVING is shown so, and has never been governed or was sent back by a human's
\* resume: no automatic demotion lands there. ("A signal-loss demotion can land IN OBSERVING
\* mode", governance.ts:15-16, is of a row that the engine never writes; deriveGovernanceStatus
\* would show it DEGRADED, governance.test.ts:54-63.)
ObservingIsObserveOnly ==
  task.effectiveMode = "OBSERVING" =>
    /\ Status = "OBSERVING"
    /\ log.setter = NoTransition \/ log.setter.trigger = "RESUME"

\* What the dashboard says of a task is so: its offers, the cause of its suspension and
\* that it is only observed (fleet.ts toFleetEntry, governance.ts deriveGovernanceStatus).
FleetIsHonest == OffersAreShown /\ SuspendCauseIsHonest /\ ObservingIsObserveOnly

\* An offer shown as actionable can be acted on: the task still holds the pending
\* promotion that approving needs. ("true ONLY for a live, valid promotion",
\* packages/contracts/src/governance.ts:30.) The code does not keep this.
ActionAvailableIsApprovable == ActionAvailable => HasPending(task)

\* The headroom shown is where one promotion leads ("next band up if PROMOTABLE/HELD,
\* else null", packages/contracts/src/governance.ts:29), so that an approver is not
\* told of a band that approving does not reach. The code does not keep this.
HeadroomIsNextBand ==
  Headroom # NoRank => Headroom = BandRank(NextBandUp(task.effectiveMode))
==============================================================================
