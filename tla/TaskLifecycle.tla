---------------------------- MODULE TaskLifecycle ----------------------------
(***************************************************************************)
(* One agent x task as the database holds it, and the requests that move   *)
(* it, each one transaction that runs alone: the recompute of an ingested  *)
(* decision or verdict (apps/api/src/recompute.ts), the approve, free-set, *)
(* suspend and resume routes (apps/api/src/app.ts).                        *)
(*                                                                         *)
(* Abstracted: the transition log is kept as the two rows its readers use, *)
(* the last one and the last one that set a mode. What makes the readiness *)
(* and the signals of a recompute (the decision window, the platform's     *)
(* guardrail rules, the agent's own report) is an input.                   *)
(***************************************************************************)
EXTENDS Lifecycle

CONSTANTS
  MaxResolved  \* bound: the largest resolved count a recompute reads

\* Both sides of the OBSERVING exit must be among the inputs.
ASSUME InputAssumption ==
  /\ MaxResolved \in Nat
  /\ MaxResolved >= ObservingExitMinResolved

VARIABLES
  task,   \* the lifecycle columns of the task row
  score,  \* the score row with the latest calculation time: its implied rank
  log     \* the task's transition log: its last row and its last mode-setting row

vars == <<task, score, log>>

\* The readiness results a recompute can produce. A scored one counts at least one
\* resolved decision.
Readiness ==
  {r \in [impliedRank : Ranks \cup {NoRank}, resolved : 0..MaxResolved] :
     Scored(r) => r.resolved > 0}

\* Machine keys report drift and guardrail trips; a manual decision is stripped.
IngestSignals == {sig \in Signals : sig.manual = "NONE"}

NoScore == -1  \* no score row yet

Sets(t) == t.status \in {"APPLIED", "AUTO_APPLIED"}

TypeOK ==
  /\ task \in LifecycleStates
  /\ score \in Ranks \cup {NoRank, NoScore}
  /\ log \in [last : Transitions \cup {NoTransition},
              setter : Transitions \cup {NoTransition}]

Init ==
  /\ task = InitialLifecycleState
  /\ score = NoScore
  /\ log = [last |-> NoTransition, setter |-> NoTransition]

\* The result of a step is appended to the log and written over the task row.
Write(step) ==
  /\ task' = step.state
  /\ log' = [last   |-> IF step.transition = NoTransition THEN log.last
                        ELSE step.transition,
             setter |-> IF Sets(step.transition) THEN step.transition
                        ELSE log.setter]

\* A novel decision or verdict. The sender chooses the time it is recorded at, so the
\* score it leads to need not become the latest.
Recompute(r, signals) ==
  /\ Write(StepLifecycle(task, r, signals))
  /\ \/ score' = r.impliedRank
     \/ score # NoScore /\ UNCHANGED score

\* A human approves the pending promotion. The readiness is recomputed, and ignored.
Approve(r) ==
  /\ HasPending(task)
  /\ Write(StepLifecycle(task, r,
       [guardrail |-> FALSE, drift |-> FALSE, manual |-> "APPROVE"]))
  /\ UNCHANGED score

\* A human sets the mode.
FreeSetMode(target) ==
  /\ CanOverrideFrom(task.effectiveMode)
  /\ Write(ManualOverride(task, target))
  /\ UNCHANGED score

\* A human parks the task.
Suspend ==
  /\ CanSuspendFrom(task.effectiveMode)
  /\ Write(SuspendAgent(task))
  /\ UNCHANGED score

\* A human lets a parked task start over.
Resume ==
  /\ CanResumeFrom(task.effectiveMode)
  /\ Write(ResumeAgent(task))
  /\ UNCHANGED score

Next ==
  \/ \E r \in Readiness, signals \in IngestSignals : Recompute(r, signals)
  \/ \E r \in Readiness : Approve(r)
  \/ \E target \in Operating : FreeSetMode(target)
  \/ Suspend
  \/ Resume

Spec == Init /\ [][Next]_vars

------------------------------------------------------------------------------
(* Properties *)

\* The audit trail accounts for the mode in force: the row that last set a mode names
\* it, and a task nothing has set is still OBSERVING. ("effectiveMode changes ONLY by
\* emitting a Transition", lifecycle.ts:19.)
AuditAccountsForMode ==
  IF log.setter = NoTransition THEN task.effectiveMode = "OBSERVING"
  ELSE log.setter.toMode = task.effectiveMode

\* A pending promotion is always the next band up from the mode in force, and the log
\* still ends with the row that offered it: approving it can neither skip a band nor
\* apply an offer that something later in the log overtook.
PendingIsLive ==
  HasPending(task) =>
    /\ task.pending.toMode = NextBandUp(task.effectiveMode)
    /\ log.last = Earned(task, IF task.pending.awaitingApproval
                              THEN "PENDING_APPROVAL" ELSE "PROPOSED", "ENGINE")

\* No agent works above SHADOW unless a human put it there, or the engine took it down
\* one band from where a human had put it.
AltitudeIsGranted ==
  BandRank(task.effectiveMode) > BandRank("SHADOW") =>
    \/ log.setter.authority # "ENGINE"
    \/ log.setter.fromMode = "SOLO" /\ log.setter.direction = "DEMOTION"

\* At most one streak is building, it is below the threshold that acts on it, it
\* excludes an offer except while a signal loss is within its grace, and only a task
\* that could be moved by it builds one.
StreaksAreExclusive ==
  /\ task.ready < PromotionHysteresisRecomputes
  /\ task.subFloor < ScoreDropConfirmRecomputes
  /\ task.insufficient < SignalLossGraceRecomputes
  /\ task.ready > 0 =>
       /\ task.subFloor = 0 /\ task.insufficient = 0 /\ ~HasPending(task)
       /\ NextBandUp(task.effectiveMode) # NoBand
  /\ task.subFloor > 0 =>
       /\ task.insufficient = 0 /\ ~HasPending(task)
       /\ task.effectiveMode \in {"CO_PILOT", "SOLO"}
  /\ task.insufficient > 0 => task.effectiveMode \in {"CO_PILOT", "SOLO"}

\* Hard to climb: a mode rises by the start of work at SHADOW, by a human accepting an
\* offer that was pending, or by a human acting directly; never by the engine.
OnlyHumansRaise ==
  [][BandRank(task'.effectiveMode) > BandRank(task.effectiveMode) =>
       \/ task.effectiveMode = "OBSERVING" /\ task'.effectiveMode = "SHADOW"
       \/ /\ log'.setter.authority = "APPROVER"
          /\ task'.effectiveMode = task.pending.toMode
       \/ log'.setter.authority = "ACTOR"]_vars

\* Easy to fall, but never far: without a human the mode goes down exactly one band,
\* unless a guardrail trip parks the task, and only drift can park it otherwise (a lost
\* signal or a low score never does); whatever was pending is gone.
EngineFall ==
  LET trigger == log'.setter.trigger
  IN /\ ~HasPending(task')
     /\ task'.effectiveMode = IF trigger = "GUARDRAIL" THEN "SUSPENDED"
                              ELSE OneBandDown(task.effectiveMode)
     /\ task'.effectiveMode = "SUSPENDED" => trigger \in {"GUARDRAIL", "DRIFT"}
EngineFallsOneBand ==
  [][(/\ BandRank(task'.effectiveMode) < BandRank(task.effectiveMode)
      /\ log'.setter.authority = "ENGINE") => EngineFall]_vars

\* A parked task stays parked until a human resumes it, and then starts over: back to
\* OBSERVING with no baseline, streak or offer left from before.
SuspendedIsASink ==
  [][task.effectiveMode = "SUSPENDED" =>
       \/ task'.effectiveMode = "SUSPENDED" /\ UNCHANGED log
       \/ task' = InitialLifecycleState /\ log'.setter.authority = "ACTOR"]_vars

\* The detailed lifecycle implements the abstract one.
Authority(t) == IF t.authority \in {"APPROVER", "ACTOR"} THEN "HUMAN" ELSE "ENGINE"
Abstract == INSTANCE Autonomy WITH
  Entry <- "SHADOW",
  mode <- task.effectiveMode,
  offer <- task.pending.toMode,
  authority <- Authority(log.setter)

\* Every request is a step the abstract specification allows.
ImplementsAutonomy == Abstract!Spec
==============================================================================
