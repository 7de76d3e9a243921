-------------------------- MODULE RecomputeHistory ---------------------------
(***************************************************************************)
(* TaskLifecycle with a memory of the last few recomputes, kept beside the *)
(* engine and not by it. The engine's decisions are compared with what the *)
(* policy says of consecutive recomputes (packages/core/src/policy.ts)     *)
(* rather than with the engine's own counters.                             *)
(***************************************************************************)
EXTENDS TaskLifecycle, SequencesExt

VARIABLE recent  \* the latest recomputes, oldest first: the mode each found, what it said

historyVars == <<task, score, log, recent>>

\* How far back the policy looks: the bound on the length of recent.
Depth ==
  Max({PromotionHysteresisRecomputes, ScoreDropConfirmRecomputes,
       SignalLossGraceRecomputes})

\* What a reading says about the mode it finds the task in.
Says(mode, rank) ==
  IF rank = NoRank THEN "LOST"
  ELSE IF rank < BandRank(mode) THEN "BELOW"
  ELSE IF mode # "SOLO" /\ rank > BandRank(mode) THEN "READY"
  ELSE "LEVEL"

Remember(entry) ==
  LET all == Append(recent, entry)
  IN SubSeq(all, Max({1, Len(all) - Depth + 1}), Len(all))

\* A recompute of an operating task is remembered; a signal, a human's action and any
\* other mode break the succession.
Remembered(r, signals) ==
  IF signals.guardrail \/ signals.drift \/ task.effectiveMode \notin Operating
  THEN <<>>
  ELSE Remember([mode |-> task.effectiveMode,
                 says |-> Says(task.effectiveMode, r.impliedRank)])

HistoryInit == Init /\ recent = <<>>

HistoryNext ==
  \/ \E r \in Readiness, signals \in IngestSignals :
       Recompute(r, signals) /\ recent' = Remembered(r, signals)
  \/ \E r \in Readiness : Approve(r) /\ recent' = <<>>
  \/ \E target \in Operating : FreeSetMode(target) /\ recent' = <<>>
  \/ Suspend /\ recent' = <<>>
  \/ Resume /\ recent' = <<>>

HistorySpec == HistoryInit /\ [][HistoryNext]_historyVars

\* The last n recomputes in seq, with nothing else between them, all said this of m.
LastAll(seq, n, m, says) ==
  /\ Len(seq) >= n
  /\ \A i \in Len(seq) - n + 1 .. Len(seq) : seq[i] = [mode |-> m, says |-> says]

------------------------------------------------------------------------------
(* Properties *)

\* A promotion is offered only when every one of the last recomputes, as many as the
\* hysteresis asks for, implied the next band up from the mode in force. And an offer ends
\* with a row of the log that says so, but for one case: a recompute below the mode's floor
\* drops it without a word (lifecycle.ts:405), and the log goes on announcing it.
OffersAreSustained ==
  [][/\ ~HasPending(task) /\ HasPending(task') =>
          LastAll(recent', PromotionHysteresisRecomputes, task.effectiveMode, "READY")
     /\ HasPending(task) /\ ~HasPending(task') =>
          \/ log'.last # log.last
          \/ LastAll(recent', 1, task.effectiveMode, "BELOW")
    ]_historyVars

\* And it is offered as soon as they did: no interruption of the streak that the policy
\* does not name makes the agent wait longer.
SustainedIsOffered ==
  LastAll(recent, PromotionHysteresisRecomputes, task.effectiveMode, "READY") =>
    HasPending(task)

\* An automatic demotion for the score or for a lost signal is confirmed: the last
\* recomputes, as many as its grace asks for, all said so of the mode that is left.
DemotionsAreConfirmed ==
  [][task'.effectiveMode # task.effectiveMode /\ log'.setter.direction = "DEMOTION" =>
       /\ log'.setter.trigger = "SCORE_CROSS" =>
            LastAll(recent', ScoreDropConfirmRecomputes, task.effectiveMode, "BELOW")
       /\ log'.setter.trigger = "SIGNAL_LOSS" =>
            LastAll(recent', SignalLossGraceRecomputes, task.effectiveMode, "LOST")
    ]_historyVars

\* A governed task whose signal is lost for the whole grace is not left in its mode.
LossIsActedOn ==
  task.effectiveMode \in {"CO_PILOT", "SOLO"} =>
    ~LastAll(recent, SignalLossGraceRecomputes, task.effectiveMode, "LOST")

\* A decline that began at a score that supported the mode is acted on as soon as it is
\* confirmed. Of others see DeclineIsActedOn.
DeclineSeenIsActedOn ==
  LET below == ScoreDropConfirmRecomputes
      mode  == task.effectiveMode
  IN Len(recent) > below /\ LastAll(recent, below, mode, "BELOW") =>
       recent[Len(recent) - below] \notin [mode : {mode}, says : {"READY", "LEVEL"}]

\* What the policy says of consecutive recomputes is done as soon as they have been made
\* (lifecycle.ts stepLifecycle, the streaks and their thresholds).
HistoryIsActedOn == SustainedIsOffered /\ LossIsActedOn /\ DeclineSeenIsActedOn

\* A sub-floor score demotes on the confirming consecutive sub-floor recompute ("a
\* sub-floor score demotes on this many consecutive sub-floor recomputes",
\* packages/core/src/policy.ts:27-28), the standing divergence of a mode that a human
\* set by override excepted (PROVABLE_CORE_ARCHITECTURE.md, Standing divergence). The
\* code does not keep this.
DeclineIsActedOn ==
  log.setter.trigger # "MANUAL_OVERRIDE" =>
    ~LastAll(recent, ScoreDropConfirmRecomputes, task.effectiveMode, "BELOW")
==============================================================================
