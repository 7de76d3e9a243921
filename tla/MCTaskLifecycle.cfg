\* The policy of packages/core/src/policy.ts, except that OBSERVING ends at 2 resolved
\* decisions instead of 10: readings on both sides of the threshold are among the inputs.
CONSTANTS
  ObservingExitMinResolved = 2
  PromotionHysteresisRecomputes = 3
  ScoreDropConfirmRecomputes = 2
  SignalLossGraceRecomputes = 2
  MaxResolved = 2
SPECIFICATION HistorySpec
INVARIANTS
  AuditAccountsForMode
  PendingIsLive
  FleetIsHonest
  HistoryIsActedOn
PROPERTIES
  OnlyHumansRaise
  EngineFallsOneBand
  SuspendedIsASink
  OffersAreSustained
  DemotionsAreConfirmed
  ImplementsAutonomy
