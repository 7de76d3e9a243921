CONSTANTS
  ObservingExitMinResolved = 1
  PromotionHysteresisRecomputes = 1
  ScoreDropConfirmRecomputes = 1
  SignalLossGraceRecomputes = 1
  Sessions = {s1, s2}
  Tasks = {1, 2}
  StartRows <- MCStartRows
  Ingests <- MCIngests
  MaxRequests = 2
SPECIFICATION Spec
\* Once MaxRequests requests are answered there is nothing left to do.
CHECK_DEADLOCK FALSE
INVARIANTS
  RowsAreWhole
  DeadlockNeedsFirstContact
PROPERTIES
  OnlyStaleRequestsUndoASuspension
  AgentWideSuspendParksAll
  EveryRequestIsAnswered
