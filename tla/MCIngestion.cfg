CONSTANTS
  Sessions = {s1, s2}
  Calls <- MCCalls
  Rules <- MCRules
  MaxCalls = 4
SPECIFICATION Spec
INVARIANTS
  SteppedExactlyOnce
PROPERTIES
  SilentChangesAreReplays
  NothingNewIsUnjudged
  StatusLagsOnlyByOverlap
  ImplementsLedger
