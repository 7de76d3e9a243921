SPECIFICATION Spec
CONSTANTS
  WindowDays = 1
  Sessions = {s1, s2}
  Ids = {d1, d2, d3}
  Tasks = {t1, t2}
  Times = {1, 2, 3}
  Reports <- MCReports
  Judgements <- MCJudgements
  MaxIngests = 3
SYMMETRY Symmetry
INVARIANTS
  EveryRateIsMeasured
  OverridesNeverFlatter
  PagesAgree
  ShownMissesOnlyLateOrOverlapping
CHECK_DEADLOCK FALSE
