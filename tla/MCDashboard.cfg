SPECIFICATION Spec
CONSTANTS
  Tabs = {t1}
  Ttl = 2
  Threshold = 1
  k1 = k1
  k2 = k2
  Tasks = {k1, k2}
  Begun <- MCBegun
  MaxPolls = 1
  MaxChanges = 2
  MaxFaults = 1
INVARIANTS
  UsedSessionsLast
  MarkedAgentIsStopped
PROPERTIES
  ScreenCatchesUp
