CONSTANTS
  Sessions = {s1}
  Calls <- MCCalls
  Rules <- MCRules
  MaxCalls = 4
SPECIFICATION Spec
PROPERTIES
  ReplaysAreSilent
