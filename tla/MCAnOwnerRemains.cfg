CONSTANTS
  u1 = u1
  u2 = u2
  e1 = e1
  e2 = e2
  Sessions = {s1, s2}
  Subjects = {u1, u2}
  Emails = {e1, e2}
  Agents = {a1}
  StartMembers <- MCStartMembers
  MaxRequests = 3
SPECIFICATION Spec
\* Once MaxRequests requests are answered there is nothing left to do.
CHECK_DEADLOCK FALSE
INVARIANT AnOwnerRemains
