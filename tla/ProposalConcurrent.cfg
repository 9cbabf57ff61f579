\* Two requests for one proposal at the same time.
SPECIFICATION Spec
CONSTANTS
  Proposal = {p1}
  Request = {r1, r2}
  MaxAsked = 3
  Concurrent = TRUE
  p1 = p1
  r1 = r1
  r2 = r2
INVARIANT
  SucceedsOnce
CHECK_DEADLOCK FALSE
