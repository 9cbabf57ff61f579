\* Requests for one proposal come one after the other; requests for different
\* proposals run together.
SPECIFICATION Spec
CONSTANTS
  Proposal = {p1, p2}
  Request = {r1, r2}
  MaxAsked = 3
  Concurrent = FALSE
  p1 = p1
  p2 = p2
  r1 = r1
  r2 = r2
INVARIANTS
  TypeOK
  SucceedsOnce
PROPERTIES
  NothingAfterSuccess
  KeepsPromise
CHECK_DEADLOCK FALSE
