SPECIFICATION Spec
CONSTANTS
  Request = {r1, r2}
  Within = {r2}
  Linked = {r1}
  MaxRetries = 3
  MaxAttempts = 8
INVARIANTS TypeOK NothingTwice PublishedIsCommitted TriedOnceIsSettled IInv
PROPERTY ImplementsTwoStores
CHECK_DEADLOCK FALSE
