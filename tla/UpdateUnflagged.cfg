SPECIFICATION Spec
CONSTANTS
  Request = {r1, r2}
  Within = {r2}
  Linked = {}
  MaxRetries = 3
  MaxAttempts = 8
INVARIANT RollbackIsFlagged
CHECK_DEADLOCK FALSE
