SPECIFICATION ExpiringSpec
CONSTANTS
  MaxEdits = 4
  GroupOf <- MCGroups
  NoGroup = NoGroup
  NoEntry = NoEntry
  MaxEntries = 3
  Request = {r1}
INVARIANT DoneIsApplied
