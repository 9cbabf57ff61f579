SPECIFICATION Spec
CONSTANTS
  MaxEdits = 4
  GroupOf <- MCGroups
  NoGroup = NoGroup
  NoEntry = NoEntry
  MaxEntries = 3
  Request = {r1}
INVARIANTS TypeOK DoneIsApplied UndoneIsGone IInv
PROPERTY ImplementsLog
