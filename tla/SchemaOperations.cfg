SPECIFICATION MCFairSpec
CONSTANTS
  T1 = T1 T2 = T2
  c1 = c1 c2 = c2 d1 = d1 p1 = p1 p2 = p2
  r1 = r1 r2 = r2
  Cmd = {c1, c2, d1, p1, p2}
  Table = {T1, T2}
  Runner = {r1, r2}
  TableOf <- MCTables
  KindOf <- MCKindOf
  WithRecords = {}
  NoJob = NoJob
  MaxAttempts = 2
  Scenarios <- MCEither
INVARIANTS TypeOK InconsistencyIsRecorded IInv
PROPERTIES EventuallyRepaired ImplementsTablePromise
CHECK_DEADLOCK FALSE
