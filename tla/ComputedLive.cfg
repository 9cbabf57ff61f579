SPECIFICATION MCFairSpec
CONSTANTS
  a = a b = b d = d e = e
  T1 = T1 T2 = T2 T3 = T3
  B1 = B1 B2 = B2
  t1 = t1 t2 = t2 t3 = t3
  w1 = w1 w2 = w2
  Task = {t1, t2, t3}
  Run = {w1, w2}
  NoRun = NoRun
  NoItem = NoItem
  Record <- MCRecord
  Table <- MCTable
  TableOf <- MCTableOf
  Dependents <- MCDependents
  Shard <- MCShard
  LocksEnabled = TRUE
  MaxRecordLocks = 1
  BatchShardCount = 1
  Key <- MCKey
  SeedKey <- MCSeedKey
  MaxAttempts = 2
  SeedInlineLimit = 5
  Base <- MCBase
  BaseOf <- MCBaseOf
  Scope <- MCScope
  ScopeOf <- MCScopeOf
  WriteKeys <- MCWriteKeys
  NextKey <- MCNextKey
  ChunkKey <- MCChunkKey
  ClaimLimit = 2
  ReclaimBatchSize = 2
  MaxStageDepth = 50
  MaxSeedRecordsPerTask = 5
  Scenarios <- MCLive
PROPERTY EventuallyComputed
CHECK_DEADLOCK FALSE
