---------------------------- MODULE ComputedLocks ----------------------------
(***************************************************************************)
(* The advisory locks a computed update takes before it runs               *)
(* (ComputedUpdateLock.ts, buildComputedUpdateLockPlan).                    *)
(*                                                                         *)
(* A plan names its base and its seed records, grouped by table.  A table  *)
(* with at most MaxRecordLocks seeds is locked record by record; a larger  *)
(* one by hash shard; with sharding switched off, by one lock for the      *)
(* whole table.  The base is part of every key.  Two plans are serialised  *)
(* exactly when they share a lock key, so what matters here is which keys  *)
(* a set of seeds asks for.                                                *)
(***************************************************************************)
EXTENDS ComputedSeeds

CONSTANTS
  LocksEnabled,     \* ComputedUpdateLockConfig.enabled
  MaxRecordLocks,   \* ComputedUpdateLockConfig.maxRecordLocks (50)
  BatchShardCount,  \* ComputedUpdateLockConfig.batchShardCount (64)
  Shard             \* resolveBatchShard: an arbitrary but fixed hash

ASSUME LockAssumption ==
  /\ LocksEnabled \in BOOLEAN
  /\ MaxRecordLocks \in Int
  /\ BatchShardCount \in Int
  /\ Shard \in [Record -> Nat]

\* The locks of one table's seeds (never empty for a non-empty group).
GroupLocks(base, t, group) ==
  IF Cardinality(group) <= MaxRecordLocks
    THEN {<<"record", base, t, r>> : r \in group}
  ELSE IF BatchShardCount <= 0
    THEN {<<"table", base, t>>}
    ELSE {<<"batch", base, t, Shard[r]>> : r \in group}

SeedGroup(t, seeds) == {r \in seeds : TableOf[r] = t}

LockKeys(base, seeds) ==
  IF LocksEnabled
    THEN UNION {GroupLocks(base, t, SeedGroup(t, seeds)) : t \in {TableOf[r] : r \in seeds}}
    ELSE {}

=============================================================================
