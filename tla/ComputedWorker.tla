---------------------------- MODULE ComputedWorker ---------------------------
(***************************************************************************)
(* Computed updates: record writes enqueue seed tasks in their own         *)
(* transaction, worker runs claim batches of tasks, recompute what depends *)
(* on the seeds and enqueue the next stage (ComputedUpdateWorker.ts on top *)
(* of ComputedUpdateOutbox.ts and ComputedUpdateLock.ts).                   *)
(*                                                                         *)
(* A run w is one runOnce or runTaskById call of some process.  Its        *)
(* transaction reads its sources when it starts and writes what it has     *)
(* computed when it commits, so a write of another transaction may come    *)
(* between the two (READ COMMITTED).                                       *)
(***************************************************************************)
EXTENDS ComputedOutbox, ComputedLocks

CONSTANTS
  Base,                   \* base ids
  BaseOf,                 \* the base of each key
  Scope,                  \* (base, seed table): what a claim dedupes on
  ScopeOf,                \* the scope of each key
  WriteKeys,              \* keys under which a write of a record enqueues it
  NextKey,                \* the key of the next stage's task, never a seed task
  ChunkKey,               \* key of chunk i of a split task: `hash:chunk:i/n`
  ClaimLimit,             \* runOnce's limit
  ReclaimBatchSize,       \* ComputedUpdateOutboxConfig.reclaimBatchSize (50)
  MaxSeedRecordsPerTask,  \* ComputedUpdateOutboxConfig.maxSeedRecordsPerTask (500)
  MaxStageDepth,          \* MAX_STAGE_DEPTH (50)
  NoItem

ASSUME WorkerAssumption ==
  /\ BaseOf \in [Key -> Base]
  /\ ScopeOf \in [Key -> Scope]
  /\ WriteKeys \in [Record -> SUBSET Key]
  /\ NextKey \in [Key -> Key \ SeedKey]
  /\ ChunkKey \in [Key \X (1..Cardinality(Record)) -> Key]
  /\ ClaimLimit \in Nat \ {0}
  /\ ReclaimBatchSize \in Nat \ {0}
  /\ MaxSeedRecordsPerTask \in Nat \ {0}
  /\ MaxStageDepth \in Nat \ {0}

VARIABLES
  rows,        \* computed_update_outbox (with its spill table)
  deadLetter,  \* computed_update_dead_letter
  paused,      \* scopes with a live row in the pause registry
  stale,       \* records with a dependent that does not reflect them
  batch,       \* items each run has claimed and not started
  cur,         \* the item each run is processing
  pc,          \* where each run is in processClaimedTask
  snap,        \* records whose current value the run's transaction has read
  chunks       \* chunks a splitting run has still to enqueue

vars == <<rows, deadLetter, paused, stale, batch, cur, pc, snap, chunks>>

\* An item is the copy of a row made when it is claimed (toAnyOutboxItem).
Item == [id : Task, key : Key, attempts : 0..MaxAttempts-1, seeds : SUBSET Record]
Chunk == [key : Key, seeds : SUBSET Record]
Letter == [key : Key, seeds : SUBSET Record]

ASSUME NoItemAssumption == NoItem \notin Item

ItemOf(t) == [id |-> t, key |-> rows[t].key, attempts |-> rows[t].attempts,
              seeds |-> rows[t].seeds]

TypeOK ==
  /\ rows \in [Task -> Row \cup {Absent}]
  /\ deadLetter \subseteq Letter
  /\ paused \subseteq Scope
  /\ stale \subseteq HasDependents
  /\ batch \in [Run -> SUBSET Item]
  /\ cur \in [Run -> Item \cup {NoItem}]
  /\ pc \in [Run -> {"idle", "split", "run", "exec", "failed", "blocked"}]
  /\ \A w \in Run : pc[w] # "idle" => cur[w] \in Item
  /\ snap \in [Run -> SUBSET Record]
  /\ chunks \in [Run -> SUBSET Chunk]

Init ==
  /\ rows = [t \in Task |-> Absent]
  /\ deadLetter = {}
  /\ paused = {}
  /\ stale = {}
  /\ batch = [w \in Run |-> {}]
  /\ cur = [w \in Run |-> NoItem]
  /\ pc = [w \in Run |-> "idle"]
  /\ snap = [w \in Run |-> {}]
  /\ chunks = [w \in Run |-> {}]

-----------------------------------------------------------------------------
(***************************************************************************)
(* A record write: the new value and its seed task commit together.        *)
(***************************************************************************)
Write(r) ==
  /\ \E k \in WriteKeys[r] : \E t \in EnqueueTargets(rows, k) :
       rows' = Enqueue(rows, t, k, {r})
  /\ stale' = stale \cup ({r} \cap HasDependents)
  /\ snap' = [w \in Run |-> snap[w] \ {r}]
  /\ UNCHANGED <<deadLetter, paused, batch, cur, pc, chunks>>

(***************************************************************************)
(* claimBatch: first rows whose lease has run out, then due pending rows,  *)
(* none of a paused scope, at most one row per scope.                      *)
(***************************************************************************)
NotPaused(t) == ScopeOf[rows[t].key] \notin paused

SmallerOf(m, n) == IF m <= n THEN m ELSE n

UpTo(n, S) ==
  {sub \in SUBSET S : Cardinality(sub) = SmallerOf(n, Cardinality(S))}

OnePerScope(picked, preferred) ==
  {sub \in SUBSET picked :
    /\ {ScopeOf[rows[t].key] : t \in sub} = {ScopeOf[rows[t].key] : t \in picked}
    /\ \A t, u \in sub : ScopeOf[rows[t].key] = ScopeOf[rows[u].key] => t = u
    /\ \A t \in sub, u \in preferred :
         ScopeOf[rows[t].key] = ScopeOf[rows[u].key] => t \in preferred}

ClaimBatch(w) ==
  /\ pc[w] = "idle" /\ batch[w] = {}
  /\ \E reclaimed \in UpTo(SmallerOf(ClaimLimit, ReclaimBatchSize),
                           {t \in StaleRows(rows) : NotPaused(t)}) :
     \E pending \in UpTo(ClaimLimit - Cardinality(reclaimed),
                         {t \in DueRows(rows) : NotPaused(t)}) :
     \E claimed \in OnePerScope(reclaimed \cup pending, reclaimed) :
       /\ claimed # {}
       /\ rows' = Claim(rows, w, claimed)
       /\ batch' = [batch EXCEPT ![w] = {ItemOf(t) : t \in claimed}]
  /\ UNCHANGED <<deadLetter, paused, stale, cur, pc, snap, chunks>>

\* runTaskById: takes a row over from a run that may still be working on it,
\* whatever its lease, its next_run_at and the pause registry say.
ClaimById(w, t) ==
  /\ pc[w] = "idle" /\ batch[w] = {}
  /\ rows[t].status \in {"pending", "processing"}
  /\ rows' = Claim(rows, w, {t})
  /\ batch' = [batch EXCEPT ![w] = {ItemOf(t)}]
  /\ UNCHANGED <<deadLetter, paused, stale, cur, pc, snap, chunks>>

(***************************************************************************)
(* ClaimedTaskLeaseManager: the heartbeat renews every claimed row and     *)
(* drops the items whose row has another owner by now.  The item being     *)
(* processed is not interrupted.                                           *)
(***************************************************************************)
Heartbeat(w) ==
  /\ rows' = RenewLease(rows, w, {i.id : i \in batch[w]} \cup
                                 (IF pc[w] = "idle" THEN {} ELSE {cur[w].id}))
  /\ batch' = [batch EXCEPT ![w] = {i \in @ : Owns(rows, w, i.id)}]
  /\ UNCHANGED <<deadLetter, paused, stale, cur, pc, snap, chunks>>

NeedsSplit(i) == Cardinality(i.seeds) > MaxSeedRecordsPerTask

\* splitSeedRecordDtos: chunks of MaxSeedRecordsPerTask seeds, the last one
\* with the rest; the order of the seeds is not fixed.
Chunkings(i) ==
  LET n == (Cardinality(i.seeds) + MaxSeedRecordsPerTask - 1) \div MaxSeedRecordsPerTask
      Part(f, c) == {r \in i.seeds : f[r] = c}
  IN {{[key |-> ChunkKey[i.key, c], seeds |-> Part(f, c)] : c \in 1..n} :
        f \in {g \in [i.seeds -> 1..n] :
                 \A c \in 1..n : /\ Part(g, c) # {}
                                 /\ Cardinality(Part(g, c)) <= MaxSeedRecordsPerTask
                                 /\ c < n => Cardinality(Part(g, c)) = MaxSeedRecordsPerTask}}

Begin(w, i) ==
  /\ cur' = [cur EXCEPT ![w] = i]
  /\ batch' = [batch EXCEPT ![w] = @ \ {i}]
  /\ IF NeedsSplit(i)
       THEN /\ pc' = [pc EXCEPT ![w] = "split"]
            /\ \E parts \in Chunkings(i) : chunks' = [chunks EXCEPT ![w] = parts]
       ELSE /\ pc' = [pc EXCEPT ![w] = "run"]
            /\ UNCHANGED chunks
  /\ UNCHANGED <<deadLetter, paused, stale, snap>>

\* ensureTaskActive renews the lease of the item first ...
StartTask(w) ==
  /\ pc[w] = "idle"
  /\ \E i \in batch[w] : /\ Owns(rows, w, i.id)
                         /\ rows' = RenewLease(rows, w, {i.id})
                         /\ Begin(w, i)

\* ... skips the item when it is not its owner any more ...
SkipLostTask(w) ==
  /\ pc[w] = "idle"
  /\ \E i \in batch[w] : /\ ~Owns(rows, w, i.id)
                         /\ batch' = [batch EXCEPT ![w] = @ \ {i}]
  /\ UNCHANGED <<rows, deadLetter, paused, stale, cur, pc, snap, chunks>>

\* ... and takes a failed renewal for an active lease.
StartUnrenewed(w) ==
  /\ pc[w] = "idle"
  /\ \E i \in batch[w] : Begin(w, i)
  /\ UNCHANGED rows

-----------------------------------------------------------------------------
(***************************************************************************)
(* Splitting a large task: one transaction per chunk, then markDone.       *)
(***************************************************************************)
EnqueueChunk(w) ==
  /\ pc[w] = "split"
  /\ \E c \in chunks[w] : \E t \in EnqueueTargets(rows, c.key) :
       /\ rows' = Enqueue(rows, t, c.key, c.seeds)
       /\ chunks' = [chunks EXCEPT ![w] = @ \ {c}]
  /\ UNCHANGED <<deadLetter, paused, stale, batch, cur, pc, snap>>

\* Mutant: the task is done as soon as one chunk is enqueued.
SplitDoneEarly(w) ==
  /\ pc[w] = "split"
  /\ rows' = MarkDone(rows, w, cur[w].id)
  /\ pc' = [pc EXCEPT ![w] = "idle"]
  /\ cur' = [cur EXCEPT ![w] = NoItem]
  /\ chunks' = [chunks EXCEPT ![w] = {}]
  /\ UNCHANGED <<deadLetter, paused, stale, batch, snap>>

\* markDone answers false when the lease is lost; the worker then goes on and
\* processes the task as a whole.
SplitDone(w) ==
  /\ pc[w] = "split" /\ chunks[w] = {}
  /\ rows' = MarkDone(rows, w, cur[w].id)
  /\ IF Owns(rows, w, cur[w].id)
       THEN /\ pc' = [pc EXCEPT ![w] = "idle"]
            /\ cur' = [cur EXCEPT ![w] = NoItem]
       ELSE /\ pc' = [pc EXCEPT ![w] = "run"]
            /\ UNCHANGED cur
  /\ UNCHANGED <<deadLetter, paused, stale, batch, snap, chunks>>

(***************************************************************************)
(* The transaction: locks without waiting, recompute, enqueue the next     *)
(* stage, markDone.                                                        *)
(***************************************************************************)
ItemLocks(i) == LockKeys(BaseOf[i.key], i.seeds)

Conflict(w) ==
  \E v \in Run \ {w} : pc[v] = "exec" /\ ItemLocks(cur[v]) \cap ItemLocks(cur[w]) # {}

\* Mutant: runs without its locks.
RunUnlocked(w) ==
  /\ pc[w] = "run"
  /\ pc' = [pc EXCEPT ![w] = "exec"]
  /\ snap' = [snap EXCEPT ![w] = Record]
  /\ UNCHANGED <<rows, deadLetter, paused, stale, batch, cur, chunks>>

AcquireLocks(w) ==
  /\ pc[w] = "run" /\ ~Conflict(w)
  /\ pc' = [pc EXCEPT ![w] = "exec"]
  /\ snap' = [snap EXCEPT ![w] = Record]
  /\ UNCHANGED <<rows, deadLetter, paused, stale, batch, cur, chunks>>

LockUnavailable(w) ==
  /\ pc[w] = "run" /\ Conflict(w)
  /\ pc' = [pc EXCEPT ![w] = "blocked"]
  /\ UNCHANGED <<rows, deadLetter, paused, stale, batch, cur, snap, chunks>>

\* What the transaction wrote reflects the sources as it read them: its seeds
\* are done unless they were written since, and a record written since is
\* stale if the transaction has overwritten one of its dependents.
StaleAfter(w) ==
  LET seeds == cur[w].seeds
  IN (stale \ (seeds \cap snap[w]))
       \cup {r \in HasDependents \ snap[w] : Dependents[r] \cap Affected(seeds) # {}}
       \cup NextSeeds(seeds)

\* The stage depth a task is enqueued with is not stored in its row, so every
\* item is of depth 0 when it is claimed.
StageDepth(i) == 0

GoesOn(i) == StageDepth(i) < MaxStageDepth

\* Mutant: the next stage is left to a later transaction.
CommitWithoutNext(w) ==
  /\ pc[w] = "exec"
  /\ rows' = MarkDone(rows, w, cur[w].id)
  /\ stale' = StaleAfter(w)
  /\ snap' = [v \in Run |-> IF v = w THEN {} ELSE snap[v] \ Affected(cur[w].seeds)]
  /\ pc' = [pc EXCEPT ![w] = "idle"]
  /\ cur' = [cur EXCEPT ![w] = NoItem]
  /\ UNCHANGED <<deadLetter, paused, batch, chunks>>

\* The transaction commits even when markDone finds that the lease is lost.
Commit(w) ==
  /\ pc[w] = "exec"
  /\ LET seeds == cur[w].seeds
         next == NextSeeds(seeds)
         k == NextKey[cur[w].key]
     IN /\ IF next = {} \/ ~GoesOn(cur[w])
             THEN rows' = MarkDone(rows, w, cur[w].id)
             ELSE \E t \in EnqueueTargets(rows, k) :
                    rows' = MarkDone(Enqueue(rows, t, k, next), w, cur[w].id)
        /\ stale' = StaleAfter(w)
        /\ snap' = [v \in Run |-> IF v = w THEN {} ELSE snap[v] \ Affected(seeds)]
  /\ pc' = [pc EXCEPT ![w] = "idle"]
  /\ cur' = [cur EXCEPT ![w] = NoItem]
  /\ UNCHANGED <<deadLetter, paused, batch, chunks>>

TaskFails(w) ==
  /\ pc[w] \in {"split", "run", "exec"}
  /\ pc' = [pc EXCEPT ![w] = "failed"]
  /\ snap' = [snap EXCEPT ![w] = {}]
  /\ chunks' = [chunks EXCEPT ![w] = {}]
  /\ UNCHANGED <<rows, deadLetter, paused, stale, batch, cur>>

-----------------------------------------------------------------------------
Settled(w) ==
  /\ pc' = [pc EXCEPT ![w] = "idle"]
  /\ cur' = [cur EXCEPT ![w] = NoItem]
  /\ UNCHANGED <<paused, stale, batch, snap, chunks>>

\* Mutant: one attempt too many.
MarkFailedLate(w) ==
  /\ pc[w] = "failed" /\ Owns(rows, w, cur[w].id)
  /\ IF cur[w].attempts + 1 > MaxAttempts
       THEN rows' = [rows EXCEPT ![cur[w].id] = Absent]
       ELSE rows' = BackToPending(rows, cur[w].id, cur[w].attempts + 1)
  /\ Settled(w)
  /\ UNCHANGED deadLetter

\* markFailed: the dead letter after the last attempt, else back to pending
\* with a backoff.  Nothing is written when the lease is lost, nor when the
\* row has a pending twin (the update violates the unique index).
MarkFailed(w) ==
  /\ pc[w] = "failed"
  /\ LET i == cur[w] IN
     IF ~Owns(rows, w, i.id)
       THEN UNCHANGED <<rows, deadLetter>>
     ELSE IF i.attempts + 1 >= MaxAttempts
       THEN /\ deadLetter' = deadLetter \cup {[key |-> i.key, seeds |-> i.seeds]}
            /\ rows' = [rows EXCEPT ![i.id] = Absent]
     ELSE IF PendingTwin(rows, i.id)
       THEN UNCHANGED <<rows, deadLetter>>
       ELSE /\ rows' = BackToPending(rows, i.id, i.attempts + 1)
            /\ UNCHANGED deadLetter
  /\ Settled(w)

\* releaseForRetry, when a lock was not available: attempts are not counted.
ReleaseForRetry(w) ==
  /\ pc[w] = "blocked"
  /\ LET i == cur[w] IN
     rows' = IF Owns(rows, w, i.id) /\ ~PendingTwin(rows, i.id)
               THEN BackToPending(rows, i.id, rows[i.id].attempts)
               ELSE rows
  /\ Settled(w)
  /\ UNCHANGED deadLetter

-----------------------------------------------------------------------------
(***************************************************************************)
(* The environment.                                                        *)
(***************************************************************************)
\* The process dies: its open transaction is rolled back, its claims stay.
Crash(w) ==
  /\ pc[w] # "idle" \/ batch[w] # {}
  /\ batch' = [batch EXCEPT ![w] = {}]
  /\ cur' = [cur EXCEPT ![w] = NoItem]
  /\ pc' = [pc EXCEPT ![w] = "idle"]
  /\ snap' = [snap EXCEPT ![w] = {}]
  /\ chunks' = [chunks EXCEPT ![w] = {}]
  /\ UNCHANGED <<rows, deadLetter, paused, stale>>

LeaseExpires(t) ==
  /\ rows[t].status = "processing" /\ rows[t].fresh
  /\ rows' = [rows EXCEPT ![t] = [@ EXCEPT !.fresh = FALSE]]
  /\ UNCHANGED <<deadLetter, paused, stale, batch, cur, pc, snap, chunks>>

BackoffElapses(t) ==
  /\ rows[t].status = "pending" /\ ~rows[t].due
  /\ rows' = [rows EXCEPT ![t] = [@ EXCEPT !.due = TRUE]]
  /\ UNCHANGED <<deadLetter, paused, stale, batch, cur, pc, snap, chunks>>

Pause(s) ==
  /\ paused' = paused \cup {s}
  /\ UNCHANGED <<rows, deadLetter, stale, batch, cur, pc, snap, chunks>>

Resume(s) ==
  /\ paused' = paused \ {s}
  /\ UNCHANGED <<rows, deadLetter, stale, batch, cur, pc, snap, chunks>>

Work(w) ==
  \/ StartTask(w) \/ SkipLostTask(w)
  \/ EnqueueChunk(w) \/ SplitDone(w)
  \/ AcquireLocks(w) \/ LockUnavailable(w) \/ Commit(w)
  \/ MarkFailed(w) \/ ReleaseForRetry(w)

Next ==
  \/ \E r \in Record : Write(r)
  \/ \E w \in Run : \/ ClaimBatch(w) \/ Heartbeat(w) \/ StartUnrenewed(w)
                    \/ Work(w) \/ TaskFails(w) \/ Crash(w)
                    \/ \E t \in Task : ClaimById(w, t)
  \/ \E t \in Task : LeaseExpires(t) \/ BackoffElapses(t)
  \/ \E s \in Scope : Pause(s) \/ Resume(s)

Spec == Init /\ [][Next]_vars

-----------------------------------------------------------------------------
Parked(r) == \E d \in deadLetter : r \in d.seeds

\* A stale record is never forgotten: whatever the order of writes, claims,
\* takeovers, expired leases, failures and crashes, a record some dependent of
\* which is out of date is a seed of a task that is still in the outbox, or of
\* a dead letter.  The code breaks it in two ways: see ComputedLosses.
NoLostUpdate ==
  \A r \in stale : Parked(r) \/ \E t \in Live(rows) : r \in rows[t].seeds

\* While a run owns a row, the row is what the run has in memory: what it
\* recomputes, splits or writes to the dead letter is all the row asks for.
OwnedItemIsCurrent ==
  \A w \in Run :
    \A i \in batch[w] \cup (IF pc[w] = "idle" THEN {} ELSE {cur[w]}) :
      Owns(rows, w, i.id) => i = ItemOf(i.id)

\* Two computed updates that share a seed record do not run at the same time.
ExclusiveSeeds ==
  \A v, w \in Run :
    pc[v] = "exec" /\ pc[w] = "exec" /\ v # w => cur[v].seeds \cap cur[w].seeds = {}

\* Two computed updates of one base that share a seed record never run at the same
\* time while they lock its table in the same way, record by record or not.  The
\* number of seeds a task has in the table decides which: a task at the limit and
\* one above it have no key in common, and neither waits for the other; nor do
\* tasks of two bases, whatever they share.
LocksByRecord(t, seeds) == Cardinality(SeedGroup(t, seeds)) <= MaxRecordLocks

SameLocksExclude ==
  LocksEnabled =>
    \A v, w \in Run :
      /\ pc[v] = "exec" /\ pc[w] = "exec" /\ v # w
      /\ BaseOf[cur[v].key] = BaseOf[cur[w].key]
      => \A r \in cur[v].seeds \cap cur[w].seeds :
           LocksByRecord(TableOf[r], cur[v].seeds) # LocksByRecord(TableOf[r], cur[w].seeds)

\* Running transactions hold disjoint locks: why SameLocksExclude holds.
LocksHeld ==
  \A v, w \in Run : pc[v] = "exec" /\ pc[w] = "exec" /\ v # w
                      => ItemLocks(cur[v]) \cap ItemLocks(cur[w]) = {}

\* While a task is in the outbox its attempts are never counted down, neither by
\* new work that is merged into it, nor by a run that counts from the copy it
\* has made when it claimed the task: a task that keeps failing comes to its
\* last attempt.
AttemptsNeverDrop ==
  [][\A t \in Live(rows) : t \in Live(rows') => rows'[t].attempts >= rows[t].attempts]_vars

=============================================================================
