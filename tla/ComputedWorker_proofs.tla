------------------------- MODULE ComputedWorker_proofs ------------------------
(***************************************************************************)
(* Proofs about computed updates, for every set of records, tasks, runs    *)
(* and keys.                                                               *)
(***************************************************************************)
EXTENDS ComputedWorker, FiniteSetTheorems, TLAPS

-----------------------------------------------------------------------------
(***************************************************************************)
(* The operators on the outbox table.                                      *)
(***************************************************************************)
Rows == [Task -> Row \cup {Absent}]

\* Comparing a number of seeds with the inline limit gives a truth value.
LEMMA InlineIsBoolean ==
  ASSUME NEW S \in SUBSET Record
  PROVE  /\ Cardinality(S) \in Nat
         /\ (Cardinality(S) <= SeedInlineLimit) \in BOOLEAN
<1>1. IsFiniteSet(S)
  BY SeedsAssumption, FS_Subset
<1>2. Cardinality(S) \in Nat
  BY <1>1, FS_CardinalityType
<1> QED
  BY <1>2, OutboxAssumption

\* A row of the table is a task or absent, and the status tells which.
LEMMA RowOrAbsent ==
  ASSUME NEW rws \in Rows, NEW t \in Task
  PROVE  /\ rws[t].status # "absent" => rws[t] \in Row
         /\ rws[t].status = "absent" => rws[t] = Absent
BY DEF Rows, Row, Absent

\* A task is merged into a pending row of its key or inserted in a free one.
LEMMA TargetIsPendingOrFree ==
  ASSUME NEW rws \in Rows, NEW k \in Key, NEW t \in EnqueueTargets(rws, k)
  PROVE  /\ t \in Task
         /\ \/ rws[t].status = "absent"
            \/ rws[t].status = "pending" /\ rws[t] \in Row /\ rws[t].key = k
BY RowOrAbsent DEF EnqueueTargets, PendingWith, Live

\* An enqueue leaves a well-typed table and a pending row.
LEMMA EnqueueType ==
  ASSUME NEW rws \in Rows, NEW k \in Key, NEW S \in SUBSET Record,
         NEW t \in EnqueueTargets(rws, k)
  PROVE  /\ Enqueue(rws, t, k, S) \in Rows
         /\ Enqueue(rws, t, k, S)[t] \in Row
         /\ Enqueue(rws, t, k, S)[t].status = "pending"
<1>1. t \in Task /\ (rws[t].status = "absent" \/ (rws[t].status = "pending" /\ rws[t] \in Row))
  BY TargetIsPendingOrFree
<1>2. CASE rws[t].status = "absent"
  <2>1. InsertedRow(k, S) \in Row /\ InsertedRow(k, S).status = "pending"
    BY InlineIsBoolean, OutboxAssumption DEF InsertedRow, Row
  <2> QED
    BY <1>1, <1>2, <2>1 DEF Enqueue, Rows
<1>3. CASE rws[t].status = "pending" /\ rws[t] \in Row
  <2>1. LoadedSeeds(rws[t]) \cup S \in SUBSET Record /\ rws[t].seeds \in SUBSET Record
    BY <1>3 DEF LoadedSeeds, Row
  <2>2. (Cardinality(LoadedSeeds(rws[t]) \cup S) <= SeedInlineLimit) \in BOOLEAN
    BY <2>1, InlineIsBoolean
  <2>3. MergedRow(rws[t], S) \in Row /\ MergedRow(rws[t], S).status = "pending"
    BY <1>3, <2>1, <2>2 DEF MergedRow, Row
  <2> QED
    BY <1>1, <1>3, <2>3 DEF Enqueue, Rows
<1> QED
  BY <1>1, <1>2, <1>3

\* No claimed task is too deep to have a next stage.
LEMMA AlwaysGoesOn == \A i : GoesOn(i)
BY WorkerAssumption DEF GoesOn, StageDepth

\* Claims, renewals, removals and releases leave a well-typed table.
LEMMA ClaimType ==
  ASSUME NEW rws \in Rows, NEW w \in Run, NEW claimed \in SUBSET Task,
         \A t \in claimed : rws[t].status # "absent"
  PROVE  Claim(rws, w, claimed) \in Rows
<1> SUFFICES ASSUME NEW t \in Task
             PROVE  Claim(rws, w, claimed)[t] \in Row \cup {Absent}
  BY DEF Claim, Rows
<1>1. CASE t \in claimed
  <2>1. rws[t] \in Row
    BY <1>1, RowOrAbsent
  <2> QED
    BY <1>1, <2>1 DEF Claim, Row
<1>2. CASE t \notin claimed
  BY <1>2 DEF Claim, Rows
<1> QED
  BY <1>1, <1>2

\* See ClaimType.
LEMMA RenewLeaseType ==
  ASSUME NEW rws \in Rows, NEW w \in Run, NEW ids
  PROVE  RenewLease(rws, w, ids) \in Rows
<1> SUFFICES ASSUME NEW t \in Task
             PROVE  RenewLease(rws, w, ids)[t] \in Row \cup {Absent}
  BY DEF RenewLease, Rows
<1>1. CASE t \in ids /\ Owns(rws, w, t)
  <2>1. rws[t] \in Row
    BY <1>1, RowOrAbsent DEF Owns
  <2> QED
    BY <1>1, <2>1 DEF RenewLease, Row
<1>2. CASE ~(t \in ids /\ Owns(rws, w, t))
  BY <1>2 DEF RenewLease, Rows
<1> QED
  BY <1>1, <1>2

\* See ClaimType.
LEMMA MarkDoneType ==
  ASSUME NEW rws \in Rows, NEW w \in Run, NEW t \in Task
  PROVE  MarkDone(rws, w, t) \in Rows
BY DEF MarkDone, Rows

\* See ClaimType.
LEMMA BackToPendingType ==
  ASSUME NEW rws \in Rows, NEW t \in Task, rws[t].status # "absent",
         NEW n \in 0..MaxAttempts-1
  PROVE  BackToPending(rws, t, n) \in Rows
<1>1. rws[t] \in Row
  BY RowOrAbsent
<1> QED
  BY <1>1 DEF BackToPending, Rows, Row

-----------------------------------------------------------------------------
(***************************************************************************)
(* Type correctness.                                                       *)
(***************************************************************************)
\* The item made of a row of the table is an item.
LEMMA ItemType ==
  ASSUME TypeOK, NEW t \in Task, rows[t].status # "absent"
  PROVE  ItemOf(t) \in Item
<1>1. rows[t] \in Row
  BY RowOrAbsent DEF TypeOK, Rows
<1> QED
  BY <1>1 DEF ItemOf, Item, Row

\* The seeds of the next stage are records with dependents.
LEMMA SeedsOfStage ==
  ASSUME NEW S \in SUBSET Record
  PROVE  /\ Affected(S) \in SUBSET Record
         /\ NextSeeds(S) \in SUBSET Record
         /\ NextSeeds(S) \subseteq HasDependents
BY SeedsAssumption DEF Affected, NextSeeds, HasDependents

\* A split covers every seed of the task, with chunks of seeds of the task.
LEMMA ChunksCover ==
  ASSUME NEW i \in Item, NEW parts \in Chunkings(i)
  PROVE  /\ parts \in SUBSET Chunk
         /\ \A r \in i.seeds : \E c \in parts : r \in c.seeds
<1> DEFINE n == (Cardinality(i.seeds) + MaxSeedRecordsPerTask - 1) \div MaxSeedRecordsPerTask
           Part(f, c) == {r \in i.seeds : f[r] = c}
<1>1. PICK f \in [i.seeds -> 1..n] :
        /\ \A c \in 1..n : Part(f, c) # {}
        /\ parts = {[key |-> ChunkKey[i.key, c], seeds |-> Part(f, c)] : c \in 1..n}
  BY DEF Chunkings
<1>2. i.seeds \in SUBSET Record /\ i.key \in Key
  BY DEF Item
<1>3. IsFiniteSet(Record) /\ IsFiniteSet(i.seeds) /\ Cardinality(i.seeds) <= Cardinality(Record)
      /\ Cardinality(i.seeds) \in Nat /\ Cardinality(Record) \in Nat
  BY <1>2, SeedsAssumption, FS_Subset, FS_CardinalityType
<1>4. n \in Int
  BY <1>3, WorkerAssumption
<1>5. ASSUME NEW c \in 1..n PROVE c \in 1..Cardinality(Record)
  <2>1. n \in Nat
    BY <1>4
  <2>2. IsFiniteSet(1..n) /\ Cardinality(1..n) = n
    BY <2>1, FS_Interval
  <2>3. f \in Surjection(i.seeds, 1..n)
    BY <1>1 DEF Surjection
  <2>4. n <= Cardinality(i.seeds)
    BY <1>3, <2>2, <2>3, FS_Surjection
  <2> QED
    BY <1>3, <1>4, <2>4
<1>6. ASSUME NEW c \in 1..n PROVE [key |-> ChunkKey[i.key, c], seeds |-> Part(f, c)] \in Chunk
  <2>1. ChunkKey[i.key, c] \in Key
    BY <1>2, <1>5, WorkerAssumption
  <2> QED
    BY <1>2, <2>1 DEF Chunk
<1>7. parts \in SUBSET Chunk
  BY <1>1, <1>6
<1>8. ASSUME NEW r \in i.seeds PROVE \E c \in parts : r \in c.seeds
  <2>1. f[r] \in 1..n
    BY <1>1
  <2>2. [key |-> ChunkKey[i.key, f[r]], seeds |-> Part(f, f[r])] \in parts
    BY <1>1, <2>1
  <2> QED
    BY <2>2
<1> QED
  BY <1>7, <1>8

\* A batch takes due pending rows and rows whose lease has run out.
LEMMA ClaimsDueOrStale ==
  ASSUME NEW w \in Run, ClaimBatch(w)
  PROVE  \E claimed \in SUBSET (StaleRows(rows) \cup DueRows(rows)) :
           /\ rows' = Claim(rows, w, claimed)
           /\ batch' = [batch EXCEPT ![w] = {ItemOf(t) : t \in claimed}]
<1>1. PICK reclaimed \in UpTo(SmallerOf(ClaimLimit, ReclaimBatchSize),
                              {t \in StaleRows(rows) : NotPaused(t)}) :
        \E pending \in UpTo(ClaimLimit - Cardinality(reclaimed),
                            {t \in DueRows(rows) : NotPaused(t)}) :
        \E claimed \in OnePerScope(reclaimed \cup pending, reclaimed) :
          /\ rows' = Claim(rows, w, claimed)
          /\ batch' = [batch EXCEPT ![w] = {ItemOf(t) : t \in claimed}]
  BY DEF ClaimBatch
<1>2. PICK pending \in UpTo(ClaimLimit - Cardinality(reclaimed),
                            {t \in DueRows(rows) : NotPaused(t)}) :
        \E claimed \in OnePerScope(reclaimed \cup pending, reclaimed) :
          /\ rows' = Claim(rows, w, claimed)
          /\ batch' = [batch EXCEPT ![w] = {ItemOf(t) : t \in claimed}]
  BY <1>1
<1>3. PICK claimed \in OnePerScope(reclaimed \cup pending, reclaimed) :
        /\ rows' = Claim(rows, w, claimed)
        /\ batch' = [batch EXCEPT ![w] = {ItemOf(t) : t \in claimed}]
  BY <1>2
<1>4. reclaimed \subseteq StaleRows(rows) /\ pending \subseteq DueRows(rows)
  BY DEF UpTo
<1>5. claimed \subseteq reclaimed \cup pending
  BY DEF OnePerScope
<1> QED
  BY <1>3, <1>4, <1>5

\* The initial state is well typed.
LEMMA InitType == Init => TypeOK
BY DEF Init, TypeOK, Row, Absent

\* Every step keeps the types.
LEMMA StepType == TypeOK /\ [Next]_vars => TypeOK'
<1> SUFFICES ASSUME TypeOK, [Next]_vars PROVE TypeOK'
  OBVIOUS
<1>0. rows \in Rows
  BY DEF TypeOK, Rows
<1>1. ASSUME NEW r \in Record, Write(r) PROVE TypeOK'
  <2>1. PICK k \in WriteKeys[r] : \E t \in EnqueueTargets(rows, k) :
          rows' = Enqueue(rows, t, k, {r})
    BY <1>1 DEF Write
  <2>2. k \in Key
    BY <2>1, WorkerAssumption
  <2>3. rows' \in Rows
    BY <1>0, <2>1, <2>2, EnqueueType
  <2> QED
    BY <1>1, <2>3 DEF Write, TypeOK, Rows
<1>3. ASSUME NEW w \in Run, ClaimBatch(w) PROVE TypeOK'
  <2>1. PICK claimed \in SUBSET (StaleRows(rows) \cup DueRows(rows)) :
          /\ rows' = Claim(rows, w, claimed)
          /\ batch' = [batch EXCEPT ![w] = {ItemOf(t) : t \in claimed}]
    BY <1>3, ClaimsDueOrStale
  <2>2. claimed \in SUBSET Task /\ \A t \in claimed : rows[t].status # "absent"
    BY <2>1 DEF StaleRows, DueRows
  <2>3. {ItemOf(t) : t \in claimed} \in SUBSET Item
    BY <2>2, ItemType
  <2>4. rows' \in Rows
    BY <1>0, <2>1, <2>2, ClaimType
  <2> QED
    BY <1>3, <2>1, <2>3, <2>4 DEF ClaimBatch, TypeOK, Rows
<1>4. ASSUME NEW w \in Run, NEW t \in Task, ClaimById(w, t) PROVE TypeOK'
  <2>1. rows[t].status # "absent"
    BY <1>4 DEF ClaimById
  <2>2. ItemOf(t) \in Item
    BY <2>1, ItemType
  <2>3. rows' \in Rows
    BY <1>0, <1>4, <2>1, ClaimType DEF ClaimById
  <2> QED
    BY <1>4, <2>2, <2>3 DEF ClaimById, TypeOK, Rows
<1>5. ASSUME NEW w \in Run, Heartbeat(w) PROVE TypeOK'
  <2>1. rows' \in Rows
    BY <1>0, <1>5, RenewLeaseType DEF Heartbeat
  <2> QED
    BY <1>5, <2>1 DEF Heartbeat, TypeOK, Rows
<1>6. ASSUME NEW w \in Run, NEW i \in batch[w], Begin(w, i), rows' \in Rows PROVE TypeOK'
  <2>1. i \in Item
    BY DEF TypeOK
  <2>2. chunks' \in [Run -> SUBSET Chunk]
    BY <1>6, <2>1, ChunksCover DEF Begin, TypeOK
  <2> QED
    BY <1>6, <2>1, <2>2 DEF Begin, TypeOK, Rows
<1>7. ASSUME NEW w \in Run, StartTask(w) PROVE TypeOK'
  BY <1>0, <1>6, <1>7, RenewLeaseType DEF StartTask
<1>8. ASSUME NEW w \in Run, StartUnrenewed(w) PROVE TypeOK'
  BY <1>0, <1>6, <1>8 DEF StartUnrenewed
<1>9. ASSUME NEW w \in Run, SkipLostTask(w) PROVE TypeOK'
  BY <1>9 DEF SkipLostTask, TypeOK
<1>10. ASSUME NEW w \in Run, EnqueueChunk(w) PROVE TypeOK'
  <2>1. PICK c \in chunks[w] : \E t \in EnqueueTargets(rows, c.key) :
          /\ rows' = Enqueue(rows, t, c.key, c.seeds)
          /\ chunks' = [chunks EXCEPT ![w] = @ \ {c}]
    BY <1>10 DEF EnqueueChunk
  <2>2. c.key \in Key /\ c.seeds \in SUBSET Record
    BY DEF TypeOK, Chunk
  <2>3. rows' \in Rows
    BY <1>0, <2>1, <2>2, EnqueueType
  <2> QED
    BY <1>10, <2>1, <2>3 DEF EnqueueChunk, TypeOK, Rows
<1>11. ASSUME NEW w \in Run, SplitDone(w) PROVE TypeOK'
  <2>1. cur[w].id \in Task
    BY <1>11 DEF SplitDone, TypeOK, Item
  <2>2. rows' \in Rows
    BY <1>0, <1>11, <2>1, MarkDoneType DEF SplitDone
  <2> QED
    BY <1>11, <2>2 DEF SplitDone, TypeOK, Rows
<1>12. ASSUME NEW w \in Run, AcquireLocks(w) PROVE TypeOK'
  BY <1>12 DEF AcquireLocks, TypeOK
<1>13. ASSUME NEW w \in Run, LockUnavailable(w) PROVE TypeOK'
  BY <1>13 DEF LockUnavailable, TypeOK
<1>14. ASSUME NEW w \in Run, Commit(w) PROVE TypeOK'
  <2>1. cur[w].id \in Task /\ cur[w].key \in Key /\ cur[w].seeds \in SUBSET Record
    BY <1>14 DEF Commit, TypeOK, Item
  <2>2. NextKey[cur[w].key] \in Key
    BY <2>1, WorkerAssumption
  <2>3. /\ NextSeeds(cur[w].seeds) \in SUBSET Record
        /\ NextSeeds(cur[w].seeds) \subseteq HasDependents
    BY <2>1, SeedsOfStage
  <2>4. rows' \in Rows
    BY <1>0, <1>14, <2>1, <2>2, <2>3, EnqueueType, MarkDoneType, AlwaysGoesOn DEF Commit
  <2>5. stale' \subseteq HasDependents
    BY <1>14, <2>3 DEF Commit, StaleAfter, TypeOK
  <2>6. snap' \in [Run -> SUBSET Record]
    BY <1>14 DEF Commit, TypeOK
  <2> QED
    BY <1>14, <2>4, <2>5, <2>6 DEF Commit, TypeOK, Rows
<1>15. ASSUME NEW w \in Run, TaskFails(w) PROVE TypeOK'
  BY <1>15 DEF TaskFails, TypeOK
<1>16. ASSUME NEW w \in Run, MarkFailed(w) PROVE TypeOK'
  <2>1. cur[w] \in Item /\ cur[w].id \in Task
    BY <1>16 DEF MarkFailed, TypeOK, Item
  <2>2. rows' \in Rows /\ deadLetter' \subseteq Letter
    <3>1. CASE UNCHANGED <<rows, deadLetter>>
      BY <1>0, <3>1 DEF TypeOK
    <3>2. CASE /\ deadLetter' = deadLetter \cup {[key |-> cur[w].key, seeds |-> cur[w].seeds]}
               /\ rows' = [rows EXCEPT ![cur[w].id] = Absent]
      BY <1>0, <2>1, <3>2 DEF TypeOK, Rows, Item, Letter
    <3>3. CASE /\ Owns(rows, w, cur[w].id)
               /\ ~(cur[w].attempts + 1 >= MaxAttempts)
               /\ rows' = BackToPending(rows, cur[w].id, cur[w].attempts + 1)
               /\ UNCHANGED deadLetter
      <4>1. cur[w].attempts + 1 \in 0..MaxAttempts-1
        BY <2>1, <3>3, OutboxAssumption DEF Item
      <4> QED
        BY <1>0, <2>1, <3>3, <4>1, BackToPendingType DEF Owns, TypeOK
    <3> QED
      BY <1>16, <3>1, <3>2, <3>3 DEF MarkFailed
  <2> QED
    BY <1>16, <2>2 DEF MarkFailed, Settled, TypeOK, Rows
<1>17. ASSUME NEW w \in Run, ReleaseForRetry(w) PROVE TypeOK'
  <2>1. cur[w].id \in Task
    BY <1>17 DEF ReleaseForRetry, TypeOK, Item
  <2>2. ASSUME Owns(rows, w, cur[w].id)
        PROVE  BackToPending(rows, cur[w].id, rows[cur[w].id].attempts) \in Rows
    <3>1. rows[cur[w].id].status # "absent"
      BY <2>2 DEF Owns
    <3>2. rows[cur[w].id].attempts \in 0..MaxAttempts-1
      BY <1>0, <2>1, <3>1, RowOrAbsent DEF Row
    <3> QED
      BY <1>0, <2>1, <3>1, <3>2, BackToPendingType
  <2>3. rows' \in Rows
    BY <1>0, <1>17, <2>2 DEF ReleaseForRetry
  <2> QED
    BY <1>17, <2>3 DEF ReleaseForRetry, Settled, TypeOK, Rows
<1>18. ASSUME NEW w \in Run, Crash(w) PROVE TypeOK'
  BY <1>18 DEF Crash, TypeOK
<1>19. ASSUME NEW t \in Task, LeaseExpires(t) \/ BackoffElapses(t) PROVE TypeOK'
  <2>1. rows[t] \in Row
    BY <1>0, <1>19, RowOrAbsent DEF LeaseExpires, BackoffElapses
  <2>2. [rows[t] EXCEPT !.fresh = FALSE] \in Row /\ [rows[t] EXCEPT !.due = TRUE] \in Row
    BY <2>1 DEF Row
  <2>3. \/ rows' = [rows EXCEPT ![t] = [rows[t] EXCEPT !.fresh = FALSE]]
        \/ rows' = [rows EXCEPT ![t] = [rows[t] EXCEPT !.due = TRUE]]
    BY <1>0, <1>19 DEF LeaseExpires, BackoffElapses, Rows
  <2>4. rows' \in Rows
    BY <1>0, <2>2, <2>3 DEF Rows
  <2> QED
    BY <1>19, <2>4 DEF LeaseExpires, BackoffElapses, TypeOK, Rows
<1>20. ASSUME NEW s \in Scope, Pause(s) \/ Resume(s) PROVE TypeOK'
  BY <1>20 DEF Pause, Resume, TypeOK
<1>21. CASE UNCHANGED vars
  BY <1>21 DEF vars, TypeOK
<1> QED
  BY <1>1, <1>3, <1>4, <1>5, <1>7, <1>8, <1>9, <1>10, <1>11, <1>12, <1>13, <1>14,
     <1>15, <1>16, <1>17, <1>18, <1>19, <1>20, <1>21 DEF Next, Work

\* Every variable keeps its type, for every set of records, tasks and runs.
THEOREM TypeCorrect == Spec => []TypeOK
BY InitType, StepType, PTL DEF Spec

=============================================================================
