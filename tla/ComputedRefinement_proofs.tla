---------------------- MODULE ComputedRefinement_proofs ----------------------
(***************************************************************************)
(* The outbox and its workers implement ComputedPromise, and no step       *)
(* counts the attempts of a task down.                                     *)
(***************************************************************************)
EXTENDS ComputedSafety_proofs

-----------------------------------------------------------------------------
(***************************************************************************)
(* What is queued and parked.                                              *)
(***************************************************************************)
\* The two modules speak of the same seeds.
LEMMA SameSeeds ==
  /\ Promise!HasDependents = HasDependents
  /\ \A S : Promise!NextSeeds(S) = NextSeeds(S)
BY DEF Promise!HasDependents, HasDependents, Promise!NextSeeds, NextSeeds,
       Promise!Affected, Affected

\* A record is queued by a row, and parked by a letter.
LEMMA QueuedByRow ==
  ASSUME NEW r
  PROVE  r \in Queued <=> \E t \in Live(rows) : r \in rows[t].seeds
BY DEF Queued

\* See QueuedByRow.
LEMMA ParkedByLetter ==
  ASSUME NEW r
  PROVE  r \in ParkedSeeds <=> Parked(r)
BY DEF ParkedSeeds, Parked

\* What is stale is queued, parked or lost.
LEMMA StaleIsQueued == IInv => stale \subseteq Queued \cup ParkedSeeds \cup lost
<1> SUFFICES ASSUME IInv, NEW r \in stale, r \notin lost PROVE r \in Queued \cup ParkedSeeds
  OBVIOUS
<1>1. Backed(r)
  BY DEF IInv, StaleIsBacked
<1> QED
  BY <1>1, QueuedByRow, ParkedByLetter DEF Backed, Backs

\* ... and is so after a step.
LEMMA StaleIsQueuedNext == IInv' => (stale \subseteq Queued \cup ParkedSeeds \cup lost)'
BY StaleIsQueued, PTL

\* A step loses what it overwrites or forgets, and nothing else.
LEMMA LosesOnly ==
  ASSUME IInv', TrackLosses, NEW S, Overwritten \subseteq S, Forgotten \subseteq S
  PROVE  Promise!Lose(S)
<1>1. stale' \subseteq Queued' \cup ParkedSeeds' \cup lost'
  BY StaleIsQueuedNext
<1>2. lost' \in SUBSET ((lost \cup S) \cap stale')
  BY DEF TrackLosses
<1> QED
  BY <1>1, <1>2 DEF Promise!Lose

\* No step but a commit overwrites anything.
LEMMA NothingOverwritten ==
  ASSUME stale' \subseteq stale \/ \A v \in Run : pc'[v] = pc[v]
  PROVE  Overwritten = {}
BY DEF Overwritten, Overwrites

\* No step that keeps the rows of pending tasks forgets anything.
LEMMA NothingForgotten ==
  ASSUME \A t \in Live(rows) : rows[t].status = "pending" => rows'[t].seeds = rows[t].seeds
  PROVE  Forgotten = {}
BY DEF Forgotten

\* A table with the same rows for the same seeds queues the same records.
LEMMA QueuedStays ==
  ASSUME \A t \in Task : RowStays(t)
  PROVE  Queued' = Queued
<1>1. ASSUME NEW r PROVE r \in Queued' <=> r \in Queued
  BY QueuedByRow DEF Queued, RowStays, Live
<1> QED
  BY <1>1

\* An enqueue gives a row no other seeds than its own and the new ones.
LEMMA EnqueueAddsOnly ==
  ASSUME NEW rws \in Rows, NEW k \in Key, NEW S \in SUBSET Record,
         NEW t \in EnqueueTargets(rws, k), NEW r \in Enqueue(rws, t, k, S)[t].seeds
  PROVE  r \in S \/ (t \in Live(rws) /\ r \in rws[t].seeds)
<1>1. /\ t \in Task
      /\ \/ rws[t].status = "absent"
         \/ rws[t].status = "pending" /\ rws[t] \in Row
  BY TargetIsPendingOrFree
<1>2. CASE rws[t].status = "absent"
  BY <1>1, <1>2 DEF Enqueue, Rows, InsertedRow
<1>3. CASE rws[t].status = "pending" /\ rws[t] \in Row
  <2>1. Enqueue(rws, t, k, S)[t] = MergedRow(rws[t], S)
    BY <1>1, <1>3 DEF Enqueue, Rows
  <2>2. MergedRow(rws[t], S).seeds \subseteq rws[t].seeds \cup S
    BY <1>3 DEF MergedRow, LoadedSeeds, Row
  <2> QED
    BY <1>1, <1>3, <2>1, <2>2 DEF Live
<1> QED
  BY <1>1, <1>2, <1>3

\* An enqueue queues the new seeds, and forgets what was queued only.
LEMMA EnqueueQueues ==
  ASSUME TypeOK,
         NEW k \in Key, NEW S \in SUBSET Record, NEW t \in EnqueueTargets(rows, k),
         rows' = Enqueue(rows, t, k, S)
  PROVE  /\ S \subseteq Queued'
         /\ Queued' \subseteq Queued \cup S
         /\ Forgotten \subseteq Queued \ S
<1>0. rows \in Rows
  BY DEF TypeOK, Rows
<1>1. /\ t \in Task
      /\ \A u \in Task \ {t} : rows'[u] = rows[u]
  <2>1. t \in Task /\ \A u \in Task \ {t} : Enqueue(rows, t, k, S)[u] = rows[u]
    BY <1>0, EnqueueEffect
  <2> QED
    BY <2>1
<1>2. S \subseteq rows'[t].seeds
  <2>1. S \subseteq Enqueue(rows, t, k, S)[t].seeds
    BY <1>0, EnqueueKeepsSeeds
  <2> QED
    BY <2>1
<1>3. t \in Live(rows')
  <2>1. Enqueue(rows, t, k, S)[t].status = "pending"
    BY <1>0, EnqueueType
  <2> QED
    BY <1>1, <2>1 DEF Live
<1>4. \A r \in rows'[t].seeds : r \in S \/ (t \in Live(rows) /\ r \in rows[t].seeds)
  <2>1. \A r \in Enqueue(rows, t, k, S)[t].seeds :
          r \in S \/ (t \in Live(rows) /\ r \in rows[t].seeds)
    BY <1>0, EnqueueAddsOnly
  <2> QED
    BY <2>1
<1>5. ASSUME NEW r \in Queued' PROVE r \in Queued \cup S
  <2>1. PICK u \in Live(rows') : r \in rows'[u].seeds
    BY <1>5 DEF Queued
  <2>2. CASE u = t
    BY <1>4, <2>1, <2>2 DEF Queued
  <2>3. CASE u # t
    BY <1>1, <2>1, <2>3 DEF Queued, Live
  <2> QED
    BY <2>2, <2>3
<1>6. S \subseteq Queued'
  BY <1>2, <1>3 DEF Queued
<1>7. ASSUME NEW r \in Forgotten PROVE r \in Queued \ S
  <2>1. PICK u \in Live(rows) : r \in rows[u].seeds \ rows'[u].seeds
    BY <1>7 DEF Forgotten
  <2>2. u = t
    BY <1>1, <2>1 DEF Live
  <2> QED
    BY <1>2, <2>1, <2>2 DEF Queued
<1> QED
  BY <1>5, <1>6, <1>7

\* Removing a row takes at most its seeds out of the queue.
LEMMA RemovalQueues ==
  ASSUME TypeOK, NEW id \in Task, rows' = [rows EXCEPT ![id] = Absent]
  PROVE  /\ Queued' \subseteq Queued
         /\ Queued \subseteq Queued' \cup (IF id \in Live(rows) THEN rows[id].seeds ELSE {})
<1>1. rows'[id] = Absent /\ \A u \in Task \ {id} : rows'[u] = rows[u]
  BY DEF TypeOK
<1>2. Live(rows') = Live(rows) \ {id}
  BY <1>1 DEF Live, Absent
<1>3. ASSUME NEW r \in Queued' PROVE r \in Queued
  <2>1. PICK u \in Live(rows') : r \in rows'[u].seeds
    BY <1>3 DEF Queued
  <2> QED
    BY <1>1, <1>2, <2>1 DEF Queued, Live
<1>4. ASSUME NEW r \in Queued
      PROVE  r \in Queued' \cup (IF id \in Live(rows) THEN rows[id].seeds ELSE {})
  <2>1. PICK u \in Live(rows) : r \in rows[u].seeds
    BY <1>4 DEF Queued
  <2>2. CASE u = id
    BY <2>1, <2>2
  <2>3. CASE u # id
    <3>1. u \in Live(rows') /\ rows'[u] = rows[u]
      BY <1>1, <1>2, <2>1, <2>3 DEF Live
    <3> QED
      BY <2>1, <3>1 DEF Queued
  <2> QED
    BY <2>2, <2>3
<1> QED
  BY <1>3, <1>4

-----------------------------------------------------------------------------
(***************************************************************************)
(* Every step is a step of ComputedPromise, or changes nothing it sees.    *)
(***************************************************************************)
\* A step that keeps every row, what is stale and what is parked drops nothing
\* from the queue.
LEMMA KeepsRefine ==
  ASSUME IInv', TrackLosses,
         \A t \in Task : RowStays(t), stale' = stale, deadLetter' = deadLetter
  PROVE  Promise!Drop
<1>1. Queued' = Queued /\ ParkedSeeds' = ParkedSeeds
  BY QueuedStays DEF ParkedSeeds
<1>2. Overwritten = {} /\ Forgotten = {}
  BY NothingOverwritten, NothingForgotten DEF RowStays, Live
<1>3. Promise!Lose({})
  BY <1>2, LosesOnly
<1> QED
  BY <1>1, <1>3 DEF Promise!Drop

\* A quiet step, and the start of a task, do no more than that.
LEMMA QuietRefines ==
  ASSUME TypeOK, IInv', TrackLosses, Quiet
  PROVE  Promise!Drop
BY QuietStep, KeepsRefine

\* See QuietRefines.
LEMMA StartRefines ==
  ASSUME TypeOK, IInv', TrackLosses, NEW w \in Run, StartTask(w) \/ StartUnrenewed(w)
  PROVE  Promise!Drop
<1>1. PICK i \in batch[w] : /\ Begin(w, i)
                            /\ rows' = rows \/ rows' = RenewLease(rows, w, {i.id})
  BY DEF StartTask, StartUnrenewed
<1>2. {i.id} \in SUBSET Task
  BY DEF TypeOK, Item
<1>3. \A t \in Task : RowStays(t)
  BY <1>1, <1>2, RowsKept DEF RowStays
<1> QED
  BY <1>1, <1>3, KeepsRefine DEF Begin

\* A write queues its record.
LEMMA WriteRefines ==
  ASSUME TypeOK, IInv', TrackLosses, NEW r \in Record, Write(r)
  PROVE  Promise!Write(r)
<1>1. PICK k \in WriteKeys[r] : \E t \in EnqueueTargets(rows, k) :
        rows' = Enqueue(rows, t, k, {r})
  BY DEF Write
<1>2. k \in Key /\ {r} \in SUBSET Record
  BY WorkerAssumption
<1>3. {r} \subseteq Queued' /\ Queued' \subseteq Queued \cup {r} /\ Forgotten \subseteq Queued \ {r}
  BY <1>1, <1>2, EnqueueQueues
<1>4. Overwritten = {}
  BY NothingOverwritten DEF Write
<1>5. Promise!Lose(Queued \ {r})
  BY <1>3, <1>4, LosesOnly
<1>6. Promise!Queue({r})
  BY <1>3, <1>5 DEF Promise!Queue, Write, ParkedSeeds
<1> QED
  BY <1>6, SameSeeds DEF Write, Promise!Write

\* A chunk of a split task is queued, again if it has been done since.
LEMMA EnqueueChunkRefines ==
  ASSUME TypeOK, IInv', TrackLosses, NEW w \in Run, EnqueueChunk(w)
  PROVE  \E S \in SUBSET Record : Promise!Requeue(S)
<1>1. PICK c \in chunks[w] : \E t \in EnqueueTargets(rows, c.key) :
        rows' = Enqueue(rows, t, c.key, c.seeds)
  BY DEF EnqueueChunk
<1>2. c.key \in Key /\ c.seeds \in SUBSET Record
  BY DEF TypeOK, Chunk
<1>3. /\ c.seeds \subseteq Queued'
      /\ Queued' \subseteq Queued \cup c.seeds
      /\ Forgotten \subseteq Queued \ c.seeds
  BY <1>1, <1>2, EnqueueQueues
<1>4. Overwritten = {}
  BY NothingOverwritten DEF EnqueueChunk
<1>5. Promise!Lose(Queued \ c.seeds)
  BY <1>3, <1>4, LosesOnly
<1>6. Promise!Requeue(c.seeds)
  BY <1>3, <1>5 DEF Promise!Requeue, Promise!Queue, EnqueueChunk, ParkedSeeds
<1> QED
  BY <1>2, <1>6

\* The row of a split task leaves the queue; what is stale of it is queued by
\* the chunks, parked, or lost already.
LEMMA SplitDoneRefines ==
  ASSUME TypeOK, IInv', TrackLosses, NEW w \in Run, SplitDone(w)
  PROVE  Promise!Drop
<1>1. cur[w].id \in Task
  BY DEF SplitDone, TypeOK, Item
<1>2. Queued' \subseteq Queued
  <2>1. CASE rows' = rows
    BY <2>1 DEF Queued
  <2>2. CASE rows' = [rows EXCEPT ![cur[w].id] = Absent]
    BY <1>1, <2>2, RemovalQueues
  <2> QED
    BY <2>1, <2>2 DEF SplitDone, MarkDone
<1>3. stale' = stale /\ ParkedSeeds' = ParkedSeeds
  BY DEF SplitDone, ParkedSeeds
<1>4. Forgotten = {}
  <2>1. \A t \in Live(rows) : rows[t].status = "pending" => rows'[t] = rows[t]
    BY <1>1 DEF SplitDone, MarkDone, Owns, Live, TypeOK
  <2> QED
    BY <2>1, NothingForgotten
<1>5. Promise!Lose({})
  BY <1>3, <1>4, NothingOverwritten, LosesOnly
<1> QED
  BY <1>2, <1>3, <1>5 DEF Promise!Drop

\* A task that has failed too often leaves the queue for the dead letters, with
\* all its seeds.
LEMMA MarkFailedRefines ==
  ASSUME TypeOK, OwnedItemIsCurrent, IInv', TrackLosses, NEW w \in Run, MarkFailed(w)
  PROVE  Promise!Park \/ Promise!Drop
<1>0. cur[w] \in Item /\ cur[w].id \in Task /\ cur[w].attempts \in Nat
  BY OutboxAssumption DEF MarkFailed, TypeOK, Item
<1>1. CASE /\ Owns(rows, w, cur[w].id)
           /\ deadLetter' = deadLetter \cup {[key |-> cur[w].key, seeds |-> cur[w].seeds]}
           /\ rows' = [rows EXCEPT ![cur[w].id] = Absent]
  <2>1. cur[w].seeds = rows[cur[w].id].seeds /\ cur[w].id \in Live(rows)
    BY <1>0, <1>1 DEF OwnedItemIsCurrent, MarkFailed, ItemOf, Owns, Live
  <2>2. cur[w].seeds \subseteq Queued
    BY <2>1 DEF Queued
  <2>3. Queued' \subseteq Queued /\ Queued \subseteq Queued' \cup cur[w].seeds
    BY <1>0, <1>1, <2>1, RemovalQueues
  <2>4. ParkedSeeds' = ParkedSeeds \cup cur[w].seeds
    <3> DEFINE letter == [key |-> cur[w].key, seeds |-> cur[w].seeds]
    <3>1. letter.seeds = cur[w].seeds /\ deadLetter' = deadLetter \cup {letter}
      BY <1>1
    <3> HIDE DEF letter
    <3> QED
      BY <3>1 DEF ParkedSeeds
  <2>5. stale' = stale
    BY DEF MarkFailed, Settled
  <2>6. Forgotten = {}
    <3>1. \A t \in Live(rows) : rows[t].status = "pending" => rows'[t] = rows[t]
      BY <1>0, <1>1 DEF Owns, Live, TypeOK
    <3> QED
      BY <3>1, NothingForgotten
  <2>7. Promise!Lose({})
    BY <2>5, <2>6, NothingOverwritten, LosesOnly
  <2> QED
    BY <2>2, <2>3, <2>4, <2>5, <2>7 DEF Promise!Park
<1>2. CASE /\ UNCHANGED deadLetter
           /\ \/ rows' = rows
              \/ /\ Owns(rows, w, cur[w].id)
                 /\ rows' = BackToPending(rows, cur[w].id, cur[w].attempts + 1)
  <2>1. rows' = rows \/ \E t \in Live(rows), n \in Nat : rows' = BackToPending(rows, t, n)
    BY <1>0, <1>2 DEF Owns, Live
  <2>2. \A t \in Task : RowStays(t)
    BY <2>1, RowsKept DEF RowStays
  <2> QED
    BY <1>2, <2>2, KeepsRefine DEF MarkFailed, Settled
<1> QED
  BY <1>1, <1>2 DEF MarkFailed

\* A commit queues nothing but the next stage.
LEMMA CommitAddsOnly ==
  ASSUME TypeOK, NEW w \in Run, Commit(w)
  PROVE  Queued' \subseteq Queued \cup NextSeeds(cur[w].seeds)
<1> DEFINE next == NextSeeds(cur[w].seeds)
           k == NextKey[cur[w].key]
           id == cur[w].id
<1>0. rows \in Rows
  BY DEF TypeOK, Rows
<1>1. id \in Task /\ k \in Key /\ next \in SUBSET Record
  BY WorkerAssumption, SeedsOfStage DEF Commit, TypeOK, Item
<1> HIDE DEF next, k, id
<1>2. CASE rows' = MarkDone(rows, w, id)
  <2>1. CASE rows' = rows
    BY <2>1 DEF Queued
  <2>2. CASE rows' = [rows EXCEPT ![id] = Absent]
    BY <1>1, <2>2, RemovalQueues
  <2> QED
    BY <1>2, <2>1, <2>2 DEF MarkDone
<1>3. ASSUME NEW t \in EnqueueTargets(rows, k),
             rows' = MarkDone(Enqueue(rows, t, k, next), w, id)
      PROVE  Queued' \subseteq Queued \cup next
  <2> DEFINE mid == Enqueue(rows, t, k, next)
  <2>1. mid \in Rows
    BY <1>0, <1>1, EnqueueType
  <2>2. t \in Task /\ \A u \in Task \ {t} : mid[u] = rows[u]
    BY <1>0, <1>1, EnqueueEffect
  <2>3. \A r \in mid[t].seeds : r \in next \/ (t \in Live(rows) /\ r \in rows[t].seeds)
    BY <1>0, <1>1, EnqueueAddsOnly
  <2>4. rows' = MarkDone(mid, w, id)
    BY <1>3
  <2> HIDE DEF mid
  <2>5. \A u \in Live(rows') : rows'[u] = mid[u]
    BY <1>1, <2>1, <2>4 DEF MarkDone, Rows, Live, Absent
  <2> SUFFICES ASSUME NEW r \in Queued' PROVE r \in Queued \cup next
    OBVIOUS
  <2>6. PICK u \in Live(rows') : r \in rows'[u].seeds
    BY DEF Queued
  <2>7. CASE u = t
    BY <2>3, <2>5, <2>6, <2>7 DEF Queued
  <2>8. CASE u # t
    <3>1. rows[u] = rows'[u] /\ u \in Live(rows)
      BY <2>2, <2>5, <2>6, <2>8 DEF Live
    <3> QED
      BY <2>6, <3>1 DEF Queued
  <2> QED
    BY <2>7, <2>8
<1>4. \/ rows' = MarkDone(rows, w, id)
      \/ \E t \in EnqueueTargets(rows, k) : rows' = MarkDone(Enqueue(rows, t, k, next), w, id)
  BY DEF Commit, next, k, id
<1> QED
  BY <1>2, <1>3, <1>4 DEF next

\* A commit computes a stage: it queues the next one, removes its own seeds from
\* the queue only, and loses what it makes stale only.
LEMMA CommitRefines ==
  ASSUME IInv, IInv', TrackLosses, NEW w \in Run, Commit(w)
  PROVE  Promise!Compute(cur[w].seeds)
<1> DEFINE seeds == cur[w].seeds
           id == cur[w].id
<1> USE DEF IInv
<1>0. id \in Task /\ seeds \in SUBSET Record /\ pc[w] = "exec"
  BY DEF Commit, TypeOK, Item
<1>1. stale' = StaleAfter(w) /\ deadLetter' = deadLetter
  BY DEF Commit
<1>2. stale' \in SUBSET HasDependents
  BY DEF TypeOK
<1>3. stale \ seeds \subseteq stale'
  BY <1>1 DEF StaleAfter
<1>4. Queued' \in SUBSET (Queued \cup NextSeeds(seeds))
  BY CommitAddsOnly
<1>5. ASSUME NEW t \in Live(rows), ~(t = id /\ Owns(rows, w, t))
      PROVE  t \in Live(rows') /\ rows[t].seeds \subseteq rows'[t].seeds
  BY <1>5, CommitRows DEF Live
<1>6. (Queued \ seeds) \cup NextSeeds(seeds) \subseteq Queued'
  <2>1. ASSUME NEW r \in Queued, r \notin seeds PROVE r \in Queued'
    <3>1. PICK t \in Live(rows) : r \in rows[t].seeds
      BY <2>1 DEF Queued
    <3>2. ~(t = id /\ Owns(rows, w, t))
      <4>1. SUFFICES ASSUME t = id, Owns(rows, w, t) PROVE FALSE
        OBVIOUS
      <4>2. cur[w] = ItemOf(id)
        BY <1>0, <4>1 DEF OwnedItemIsCurrent
      <4> QED
        BY <2>1, <3>1, <4>1, <4>2 DEF ItemOf
    <3> QED
      BY <1>5, <3>1, <3>2 DEF Queued
  <2>2. ASSUME NEW r \in NextSeeds(seeds) PROVE r \in Queued'
    <3>1. PICK t \in Task : t \in Live(rows') /\ r \in rows'[t].seeds
      BY <2>2, CommitRows
    <3> QED
      BY <3>1 DEF Queued
  <2> QED
    BY <2>1, <2>2
<1>7. Forgotten = {}
  BY <1>5 DEF Forgotten, Owns
<1>8. Promise!Lose(stale' \ stale)
  BY <1>7, LosesOnly DEF Overwritten
<1>9. ParkedSeeds' = ParkedSeeds
  BY <1>1 DEF ParkedSeeds
<1> QED
  BY <1>2, <1>3, <1>4, <1>6, <1>8, <1>9, SameSeeds DEF Promise!Compute

\* For every set of records, keys, bases, tasks and runs, whatever the locks, the
\* limits and the dependents are, the outbox and its workers implement
\* ComputedPromise: every step says which records it queues, parks, computes and
\* loses, and does nothing else.
THEOREM Refinement == LossSpec => ImplementsPromise
<1>1. LossInit => Promise!Init
  BY DEF LossInit, Init, Promise!Init, Queued, ParkedSeeds, Live, Absent
<1>2. IInv /\ IInv' /\ [Next /\ TrackLosses]_lossVars => [Promise!Next]_(Promise!updates)
  <2> SUFFICES ASSUME IInv, IInv', [Next /\ TrackLosses]_lossVars
               PROVE  Promise!Next \/ UNCHANGED Promise!updates
    OBVIOUS
  <2>0. TypeOK /\ OwnedItemIsCurrent
    BY DEF IInv
  <2>1. CASE UNCHANGED lossVars
    BY <2>1 DEF lossVars, vars, Promise!updates, Queued, ParkedSeeds, Live
  <2>2. CASE Next /\ TrackLosses
    <3>1. CASE Quiet
      BY <2>0, <2>2, <3>1, QuietRefines DEF Promise!Next
    <3>2. ASSUME NEW r \in Record, Write(r) PROVE Promise!Next
      BY <2>0, <2>2, <3>2, WriteRefines DEF Promise!Next
    <3>3. ASSUME NEW w \in Run, StartTask(w) \/ StartUnrenewed(w) PROVE Promise!Next
      BY <2>0, <2>2, <3>3, StartRefines DEF Promise!Next
    <3>4. ASSUME NEW w \in Run, EnqueueChunk(w) PROVE Promise!Next
      BY <2>0, <2>2, <3>4, EnqueueChunkRefines DEF Promise!Next
    <3>5. ASSUME NEW w \in Run, SplitDone(w) PROVE Promise!Next
      BY <2>0, <2>2, <3>5, SplitDoneRefines DEF Promise!Next
    <3>6. ASSUME NEW w \in Run, Commit(w) PROVE Promise!Next
      <4>1. cur[w].seeds \in SUBSET Record
        BY <2>0, <3>6 DEF Commit, TypeOK, Item
      <4> QED
        BY <2>2, <3>6, <4>1, CommitRefines DEF Promise!Next
    <3>7. ASSUME NEW w \in Run, MarkFailed(w) PROVE Promise!Next
      BY <2>0, <2>2, <3>7, MarkFailedRefines DEF Promise!Next
    <3> QED
      BY <2>2, <3>1, <3>2, <3>3, <3>4, <3>5, <3>6, <3>7, NextCases
  <2> QED
    BY <2>1, <2>2
<1> QED
  BY <1>1, <1>2, InvariantHolds, PTL DEF LossSpec, ImplementsPromise, Promise!Spec

-----------------------------------------------------------------------------
(***************************************************************************)
(* AttemptsNeverDrop.                                                      *)
(***************************************************************************)
AttemptsKept(t) ==
  t \in Live(rows) /\ t \in Live(rows') => rows'[t].attempts >= rows[t].attempts

\* The attempts of a task in the outbox are a number.
LEMMA AttemptsType ==
  ASSUME TypeOK, NEW t \in Live(rows)
  PROVE  t \in Task /\ rows[t] \in Row /\ rows[t].attempts \in Int
<1>1. t \in Task /\ rows[t] \in Row
  BY RowOrAbsent DEF TypeOK, Rows, Live
<1> QED
  BY <1>1, OutboxAssumption DEF Row

\* A step that only renews, claims, removes, merges or releases rows counts
\* nothing down.
LEMMA EnqueueKeepsAttempts ==
  ASSUME NEW rws \in Rows, NEW k \in Key, NEW S \in SUBSET Record,
         NEW t \in EnqueueTargets(rws, k), NEW u \in Live(rws)
  PROVE  Enqueue(rws, t, k, S)[u].attempts = rws[u].attempts
<1>1. /\ t \in Task
      /\ \/ rws[t].status = "absent"
         \/ rws[t].status = "pending" /\ rws[t] \in Row
  BY TargetIsPendingOrFree
<1>2. CASE u = t
  <2>1. rws[t] \in Row /\ rws[t].status # "absent"
    BY <1>1, <1>2 DEF Live
  <2>2. Enqueue(rws, t, k, S)[t] = MergedRow(rws[t], S)
    BY <1>1, <2>1 DEF Enqueue, Rows
  <2>3. MergedRow(rws[t], S).attempts = rws[t].attempts
    BY <2>1 DEF MergedRow, Row
  <2> QED
    BY <1>2, <2>2, <2>3
<1>3. CASE u # t
  BY <1>1, <1>3 DEF Enqueue, Rows, Live
<1> QED
  BY <1>2, <1>3

\* See EnqueueKeepsAttempts.
LEMMA SameAttempts ==
  ASSUME TypeOK, NEW t \in Task,
         \/ rows' = rows
         \/ \E k \in Key, S \in SUBSET Record : \E u \in EnqueueTargets(rows, k) :
              rows' = Enqueue(rows, u, k, S)
         \/ \E w \in Run, claimed \in SUBSET Task : rows' = Claim(rows, w, claimed)
         \/ \E w \in Run, ids \in SUBSET Task : rows' = RenewLease(rows, w, ids)
         \/ \E u \in Task : rows' = [rows EXCEPT ![u] = Absent]
         \/ \E u \in Task : rows' = [rows EXCEPT ![u] = [@ EXCEPT !.fresh = FALSE]]
         \/ \E u \in Task : rows' = [rows EXCEPT ![u] = [@ EXCEPT !.due = TRUE]]
  PROVE  AttemptsKept(t)
<1> SUFFICES ASSUME t \in Live(rows), t \in Live(rows')
             PROVE  rows'[t].attempts = rows[t].attempts
  BY AttemptsType DEF AttemptsKept
<1>0. rows \in Rows /\ rows[t] \in Row
  BY AttemptsType DEF TypeOK, Rows
<1>1. CASE \E k \in Key, S \in SUBSET Record : \E u \in EnqueueTargets(rows, k) :
             rows' = Enqueue(rows, u, k, S)
  BY <1>0, <1>1, EnqueueKeepsAttempts
<1>2. CASE \E w \in Run, claimed \in SUBSET Task : rows' = Claim(rows, w, claimed)
  <2>1. PICK w \in Run, claimed \in SUBSET Task : rows' = Claim(rows, w, claimed)
    BY <1>2
  <2> QED
    BY <1>0, <2>1 DEF Claim, Row
<1>3. CASE \E w \in Run, ids \in SUBSET Task : rows' = RenewLease(rows, w, ids)
  <2>1. PICK w \in Run, ids \in SUBSET Task : rows' = RenewLease(rows, w, ids)
    BY <1>3
  <2> QED
    BY <1>0, <2>1 DEF RenewLease, Row
<1>4. CASE \E u \in Task : rows' = [rows EXCEPT ![u] = Absent]
  BY <1>0, <1>4 DEF Live, Rows, Absent
<1>5. CASE \/ \E u \in Task : rows' = [rows EXCEPT ![u] = [@ EXCEPT !.fresh = FALSE]]
           \/ \E u \in Task : rows' = [rows EXCEPT ![u] = [@ EXCEPT !.due = TRUE]]
  BY <1>0, <1>5 DEF Rows, Row
<1> QED
  BY <1>1, <1>2, <1>3, <1>4, <1>5

\* A row goes back to pending with the attempts it is given.
LEMMA ReleasedAttempts ==
  ASSUME TypeOK, NEW id \in Live(rows), NEW n \in Nat, n >= rows[id].attempts,
         rows' = BackToPending(rows, id, n), NEW t \in Task
  PROVE  AttemptsKept(t)
<1>1. id \in Task /\ rows[id] \in Row /\ rows \in Rows
  BY AttemptsType DEF TypeOK, Rows
<1>2. CASE t = id
  <2>1. rows'[id].attempts = n
    BY <1>1 DEF BackToPending, Rows, Row
  <2> QED
    BY <1>2, <2>1 DEF AttemptsKept
<1>3. CASE t # id
  <2>1. rows'[t] = rows[t]
    BY <1>1, <1>3 DEF BackToPending, Rows
  <2> QED
    BY <2>1, AttemptsType DEF AttemptsKept
<1> QED
  BY <1>2, <1>3

\* Every step keeps the attempts of every task that stays: the one that counts,
\* markFailed, adds one to the copy its run holds, and the copy is current.
LEMMA AttemptsStep ==
  ASSUME TypeOK, OwnedItemIsCurrent, [Next]_vars, NEW t \in Task
  PROVE  AttemptsKept(t)
<1>0. rows \in Rows
  BY DEF TypeOK, Rows
<1>1. ASSUME NEW r \in Record, Write(r) PROVE AttemptsKept(t)
  <2>1. \E k \in Key, S \in SUBSET Record : \E u \in EnqueueTargets(rows, k) :
          rows' = Enqueue(rows, u, k, S)
    BY <1>1, WorkerAssumption DEF Write
  <2> QED
    BY <2>1, SameAttempts
<1>2. ASSUME NEW w \in Run, ClaimBatch(w) \/ \E u \in Task : ClaimById(w, u)
      PROVE  AttemptsKept(t)
  <2>1. \E claimed \in SUBSET Task : rows' = Claim(rows, w, claimed)
    <3>1. CASE ClaimBatch(w)
      <4>1. PICK claimed \in SUBSET (StaleRows(rows) \cup DueRows(rows)) :
              rows' = Claim(rows, w, claimed)
        BY <3>1, ClaimsDueOrStale
      <4>2. claimed \in SUBSET Task
        BY DEF StaleRows, DueRows
      <4> QED
        BY <4>1, <4>2
    <3>2. ASSUME NEW u \in Task, ClaimById(w, u)
          PROVE  \E claimed \in SUBSET Task : rows' = Claim(rows, w, claimed)
      <4>1. {u} \in SUBSET Task /\ rows' = Claim(rows, w, {u})
        BY <3>2 DEF ClaimById
      <4> QED
        BY <4>1
    <3> QED
      BY <1>2, <3>1, <3>2
  <2> QED
    BY <2>1, SameAttempts
<1>3. ASSUME NEW w \in Run, Heartbeat(w) \/ StartTask(w) PROVE AttemptsKept(t)
  <2>1. \E ids \in SUBSET Task : rows' = RenewLease(rows, w, ids)
    <3>1. CASE Heartbeat(w)
      <4> DEFINE ids == {i.id : i \in batch[w]} \cup (IF pc[w] = "idle" THEN {} ELSE {cur[w].id})
      <4>1. rows' = RenewLease(rows, w, ids)
        BY <3>1 DEF Heartbeat
      <4>2. {i.id : i \in batch[w]} \in SUBSET Task
        BY DEF TypeOK, Item
      <4>3. pc[w] # "idle" => cur[w].id \in Task
        BY DEF TypeOK, Item
      <4>4. ids \in SUBSET Task
        BY <4>2, <4>3
      <4> QED
        BY <4>1, <4>4
    <3>2. CASE StartTask(w)
      <4>1. PICK i \in batch[w] : rows' = RenewLease(rows, w, {i.id})
        BY <3>2 DEF StartTask
      <4>2. {i.id} \in SUBSET Task
        BY DEF TypeOK, Item
      <4> QED
        BY <4>1, <4>2
    <3> QED
      BY <1>3, <3>1, <3>2
  <2> QED
    BY <2>1, SameAttempts
<1>4. ASSUME NEW w \in Run, EnqueueChunk(w) PROVE AttemptsKept(t)
  <2>1. \E k \in Key, S \in SUBSET Record : \E u \in EnqueueTargets(rows, k) :
          rows' = Enqueue(rows, u, k, S)
    BY <1>4 DEF EnqueueChunk, TypeOK, Chunk
  <2> QED
    BY <2>1, SameAttempts
<1>5. ASSUME NEW w \in Run, SplitDone(w) PROVE AttemptsKept(t)
  <2>1. cur[w].id \in Task
    BY <1>5 DEF SplitDone, TypeOK, Item
  <2> QED
    BY <1>5, <2>1, SameAttempts DEF SplitDone, MarkDone
<1>6. ASSUME NEW w \in Run, Commit(w) PROVE AttemptsKept(t)
  <2> DEFINE next == NextSeeds(cur[w].seeds)
             k == NextKey[cur[w].key]
             id == cur[w].id
  <2>1. id \in Task /\ k \in Key /\ next \in SUBSET Record
    BY <1>6, WorkerAssumption, SeedsOfStage DEF Commit, TypeOK, Item
  <2>2. \/ rows' = MarkDone(rows, w, id)
        \/ \E u \in EnqueueTargets(rows, k) : rows' = MarkDone(Enqueue(rows, u, k, next), w, id)
    BY <1>6 DEF Commit
  <2> HIDE DEF next, k, id
  <2>3. CASE rows' = MarkDone(rows, w, id)
    BY <2>1, <2>3, SameAttempts DEF MarkDone
  <2>4. ASSUME NEW u \in EnqueueTargets(rows, k),
               rows' = MarkDone(Enqueue(rows, u, k, next), w, id)
        PROVE  AttemptsKept(t)
    <3> DEFINE mid == Enqueue(rows, u, k, next)
    <3>1. mid \in Rows
      BY <1>0, <2>1, EnqueueType
    <3>2. t \in Live(rows) => mid[t].attempts = rows[t].attempts
      BY <1>0, <2>1, EnqueueKeepsAttempts
    <3>3. rows' = MarkDone(mid, w, id)
      BY <2>4
    <3> HIDE DEF mid
    <3>4. t \in Live(rows') => rows'[t] = mid[t]
      BY <2>1, <3>1, <3>3 DEF MarkDone, Rows, Live, Absent
    <3> QED
      BY <3>2, <3>4, AttemptsType DEF AttemptsKept
  <2> QED
    BY <2>2, <2>3, <2>4
<1>7. ASSUME NEW w \in Run, MarkFailed(w) PROVE AttemptsKept(t)
  <2>1. cur[w] \in Item /\ cur[w].id \in Task /\ cur[w].attempts \in Nat
    BY <1>7, OutboxAssumption DEF MarkFailed, TypeOK, Item
  <2>2. CASE /\ Owns(rows, w, cur[w].id)
             /\ rows' = BackToPending(rows, cur[w].id, cur[w].attempts + 1)
    <3>1. cur[w].attempts = rows[cur[w].id].attempts /\ cur[w].id \in Live(rows)
      BY <1>7, <2>1, <2>2 DEF OwnedItemIsCurrent, MarkFailed, ItemOf, Owns, Live
    <3> QED
      BY <2>1, <2>2, <3>1, ReleasedAttempts
  <2>3. CASE rows' = rows \/ rows' = [rows EXCEPT ![cur[w].id] = Absent]
    BY <2>1, <2>3, SameAttempts
  <2> QED
    BY <1>7, <2>2, <2>3 DEF MarkFailed
<1>8. ASSUME NEW w \in Run, ReleaseForRetry(w) PROVE AttemptsKept(t)
  <2>1. CASE /\ Owns(rows, w, cur[w].id)
             /\ rows' = BackToPending(rows, cur[w].id, rows[cur[w].id].attempts)
    <3>1. cur[w].id \in Live(rows)
      BY <1>8, <2>1 DEF ReleaseForRetry, TypeOK, Item, Owns, Live
    <3>2. rows[cur[w].id].attempts \in Nat
      BY <3>1, AttemptsType, OutboxAssumption DEF Row
    <3> QED
      BY <2>1, <3>1, <3>2, ReleasedAttempts
  <2>2. CASE rows' = rows
    BY <2>2, SameAttempts
  <2> QED
    BY <1>8, <2>1, <2>2 DEF ReleaseForRetry
<1>9. ASSUME NEW u \in Task, LeaseExpires(u) \/ BackoffElapses(u) PROVE AttemptsKept(t)
  BY <1>9, SameAttempts DEF LeaseExpires, BackoffElapses
<1>10. CASE rows' = rows
  BY <1>10, SameAttempts
<1> QED
  BY <1>1, <1>2, <1>3, <1>4, <1>5, <1>6, <1>7, <1>8, <1>9, <1>10
  DEF Next, Work, StartUnrenewed, SkipLostTask, AcquireLocks, LockUnavailable, TaskFails, Crash,
      Pause, Resume, vars

\* The attempts of a task are counted up only, whatever is merged into it, and
\* whoever counts them: the dead letter comes after maxAttempts failures.
THEOREM AttemptsOnlyRise == Spec => AttemptsNeverDrop
<1>1. Init => TypeOK /\ OwnedItemIsCurrent
  BY InitType DEF Init, OwnedItemIsCurrent
<1>2. TypeOK /\ OwnedItemIsCurrent /\ [Next]_vars => (TypeOK /\ OwnedItemIsCurrent)'
  BY StepType, CurrentStep
<1>3. TypeOK /\ OwnedItemIsCurrent /\ [Next]_vars
        => [\A t \in Live(rows) : t \in Live(rows') => rows'[t].attempts >= rows[t].attempts]_vars
  BY AttemptsStep DEF AttemptsKept, Live
<1> QED
  BY <1>1, <1>2, <1>3, PTL DEF Spec, AttemptsNeverDrop

=============================================================================
