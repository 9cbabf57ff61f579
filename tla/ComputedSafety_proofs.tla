------------------------- MODULE ComputedSafety_proofs ------------------------
(***************************************************************************)
(* What holds of computed updates in every state, for every set of         *)
(* records, tasks, runs, keys and bases, with and without locks: owners    *)
(* have the content of their rows in hand, every update is in the outbox   *)
(* or lost in one of two ways, and the locks exclude what they are for.    *)
(***************************************************************************)
EXTENDS ComputedWorker_proofs, ComputedLosses

-----------------------------------------------------------------------------
(***************************************************************************)
(* What an enqueue does to the table.                                      *)
(***************************************************************************)
\* An enqueue changes one row, which no run owns before or after.
LEMMA EnqueueEffect ==
  ASSUME NEW rws \in Rows, NEW k \in Key, NEW S \in SUBSET Record,
         NEW t \in EnqueueTargets(rws, k)
  PROVE  /\ t \in Task
         /\ \A u \in Task \ {t} : Enqueue(rws, t, k, S)[u] = rws[u]
         /\ \A w \in Run : ~Owns(rws, w, t) /\ ~Owns(Enqueue(rws, t, k, S), w, t)
<1>1. t \in Task /\ rws[t].status # "processing"
  BY TargetIsPendingOrFree
<1>2. Enqueue(rws, t, k, S)[t].status = "pending"
  BY EnqueueType
<1>3. \A u \in Task \ {t} : Enqueue(rws, t, k, S)[u] = rws[u]
  BY DEF Enqueue, Rows
<1> QED
  BY <1>1, <1>2, <1>3 DEF Owns

\* The row has the new seeds, and its own unless it is a spilled seed row.
LEMMA EnqueueKeepsSeeds ==
  ASSUME NEW rws \in Rows, NEW k \in Key, NEW S \in SUBSET Record,
         NEW t \in EnqueueTargets(rws, k)
  PROVE  /\ S \subseteq Enqueue(rws, t, k, S)[t].seeds
         /\ rws[t].status # "absent"
              => \/ rws[t].seeds \subseteq Enqueue(rws, t, k, S)[t].seeds
                 \/ rws[t].status = "pending" /\ rws[t].key \in SeedKey /\ ~rws[t].inline
<1>1. /\ t \in Task
      /\ \/ rws[t].status = "absent"
         \/ rws[t].status = "pending" /\ rws[t] \in Row
  BY TargetIsPendingOrFree
<1>2. CASE rws[t].status = "absent"
  <2>1. Enqueue(rws, t, k, S)[t] = InsertedRow(k, S)
    BY <1>1, <1>2 DEF Enqueue, Rows
  <2>2. InsertedRow(k, S).seeds = S
    BY DEF InsertedRow
  <2> QED
    BY <1>2, <2>1, <2>2
<1>3. CASE rws[t].status = "pending" /\ rws[t] \in Row
  <2>1. Enqueue(rws, t, k, S)[t] = MergedRow(rws[t], S)
    BY <1>1, <1>3 DEF Enqueue, Rows
  <2>2. S \subseteq MergedRow(rws[t], S).seeds
    BY <1>3 DEF MergedRow, Row
  <2>3. CASE rws[t].key \in SeedKey /\ ~rws[t].inline
    BY <1>3, <2>1, <2>2, <2>3
  <2>4. CASE ~(rws[t].key \in SeedKey /\ ~rws[t].inline)
    <3>1. LoadedSeeds(rws[t]) = rws[t].seeds
      BY <2>4 DEF LoadedSeeds
    <3>2. rws[t].seeds \subseteq MergedRow(rws[t], S).seeds
      BY <1>3, <3>1 DEF MergedRow, Row
    <3> QED
      BY <2>1, <2>2, <3>2
  <2> QED
    BY <2>3, <2>4
<1> QED
  BY <1>1, <1>2, <1>3

-----------------------------------------------------------------------------
(***************************************************************************)
(* OwnedItemIsCurrent.                                                     *)
(***************************************************************************)
HeldItems(w) == batch[w] \cup (IF pc[w] = "idle" THEN {} ELSE {cur[w]})

SameTask(t) == /\ rows'[t].key = rows[t].key
               /\ rows'[t].attempts = rows[t].attempts
               /\ rows'[t].seeds = rows[t].seeds

\* Enough for a step that claims nothing.
LEMMA CurrentPreserved ==
  ASSUME TypeOK, OwnedItemIsCurrent,
         \A w \in Run : HeldItems(w)' \subseteq HeldItems(w),
         \A w \in Run, t \in Task : Owns(rows', w, t) => Owns(rows, w, t) /\ SameTask(t)
  PROVE  OwnedItemIsCurrent'
<1> SUFFICES ASSUME NEW w \in Run, NEW i \in HeldItems(w)', Owns(rows', w, i.id)
             PROVE  i = ItemOf(i.id)'
  BY DEF OwnedItemIsCurrent, HeldItems
<1>1. i \in HeldItems(w)
  OBVIOUS
<1>2. i \in Item
  BY <1>1 DEF HeldItems, TypeOK
<1>3. Owns(rows, w, i.id) /\ SameTask(i.id)
  BY <1>2 DEF Item
<1>4. i = ItemOf(i.id)
  BY <1>1, <1>3 DEF OwnedItemIsCurrent, HeldItems
<1> QED
  BY <1>3, <1>4 DEF ItemOf, SameTask

\* Enough for a step that claims rows for an idle run.
LEMMA CurrentAfterClaim ==
  ASSUME TypeOK, OwnedItemIsCurrent, NEW w \in Run, pc[w] = "idle",
         NEW claimed \in SUBSET Task, \A t \in claimed : rows[t].status # "absent",
         rows' = Claim(rows, w, claimed),
         batch' = [batch EXCEPT ![w] = {ItemOf(t) : t \in claimed}],
         UNCHANGED <<cur, pc>>
  PROVE  OwnedItemIsCurrent'
<1>0. rows \in Rows /\ rows' \in Rows
  BY ClaimType DEF TypeOK, Rows
<1>1. ASSUME NEW t \in Task PROVE SameTask(t)
  <2>1. CASE t \in claimed
    <3>1. rows[t] \in Row
      BY <1>0, <2>1, RowOrAbsent
    <3> QED
      BY <2>1, <3>1 DEF Claim, SameTask, Row
  <2>2. CASE t \notin claimed
    BY <2>2 DEF Claim, SameTask
  <2> QED
    BY <2>1, <2>2
<1>2. ASSUME NEW v \in Run, NEW i \in HeldItems(v)', Owns(rows', v, i.id)
      PROVE  i = ItemOf(i.id)'
  <2>1. CASE v = w
    <3>1. PICK t \in claimed : i = ItemOf(t)
      BY <2>1 DEF HeldItems, TypeOK
    <3>2. i.id = t /\ i = ItemOf(t)'
      BY <1>1, <3>1 DEF ItemOf, SameTask
    <3> QED
      BY <3>2
  <2>2. CASE v # w
    <3>1. i \in HeldItems(v)
      BY <2>2 DEF HeldItems, TypeOK
    <3>2. i \in Item
      BY <3>1 DEF HeldItems, TypeOK
    <3>3. i.id \in Task
      BY <3>2 DEF Item
    <3>4. Owns(rows, v, i.id)
      <4>1. CASE i.id \in claimed
        <5>1. rows[i.id] \in Row
          BY <1>0, <4>1, RowOrAbsent
        <5>2. rows'[i.id].owner = w
          BY <3>3, <4>1, <5>1 DEF Claim, Row
        <5> QED
          BY <1>2, <2>2, <5>2 DEF Owns
      <4>2. CASE i.id \notin claimed
        BY <1>2, <3>3, <4>2 DEF Claim, Owns
      <4> QED
        BY <4>1, <4>2
    <3>5. i = ItemOf(i.id)
      BY <3>1, <3>4 DEF OwnedItemIsCurrent, HeldItems
    <3> QED
      BY <1>1, <3>3, <3>5 DEF ItemOf, SameTask
  <2> QED
    BY <2>1, <2>2
<1> QED
  BY <1>2 DEF OwnedItemIsCurrent, HeldItems

\* The ways in which a step that claims nothing changes the table.
LEMMA OwnersKept ==
  ASSUME TypeOK,
         \/ rows' = rows
         \/ \E k \in Key, S \in SUBSET Record : \E t \in EnqueueTargets(rows, k) :
              rows' = Enqueue(rows, t, k, S)
         \/ \E w \in Run, ids \in SUBSET Task : rows' = RenewLease(rows, w, ids)
         \/ \E t \in Task : rows' = [rows EXCEPT ![t] = Absent]
         \/ \E t \in Task, n \in Nat : rows' = BackToPending(rows, t, n)
         \/ \E t \in Task : rows' = [rows EXCEPT ![t] = [@ EXCEPT !.fresh = FALSE]]
         \/ \E t \in Task : rows' = [rows EXCEPT ![t] = [@ EXCEPT !.due = TRUE]]
  PROVE  \A w \in Run, t \in Task : Owns(rows', w, t) => Owns(rows, w, t) /\ SameTask(t)
<1> SUFFICES ASSUME NEW w \in Run, NEW t \in Task, Owns(rows', w, t)
             PROVE  Owns(rows, w, t) /\ SameTask(t)
  OBVIOUS
<1>0. rows \in Rows
  BY DEF TypeOK, Rows
<1>1. CASE rows' = rows
  BY <1>1 DEF SameTask
<1>2. CASE \E k \in Key, S \in SUBSET Record : \E u \in EnqueueTargets(rows, k) :
             rows' = Enqueue(rows, u, k, S)
  <2>1. PICK k \in Key, S \in SUBSET Record :
          \E u \in EnqueueTargets(rows, k) : rows' = Enqueue(rows, u, k, S)
    BY <1>2
  <2>2. PICK u \in EnqueueTargets(rows, k) : rows' = Enqueue(rows, u, k, S)
    BY <2>1
  <2>3. t # u
    BY ZenonT(40), <1>0, <2>2, EnqueueEffect
  <2>4. \A v \in Task \ {u} : Enqueue(rows, u, k, S)[v] = rows[v]
    BY <1>0, EnqueueEffect
  <2>5. rows'[t] = rows[t]
    BY <2>2, <2>3, <2>4
  <2> QED
    BY <2>5 DEF Owns, SameTask
<1>3. CASE \E v \in Run, ids \in SUBSET Task : rows' = RenewLease(rows, v, ids)
  <2>1. PICK v \in Run, ids \in SUBSET Task : rows' = RenewLease(rows, v, ids)
    BY <1>3
  <2>2. CASE t \in ids /\ Owns(rows, v, t)
    <3>1. rows[t] \in Row
      BY <1>0, <2>2, RowOrAbsent DEF Owns
    <3> QED
      BY <2>1, <2>2, <3>1 DEF RenewLease, Owns, SameTask, Row
  <2>3. CASE ~(t \in ids /\ Owns(rows, v, t))
    BY <2>1, <2>3 DEF RenewLease, Owns, SameTask
  <2> QED
    BY <2>2, <2>3
<1>4. CASE \E u \in Task : rows' = [rows EXCEPT ![u] = Absent]
  BY <1>0, <1>4 DEF Owns, SameTask, Absent, Rows
<1>5. CASE \E u \in Task, n \in Nat : rows' = BackToPending(rows, u, n)
  <2>1. PICK u \in Task, n \in Nat : rows' = BackToPending(rows, u, n)
    BY <1>5
  <2>2. CASE t = u
    <3>1. rows'[t].status = "pending"
      <4>1. CASE rows[t] \in Row
        BY <1>0, <2>1, <2>2, <4>1 DEF BackToPending, Rows, Row
      <4>2. CASE rows[t] = Absent
        <5>1. rows'[t] = [Absent EXCEPT !.status = "pending", !.attempts = n,
                                        !.due = FALSE, !.owner = NoRun, !.fresh = FALSE]
          BY <1>0, <2>1, <2>2, <4>2 DEF BackToPending, Rows
        <5> QED
          BY <5>1 DEF Absent
      <4> QED
        BY <1>0, <4>1, <4>2 DEF Rows
    <3> QED
      BY <3>1 DEF Owns
  <2>3. CASE t # u
    BY <1>0, <2>1, <2>3 DEF BackToPending, Owns, SameTask, Rows
  <2> QED
    BY <2>2, <2>3
<1>6. CASE \/ \E u \in Task : rows' = [rows EXCEPT ![u] = [@ EXCEPT !.fresh = FALSE]]
           \/ \E u \in Task : rows' = [rows EXCEPT ![u] = [@ EXCEPT !.due = TRUE]]
  <2>1. PICK u \in Task : \/ rows' = [rows EXCEPT ![u] = [@ EXCEPT !.fresh = FALSE]]
                          \/ rows' = [rows EXCEPT ![u] = [@ EXCEPT !.due = TRUE]]
    BY <1>6
  <2>2. CASE t = u
    <3>1. CASE rows[t] \in Row
      BY <1>0, <2>1, <2>2, <3>1 DEF Owns, SameTask, Row, Rows
    <3>2. CASE rows[t] = Absent
      BY <1>0, <2>1, <2>2, <3>2 DEF Owns, Absent, Rows
    <3> QED
      BY <1>0, <3>1, <3>2 DEF Rows
  <2>3. CASE t # u
    BY <1>0, <2>1, <2>3 DEF Owns, SameTask, Rows
  <2> QED
    BY <2>2, <2>3
<1> QED
  BY <1>1, <1>2, <1>3, <1>4, <1>5, <1>6

\* Every step keeps owned items current.
LEMMA CurrentStep == TypeOK /\ OwnedItemIsCurrent /\ [Next]_vars => OwnedItemIsCurrent'
<1> SUFFICES ASSUME TypeOK, OwnedItemIsCurrent, [Next]_vars PROVE OwnedItemIsCurrent'
  OBVIOUS
<1>0. rows \in Rows
  BY DEF TypeOK, Rows
<1>1. ASSUME NEW w \in Run, ClaimBatch(w) PROVE OwnedItemIsCurrent'
  <2>1. PICK claimed \in SUBSET (StaleRows(rows) \cup DueRows(rows)) :
          /\ rows' = Claim(rows, w, claimed)
          /\ batch' = [batch EXCEPT ![w] = {ItemOf(t) : t \in claimed}]
    BY <1>1, ClaimsDueOrStale
  <2>2. claimed \in SUBSET Task /\ \A t \in claimed : rows[t].status # "absent"
    BY <2>1 DEF StaleRows, DueRows
  <2> QED
    BY <1>1, <2>1, <2>2, CurrentAfterClaim DEF ClaimBatch
<1>2. ASSUME NEW w \in Run, NEW t \in Task, ClaimById(w, t) PROVE OwnedItemIsCurrent'
  <2> DEFINE claimed == {t}
  <2>1. {ItemOf(u) : u \in claimed} = {ItemOf(t)}
    OBVIOUS
  <2>2. /\ claimed \in SUBSET Task
        /\ rows' = Claim(rows, w, claimed)
        /\ batch' = [batch EXCEPT ![w] = {ItemOf(u) : u \in claimed}]
    BY <1>2, <2>1 DEF ClaimById
  <2>3. \A u \in claimed : rows[u].status # "absent"
    BY <1>2 DEF ClaimById
  <2>4. pc[w] = "idle" /\ UNCHANGED <<cur, pc>>
    BY <1>2 DEF ClaimById
  <2> HIDE DEF claimed
  <2> QED
    BY <2>2, <2>3, <2>4, CurrentAfterClaim
<1>3. ASSUME NEW r \in Record, Write(r) PROVE OwnedItemIsCurrent'
  <2>1. \E k \in Key, S \in SUBSET Record : \E t \in EnqueueTargets(rows, k) :
          rows' = Enqueue(rows, t, k, S)
    BY <1>3, WorkerAssumption DEF Write
  <2>2. \A v \in Run : HeldItems(v)' \subseteq HeldItems(v)
    BY <1>3 DEF Write, HeldItems
  <2> QED
    BY <2>1, <2>2, OwnersKept, CurrentPreserved
<1>4. ASSUME NEW w \in Run, Heartbeat(w) PROVE OwnedItemIsCurrent'
  <2> DEFINE held == {i.id : i \in batch[w]} \cup (IF pc[w] = "idle" THEN {} ELSE {cur[w].id})
  <2>0. /\ \A i \in batch[w] : i.id \in Task
        /\ pc[w] # "idle" => cur[w].id \in Task
    BY DEF TypeOK, Item
  <2>1. held \in SUBSET Task /\ rows' = RenewLease(rows, w, held)
    BY <1>4, <2>0 DEF Heartbeat
  <2>2. \A v \in Run : HeldItems(v)' \subseteq HeldItems(v)
    BY <1>4 DEF Heartbeat, HeldItems, TypeOK
  <2> QED
    BY <2>1, <2>2, OwnersKept, CurrentPreserved
<1>5. ASSUME NEW w \in Run, NEW i \in batch[w], pc[w] = "idle", Begin(w, i),
             rows' = rows \/ rows' = RenewLease(rows, w, {i.id})
      PROVE  OwnedItemIsCurrent'
  <2>1. i.id \in Task
    BY DEF TypeOK, Item
  <2>2. rows' = rows \/ \E v \in Run, ids \in SUBSET Task : rows' = RenewLease(rows, v, ids)
    BY <1>5, <2>1
  <2>3. \A v \in Run : HeldItems(v)' \subseteq HeldItems(v)
    BY <1>5 DEF Begin, HeldItems, TypeOK
  <2> QED
    BY <2>2, <2>3, OwnersKept, CurrentPreserved
<1>6. ASSUME NEW w \in Run, StartTask(w) \/ StartUnrenewed(w) PROVE OwnedItemIsCurrent'
  BY <1>5, <1>6 DEF StartTask, StartUnrenewed
<1>7. ASSUME NEW w \in Run, SkipLostTask(w) \/ AcquireLocks(w) \/ LockUnavailable(w)
                              \/ TaskFails(w) \/ Crash(w)
      PROVE  OwnedItemIsCurrent'
  <2>1. rows' = rows
    BY <1>7 DEF SkipLostTask, AcquireLocks, LockUnavailable, TaskFails, Crash
  <2>2. \A v \in Run : HeldItems(v)' \subseteq HeldItems(v)
    BY <1>7 DEF SkipLostTask, AcquireLocks, LockUnavailable, TaskFails, Crash, HeldItems, TypeOK
  <2> QED
    BY <2>1, <2>2, OwnersKept, CurrentPreserved
<1>8. ASSUME NEW w \in Run, EnqueueChunk(w) PROVE OwnedItemIsCurrent'
  <2>1. \E k \in Key, S \in SUBSET Record : \E t \in EnqueueTargets(rows, k) :
          rows' = Enqueue(rows, t, k, S)
    BY <1>8 DEF EnqueueChunk, TypeOK, Chunk
  <2>2. \A v \in Run : HeldItems(v)' \subseteq HeldItems(v)
    BY <1>8 DEF EnqueueChunk, HeldItems
  <2> QED
    BY <2>1, <2>2, OwnersKept, CurrentPreserved
<1>9. ASSUME NEW w \in Run, SplitDone(w) PROVE OwnedItemIsCurrent'
  <2>1. cur[w].id \in Task
    BY <1>9 DEF SplitDone, TypeOK, Item
  <2>2. rows' = rows \/ \E t \in Task : rows' = [rows EXCEPT ![t] = Absent]
    BY <1>9, <2>1 DEF SplitDone, MarkDone
  <2>3. \A v \in Run : HeldItems(v)' \subseteq HeldItems(v)
    BY <1>9 DEF SplitDone, HeldItems, TypeOK
  <2> QED
    BY <2>2, <2>3, OwnersKept, CurrentPreserved
<1>10. ASSUME NEW w \in Run, Commit(w) PROVE OwnedItemIsCurrent'
  <2> DEFINE next == NextSeeds(cur[w].seeds)
             k == NextKey[cur[w].key]
  <2>1. cur[w].id \in Task /\ k \in Key /\ next \in SUBSET Record
    BY <1>10, WorkerAssumption, SeedsOfStage DEF Commit, TypeOK, Item
  <2>2. \A v \in Run : HeldItems(v)' \subseteq HeldItems(v)
    BY <1>10 DEF Commit, HeldItems, TypeOK
  <2>3. CASE rows' = MarkDone(rows, w, cur[w].id)
    <3>1. rows' = rows \/ \E t \in Task : rows' = [rows EXCEPT ![t] = Absent]
      BY <2>1, <2>3 DEF MarkDone
    <3> QED
      BY <2>2, <3>1, OwnersKept, CurrentPreserved
  <2>4. CASE \E t \in EnqueueTargets(rows, k) :
               rows' = MarkDone(Enqueue(rows, t, k, next), w, cur[w].id)
    <3>1. PICK t \in EnqueueTargets(rows, k) :
            rows' = MarkDone(Enqueue(rows, t, k, next), w, cur[w].id)
      BY <2>4
    <3> DEFINE mid == Enqueue(rows, t, k, next)
    <3>2. mid \in Rows
      BY <1>0, <2>1, EnqueueType
    <3>3. /\ \A u \in Task \ {t} : mid[u] = rows[u]
          /\ \A v \in Run : ~Owns(mid, v, t)
      BY <1>0, <2>1, EnqueueEffect
    <3>4. \A v \in Run, u \in Task : Owns(rows', v, u) => rows'[u] = mid[u] /\ Owns(mid, v, u)
      <4> HIDE DEF mid
      <4> QED
        BY <2>1, <3>1, <3>2 DEF MarkDone, Owns, Rows, Absent, mid
    <3>5. \A v \in Run, u \in Task : Owns(rows', v, u) => Owns(rows, v, u) /\ SameTask(u)
      <4> HIDE DEF mid
      <4> SUFFICES ASSUME NEW v \in Run, NEW u \in Task, Owns(rows', v, u)
                   PROVE  Owns(rows, v, u) /\ SameTask(u)
        OBVIOUS
      <4>1. u # t /\ rows'[u] = mid[u]
        BY <3>3, <3>4
      <4>2. rows'[u] = rows[u]
        BY <3>3, <4>1
      <4> QED
        BY <4>2 DEF Owns, SameTask
    <3> QED
      BY <2>2, <3>5, CurrentPreserved
  <2> QED
    BY <1>10, <2>3, <2>4, AlwaysGoesOn DEF Commit
<1>11. ASSUME NEW w \in Run, MarkFailed(w) \/ ReleaseForRetry(w) PROVE OwnedItemIsCurrent'
  <2>1. cur[w] \in Item
    BY <1>11 DEF MarkFailed, ReleaseForRetry, TypeOK
  <2>2. cur[w].id \in Task /\ cur[w].attempts \in Nat
    BY <2>1, OutboxAssumption DEF Item
  <2>3. \/ rows' = rows
        \/ \E t \in Task : rows' = [rows EXCEPT ![t] = Absent]
        \/ \E t \in Task, n \in Nat : rows' = BackToPending(rows, t, n)
    <3>1. CASE MarkFailed(w)
      BY <2>2, <3>1 DEF MarkFailed
    <3>2. CASE ReleaseForRetry(w)
      <4>1. CASE Owns(rows, w, cur[w].id)
        <5>1. rows[cur[w].id].attempts \in Nat
          BY <1>0, <2>2, <4>1, RowOrAbsent, OutboxAssumption DEF Owns, Row
        <5> QED
          BY <2>2, <3>2, <5>1 DEF ReleaseForRetry
      <4>2. CASE ~Owns(rows, w, cur[w].id)
        BY <3>2, <4>2 DEF ReleaseForRetry
      <4> QED
        BY <4>1, <4>2
    <3> QED
      BY <1>11, <3>1, <3>2
  <2>4. \A v \in Run : HeldItems(v)' \subseteq HeldItems(v)
    BY <1>11 DEF MarkFailed, ReleaseForRetry, Settled, HeldItems, TypeOK
  <2> QED
    BY <2>3, <2>4, OwnersKept, CurrentPreserved
<1>12. ASSUME NEW t \in Task, LeaseExpires(t) \/ BackoffElapses(t) PROVE OwnedItemIsCurrent'
  <2>1. \/ \E u \in Task : rows' = [rows EXCEPT ![u] = [@ EXCEPT !.fresh = FALSE]]
        \/ \E u \in Task : rows' = [rows EXCEPT ![u] = [@ EXCEPT !.due = TRUE]]
    BY <1>12 DEF LeaseExpires, BackoffElapses
  <2>2. \A v \in Run : HeldItems(v)' \subseteq HeldItems(v)
    BY <1>12 DEF LeaseExpires, BackoffElapses, HeldItems
  <2> QED
    BY <2>1, <2>2, OwnersKept, CurrentPreserved
<1>13. ASSUME NEW s \in Scope, Pause(s) \/ Resume(s) PROVE OwnedItemIsCurrent'
  BY <1>13, OwnersKept, CurrentPreserved DEF Pause, Resume, HeldItems
<1>14. CASE UNCHANGED vars
  BY <1>14, OwnersKept, CurrentPreserved DEF vars, HeldItems
<1> QED
  BY <1>1, <1>2, <1>3, <1>4, <1>6, <1>7, <1>8, <1>9, <1>10, <1>11, <1>12, <1>13, <1>14
  DEF Next, Work

-----------------------------------------------------------------------------
(***************************************************************************)
(* LocksHeld.                                                              *)
(***************************************************************************)
\* A run that is in its transaction after a step was in it before, on the same
\* task, unless the step is the one that acquires its locks.
LEMMA ExecStep ==
  ASSUME TypeOK, [Next]_vars
  PROVE  \A v \in Run : pc'[v] = "exec" =>
           \/ pc[v] = "exec" /\ cur'[v] = cur[v]
           \/ AcquireLocks(v)
<1> USE DEF TypeOK
<1>1. CASE \E r \in Record : Write(r)
  BY <1>1 DEF Write
<1>2. ASSUME NEW w \in Run, ClaimBatch(w) \/ \E t \in Task : ClaimById(w, t)
      PROVE  UNCHANGED <<pc, cur>>
  BY <1>2 DEF ClaimBatch, ClaimById
<1>3. ASSUME NEW w \in Run, Heartbeat(w) \/ SkipLostTask(w) \/ EnqueueChunk(w)
      PROVE  UNCHANGED <<pc, cur>>
  BY <1>3 DEF Heartbeat, SkipLostTask, EnqueueChunk
<1>4. ASSUME NEW w \in Run, \/ StartTask(w) \/ StartUnrenewed(w) \/ SplitDone(w) \/ Commit(w)
                            \/ MarkFailed(w) \/ ReleaseForRetry(w) \/ Crash(w)
                            \/ LockUnavailable(w) \/ TaskFails(w)
      PROVE  \A v \in Run : pc'[v] = "exec" => pc[v] = "exec" /\ cur'[v] = cur[v]
  <2>1. CASE StartTask(w) \/ StartUnrenewed(w)
    BY <2>1 DEF StartTask, StartUnrenewed, Begin
  <2>2. CASE SplitDone(w) \/ Commit(w) \/ MarkFailed(w) \/ ReleaseForRetry(w)
    BY <2>2 DEF SplitDone, Commit, MarkFailed, ReleaseForRetry, Settled
  <2>3. CASE Crash(w) \/ LockUnavailable(w) \/ TaskFails(w)
    BY <2>3 DEF Crash, LockUnavailable, TaskFails
  <2> QED
    BY <1>4, <2>1, <2>2, <2>3
<1>5. ASSUME NEW w \in Run, AcquireLocks(w)
      PROVE  \A v \in Run \ {w} : pc'[v] = pc[v] /\ cur'[v] = cur[v]
  BY <1>5 DEF AcquireLocks
<1>6. ASSUME NEW t \in Task, LeaseExpires(t) \/ BackoffElapses(t)
      PROVE  UNCHANGED <<pc, cur>>
  BY <1>6 DEF LeaseExpires, BackoffElapses
<1>7. ASSUME NEW s \in Scope, Pause(s) \/ Resume(s)
      PROVE  UNCHANGED <<pc, cur>>
  BY <1>7 DEF Pause, Resume
<1>8. CASE UNCHANGED vars
  BY <1>8 DEF vars
<1> QED
  BY <1>1, <1>2, <1>3, <1>4, <1>5, <1>6, <1>7, <1>8 DEF Next, Work

\* Every step keeps the locks of running transactions disjoint.
LEMMA LocksStep == TypeOK /\ LocksHeld /\ [Next]_vars => LocksHeld'
<1> SUFFICES ASSUME TypeOK, LocksHeld, [Next]_vars,
                    NEW v \in Run, NEW w \in Run, v # w, pc'[v] = "exec", pc'[w] = "exec"
             PROVE  ItemLocks(cur'[v]) \cap ItemLocks(cur'[w]) = {}
  BY DEF LocksHeld
<1>1. ASSUME NEW x \in Run, NEW y \in Run, x # y, AcquireLocks(x), pc'[y] = "exec"
      PROVE  ItemLocks(cur'[x]) \cap ItemLocks(cur'[y]) = {}
  <2>1. cur' = cur /\ pc[y] = "exec"
    BY <1>1 DEF AcquireLocks, TypeOK
  <2> QED
    BY <1>1, <2>1 DEF AcquireLocks, Conflict
<1>2. CASE AcquireLocks(v)
  BY <1>1, <1>2
<1>3. CASE AcquireLocks(w)
  BY <1>1, <1>3
<1>4. CASE ~AcquireLocks(v) /\ ~AcquireLocks(w)
  <2>1. /\ pc[v] = "exec" /\ cur'[v] = cur[v]
        /\ pc[w] = "exec" /\ cur'[w] = cur[w]
    BY <1>4, ExecStep
  <2> QED
    BY <2>1 DEF LocksHeld
<1> QED
  BY <1>2, <1>3, <1>4

\* The ways in which a step that neither enqueues nor removes a row changes
\* the table: every row stays, for the same seeds.
LEMMA RowsKept ==
  ASSUME TypeOK,
         \/ rows' = rows
         \/ \E w \in Run, S \in SUBSET Task : /\ \A t \in S : rows[t].status # "absent"
                                              /\ rows' = Claim(rows, w, S)
         \/ \E w \in Run, ids \in SUBSET Task : rows' = RenewLease(rows, w, ids)
         \/ \E t \in Live(rows), n \in Nat : rows' = BackToPending(rows, t, n)
         \/ \E t \in Live(rows) : rows' = [rows EXCEPT ![t] = [@ EXCEPT !.fresh = FALSE]]
         \/ \E t \in Live(rows) : rows' = [rows EXCEPT ![t] = [@ EXCEPT !.due = TRUE]],
         NEW t \in Task
  PROVE  /\ (rows'[t].status = "absent") = (rows[t].status = "absent")
         /\ t \in Live(rows) => /\ rows'[t].key = rows[t].key
                                /\ rows'[t].seeds = rows[t].seeds
                                /\ rows'[t].inline = rows[t].inline
<1>0. rows \in Rows
  BY DEF TypeOK, Rows
<1>1. CASE rows' = rows
  BY <1>1
<1>2. CASE t \in Live(rows)
  <2>1. rows[t] \in Row
    BY <1>0, <1>2, RowOrAbsent DEF Live
  <2>2. CASE \E w \in Run, S \in SUBSET Task : rows' = Claim(rows, w, S)
    <3>1. PICK w \in Run, S \in SUBSET Task : rows' = Claim(rows, w, S)
      BY <2>2
    <3> QED
      BY <1>2, <2>1, <3>1 DEF Claim, Row, Live
  <2>3. CASE \E w \in Run, ids \in SUBSET Task : rows' = RenewLease(rows, w, ids)
    <3>1. PICK w \in Run, ids \in SUBSET Task : rows' = RenewLease(rows, w, ids)
      BY <2>3
    <3> QED
      BY <1>2, <2>1, <3>1 DEF RenewLease, Row, Live
  <2>4. CASE \E u \in Live(rows), n \in Nat : rows' = BackToPending(rows, u, n)
    <3>1. PICK u \in Live(rows), n \in Nat : rows' = BackToPending(rows, u, n)
      BY <2>4
    <3>2. CASE t = u
      BY <1>0, <1>2, <2>1, <3>1, <3>2 DEF BackToPending, Row, Rows, Live
    <3>3. CASE t # u
      BY <1>0, <3>1, <3>3 DEF BackToPending, Rows, Live
    <3> QED
      BY <3>2, <3>3
  <2>5. CASE \/ \E u \in Live(rows) : rows' = [rows EXCEPT ![u] = [@ EXCEPT !.fresh = FALSE]]
             \/ \E u \in Live(rows) : rows' = [rows EXCEPT ![u] = [@ EXCEPT !.due = TRUE]]
    BY <1>0, <1>2, <2>1, <2>5 DEF Row, Rows, Live
  <2> QED
    BY <1>1, <2>2, <2>3, <2>4, <2>5
<1>3. CASE t \notin Live(rows)
  <2>1. CASE \E w \in Run, S \in SUBSET Task : /\ \A u \in S : rows[u].status # "absent"
                                               /\ rows' = Claim(rows, w, S)
    BY <1>3, <2>1 DEF Claim, Live
  <2>2. CASE \E w \in Run, ids \in SUBSET Task : rows' = RenewLease(rows, w, ids)
    BY <1>3, <2>2 DEF RenewLease, Owns, Live
  <2>3. CASE \E u \in Live(rows), n \in Nat : rows' = BackToPending(rows, u, n)
    BY <1>0, <1>3, <2>3 DEF BackToPending, Rows, Live
  <2>4. CASE \/ \E u \in Live(rows) : rows' = [rows EXCEPT ![u] = [@ EXCEPT !.fresh = FALSE]]
             \/ \E u \in Live(rows) : rows' = [rows EXCEPT ![u] = [@ EXCEPT !.due = TRUE]]
    BY <1>0, <1>3, <2>4 DEF Rows, Live
  <2> QED
    BY <1>1, <1>3, <2>1, <2>2, <2>3, <2>4
<1> QED
  BY <1>2, <1>3

\* The steps that neither enqueue, nor remove a row, nor start a task.
Quiet ==
  \/ \E w \in Run : \/ ClaimBatch(w) \/ Heartbeat(w) \/ SkipLostTask(w)
                    \/ AcquireLocks(w) \/ LockUnavailable(w) \/ TaskFails(w)
                    \/ ReleaseForRetry(w) \/ Crash(w)
                    \/ \E t \in Task : ClaimById(w, t)
  \/ \E t \in Task : LeaseExpires(t) \/ BackoffElapses(t)
  \/ \E s \in Scope : Pause(s) \/ Resume(s)
  \/ UNCHANGED vars

\* After the step, run v is where it was, has just read every record, or is not
\* about to remove a row.
StillRun(v) ==
  \/ pc'[v] \notin {"exec", "split"}
  \/ pc'[v] = "exec" /\ snap'[v] = Record
  \/ /\ pc'[v] = pc[v] /\ cur'[v] = cur[v] /\ snap'[v] = snap[v] /\ chunks'[v] = chunks[v]
     /\ \A t \in Task : Owns(rows', v, t) => Owns(rows, v, t)

RowStays(t) == /\ (rows'[t].status = "absent") = (rows[t].status = "absent")
               /\ t \in Live(rows) => /\ rows'[t].key = rows[t].key
                                      /\ rows'[t].seeds = rows[t].seeds
                                      /\ rows'[t].inline = rows[t].inline

\* A claim of an idle run leaves every row and every other run as they are.
LEMMA ClaimIsQuiet ==
  ASSUME TypeOK, NEW w \in Run, pc[w] = "idle",
         NEW claimed \in SUBSET Task, \A t \in claimed : rows[t].status # "absent",
         rows' = Claim(rows, w, claimed),
         UNCHANGED <<cur, pc, snap, chunks>>
  PROVE  (\A v \in Run : StillRun(v)) /\ (\A t \in Task : RowStays(t))
<1>0. rows \in Rows
  BY DEF TypeOK, Rows
<1>1. ASSUME NEW t \in Task PROVE RowStays(t)
  BY RowsKept DEF RowStays
<1>2. ASSUME NEW v \in Run PROVE StillRun(v)
  <2>1. CASE v = w
    BY <2>1 DEF StillRun
  <2>2. CASE v # w
    <3>1. ASSUME NEW t \in Task, Owns(rows', v, t) PROVE Owns(rows, v, t)
      <4>1. CASE t \in claimed
        <5>1. rows[t] \in Row
          BY <1>0, <4>1, RowOrAbsent
        <5>2. rows'[t].owner = w
          BY <4>1, <5>1 DEF Claim, Row
        <5> QED
          BY <2>2, <3>1, <5>2 DEF Owns
      <4>2. CASE t \notin claimed
        BY <3>1, <4>2 DEF Claim, Owns
      <4> QED
        BY <4>1, <4>2
    <3> QED
      BY <3>1 DEF StillRun
  <2> QED
    BY <2>1, <2>2
<1> QED
  BY <1>1, <1>2

\* A quiet step changes neither what is stale nor what any row asks for.
LEMMA QuietStep ==
  ASSUME TypeOK, Quiet
  PROVE  /\ stale' = stale /\ deadLetter' = deadLetter
         /\ \A v \in Run : StillRun(v)
         /\ \A t \in Task : RowStays(t)
<1>0. rows \in Rows
  BY DEF TypeOK, Rows
<1>1. ASSUME NEW w \in Run, ClaimBatch(w)
      PROVE  (\A v \in Run : StillRun(v)) /\ (\A t \in Task : RowStays(t))
  <2>1. PICK claimed \in SUBSET (StaleRows(rows) \cup DueRows(rows)) :
          rows' = Claim(rows, w, claimed)
    BY <1>1, ClaimsDueOrStale
  <2>2. claimed \in SUBSET Task /\ \A t \in claimed : rows[t].status # "absent"
    BY DEF StaleRows, DueRows
  <2> QED
    BY <1>1, <2>1, <2>2, ClaimIsQuiet DEF ClaimBatch
<1>2. ASSUME NEW w \in Run, NEW t \in Task, ClaimById(w, t)
      PROVE  (\A v \in Run : StillRun(v)) /\ (\A u \in Task : RowStays(u))
  <2>1. /\ {t} \in SUBSET Task /\ \A u \in {t} : rows[u].status # "absent"
        /\ rows' = Claim(rows, w, {t})
        /\ pc[w] = "idle" /\ UNCHANGED <<cur, pc, snap, chunks>>
    BY <1>2 DEF ClaimById
  <2> QED
    BY <2>1, ClaimIsQuiet
<1>3. ASSUME NEW w \in Run, Heartbeat(w)
      PROVE  (\A v \in Run : StillRun(v)) /\ (\A t \in Task : RowStays(t))
  <2> DEFINE held == {i.id : i \in batch[w]} \cup (IF pc[w] = "idle" THEN {} ELSE {cur[w].id})
  <2>1. /\ \A i \in batch[w] : i.id \in Task
        /\ pc[w] # "idle" => cur[w].id \in Task
    BY DEF TypeOK, Item
  <2>2. held \in SUBSET Task /\ rows' = RenewLease(rows, w, held)
    BY <1>3, <2>1 DEF Heartbeat
  <2>3. \A t \in Task : RowStays(t)
    <3> HIDE DEF held
    <3> QED
      BY <2>2, RowsKept DEF RowStays
  <2>4. \A v \in Run, t \in Task : Owns(rows', v, t) => Owns(rows, v, t)
    <3> HIDE DEF held
    <3> QED
      BY <2>2, OwnersKept
  <2> QED
    BY <1>3, <2>3, <2>4 DEF Heartbeat, StillRun
<1>4. ASSUME NEW w \in Run, SkipLostTask(w) \/ AcquireLocks(w) \/ LockUnavailable(w)
                              \/ TaskFails(w) \/ Crash(w)
      PROVE  (\A v \in Run : StillRun(v)) /\ (\A t \in Task : RowStays(t))
  <2>1. rows' = rows
    BY <1>4 DEF SkipLostTask, AcquireLocks, LockUnavailable, TaskFails, Crash
  <2>2. \A v \in Run : StillRun(v)
    BY <1>4, <2>1
    DEF SkipLostTask, AcquireLocks, LockUnavailable, TaskFails, Crash, StillRun, TypeOK
  <2> QED
    BY <2>1, <2>2 DEF RowStays
<1>5. ASSUME NEW w \in Run, ReleaseForRetry(w)
      PROVE  (\A v \in Run : StillRun(v)) /\ (\A t \in Task : RowStays(t))
  <2>1. cur[w].id \in Task
    BY <1>5 DEF ReleaseForRetry, TypeOK, Item
  <2>2. rows' = rows \/ \E t \in Live(rows), n \in Nat : rows' = BackToPending(rows, t, n)
    <3>1. CASE Owns(rows, w, cur[w].id)
      <4>1. rows[cur[w].id].attempts \in Nat /\ cur[w].id \in Live(rows)
        BY <1>0, <2>1, <3>1, RowOrAbsent, OutboxAssumption DEF Owns, Row, Live
      <4> QED
        BY <1>5, <4>1 DEF ReleaseForRetry
    <3>2. CASE ~Owns(rows, w, cur[w].id)
      BY <1>5, <3>2 DEF ReleaseForRetry
    <3> QED
      BY <3>1, <3>2
  <2>3. rows' = rows \/ \E t \in Task, n \in Nat : rows' = BackToPending(rows, t, n)
    BY <2>2 DEF Live
  <2>4. \A t \in Task : RowStays(t)
    BY <2>2, RowsKept DEF RowStays
  <2>5. \A v \in Run, t \in Task : Owns(rows', v, t) => Owns(rows, v, t)
    BY <2>3, OwnersKept
  <2> QED
    BY <1>5, <2>4, <2>5 DEF ReleaseForRetry, Settled, StillRun, TypeOK
<1>6. ASSUME NEW t \in Task, LeaseExpires(t) \/ BackoffElapses(t)
      PROVE  (\A v \in Run : StillRun(v)) /\ (\A u \in Task : RowStays(u))
  <2>1. /\ t \in Live(rows)
        /\ \/ rows' = [rows EXCEPT ![t] = [@ EXCEPT !.fresh = FALSE]]
           \/ rows' = [rows EXCEPT ![t] = [@ EXCEPT !.due = TRUE]]
    BY <1>6 DEF LeaseExpires, BackoffElapses, Live
  <2>2. \A u \in Task : RowStays(u)
    BY <2>1, RowsKept DEF RowStays
  <2>3. \A v \in Run, u \in Task : Owns(rows', v, u) => Owns(rows, v, u)
    BY <2>1, OwnersKept
  <2> QED
    BY <1>6, <2>2, <2>3 DEF LeaseExpires, BackoffElapses, StillRun
<1>7. ASSUME NEW s \in Scope, Pause(s) \/ Resume(s)
      PROVE  (\A v \in Run : StillRun(v)) /\ (\A t \in Task : RowStays(t))
  BY <1>7 DEF Pause, Resume, StillRun, RowStays
<1>8. CASE UNCHANGED vars
  BY <1>8 DEF vars, StillRun, RowStays
<1>9. stale' = stale /\ deadLetter' = deadLetter
  BY DEF Quiet, ClaimBatch, Heartbeat, SkipLostTask, AcquireLocks, LockUnavailable, TaskFails,
         ReleaseForRetry, Settled, Crash, ClaimById, LeaseExpires, BackoffElapses, Pause,
         Resume, vars
<1> QED
  BY <1>1, <1>2, <1>3, <1>4, <1>5, <1>6, <1>7, <1>8, <1>9 DEF Quiet

-----------------------------------------------------------------------------
(***************************************************************************)
(* StaleIsBacked.                                                          *)
(***************************************************************************)
\* After the step record r is backed, or it is lost in one of the two ways.
Accounted(r) == Backed(r)' \/ r \in lost \cup Overwritten \cup Forgotten

\* A row that stays backs what it backed, if every run is where it was.
LEMMA BacksStay ==
  ASSUME NEW r \in Record, NEW t \in Task, Backs(r, t), RowStays(t),
         \A v \in Run : StillRun(v)
  PROVE  Backs(r, t)'
<1>1. t \in Live(rows') /\ r \in rows'[t].seeds
  BY DEF Backs, RowStays, Live
<1>2. ASSUME NEW w \in Run, Owns(rows', w, t), pc'[w] # "idle", cur'[w].id = t,
             \/ pc'[w] = "exec" /\ r \notin snap'[w]
             \/ pc'[w] = "split" /\ \A c \in chunks'[w] : r \notin c.seeds
      PROVE  Doomed(r, t)
  BY <1>2 DEF StillRun, Doomed
<1> QED
  BY <1>1, <1>2 DEF Backs, Doomed

\* Quiet steps leave every record backed.
LEMMA QuietBacks ==
  ASSUME TypeOK, StaleIsBacked, Quiet, NEW r \in stale'
  PROVE  Accounted(r)
<1>1. r \in stale /\ r \in Record
  BY QuietStep DEF TypeOK, HasDependents
<1>2. CASE r \in lost
  BY <1>2 DEF Accounted
<1>3. CASE Parked(r)
  BY <1>3, QuietStep DEF Accounted, Backed, Parked
<1>4. ASSUME NEW t \in Task, Backs(r, t) PROVE Accounted(r)
  BY <1>1, <1>4, QuietStep, BacksStay DEF Accounted, Backed
<1> QED
  BY <1>1, <1>2, <1>3, <1>4 DEF StaleIsBacked, Backed

\* What an enqueue does to the backing of a record.
LEMMA EnqueueBacks ==
  ASSUME TypeOK,
         NEW k \in Key, NEW S \in SUBSET Record, NEW t \in EnqueueTargets(rows, k),
         rows' = Enqueue(rows, t, k, S), NEW r \in Record
  PROVE  /\ r \in S => Backs(r, t)'
         /\ \A u \in Task : Backs(r, u) /\ (Doomed(r, u)' => Doomed(r, u))
                              => Backs(r, u)' \/ r \in Forgotten
         /\ \A v \in Run, u \in Task : Owns(rows', v, u) => Owns(rows, v, u)
<1>0. rows \in Rows
  BY DEF TypeOK, Rows
<1>1. /\ t \in Task
      /\ \A u \in Task \ {t} : rows'[u] = rows[u]
      /\ \A v \in Run : ~Owns(rows', v, t)
  <2>1. /\ t \in Task
        /\ \A u \in Task \ {t} : Enqueue(rows, t, k, S)[u] = rows[u]
        /\ \A v \in Run : ~Owns(Enqueue(rows, t, k, S), v, t)
    BY <1>0, EnqueueEffect
  <2> QED
    BY <2>1
<1>2. /\ S \subseteq rows'[t].seeds
      /\ rows[t].status # "absent"
           => \/ rows[t].seeds \subseteq rows'[t].seeds
              \/ rows[t].status = "pending" /\ rows[t].key \in SeedKey /\ ~rows[t].inline
  <2>1. /\ S \subseteq Enqueue(rows, t, k, S)[t].seeds
        /\ rows[t].status # "absent"
             => \/ rows[t].seeds \subseteq Enqueue(rows, t, k, S)[t].seeds
                \/ rows[t].status = "pending" /\ rows[t].key \in SeedKey /\ ~rows[t].inline
    BY <1>0, EnqueueKeepsSeeds
  <2> QED
    BY <2>1
<1>3. rows'[t].status = "pending"
  <2>1. Enqueue(rows, t, k, S)[t].status = "pending"
    BY <1>0, EnqueueType
  <2> QED
    BY <2>1
<1>4. ~Doomed(r, t)'
  BY <1>1 DEF Doomed
<1>5. r \in S => Backs(r, t)'
  BY <1>1, <1>2, <1>3, <1>4 DEF Backs, Live
<1>6. ASSUME NEW u \in Task, Backs(r, u), Doomed(r, u)' => Doomed(r, u)
      PROVE  Backs(r, u)' \/ r \in Forgotten
  <2>1. CASE u = t /\ r \in rows'[t].seeds
    BY <1>1, <1>3, <1>4, <2>1 DEF Backs, Live
  <2>2. CASE u = t /\ r \notin rows'[t].seeds
    BY <1>1, <1>2, <1>6, <2>2 DEF Backs, Forgotten, Live
  <2>3. CASE u # t
    BY <1>1, <1>6, <2>3 DEF Backs, Live
  <2> QED
    BY <2>1, <2>2, <2>3
<1>7. ASSUME NEW v \in Run, NEW u \in Task, Owns(rows', v, u) PROVE Owns(rows, v, u)
  <2>1. u # t
    BY <1>1, <1>7
  <2> QED
    BY <1>1, <1>7, <2>1 DEF Owns
<1> QED
  BY <1>5, <1>6, <1>7

\* The written record is a seed of the row its write has enqueued.
LEMMA WriteBacks ==
  ASSUME TypeOK, StaleIsBacked, NEW w0 \in Record, Write(w0), NEW r \in stale'
  PROVE  Accounted(r)
<1>1. PICK k \in WriteKeys[w0] : \E t \in EnqueueTargets(rows, k) :
        rows' = Enqueue(rows, t, k, {w0})
  BY DEF Write
<1>2. PICK t \in EnqueueTargets(rows, k) : rows' = Enqueue(rows, t, k, {w0})
  BY <1>1
<1>3. k \in Key /\ {w0} \in SUBSET Record /\ t \in Task /\ r \in Record
  BY WorkerAssumption DEF EnqueueTargets, PendingWith, Write, TypeOK, HasDependents
<1>4. /\ r \in {w0} => Backs(r, t)'
      /\ \A u \in Task : Backs(r, u) /\ (Doomed(r, u)' => Doomed(r, u))
                           => Backs(r, u)' \/ r \in Forgotten
      /\ \A v \in Run, u \in Task : Owns(rows', v, u) => Owns(rows, v, u)
  BY <1>2, <1>3, EnqueueBacks
<1>5. CASE r = w0
  BY <1>3, <1>4, <1>5 DEF Accounted, Backed
<1>6. CASE r # w0
  <2>1. r \in lost \/ Backed(r)
    BY <1>6 DEF StaleIsBacked, Write
  <2>2. \A u \in Task : Doomed(r, u)' => Doomed(r, u)
    BY <1>4, <1>6 DEF Doomed, Write
  <2>3. Parked(r) => Parked(r)'
    BY DEF Parked, Write
  <2> QED
    BY <1>4, <2>1, <2>2, <2>3 DEF Accounted, Backed
<1> QED
  BY <1>5, <1>6

\* When a split starts, every seed of the task is in one of its chunks.
LEMMA BeginBacks ==
  ASSUME TypeOK, OwnedItemIsCurrent, StaleIsBacked,
         NEW w \in Run, pc[w] = "idle", NEW i \in batch[w], Begin(w, i),
         rows' = rows \/ rows' = RenewLease(rows, w, {i.id}), NEW r \in stale'
  PROVE  Accounted(r)
<1>1. i \in Item /\ i.id \in Task
  BY DEF TypeOK, Item
<1>2. \A t \in Task : RowStays(t)
  BY <1>1, RowsKept DEF RowStays
<1>3. \A v \in Run, t \in Task : Owns(rows', v, t) => Owns(rows, v, t)
  BY <1>1, OwnersKept
<1>4. \A v \in Run \ {w} : StillRun(v)
  BY <1>3 DEF Begin, StillRun, TypeOK
<1>5. pc'[w] \in {"split", "run"} /\ cur'[w] = i /\ stale' = stale /\ deadLetter' = deadLetter
  BY DEF Begin, TypeOK
<1>6. r \in Record /\ (r \in lost \/ Backed(r))
  BY <1>5 DEF StaleIsBacked, TypeOK, HasDependents
<1>7. Parked(r) => Parked(r)'
  BY <1>5 DEF Parked
<1>8. ASSUME NEW t \in Task, Backs(r, t) PROVE Backs(r, t)'
  <2>1. t \in Live(rows') /\ r \in rows'[t].seeds
    BY <1>2, <1>8 DEF Backs, RowStays, Live
  <2>2. ASSUME NEW v \in Run, Owns(rows', v, t), pc'[v] # "idle", cur'[v].id = t,
               \/ pc'[v] = "exec" /\ r \notin snap'[v]
               \/ pc'[v] = "split" /\ \A c \in chunks'[v] : r \notin c.seeds
        PROVE  FALSE
    <3>1. CASE v # w
      BY <1>4, <1>6, <1>8, <2>2, <3>1 DEF StillRun, Doomed, Backs
    <3>2. CASE v = w
      <4>1. pc'[w] = "split" /\ t = i.id /\ \A c \in chunks'[w] : r \notin c.seeds
        BY <1>5, <2>2, <3>2
      <4>2. PICK parts \in Chunkings(i) : chunks' = [chunks EXCEPT ![w] = parts]
        BY <4>1 DEF Begin, TypeOK
      <4>3. chunks'[w] = parts
        BY <4>2 DEF TypeOK
      <4>4. \A s \in i.seeds : \E c \in parts : s \in c.seeds
        BY <1>1, ChunksCover
      <4>5. i = ItemOf(t)
        BY <1>3, <2>2, <3>2, <4>1 DEF OwnedItemIsCurrent
      <4>6. r \in i.seeds
        BY <1>8, <4>5 DEF ItemOf, Backs
      <4> QED
        BY <4>1, <4>3, <4>4, <4>6
    <3> QED
      BY <3>1, <3>2
  <2> QED
    BY <2>1, <2>2 DEF Backs, Doomed
<1> QED
  BY <1>6, <1>7, <1>8 DEF Accounted, Backed

\* The seeds of an enqueued chunk move from the split row to another row.
LEMMA EnqueueChunkBacks ==
  ASSUME TypeOK, StaleIsBacked, NEW w \in Run, EnqueueChunk(w), NEW r \in stale'
  PROVE  Accounted(r)
<1>1. PICK c \in chunks[w] : \E t \in EnqueueTargets(rows, c.key) :
        /\ rows' = Enqueue(rows, t, c.key, c.seeds)
        /\ chunks' = [chunks EXCEPT ![w] = @ \ {c}]
  BY DEF EnqueueChunk
<1>2. PICK t \in EnqueueTargets(rows, c.key) :
        /\ rows' = Enqueue(rows, t, c.key, c.seeds)
        /\ chunks' = [chunks EXCEPT ![w] = @ \ {c}]
  BY <1>1
<1>3. c.key \in Key /\ c.seeds \in SUBSET Record /\ t \in Task /\ r \in Record
  BY DEF TypeOK, Chunk, EnqueueTargets, PendingWith, EnqueueChunk, HasDependents
<1>4. /\ r \in c.seeds => Backs(r, t)'
      /\ \A u \in Task : Backs(r, u) /\ (Doomed(r, u)' => Doomed(r, u))
                           => Backs(r, u)' \/ r \in Forgotten
      /\ \A v \in Run, u \in Task : Owns(rows', v, u) => Owns(rows, v, u)
  BY <1>2, <1>3, EnqueueBacks
<1>5. CASE r \in c.seeds
  BY <1>3, <1>4, <1>5 DEF Accounted, Backed
<1>6. CASE r \notin c.seeds
  <2>1. r \in lost \/ Backed(r)
    BY DEF StaleIsBacked, EnqueueChunk
  <2>2. \A v \in Run : (\A d \in chunks'[v] : r \notin d.seeds)
                         => (\A d \in chunks[v] : r \notin d.seeds)
    BY <1>2, <1>6 DEF TypeOK
  <2>3. \A u \in Task : Doomed(r, u)' => Doomed(r, u)
    BY <1>4, <2>2 DEF Doomed, EnqueueChunk
  <2>4. Parked(r) => Parked(r)'
    BY DEF Parked, EnqueueChunk
  <2> QED
    BY <1>4, <2>1, <2>3, <2>4 DEF Accounted, Backed
<1> QED
  BY <1>5, <1>6

\* The row of a split task backs nothing once its chunks are enqueued.
LEMMA SplitDoneBacks ==
  ASSUME TypeOK, StaleIsBacked, NEW w \in Run, SplitDone(w), NEW r \in stale'
  PROVE  Accounted(r)
<1>0. cur[w].id \in Task
  BY DEF SplitDone, TypeOK, Item
<1>1. pc'[w] \in {"idle", "run"} /\ \A v \in Run \ {w} : pc'[v] = pc[v] /\ cur'[v] = cur[v]
  BY DEF SplitDone, TypeOK
<1>2. r \in lost \/ Backed(r)
  BY DEF StaleIsBacked, SplitDone
<1>3. Parked(r) => Parked(r)'
  BY DEF Parked, SplitDone
<1>4. \A v \in Run, t \in Task : Owns(rows', v, t) => Owns(rows, v, t)
  BY <1>0, OwnersKept DEF SplitDone, MarkDone
<1>5. ASSUME NEW t \in Task, Backs(r, t) PROVE Backs(r, t)'
  <2>1. ~Doomed(r, t)'
    BY <1>1, <1>4, <1>5 DEF Backs, Doomed, SplitDone
  <2>2. CASE Owns(rows, w, cur[w].id)
    <3>1. t # cur[w].id
      BY <1>5, <2>2 DEF Backs, Doomed, SplitDone
    <3>2. rows'[t] = rows[t]
      BY <1>0, <2>2, <3>1 DEF SplitDone, MarkDone, TypeOK
    <3> QED
      BY <1>5, <2>1, <3>2 DEF Backs, Live
  <2>3. CASE ~Owns(rows, w, cur[w].id)
    BY <1>5, <2>1, <2>3 DEF Backs, Live, SplitDone, MarkDone
  <2> QED
    BY <2>2, <2>3
<1> QED
  BY <1>2, <1>3, <1>5 DEF Accounted, Backed

\* A failed task goes back to pending or into the dead letter as it is.
LEMMA MarkFailedBacks ==
  ASSUME TypeOK, OwnedItemIsCurrent, StaleIsBacked, NEW w \in Run, MarkFailed(w),
         NEW r \in stale'
  PROVE  Accounted(r)
<1>0. cur[w] \in Item /\ cur[w].id \in Task /\ cur[w].attempts \in Nat
  BY OutboxAssumption DEF MarkFailed, TypeOK, Item
<1>1. pc'[w] = "idle" /\ \A v \in Run \ {w} : pc'[v] = pc[v] /\ cur'[v] = cur[v]
  BY DEF MarkFailed, Settled, TypeOK
<1>2. r \in Record /\ (r \in lost \/ Backed(r))
  BY DEF StaleIsBacked, MarkFailed, Settled, TypeOK, HasDependents
<1>3. Parked(r) => Parked(r)'
  BY DEF Parked, MarkFailed
<1>4. CASE /\ Owns(rows, w, cur[w].id)
           /\ deadLetter' = deadLetter \cup {[key |-> cur[w].key, seeds |-> cur[w].seeds]}
           /\ rows' = [rows EXCEPT ![cur[w].id] = Absent]
  <2>1. cur[w] = ItemOf(cur[w].id)
    BY <1>4 DEF OwnedItemIsCurrent, MarkFailed
  <2>2. ASSUME NEW t \in Task, Backs(r, t) PROVE Backed(r)'
    <3>1. CASE t = cur[w].id
      <4>1. r \in cur[w].seeds
        BY <2>1, <2>2, <3>1 DEF ItemOf, Backs
      <4>2. [key |-> cur[w].key, seeds |-> cur[w].seeds] \in deadLetter'
        BY <1>4
      <4> QED
        BY <4>1, <4>2 DEF Backed, Parked
    <3>2. CASE t # cur[w].id
      <4>1. rows'[t] = rows[t]
        BY <1>4, <3>2 DEF TypeOK
      <4>2. ~Doomed(r, t)'
        BY <1>1, <2>2, <4>1 DEF Backs, Doomed, Owns, MarkFailed, Settled
      <4> QED
        BY <2>2, <4>1, <4>2 DEF Backs, Backed, Live
    <3> QED
      BY <3>1, <3>2
  <2> QED
    BY <1>2, <1>3, <2>2 DEF Accounted, Backed
<1>5. CASE \/ rows' = rows
           \/ /\ Owns(rows, w, cur[w].id)
              /\ rows' = BackToPending(rows, cur[w].id, cur[w].attempts + 1)
  <2>1. rows' = rows \/ \E t \in Live(rows), n \in Nat : rows' = BackToPending(rows, t, n)
    BY <1>0, <1>5 DEF Owns, Live
  <2>2. \A t \in Task : RowStays(t)
    BY <2>1, RowsKept DEF RowStays
  <2>3. rows' = rows \/ \E t \in Task, n \in Nat : rows' = BackToPending(rows, t, n)
    BY <1>0, <1>5
  <2>4. \A v \in Run, t \in Task : Owns(rows', v, t) => Owns(rows, v, t)
    BY <2>3, OwnersKept
  <2>5. \A v \in Run : StillRun(v)
    BY <1>1, <2>4 DEF StillRun, MarkFailed, Settled
  <2> QED
    BY <1>2, <1>3, <2>2, <2>5, BacksStay DEF Accounted, Backed
<1> QED
  BY <1>4, <1>5 DEF MarkFailed

\* A commit enqueues the next stage and removes its own row: no other row of the
\* table is lost, and the next seeds are backed.
LEMMA CommitRows ==
  ASSUME TypeOK, NEW w \in Run, Commit(w)
  PROVE  /\ \A t \in Task : t \in Live(rows) /\ ~(t = cur[w].id /\ Owns(rows, w, t))
                              => t \in Live(rows') /\ rows[t].seeds \subseteq rows'[t].seeds
         /\ \A v \in Run, t \in Task : Owns(rows', v, t) => Owns(rows, v, t)
         /\ \A r \in NextSeeds(cur[w].seeds) :
              \E t \in Task : /\ t \in Live(rows') /\ r \in rows'[t].seeds
                              /\ \A v \in Run : ~Owns(rows', v, t)
<1> DEFINE next == NextSeeds(cur[w].seeds)
           k == NextKey[cur[w].key]
           id == cur[w].id
<1>0. rows \in Rows
  BY DEF TypeOK, Rows
<1>1. id \in Task /\ k \in Key \ SeedKey /\ next \in SUBSET Record
  BY WorkerAssumption, SeedsOfStage DEF Commit, TypeOK, Item
<1>2. CASE next = {} /\ rows' = MarkDone(rows, w, id)
  <2>1. CASE Owns(rows, w, id)
    <3>1. rows' = [rows EXCEPT ![id] = Absent]
      BY <1>2, <2>1 DEF MarkDone
    <3> QED
      BY <1>0, <1>1, <1>2, <2>1, <3>1 DEF Live, Owns, Absent, Rows
  <2>2. CASE ~Owns(rows, w, id)
    BY <1>2, <2>2 DEF MarkDone, Live
  <2> QED
    BY <2>1, <2>2
<1>3. ASSUME NEW t \in EnqueueTargets(rows, k),
             rows' = MarkDone(Enqueue(rows, t, k, next), w, id)
      PROVE  /\ \A u \in Task : u \in Live(rows) /\ ~(u = id /\ Owns(rows, w, u))
                                  => u \in Live(rows') /\ rows[u].seeds \subseteq rows'[u].seeds
             /\ \A v \in Run, u \in Task : Owns(rows', v, u) => Owns(rows, v, u)
             /\ t \in Live(rows') /\ next \subseteq rows'[t].seeds
             /\ \A v \in Run : ~Owns(rows', v, t)
  <2> DEFINE mid == Enqueue(rows, t, k, next)
  <2>1. mid \in Rows /\ mid[t].status = "pending"
    BY <1>0, <1>1, EnqueueType
  <2>2. /\ t \in Task
        /\ \A u \in Task \ {t} : mid[u] = rows[u]
        /\ \A v \in Run : ~Owns(mid, v, t) /\ ~Owns(rows, v, t)
    BY <1>0, <1>1, EnqueueEffect
  <2>3. /\ next \subseteq mid[t].seeds
        /\ rows[t].status # "absent" => rows[t].seeds \subseteq mid[t].seeds
    <3>1. rows[t].status # "absent" => rows[t].key = k
      BY <1>0, <1>1, TargetIsPendingOrFree
    <3> QED
      BY <1>0, <1>1, <3>1, EnqueueKeepsSeeds
  <2>4. rows' = MarkDone(mid, w, id)
    BY <1>3
  <2> HIDE DEF mid, next, k, id
  <2>5. Owns(mid, w, id) = Owns(rows, w, id)
    BY <1>1, <2>2 DEF Owns
  <2>6. \A u \in Task : ~(u = id /\ Owns(mid, w, id)) => rows'[u] = mid[u]
    BY <1>1, <2>1, <2>4 DEF MarkDone, Rows
  <2>7. Owns(mid, w, id) => rows'[id] = Absent
    BY <1>1, <2>1, <2>4 DEF MarkDone, Rows
  <2>8. rows'[t] = mid[t]
    BY <2>2, <2>6
  <2>9. ASSUME NEW u \in Task, u \in Live(rows), ~(u = id /\ Owns(rows, w, u))
        PROVE  u \in Live(rows') /\ rows[u].seeds \subseteq rows'[u].seeds
    <3>1. rows'[u] = mid[u]
      BY <2>5, <2>6, <2>9
    <3>2. CASE u = t
      BY <2>1, <2>3, <2>9, <3>1, <3>2 DEF Live
    <3>3. CASE u # t
      BY <2>2, <2>9, <3>1, <3>3 DEF Live
    <3> QED
      BY <3>2, <3>3
  <2>10. ASSUME NEW v \in Run, NEW u \in Task, Owns(rows', v, u) PROVE Owns(rows, v, u)
    <3>1. rows'[u] = mid[u]
      BY <2>6, <2>7, <2>10 DEF Owns, Absent
    <3> QED
      BY <2>2, <2>10, <3>1 DEF Owns
  <2> QED
    BY <2>1, <2>2, <2>3, <2>8, <2>9, <2>10 DEF Live, Owns
<1>4. CASE next # {}
  <2>1. PICK t \in EnqueueTargets(rows, k) : rows' = MarkDone(Enqueue(rows, t, k, next), w, id)
    BY <1>4, AlwaysGoesOn DEF Commit
  <2>2. t \in Task
    BY DEF EnqueueTargets, PendingWith
  <2> HIDE DEF next, k, id
  <2>3. /\ \A u \in Task : u \in Live(rows) /\ ~(u = id /\ Owns(rows, w, u))
                             => u \in Live(rows') /\ rows[u].seeds \subseteq rows'[u].seeds
        /\ \A v \in Run, u \in Task : Owns(rows', v, u) => Owns(rows, v, u)
        /\ t \in Live(rows') /\ next \subseteq rows'[t].seeds
        /\ \A v \in Run : ~Owns(rows', v, t)
    BY <1>3, <2>1
  <2> QED
    BY <2>2, <2>3 DEF next, id
<1> QED
  BY <1>2, <1>4, AlwaysGoesOn DEF Commit

\* A commit removes the row of records it has computed only, and what it makes
\* stale it has overwritten, or queued for the next stage.
LEMMA CommitBacks ==
  ASSUME TypeOK, OwnedItemIsCurrent, StaleIsBacked, NEW w \in Run, Commit(w), NEW r \in stale'
  PROVE  Accounted(r)
<1> DEFINE seeds == cur[w].seeds
           id == cur[w].id
<1>0. id \in Task /\ seeds \in SUBSET Record /\ pc[w] = "exec"
  BY DEF Commit, TypeOK, Item
<1>1. /\ pc'[w] = "idle"
      /\ \A v \in Run \ {w} : /\ pc'[v] = pc[v] /\ cur'[v] = cur[v] /\ chunks'[v] = chunks[v]
                              /\ snap'[v] = snap[v] \ Affected(seeds)
      /\ stale' = StaleAfter(w) /\ deadLetter' = deadLetter
  BY DEF Commit, TypeOK
<1>2. CASE r \in NextSeeds(seeds)
  <2>1. PICK t \in Task : /\ t \in Live(rows') /\ r \in rows'[t].seeds
                          /\ \A v \in Run : ~Owns(rows', v, t)
    BY <1>2, CommitRows
  <2> QED
    BY <2>1 DEF Accounted, Backed, Backs, Doomed
<1>3. CASE r \notin NextSeeds(seeds) /\ r \notin stale
  <2>1. Overwrites(w, r)
    BY <1>0, <1>1, <1>3 DEF StaleAfter, Overwrites
  <2> QED
    BY <1>1, <1>3, <2>1 DEF Accounted, Overwritten
<1>4. CASE r \notin NextSeeds(seeds) /\ r \in stale
  <2>1. r \in HasDependents /\ r \notin Affected(seeds)
    BY <1>4 DEF NextSeeds, TypeOK
  <2>2. ~(r \in seeds /\ r \in snap[w])
    BY <1>1, <1>4 DEF StaleAfter
  <2>3. r \in lost \/ Backed(r)
    BY <1>4 DEF StaleIsBacked
  <2>4. Parked(r) => Parked(r)'
    BY <1>1 DEF Parked
  <2>5. ASSUME NEW t \in Task, Backs(r, t) PROVE Backs(r, t)'
    <3>1. ~(t = id /\ Owns(rows, w, t))
      <4>1. SUFFICES ASSUME t = id, Owns(rows, w, t) PROVE FALSE
        OBVIOUS
      <4>2. cur[w] = ItemOf(id)
        BY <1>0, <4>1 DEF OwnedItemIsCurrent
      <4>3. r \in seeds
        BY <2>5, <4>1, <4>2 DEF Backs, ItemOf
      <4>4. r \in snap[w]
        BY <1>0, <2>5, <4>1 DEF Backs, Doomed
      <4> QED
        BY <2>2, <4>3, <4>4
    <3>2. t \in Live(rows') /\ r \in rows'[t].seeds
      BY <2>5, <3>1, CommitRows DEF Backs
    <3>3. ASSUME NEW v \in Run, Owns(rows', v, t), pc'[v] # "idle", cur'[v].id = t,
                 \/ pc'[v] = "exec" /\ r \notin snap'[v]
                 \/ pc'[v] = "split" /\ \A c \in chunks'[v] : r \notin c.seeds
          PROVE  Doomed(r, t)
      <4>1. v # w /\ Owns(rows, v, t)
        BY <1>1, <3>3, CommitRows
      <4> QED
        BY <1>1, <2>1, <3>3, <4>1 DEF Doomed
    <3> QED
      BY <2>5, <3>2, <3>3 DEF Backs, Doomed
  <2> QED
    BY <2>3, <2>4, <2>5 DEF Accounted, Backed
<1> QED
  BY <1>2, <1>3, <1>4

-----------------------------------------------------------------------------
(***************************************************************************)
(* The invariant and the theorem.                                          *)
(***************************************************************************)
\* A step that is not quiet is one of these.
LEMMA NextCases ==
  ASSUME [Next]_vars
  PROVE  \/ Quiet
         \/ \E r \in Record : Write(r)
         \/ \E w \in Run : \/ StartTask(w) \/ StartUnrenewed(w) \/ EnqueueChunk(w)
                           \/ SplitDone(w) \/ Commit(w) \/ MarkFailed(w)
BY DEF Next, Work, Quiet

\* Every step leaves every record backed, or lost in one of the two ways.
LEMMA BackedStep ==
  ASSUME TypeOK, OwnedItemIsCurrent, StaleIsBacked, [Next]_vars, NEW r \in stale'
  PROVE  Accounted(r)
<1>1. CASE Quiet
  BY <1>1, QuietBacks
<1>2. ASSUME NEW w \in Run, StartTask(w) \/ StartUnrenewed(w) PROVE Accounted(r)
  <2>1. PICK i \in batch[w] : /\ Begin(w, i)
                              /\ rows' = rows \/ rows' = RenewLease(rows, w, {i.id})
    BY <1>2 DEF StartTask, StartUnrenewed
  <2> QED
    BY <1>2, <2>1, BeginBacks DEF StartTask, StartUnrenewed
<1> QED
  BY <1>1, <1>2, NextCases, WriteBacks, EnqueueChunkBacks, SplitDoneBacks, CommitBacks,
     MarkFailedBacks

\* The inductive invariant holds initially ...
LEMMA InitInv == LossInit => IInv
<1> SUFFICES ASSUME LossInit PROVE IInv
  OBVIOUS
<1>1. TypeOK
  BY InitType DEF LossInit
<1>2. OwnedItemIsCurrent /\ lost \subseteq stale /\ StaleIsBacked
  BY DEF LossInit, Init, OwnedItemIsCurrent, StaleIsBacked
<1> QED
  BY <1>1, <1>2 DEF IInv

\* ... and every step keeps it.
LEMMA StepInv == IInv /\ [Next /\ TrackLosses]_lossVars => IInv'
<1> SUFFICES ASSUME IInv, [Next /\ TrackLosses]_lossVars PROVE IInv'
  OBVIOUS
<1>1. TypeOK /\ OwnedItemIsCurrent /\ lost \subseteq stale /\ StaleIsBacked
  BY DEF IInv
<1>2. [Next]_vars
  BY DEF lossVars
<1>3. TypeOK' /\ OwnedItemIsCurrent'
  BY <1>1, <1>2, StepType, CurrentStep
<1>4. CASE TrackLosses
  <2>1. (lost \subseteq stale)'
    BY <1>4 DEF TrackLosses
  <2>2. ASSUME NEW r \in stale', r \notin lost' PROVE Backed(r)'
    <3>1. Accounted(r)
      BY <1>1, <1>2, BackedStep
    <3> QED
      BY <1>4, <2>2, <3>1 DEF TrackLosses, Accounted
  <2> QED
    BY <1>3, <2>1, <2>2 DEF IInv, StaleIsBacked
<1>5. CASE UNCHANGED lossVars
  <2>1. UNCHANGED lost /\ UNCHANGED vars
    BY <1>5 DEF lossVars
  <2>2. StaleIsBacked'
    BY <1>1, <2>1 DEF StaleIsBacked, Backed, Backs, Doomed, Parked, Live, Owns, vars
  <2> QED
    BY <1>1, <1>3, <2>1, <2>2 DEF IInv, vars
<1> QED
  BY <1>4, <1>5 DEF lossVars

\* Whoever is still the owner of a task has the content of its row in hand,
\* whatever is merged, taken over, spilled or locked.
THEOREM OwnersAreCurrent == Spec => []OwnedItemIsCurrent
<1>1. Init => TypeOK /\ OwnedItemIsCurrent
  BY InitType DEF Init, OwnedItemIsCurrent
<1>2. TypeOK /\ OwnedItemIsCurrent /\ [Next]_vars => (TypeOK /\ OwnedItemIsCurrent)'
  BY StepType, CurrentStep
<1> QED
  BY <1>1, <1>2, PTL DEF Spec

\* The inductive invariant holds in every reachable state: a record that is out
\* of date and has neither been forgotten by a merge nor been overwritten is a
\* seed of a task that will not be removed before it is computed ...
THEOREM InvariantHolds == LossSpec => []IInv
BY InitInv, StepInv, PTL DEF LossSpec

\* ... so that no update is lost in any third way, whatever the order of writes,
\* claims, takeovers, expired leases, failures and crashes, and whatever the
\* locks, the limits and the dependents are.
THEOREM NoUpdateIsLostOtherwise == LossSpec => []NothingElseIsLost
<1>1. IInv => NothingElseIsLost
  <2> SUFFICES ASSUME IInv, NEW r \in stale, r \notin lost
               PROVE  Parked(r) \/ \E t \in Live(rows) : r \in rows[t].seeds
    BY DEF NothingElseIsLost
  <2>1. Backed(r)
    BY DEF IInv, StaleIsBacked
  <2> QED
    BY <2>1 DEF Backed, Backs
<1> QED
  BY <1>1, InvariantHolds, PTL

-----------------------------------------------------------------------------
(***************************************************************************)
(* What the locks ensure.                                                  *)
(***************************************************************************)
\* With locks switched on, two sets of seeds of one base with a common record share
\* a lock key when the table of that record is locked in the same way for both:
\* record by record, or by shards, or as a whole.
LEMMA CommonSeedCommonKey ==
  ASSUME LocksEnabled, NEW base, NEW S \in SUBSET Record, NEW T \in SUBSET Record, NEW r \in S \cap T,
         (Cardinality(SeedGroup(TableOf[r], S)) <= MaxRecordLocks)
           <=> (Cardinality(SeedGroup(TableOf[r], T)) <= MaxRecordLocks)
  PROVE  LockKeys(base, S) \cap LockKeys(base, T) # {}
<1> DEFINE t == TableOf[r]
<1>1. r \in SeedGroup(t, S) /\ r \in SeedGroup(t, T)
  BY DEF SeedGroup
<1>2. /\ GroupLocks(base, t, SeedGroup(t, S)) \subseteq LockKeys(base, S)
      /\ GroupLocks(base, t, SeedGroup(t, T)) \subseteq LockKeys(base, T)
  BY DEF LockKeys
<1>3. GroupLocks(base, t, SeedGroup(t, S)) \cap GroupLocks(base, t, SeedGroup(t, T)) # {}
  <2>1. CASE Cardinality(SeedGroup(t, S)) <= MaxRecordLocks
    <3>1. /\ <<"record", base, t, r>> \in GroupLocks(base, t, SeedGroup(t, S))
          /\ <<"record", base, t, r>> \in GroupLocks(base, t, SeedGroup(t, T))
      BY <1>1, <2>1 DEF GroupLocks
    <3> QED
      BY <3>1
  <2>2. CASE ~(Cardinality(SeedGroup(t, S)) <= MaxRecordLocks) /\ BatchShardCount <= 0
    BY <2>2 DEF GroupLocks
  <2>3. CASE ~(Cardinality(SeedGroup(t, S)) <= MaxRecordLocks) /\ ~(BatchShardCount <= 0)
    <3>1. /\ <<"batch", base, t, Shard[r]>> \in GroupLocks(base, t, SeedGroup(t, S))
          /\ <<"batch", base, t, Shard[r]>> \in GroupLocks(base, t, SeedGroup(t, T))
      BY <1>1, <2>3 DEF GroupLocks
    <3> QED
      BY <3>1
  <2> QED
    BY <2>1, <2>2, <2>3
<1> QED
  BY <1>2, <1>3

\* With locks switched on, two running tasks of one base that share a seed lock its
\* table in different ways ...
THEOREM SameLocks == Spec => []SameLocksExclude
<1>1. Init => TypeOK /\ LocksHeld
  BY InitType DEF Init, LocksHeld
<1>2. TypeOK /\ LocksHeld /\ [Next]_vars => (TypeOK /\ LocksHeld)'
  BY StepType, LocksStep
<1>3. TypeOK /\ LocksHeld => SameLocksExclude
  <2> SUFFICES ASSUME TypeOK, LocksHeld, LocksEnabled, NEW v \in Run, NEW w \in Run,
                      pc[v] = "exec", pc[w] = "exec", v # w,
                      BaseOf[cur[v].key] = BaseOf[cur[w].key],
                      NEW r \in cur[v].seeds \cap cur[w].seeds,
                      LocksByRecord(TableOf[r], cur[v].seeds)
                        = LocksByRecord(TableOf[r], cur[w].seeds)
               PROVE  FALSE
    BY DEF SameLocksExclude
  <2>1. cur[v].seeds \in SUBSET Record /\ cur[w].seeds \in SUBSET Record
    BY DEF TypeOK, Item
  <2>2. ItemLocks(cur[v]) \cap ItemLocks(cur[w]) # {}
    BY <2>1, CommonSeedCommonKey DEF LocksByRecord, ItemLocks
  <2> QED
    BY <2>2 DEF LocksHeld
<1> QED
  BY <1>1, <1>2, <1>3, PTL DEF Spec

\* ... so within one base, as long as no task has more seeds than maxRecordLocks,
\* two tasks that share a seed record never run at the same time ...
THEOREM RecordLocksExclude ==
  ASSUME LocksEnabled, \A k, l \in Key : BaseOf[k] = BaseOf[l],
         \A S \in SUBSET Record : Cardinality(S) <= MaxRecordLocks
  PROVE  Spec => []ExclusiveSeeds
<1>1. TypeOK /\ SameLocksExclude => ExclusiveSeeds
  <2> SUFFICES ASSUME TypeOK, SameLocksExclude, NEW v \in Run, NEW w \in Run,
                      pc[v] = "exec", pc[w] = "exec", v # w,
                      NEW r \in cur[v].seeds \cap cur[w].seeds
               PROVE  FALSE
    BY DEF ExclusiveSeeds
  <2>1. ASSUME NEW x \in Run, pc[x] = "exec" PROVE LocksByRecord(TableOf[r], cur[x].seeds)
    <3>1. SeedGroup(TableOf[r], cur[x].seeds) \in SUBSET Record
      BY <2>1 DEF TypeOK, Item, SeedGroup
    <3> QED
      BY <3>1 DEF LocksByRecord
  <2>2. BaseOf[cur[v].key] = BaseOf[cur[w].key]
    BY DEF TypeOK, Item
  <2> QED
    BY <2>1, <2>2 DEF SameLocksExclude, LocksByRecord
<1> QED
  BY <1>1, TypeCorrect, SameLocks, PTL

\* ... and likewise when record locks are switched off (maxRecordLocks below 1).
THEOREM BatchLocksExclude ==
  ASSUME LocksEnabled, \A k, l \in Key : BaseOf[k] = BaseOf[l], MaxRecordLocks < 1
  PROVE  Spec => []ExclusiveSeeds
<1>1. TypeOK /\ SameLocksExclude => ExclusiveSeeds
  <2> SUFFICES ASSUME TypeOK, SameLocksExclude, NEW v \in Run, NEW w \in Run,
                      pc[v] = "exec", pc[w] = "exec", v # w,
                      NEW r \in cur[v].seeds \cap cur[w].seeds
               PROVE  FALSE
    BY DEF ExclusiveSeeds
  <2>1. ASSUME NEW x \in Run, pc[x] = "exec", r \in cur[x].seeds
        PROVE  ~LocksByRecord(TableOf[r], cur[x].seeds)
    <3> DEFINE group == SeedGroup(TableOf[r], cur[x].seeds)
    <3>1. group \in SUBSET Record /\ r \in group
      BY <2>1 DEF TypeOK, Item, SeedGroup
    <3>2. IsFiniteSet(group) /\ Cardinality(group) \in Nat /\ Cardinality(group) # 0
      BY <3>1, SeedsAssumption, FS_Subset, FS_CardinalityType, FS_EmptySet
    <3> QED
      BY <3>2, LockAssumption DEF LocksByRecord
  <2>2. BaseOf[cur[v].key] = BaseOf[cur[w].key]
    BY DEF TypeOK, Item
  <2> QED
    BY <2>1, <2>2 DEF SameLocksExclude, LocksByRecord
<1> QED
  BY <1>1, TypeCorrect, SameLocks, PTL

\* The limit is where it bites: two tasks, of every common table of which one locks
\* its seeds record by record and the other by shards or as a whole, share no key
\* at all, whatever seeds they share ...
THEOREM MixedLocksMissEachOther ==
  ASSUME NEW base, NEW S \in SUBSET Record, NEW T \in SUBSET Record,
         \A t \in {TableOf[r] : r \in S} \cap {TableOf[r] : r \in T} :
           LocksByRecord(t, S) # LocksByRecord(t, T)
  PROVE  LockKeys(base, S) \cap LockKeys(base, T) = {}
<1>1. ASSUME NEW X \in SUBSET Record, NEW k \in LockKeys(base, X)
      PROVE  \E t \in {TableOf[r] : r \in X} :
               k[3] = t /\ (k[1] = "record") = LocksByRecord(t, X)
  <2>1. PICK t \in {TableOf[r] : r \in X} : k \in GroupLocks(base, t, SeedGroup(t, X))
    BY <1>1 DEF LockKeys
  <2>2. CASE LocksByRecord(t, X)
    BY <2>1, <2>2 DEF GroupLocks, LocksByRecord
  <2>3. CASE ~LocksByRecord(t, X)
    BY <2>1, <2>3 DEF GroupLocks, LocksByRecord
  <2> QED
    BY <2>2, <2>3
<1> SUFFICES ASSUME NEW k \in LockKeys(base, S), k \in LockKeys(base, T) PROVE FALSE
  OBVIOUS
<1>2. PICK t \in {TableOf[r] : r \in S} : k[3] = t /\ (k[1] = "record") = LocksByRecord(t, S)
  BY <1>1
<1>3. PICK u \in {TableOf[r] : r \in T} : k[3] = u /\ (k[1] = "record") = LocksByRecord(u, T)
  BY <1>1
<1> QED
  BY <1>2, <1>3

\* ... and so do any two tasks of different bases: the stages of a task stay in
\* its base, whichever base the records they compute are written in.
THEOREM BasesMissEachOther ==
  ASSUME NEW base, NEW other, base # other,
         NEW S \in SUBSET Record, NEW T \in SUBSET Record
  PROVE  LockKeys(base, S) \cap LockKeys(other, T) = {}
<1>1. ASSUME NEW b, NEW X \in SUBSET Record, NEW k \in LockKeys(b, X) PROVE k[2] = b
  <2>1. PICK t \in {TableOf[r] : r \in X} : k \in GroupLocks(b, t, SeedGroup(t, X))
    BY <1>1 DEF LockKeys
  <2> QED
    BY <2>1 DEF GroupLocks
<1> QED
  BY <1>1

=============================================================================
