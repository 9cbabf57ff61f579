----------------------- MODULE TableProvisioning_proofs ----------------------
(***************************************************************************)
(* Proofs about commands that create and delete tables, for every set of   *)
(* commands, tables and runners.                                           *)
(***************************************************************************)
EXTENDS TableProvisioning, TLAPS

-----------------------------------------------------------------------------
(***************************************************************************)
(* The operators on the schema_operation table.                            *)
(***************************************************************************)
\* An upsert sets the status of one operation.
LEMMA UpsertEffect ==
  ASSUME NEW o \in [Cmd -> Op], NEW c \in Cmd, NEW s \in {"pending", "error", "ready"}
  PROVE  /\ Upsert(o, c, s) \in [Cmd -> Op]
         /\ Upsert(o, c, s)[c].status = s
         /\ \A d \in Cmd \ {c} : Upsert(o, c, s)[d] = o[d]
BY DEF Upsert, Op, Status

\* So does the runner's last update.
LEMMA AdvanceEffect ==
  ASSUME NEW o \in [Cmd -> Op], NEW c \in Cmd, NEW s \in {"ready", "error", "dead"}
  PROVE  /\ Advance(o, c, s) \in [Cmd -> Op]
         /\ Advance(o, c, s)[c].status = s
         /\ \A d \in Cmd \ {c} : Advance(o, c, s)[d] = o[d]
BY DEF Advance, Op, Status

\* A claim makes one operation a running one.
LEMMA ClaimEffect ==
  ASSUME NEW o \in [Cmd -> Op], NEW c \in Cmd
  PROVE  /\ Claim(o, c) \in [Cmd -> Op]
         /\ Claim(o, c)[c].status = "running"
         /\ \A d \in Cmd \ {c} : Claim(o, c)[d] = o[d]
BY DEF Claim, Op, Status

\* The operator's commands leave an operation that has not succeeded.
LEMMA ManualEffect ==
  ASSUME NEW o \in [Cmd -> Op], NEW c \in Cmd, NEW reset \in BOOLEAN
  PROVE  /\ ManualRetry(o, c, reset) \in [Cmd -> Op] /\ MarkDead(o, c) \in [Cmd -> Op]
         /\ ManualRetry(o, c, reset)[c].status = "error" /\ MarkDead(o, c)[c].status = "dead"
         /\ \A d \in Cmd \ {c} : /\ ManualRetry(o, c, reset)[d] = o[d]
                                /\ MarkDead(o, c)[d] = o[d]
<1>1. o[c].attempts \in Nat
  BY DEF Op
<1> QED
  BY <1>1 DEF ManualRetry, MarkDead, Op, Status

\* Time changes no status.
LEMMA TimeEffect ==
  ASSUME NEW c \in Cmd, ops \in [Cmd -> Op], LockGetsOld(c) \/ BackoffElapses(c)
  PROVE  /\ ops' \in [Cmd -> Op]
         /\ \A d \in Cmd : ops'[d].status = ops[d].status
         /\ UNCHANGED <<meta, provision, storage, pc, job, seen, rpc>>
BY ZenonT(40) DEF LockGetsOld, BackoffElapses, Op, Status, runnerVars

\* setProvisionState changes one row and one operation.
LEMMA SetProvisionStateEffect ==
  ASSUME TypeOK, NEW c \in Cmd, NEW state \in {"pending", "deleting", "error", "ready"},
         NEW s \in {"pending", "error", "ready"}, SetProvisionState(c, state, s)
  PROVE  /\ provision' \in [Table -> {"none", "pending", "deleting", "error", "ready"}]
         /\ ops' \in [Cmd -> Op] /\ ops'[c].status = s
         /\ \A d \in Cmd \ {c} : ops'[d] = ops[d]
<1>1. TableOf[c] \in Table
  BY ProvisioningAssumption
<1>2. provision' \in [Table -> {"none", "pending", "deleting", "error", "ready"}]
  BY <1>1 DEF SetProvisionState, TypeOK
<1>3. ops' = Upsert(ops, c, s) /\ ops \in [Cmd -> Op]
  BY DEF SetProvisionState, TypeOK
<1> QED
  BY <1>2, <1>3, UpsertEffect

-----------------------------------------------------------------------------
(***************************************************************************)
(* Type correctness.                                                       *)
(***************************************************************************)
\* Initially the types are right.
LEMMA InitTypes == Init => TypeOK
BY DEF Init, TypeOK, Op, NoOp

\* A step of a command keeps the types.
LEMMA CommandTypes ==
  ASSUME TypeOK, NEW c \in Cmd,
         Handle(c) \/ DataFails(c) \/ FinalizeFails(c) \/ Abandon(c)
  PROVE  TypeOK'
<1> USE DEF Goto, runnerVars
<1>0. TableOf[c] \in Table /\ ops \in [Cmd -> Op]
  BY ProvisioningAssumption DEF TypeOK
<1>1. CASE Insert(c)
  <2>1. ops' \in [Cmd -> Op]
    BY <1>0, <1>1, UpsertEffect DEF Insert
  <2> QED
    BY <1>0, <1>1, <2>1 DEF Insert, TypeOK
<1>2. CASE Provision(c)
  BY <1>0, <1>2 DEF Provision, TypeOK
<1>3. CASE Fail(c)
  <2>1. provision' \in [Table -> {"none", "pending", "deleting", "error", "ready"}]
        /\ ops' \in [Cmd -> Op]
    BY <1>3, SetProvisionStateEffect DEF Fail
  <2> QED
    BY <1>0, <1>3, <2>1 DEF Fail, TypeOK
<1>4. CASE Cleanup(c)
  BY <1>0, <1>4 DEF Cleanup, TypeOK
<1>5. CASE Finish(c)
  <2>1. provision' \in [Table -> {"none", "pending", "deleting", "error", "ready"}]
        /\ ops' \in [Cmd -> Op]
    BY <1>5, SetProvisionStateEffect DEF Finish
  <2> QED
    BY <1>0, <1>5, <2>1 DEF Finish, TypeOK
<1>6. CASE FindTable(c)
  BY <1>0, <1>6 DEF FindTable, TypeOK
<1>7. CASE BeginDelete(c)
  <2>1. provision' \in [Table -> {"none", "pending", "deleting", "error", "ready"}]
        /\ ops' \in [Cmd -> Op]
    BY <1>7, SetProvisionStateEffect DEF BeginDelete
  <2> QED
    BY <1>0, <1>7, <2>1 DEF BeginDelete, TypeOK
<1>8. CASE DropData(c)
  BY <1>0, <1>8 DEF DropData, TypeOK
<1>9. CASE Finalize(c)
  BY <1>0, <1>9 DEF Finalize, TypeOK
<1>10. CASE DataFails(c) \/ FinalizeFails(c) \/ Abandon(c)
  BY <1>0, <1>10 DEF DataFails, FinalizeFails, Abandon, TypeOK
<1> QED
  BY <1>1, <1>2, <1>3, <1>4, <1>5, <1>6, <1>7, <1>8, <1>9, <1>10 DEF Handle

\* A step of a runner keeps the types.
LEMMA RunnerTypes ==
  ASSUME TypeOK, NEW w \in Runner,
         ClaimNext(w) \/ Repair(w) \/ RunnerFails(w) \/ RunnerCrash(w)
  PROVE  TypeOK'
<1> USE DEF RunnerGoto, Release
<1>1. CASE ClaimNext(w)
  <2>1. PICK c \in Repairable : /\ Claimable(ops[c])
                                /\ ops' = Claim(ops, c)
                                /\ job' = [job EXCEPT ![w] = c]
                                /\ seen' = [seen EXCEPT ![w] = ops[c].attempts]
    BY <1>1 DEF ClaimNext
  <2>2. c \in Cmd
    BY DEF Repairable
  <2>3. ops' \in [Cmd -> Op] /\ ops[c].attempts \in Nat
    BY <2>1, <2>2, ClaimEffect DEF TypeOK, Op
  <2> QED
    BY <1>1, <2>1, <2>2, <2>3 DEF ClaimNext, TypeOK
<1>2. CASE LoadTables(w) \/ Look(w) \/ RunnerFails(w)
  BY <1>2 DEF LoadTables, Look, RunnerFails, TypeOK
<1>3. CASE Ensure(w)
  <2>1. job[w] \in Cmd
    BY <1>3 DEF Ensure, TypeOK, Repairable
  <2>2. TableOf[job[w]] \in Table
    BY <2>1, ProvisioningAssumption
  <2> QED
    BY <1>3, <2>2 DEF Ensure, TypeOK
<1>4. CASE Complete(w)
  <2>1. job[w] \in Cmd
    BY <1>4 DEF Complete, TypeOK, Repairable
  <2>2. provision' \in [Table -> {"none", "pending", "deleting", "error", "ready"}]
        /\ ops' \in [Cmd -> Op]
    BY <1>4, <2>1, SetProvisionStateEffect DEF Complete
  <2> QED
    BY <1>4, <2>2 DEF Complete, TypeOK
<1>5. CASE MarkReady(w)
  <2>1. job[w] \in Cmd
    BY <1>5 DEF MarkReady, TypeOK, Repairable
  <2>2. ops' \in [Cmd -> Op]
    BY <1>5, <2>1, AdvanceEffect DEF MarkReady, TypeOK
  <2> QED
    BY <1>5, <2>2 DEF MarkReady, TypeOK
<1>6. CASE MarkOperationFailed(w)
  <2>1. job[w] \in Cmd
    BY <1>6 DEF MarkOperationFailed, TypeOK, Repairable
  <2>2. PICK s \in {"dead", "error"} : ops' = Advance(ops, job[w], s)
    BY <1>6 DEF MarkOperationFailed
  <2>3. ops' \in [Cmd -> Op]
    BY <2>1, <2>2, AdvanceEffect DEF TypeOK
  <2> QED
    BY <1>6, <2>3 DEF MarkOperationFailed, TypeOK
<1>7. CASE RunnerCrash(w)
  BY <1>7 DEF RunnerCrash, TypeOK
<1> QED
  BY <1>1, <1>2, <1>3, <1>4, <1>5, <1>6, <1>7 DEF Repair

\* Time and the operators keep the types.
LEMMA OtherTypes ==
  ASSUME TypeOK,
         \/ \E c \in Cmd : LockGetsOld(c) \/ BackoffElapses(c) \/ Retry(c) \/ Bury(c)
         \/ \E t \in Table : Restore(t)
  PROVE  TypeOK'
<1>1. ASSUME NEW c \in Cmd, LockGetsOld(c) \/ BackoffElapses(c)
      PROVE  TypeOK'
  BY <1>1, TimeEffect DEF TypeOK
<1>2. ASSUME NEW c \in Cmd, Retry(c) \/ Bury(c)
      PROVE  TypeOK'
  <2>1. PICK reset \in BOOLEAN : ops' = ManualRetry(ops, c, reset) \/ ops' = MarkDead(ops, c)
    BY <1>2 DEF Retry, Bury
  <2>2. ops' \in [Cmd -> Op]
    BY <2>1, ManualEffect DEF TypeOK
  <2> QED
    BY <1>2, <2>2 DEF Retry, Bury, TypeOK, runnerVars
<1>3. ASSUME NEW t \in Table, Restore(t)
      PROVE  TypeOK'
  BY <1>3 DEF Restore, TypeOK, runnerVars
<1> QED
  BY <1>1, <1>2, <1>3

\* Every step keeps the types.
LEMMA StepTypes == TypeOK /\ [Next]_vars => TypeOK'
<1> SUFFICES ASSUME TypeOK, [Next]_vars PROVE TypeOK'
  OBVIOUS
<1>1. CASE UNCHANGED vars
  BY <1>1 DEF vars, TypeOK
<1>2. CASE Next
  BY <1>2, CommandTypes, RunnerTypes, OtherTypes DEF Next
<1> QED
  BY <1>1, <1>2

\* Every reachable state is well typed.
THEOREM TypesHold == Spec => []TypeOK
BY InitTypes, StepTypes, PTL DEF Spec

-----------------------------------------------------------------------------
(***************************************************************************)
(* What a step may do to each part of the state.                           *)
(***************************************************************************)
\* Commands, deletions and repairs are told apart by their kinds.
LEMMA Kinds ==
  /\ Repairable \subseteq Creator /\ Creator \subseteq Cmd
  /\ Purge \subseteq Deleter /\ Deleter \subseteq Cmd
  /\ Creator \cap Deleter = {}
BY ProvisioningAssumption DEF Repairable, Creator, Purge, Deleter

\* What a command does to the operations: to its own only, and only the last
\* step of its handler settles it.
LEMMA CommandOps ==
  ASSUME TypeOK, NEW c \in Cmd, NEW d \in Cmd,
         Handle(c) \/ DataFails(c) \/ FinalizeFails(c) \/ Abandon(c)
  PROVE  \/ ops'[d] = ops[d]
         \/ d = c /\ Unsettled(ops'[d]) /\ (Insert(d) \/ Fail(d) \/ BeginDelete(d))
         \/ d = c /\ Finish(d) /\ ops'[d].status = "ready"
<1> USE DEF runnerVars
<1>0. ops \in [Cmd -> Op]
  BY DEF TypeOK
<1>1. CASE Insert(c)
  <2>1. ops' = Upsert(ops, c, "pending")
    BY <1>1 DEF Insert
  <2> QED
    BY <1>0, <1>1, <2>1, UpsertEffect DEF Unsettled
<1>2. CASE Fail(c)
  BY <1>2, SetProvisionStateEffect DEF Fail, Unsettled
<1>3. CASE BeginDelete(c)
  BY <1>3, SetProvisionStateEffect DEF BeginDelete, Unsettled
<1>4. CASE Finish(c)
  BY <1>4, SetProvisionStateEffect DEF Finish
<1>5. CASE \/ Provision(c) \/ Cleanup(c) \/ FindTable(c) \/ DropData(c) \/ Finalize(c)
           \/ DataFails(c) \/ FinalizeFails(c) \/ Abandon(c)
  BY <1>5 DEF Provision, Cleanup, FindTable, DropData, Finalize, DataFails, FinalizeFails,
              Abandon
<1> QED
  BY <1>1, <1>2, <1>3, <1>4, <1>5 DEF Handle

\* What a runner does to the operations: to its job, or to the one it claims.
LEMMA RunnerOps ==
  ASSUME TypeOK, NEW w \in Runner, NEW d \in Cmd,
         ClaimNext(w) \/ Repair(w) \/ RunnerFails(w) \/ RunnerCrash(w)
  PROVE  \/ ops'[d] = ops[d]
         \/ Claimable(ops[d]) /\ Unsettled(ops'[d])
         \/ job[w] = d /\ rpc[w] # "idle" /\ Unsettled(ops'[d])
         \/ job[w] = d /\ (Complete(w) \/ MarkReady(w)) /\ ops'[d].status = "ready"
<1>0. ops \in [Cmd -> Op] /\ (rpc[w] # "idle" => job[w] \in Cmd)
  BY Kinds DEF TypeOK
<1>1. CASE ClaimNext(w)
  <2>1. PICK c \in Repairable : Claimable(ops[c]) /\ ops' = Claim(ops, c)
    BY <1>1 DEF ClaimNext
  <2> QED
    BY <1>0, <2>1, Kinds, ClaimEffect DEF Unsettled
<1>2. CASE LoadTables(w) \/ Look(w) \/ Ensure(w) \/ RunnerFails(w) \/ RunnerCrash(w)
  BY <1>2 DEF LoadTables, Look, Ensure, RunnerFails, RunnerCrash
<1>3. CASE Complete(w)
  BY <1>0, <1>3, SetProvisionStateEffect DEF Complete
<1>4. CASE MarkReady(w)
  BY <1>0, <1>4, AdvanceEffect DEF MarkReady
<1>5. CASE MarkOperationFailed(w)
  <2>1. PICK s \in {"dead", "error"} : ops' = Advance(ops, job[w], s)
    BY <1>5 DEF MarkOperationFailed
  <2>2. rpc[w] # "idle"
    BY <1>5 DEF MarkOperationFailed
  <2> QED
    BY SMTT(30), <1>0, <2>1, <2>2, AdvanceEffect DEF Unsettled
<1> QED
  BY <1>1, <1>2, <1>3, <1>4, <1>5 DEF Repair

\* What the operator and time do to the operations: they settle none.
LEMMA OtherOps ==
  ASSUME TypeOK, NEW d \in Cmd,
         \/ \E c \in Cmd : LockGetsOld(c) \/ BackoffElapses(c) \/ Retry(c) \/ Bury(c)
         \/ \E t \in Table : Restore(t)
  PROVE  \/ ops'[d].status = ops[d].status
         \/ ops[d].status # "none" /\ Unsettled(ops'[d])
<1>0. ops \in [Cmd -> Op]
  BY DEF TypeOK
<1>1. ASSUME NEW c \in Cmd, LockGetsOld(c) \/ BackoffElapses(c)
      PROVE  ops'[d].status = ops[d].status
  BY <1>0, <1>1, TimeEffect
<1>2. ASSUME NEW c \in Cmd, Retry(c) \/ Bury(c)
      PROVE  ops'[d] = ops[d] \/ (ops[d].status # "none" /\ Unsettled(ops'[d]))
  <2>1. PICK reset \in BOOLEAN :
          /\ ops[c].status # "none"
          /\ ops' = ManualRetry(ops, c, reset) \/ ops' = MarkDead(ops, c)
    BY <1>2 DEF Retry, Bury
  <2>2. CASE c = d
    BY <1>0, <2>1, <2>2, ManualEffect DEF Unsettled
  <2>3. CASE c # d
    BY <1>0, <2>1, <2>3, ManualEffect
  <2> QED
    BY <2>2, <2>3
<1>3. ASSUME NEW t \in Table, Restore(t)
      PROVE  ops'[d] = ops[d]
  BY <1>3 DEF Restore
<1> QED
  BY <1>1, <1>2, <1>3

\* An operation on record stays so until its command or a runner finishes it,
\* and a row of the table is never deleted.
LEMMA StaysOnRecord ==
  ASSUME TypeOK, Next, NEW d \in Cmd
  PROVE  /\ Unsettled(ops[d]) =>
              \/ Unsettled(ops'[d])
              \/ Finish(d)
              \/ \E w \in Runner : job[w] = d /\ (Complete(w) \/ MarkReady(w))
         /\ ops[d].status # "none" => ops'[d].status # "none"
         /\ ops[d].status = "none" =>
              \/ ops'[d].status = "none"
              \/ Insert(d) \/ Fail(d) \/ BeginDelete(d) \/ Finish(d)
              \/ \E w \in Runner : job[w] = d /\ rpc[w] # "idle"
<1>1. ASSUME NEW c \in Cmd, Handle(c) \/ DataFails(c) \/ FinalizeFails(c) \/ Abandon(c)
      PROVE  \/ ops'[d] = ops[d]
             \/ Unsettled(ops'[d]) /\ (Insert(d) \/ Fail(d) \/ BeginDelete(d))
             \/ Finish(d) /\ ops'[d].status = "ready"
  BY <1>1, CommandOps
<1>2. ASSUME NEW w \in Runner, ClaimNext(w) \/ Repair(w) \/ RunnerFails(w) \/ RunnerCrash(w)
      PROVE  \/ ops'[d] = ops[d]
             \/ Claimable(ops[d]) /\ Unsettled(ops'[d])
             \/ job[w] = d /\ rpc[w] # "idle" /\ Unsettled(ops'[d])
             \/ job[w] = d /\ (Complete(w) \/ MarkReady(w)) /\ ops'[d].status = "ready"
  BY <1>2, RunnerOps
<1>3. ASSUME \/ \E c \in Cmd : LockGetsOld(c) \/ BackoffElapses(c) \/ Retry(c) \/ Bury(c)
             \/ \E t \in Table : Restore(t)
      PROVE  \/ ops'[d].status = ops[d].status
             \/ ops[d].status # "none" /\ Unsettled(ops'[d])
  BY <1>3, OtherOps
<1>4. CASE \E c \in Cmd : Handle(c) \/ DataFails(c) \/ FinalizeFails(c) \/ Abandon(c)
  BY <1>1, <1>4 DEF Unsettled
<1>5. CASE \E w \in Runner : ClaimNext(w) \/ Repair(w) \/ RunnerFails(w) \/ RunnerCrash(w)
  BY <1>2, <1>5 DEF Unsettled, Claimable, Complete, MarkReady
<1>6. CASE \/ \E c \in Cmd : LockGetsOld(c) \/ BackoffElapses(c) \/ Retry(c) \/ Bury(c)
           \/ \E t \in Table : Restore(t)
  BY <1>3, <1>6 DEF Unsettled
<1> QED
  BY <1>4, <1>5, <1>6 DEF Next

\* Only a permanent deletion drops a physical table; only the creation and a
\* repair of it create one.
LEMMA StorageStep ==
  ASSUME TypeOK, Next, NEW t \in Table
  PROVE  /\ t \in storage /\ t \notin storage' =>
              \E p \in Purge : TableOf[p] = t /\ DropData(p)
         /\ t \notin storage /\ t \in storage' =>
              \/ \E c \in Creator : TableOf[c] = t /\ Provision(c)
              \/ \E w \in Runner : TableOf[job[w]] = t /\ Ensure(w)
<1> USE DEF runnerVars
<1>1. ASSUME NEW c \in Cmd, Handle(c) \/ DataFails(c) \/ FinalizeFails(c) \/ Abandon(c)
      PROVE  \/ storage' = storage
             \/ c \in Purge /\ DropData(c) /\ storage' = storage \ {TableOf[c]}
             \/ c \in Creator /\ Provision(c) /\ storage' = storage \cup {TableOf[c]}
  BY <1>1 DEF Handle, Insert, Provision, Fail, Cleanup, Finish, FindTable, BeginDelete, DropData,
              Finalize, DataFails, FinalizeFails, Abandon
<1>2. ASSUME NEW w \in Runner, ClaimNext(w) \/ Repair(w) \/ RunnerFails(w) \/ RunnerCrash(w)
      PROVE  storage' = storage \/ (Ensure(w) /\ storage' = storage \cup {TableOf[job[w]]})
  BY <1>2 DEF ClaimNext, Repair, LoadTables, Look, Ensure, Complete, MarkReady,
              MarkOperationFailed, RunnerFails, RunnerCrash
<1>3. ASSUME \/ \E c \in Cmd : LockGetsOld(c) \/ BackoffElapses(c) \/ Retry(c) \/ Bury(c)
             \/ \E u \in Table : Restore(u)
      PROVE  storage' = storage
  BY <1>3 DEF LockGetsOld, BackoffElapses, Retry, Bury, Restore
<1> QED
  BY <1>1, <1>2, <1>3 DEF Next

\* Metadata comes into being with the creation only.
LEMMA MetaStep ==
  ASSUME TypeOK, Next, NEW t \in Table, meta[t] = "none", meta'[t] # "none"
  PROVE  \E c \in Creator : TableOf[c] = t /\ Insert(c)
<1> USE DEF runnerVars
<1>1. ASSUME NEW c \in Cmd, Handle(c) \/ DataFails(c) \/ FinalizeFails(c) \/ Abandon(c)
      PROVE  (c \in Creator /\ TableOf[c] = t /\ Insert(c)) \/ meta'[t] = "none"
  <2>1. CASE Insert(c)
    BY <1>1, <2>1 DEF Insert, TypeOK
  <2>2. CASE Cleanup(c) \/ Finalize(c)
    BY <1>1, <2>2 DEF Cleanup, Finalize, TypeOK
  <2>3. CASE ~(Insert(c) \/ Cleanup(c) \/ Finalize(c))
    BY <1>1, <2>3 DEF Handle, Provision, Fail, Finish, FindTable, BeginDelete, DropData,
                      DataFails, FinalizeFails, Abandon
  <2> QED
    BY <2>1, <2>2, <2>3
<1>2. ASSUME NEW w \in Runner, ClaimNext(w) \/ Repair(w) \/ RunnerFails(w) \/ RunnerCrash(w)
      PROVE  meta' = meta
  BY <1>2 DEF ClaimNext, Repair, LoadTables, Look, Ensure, Complete, MarkReady,
              MarkOperationFailed, RunnerFails, RunnerCrash
<1>3. ASSUME NEW c \in Cmd, LockGetsOld(c) \/ BackoffElapses(c) \/ Retry(c) \/ Bury(c)
      PROVE  meta' = meta
  BY <1>3 DEF LockGetsOld, BackoffElapses, Retry, Bury
<1>4. ASSUME NEW u \in Table, Restore(u)
      PROVE  meta'[t] = "none"
  BY <1>4 DEF Restore, TypeOK
<1> QED
  BY <1>1, <1>2, <1>3, <1>4 DEF Next

\* Where a command may come from.
LEMMA PcStep ==
  ASSUME TypeOK, Next, NEW c \in Cmd
  PROVE  /\ pc'[c] = "new" => pc[c] = "new"
         /\ pc'[c] # "new" /\ pc[c] = "new" => Insert(c) \/ FindTable(c)
         /\ pc'[c] = "data" => pc[c] = "data" \/ Insert(c) \/ BeginDelete(c)
         /\ pc'[c] = "finalize" => pc[c] = "finalize" \/ DropData(c)
         /\ pc'[c] = "finish" =>
              pc[c] = "finish" \/ Provision(c) \/ (pc[c] = "finalize" /\ Finalize(c))
<1> USE DEF runnerVars, Goto
<1>1. ASSUME NEW d \in Cmd, Handle(d) \/ DataFails(d) \/ FinalizeFails(d) \/ Abandon(d),
             c # d
      PROVE  pc'[c] = pc[c]
  BY <1>1 DEF Handle, Insert, Provision, Fail, Cleanup, Finish, FindTable, BeginDelete, DropData,
              Finalize, DataFails, FinalizeFails, Abandon, TypeOK
<1>2. CASE Handle(c) \/ DataFails(c) \/ FinalizeFails(c) \/ Abandon(c)
  <2>1. CASE Insert(c)
    BY <2>1 DEF Insert, TypeOK
  <2>2. CASE Provision(c)
    BY <2>2 DEF Provision, TypeOK
  <2>3. CASE FindTable(c)
    BY <2>3 DEF FindTable, TypeOK
  <2>4. CASE BeginDelete(c)
    BY <2>4 DEF BeginDelete, TypeOK
  <2>5. CASE DropData(c)
    BY <2>5 DEF DropData, TypeOK
  <2>6. CASE Finalize(c)
    BY <2>6 DEF Finalize, TypeOK
  <2>7. CASE Fail(c) \/ Cleanup(c) \/ Finish(c) \/ DataFails(c) \/ FinalizeFails(c) \/ Abandon(c)
    BY <2>7 DEF Fail, Cleanup, Finish, DataFails, FinalizeFails, Abandon, TypeOK
  <2> QED
    BY <1>2, <2>1, <2>2, <2>3, <2>4, <2>5, <2>6, <2>7 DEF Handle
<1>3. ASSUME NEW w \in Runner, ClaimNext(w) \/ Repair(w) \/ RunnerFails(w) \/ RunnerCrash(w)
      PROVE  pc' = pc
  BY <1>3 DEF ClaimNext, Repair, LoadTables, Look, Ensure, Complete, MarkReady,
              MarkOperationFailed, RunnerFails, RunnerCrash
<1>4. ASSUME \/ \E d \in Cmd : LockGetsOld(d) \/ BackoffElapses(d) \/ Retry(d) \/ Bury(d)
             \/ \E t \in Table : Restore(t)
      PROVE  pc' = pc
  BY <1>4 DEF LockGetsOld, BackoffElapses, Retry, Bury, Restore
<1>5. CASE \E d \in Cmd : Handle(d) \/ DataFails(d) \/ FinalizeFails(d) \/ Abandon(d)
  BY <1>1, <1>2, <1>5
<1>6. CASE \/ \E w \in Runner : ClaimNext(w) \/ Repair(w) \/ RunnerFails(w) \/ RunnerCrash(w)
           \/ \E d \in Cmd : LockGetsOld(d) \/ BackoffElapses(d) \/ Retry(d) \/ Bury(d)
           \/ \E t \in Table : Restore(t)
  BY <1>3, <1>4, <1>6
<1> QED
  BY <1>5, <1>6 DEF Next

\* Where a runner may come from: it claims what is on record, and it is about
\* to declare an operation ready when the physical table exists.
LEMMA RunnerStep ==
  ASSUME TypeOK, Next, NEW w \in Runner, rpc'[w] # "idle"
  PROVE  /\ \/ rpc[w] # "idle" /\ job'[w] = job[w]
            \/ ops[job'[w]].status # "none"
         /\ rpc'[w] \in {"complete", "advance"} =>
              /\ job'[w] = job[w]
              /\ \/ rpc[w] \in {"complete", "advance"}
                 \/ TableOf[job[w]] \in storage'
<1> USE DEF runnerVars, RunnerGoto, Release
<1>1. ASSUME NEW v \in Runner, ClaimNext(v) \/ Repair(v) \/ RunnerFails(v) \/ RunnerCrash(v),
             v # w
      PROVE  rpc'[w] = rpc[w] /\ job'[w] = job[w]
  BY <1>1 DEF ClaimNext, Repair, LoadTables, Look, Ensure, Complete, MarkReady,
              MarkOperationFailed, RunnerFails, RunnerCrash, TypeOK
<1>2. CASE ClaimNext(w)
  <2>1. PICK c \in Repairable : Claimable(ops[c]) /\ job' = [job EXCEPT ![w] = c]
    BY <1>2 DEF ClaimNext
  <2>2. job'[w] = c /\ ops[c].status # "none"
    BY <2>1 DEF TypeOK, Claimable
  <2>3. rpc'[w] = "load"
    BY <1>2 DEF ClaimNext, TypeOK
  <2> QED
    BY <2>2, <2>3
<1>3. CASE Repair(w) \/ RunnerFails(w) \/ RunnerCrash(w)
  BY <1>3 DEF Repair, LoadTables, Look, Ensure, Complete, MarkReady, MarkOperationFailed,
              RunnerFails, RunnerCrash, TypeOK
<1>4. ASSUME NEW c \in Cmd, Handle(c) \/ DataFails(c) \/ FinalizeFails(c) \/ Abandon(c)
      PROVE  rpc' = rpc /\ job' = job
  BY <1>4 DEF Handle, Insert, Provision, Fail, Cleanup, Finish, FindTable, BeginDelete, DropData,
              Finalize, DataFails, FinalizeFails, Abandon
<1>5. ASSUME \/ \E d \in Cmd : LockGetsOld(d) \/ BackoffElapses(d) \/ Retry(d) \/ Bury(d)
             \/ \E t \in Table : Restore(t)
      PROVE  rpc' = rpc /\ job' = job
  BY <1>5 DEF LockGetsOld, BackoffElapses, Retry, Bury, Restore
<1> QED
  BY <1>1, <1>2, <1>3, <1>4, <1>5 DEF Next

-----------------------------------------------------------------------------
(***************************************************************************)
(* The inductive invariant.                                                *)
(***************************************************************************)
\* It holds initially.
LEMMA InitIInv == Init => IInv
<1> SUFFICES ASSUME Init PROVE IInv
  OBVIOUS
<1>1. MissingIsRecorded /\ PurgeInOrder /\ Unborn /\ JobsAreOn /\ HandlersApart
  BY Kinds, ProvisioningAssumption
     DEF Init, MissingIsRecorded, PurgeInOrder, Unborn, JobsAreOn, HandlersApart, NoOp
<1> QED
  BY <1>1, InitTypes DEF IInv

\* A running repair is one of an operation on record.
LEMMA StepJobsAreOn == IInv /\ Next => JobsAreOn'
<1> SUFFICES ASSUME IInv, Next, NEW w \in Runner, rpc'[w] # "idle"
             PROVE  ops'[job'[w]].status # "none"
  BY DEF JobsAreOn
<1>1. TypeOK /\ TypeOK'
  BY StepTypes DEF IInv
<1>2. job'[w] \in Cmd
  BY <1>1, Kinds DEF TypeOK
<1>3. ops[job'[w]].status # "none"
  BY <1>1, RunnerStep DEF IInv, JobsAreOn
<1> QED
  BY <1>1, <1>2, <1>3, StaysOnRecord

\* Only deletions get to their metadata.
LEMMA StepHandlersApart == IInv /\ Next => HandlersApart'
<1> SUFFICES ASSUME IInv, Next, NEW c \in Creator, pc'[c] = "finalize"
             PROVE  FALSE
  BY DEF HandlersApart
<1>1. TypeOK /\ c \in Cmd /\ c \notin Deleter /\ pc[c] # "finalize"
  BY Kinds DEF IInv, HandlersApart
<1>2. DropData(c)
  BY <1>1, PcStep
<1> QED
  BY <1>1, <1>2 DEF DropData

\* Until a table is inserted nothing happens to it.
LEMMA StepUnborn == IInv /\ Next => Unborn'
<1> SUFFICES ASSUME IInv, Next, NEW c \in Creator, pc'[c] = "new"
             PROVE  /\ ops'[c].status = "none" /\ TableOf[c] \notin storage'
                    /\ meta'[TableOf[c]] = "none"
                    /\ \A d \in Deleter : TableOf[d] = TableOf[c] => pc'[d] = "new"
  BY DEF Unborn
<1>1. TypeOK /\ TypeOK' /\ c \in Cmd /\ TableOf[c] \in Table
  BY StepTypes, Kinds, ProvisioningAssumption DEF IInv
<1>2. pc[c] = "new"
  BY <1>1, PcStep
<1>3. /\ ops[c].status = "none" /\ TableOf[c] \notin storage
      /\ meta[TableOf[c]] = "none"
      /\ \A d \in Deleter : TableOf[d] = TableOf[c] => pc[d] = "new"
  BY <1>2 DEF IInv, Unborn
<1>4. ~Insert(c)
  BY <1>1 DEF Insert, Goto, TypeOK
<1>5. \A w \in Runner : rpc[w] # "idle" => job[w] # c
  BY <1>3 DEF IInv, JobsAreOn
<1>6. ops'[c].status = "none"
  BY <1>1, <1>2, <1>3, <1>4, <1>5, StaysOnRecord DEF Fail, BeginDelete, Finish
<1>7. TableOf[c] \notin storage'
  <2>1. SUFFICES ASSUME TableOf[c] \in storage' PROVE FALSE
    OBVIOUS
  <2>2. \/ \E d \in Creator : TableOf[d] = TableOf[c] /\ Provision(d)
        \/ \E w \in Runner : TableOf[job[w]] = TableOf[c] /\ Ensure(w)
    BY <1>1, <1>3, <2>1, StorageStep
  <2>3. ASSUME NEW d \in Creator, TableOf[d] = TableOf[c], Provision(d) PROVE FALSE
    BY <1>2, <2>3, ProvisioningAssumption DEF Provision
  <2>4. ASSUME NEW w \in Runner, TableOf[job[w]] = TableOf[c], Ensure(w) PROVE FALSE
    <3>1. rpc[w] # "idle" /\ job[w] \in Creator
      BY <1>1, <2>4, Kinds DEF Ensure, TypeOK
    <3>2. job[w] = c
      BY <2>4, <3>1, ProvisioningAssumption
    <3> QED
      BY <1>5, <3>1, <3>2
  <2> QED
    BY <2>2, <2>3, <2>4
<1>8. meta'[TableOf[c]] = "none"
  <2>1. SUFFICES ASSUME meta'[TableOf[c]] # "none" PROVE FALSE
    OBVIOUS
  <2>2. PICK d \in Creator : TableOf[d] = TableOf[c] /\ Insert(d)
    BY <1>1, <1>3, <2>1, MetaStep
  <2> QED
    BY <1>4, <2>2, ProvisioningAssumption
<1>9. ASSUME NEW d \in Deleter, TableOf[d] = TableOf[c]
      PROVE  pc'[d] = "new"
  <2>1. pc[d] = "new" /\ d \in Cmd /\ d \notin Creator
    BY <1>3, <1>9, Kinds
  <2>2. ~Insert(d) /\ ~FindTable(d)
    BY <1>3, <1>9, <2>1 DEF Insert, FindTable
  <2> QED
    BY <1>1, <2>1, <2>2, PcStep
<1> QED
  BY <1>6, <1>7, <1>8, <1>9

\* A permanent deletion stays on record until the metadata is gone for good.
LEMMA StepPurgeInOrder == IInv /\ Next => PurgeInOrder'
<1> SUFFICES ASSUME IInv, Next, NEW p \in Purge
             PROVE  /\ pc'[p] \in {"data", "finalize"} => Unsettled(ops'[p])
                    /\ pc'[p] = "finish" => meta'[TableOf[p]] = "none"
  BY DEF PurgeInOrder, Unsettled
<1>1. /\ TypeOK /\ TypeOK' /\ p \in Cmd /\ p \in Deleter /\ p \notin Creator
      /\ TableOf[p] \in Table
  BY StepTypes, Kinds, ProvisioningAssumption DEF IInv
<1>2. \A w \in Runner : job[w] = p => ~Complete(w) /\ ~MarkReady(w)
  BY <1>1, Kinds DEF TypeOK, Complete, MarkReady
<1>3. ~Insert(p) /\ ~Provision(p)
  BY <1>1 DEF Insert, Provision
<1>4. ASSUME pc'[p] \in {"data", "finalize"}
      PROVE  Unsettled(ops'[p])
  <2>1. CASE BeginDelete(p)
    BY <1>1, <2>1, SetProvisionStateEffect DEF BeginDelete, Unsettled
  <2>2. CASE pc[p] \in {"data", "finalize"}
    <3>1. Unsettled(ops[p])
      BY <2>2 DEF IInv, PurgeInOrder
    <3> QED
      BY <1>1, <1>2, <2>2, <3>1, StaysOnRecord DEF Finish
  <2> QED
    BY <1>1, <1>3, <1>4, <2>1, <2>2, PcStep DEF DropData
<1>5. ASSUME pc'[p] = "finish"
      PROVE  meta'[TableOf[p]] = "none"
  <2>1. CASE Finalize(p)
    BY <1>1, <2>1 DEF Finalize, TypeOK
  <2>2. CASE pc[p] = "finish"
    <3>1. SUFFICES ASSUME meta'[TableOf[p]] # "none" PROVE FALSE
      OBVIOUS
    <3>2. meta[TableOf[p]] = "none"
      BY <2>2 DEF IInv, PurgeInOrder
    <3>3. PICK c \in Creator : TableOf[c] = TableOf[p] /\ Insert(c)
      BY <1>1, <3>1, <3>2, MetaStep
    <3>4. pc[p] = "new"
      BY <1>1, <3>3 DEF Insert, IInv, Unborn
    <3> QED
      BY <2>2, <3>4
  <2> QED
    BY <1>1, <1>3, <1>5, <2>1, <2>2, PcStep
<1> QED
  BY <1>4, <1>5

\* A missing physical table stays on record.
LEMMA StepMissingIsRecorded == IInv /\ Next => MissingIsRecorded'
<1> SUFFICES ASSUME IInv, Next, NEW t \in Table, meta'[t] # "none", t \notin storage'
             PROVE  PurgeRecorded(t)' \/ CreationRecorded(t)'
  BY DEF MissingIsRecorded
<1>1. TypeOK /\ TypeOK'
  BY StepTypes DEF IInv
<1>2. CASE t \in storage
  <2>1. PICK p \in Purge : TableOf[p] = t /\ DropData(p)
    BY <1>1, <1>2, StorageStep
  <2>2. Unsettled(ops[p])
    BY <2>1 DEF DropData, IInv, PurgeInOrder
  <2> QED
    BY <2>1, <2>2 DEF DropData, PurgeRecorded, Unsettled
<1>3. CASE t \notin storage /\ meta[t] = "none"
  <2>1. PICK c \in Creator : TableOf[c] = t /\ Insert(c)
    BY <1>1, <1>3, MetaStep
  <2>2. pc[c] = "new" /\ ops[c].status = "none" /\ c \in Cmd
    BY <2>1, Kinds DEF Insert, IInv, Unborn
  <2>3. ops' = Upsert(ops, c, "pending")
    BY <2>1 DEF Insert
  <2>4. Unsettled(ops'[c])
    BY <1>1, <2>2, <2>3, UpsertEffect DEF TypeOK, Unsettled
  <2>5. pc'[c] # "finish" /\ rpc' = rpc /\ job' = job
    BY <1>1, <2>1, <2>2 DEF Insert, Goto, runnerVars, TypeOK
  <2>6. \A w \in Runner : job[w] = c => rpc[w] = "idle"
    BY <2>2 DEF IInv, JobsAreOn
  <2> QED
    BY <2>1, <2>4, <2>5, <2>6 DEF CreationRecorded, Unsettled
<1>4. CASE t \notin storage /\ meta[t] # "none"
  <2>1. PurgeRecorded(t) \/ CreationRecorded(t)
    BY <1>4 DEF IInv, MissingIsRecorded
  <2>2. CASE PurgeRecorded(t)
    <3>1. PICK p \in Purge : TableOf[p] = t /\ Unsettled(ops[p])
      BY <2>2 DEF PurgeRecorded
    <3>2. ~Finish(p)
      BY <1>4, <3>1 DEF Finish, IInv, PurgeInOrder
    <3>3. \A w \in Runner : job[w] = p => ~Complete(w) /\ ~MarkReady(w)
      BY <1>1, Kinds DEF TypeOK, Complete, MarkReady
    <3>4. Unsettled(ops'[p])
      BY <1>1, <3>1, <3>2, <3>3, Kinds, StaysOnRecord
    <3> QED
      BY <3>1, <3>4 DEF PurgeRecorded, Unsettled
  <2>3. CASE CreationRecorded(t)
    <3>1. PICK c \in Creator :
            /\ TableOf[c] = t /\ Unsettled(ops[c]) /\ pc[c] # "finish"
            /\ \A w \in Runner : job[w] = c => rpc[w] \notin {"complete", "advance"}
      BY <2>3 DEF CreationRecorded
    <3>2. c \in Cmd /\ ~Finish(c)
      BY <3>1, Kinds DEF Finish
    <3>3. \A w \in Runner : job[w] = c => ~Complete(w) /\ ~MarkReady(w)
      BY <3>1 DEF Complete, MarkReady
    <3>4. Unsettled(ops'[c])
      BY <1>1, <3>1, <3>2, <3>3, StaysOnRecord
    <3>5. pc'[c] # "finish"
      <4>1. ~Provision(c)
        BY <3>1 DEF Provision
      <4>2. pc[c] # "finalize"
        BY <3>1 DEF IInv, HandlersApart
      <4> QED
        BY <1>1, <3>1, <3>2, <4>1, <4>2, PcStep
    <3>6. ASSUME NEW w \in Runner, job'[w] = c, rpc'[w] \in {"complete", "advance"}
          PROVE  FALSE
      BY <1>1, <3>1, <3>6, RunnerStep
    <3> QED
      BY <3>1, <3>4, <3>5, <3>6 DEF CreationRecorded, Unsettled
  <2> QED
    BY <2>1, <2>2, <2>3
<1> QED
  BY <1>2, <1>3, <1>4

\* The invariant of the argument holds in every reachable state.
THEOREM RecordInvariant == Spec => []IInv
<1>1. IInv /\ UNCHANGED vars => IInv'
  BY DEF vars, IInv, TypeOK, MissingIsRecorded, PurgeRecorded, CreationRecorded, PurgeInOrder,
         Unborn, JobsAreOn, HandlersApart, Unsettled
<1>2. IInv /\ Next => IInv'
  BY StepTypes, StepMissingIsRecorded, StepPurgeInOrder, StepUnborn, StepJobsAreOn,
     StepHandlersApart DEF IInv
<1>3. IInv /\ [Next]_vars => IInv'
  BY <1>1, <1>2
<1> QED
  BY InitIInv, <1>3, PTL DEF Spec

\* A table that users see and that has no physical table is on record in some
\* operation that is not ready, however the commands, the runners and the
\* operator interleave and crash.
THEOREM BrokenTablesAreRecorded == Spec => []InconsistencyIsRecorded
<1>1. IInv => InconsistencyIsRecorded
  BY Kinds DEF IInv, MissingIsRecorded, PurgeRecorded, CreationRecorded,
               InconsistencyIsRecorded, Broken, About
<1> QED
  BY RecordInvariant, <1>1, PTL

-----------------------------------------------------------------------------
(***************************************************************************)
(* The clean-up.                                                           *)
(***************************************************************************)
\* How a command gets to where a creation may fail.
LEMMA FailureStep ==
  ASSUME TypeOK, Next, NEW c \in Cmd
  PROVE  /\ pc'[c] = "begin" => pc[c] = "begin" \/ c \in Deleter
         /\ pc'[c] = "cleanup" => pc[c] = "cleanup" \/ c \in Creator
         /\ pc'[c] \in {"data", "fail", "cleanup"} =>
              Insert(c) \/ pc[c] \in {"begin", "data", "finalize", "fail", "cleanup"}
<1> USE DEF runnerVars, Goto
<1>1. ASSUME NEW d \in Cmd, Handle(d) \/ DataFails(d) \/ FinalizeFails(d) \/ Abandon(d),
             c # d
      PROVE  pc'[c] = pc[c]
  BY <1>1 DEF Handle, Insert, Provision, Fail, Cleanup, Finish, FindTable, BeginDelete, DropData,
              Finalize, DataFails, FinalizeFails, Abandon, TypeOK
<1>2. CASE Fail(c)
  BY <1>2 DEF Fail, Creator, TypeOK
<1>3. CASE FindTable(c)
  BY <1>3 DEF FindTable, TypeOK
<1>4. CASE \/ Insert(c) \/ Provision(c) \/ Cleanup(c) \/ Finish(c) \/ BeginDelete(c)
           \/ DropData(c) \/ DataFails(c) \/ FinalizeFails(c) \/ Abandon(c)
  BY <1>4 DEF Insert, Provision, Cleanup, Finish, BeginDelete, DropData,
              DataFails, FinalizeFails, Abandon, TypeOK
<1>5. CASE Finalize(c)
  BY <1>5 DEF Finalize, TypeOK
<1>6. CASE UNCHANGED pc
  BY <1>6
<1>7. CASE \E d \in Cmd : Handle(d) \/ DataFails(d) \/ FinalizeFails(d) \/ Abandon(d)
  BY <1>1, <1>2, <1>3, <1>4, <1>5, <1>7 DEF Handle
<1>8. CASE \/ \E w \in Runner : ClaimNext(w) \/ Repair(w) \/ RunnerFails(w) \/ RunnerCrash(w)
           \/ \E d \in Cmd : LockGetsOld(d) \/ BackoffElapses(d) \/ Retry(d) \/ Bury(d)
           \/ \E t \in Table : Restore(t)
  BY <1>6, <1>8 DEF ClaimNext, Repair, LoadTables, Look, Ensure, Complete, MarkReady,
     MarkOperationFailed, RunnerFails, RunnerCrash, LockGetsOld, BackoffElapses, Retry, Bury,
     Restore
<1> QED
  BY <1>7, <1>8 DEF Next

\* A step that is no repair in between leaves a failing creation without a table.
LEMMA StepFailureOwnsNothing ==
  ASSUME IInv, FailureOwnsNothing, Next,
         \A w \in Runner : Ensure(w) => pc[job[w]] \notin {"data", "fail", "cleanup"}
  PROVE  FailureOwnsNothing'
<1>0. TypeOK /\ TypeOK'
  BY StepTypes DEF IInv
<1>1. ASSUME NEW c \in Cmd PROVE c \in Creator => pc'[c] # "begin"
  BY <1>0, FailureStep, Kinds DEF FailureOwnsNothing
<1>2. ASSUME NEW c \in Cmd PROVE c \notin Creator => pc'[c] # "cleanup"
  BY <1>0, FailureStep DEF FailureOwnsNothing
<1>3. ASSUME NEW c \in Creator, pc'[c] \in {"data", "fail", "cleanup"},
             TableOf[c] \in storage'
      PROVE  FALSE
  <2>0. c \in Cmd /\ TableOf[c] \in Table
    BY Kinds, ProvisioningAssumption
  <2>1. pc[c] = "new" \/ pc[c] \in {"data", "fail", "cleanup"}
    <3>1. pc[c] # "begin" /\ pc[c] # "finalize"
      BY <2>0 DEF FailureOwnsNothing, IInv, HandlersApart
    <3> QED
      BY <1>0, <1>3, <2>0, <3>1, FailureStep DEF Insert
  <2>2. TableOf[c] \notin storage
    BY <2>0, <2>1 DEF FailureOwnsNothing, IInv, Unborn
  <2>3. ASSUME NEW d \in Creator, TableOf[d] = TableOf[c], Provision(d) PROVE FALSE
    <3>1. d = c
      BY <2>3, ProvisioningAssumption
    <3> QED
      BY <1>0, <1>3, <2>0, <2>3, <3>1 DEF Provision, Goto, TypeOK
  <2>4. ASSUME NEW w \in Runner, TableOf[job[w]] = TableOf[c], Ensure(w) PROVE FALSE
    <3>1. rpc[w] # "idle" /\ job[w] \in Creator /\ pc' = pc
      BY <1>0, <2>4, Kinds DEF Ensure, TypeOK
    <3>2. job[w] = c
      BY <2>4, <3>1, ProvisioningAssumption
    <3> QED
      BY <1>3, <2>4, <3>1, <3>2
  <2> QED
    BY <1>0, <1>3, <2>0, <2>2, <2>3, <2>4, StorageStep
<1> QED
  BY <1>1, <1>2, <1>3 DEF FailureOwnsNothing

\* A clean-up leaves no physical table behind as long as no repair gets between
\* the insertion and the clean-up: nothing else can make it do so.
THEOREM CleanupIsComplete == Spec /\ NoRepairInBetween => []CleanupOwnsNothing
<1>1. Init => FailureOwnsNothing
  BY DEF Init, FailureOwnsNothing
<1>2. IInv /\ FailureOwnsNothing /\ [Next]_vars
        /\ [\A w \in Runner : Ensure(w) => pc[job[w]] \notin {"data", "fail", "cleanup"}]_vars
      => FailureOwnsNothing'
  <2>1. FailureOwnsNothing /\ UNCHANGED vars => FailureOwnsNothing'
    BY DEF FailureOwnsNothing, vars
  <2> QED
    BY <2>1, StepFailureOwnsNothing
<1>3. FailureOwnsNothing => CleanupOwnsNothing
  BY DEF FailureOwnsNothing, CleanupOwnsNothing
<1> QED
  BY RecordInvariant, <1>1, <1>2, <1>3, PTL DEF Spec, NoRepairInBetween

-----------------------------------------------------------------------------
(***************************************************************************)
(* The promise: every step is one of TablePromise, or a stutter.           *)
(***************************************************************************)
\* A step that changes one operation changes what is on record of one table.
LEMMA OneOperation ==
  ASSUME NEW c \in Cmd, \A d \in Cmd \ {c} : ops'[d].status = ops[d].status
  PROVE  /\ Unsettled(ops'[c]) => OnRecord' = OnRecord \cup {TableOf[c]}
         /\ ~Unsettled(ops'[c]) =>
              OnRecord' = OnRecord \/ OnRecord' = OnRecord \ {TableOf[c]}
         /\ OnRecord' = OnRecord \ {TableOf[c]} => TableOf[c] \notin OnRecord'
<1>0. TableOf[c] \in Table
  BY ProvisioningAssumption
<1>1. ASSUME NEW t \in Table, t # TableOf[c]
      PROVE  t \in OnRecord' <=> t \in OnRecord
  BY <1>1 DEF OnRecord, About, Unsettled
<1>2. TableOf[c] \in OnRecord' => TableOf[c] \in OnRecord \/ Unsettled(ops'[c])
  BY DEF OnRecord, About, Unsettled
<1>3. Unsettled(ops'[c]) => TableOf[c] \in OnRecord'
  BY <1>0 DEF OnRecord, About, Unsettled
<1>4. OnRecord \subseteq Table /\ OnRecord' \subseteq Table
  BY DEF OnRecord
<1> QED
  BY <1>0, <1>1, <1>2, <1>3, <1>4

\* Whoever changes one operation and neither store announces or settles.
LEMMA OperationStep ==
  ASSUME MissingIsRecorded', UNCHANGED <<meta, storage>>, NEW c \in Cmd,
         \A d \in Cmd \ {c} : ops'[d].status = ops[d].status
  PROVE  [Promise!Next]_(Promise!promised)
<1>1. TableOf[c] \in Table
  BY ProvisioningAssumption
<1>2. Known' = Known /\ Visible' = Visible /\ storage' = storage
  BY DEF Known, Visible
<1>3. CASE Unsettled(ops'[c])
  <2>1. Promise!Announce(TableOf[c])
    BY <1>2, <1>3, OneOperation DEF Promise!Announce
  <2> QED
    BY <1>1, <2>1 DEF Promise!Next
<1>4. CASE OnRecord' = OnRecord
  BY <1>2, <1>4 DEF Promise!promised
<1>5. CASE OnRecord' = OnRecord \ {TableOf[c]}
  <2>1. TableOf[c] \notin OnRecord'
    BY <1>5
  <2>2. ~PurgeRecorded(TableOf[c])' /\ ~CreationRecorded(TableOf[c])'
    BY <1>1, <2>1, Kinds DEF OnRecord, About, PurgeRecorded, CreationRecorded
  <2>3. TableOf[c] \in storage' \/ TableOf[c] \notin Known'
    BY <1>1, <2>2 DEF MissingIsRecorded, Known
  <2>4. Promise!Settle(TableOf[c])
    BY <1>2, <1>5, <2>3 DEF Promise!Settle
  <2> QED
    BY <1>1, <2>4 DEF Promise!Next
<1> QED
  BY <1>3, <1>4, <1>5, OneOperation

\* A command keeps the promise.
LEMMA CommandKeepsPromise ==
  ASSUME IInv, IInv', NEW c \in Cmd,
         Handle(c) \/ DataFails(c) \/ FinalizeFails(c) \/ Abandon(c)
  PROVE  [Promise!Next]_(Promise!promised)
<1> DEFINE t == TableOf[c]
<1> USE DEF runnerVars
<1>0. /\ TypeOK /\ TypeOK' /\ MissingIsRecorded' /\ t \in Table
  BY ProvisioningAssumption DEF IInv
<1>1. CASE Insert(c)
  <2>1. pc[c] = "new" /\ c \in Creator /\ meta[t] = "none" /\ t \notin storage
    BY <1>1 DEF Insert, IInv, Unborn
  <2>2. meta' = [meta EXCEPT ![t] = "active"] /\ storage' = storage
    BY <1>1 DEF Insert
  <2>3. Known' = Known \cup {t} /\ Visible' = Visible \cup {t} /\ t \notin Known
    BY <1>0, <2>1, <2>2 DEF Known, Visible, TypeOK
  <2>4. ops' = Upsert(ops, c, "pending") /\ ops \in [Cmd -> Op]
    BY <1>0, <1>1 DEF Insert, TypeOK
  <2>5. Unsettled(ops'[c]) /\ \A d \in Cmd \ {c} : ops'[d].status = ops[d].status
    BY <2>4, UpsertEffect DEF Unsettled
  <2>6. OnRecord' = OnRecord \cup {t}
    BY <2>5, OneOperation
  <2>7. Promise!Insert(t)
    BY <2>1, <2>2, <2>3, <2>6 DEF Promise!Insert
  <2> QED
    BY <1>0, <2>7 DEF Promise!Next
<1>2. CASE Provision(c)
  <2>1. storage' = storage \cup {t} /\ meta' = meta /\ ops' = ops
    BY <1>2 DEF Provision
  <2>2. Promise!Create(t)
    BY <2>1 DEF Promise!Create, Known, Visible, OnRecord
  <2> QED
    BY <1>0, <2>2 DEF Promise!Next
<1>3. CASE Fail(c)
  <2>1. \A d \in Cmd \ {c} : ops'[d] = ops[d]
    BY <1>0, <1>3, SetProvisionStateEffect DEF Fail
  <2> QED
    BY <1>0, <1>3, <2>1, OperationStep DEF Fail
<1>4. CASE Finish(c)
  <2>1. \A d \in Cmd \ {c} : ops'[d] = ops[d]
    BY <1>0, <1>4, SetProvisionStateEffect DEF Finish
  <2> QED
    BY <1>0, <1>4, <2>1, OperationStep DEF Finish
<1>5. CASE BeginDelete(c)
  <2>1. \A d \in Cmd \ {c} : ops'[d] = ops[d]
    BY <1>0, <1>5, SetProvisionStateEffect DEF BeginDelete
  <2> QED
    BY <1>0, <1>5, <2>1, OperationStep DEF BeginDelete
<1>6. CASE Cleanup(c) \/ (c \in Purge /\ Finalize(c))
  <2>1. meta' = [meta EXCEPT ![t] = "none"] /\ storage' = storage /\ ops' = ops
    BY <1>6 DEF Cleanup, Finalize
  <2>2. Known' = Known \ {t} /\ Visible' = Visible \ {t} /\ OnRecord' = OnRecord
    BY <1>0, <2>1 DEF Known, Visible, OnRecord, TypeOK
  <2>3. Promise!Remove(t)
    BY <2>1, <2>2 DEF Promise!Remove
  <2> QED
    BY <1>0, <2>3 DEF Promise!Next
<1>7. CASE c \notin Purge /\ Finalize(c) /\ meta[t] = "active"
  <2>1. meta' = [meta EXCEPT ![t] = "trashed"] /\ storage' = storage /\ ops' = ops
    BY <1>7 DEF Finalize
  <2>2. Known' = Known /\ Visible' = Visible \ {t} /\ OnRecord' = OnRecord /\ t \in Known
    BY <1>0, <1>7, <2>1 DEF Known, Visible, OnRecord, TypeOK
  <2>3. Promise!Trash(t)
    BY <2>1, <2>2 DEF Promise!Trash
  <2> QED
    BY <1>0, <2>3 DEF Promise!Next
<1>8. CASE c \in Purge /\ DropData(c)
  <2>1. pc[c] = "data" /\ storage' = storage \ {t} /\ meta' = meta /\ ops' = ops
    BY <1>8 DEF DropData
  <2>2. Unsettled(ops[c])
    BY <1>8, <2>1 DEF IInv, PurgeInOrder
  <2>3. t \in OnRecord
    BY <1>0, <2>2 DEF OnRecord, About
  <2>4. Promise!Drop(t)
    BY <2>1, <2>3 DEF Promise!Drop, Known, Visible, OnRecord
  <2> QED
    BY <1>0, <2>4 DEF Promise!Next
<1>9. CASE \/ FindTable(c) \/ DataFails(c) \/ FinalizeFails(c) \/ Abandon(c)
           \/ c \notin Purge /\ DropData(c)
           \/ c \notin Purge /\ Finalize(c) /\ meta[t] # "active"
  <2>1. UNCHANGED <<meta, storage, ops>>
    BY <1>9 DEF FindTable, DataFails, FinalizeFails, Abandon, DropData, Finalize
  <2> QED
    BY <2>1 DEF Promise!promised, Known, Visible, OnRecord
<1> QED
  BY <1>1, <1>2, <1>3, <1>4, <1>5, <1>6, <1>7, <1>8, <1>9 DEF Handle

\* A runner keeps the promise.
LEMMA RunnerKeepsPromise ==
  ASSUME IInv, IInv', NEW w \in Runner,
         ClaimNext(w) \/ Repair(w) \/ RunnerFails(w) \/ RunnerCrash(w)
  PROVE  [Promise!Next]_(Promise!promised)
<1>0. /\ TypeOK /\ MissingIsRecorded' /\ ops \in [Cmd -> Op]
      /\ rpc[w] # "idle" => job[w] \in Cmd
  BY Kinds DEF IInv, TypeOK
<1>1. CASE ClaimNext(w)
  <2>1. PICK c \in Repairable : ops' = Claim(ops, c)
    BY <1>1 DEF ClaimNext
  <2>2. c \in Cmd
    BY Kinds
  <2>3. \A d \in Cmd \ {c} : ops'[d] = ops[d]
    BY <1>0, <2>1, <2>2, ClaimEffect
  <2> QED
    BY <1>0, <1>1, <2>2, <2>3, OperationStep DEF ClaimNext
<1>2. CASE LoadTables(w) \/ Look(w) \/ RunnerFails(w) \/ RunnerCrash(w)
  <2>1. UNCHANGED <<meta, storage, ops>>
    BY <1>2 DEF LoadTables, Look, RunnerFails, RunnerCrash
  <2> QED
    BY <2>1 DEF Promise!promised, Known, Visible, OnRecord
<1>3. CASE Ensure(w)
  <2>1. TableOf[job[w]] \in Table
    BY <1>0, <1>3, ProvisioningAssumption DEF Ensure
  <2>2. storage' = storage \cup {TableOf[job[w]]} /\ meta' = meta /\ ops' = ops
    BY <1>3 DEF Ensure
  <2>3. Promise!Create(TableOf[job[w]])
    BY <2>2 DEF Promise!Create, Known, Visible, OnRecord
  <2> QED
    BY <2>1, <2>3 DEF Promise!Next
<1>4. CASE Complete(w)
  <2>1. job[w] \in Cmd
    BY <1>0, <1>4 DEF Complete
  <2>2. \A d \in Cmd \ {job[w]} : ops'[d] = ops[d]
    BY <1>0, <1>4, <2>1, SetProvisionStateEffect DEF Complete
  <2> QED
    BY <1>0, <1>4, <2>1, <2>2, OperationStep DEF Complete
<1>5. CASE MarkReady(w) \/ MarkOperationFailed(w)
  <2>1. job[w] \in Cmd /\ UNCHANGED <<meta, storage>>
    BY <1>0, <1>5 DEF MarkReady, MarkOperationFailed
  <2>2. PICK s \in {"ready", "dead", "error"} : ops' = Advance(ops, job[w], s)
    BY <1>5 DEF MarkReady, MarkOperationFailed
  <2>3. \A d \in Cmd \ {job[w]} : ops'[d] = ops[d]
    BY <1>0, <2>1, <2>2, AdvanceEffect
  <2> QED
    BY <1>0, <2>1, <2>3, OperationStep
<1> QED
  BY <1>1, <1>2, <1>3, <1>4, <1>5 DEF Repair

\* So do time and the operator, and whoever restores a table.
LEMMA OthersKeepPromise ==
  ASSUME IInv, IInv',
         \/ \E c \in Cmd : LockGetsOld(c) \/ BackoffElapses(c) \/ Retry(c) \/ Bury(c)
         \/ \E t \in Table : Restore(t)
  PROVE  [Promise!Next]_(Promise!promised)
<1>0. TypeOK /\ MissingIsRecorded' /\ ops \in [Cmd -> Op]
  BY DEF IInv, TypeOK
<1>1. ASSUME NEW c \in Cmd, LockGetsOld(c) \/ BackoffElapses(c)
      PROVE  [Promise!Next]_(Promise!promised)
  <2>1. UNCHANGED <<meta, storage>> /\ \A d \in Cmd : ops'[d].status = ops[d].status
    BY <1>0, <1>1, TimeEffect
  <2> QED
    BY <1>0, <2>1, OperationStep
<1>2. ASSUME NEW c \in Cmd, Retry(c) \/ Bury(c)
      PROVE  [Promise!Next]_(Promise!promised)
  <2>1. PICK reset \in BOOLEAN :
          /\ UNCHANGED <<meta, storage>>
          /\ ops' = ManualRetry(ops, c, reset) \/ ops' = MarkDead(ops, c)
    BY <1>2 DEF Retry, Bury
  <2>2. \A d \in Cmd \ {c} : ops'[d] = ops[d]
    BY <1>0, <2>1, ManualEffect
  <2> QED
    BY <1>0, <2>1, <2>2, OperationStep
<1>3. ASSUME NEW t \in Table, Restore(t)
      PROVE  [Promise!Next]_(Promise!promised)
  <2>1. /\ meta[t] = "trashed" /\ meta' = [meta EXCEPT ![t] = "active"]
        /\ storage' = storage /\ ops' = ops
    BY <1>3 DEF Restore
  <2>2. Known' = Known /\ Visible' = Visible \cup {t} /\ OnRecord' = OnRecord /\ t \in Known
    BY <1>0, <2>1 DEF Known, Visible, OnRecord, TypeOK
  <2>3. Promise!Restore(t)
    BY <2>1, <2>2 DEF Promise!Restore
  <2> QED
    BY <2>3 DEF Promise!Next
<1> QED
  BY <1>1, <1>2, <1>3

\* The commands, the runners and the operator together implement the promise:
\* a physical table is dropped only with its deletion on record, a row is
\* inserted only with its operation, and the last operation about a table is
\* settled only when the table is whole or gone.
THEOREM ProvisioningKeepsPromise == Spec => ImplementsTablePromise
<1>1. Init => Promise!Init
  BY DEF Init, Promise!Init, Known, Visible, OnRecord, About, Unsettled, NoOp
<1>2. IInv /\ IInv' /\ [Next]_vars => [Promise!Next]_(Promise!promised)
  <2> SUFFICES ASSUME IInv, IInv', [Next]_vars PROVE [Promise!Next]_(Promise!promised)
    OBVIOUS
  <2>1. CASE UNCHANGED vars
    BY <2>1 DEF vars, Promise!promised, Known, Visible, OnRecord
  <2>2. CASE Next
    BY <2>2, CommandKeepsPromise, RunnerKeepsPromise, OthersKeepPromise DEF Next
  <2> QED
    BY <2>1, <2>2
<1> QED
  BY RecordInvariant, <1>1, <1>2, PTL DEF Spec, ImplementsTablePromise, Promise!Spec

=============================================================================
