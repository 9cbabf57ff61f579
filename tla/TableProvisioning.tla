--------------------------- MODULE TableProvisioning -------------------------
(***************************************************************************)
(* Commands that create and delete tables.  The metadata and the physical  *)
(* tables are changed in separate transactions, possibly of separate       *)
(* databases; a schema operation records the command, and a background     *)
(* runner repairs the table creations that did not get to their end        *)
(* (SchemaOperationRunnerService.ts, TableSchemaOperationRepairHandler.ts). *)
(*                                                                         *)
(* A command is one request.  Each transaction of it is an action; where   *)
(* the code can fail for reasons of its own (a database error), so can it  *)
(* here.                                                                   *)
(***************************************************************************)
EXTENDS SchemaOperationLog

CONSTANTS
  Cmd,          \* create, duplicate, delete and permanent delete requests
  Table,
  Runner,       \* processes that run V2SchemaOperationRunnerService
  TableOf,      \* the table of each command
  KindOf,       \* the handler that serves it
  WithRecords,  \* creations that also insert records
  NoJob

Creator == {c \in Cmd : KindOf[c] \in {"create", "duplicate"}}
Deleter == {c \in Cmd : KindOf[c] \in {"trash", "purge"}}
Purge == {c \in Cmd : KindOf[c] = "purge"}

\* The types the repair handler claims.
Repairable == {c \in Cmd : KindOf[c] = "create"}

ASSUME ProvisioningAssumption ==
  /\ KindOf \in [Cmd -> {"create", "duplicate", "trash", "purge"}]
  /\ TableOf \in [Cmd -> Table]
  /\ WithRecords \subseteq Cmd
  /\ \A c, d \in Creator : TableOf[c] = TableOf[d] => c = d
  /\ NoJob \notin Cmd

VARIABLES
  meta,       \* table_meta: none, active or trashed (deleted_time)
  provision,  \* table_meta.provision_state
  storage,    \* tables whose physical table exists
  ops,        \* schema_operation
  pc,         \* where each command is in its handler
  job,        \* the operation each runner has claimed,
  seen,       \* the attempts it read then,
  rpc         \* and where the runner is

vars == <<meta, provision, storage, ops, pc, job, seen, rpc>>

TypeOK ==
  /\ meta \in [Table -> {"none", "active", "trashed"}]
  /\ provision \in [Table -> {"none", "pending", "deleting", "error", "ready"}]
  /\ storage \subseteq Table
  /\ ops \in [Cmd -> Op]
  /\ pc \in [Cmd -> {"new", "begin", "data", "finalize", "finish", "fail", "cleanup", "done"}]
  /\ job \in [Runner -> Cmd \cup {NoJob}]
  /\ seen \in [Runner -> Nat]
  /\ rpc \in [Runner -> {"idle", "load", "look", "ensure", "complete", "advance",
                         "failed", "rejected"}]
  /\ \A w \in Runner : rpc[w] # "idle" => job[w] \in Repairable

Init ==
  /\ meta = [t \in Table |-> "none"]
  /\ provision = [t \in Table |-> "none"]
  /\ storage = {}
  /\ ops = [c \in Cmd |-> NoOp]
  /\ pc = [c \in Cmd |-> "new"]
  /\ job = [w \in Runner |-> NoJob]
  /\ seen = [w \in Runner |-> 0]
  /\ rpc = [w \in Runner |-> "idle"]

\* The commands that are about table t.
About(t) == {c \in Cmd : TableOf[c] = t}

runnerVars == <<job, seen, rpc>>
Goto(c, label) == pc' = [pc EXCEPT ![c] = label]

\* setProvisionState: an update of the row, if there is one, and the operation.
SetProvisionState(c, state, status) ==
  LET t == TableOf[c]
  IN /\ provision' = [provision EXCEPT ![t] = IF meta[t] = "none" THEN @ ELSE state]
     /\ ops' = Upsert(ops, c, status)

-----------------------------------------------------------------------------
(***************************************************************************)
(* CreateTable and DuplicateTable.                                         *)
(***************************************************************************)
Insert(c) ==
  LET t == TableOf[c] IN
  /\ c \in Creator /\ pc[c] = "new" /\ meta[t] = "none"
  /\ meta' = [meta EXCEPT ![t] = "active"]
  /\ provision' = [provision EXCEPT ![t] = "pending"]
  /\ ops' = Upsert(ops, c, "pending")
  /\ Goto(c, "data")
  /\ UNCHANGED <<storage, runnerVars>>

\* CREATE TABLE, without IF NOT EXISTS.
Provision(c) ==
  /\ c \in Creator /\ pc[c] = "data" /\ TableOf[c] \notin storage
  /\ storage' = storage \cup {TableOf[c]}
  /\ Goto(c, "finish")
  /\ UNCHANGED <<meta, provision, ops, runnerVars>>

\* The data transaction of a creation or of a deletion is rolled back.
DataFails(c) ==
  /\ pc[c] = "data"
  /\ Goto(c, "fail")
  /\ UNCHANGED <<meta, provision, storage, ops, runnerVars>>

\* Only CreateTable goes on and takes its metadata back.
Fail(c) ==
  /\ pc[c] = "fail"
  /\ SetProvisionState(c, "error", "error")
  /\ Goto(c, IF KindOf[c] = "create" THEN "cleanup" ELSE "done")
  /\ UNCHANGED <<meta, storage, runnerVars>>

Cleanup(c) ==
  /\ pc[c] = "cleanup"
  /\ meta' = [meta EXCEPT ![TableOf[c]] = "none"]
  /\ provision' = [provision EXCEPT ![TableOf[c]] = "none"]
  /\ Goto(c, "done")
  /\ UNCHANGED <<storage, ops, runnerVars>>

Finish(c) ==
  /\ pc[c] = "finish"
  /\ SetProvisionState(c, "ready", "ready")
  /\ Goto(c, "done")
  /\ UNCHANGED <<meta, storage, runnerVars>>

-----------------------------------------------------------------------------
(***************************************************************************)
(* DeleteTable, soft ("trash") and permanent ("purge").                    *)
(***************************************************************************)
\* A permanent deletion also finds tables in the trash.
FindTable(c) ==
  /\ c \in Deleter /\ pc[c] = "new"
  /\ meta[TableOf[c]] \in (IF c \in Purge THEN {"active", "trashed"} ELSE {"active"})
  /\ Goto(c, "begin")
  /\ UNCHANGED <<meta, provision, storage, ops, runnerVars>>

\* Mutant: the mark is put on the row only, and the operation comes at the end.
BeginUnrecorded(c) ==
  /\ pc[c] = "begin"
  /\ provision' = [provision EXCEPT ![TableOf[c]] = IF meta[TableOf[c]] = "none" THEN @
                                                    ELSE "deleting"]
  /\ Goto(c, "data")
  /\ UNCHANGED <<meta, storage, ops, runnerVars>>

BeginDelete(c) ==
  /\ pc[c] = "begin"
  /\ SetProvisionState(c, "deleting", "pending")
  /\ Goto(c, "data")
  /\ UNCHANGED <<meta, storage, runnerVars>>

\* Mutant: the command is declared done before its metadata is deleted.
DropDataOnly(c) ==
  /\ c \in Deleter /\ pc[c] = "data"
  /\ storage' = IF c \in Purge THEN storage \ {TableOf[c]} ELSE storage
  /\ Goto(c, "finish")
  /\ UNCHANGED <<meta, provision, ops, runnerVars>>

\* DROP TABLE IF EXISTS; a soft deletion leaves the physical table alone.
DropData(c) ==
  /\ c \in Deleter /\ pc[c] = "data"
  /\ storage' = IF c \in Purge THEN storage \ {TableOf[c]} ELSE storage
  /\ Goto(c, "finalize")
  /\ UNCHANGED <<meta, provision, ops, runnerVars>>

Finalize(c) ==
  LET t == TableOf[c] IN
  /\ pc[c] = "finalize"
  /\ \/ /\ c \in Purge
        /\ meta' = [meta EXCEPT ![t] = "none"]
        /\ provision' = [provision EXCEPT ![t] = "none"]
        /\ Goto(c, "finish")
     \/ /\ c \notin Purge /\ meta[t] = "active"
        /\ meta' = [meta EXCEPT ![t] = "trashed"]
        /\ Goto(c, "finish")
        /\ UNCHANGED provision
     \/ /\ c \notin Purge /\ meta[t] # "active"   \* NotFound
        /\ Goto(c, "fail")
        /\ UNCHANGED <<meta, provision>>
  /\ UNCHANGED <<storage, ops, runnerVars>>

FinalizeFails(c) ==
  /\ pc[c] = "finalize"
  /\ Goto(c, "fail")
  /\ UNCHANGED <<meta, provision, storage, ops, runnerVars>>

Restore(t) ==
  /\ meta[t] = "trashed"
  /\ meta' = [meta EXCEPT ![t] = "active"]
  /\ provision' = [provision EXCEPT ![t] = "ready"]
  /\ UNCHANGED <<storage, ops, pc, runnerVars>>

\* The process dies, or the write that would record the step fails and the
\* handler returns its error: nothing more of the command is done.
Abandon(c) ==
  /\ pc[c] \notin {"new", "done"}
  /\ Goto(c, "done")
  /\ UNCHANGED <<meta, provision, storage, ops, runnerVars>>

-----------------------------------------------------------------------------
(***************************************************************************)
(* The runner: runNext, with TableSchemaOperationRepairHandler.run.        *)
(***************************************************************************)
RunnerGoto(w, label) == rpc' = [rpc EXCEPT ![w] = label]

\* Mutant: claims operations of every type.
ClaimAnyType(w) ==
  /\ rpc[w] = "idle"
  /\ \E c \in Cmd : /\ Claimable(ops[c])
                    /\ ops' = Claim(ops, c)
                    /\ job' = [job EXCEPT ![w] = c]
                    /\ seen' = [seen EXCEPT ![w] = ops[c].attempts]
  /\ RunnerGoto(w, "load")
  /\ UNCHANGED <<meta, provision, storage, pc>>

ClaimNext(w) ==
  /\ rpc[w] = "idle"
  /\ \E c \in Repairable : /\ Claimable(ops[c])
                           /\ ops' = Claim(ops, c)
                           /\ job' = [job EXCEPT ![w] = c]
                           /\ seen' = [seen EXCEPT ![w] = ops[c].attempts]
  /\ RunnerGoto(w, "load")
  /\ UNCHANGED <<meta, provision, storage, pc>>

\* Operations with records, and those whose table is gone, are not repaired.
LoadTables(w) ==
  /\ rpc[w] = "load"
  /\ RunnerGoto(w, IF job[w] \in WithRecords \/ meta[TableOf[job[w]]] = "none"
                     THEN "rejected" ELSE "look")
  /\ UNCHANGED <<meta, provision, storage, ops, pc, job, seen>>

\* Mutant: the physical table is taken for granted.
LookAway(w) ==
  /\ rpc[w] = "look"
  /\ RunnerGoto(w, "complete")
  /\ UNCHANGED <<meta, provision, storage, ops, pc, job, seen>>

\* ensureInserted, one transaction: the introspector is asked first ...
Look(w) ==
  /\ rpc[w] = "look"
  /\ RunnerGoto(w, IF TableOf[job[w]] \in storage THEN "complete" ELSE "ensure")
  /\ UNCHANGED <<meta, provision, storage, ops, pc, job, seen>>

\* ... then the table is created, which fails if somebody else has done so.
Ensure(w) ==
  LET t == TableOf[job[w]] IN
  /\ rpc[w] = "ensure"
  /\ storage' = storage \cup {t}
  /\ RunnerGoto(w, IF t \in storage THEN "failed" ELSE "complete")
  /\ UNCHANGED <<meta, provision, ops, pc, job, seen>>

\* A step of the handler returns an error, or throws; whether the error may be
\* retried depends on its code and its tags.
RunnerFails(w) ==
  /\ rpc[w] \in {"load", "look", "ensure", "complete"}
  /\ \E outcome \in {"failed", "rejected"} : RunnerGoto(w, outcome)
  /\ UNCHANGED <<meta, provision, storage, ops, pc, job, seen>>

Complete(w) ==
  /\ rpc[w] = "complete"
  /\ SetProvisionState(job[w], "ready", "ready")
  /\ RunnerGoto(w, "advance")
  /\ UNCHANGED <<meta, storage, pc, job, seen>>

Release(w) ==
  /\ RunnerGoto(w, "idle")
  /\ job' = [job EXCEPT ![w] = NoJob]
  /\ seen' = [seen EXCEPT ![w] = 0]

MarkReady(w) ==
  /\ rpc[w] = "advance"
  /\ ops' = Advance(ops, job[w], "ready")
  /\ Release(w)
  /\ UNCHANGED <<meta, provision, storage, pc>>

\* markOperationFailed decides by the attempts it read when it claimed.
MarkOperationFailed(w) ==
  LET terminal == rpc[w] = "rejected" \/ seen[w] + 1 >= MaxAttempts IN
  /\ rpc[w] \in {"failed", "rejected"}
  /\ ops' = Advance(ops, job[w], IF terminal THEN "dead" ELSE "error")
  /\ Release(w)
  /\ UNCHANGED <<meta, provision, storage, pc>>

RunnerCrash(w) ==
  /\ rpc[w] # "idle"
  /\ Release(w)
  /\ UNCHANGED <<meta, provision, storage, ops, pc>>

-----------------------------------------------------------------------------
\* There is no heartbeat: a lock gets old although its runner is at work.
LockGetsOld(c) ==
  /\ ops[c].status = "running" /\ ~ops[c].old
  /\ ops' = [ops EXCEPT ![c] = [@ EXCEPT !.old = TRUE]]
  /\ UNCHANGED <<meta, provision, storage, pc, runnerVars>>

BackoffElapses(c) ==
  /\ ops[c].status = "error" /\ ~ops[c].due
  /\ ops' = [ops EXCEPT ![c] = [@ EXCEPT !.due = TRUE]]
  /\ UNCHANGED <<meta, provision, storage, pc, runnerVars>>

\* The devtools commands `schema-operation retry` and `mark-dead`.
Retry(c) ==
  /\ ops[c].status # "none"
  /\ \E resetAttempts \in BOOLEAN : ops' = ManualRetry(ops, c, resetAttempts)
  /\ UNCHANGED <<meta, provision, storage, pc, runnerVars>>

Bury(c) ==
  /\ ops[c].status # "none"
  /\ ops' = MarkDead(ops, c)
  /\ UNCHANGED <<meta, provision, storage, pc, runnerVars>>

Handle(c) ==
  \/ Insert(c) \/ Provision(c) \/ Fail(c) \/ Cleanup(c) \/ Finish(c)
  \/ FindTable(c) \/ BeginDelete(c) \/ DropData(c) \/ Finalize(c)

Repair(w) ==
  \/ LoadTables(w) \/ Look(w) \/ Ensure(w) \/ Complete(w)
  \/ MarkReady(w) \/ MarkOperationFailed(w)

Next ==
  \/ \E c \in Cmd : \/ Handle(c) \/ DataFails(c) \/ FinalizeFails(c) \/ Abandon(c)
                    \/ LockGetsOld(c) \/ BackoffElapses(c) \/ Retry(c) \/ Bury(c)
  \/ \E w \in Runner : ClaimNext(w) \/ Repair(w) \/ RunnerFails(w) \/ RunnerCrash(w)
  \/ \E t \in Table : Restore(t)

Spec == Init /\ [][Next]_vars

-----------------------------------------------------------------------------
\* A table that users see and whose physical table does not exist.
Broken(t) == meta[t] = "active" /\ t \notin storage

\* A broken table is on record: however creations, deletions, repairs, crashes
\* and the operator's commands interleave, some operation about it is not
\* ready ("the failed schema operation above still records the inconsistency",
\* CreateTableHandler.ts), so that the runner or an operator can find it.
InconsistencyIsRecorded ==
  \A t \in Table : Broken(t) => \E c \in About(t) : Unsettled(ops[c])

\* When CreateTable takes its metadata back, "its physical table was never
\* created" (CreateTableHandler.ts): the clean-up leaves no table behind.
CleanupOwnsNothing ==
  \A c \in Cmd : pc[c] = "cleanup" => TableOf[c] \notin storage

\* The condition under which it does: no repair creates the table of a command
\* that is between its insertion and its clean-up.
NoRepairInBetween ==
  [][\A w \in Runner : Ensure(w) => pc[job[w]] \notin {"data", "fail", "cleanup"}]_vars

\* A table whose creation was interrupted is repaired, unless its operation
\* was given up or the table is deleted.
EventuallyRepaired ==
  \A c \in Repairable \ WithRecords :
    Broken(TableOf[c]) ~>
      \/ ~Broken(TableOf[c])
      \/ ops[c].status = "dead"
      \/ \E d \in Purge : TableOf[d] = TableOf[c] /\ Unsettled(ops[d])

-----------------------------------------------------------------------------
(***************************************************************************)
(* The promise, seen from here.                                            *)
(***************************************************************************)
Known == {t \in Table : meta[t] # "none"}
Visible == {t \in Table : meta[t] = "active"}
OnRecord == {t \in Table : \E c \in About(t) : Unsettled(ops[c])}

Promise ==
  INSTANCE TablePromise WITH known <- Known, visible <- Visible, stored <- storage,
                             recorded <- OnRecord

\* The commands, the runners and the operator together keep the promise: every
\* transaction is a step of it, and in particular none that drops a physical
\* table comes before the deletion is on record, none inserts a row without
\* its operation, and none settles the last operation about a table that is
\* missing.
ImplementsTablePromise == Promise!Spec

-----------------------------------------------------------------------------
(***************************************************************************)
(* Why InconsistencyIsRecorded holds: the inductive invariant of its proof. *)
(***************************************************************************)
PurgeRecorded(t) == \E p \in Purge : TableOf[p] = t /\ Unsettled(ops[p])

\* The creation is on record, and nobody is about to declare it ready.
CreationRecorded(t) ==
  \E c \in Creator :
    /\ TableOf[c] = t /\ Unsettled(ops[c]) /\ pc[c] # "finish"
    /\ \A w \in Runner : job[w] = c => rpc[w] \notin {"complete", "advance"}

\* A missing physical table is on record, in the trash as well: a restored
\* table is as visible as any.
MissingIsRecorded ==
  \A t \in Table :
    meta[t] # "none" /\ t \notin storage => PurgeRecorded(t) \/ CreationRecorded(t)

\* A permanent deletion is on record from its begin on until its table is gone.
PurgeInOrder ==
  \A p \in Purge :
    /\ pc[p] \in {"data", "finalize"} => Unsettled(ops[p])
    /\ pc[p] = "finish" => meta[TableOf[p]] = "none"

\* Before a table is inserted nobody has heard of it.
Unborn ==
  \A c \in Creator :
    pc[c] = "new" =>
      /\ ops[c].status = "none" /\ TableOf[c] \notin storage
      /\ meta[TableOf[c]] = "none"
      /\ \A d \in Deleter : TableOf[d] = TableOf[c] => pc[d] = "new"

\* Only inserted tables have operations to work on.
JobsAreOn == \A w \in Runner : rpc[w] # "idle" => ops[job[w]].status # "none"

\* A creation has no metadata to finalize.
HandlersApart == \A c \in Creator : pc[c] # "finalize"

\* Why CleanupOwnsNothing holds under NoRepairInBetween: a creation that has not
\* got past its data transaction has no physical table.
FailureOwnsNothing ==
  \A c \in Cmd :
    /\ c \in Creator => pc[c] # "begin"
    /\ c \notin Creator => pc[c] # "cleanup"
    /\ c \in Creator /\ pc[c] \in {"data", "fail", "cleanup"} => TableOf[c] \notin storage

IInv ==
  /\ TypeOK /\ MissingIsRecorded /\ PurgeInOrder /\ Unborn /\ JobsAreOn /\ HandlersApart

=============================================================================
