----------------------------- MODULE TableUpdate -----------------------------
(***************************************************************************)
(* Requests that change a table (TableUpdateFlow.ts) through the unit of   *)
(* work (unitOfWork.ts), where the metadata and the physical tables are in *)
(* two databases.  A request either runs the flow alone, and the flow then *)
(* opens a meta transaction and a data transaction inside it; or within a  *)
(* data transaction of its own, that of a record write which adds select   *)
(* options, where the flow's meta transaction commits long before it.  A   *)
(* linked request also changes a second table, in a flow nested in the     *)
(* transactions of the first.                                              *)
(*                                                                         *)
(* A step that fails returns an error; x says whether it is one that is    *)
(* retried (a deadlock, a serialization failure).                          *)
(*                                                                         *)
(* Left out: table_meta.provision_state, which is written along with the   *)
(* operation and never read; one database for both, where what happens     *)
(* after the commit is up to the query builder; a linked request within    *)
(* another transaction, for the same reason.                               *)
(***************************************************************************)
EXTENDS SchemaOperationLog

CONSTANTS
  Request,     \* each with an id of its own, the key of its operations
  Within,      \* those that run the flow in a data transaction of their own
  Linked,      \* those that also change the table at the other end of a link
  MaxRetries   \* of a transaction (3)

ASSUME UpdateAssumption ==
  /\ Within \subseteq Request
  /\ Linked \subseteq Request \ Within
  /\ MaxRetries \in Nat

Part == {"host", "foreign"}
PartsOf(r) == IF r \in Linked THEN Part ELSE {"host"}
Change == Request \X Part
Host(r) == <<r, "host">>
Foreign(r) == <<r, "foreign">>

VARIABLES
  metadata,   \* the parts of each change that the meta database has
  physical,   \* and the data database
  ops,        \* schema_operation
  pc,         \* where each request is
  metaTx,     \* changes its meta transaction will commit
  dataTx,     \* changes its data transaction will commit
  metaTries,  \* attempt of the meta transaction,
  dataTries,  \* and of the data transaction it is in
  retryable,  \* the error under way may be retried
  broken,     \* a statement has failed: the data transaction refuses others
  deferred,   \* handlers are registered with the surrounding transaction
  lost,       \* the request was killed, or could not store its outcome
  published   \* its events are out

stores == <<metadata, physical, ops>>
tx == <<metaTx, dataTx, metaTries, dataTries, retryable, broken, deferred>>
vars == <<metadata, physical, ops, pc, metaTx, dataTx, metaTries, dataTries,
          retryable, broken, deferred, lost, published>>

Label == {"new", "begin", "meta", "schema", "nested", "commit", "nestedReady", "commitMeta",
          "rest", "complete", "publish", "fail", "rolledBack", "done"}

TypeOK ==
  /\ metadata \in [Request -> SUBSET Part]
  /\ physical \in [Request -> SUBSET Part]
  /\ ops \in [Change -> Op]
  /\ pc \in [Request -> Label]
  /\ metaTx \in [Request -> SUBSET Part]
  /\ dataTx \in [Request -> SUBSET Part]
  /\ metaTries \in [Request -> 0 .. MaxRetries]
  /\ dataTries \in [Request -> 0 .. MaxRetries]
  /\ retryable \in [Request -> BOOLEAN]
  /\ broken \in [Request -> BOOLEAN]
  /\ deferred \in [Request -> BOOLEAN]
  /\ lost \in [Request -> BOOLEAN]
  /\ published \in [Request -> BOOLEAN]

Init ==
  /\ metadata = [r \in Request |-> {}]
  /\ physical = [r \in Request |-> {}]
  /\ ops = [c \in Change |-> NoOp]
  /\ pc = [r \in Request |-> "new"]
  /\ metaTx = [r \in Request |-> {}]
  /\ dataTx = [r \in Request |-> {}]
  /\ metaTries = [r \in Request |-> 0]
  /\ dataTries = [r \in Request |-> 0]
  /\ retryable = [r \in Request |-> FALSE]
  /\ broken = [r \in Request |-> FALSE]
  /\ deferred = [r \in Request |-> FALSE]
  /\ lost = [r \in Request |-> FALSE]
  /\ published = [r \in Request |-> FALSE]

Goto(r, label) == pc' = [pc EXCEPT ![r] = label]

-----------------------------------------------------------------------------
(***************************************************************************)
(* The unit of work: what becomes of an error.                             *)
(***************************************************************************)
\* Mutants: every error is retried; there is no end of it.
RetryAnything(r, x, tries) == tries[r] < MaxRetries
RetryForever(r, x, tries) == x

Retried(r, x, tries) == x /\ tries[r] < MaxRetries

\* The work of the meta transaction has failed: it is rolled back and runs
\* again, with whatever is nested in it, or the flow fails.
MetaAborts(r, x) ==
  /\ metaTx' = [metaTx EXCEPT ![r] = {}]
  /\ IF Retried(r, x, metaTries)
       THEN /\ Goto(r, "meta")
            /\ metaTries' = [metaTries EXCEPT ![r] = @ + 1]
            /\ UNCHANGED retryable
       ELSE /\ Goto(r, "fail")
            /\ retryable' = [retryable EXCEPT ![r] = x]
            /\ UNCHANGED metaTries
  /\ dataTries' = [dataTries EXCEPT ![r] = IF r \in Within THEN @ ELSE 0]
  /\ dataTx' = [dataTx EXCEPT ![r] = IF r \in Within THEN @ ELSE {}]
  /\ UNCHANGED deferred

\* So for the data transaction a request has opened around the flow.  The
\* next attempt has handlers of its own; those of this one are never run.
ParentAborts(r, x) ==
  /\ dataTx' = [dataTx EXCEPT ![r] = {}]
  /\ broken' = [broken EXCEPT ![r] = FALSE]
  /\ IF Retried(r, x, dataTries)
       THEN /\ Goto(r, "begin")
            /\ dataTries' = [dataTries EXCEPT ![r] = @ + 1]
            /\ deferred' = [deferred EXCEPT ![r] = FALSE]
       ELSE /\ Goto(r, IF deferred[r] THEN "rolledBack" ELSE "done")
            /\ UNCHANGED <<dataTries, deferred>>
  /\ metaTries' = [metaTries EXCEPT ![r] = 0]
  /\ retryable' = [retryable EXCEPT ![r] = FALSE]

-----------------------------------------------------------------------------
(***************************************************************************)
(* The flow.                                                               *)
(***************************************************************************)
Receive(r) ==
  /\ pc[r] = "new"
  /\ Goto(r, "begin")
  /\ UNCHANGED <<stores, tx, lost, published>>

\* Mutant: nothing is recorded before the change.
BeginSilently(r) ==
  /\ pc[r] = "begin"
  /\ Goto(r, "meta")
  /\ UNCHANGED <<stores, tx, lost, published>>

\* A meta transaction of its own, wherever the flow runs.
Begin(r) ==
  /\ pc[r] = "begin"
  /\ ops' = Upsert(ops, Host(r), "pending")
  /\ Goto(r, "meta")
  /\ UNCHANGED <<metadata, physical, tx, lost, published>>

\* The begin fails, or something a record write does before it.
BeginFails(r) ==
  /\ pc[r] = "begin"
  /\ \/ /\ r \in Within
        /\ \E x \in BOOLEAN : ParentAborts(r, x)
        /\ UNCHANGED metaTx
     \/ /\ r \notin Within
        /\ Goto(r, "done")
        /\ UNCHANGED tx
  /\ UNCHANGED <<stores, lost, published>>

\* The prepare hook and tableRepository.updateOne.
UpdateMetadata(r) ==
  /\ pc[r] = "meta"
  /\ metaTx' = [metaTx EXCEPT ![r] = {"host"}]
  /\ Goto(r, "schema")
  /\ UNCHANGED <<stores, dataTx, metaTries, dataTries, retryable, broken, deferred,
                 lost, published>>

UpdateMetadataFails(r) ==
  /\ pc[r] = "meta"
  /\ \E x \in BOOLEAN : MetaAborts(r, x)
  /\ UNCHANGED <<stores, broken, lost, published>>

\* tableSchemaRepository.update.
UpdateSchema(r) ==
  /\ pc[r] = "schema" /\ ~broken[r]
  /\ dataTx' = [dataTx EXCEPT ![r] = {"host"}]
  /\ Goto(r, IF r \in Within THEN "commitMeta" ELSE IF r \in Linked THEN "nested" ELSE "commit")
  /\ UNCHANGED <<stores, metaTx, metaTries, dataTries, retryable, broken, deferred,
                 lost, published>>

\* The afterPersist hook: the same flow for the other table, in the same two
\* transactions.  Its operation is pending and then ready in the meta
\* transaction only; nobody sees it before that commits.
UpdateForeign(r) ==
  /\ pc[r] = "nested"
  /\ metaTx' = [metaTx EXCEPT ![r] = Part]
  /\ dataTx' = [dataTx EXCEPT ![r] = Part]
  /\ Goto(r, "commit")
  /\ UNCHANGED <<stores, metaTries, dataTries, retryable, broken, deferred, lost, published>>

\* The flow's own data transaction is retried first, inside the meta
\* transaction, and then with it; that of a record write is broken and is
\* not looked at until the flow has returned its error.
UpdateSchemaFails(r) ==
  /\ pc[r] \in {"schema", "nested"}
  /\ \E x \in BOOLEAN :
       /\ broken[r] => ~x
       /\ IF r \notin Within /\ Retried(r, x, dataTries)
            THEN /\ dataTx' = [dataTx EXCEPT ![r] = {}]
                 /\ dataTries' = [dataTries EXCEPT ![r] = @ + 1]
                 /\ Goto(r, "schema")
                 /\ UNCHANGED <<metaTx, metaTries, retryable, deferred>>
            ELSE MetaAborts(r, x)
  /\ broken' = [broken EXCEPT ![r] = r \in Within]
  /\ UNCHANGED <<stores, lost, published>>

\* The commit of the data transaction: the flow's own, or the one around it.
CommitData(r) ==
  /\ pc[r] = "commit"
  /\ physical' = [physical EXCEPT ![r] = @ \cup dataTx[r]]
  /\ dataTx' = [dataTx EXCEPT ![r] = {}]
  /\ Goto(r, IF r \in Within THEN "complete"
             ELSE IF r \in Linked THEN "nestedReady" ELSE "commitMeta")
  /\ UNCHANGED <<metadata, ops, metaTx, metaTries, dataTries, retryable, broken, deferred,
                 lost, published>>

\* A commit that throws may have happened (the answer is lost); it is never
\* retried.
CommitDataFails(r) ==
  /\ pc[r] = "commit"
  /\ \E happened \in BOOLEAN :
       physical' = [physical EXCEPT ![r] = IF happened THEN @ \cup dataTx[r] ELSE @]
  /\ IF r \in Within THEN ParentAborts(r, FALSE) /\ UNCHANGED metaTx
                     ELSE MetaAborts(r, FALSE) /\ UNCHANGED broken
  /\ UNCHANGED <<metadata, ops, lost, published>>

\* The commit handler of the nested flow, in the meta transaction still open.
NestedReady(r) ==
  /\ pc[r] = "nestedReady"
  /\ Goto(r, "commitMeta")
  /\ UNCHANGED <<stores, tx, lost, published>>

\* A handler that throws turns the committed transaction into an error.
NestedReadyFails(r) ==
  /\ pc[r] = "nestedReady"
  /\ MetaAborts(r, FALSE)
  /\ UNCHANGED <<stores, broken, lost, published>>

\* The metadata of a transaction that commits; the nested flow's operation is
\* committed along with them.
Metadata(r) ==
  /\ metadata' = [metadata EXCEPT ![r] = @ \cup metaTx[r]]
  /\ ops' = IF r \in Linked THEN Upsert(ops, Foreign(r), "ready") ELSE ops

\* Mutant: the outcome of a record write is not waited for.
CommitMetaUndeferred(r) ==
  /\ pc[r] = "commitMeta"
  /\ Metadata(r)
  /\ metaTx' = [metaTx EXCEPT ![r] = {}]
  /\ Goto(r, IF r \in Within THEN "rest" ELSE "complete")
  /\ UNCHANGED <<physical, dataTx, metaTries, dataTries, retryable, broken, deferred,
                 lost, published>>

CommitMeta(r) ==
  /\ pc[r] = "commitMeta"
  /\ Metadata(r)
  /\ metaTx' = [metaTx EXCEPT ![r] = {}]
  /\ deferred' = [deferred EXCEPT ![r] = r \in Within]
  /\ Goto(r, IF r \in Within THEN "rest" ELSE "complete")
  /\ UNCHANGED <<physical, dataTx, metaTries, dataTries, retryable, broken, lost, published>>

CommitMetaFails(r) ==
  /\ pc[r] = "commitMeta"
  /\ Metadata(r) \/ UNCHANGED <<metadata, ops>>
  /\ MetaAborts(r, FALSE)
  /\ UNCHANGED <<physical, broken, lost, published>>

-----------------------------------------------------------------------------
(***************************************************************************)
(* The outcome.                                                            *)
(***************************************************************************)
\* The rest of a record write, after the flow has returned to it.
Write(r) ==
  /\ pc[r] = "rest"
  /\ Goto(r, "commit")
  /\ UNCHANGED <<stores, tx, lost, published>>

WriteFails(r) ==
  /\ pc[r] = "rest"
  /\ \E x \in BOOLEAN : ParentAborts(r, x)
  /\ UNCHANGED <<stores, metaTx, lost, published>>

\* Mutant: the flow goes on as if nothing had happened.
FlowFailsQuietly(r, x) ==
  IF r \in Within THEN ParentAborts(r, x) /\ UNCHANGED metaTx
                  ELSE Goto(r, "publish") /\ UNCHANGED tx

\* The flow ends with an error: for good, or for the transaction around it.
FlowFails(r, x) ==
  IF r \in Within THEN ParentAborts(r, x) /\ UNCHANGED metaTx
                  ELSE Goto(r, "done") /\ UNCHANGED tx

Fail(r) ==
  /\ pc[r] = "fail"
  /\ ops' = Upsert(ops, Host(r), "error")
  /\ FlowFails(r, retryable[r])
  /\ UNCHANGED <<metadata, physical, lost, published>>

\* The operation cannot be stored, and the flow returns that error instead.
FailFails(r) ==
  /\ pc[r] = "fail"
  /\ \E x \in BOOLEAN : FlowFails(r, x)
  /\ lost' = [lost EXCEPT ![r] = TRUE]
  /\ UNCHANGED <<stores, published>>

\* finalizeReady: at once, or as the commit handler of the record write.
Complete(r) ==
  /\ pc[r] = "complete"
  /\ ops' = Upsert(ops, Host(r), "ready")
  /\ Goto(r, "publish")
  /\ UNCHANGED <<metadata, physical, tx, lost, published>>

CompleteFails(r) ==
  /\ pc[r] = "complete"
  /\ Goto(r, IF r \in Within THEN "rolledBack" ELSE "done")
  /\ lost' = [lost EXCEPT ![r] = @ \/ r \notin Within]
  /\ UNCHANGED <<stores, tx, published>>

\* The rollback handler: "Parent transaction rolled back".
RunRollbackHandler(r) ==
  /\ pc[r] = "rolledBack"
  /\ ops' = Upsert(ops, Host(r), "error")
  /\ Goto(r, "done")
  /\ UNCHANGED <<metadata, physical, tx, lost, published>>

RollbackHandlerFails(r) ==
  /\ pc[r] = "rolledBack"
  /\ Goto(r, "done")
  /\ lost' = [lost EXCEPT ![r] = TRUE]
  /\ UNCHANGED <<stores, tx, published>>

Publish(r) ==
  /\ pc[r] = "publish"
  /\ published' = [published EXCEPT ![r] = TRUE]
  /\ Goto(r, "done")
  /\ UNCHANGED <<stores, tx, lost>>

PublishFails(r) ==
  /\ pc[r] = "publish"
  /\ Goto(r, "done")
  /\ UNCHANGED <<stores, tx, lost, published>>

\* The process dies; the databases roll the open transactions back.
Crash(r) ==
  /\ pc[r] \notin {"new", "done"}
  /\ Goto(r, "done")
  /\ lost' = [lost EXCEPT ![r] = TRUE]
  /\ metaTx' = [metaTx EXCEPT ![r] = {}]
  /\ dataTx' = [dataTx EXCEPT ![r] = {}]
  /\ UNCHANGED <<stores, metaTries, dataTries, retryable, broken, deferred, published>>

Proceed(r) ==
  \/ Receive(r) \/ Begin(r) \/ UpdateMetadata(r) \/ UpdateSchema(r) \/ UpdateForeign(r)
  \/ CommitData(r) \/ NestedReady(r) \/ CommitMeta(r) \/ Write(r)
  \/ Complete(r) \/ Publish(r) \/ Fail(r) \/ RunRollbackHandler(r)

Err(r) ==
  \/ BeginFails(r) \/ UpdateMetadataFails(r) \/ UpdateSchemaFails(r) \/ CommitDataFails(r)
  \/ NestedReadyFails(r) \/ CommitMetaFails(r) \/ WriteFails(r) \/ FailFails(r)
  \/ CompleteFails(r) \/ RollbackHandlerFails(r) \/ PublishFails(r)

Next == \E r \in Request : Proceed(r) \/ Err(r) \/ Crash(r)

Spec == Init /\ [][Next]_vars

-----------------------------------------------------------------------------
Recorded == {r \in Request : Unsettled(ops[Host(r)])}
Promise == INSTANCE TwoStores WITH recorded <- Recorded

\* The flow implements the promise of the two stores: however the statements,
\* the commits and the handlers fail and the transactions are retried, each
\* database is changed only while an operation of the request says so, and the
\* operation is ready only when both have the same.
ImplementsTwoStores == Promise!Spec

\* No transaction carries out a physical change that is already committed: an
\* error after the data transaction's commit is never one that is retried.
NothingTwice == \A r \in Request : dataTx[r] \cap physical[r] = {}

\* Events go out only for changes that are in both databases.
PublishedIsCommitted ==
  \A r \in Request :
    published[r] => metadata[r] = PartsOf(r) /\ physical[r] = PartsOf(r)

\* A request that could store its outcome leaves no pending operation, if the
\* transaction around the flow was not retried.
TriedOnceIsSettled ==
  \A r \in Request :
    pc[r] = "done" /\ ~lost[r] /\ (r \in Within => dataTries[r] = 0) =>
      ops[Host(r)].status # "pending"

\* "A later outer rollback now flips the table back to error for reconciliation
\* instead of leaving it pending forever" (TableUpdateFlow.ts).
RollbackIsFlagged ==
  \A r \in Request : \A p \in Part :
    pc[r] = "done" /\ ~lost[r] /\ (p \in metadata[r]) # (p \in physical[r]) =>
      ops[<<r, p>>].status = "error"

-----------------------------------------------------------------------------
(***************************************************************************)
(* Why they hold: the inductive invariant of the proofs.                   *)
(***************************************************************************)
\* From its begin to its outcome a flow is on record as pending.
InFlow == {"meta", "schema", "nested", "commit", "nestedReady", "commitMeta", "rest",
           "complete", "fail", "rolledBack"}
OnRecord(r) ==
  /\ pc[r] \in InFlow => ops[Host(r)].status = "pending"
  /\ pc[r] = "publish" => ops[Host(r)].status = "ready"
  /\ metadata[r] # physical[r] => Unsettled(ops[Host(r)])

\* What is written, and what is committed, at each point of a request.
Untouched(r) == metadata[r] = {} /\ physical[r] = {} /\ ops[Host(r)].status = "none"
Everywhere(r) == metadata[r] = PartsOf(r) /\ physical[r] = PartsOf(r)

WrittenSoFar(r) ==
  /\ pc[r] = "new" => Untouched(r) /\ dataTries[r] = 0
  /\ pc[r] = "begin" /\ (r \in Within => dataTries[r] = 0) => Untouched(r)
  /\ pc[r] \in {"begin", "meta", "schema", "nested"} => physical[r] = {}
  /\ pc[r] = "fail" /\ r \in Within => physical[r] = {}
  /\ pc[r] \in {"schema", "nested"} => metaTx[r] = {"host"}
  /\ pc[r] = "nested" => r \in Linked
  /\ pc[r] = "commit" =>
       /\ dataTx[r] = PartsOf(r) /\ physical[r] = {}
       /\ IF r \in Within THEN metadata[r] = PartsOf(r) ELSE metaTx[r] = PartsOf(r)
  /\ pc[r] = "nestedReady" =>
       r \in Linked /\ metaTx[r] = PartsOf(r) /\ physical[r] = PartsOf(r)
  /\ pc[r] = "commitMeta" =>
       /\ metaTx[r] = PartsOf(r)
       /\ IF r \in Within THEN dataTx[r] = PartsOf(r) /\ physical[r] = {}
                          ELSE physical[r] = PartsOf(r)
  /\ pc[r] = "rest" =>
       r \in Within /\ dataTx[r] = PartsOf(r) /\ physical[r] = {} /\ metadata[r] = PartsOf(r)
  /\ pc[r] \in {"complete", "publish"} => Everywhere(r)
  /\ published[r] => pc[r] = "done" /\ Everywhere(r)
  /\ metadata[r] \subseteq PartsOf(r)
  /\ dataTx[r] # {} => physical[r] = {}

\* The surrounding transaction has its handlers once the flow is over, and
\* not before.
HandlersInPlace(r) ==
  /\ pc[r] \in {"rest", "commit"} /\ r \in Within => deferred[r]
  /\ pc[r] = "rolledBack" => r \in Within
  /\ deferred[r] =>
       r \in Within /\ pc[r] \in {"rest", "commit", "complete", "publish", "rolledBack", "done"}

NeverLeftPending(r) ==
  pc[r] = "done" /\ ~lost[r] /\ (r \in Within => dataTries[r] = 0) =>
    ops[Host(r)].status # "pending"

IInv ==
  /\ TypeOK
  /\ \A r \in Request :
       OnRecord(r) /\ WrittenSoFar(r) /\ HandlersInPlace(r) /\ NeverLeftPending(r)

=============================================================================
