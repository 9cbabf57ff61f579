--------------------------- MODULE SchemaOperationLog ------------------------
(***************************************************************************)
(* The schema_operation table: one row per command that changes tables     *)
(* (PostgresSchemaOperationRepository.ts, and recordSchemaOperations of    *)
(* PostgresTableRepository.ts).  An operator takes the table and returns   *)
(* the table its statement leaves.                                         *)
(***************************************************************************)
EXTENDS Naturals

CONSTANT MaxAttempts   \* schema_operation.max_attempts (8)

ASSUME MaxAttemptsAssumption == MaxAttempts \in Nat \ {0}

Status == {"pending", "running", "error", "ready", "dead"}

\* due: next_run_at has come.  old: locked_at is before staleRunningBefore.
\* Each matters in some statuses only and is FALSE in the others: an upsert
\* keeps locked_at, but nothing reads it unless the row is running, and the
\* claim that makes it running sets it.
Op == [status : Status \cup {"none"}, attempts : Nat, due : BOOLEAN, old : BOOLEAN]
NoOp == [status |-> "none", attempts |-> 0, due |-> FALSE, old |-> FALSE]

\* A command records where it stands.  Pending and failed rows are due at once.
Upsert(ops, c, status) ==
  [ops EXCEPT ![c] =
    [status |-> status,
     attempts |-> IF status = "error" THEN @.attempts + 1 ELSE @.attempts,
     due |-> status \in {"pending", "error"}, old |-> FALSE]]

\* The runner records how an operation has ended, whoever holds the row now;
\* a failed operation is due when its backoff has elapsed.
Advance(ops, c, status) ==
  [ops EXCEPT ![c] =
    [status |-> status,
     attempts |-> IF status \in {"error", "dead"} THEN @.attempts + 1 ELSE @.attempts,
     due |-> FALSE, old |-> FALSE]]

\* Mutant: a running operation is never taken over.
ClaimableIfIdle(op) == op.status \in {"pending", "error"} /\ op.due

Claimable(op) ==
  \/ op.status \in {"pending", "error"} /\ op.due
  \/ op.status = "running" /\ op.old

Claim(ops, c) ==
  [ops EXCEPT ![c] = [@ EXCEPT !.status = "running", !.due = FALSE, !.old = FALSE]]

\* The operator's commands: neither looks at the status the row has.  A retry
\* starts to count afresh if it is told to.
ManualRetry(ops, c, resetAttempts) ==
  [ops EXCEPT ![c] = [status |-> "error",
                      attempts |-> IF resetAttempts THEN 0 ELSE @.attempts,
                      due |-> TRUE, old |-> FALSE]]

MarkDead(ops, c) ==
  [ops EXCEPT ![c] = [@ EXCEPT !.status = "dead", !.due = FALSE, !.old = FALSE]]

\* What the table still says of a command: it has not (yet) succeeded.
Unsettled(op) == op.status \notin {"none", "ready"}

=============================================================================
