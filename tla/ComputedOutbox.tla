---------------------------- MODULE ComputedOutbox ---------------------------
(***************************************************************************)
(* The table computed_update_outbox and the transactions that change it    *)
(* (ComputedUpdateOutbox.ts), as operators on the value of the table.      *)
(*                                                                         *)
(* A row is a task: seed records whose dependents must be recomputed.      *)
(* Time is abstracted to what the code compares it with: due is            *)
(* next_run_at <= now, fresh is locked_at > now - processingLeaseMs.       *)
(* owner is locked_by, the claim owner that is generated for every claim.  *)
(***************************************************************************)
EXTENDS ComputedSeeds

CONSTANTS
  Task,            \* row ids
  Run,             \* claim owners: one batch of one worker at a time
  NoRun,           \* locked_by is null
  Key,             \* (base, seed table, plan hash, change type)
  SeedKey,         \* the keys whose change type is 'seed'
  MaxAttempts,     \* ComputedUpdateOutboxConfig.maxAttempts (8)
  SeedInlineLimit  \* ComputedUpdateOutboxConfig.seedInlineLimit (5000)

ASSUME OutboxAssumption ==
  /\ NoRun \notin Run
  /\ SeedKey \subseteq Key
  /\ MaxAttempts \in Nat \ {0}
  /\ SeedInlineLimit \in Nat

Row == [key : Key, status : {"pending", "processing"}, attempts : 0..MaxAttempts-1,
        due : BOOLEAN, owner : Run \cup {NoRun}, fresh : BOOLEAN,
        inline : BOOLEAN, seeds : SUBSET Record]

Absent == [status |-> "absent"]

Live(rws) == {t \in Task : rws[t].status # "absent"}

PendingWith(rws, k) == {t \in Task : rws[t].status = "pending" /\ rws[t].key = k}

(***************************************************************************)
(* enqueueOrMerge and enqueueSeedTask: under an advisory lock on the key,  *)
(* the task is merged into the pending row of its key, or inserted.        *)
(***************************************************************************)
\* Mutant: merges into a row that is being processed as well.
EnqueueIntoAnyRow(rws, k) ==
  LET sameKey == {t \in Live(rws) : rws[t].key = k}
  IN IF sameKey # {} THEN sameKey ELSE Task \ Live(rws)

EnqueueTargets(rws, k) ==
  IF PendingWith(rws, k) # {} THEN PendingWith(rws, k) ELSE Task \ Live(rws)

InsertedRow(k, seeds) ==
  [key |-> k, status |-> "pending", attempts |-> 0, due |-> TRUE,
   owner |-> NoRun, fresh |-> FALSE,
   inline |-> Cardinality(seeds) <= SeedInlineLimit, seeds |-> seeds]

\* What a merge reads back of the row it merges into: loadSeedGroups goes to
\* the spill table when seed_record_ids is null, parseSeedPayloadFromRow of a
\* seed task does not.
LoadedSeeds(row) ==
  IF row.key \in SeedKey /\ ~row.inline THEN {} ELSE row.seeds

\* Mutant: new work gives a task its attempts back.
MergedAfresh(row, seeds) ==
  LET merged == LoadedSeeds(row) \cup seeds
      inline == Cardinality(merged) <= SeedInlineLimit
  IN [row EXCEPT !.due = TRUE, !.attempts = 0, !.inline = inline,
                 !.seeds = IF inline THEN merged ELSE row.seeds \cup merged]

\* Above the inline limit the seeds are upserted into the spill table and
\* seed_record_ids becomes null; below it the spill rows are deleted.
MergedRow(row, seeds) ==
  LET merged == LoadedSeeds(row) \cup seeds
      inline == Cardinality(merged) <= SeedInlineLimit
  IN [row EXCEPT !.due = TRUE, !.inline = inline,
                 !.seeds = IF inline THEN merged ELSE row.seeds \cup merged]

Enqueue(rws, t, k, seeds) ==
  [rws EXCEPT ![t] = IF rws[t].status = "absent"
                       THEN InsertedRow(k, seeds)
                       ELSE MergedRow(rws[t], seeds)]

(***************************************************************************)
(* Claims and leases.                                                      *)
(***************************************************************************)
Owns(rws, w, t) == rws[t].status = "processing" /\ rws[t].owner = w

\* Mutant: a claim whose lease has run out is not taken over.
NoStaleRows(rws) == {}

StaleRows(rws) == {t \in Task : rws[t].status = "processing" /\ ~rws[t].fresh}

DueRows(rws) == {t \in Task : rws[t].status = "pending" /\ rws[t].due}

Claim(rws, w, claimed) ==
  [t \in Task |-> IF t \in claimed
                    THEN [rws[t] EXCEPT !.status = "processing",
                                        !.owner = w, !.fresh = TRUE]
                    ELSE rws[t]]

RenewLease(rws, w, ids) ==
  [t \in Task |-> IF t \in ids /\ Owns(rws, w, t)
                    THEN [rws[t] EXCEPT !.fresh = TRUE] ELSE rws[t]]

(***************************************************************************)
(* Settling a task.  Every one of these first checks that the row is still *)
(* processing under the owner that claimed it, and changes nothing if not. *)
(***************************************************************************)
\* Mutant: does not look at the owner.
MarkDoneForAnyOwner(rws, w, t) ==
  IF rws[t].status = "processing" THEN [rws EXCEPT ![t] = Absent] ELSE rws

MarkDone(rws, w, t) ==
  IF Owns(rws, w, t) THEN [rws EXCEPT ![t] = Absent] ELSE rws

\* The partial unique index on the key of pending rows: a row cannot go back
\* to pending while another row of its key is pending.
PendingTwin(rws, t) == PendingWith(rws, rws[t].key) \ {t} # {}

BackToPending(rws, t, attempts) ==
  [rws EXCEPT ![t] = [@ EXCEPT !.status = "pending", !.attempts = attempts,
                               !.due = FALSE, !.owner = NoRun, !.fresh = FALSE]]

=============================================================================
