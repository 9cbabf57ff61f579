# A TLA+ model of the nSidr server core

nSidr is a no-code database: users keep records in tables, fields compute their
values from other records, and assistants and agents work on the same data. The
repository holds a NestJS backend, a second generation of the data engine
(`packages/v2`), a Next.js application and libraries. This directory models the
parts of the data core whose correctness depends on the order in which several
actors do things: it checks them with TLC on small instances and proves the
main safety properties with TLAPS for every instance.

Source files are named by their last path component; the full paths are in
`PROJECT.json` under `components` and `map`.

Contents: 1 the system, 2 the modules and the code, 3 the runs, 4 disagreements
found, 5 fairness, 6 bounds, 7 proofs, 8 what is not modelled, 9 order of work
and what is left.

## 1. The system

### 1.1 Computed updates (v2)

- **State**: the table `computed_update_outbox` (one row per task: key, seed
  records, status, attempts, `next_run_at`, `locked_by`, `locked_at`) with its
  spill table for large seed lists, `computed_update_dead_letter`, the pause
  registry, and in each process the batch a run has claimed.
- **Operations**: a record write enqueues a seed task in its own transaction,
  merged into a pending row of the same key if there is one. `runOnce` claims a
  batch; each task is recomputed in one transaction under advisory locks, which
  also enqueues the next stage and removes the row. A heartbeat renews leases;
  failures go back with a backoff or to the dead letter; large tasks are split;
  `runTaskById` takes a row over; an operator pauses scopes.
- **Interactions**: record writes, workers in several processes and operators
  meet in the outbox; transactions meet in the records and the advisory locks.
- **Hard**: a write during the processing of its row; an expired lease under a
  run that goes on; a takeover; a crash with claimed rows; a split that fails
  half-way; merging into a spilled row; two transactions that compute one record.
- **Correct means**: no update is lost (the code loses some, in two ways that are
  named and are the only ones), only its owner settles a row, the locks serialise
  tasks with a common seed, and out-of-date records are computed in the end.

### 1.2 Schema operations and table provisioning (v2)

- **State**: table metadata with a provision state (meta database), physical
  tables (data database), the `schema_operation` rows (status, attempts,
  `next_run_at`, `locked_at`).
- **Operations**: the commands CreateTable, DuplicateTable, DeleteTable (soft and
  permanent) and RestoreTable, each a chain of transactions over the two
  databases; the background runner with claims, retries, backoff and takeover of
  old locks; the operator's `retry` and `mark-dead`.
- **Hard**: there is no transaction over both databases; a stop between two
  transactions; a runner that repairs what a command is still undoing; a second
  runner after five minutes, since there is no heartbeat.
- **Correct means**: when metadata and physical table disagree, an operation that
  is not ready says so; the runner repairs an interrupted creation.

### 1.3 Undo and redo (v2)

- **State**: per window one key with entry ids, cursor and next sequence number,
  and one key per entry; keys expire.
- **Operations**: append after a command, undo, redo, and the replay of the
  entries' commands. Only single gets, sets and deletes are atomic.
- **Hard**: a request that stops between two calls, a full window, groups, expiry
  of old entries, two requests of one window.
- **Correct means**: undo takes back exactly what is in effect, redo applies
  exactly what is not, and nothing recorded disappears before its time.

### 1.4 AI action proposals

- **State**: the metadata of a proposal message (`accepted`, `executionFailed`).
- **Operations**: `createProposal`, and `acceptProposal`, which checks, stores the
  acceptance, looks things up, executes the action and stores a failure.
- **Hard**: each `await` lets another request in; a stop or an error outside the
  `try` block.
- **Correct means**: an action that succeeded is never executed again, one that
  was not executed can be.

### 1.5 Table updates and the unit of work (v2)

- **State**: transactions on the meta and on the data database, the handlers they
  hold for after the commit and after a rollback, the attempt each is at, the
  `schema_operation` row of the change, and the events a flow has collected.
- **Operations**: `TableUpdateFlow.execute` begins an operation, changes the
  metadata in a meta transaction and the physical table in a data transaction
  nested in it, completes the operation and publishes. A record write that adds
  select options runs the flow inside its own data transaction; a change of a link
  field changes the table at the other end in a second flow, nested in the first.
  `withTransaction` retries deadlocks and serialization failures three times.
- **Hard**: the data transaction commits before the meta transaction around it;
  errors after a commit; an attempt that is retried takes its handlers with it but
  not what it did in other transactions; nested retries.
- **Correct means**: while one database has a change and the other has not, an
  operation says so; no committed change is carried out again; events tell of
  nothing that is not in both databases.

### 1.6 Agents' runs and approvals

- **State**: the status of a conversation and the question it waits on; in each
  process the keys of the runs in progress (`activeRuns`); the loop counter and
  the depth of delegation of a run.
- **Operations**: a run is started by a request, a schedule, a mention, another
  agent or an approval; it calls the language model and tools in turn, may ask the
  owner, or delegate. The owner approves, which starts a run, or rejects.
- **Hard**: the guard is in the memory of each process; any error on any path has
  to give the key back; a decision reads the status, waits, and writes without a
  condition, while runs write the status too; nobody waits for the resumed run.
- **Correct means**: no key outlives its run and no two runs of a process share
  one; a question is decided once; a conversation that waits can be decided.

### 1.7 The rest

| Component | State and operations | What is hard |
| --- | --- | --- |
| Undo and redo (v1), choice of engine | two stacks per window in the cache | pushes between read and write; the order of edits across engines |
| Agents: triggers, schedules, tool servers | callers of a run; queues of a library | a run that is refused is not repeated |
| Workflows | steps run in order, no persisted progress | a stop half-way |
| Realtime (ShareDB adapter, pub/sub, client) | operations derived from commits | order of messages; the convergence is the library's |
| Caches | versioned keys | staleness |
| Accounts, invitations, mail | counters and rows | request-sized |
| Imports, exports, attachments | files and batches | partial imports |
| v1 records, fields, links, views | rows, in one transaction | data transformation |
| Formula language, SQL generation | pure | a compiler |
| Domain model, HTTP contracts, other features | validation, wiring | none of their own |
| Web application, SDK, UI library, translations | presentation | none modelled |

`PROJECT.json` lists all of them with their files and says why each is left out.

## 2. The modules and the code

| Module | Models | Built on |
| --- | --- | --- |
| `ComputedSeeds` | records, tables, which record is computed from which | |
| `ComputedLocks` | `ComputedUpdateLock.ts`: the lock keys of a set of seeds | `ComputedSeeds` |
| `ComputedOutbox` | `ComputedUpdateOutbox.ts`: each statement as an operator on the table | `ComputedSeeds` |
| `ComputedPromise` | the abstract outbox: what is stale, queued, parked or lost | `ComputedSeeds` |
| `ComputedWorker` | `ComputedUpdateWorker.ts`, the field updater, writes, crashes, time | `ComputedLocks`, `ComputedOutbox` |
| `ComputedLosses` | `ComputedWorker` with a history variable: which updates it loses, and how | `ComputedWorker`; `ComputedPromise` by refinement |
| `SchemaOperationLog` | `PostgresSchemaOperationRepository.ts` as operators on the table | |
| `TablePromise` | the promise of creations and deletions: a table that is known and not stored is on record | |
| `TableProvisioning` | command handlers, runner, repair handler, operator | `SchemaOperationLog`; `TablePromise` by refinement |
| `UndoLog` | the abstract log of a window: what is done and what is undone | |
| `UndoRedoStore` | `KeyvUndoRedoStore.ts`, `UndoRedoStackService.ts`, call by call | `UndoLog` by refinement |
| `ProposalPromise` | the stages of a proposal: open, executing, done, stuck | |
| `ActionProposal` | `action-proposal.service.ts`, await by await | `ProposalPromise` by refinement |
| `TwoStores` | the promise of a change of two databases: a difference is on record | |
| `TableUpdate` | `TableUpdateFlow.ts` and `unitOfWork.ts` for two databases, with the handlers that call them | `SchemaOperationLog`; `TwoStores` by refinement |
| `AgentRuns` | `agent-execution.service.ts`, `agent.controller.ts`, `agent-conversation.service.ts` | |

The modules `MC...` give the constants values and count what the environment may
do; `..._proofs` hold the theorems. A definition whose comment begins with
"Mutant" or "A plausible bug" is not part of the model: it is a mistake one could make at the
definition below it, and shows that the properties would notice.

### ComputedWorker

One action is one transaction or one in-memory step between two awaits.

- `Write` is the commit of a record write together with `enqueueSeedTask`. A
  record becomes *stale* when one of its dependents does not reflect its value.
- `ClaimBatch` is `claimBatch`: rows with an expired lease first, then due pending
  rows, none of a paused scope, one per scope. `ClaimById` is `runTaskById`.
- `Heartbeat`, `StartTask`, `SkipLostTask` and `StartUnrenewed` are the lease
  manager; a renewal that throws counts as an active lease, as in the code.
- `EnqueueChunk` and `SplitDone` split a task, one transaction per chunk.
- `AcquireLocks` opens the transaction and reads the sources (`snap`); `Commit`
  writes the dependents, enqueues the next stage and removes the row if it is
  still owned. In between, writes and other transactions may commit.
- `MarkFailed` and `ReleaseForRetry` settle a task. Both run into the partial
  unique index on pending rows when a new row of the key exists.
- `Crash`, `LeaseExpires`, `BackoffElapses`, `Pause`, `Resume`: the environment.

Time is abstracted to the comparisons the code makes with it: `due` is
`next_run_at <= now`, `fresh` is a lease that has not run out. The data is
abstracted to "stale or not": what a transaction read is the set of records whose
current value it has seen. In the code every UPDATE statement has a snapshot of
its own; the model takes one for the whole transaction, which allows no fewer
behaviours.

The locks of a task (`ComputedLocks`) are those of its *seeds*, not of the records it
writes, and each key contains the base of the task; locking may be switched off
(`LocksEnabled`). So two tasks that compute one dependent from two sources, two tasks
of two bases, and a task at the limit of record locks and one above it have no key
in common. All of these are in the model, and nothing is assumed about them.

### ComputedLosses

An update is *lost* when a dependent of a record is out of date and no task and no
dead letter has the record any more. The code loses an update in two ways:

- `Forgotten`: a merge into a pending seed task whose seeds were spilled drops them
  (the first entry of section 4);
- `Overwritten`: a transaction writes a dependent without having read the newest
  value of one of its sources, after another transaction has computed that value
  and has removed its task. This takes two tasks without a common lock.

`TrackLosses` keeps in `lost` the records to which that has happened, until they are
queued again or computed for another reason. No action looks at `lost`; it lets
`NothingElseIsLost` say that whatever is out of date is in a task, in a dead letter,
or was lost in one of these two ways, and the theorem that says so needs no condition
on locks, limits or dependents.

The refinement mapping to `ComputedPromise` forgets rows, owners, leases and keys:
`Queued` are the seeds of the rows in the outbox, `ParkedSeeds` those of the dead
letters. A claim, a takeover and a retry are then nothing, a chunk of a split is
`Requeue`, the removal of the row that was split is `Drop`, a dead letter is `Park`,
and `Commit` is `Compute` of the seeds of its task. The promise names what each step
may lose: `Write` and `Requeue` what was queued, `Compute` what was current, the
others nothing.

### TableProvisioning

One action is one transaction. `pc` is where a command is: `Insert` (metadata,
provision state and operation), `Provision` (the physical table), `Finish`; and
on failure `Fail` and, for CreateTable only, `Cleanup`. A deletion is `FindTable`,
`BeginDelete`, `DropData`, `Finalize`, `Finish`. `Abandon` is a crash, or an error
of the write that would have recorded the step. The runner is `ClaimNext`,
`LoadTables`, `Look`, `Ensure` (asking whether the physical table exists and
creating it are separate steps of one transaction), `Complete`, and `MarkReady` or
`MarkOperationFailed`. An error of the handler (`RunnerFails`) may be one that is
retried or one that is not (`isRetryableFailure`): the latter, like an operation that
is not for the handler, makes the operation dead at once. `Retry` is the operator's,
with the attempts reset or kept. `LockGetsOld` is `staleRunningMs` passing.

In `TablePromise` a table is `Known` when it has metadata, `Visible` when it is not
in the trash, and `OnRecord` while some operation about it is not ready; every
transaction is one step there.

### UndoRedoStore

One action is one call of the key-value store or one replayed command. `Stored`,
`Done` and `Undone` are what the next request would load; they are the refinement
mapping to `UndoLog`. `Interrupt` ends a request anywhere; edits whose replay it
cuts off are in `stray`, because neither the log nor the table can be blamed for
them. `Expire` removes the oldest entry's key first and the window's key last,
because every request renews the window's key and an entry is set once.

### ActionProposal

One action is the code between two awaits. Executing an action is abstracted to
its first effect and the rest. `Concurrent` says whether requests for one proposal
may overlap; nothing in the service prevents it, so FALSE is a condition on the
callers (one user, who waits for an answer). `Stages` maps a proposal to
`ProposalPromise`: it is done when an execution has succeeded, executing while a
request is at work behind the mark, and stuck when it says accepted and neither is
the case.

### TableUpdate

A request is in `Within` when it runs the flow inside a data transaction of its
own (`UpdateRecordHandler`), and in `Linked` when it also changes a second table
(`FieldCreationSideEffectService`). One action is a statement, a hook, a commit or
a handler, and for each there is one that fails. `metaTx` and `dataTx` are what the
open transactions would commit.

- `Retried` is `isRetryableTransactionAbort` and the limit; `MetaAborts` and
  `ParentAborts` are what `withTransaction` does with an error: roll back and begin
  again, or hand it on, with or without the handlers the attempt has registered.
- `Begin`, `UpdateMetadata`, `UpdateSchema`, `UpdateForeign`, `CommitData`,
  `NestedReady`, `CommitMeta`, `Complete` and `Publish` are the flow; `Write` is the
  rest of a record write after its flow. `NestedReady` is the handler the inner
  flow leaves with the data transaction.
- `FlowFails`, `Fail` and `RunRollbackHandler` record the failure; `lost` says that
  this was not possible, because the process stopped or the write failed.
- The refinement mapping to `TwoStores` is the identity on what the databases
  have; `recorded` are the requests whose operation is not settled.

### AgentRuns

`Take` is the test and the set of `activeRuns`, with no await between them,
`Release` its `finally`. `Load`, `Iterate`, `CallTools`, `Ask`, `Delegate`,
`SubtaskReturns`, `Finish` and `Return` are `_runInner` and `executeToolCall`;
`ConfigFails`, `AskFails` and `Throw` their errors. `Read`, `Accept`, `Resume`,
`Reject` and `DecisionFails` are `approveConversation`. A question is named by the
run and how many it has asked: `request_human_approval` ends the run, but when its
update throws (`AskFails`) the error is the result of the tool, and the run goes on
with the remaining tool calls of the same answer, among which may be another question
or a delegation. `Concurrent` says whether decisions on one
conversation may overlap; nothing in the controller prevents it, so FALSE is a
condition on the callers (one owner, who waits for the answer). The runs
themselves may overlap with everything.

## 3. The runs

Passing runs:

| Run | Distinct states | Question and answer |
| --- | --- | --- |
| `computed_worker` | 519 k | Two runs and two writes with failures, a crash, a stalled heartbeat, a pause, a takeover by id, a renewal that throws, or a write of a dependent in another base; a task of two seeds is split; two tasks compute one dependent without a common lock, and seeds are spilled. No update is lost in a third way (`NothingElseIsLost`), a row a run owns is what the run has in memory (`OwnedItemIsCurrent`), tasks of one base that share a seed and lock its table in the same way exclude each other (`SameLocksExclude`), outbox and workers implement `ComputedPromise` (`ImplementsPromise`), attempts are never counted down (`AttemptsNeverDrop`), and the invariant of the proof holds. |
| `computed_live` | 89 k | Under fairness every stale record is computed, parked in the dead letter, or lost in one of the two ways, after a failure with a crash or a pause, and with two bases (`EventuallyComputed`). |
| `schema_operations` | 852 k | Creation, soft and permanent deletion, restore, operator and one runner; or a creation, a purge and two runners that may take each other's operation over; or a duplication and a purge of the copy, with an operator; each with failures and crashes. A visible table without physical table is on record (`InconsistencyIsRecorded`), and every interrupted creation is repaired, unless its operation was given up or the table is being purged (`EventuallyRepaired`). Commands, runner and operator implement `TablePromise` (`ImplementsTablePromise`). |
| `undo_store` | 49 k | The store implements `UndoLog` (`ImplementsLog`); what undo takes back is in effect (`DoneIsApplied`), what redo applies is not (`UndoneIsGone`). Requests come one after the other and may stop anywhere. |
| `proposal_sequential` | 37 k | An action that succeeded is not executed again (`SucceedsOnce`), nor its first effect repeated (`NothingAfterSuccess`), and the requests implement `ProposalPromise` (`KeepsPromise`). |
| `table_update` | 440 k | A change of two linked tables and a record write with a change of its table, where every statement, commit and handler may fail, be retried or be the last: the flow implements `TwoStores` (`ImplementsTwoStores`), no committed change is carried out again (`NothingTwice`), events tell of committed changes (`PublishedIsCommitted`), and who was not retried leaves nothing pending (`TriedOnceIsSettled`). |
| `agent_runs` | 105 k | Requests and decisions on one conversation from two processes, delegation, failures and a crash: keys and runs correspond (`KeysAreHeld`), no question is decided twice (`DecisionIsFinal`), none that was decided is waited on (`WaitingIsOpen`), delegations nest (`DelegationsNest`), every run ends (`EventuallyFree`). |

The runs `computed_spill`, `schema_cleanup`, `undo_expired`, `proposal_concurrent`
and `update_unflagged` each state one thing a comment or a test says, and end in a
counterexample (next section). `IInv` in a run is the invariant of the proof, checked
on the instance before it was proved.

Deadlock is not checked where the bounded environment ends every behaviour
(computed updates, schema operations, proposals, table updates, agents); in the
undo runs a request can always be made, so there it is checked.

## 4. Disagreements between the code and what is said of it

1. **Spilled seeds are forgotten by a merge** (`computed_spill`).
   `enqueueSeedTask` merges into a pending row by reading the inline column only.
   If the seeds of that row were spilled, the column is null; when the merged
   list fits inline again, the spill rows are deleted.
2. **The clean-up of a failed creation races the runner** (`schema_cleanup`): the
   runner may create the physical table in between, which then stays behind. That
   is the only way: under `NoRepairInBetween` the clean-up is proved complete
   (`CleanupIsComplete`).
3. **Expiry moves the cursor** (`undo_expired`): it is cut at the length of what is
   left, not moved down by what has gone, so an undone edit counts as done.
4. **Two accepting requests both execute** (`proposal_concurrent`): the check
   reads what was stored before either stored anything.
5. **A retried record write forgets to flag its table** (`update_unflagged`): the
   flow has committed the metadata and left its rollback handler with the
   transaction of the write. The write is retried, the handlers of the first attempt
   are dropped, and when the second attempt cannot begin its operation, the first
   one's stays pending for ever, which a comment of the flow says cannot happen.

`PROJECT.json` quotes the line each of them is measured against. The models also
contain the following behaviours, each a small disagreement of its own that no run
is spent on:

- tasks that write one record but share no seed share no lock: two source records
  that feed one rollup may be in two tasks, and the transaction that read the older
  value may commit last (`Overwritten`);
- more than `maxRecordLocks` seeds of a table are locked by shards, fewer by
  record, and the two kinds of key never collide (`GroupLocks`; proved as
  `MixedLocksMissEachOther`); nor do the keys of two bases
  (`BasesMissEachOther`), although a stage that a write in one base has started may
  compute records of another;
- a failure is not counted while a row of the same key is pending, because the
  update of `markFailed` violates the unique index (`MarkFailed`, `PendingTwin`);
- the stage depth of a task is not stored, so `MAX_STAGE_DEPTH` is never reached
  (`StageDepth`);
- an operation that an operator marked dead while a runner works on it is stored
  as an error again and claimed (`Bury`, `MarkOperationFailed`);
- two edits of one window recorded at once take one entry id (`StoreEntry` with
  two requests);
- a proposal whose lookups throw, or whose process stops, after the acceptance was
  stored is refused ever after without having been executed (`Interrupt`; the stage
  "stuck" of `ProposalPromise`);
- with two databases the data transaction nested in a meta transaction is retried
  on its own, while a comment (`unitOfWork.ts:153`) speaks of nested transactions as
  sharing the outer one and not retrying (`CommitDataFails`, `UpdateSchemaFails`);
- the operation of the table at the other end of a link is written in the meta
  transaction: when that is rolled back after the data transaction has committed,
  the operation goes with it, and only the one of the first table is left to say
  that the two databases differ (`CommitMetaFails`);
- two decisions on one conversation at the same time both take effect (`Read` with
  `Concurrent`), against the "single-use semantics" of `24-05-PLAN.md:169`;
- an approval whose run is refused, because another run has the key, is lost
  (`Resume`, `Take`);
- a run that ends sets the status to completed even while the conversation waits for
  a question of another run (`Finish`);
- `activeRuns` is per process, so two processes run on one conversation (`Take`);
- an error of the language model leaves the conversation in progress (`Throw`).

## 5. Fairness

- `computed_live`: weak fairness of every step of a run that has claimed, of
  abandoned leases running out, of backoffs and of lifting a pause; strong fairness
  of a claim for each row. The pollers come every 500 to 1000 ms while a lease lasts
  two minutes, and a heartbeat comes every 30 s, so a lease runs out under a live
  run only when its process stalls, which its scenarios leave out.
  Claims order rows by cost and age; strong fairness therefore assumes that no
  endless stream of cheaper tasks exists, which the code does not rule out.
  Failures, crashes and writes are finite. `TaskFails`, `Crash`, `Write`, `Pause`
  and takeovers are never forced.
- `schema_operations`: weak fairness of the runner's claim and steps (it polls every
  five seconds, where it is enabled), of the backoff and of an abandoned lock
  getting old. Commands have no fairness: a request may hang at any point.
- `agent_runs`: weak fairness of the steps of each run, nothing else. The loop
  is bounded by `maxIterations`; that calls of the model and of the tools return, with
  an answer or an error, is an assumption about them: only some tools have a timeout
  in the code. Requests and decisions are never forced.

Every other run checks safety without fairness.

## 6. Bounds, and why they are enough

The MC modules of the computed updates, the schema operations and the agents choose
a *scenario* at the start: how often each thing may go wrong in this behaviour
(`Scenarios`, `left`, `present`). A run is the union of its scenarios. This keeps
combinations of two or three faults, which is where the races are, and leaves out
that all of them happen at once.

- **Computed updates.** Four records in three tables: two sources of one dependent,
  which has a dependent itself, so that a task has a second stage; two bases, to the
  second of which writes of the dependent belong; three row ids; two runs. Two runs
  are what every race here needs (an owner and whoever took its place); two writes
  (three for the spill) give the write before, during and after a claim; one key for
  both sources makes every enqueue a merge when it can be; attempts are bounded at
  two, so both a retry and a dead letter happen. With `MaxRecordLocks = 1` a task of
  one seed locks records and one of two locks a shard, so both sides of the limit are
  met. `computed_worker` splits a task of two seeds (`MaxSeedRecordsPerTask = 1`) and
  spills its seeds (`SeedInlineLimit = 1`); `computed_live` does neither.
  Scenarios: two failures and a crash; a failure, a crash and a pause; a failure and
  a stall; a crash and a stall; a failure and a takeover; a takeover and a renewal
  that throws; with one write, a failure, a takeover and such a renewal; with a write
  in each base, a crash and a takeover; and three writes. Only the scope that the
  sources are written to is paused. Row ids, runs and the two sources are symmetric in
  the safety runs, where no operator chooses among them. Locks that are switched off
  are left to the proofs.
- **Schema operations.** Two tables, one created and one duplicated, with one command
  of each kind about the first; one or two runners, a failure, a crash, and for the
  duplication, which no runner repairs, two of each. Tables do not interact, so a
  scenario is about one of them; the proof is for any number.
- **Undo.** Four edits with a group of two and a window of three entries: the window
  overflows, the group is cut in front and behind, and the cursor stands in the
  middle. `MaxEdits` bounds the ids as well.
- **Proposals.** Two proposals, two requests, three requests per proposal: a failure,
  a retry and one request too many.
- **Table updates.** Two requests, one within a record write and one with a linked
  table, three retries as in the code, and no limit on failures: they share no
  state, so one of each kind shows every behaviour of one of that kind.
- **Agents.** Two processes, two agents, one conversation, two iterations, two
  questions of a run, depth 2, one crash, one or two failing questions; scenarios: a
  request and two decisions, two requests and a decision, two requests that delegate
  to two subtasks, one request and three subtasks, the second of which is at the
  limit and may not delegate any more. Two iterations and two questions are the least
  with which a run goes on after an `Ask` that failed, in the same answer of the
  model or in the next. `MaxQuestions` bounds what the code does not.

## 7. Proofs

All theorems hold for every value of the constants that satisfies the modules'
assumptions.

**Computed updates** (`ComputedWorker_proofs`, `ComputedSafety_proofs`,
`ComputedRefinement_proofs`). `TypeCorrect` needs nothing more, nor does
`OwnersAreCurrent`, that a run which still owns a row has the content of the row in
hand, nor its consequence `AttemptsOnlyRise`: whoever counts attempts counts from
the number in the row, so a task that keeps failing reaches its last attempt.
`InvariantHolds`, `NoUpdateIsLostOtherwise` and `Refinement` are about `LossSpec`, the
same behaviours with the history variable, and need no condition either: they hold for
locks that miss each other or are switched off, for any dependents and any limits.

What the locks do is `SameLocks`: with locking switched on, two tasks of one base with
a common seed may run together only if one locks the table of the seed by record and
the other does not. Hence, within one base, they never do when every task is small
enough for record locks (`RecordLocksExclude`) or when record locks are switched off
(`BatchLocksExclude`); in the mixed case nothing stops them, since they have no key in
common (`MixedLocksMissEachOther`), nor do two tasks of different bases
(`BasesMissEachOther`).

That what is out of date is in a task is not inductive: the row that holds a stale
record may be the one its owner is about to remove. The invariant therefore speaks of
rows that are not *doomed*. `Doomed(r, t)`: the owner of row t runs a transaction that
has not read the last write of r, or is splitting the task and has already enqueued
the chunk of r. `Backed(r)`: some row that is not doomed holds r, or the dead letter
does. `StaleIsBacked` requires this of every stale record that is not lost. Each step
leaves every record backed, or puts it among the lost ones in one of the two ways
(`BackedStep`): a merge when it meets a spilled row, a commit when it overwrites. The
same invariant carries `Refinement`: a commit or a removal of a row that is not a step
of `ComputedPromise` would take a stale record out of the queue, and `StaleIsBacked`
after the step says that another row, or a dead letter, has it, or that the step is
one that loses it. `OwnedItemIsCurrent` is needed because a run acts on its copy of
the row. The proof has a lemma per action; those that neither enqueue nor remove rows
go through one lemma (`QuietStep`).

**Schema operations** (`TableProvisioning_proofs`). `BrokenTablesAreRecorded` needs
no condition. Its invariant says more than the property in two directions: a
missing physical table is on record even while the table is in the trash, because
Restore makes it visible; and the record is either a purge or a creation *that
nobody is about to declare ready* (`CreationRecorded`), because a runner that has
seen the physical table will mark the operation ready. `PurgeInOrder` and `Unborn`
say where a deletion may be while its table is in which state.

`ProvisioningKeepsPromise` needs no condition either. Each transaction is mapped to a
step of `TablePromise` from what it does to metadata, storage and operations. The step
that settles an operation is the one that needs the invariant: after it the table is
whole, gone, or on record through another operation, which is `MissingIsRecorded`
of the next state. `CleanupIsComplete` is about behaviours in which no repair creates a table
between its insertion and its clean-up (`NoRepairInBetween`); its invariant
`FailureOwnsNothing` says that a creation which has not got past its data transaction
has no physical table.

**Proposals** (`ActionProposal_proofs`). `ExecutedOnce` and `NoEffectAfterSuccess`
need `~Concurrent`; the invariant adds that nobody is at work on a proposal twice
and that while an action is executed its message says accepted.
`AcceptanceKeepsPromise` needs in addition that what a request has read is still so
when it marks the proposal (`ReadIsCurrent`): otherwise it could execute a proposal
that is stuck or done. That an acceptance may be stuck is part of the promise, since
the code has it.

**Undo** (`UndoRedoStore_proofs`). Everything the run `undo_store` checks is proved
for every number of edits, limit and grouping: `TypeCorrect`, `UndoFindsItDone`,
`RedoFindsItUndone`, and the refinement `LogImplemented`. The theorems need
`Sequential`: the requests of a window come one after the other (they still stop
between any two calls). They are about `Spec`; with expiry (`ExpiringSpec`) they do
not hold (section 4).

The difficulty is a deletion that was cut off. The window's key still lists entries
that have no key any more, the next request may start anywhere, and what it loads
depends on the holes. `Gaps(a, b)` says which holes there can be: the first b of
the undone entries have gone, and only when all of these have, the first a of the
done ones, because `deleteEntryKeys` goes through them in that order. From a and b
follow the positions of what is left (`Place`, `Rank`), hence what `Done` and `Undone`
are, and what a request that loads has found so far (`LoadedSoFar`). `IdsInOrder` and
`Fresh` say that an id is never used for two edits. Each step lemma shows that the
step preserves the invariant and names the step of `UndoLog` it is: deleting a key is
`Forget`, `Discard` or nothing, `CommitAppend` is `Do`, `Undo` and `Redo` are
themselves. That a group has a first and a last entry comes from the
well-foundedness of < on Nat.

**Table updates** (`TableUpdate_proofs`). No condition. `WrittenSoFar` says, for each
point of a request, what its transactions hold and what is committed; `OnRecord`
that an operation is pending from the begin to the outcome; `HandlersInPlace` that
the surrounding transaction has the handlers exactly when the flow in it is over.
`NothingTwice` follows because every retry happens at a point where nothing physical
is committed; `Refinement` because each commit happens at a point where the operation
is pending.

**Agents** (`AgentRuns_proofs`). `KeysHeld` needs no condition. `DecidedOnce` and
`OpenQuestions` need `~Concurrent`. A question is new when it is asked: `AskedIn` says
that any question stored or seen was asked in that conversation, by a run that has asked
that many. `Claims` are decisions that took effect or still may,
`Spent` those that have taken the question away; no two claims are for one question,
and no conversation waits on a spent one.

`DelegationsHold` needs no condition: a subtask is started by a caller that then
waits, and every way out of the subtask, a crash of its process included, lets the
caller go on or takes it along. `NoCircularWait` follows: from a run that waits
one can go to the subtask it waits for, one level further down, and the depth is
bounded, so in each process with a run in progress one waits for nobody. (The
proof takes the least distance to the bound, by well-foundedness of < on Nat.)

**Only model-checked**: the liveness properties (`EventuallyComputed`,
`EventuallyRepaired`, `EventuallyFree`), which are out of the prover's reach, and the
counterexamples.

## 8. What is not modelled

- *Within computed updates*: field backfill tasks, tasks for all records of a
  table (`seedAllTableIds`), the inline levels of the
  hybrid strategy, the filter for paused spaces after the LIMIT (used when the
  space table is in another database), and SQL. The plan of a change is a constant
  relation between records: which fields depend on which is the planner's, a pure
  algorithm that has its unit tests. Dead letters stay where they are: no code
  puts them back (the `replayQueue` of the developer tools runs the tasks that are
  in the outbox, one by one, which is `ClaimById`).
- *Within schema operations*: CreateTables, CSV and DotTea imports; jobs in the background
  whose operations share a key because they have no `requestId`
  (`import-csv.processor.ts`); fields, views and columns of a
  table.
- *Within table updates*: one database for both scopes, where a nested transaction
  is the same transaction and what follows a commit is the query builder's; what the
  change is (`TableMetaUpdateVisitor` writes the whole `column_meta` of a view, so
  two changes of one view overwrite each other); `ImportRecordsHandler`, whose
  attempts share more state than the flow's; the events of attempts that were
  retried (the array is outside the attempt, so they are published as well).
- *Within undo*: the legacy inline format and compression; the v1 stacks and the
  choice between the engines.
- *Within agents*: messages, memories, plans, the other tools, triggers and queues.
- *Within proposals*: what each kind of action does.
- *Other components*: see 1.7 and `PROJECT.json`. Left out for good: presentation,
  wiring, the compiler, and the convergence of ShareDB, which is a library's.

The share of the implementation that is modelled is small, and will stay so: of
some 600 000 lines most are the web application, interface libraries, translations,
generated clients, HTTP contracts, SQL generation and field type conversion, and the
first generation's services, which transform data within one transaction. They have
hardly any state of their own, so there is little for a model checker to explore.
What is modelled is where several actors or several stores have to agree.

## 9. Order of work and what is left

Done, in this order: the outbox and its worker, because every computed value
depends on them; table provisioning; the undo store; proposals; table updates
with the unit of work; agents' runs; and the proofs of each, the refinements of
`UndoLog`, `TwoStores`, `ComputedPromise`, `TablePromise` and `ProposalPromise`
included.

Left, in the order of what they would add:

1. `UndoEngines`: the v1 stacks, composed with `UndoRedoStore` and the choice of the
   engine. Question: is the last edit the one that is undone?
2. Field backfill tasks and the inline levels of the hybrid strategy as further
   sources of tasks in `ComputedWorker`; paused spaces after the LIMIT and claims by
   cost, for liveness without the assumption of section 5.
3. Batch creations and imports as further commands of `TableProvisioning`, and
   `TableUpdate` composed with its runner.
4. The planner's ordering of steps as pure functions, checked against a
   topological order over small graphs.
