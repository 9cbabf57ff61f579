---------------------------- MODULE ComputedLosses ----------------------------
(***************************************************************************)
(* ComputedWorker, with a record of the updates that are lost.  The code   *)
(* loses an update in two ways:                                            *)
(*   - a merge reads the seeds of a pending seed task from its row only,   *)
(*     and writes back what it has read, without the spilled ones          *)
(*     (parseSeedPayloadFromRow);                                          *)
(*   - a transaction overwrites what another one has computed from a newer *)
(*     value of a record.  Locks are taken on the seeds of a task and not  *)
(*     on the records it writes, so that the two need have no lock in      *)
(*     common.                                                             *)
(* lost is a history variable: no action looks at it.  It is there to say  *)
(* that these are the only two ways, whatever the locks, the limits and    *)
(* the data are.                                                           *)
(***************************************************************************)
EXTENDS ComputedWorker

VARIABLE lost   \* records whose last update is lost

lossVars == <<vars, lost>>

-----------------------------------------------------------------------------
(***************************************************************************)
(* What still makes sure that record r is computed.                        *)
(***************************************************************************)
\* Row t is about to be removed by its owner although r is not yet computed:
\* the owner's transaction has not read the last write of r, or it is splitting
\* the task and has already enqueued the chunk of r.
Doomed(r, t) ==
  \E w \in Run :
    /\ Owns(rows, w, t) /\ pc[w] # "idle" /\ cur[w].id = t
    /\ \/ pc[w] = "exec" /\ r \notin snap[w]
       \/ pc[w] = "split" /\ \A c \in chunks[w] : r \notin c.seeds

Backs(r, t) == t \in Live(rows) /\ r \in rows[t].seeds /\ ~Doomed(r, t)

Backed(r) == Parked(r) \/ \E t \in Task : Backs(r, t)

(***************************************************************************)
(* The two ways, in a step.                                                *)
(***************************************************************************)
\* Run w writes a dependent of r without having read the last write of r.
Overwrites(w, r) ==
  /\ pc[w] = "exec" /\ r \in HasDependents \ snap[w]
  /\ Dependents[r] \cap Affected(cur[w].seeds) # {}

\* r was computed, and what was computed from it has been overwritten.
Overwritten ==
  {r \in stale' \ stale : \E w \in Run : Overwrites(w, r) /\ pc'[w] # "exec"}

\* r was a spilled seed of a pending seed task, and no longer is one.
Forgotten ==
  {r \in Record : \E t \in Live(rows) :
     /\ rows[t].status = "pending" /\ rows[t].key \in SeedKey /\ ~rows[t].inline
     /\ r \in rows[t].seeds \ rows'[t].seeds}

\* An update that is lost stays so until its record is queued again, or is
\* computed for another reason.
TrackLosses ==
  lost' = {r \in (lost \cup Overwritten \cup Forgotten) \cap stale' : ~Backed(r)'}

LossInit == Init /\ lost = {}

LossSpec == LossInit /\ [][Next /\ TrackLosses]_lossVars

-----------------------------------------------------------------------------
\* No update is lost in any other way: a record with a dependent that is out of
\* date is a seed of a task that is still in the outbox, or of a dead letter, or
\* it has been overwritten or forgotten since it was last queued.  It rests on
\* two habits of the code: a task is merged into pending rows only, and a row is
\* removed by its current owner only, in the transaction that has done its work
\* and queued the next.
NothingElseIsLost ==
  \A r \in stale : Parked(r) \/ r \in lost \/ \E t \in Live(rows) : r \in rows[t].seeds

\* A record that is out of date and not lost is a seed of a task that will not
\* be removed before it is computed.  NothingElseIsLost alone is not inductive:
\* the row that holds r may be the one a transaction that has read an older r
\* is about to remove.
StaleIsBacked == \A r \in stale \ lost : Backed(r)

\* The inductive invariant.
IInv == TypeOK /\ OwnedItemIsCurrent /\ lost \subseteq stale /\ StaleIsBacked

\* Every record that is out of date is brought up to date, or its task ends up
\* in the dead letter where an operator finds it, unless its update is lost.
EventuallyComputed ==
  \A r \in Record : r \in stale ~> (r \notin stale \/ Parked(r) \/ r \in lost)

-----------------------------------------------------------------------------
\* The outbox and its workers implement ComputedPromise: a record is queued while
\* a task in the outbox has it as a seed, parked while a dead letter has it.
\* Every step keeps the promise, not only every state: the transaction that
\* computes a stage is the one that queues the next, nothing but a computation
\* makes a record current, a dead letter holds what its task was asked for.
Queued == UNION {rows[t].seeds : t \in Live(rows)}
ParkedSeeds == UNION {d.seeds : d \in deadLetter}

Promise == INSTANCE ComputedPromise WITH queued <- Queued, parked <- ParkedSeeds

ImplementsPromise == Promise!Spec

=============================================================================
