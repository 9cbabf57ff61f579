--------------------------- MODULE ComputedPromise ---------------------------
(***************************************************************************)
(* What the outbox promises of computed updates (IComputedUpdateOutbox.ts),*)
(* without rows, leases, owners, locks and retries: the records that are   *)
(* queued for a computation, those that are parked for an operator, the    *)
(* stale ones, a dependent of which does not reflect them, and those of    *)
(* them whose update is lost.                                              *)
(*   - A write queues its record in the same step.                         *)
(*   - Only a computation of a record makes it current.                    *)
(*   - The step that computes a stage queues the next one.                 *)
(*   - What is stale is queued, parked or lost.                            *)
(*   - Queueing loses what was queued only, a computation what was current *)
(*     only, and nothing else loses anything.                              *)
(***************************************************************************)
EXTENDS ComputedSeeds

VARIABLES stale, queued, parked, lost

updates == <<stale, queued, parked, lost>>

Init == stale = {} /\ queued = {} /\ parked = {} /\ lost = {}

\* Of the stale records no other than those of S become lost; those that are not
\* queued or parked are.
Lose(S) ==
  /\ lost' \in SUBSET ((lost \cup S) \cap stale')
  /\ stale' \subseteq queued' \cup parked' \cup lost'

\* The records of S are queued, again if they have been computed already.
Queue(S) ==
  /\ queued' \in SUBSET (queued \cup S)
  /\ S \subseteq queued'
  /\ Lose(queued \ S)
  /\ UNCHANGED parked

Requeue(S) == UNCHANGED stale /\ Queue(S)

Write(r) == stale' = stale \cup ({r} \cap HasDependents) /\ Queue({r})

\* A record leaves the queue when it is current, parked, or lost already.
Drop ==
  /\ queued' \in SUBSET queued
  /\ UNCHANGED <<stale, parked>>
  /\ Lose({})

\* What was queued is given up and parked.
Park ==
  /\ parked' \in SUBSET (parked \cup queued)
  /\ parked \subseteq parked'
  /\ queued' \in SUBSET queued
  /\ queued \subseteq queued' \cup parked'
  /\ UNCHANGED stale
  /\ Lose({})

\* A stage on the records S is computed.  A record of S that was written in the
\* meantime stays stale, and a record may become stale again of which the stage
\* has read an older version: if it is not queued or parked, it is lost.
Compute(S) ==
  /\ stale' \in SUBSET HasDependents
  /\ stale \ S \subseteq stale'
  /\ queued' \in SUBSET (queued \cup NextSeeds(S))
  /\ (queued \ S) \cup NextSeeds(S) \subseteq queued'
  /\ Lose(stale' \ stale)
  /\ UNCHANGED parked

Next ==
  \/ Drop \/ Park
  \/ \E r \in Record : Write(r)
  \/ \E S \in SUBSET Record : Requeue(S) \/ Compute(S)

Spec == Init /\ [][Next]_updates

=============================================================================
