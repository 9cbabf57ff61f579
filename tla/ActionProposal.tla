--------------------------- MODULE ActionProposal ---------------------------
(***************************************************************************)
(* Accepting a proposal of the AI assistant                                *)
(* (features/ai/action-proposal.service.ts).  The assistant never writes   *)
(* itself: it stores a proposal message, and the action is executed when a *)
(* user accepts it.  acceptProposal reads the message, refuses it when it  *)
(* was accepted and has not failed, stores `accepted', looks up what the   *)
(* arguments leave out, executes the action, and stores a failure so that  *)
(* the user may try again.  Every await is a step of its own here, because *)
(* another request, in this process or another, may run in between.        *)
(*                                                                         *)
(* An action is abstracted to two effects: it creates its main resource    *)
(* (the table, the base, the record ...) and then does the rest (moving it *)
(* into a folder, its formula fields ...); either may fail.                *)
(***************************************************************************)
EXTENDS Naturals

CONSTANTS
  Proposal,    \* proposal messages
  Request,     \* requests that accept a proposal
  Concurrent,  \* whether requests for one proposal may overlap
  MaxAsked     \* bound of the model: how often a proposal is accepted

ASSUME ProposalAssumption == Concurrent \in BOOLEAN /\ MaxAsked \in Nat

VARIABLES
  metadata,    \* the metadata of each proposal message
  asked,       \* how often a request for each proposal was made
  created,     \* how often the main resource of each action was created
  succeeded,   \* how often a request for each proposal was answered with success
  pc,          \* where each request stands
  target,      \* the proposal each request accepts
  read         \* the metadata each request has read

effects == <<created, succeeded>>
request == <<target, read>>
vars == <<metadata, asked, created, succeeded, pc, target, read>>

Fresh == [accepted |-> FALSE, executionFailed |-> FALSE]
Accepted == [accepted |-> TRUE, executionFailed |-> FALSE]
Failed == [accepted |-> TRUE, executionFailed |-> TRUE]

Metadata == [accepted: BOOLEAN, executionFailed: BOOLEAN]

\* Every proposal is as createProposal left it.
Init ==
  /\ metadata = [p \in Proposal |-> Fresh]
  /\ asked = [p \in Proposal |-> 0]
  /\ created = [p \in Proposal |-> 0]
  /\ succeeded = [p \in Proposal |-> 0]
  /\ pc = [r \in Request |-> "idle"]
  /\ target \in [Request -> Proposal]
  /\ read = [r \in Request |-> Fresh]

GoTo(r, step) == pc' = [pc EXCEPT ![r] = step]

-----------------------------------------------------------------------------
(* One request *)

Busy(p) == \E r \in Request : target[r] = p /\ pc[r] # "idle"

\* The request finds the message of the proposal.  Nothing in the service keeps
\* the requests for a proposal apart: ~Concurrent is a condition on its callers.
Find(r, p) ==
  /\ pc[r] = "idle"
  /\ Concurrent \/ ~Busy(p)
  /\ asked[p] < MaxAsked
  /\ asked' = [asked EXCEPT ![p] = @ + 1]
  /\ target' = [target EXCEPT ![r] = p]
  /\ read' = [read EXCEPT ![r] = metadata[p]]
  /\ GoTo(r, "found")
  /\ UNCHANGED <<metadata, effects>>

\* A plausible bug: the check lets a success through instead of a failure.
RefusedOnFailure(r) == read[r].executionFailed

\* The conflict check, on what the request has read.
Refused(r) == read[r].accepted /\ ~read[r].executionFailed

Refuse(r) ==
  /\ pc[r] = "found"
  /\ Refused(r)
  /\ GoTo(r, "idle")
  /\ UNCHANGED <<metadata, asked, effects, request>>

\* A plausible bug: a retry does not reset executionFailed.
MarkAsRead(r) ==
  /\ pc[r] = "found"
  /\ ~Refused(r)
  /\ metadata' = [metadata EXCEPT ![target[r]] = [read[r] EXCEPT !.accepted = TRUE]]
  /\ GoTo(r, "marked")
  /\ UNCHANGED <<asked, effects, request>>

\* The request stores that the proposal is accepted and has not failed.
Mark(r) ==
  /\ pc[r] = "found"
  /\ ~Refused(r)
  /\ metadata' = [metadata EXCEPT ![target[r]] = Accepted]
  /\ GoTo(r, "marked")
  /\ UNCHANGED <<asked, effects, request>>

\* The base and the space the arguments leave out are looked up.
Resolve(r) ==
  /\ pc[r] = "marked"
  /\ GoTo(r, "resolved")
  /\ UNCHANGED <<metadata, asked, effects, request>>

\* executeAction creates the main resource.
Create(r) ==
  /\ pc[r] = "resolved"
  /\ created' = [created EXCEPT ![target[r]] = @ + 1]
  /\ GoTo(r, "created")
  /\ UNCHANGED <<metadata, asked, succeeded, request>>

\* executeAction returns and the request is answered.
Succeed(r) ==
  /\ pc[r] = "created"
  /\ succeeded' = [succeeded EXCEPT ![target[r]] = @ + 1]
  /\ GoTo(r, "idle")
  /\ UNCHANGED <<metadata, asked, created, request>>

\* executeAction throws, before or after it created the resource.
Throw(r) ==
  /\ pc[r] \in {"resolved", "created"}
  /\ GoTo(r, "thrown")
  /\ UNCHANGED <<metadata, asked, effects, request>>

\* A plausible bug: the failure replaces the metadata.
RecordFailureAlone(r) ==
  /\ pc[r] = "thrown"
  /\ metadata' = [metadata EXCEPT ![target[r]] = [executionFailed |-> TRUE]]
  /\ GoTo(r, "idle")
  /\ UNCHANGED <<asked, effects, request>>

\* The catch block stores the failure.
RecordFailure(r) ==
  /\ pc[r] = "thrown"
  /\ metadata' = [metadata EXCEPT ![target[r]] = Failed]
  /\ GoTo(r, "idle")
  /\ UNCHANGED <<asked, effects, request>>

\* The request ends without storing a failure: the process stops, or a call
\* outside the try block (the lookups, the update of the catch block) throws.
Interrupt(r) ==
  /\ pc[r] # "idle"
  /\ GoTo(r, "idle")
  /\ UNCHANGED <<metadata, asked, effects, request>>

Step(r) ==
  \/ \E p \in Proposal : Find(r, p)
  \/ Refuse(r) \/ Mark(r) \/ Resolve(r) \/ Create(r)
  \/ Succeed(r) \/ Throw(r) \/ RecordFailure(r) \/ Interrupt(r)

Next == \E r \in Request : Step(r)

Spec == Init /\ [][Next]_vars

-----------------------------------------------------------------------------
(* Properties *)

\* The type invariant.
TypeOK ==
  /\ metadata \in [Proposal -> Metadata]
  /\ asked \in [Proposal -> 0 .. MaxAsked]
  /\ created \in [Proposal -> Nat]
  /\ succeeded \in [Proposal -> Nat]
  /\ pc \in [Request ->
       {"idle", "found", "marked", "resolved", "created", "thrown"}]
  /\ target \in [Request -> Proposal]
  /\ read \in [Request -> Metadata]

\* An action that was executed with success is never executed again, whatever
\* failed or stopped before: acceptProposal throws a ConflictException if the
\* proposal is already accepted.
SucceedsOnce == \A p \in Proposal : succeeded[p] <= 1

\* Once an action has succeeded, no request creates its resource again either.
NothingAfterSuccess ==
  [][\A p \in Proposal : succeeded[p] > 0 => created'[p] = created[p]]_vars

\* Where a proposal stands, as its message and the requests for it tell.
Executing(p) ==
  \E r \in Request : target[r] = p /\ pc[r] \in {"marked", "resolved", "created", "thrown"}

Stage(p) ==
  CASE succeeded[p] > 0 -> "done"
    [] succeeded[p] = 0 /\ Executing(p) -> "executing"
    [] succeeded[p] = 0 /\ ~Executing(p) /\ metadata[p] = Accepted -> "stuck"
    [] OTHER -> "open"

Stages == [p \in Proposal |-> Stage(p)]

Promise == INSTANCE ProposalPromise WITH stage <- Stages, produced <- created

\* The requests for a proposal keep the promise: the action is executed by one
\* request at a time, again only after a failure was stored, and no more after
\* a success.  An acceptance that stops between the mark and the end of the
\* execution, or while it stores the failure, leaves the proposal stuck: it
\* says accepted, and every later request is refused.
KeepsPromise == Promise!Spec

-----------------------------------------------------------------------------
(* The inductive invariant of the proofs *)

\* Once an action has succeeded, its message says so, and whoever is at work on
\* it has read that.
Settled(p) ==
  succeeded[p] > 0 =>
    /\ metadata[p] = Accepted
    /\ \A r \in Request :
         (target[r] = p /\ pc[r] # "idle") => pc[r] = "found" /\ read[r] = Accepted

\* While a request executes the action, the message says that it is accepted.
Marked ==
  \A r \in Request :
    pc[r] \in {"marked", "resolved", "created", "thrown"} => metadata[target[r]] = Accepted

\* No two requests are at work on one proposal.
OneAtATime ==
  \A r, s \in Request :
    r # s /\ pc[r] # "idle" /\ pc[s] # "idle" => target[r] # target[s]

\* What a request has read is still so when it marks the proposal.
ReadIsCurrent ==
  \A r \in Request : pc[r] = "found" => read[r] = metadata[target[r]]

IInv ==
  TypeOK /\ OneAtATime /\ Marked /\ SucceedsOnce /\ \A p \in Proposal : Settled(p)
=============================================================================
