----------------------- MODULE ActionProposal_proofs ------------------------
(***************************************************************************)
(* Theorems about ActionProposal: the type invariant in every case, and,   *)
(* when the requests for a proposal come one after the other, that an      *)
(* action that succeeded is never executed again.  The second needs to     *)
(* know what the message of a succeeded action says (Settled).             *)
(***************************************************************************)
EXTENDS ActionProposal, TLAPS

\* What a request stores is metadata.
LEMMA StoredIsMetadata == Fresh \in Metadata /\ Accepted \in Metadata /\ Failed \in Metadata
  BY DEF Fresh, Accepted, Failed, Metadata

\* Every step preserves the type invariant.
LEMMA TypeStep == TypeOK /\ [Next]_vars => TypeOK'
<1> SUFFICES ASSUME TypeOK, [Next]_vars PROVE TypeOK'
  OBVIOUS
<1> USE DEF TypeOK, GoTo, effects, request
<1>1. ASSUME NEW r \in Request, NEW p \in Proposal, Find(r, p) PROVE TypeOK'
  <2>1. asked'[p] \in 0 .. MaxAsked
    BY <1>1, ProposalAssumption DEF Find
  <2>2. asked' \in [Proposal -> 0 .. MaxAsked]
    BY <1>1, <2>1 DEF Find
  <2>3. read' \in [Request -> Metadata]
    BY <1>1 DEF Find
  <2> QED
    BY <1>1, <2>2, <2>3 DEF Find
<1>2. ASSUME NEW r \in Request, Refuse(r) \/ Resolve(r) \/ Throw(r) \/ Interrupt(r)
      PROVE TypeOK'
  BY <1>2 DEF Refuse, Resolve, Throw, Interrupt
<1>3. ASSUME NEW r \in Request, Mark(r) \/ RecordFailure(r) PROVE TypeOK'
  BY <1>3, StoredIsMetadata DEF Mark, RecordFailure
<1>4. ASSUME NEW r \in Request, Create(r) PROVE TypeOK'
  BY <1>4 DEF Create
<1>5. ASSUME NEW r \in Request, Succeed(r) PROVE TypeOK'
  BY <1>5 DEF Succeed
<1>6. CASE UNCHANGED vars
  BY <1>6 DEF vars
<1> QED
  BY <1>1, <1>2, <1>3, <1>4, <1>5, <1>6 DEF Next, Step

\* TypeOK holds in every behaviour, concurrent requests included.
THEOREM TypesHold == Spec => []TypeOK
<1>1. Init => TypeOK
  BY StoredIsMetadata, ProposalAssumption DEF Init, TypeOK
<1> QED
  BY <1>1, TypeStep, PTL DEF Spec

\* Without concurrent requests a step keeps the requests of a proposal apart.
LEMMA ApartStep == ~Concurrent /\ TypeOK /\ OneAtATime /\ [Next]_vars => OneAtATime'
<1> SUFFICES ASSUME ~Concurrent, TypeOK, OneAtATime, [Next]_vars PROVE OneAtATime'
  OBVIOUS
<1> USE DEF TypeOK, OneAtATime, GoTo, effects, request
<1>1. ASSUME NEW r \in Request, NEW p \in Proposal, Find(r, p) PROVE OneAtATime'
  BY <1>1 DEF Find, Busy
<1>2. ASSUME NEW r \in Request,
             Refuse(r) \/ Mark(r) \/ Resolve(r) \/ Create(r)
             \/ Succeed(r) \/ Throw(r) \/ RecordFailure(r) \/ Interrupt(r)
      PROVE OneAtATime'
  <2>1. pc[r] # "idle" /\ target' = target
    BY <1>2 DEF Refuse, Mark, Resolve, Create, Succeed, Throw, RecordFailure, Interrupt
  <2>2. \A s \in Request : s # r => pc'[s] = pc[s]
    BY <1>2 DEF Refuse, Mark, Resolve, Create, Succeed, Throw, RecordFailure, Interrupt
  <2> QED
    BY <2>1, <2>2
<1>3. CASE UNCHANGED vars
  BY <1>3 DEF vars
<1> QED
  BY <1>1, <1>2, <1>3 DEF Next, Step

\* The inductive step of the main theorem, one case per kind of step.
LEMMA SafetyStep == ~Concurrent /\ IInv /\ [Next]_vars => IInv'
<1> SUFFICES ASSUME ~Concurrent, IInv, [Next]_vars PROVE IInv'
  OBVIOUS
<1>0. TypeOK' /\ OneAtATime'
  BY TypeStep, ApartStep DEF IInv
<1> USE DEF IInv, TypeOK, OneAtATime, SucceedsOnce, Marked, Settled, GoTo, effects, request
<1>1. ASSUME NEW r \in Request, NEW p \in Proposal, Find(r, p) PROVE IInv'
  <2>1. SucceedsOnce' /\ Marked'
    BY <1>1 DEF Find
  <2>2. ASSUME NEW q \in Proposal PROVE Settled(q)'
    BY <1>1 DEF Find
  <2> QED
    BY <1>0, <2>1, <2>2
<1>2. ASSUME NEW r \in Request, Refuse(r) \/ Interrupt(r) PROVE IInv'
  <2>1. UNCHANGED <<metadata, succeeded, target, read>>
    BY <1>2 DEF Refuse, Interrupt
  <2>2. \A s \in Request : pc'[s] # "idle" => pc'[s] = pc[s]
    BY <1>2 DEF Refuse, Interrupt
  <2> QED
    BY <1>0, <2>1, <2>2
<1>3. ASSUME NEW r \in Request,
             Mark(r) \/ Resolve(r) \/ Create(r) \/ Throw(r) \/ RecordFailure(r)
      PROVE IInv'
  <2>1. succeeded[target[r]] = 0
    <3>1. pc[r] # "idle" /\ (pc[r] = "found" => ~Refused(r))
      BY <1>3 DEF Mark, Resolve, Create, Throw, RecordFailure
    <3>2. ~(pc[r] = "found" /\ read[r] = Accepted)
      BY <3>1 DEF Refused, Accepted
    <3> QED
      BY <3>1, <3>2
  <2>2. /\ UNCHANGED <<succeeded, target, read>>
        /\ \A q \in Proposal : q # target[r] => metadata'[q] = metadata[q]
        /\ \A s \in Request : s # r => pc'[s] = pc[s]
    BY <1>3 DEF Mark, Resolve, Create, Throw, RecordFailure
  <2>3. ASSUME NEW q \in Proposal PROVE Settled(q)'
    BY <2>1, <2>2
  <2>4. Marked'
    BY <1>3, <2>2 DEF Mark, Resolve, Create, Throw, RecordFailure
  <2> QED
    BY <1>0, <2>2, <2>3, <2>4
<1>4. ASSUME NEW r \in Request, Succeed(r) PROVE IInv'
  <2>1. succeeded[target[r]] = 0 /\ metadata[target[r]] = Accepted
    BY <1>4 DEF Succeed
  <2>2. \A s \in Request : s # r /\ pc[s] # "idle" => target[s] # target[r]
    BY <1>4 DEF Succeed
  <2>3. /\ UNCHANGED <<metadata, target, read>>
        /\ pc' = [pc EXCEPT ![r] = "idle"]
        /\ succeeded' = [succeeded EXCEPT ![target[r]] = 1]
    BY <1>4, <2>1 DEF Succeed
  <2>4. Marked' /\ SucceedsOnce'
    BY <2>1, <2>3
  <2>5. ASSUME NEW q \in Proposal PROVE Settled(q)'
    <3>1. CASE q = target[r]
      BY <2>1, <2>2, <2>3, <3>1
    <3>2. CASE q # target[r]
      BY <2>3, <3>2
    <3> QED
      BY <3>1, <3>2
  <2> QED
    BY <1>0, <2>4, <2>5
<1>5. CASE UNCHANGED vars
  BY <1>0, <1>5 DEF vars
<1> QED
  BY <1>1, <1>2, <1>3, <1>4, <1>5 DEF Next, Step

\* With one request for a proposal at a time, the inductive invariant holds.
THEOREM InvariantHolds == ASSUME ~Concurrent PROVE Spec => []IInv
<1>1. Init => IInv
  BY StoredIsMetadata, ProposalAssumption
     DEF Init, IInv, TypeOK, OneAtATime, Marked, SucceedsOnce, Settled
<1>2. IInv /\ [Next]_vars => IInv'
  BY SafetyStep
<1> QED
  BY <1>1, <1>2, PTL DEF Spec

\* With one request for a proposal at a time, whatever fails or stops, an action
\* that was executed with success is never executed again.
THEOREM ExecutedOnce == ASSUME ~Concurrent PROVE Spec => []SucceedsOnce
<1>1. IInv => SucceedsOnce
  BY DEF IInv
<1> QED
  BY <1>1, InvariantHolds, PTL

\* Under the same condition no request creates the resource of an action that
\* has succeeded again.
THEOREM NoEffectAfterSuccess == ASSUME ~Concurrent PROVE Spec => NothingAfterSuccess
<1>1. IInv /\ [Next]_vars
      => [\A p \in Proposal : succeeded[p] > 0 => created'[p] = created[p]]_vars
  <2> SUFFICES ASSUME IInv, [Next]_vars, NEW p \in Proposal, succeeded[p] > 0
               PROVE created'[p] = created[p]
    OBVIOUS
  <2>1. ASSUME NEW r \in Request, Create(r) PROVE created'[p] = created[p]
    BY <2>1 DEF Create, IInv, TypeOK, Settled
  <2>2. CASE UNCHANGED created
    BY <2>2
  <2> QED
    BY <2>1, <2>2
       DEF Next, Step, vars, Find, Refuse, Mark, Resolve, Succeed, Throw,
           RecordFailure, Interrupt, effects
<1> QED
  BY <1>1, InvariantHolds, PTL DEF Spec, NothingAfterSuccess

-----------------------------------------------------------------------------
(***************************************************************************)
(* The promise: every step of a request is a step of ProposalPromise, or a *)
(* stutter.                                                                *)
(***************************************************************************)
\* Nobody else changes what a request has read of its proposal.
LEMMA CurrentStep ==
  ASSUME ~Concurrent, IInv, ReadIsCurrent, [Next]_vars PROVE ReadIsCurrent'
<1> USE DEF IInv, TypeOK, OneAtATime, ReadIsCurrent, GoTo, effects, request
<1>1. ASSUME NEW r \in Request, NEW p \in Proposal, Find(r, p) PROVE ReadIsCurrent'
  BY <1>1 DEF Find
<1>2. ASSUME NEW r \in Request,
             Refuse(r) \/ Mark(r) \/ Resolve(r) \/ Create(r)
             \/ Succeed(r) \/ Throw(r) \/ RecordFailure(r) \/ Interrupt(r)
      PROVE ReadIsCurrent'
  <2>1. /\ pc[r] # "idle" /\ pc'[r] # "found" /\ UNCHANGED <<target, read>>
        /\ \A s \in Request : s # r => pc'[s] = pc[s]
        /\ \A q \in Proposal : q # target[r] => metadata'[q] = metadata[q]
    BY <1>2 DEF Refuse, Mark, Resolve, Create, Succeed, Throw, RecordFailure, Interrupt
  <2> QED
    BY <2>1
<1>3. CASE UNCHANGED vars
  BY <1>3 DEF vars
<1> QED
  BY <1>1, <1>2, <1>3 DEF Next, Step

\* A request that has marked its proposal is the one that executes the action.
LEMMA StageOfWork ==
  ASSUME IInv, NEW r \in Request, pc[r] \in {"marked", "resolved", "created", "thrown"}
  PROVE  target[r] \in Proposal /\ Stage(target[r]) = "executing"
<1>1. target[r] \in Proposal /\ Settled(target[r]) /\ succeeded[target[r]] \in Nat
  BY DEF IInv, TypeOK
<1>2. succeeded[target[r]] = 0
  BY <1>1 DEF Settled
<1>3. Executing(target[r])
  BY DEF Executing
<1> QED
  BY <1>1, <1>2, <1>3 DEF Stage

\* The stages of the other proposals stay, and so does that of this one when
\* its request does not enter or leave the execution.
LEMMA SameStage ==
  ASSUME NEW p \in Proposal, succeeded'[p] = succeeded[p], metadata'[p] = metadata[p],
         Executing(p)' <=> Executing(p)
  PROVE  Stage(p)' = Stage(p)
BY DEF Stage

\* A step of one request moves no other proposal.
LEMMA OthersStay ==
  ASSUME IInv, NEW r \in Request,
         Mark(r) \/ Succeed(r) \/ RecordFailure(r) \/ Interrupt(r),
         NEW q \in Proposal, q # target[r]
  PROVE  Stage(q)' = Stage(q)
<1>1. /\ UNCHANGED target /\ succeeded'[q] = succeeded[q] /\ metadata'[q] = metadata[q]
      /\ \A s \in Request : s # r => pc'[s] = pc[s]
  BY DEF Mark, Succeed, RecordFailure, Interrupt, GoTo, IInv, TypeOK, effects, request
<1>2. Executing(q)' <=> Executing(q)
  BY <1>1 DEF Executing
<1> QED
  BY <1>1, <1>2, SameStage

\* A move of one proposal is a move of its entry in the stages.
LEMMA MoveOne ==
  ASSUME NEW p \in Proposal, NEW from, NEW to, UNCHANGED created,
         Stage(p) = from, Stage(p)' = to,
         \A q \in Proposal : q # p => Stage(q)' = Stage(q)
  PROVE  Promise!Move(p, from, to)
<1>1. Stages[p] = from
  BY DEF Stages
<1>2. Stages' = [Stages EXCEPT ![p] = to]
  BY DEF Stages
<1> QED
  BY <1>1, <1>2 DEF Promise!Move

\* When a request marks its proposal it was open and becomes executing.
LEMMA MarkBegins ==
  ASSUME IInv, IInv', ReadIsCurrent, NEW r \in Request, Mark(r)
  PROVE  Promise!Begin(target[r])
<1>0. PICK p \in Proposal : p = target[r]
  BY DEF IInv, TypeOK
<1>1. /\ p \in Proposal /\ pc[r] = "found" /\ ~Refused(r) /\ read[r] = metadata[p]
      /\ metadata[p] \in Metadata /\ succeeded[p] \in Nat
  BY <1>0 DEF Mark, IInv, TypeOK, ReadIsCurrent
<1>2. metadata[p] # Accepted
  BY <1>1 DEF Refused, Accepted
<1>3. succeeded[p] = 0
  BY <1>1, <1>2 DEF IInv, Settled
<1>4. ~Executing(p)
  BY <1>0, <1>1 DEF Executing, IInv, OneAtATime
<1>5. Stage(p) = "open"
  BY <1>2, <1>3, <1>4 DEF Stage
<1>6. pc'[r] = "marked" /\ target' = target /\ created' = created
  BY DEF Mark, GoTo, IInv, TypeOK, effects, request
<1>7. Stage(p)' = "executing"
  <2>1. succeeded' = succeeded /\ Executing(p)'
    BY <1>0, <1>6 DEF Executing, Mark, effects
  <2> QED
    BY <1>3, <2>1 DEF Stage
<1>8. \A q \in Proposal : q # p => Stage(q)' = Stage(q)
  BY <1>0, OthersStay
<1> QED
  BY <1>0, <1>5, <1>6, <1>7, <1>8, MoveOne DEF Promise!Begin

\* A request that leaves the execution moves its proposal: to done when it
\* succeeded, to open when it stored the failure, to stuck otherwise.
LEMMA WorkEnds ==
  ASSUME IInv, IInv', NEW r \in Request,
         pc[r] \in {"marked", "resolved", "created", "thrown"},
         Succeed(r) \/ RecordFailure(r) \/ Interrupt(r)
  PROVE  \/ Promise!Succeed(target[r]) \/ Promise!Fail(target[r])
         \/ Promise!CutShort(target[r])
<1>0. PICK p \in Proposal : p = target[r]
  BY DEF IInv, TypeOK
<1>1. /\ p \in Proposal /\ Stage(p) = "executing" /\ metadata[p] = Accepted
      /\ succeeded[p] \in Nat
  BY <1>0, StageOfWork DEF IInv, Marked, TypeOK
<1>2. succeeded[p] = 0
  BY <1>0, <1>1 DEF IInv, Settled
<1>3. /\ pc'[r] = "idle" /\ UNCHANGED <<target, created>>
      /\ \A s \in Request : s # r => pc'[s] = pc[s]
  BY DEF Succeed, RecordFailure, Interrupt, GoTo, IInv, TypeOK, effects, request
<1>4. ~Executing(p)'
  BY <1>0, <1>3 DEF Executing, IInv, OneAtATime
<1>5. \A q \in Proposal : q # p => Stage(q)' = Stage(q)
  BY <1>0, OthersStay
<1>6. CASE Succeed(r)
  <2>1. succeeded'[p] > 0
    BY <1>0, <1>1, <1>2, <1>6 DEF Succeed, IInv, TypeOK
  <2>2. Stage(p)' = "done"
    BY <2>1 DEF Stage
  <2> QED
    BY <1>0, <1>1, <1>3, <1>5, <2>2, MoveOne DEF Promise!Succeed
<1>7. CASE RecordFailure(r)
  <2>1. metadata'[p] = Failed /\ succeeded'[p] = 0
    BY <1>0, <1>1, <1>2, <1>7 DEF RecordFailure, IInv, TypeOK, effects
  <2>2. Stage(p)' = "open"
    BY <1>4, <2>1 DEF Stage, Failed, Accepted
  <2> QED
    BY <1>0, <1>1, <1>3, <1>5, <2>2, MoveOne DEF Promise!Fail
<1>8. CASE Interrupt(r)
  <2>1. metadata'[p] = Accepted /\ succeeded'[p] = 0
    BY <1>0, <1>1, <1>2, <1>8 DEF Interrupt, effects
  <2>2. Stage(p)' = "stuck"
    BY <1>4, <2>1 DEF Stage
  <2> QED
    BY <1>0, <1>1, <1>3, <1>5, <2>2, MoveOne DEF Promise!CutShort
<1> QED
  BY <1>6, <1>7, <1>8

\* Before the mark and within the execution a request moves no proposal.
LEMMA StagesStay ==
  ASSUME IInv, NEW r \in Request,
         \/ \E p \in Proposal : Find(r, p)
         \/ Refuse(r) \/ Resolve(r) \/ Create(r) \/ Throw(r)
         \/ pc[r] = "found" /\ Interrupt(r)
  PROVE  Stages' = Stages
<1>1. UNCHANGED <<metadata, succeeded>>
  BY DEF Find, Refuse, Resolve, Create, Throw, Interrupt, effects
<1>2. ASSUME NEW q \in Proposal PROVE Executing(q)' <=> Executing(q)
  <2>1. \A s \in Request : s # r => pc'[s] = pc[s] /\ target'[s] = target[s]
    BY DEF Find, Refuse, Resolve, Create, Throw, Interrupt, GoTo, IInv, TypeOK, request
  <2>2. CASE pc[r] \in {"idle", "found"} /\ pc'[r] \in {"idle", "found"}
    BY <2>1, <2>2 DEF Executing
  <2>3. CASE /\ pc[r] \in {"marked", "resolved", "created"}
             /\ pc'[r] \in {"resolved", "created", "thrown"}
             /\ target' = target
    BY <2>1, <2>3 DEF Executing
  <2> QED
    BY <2>2, <2>3 DEF Find, Refuse, Resolve, Create, Throw, Interrupt, GoTo, IInv, TypeOK, request
<1> QED
  BY <1>1, <1>2, SameStage DEF Stages

\* With one request for a proposal at a time the acceptance keeps its promise:
\* one execution at a time, another only after a stored failure, none after a
\* success, and none after an execution that was cut short.
THEOREM AcceptanceKeepsPromise == ASSUME ~Concurrent PROVE Spec => KeepsPromise
<1>1. Init => Promise!Init /\ ReadIsCurrent
  <2> SUFFICES ASSUME Init PROVE Promise!Init /\ ReadIsCurrent
    OBVIOUS
  <2>1. ASSUME NEW p \in Proposal PROVE Stage(p) = "open"
    BY DEF Init, Stage, Executing, Fresh, Accepted
  <2> QED
    BY <2>1 DEF Init, Promise!Init, Stages, ReadIsCurrent
<1>2. IInv /\ ReadIsCurrent /\ [Next]_vars => ReadIsCurrent'
  BY CurrentStep
<1>3. IInv /\ IInv' /\ ReadIsCurrent /\ [Next]_vars => [Promise!Next]_(Promise!promised)
  <2> SUFFICES ASSUME IInv, IInv', ReadIsCurrent, [Next]_vars
               PROVE [Promise!Next]_(Promise!promised)
    OBVIOUS
  <2>1. CASE UNCHANGED vars
    BY <2>1 DEF vars, Promise!promised, Stages, Stage, Executing
  <2>2. ASSUME NEW r \in Request, Mark(r) PROVE [Promise!Next]_(Promise!promised)
    <3>1. target[r] \in Proposal
      BY DEF IInv, TypeOK
    <3> QED
      BY <2>2, <3>1, MarkBegins DEF Promise!Next
  <2>3. ASSUME NEW r \in Request, Succeed(r) \/ RecordFailure(r) \/ Interrupt(r),
               pc[r] # "found"
        PROVE [Promise!Next]_(Promise!promised)
    <3>1. /\ target[r] \in Proposal
          /\ pc[r] \in {"marked", "resolved", "created", "thrown"}
      BY <2>3 DEF IInv, TypeOK, Succeed, RecordFailure, Interrupt
    <3> QED
      BY <2>3, <3>1, WorkEnds DEF Promise!Next
  <2>4. ASSUME NEW r \in Request,
               \/ \E p \in Proposal : Find(r, p)
               \/ Refuse(r) \/ Resolve(r) \/ Throw(r)
               \/ pc[r] = "found" /\ Interrupt(r)
        PROVE [Promise!Next]_(Promise!promised)
    <3>1. Stages' = Stages
      BY <2>4, StagesStay
    <3>2. created' = created
      BY <2>4 DEF Find, Refuse, Resolve, Throw, Interrupt, effects
    <3> QED
      BY <3>1, <3>2 DEF Promise!promised
  <2>5. ASSUME NEW r \in Request, Create(r) PROVE [Promise!Next]_(Promise!promised)
    <3>1. target[r] \in Proposal /\ Stage(target[r]) = "executing"
      BY <2>5, StageOfWork DEF Create
    <3>2. Stages' = Stages
      BY <2>5, StagesStay
    <3>3. Promise!Produce(target[r])
      BY <2>5, <3>1, <3>2 DEF Promise!Produce, Stages, Create
    <3> QED
      BY <3>1, <3>3 DEF Promise!Next
  <2>6. CASE Next
    <3>1. PICK r \in Request : Step(r)
      BY <2>6 DEF Next
    <3>2. Succeed(r) \/ RecordFailure(r) => pc[r] # "found"
      BY DEF Succeed, RecordFailure
    <3> QED
      BY <2>2, <2>3, <2>4, <2>5, <3>1, <3>2 DEF Step
  <2> QED
    BY <2>1, <2>6
<1> QED
  BY <1>1, <1>2, <1>3, InvariantHolds, PTL DEF Spec, KeepsPromise, Promise!Spec
=============================================================================
