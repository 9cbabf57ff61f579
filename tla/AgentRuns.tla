------------------------------ MODULE AgentRuns ------------------------------
(***************************************************************************)
(* Runs of the agents and the approval of what they ask                    *)
(* (agent-execution.service.ts, agent.controller.ts,                       *)
(* agent-conversation.service.ts).  Each process keeps the keys of its     *)
(* runs in memory (activeRuns) and refuses a second run under a key: a     *)
(* conversation, or the agent while the conversation is still to be        *)
(* created.  A run is a loop of calls of the language model; a tool may    *)
(* ask the owner for approval, which ends the run, or hand a subtask to    *)
(* another agent, whose run it waits for.  The owner's approval starts     *)
(* another run on the conversation; nothing waits for that one.            *)
(*                                                                         *)
(* A conversation is its status and the question in approvalPayload.       *)
(* Messages, memories, plans and what the other tools do are left out.     *)
(***************************************************************************)
EXTENDS Naturals

CONSTANTS
  Process,             \* of the backend
  Agent,
  Conversation,        \* those of earlier runs
  Request,             \* runs asked for by a user, a schedule, a mention ...
  Decision,            \* requests that approve or reject, and the runs they start
  Subtask,             \* runs that other runs start
  AgentOf,             \* the agent of each run
  ConvOf,              \* the conversation a run continues
  NoConv, NoQuestion,
  MaxIterations,       \* agent.maxIterations (10)
  MaxQuestions,        \* bound on the questions of a run
  MaxDelegationDepth,  \* 2
  Concurrent           \* whether decisions on one conversation may overlap

Run == Request \cup Decision \cup Subtask

ASSUME AgentAssumption ==
  /\ AgentOf \in [Run -> Agent]
  /\ ConvOf \in [Run -> Conversation \cup {NoConv}]
  /\ \A d \in Decision : ConvOf[d] \in Conversation
  /\ \A s \in Subtask : ConvOf[s] = NoConv
  /\ Decision \cap (Request \cup Subtask) = {} /\ Request \cap Subtask = {}
  /\ NoConv \notin Conversation /\ Conversation \cap Run = {}
  /\ MaxIterations \in Nat /\ MaxQuestions \in Nat /\ MaxDelegationDepth \in Nat
  /\ Concurrent \in BOOLEAN

\* <<r, n>>: the nth question of run r.
Question == Run \X (1 .. MaxQuestions)
ASSUME QuestionAssumption == NoQuestion \notin Question

\* The conversation of a run, and its key in activeRuns.
Conv(r) == IF ConvOf[r] = NoConv THEN r ELSE ConvOf[r]
Key(r) == IF ConvOf[r] = NoConv THEN <<"agent", AgentOf[r]>> ELSE <<"conv", ConvOf[r]>>
Keys == {Key(r) : r \in Run}

VARIABLES
  status,      \* AgentConversation.status
  payload,     \* AgentConversation.approvalPayload
  activeRuns,  \* the keys each process has taken
  process,     \* the process of each run
  pc,          \* where each run is
  iterations,  \* of the loop
  asked,       \* how many questions each run has asked
  depth,       \* of the delegation
  parent,      \* the run a subtask works for
  hpc,         \* where the handler of each decision is
  seen         \* the question it has read

handler == <<hpc, seen>>
conversations == <<status, payload>>
vars == <<status, payload, activeRuns, process, pc, iterations, asked, depth, parent, hpc, seen>>

Ended == {"new", "refused", "over"}
InProgress(r) == pc[r] \notin Ended

TypeOK ==
  /\ status \in [Conversation \cup Run ->
                  {"none", "in_progress", "completed", "failed", "waiting_for_approval"}]
  /\ payload \in [Conversation -> Question \cup {NoQuestion}]
  /\ activeRuns \in [Process -> SUBSET Keys]
  /\ process \in [Run -> Process]
  /\ pc \in [Run -> Ended \cup {"load", "loop", "tools", "delegating", "last"}]
  /\ iterations \in [Run -> 0 .. MaxIterations]
  /\ asked \in [Run -> 0 .. MaxQuestions]
  /\ depth \in [Run -> 0 .. MaxDelegationDepth]
  /\ parent \in [Subtask -> Run]
  /\ hpc \in [Decision -> {"new", "accept", "resume", "reject", "rejected", "done"}]
  /\ seen \in [Decision -> Question \cup {NoQuestion}]

Init ==
  /\ status = [c \in Conversation \cup Run |-> IF c \in Run THEN "none" ELSE "completed"]
  /\ payload = [c \in Conversation |-> NoQuestion]
  /\ activeRuns = [p \in Process |-> {}]
  /\ process \in [Run -> Process]
  /\ pc = [r \in Run |-> "new"]
  /\ iterations = [r \in Run |-> 0]
  /\ asked = [r \in Run |-> 0]
  /\ depth = [r \in Run |-> 0]
  /\ parent \in [Subtask -> Run]
  /\ hpc = [d \in Decision |-> "new"]
  /\ seen = [d \in Decision |-> NoQuestion]

Goto(r, label) == pc' = [pc EXCEPT ![r] = label]
SetStatus(c, s) == status' = [status EXCEPT ![c] = s]

-----------------------------------------------------------------------------
(***************************************************************************)
(* The guard, and its finally.                                             *)
(***************************************************************************)
\* Mutant: the guard is not there.
TakeAnyway(r) ==
  /\ activeRuns' = [activeRuns EXCEPT ![process[r]] = @ \cup {Key(r)}]
  /\ Goto(r, "load")

\* There is no await between the test and the set.
Take(r) ==
  IF Key(r) \in activeRuns[process[r]]
    THEN Goto(r, "refused") /\ UNCHANGED activeRuns
    ELSE /\ activeRuns' = [activeRuns EXCEPT ![process[r]] = @ \cup {Key(r)}]
         /\ Goto(r, "load")

\* Mutant: the key is kept by a run that ends.
Keep(r) == Goto(r, "over") /\ iterations' = [iterations EXCEPT ![r] = 0] /\ UNCHANGED activeRuns

\* The run is over, and so are its locals.
Release(r) ==
  /\ activeRuns' = [activeRuns EXCEPT ![process[r]] = @ \ {Key(r)}]
  /\ iterations' = [iterations EXCEPT ![r] = 0]
  /\ Goto(r, "over")

-----------------------------------------------------------------------------
(***************************************************************************)
(* A run.                                                                  *)
(***************************************************************************)
\* Nobody looks at the status of the conversation.
Start(r) ==
  /\ r \in Request /\ pc[r] = "new"
  /\ Take(r)
  /\ UNCHANGED <<conversations, process, iterations, asked, depth, parent, handler>>

\* createConversation; nobody else knows of it before the run ends.
Created(r) ==
  IF ConvOf[r] = NoConv THEN SetStatus(r, "in_progress") ELSE UNCHANGED status

\* The agent, its model and the history are there.
Load(r) ==
  /\ pc[r] = "load"
  /\ Created(r)
  /\ Goto(r, "loop")
  /\ UNCHANGED <<payload, activeRuns, process, iterations, asked, depth, parent, handler>>

\* The model cannot be had: the run reports the error, and marks the
\* conversation when its reader asks for more; delegate_to_agent does not.  An
\* update that fails is ignored.
ConfigFails(r) ==
  /\ pc[r] = "load"
  /\ \/ r \notin Subtask /\ SetStatus(Conv(r), "failed")
     \/ Created(r)
  /\ Release(r)
  /\ UNCHANGED <<payload, process, asked, depth, parent, handler>>

\* Mutant: one iteration too many.
IterateOnceMore(r) ==
  /\ pc[r] = "loop" /\ iterations[r] <= MaxIterations
  /\ iterations' = [iterations EXCEPT ![r] = @ + 1]
  /\ Goto(r, "loop") \/ Goto(r, "tools")
  /\ UNCHANGED <<conversations, activeRuns, process, asked, depth, parent, handler>>

\* The model answers with tool calls; or with none, and the self-review sends
\* it on.
Iterate(r) ==
  /\ pc[r] = "loop" /\ iterations[r] < MaxIterations
  /\ iterations' = [iterations EXCEPT ![r] = @ + 1]
  /\ Goto(r, "loop") \/ Goto(r, "tools")
  /\ UNCHANGED <<conversations, activeRuns, process, asked, depth, parent, handler>>

\* The self-review lets it finish, or it has no more iterations:
\* markConversationComplete, whatever the status is.
Finish(r) ==
  /\ pc[r] = "loop"
  /\ SetStatus(Conv(r), "completed")
  /\ Goto(r, "last")
  /\ UNCHANGED <<payload, activeRuns, process, iterations, asked, depth, parent, handler>>

\* The other tools; request_human_approval in a new conversation is an error
\* the model is told of.
CallTools(r) ==
  /\ pc[r] = "tools"
  /\ Goto(r, "loop")
  /\ UNCHANGED <<conversations, activeRuns, process, iterations, asked, depth, parent, handler>>

AskFor(r) ==
  /\ SetStatus(ConvOf[r], "waiting_for_approval")
  /\ payload' = [payload EXCEPT ![ConvOf[r]] = <<r, asked[r] + 1>>]

MayAsk(r) == pc[r] = "tools" /\ ConvOf[r] # NoConv /\ asked[r] < MaxQuestions

\* request_human_approval, whatever the status is.
Ask(r) ==
  /\ MayAsk(r)
  /\ AskFor(r)
  /\ asked' = [asked EXCEPT ![r] = @ + 1]
  /\ Goto(r, "last")
  /\ UNCHANGED <<activeRuns, process, iterations, depth, parent, handler>>

\* The update throws, though it may have happened; the error is the result of
\* the tool, and the other calls of the model's answer follow.
AskFails(r) ==
  /\ MayAsk(r)
  /\ AskFor(r) \/ UNCHANGED conversations
  /\ asked' = [asked EXCEPT ![r] = @ + 1]
  /\ UNCHANGED <<activeRuns, process, pc, iterations, depth, parent, handler>>

\* Mutant: the depth is not passed on.
DelegateAfresh(r, s) ==
  /\ pc[r] = "tools" /\ depth[r] < MaxDelegationDepth
  /\ s \in Subtask /\ pc[s] = "new" /\ AgentOf[s] # AgentOf[r]
  /\ process' = [process EXCEPT ![s] = process[r]]
  /\ parent' = [parent EXCEPT ![s] = r]
  /\ activeRuns' = [activeRuns EXCEPT ![process[r]] = @ \cup {Key(s)}]
  /\ pc' = [pc EXCEPT ![r] = "delegating",
                      ![s] = IF Key(s) \in activeRuns[process[r]] THEN "refused" ELSE "load"]
  /\ UNCHANGED <<conversations, iterations, asked, depth, handler>>

\* delegate_to_agent: another agent of the base, in this process, in a new
\* conversation of its own.
Delegate(r, s) ==
  /\ pc[r] = "tools" /\ depth[r] < MaxDelegationDepth
  /\ s \in Subtask /\ pc[s] = "new" /\ AgentOf[s] # AgentOf[r]
  /\ process' = [process EXCEPT ![s] = process[r]]
  /\ parent' = [parent EXCEPT ![s] = r]
  /\ depth' = [depth EXCEPT ![s] = depth[r] + 1]
  /\ activeRuns' = [activeRuns EXCEPT ![process[r]] = @ \cup {Key(s)}]
  /\ pc' = [pc EXCEPT ![r] = "delegating",
                      ![s] = IF Key(s) \in activeRuns[process[r]] THEN "refused" ELSE "load"]
  /\ UNCHANGED <<conversations, iterations, asked, handler>>

\* Mutant: a subtask that was refused is waited for.
SubtaskAnswers(r) ==
  /\ pc[r] = "delegating"
  /\ \A s \in Subtask : parent[s] = r => pc[s] \in {"new", "over"}
  /\ Goto(r, "tools")
  /\ UNCHANGED <<conversations, activeRuns, process, iterations, asked, depth, parent, handler>>

\* Whatever has become of the subtask is the result of the tool.
SubtaskReturns(r) ==
  /\ pc[r] = "delegating"
  /\ \A s \in Subtask : parent[s] = r => ~InProgress(s)
  /\ Goto(r, "tools")
  /\ UNCHANGED <<conversations, activeRuns, process, iterations, asked, depth, parent, handler>>

Return(r) ==
  /\ pc[r] = "last"
  /\ Release(r)
  /\ UNCHANGED <<conversations, process, asked, depth, parent, handler>>

\* An error of the model, of a tool of another server or of the database ends
\* the run; nobody tells the conversation.
Throw(r) ==
  /\ pc[r] \in {"load", "loop", "tools"}
  /\ (pc[r] = "load" /\ Created(r)) \/ UNCHANGED status
  /\ Release(r)
  /\ UNCHANGED <<payload, process, asked, depth, parent, handler>>

-----------------------------------------------------------------------------
(***************************************************************************)
(* A decision of the owner.                                                *)
(***************************************************************************)
Deciding(d) == hpc[d] \in {"accept", "resume", "reject"}

\* Mutant: the status is not looked at.
ReadPayload(d) ==
  /\ hpc[d] = "new"
  /\ Concurrent \/ \A e \in Decision : ConvOf[e] = ConvOf[d] => ~Deciding(e)
  /\ seen' = [seen EXCEPT ![d] = payload[ConvOf[d]]]
  /\ \E verdict \in {"accept", "reject"} : hpc' = [hpc EXCEPT ![d] = verdict]
  /\ UNCHANGED <<conversations, activeRuns, process, pc, iterations, asked, depth, parent>>

\* findConversation, and the answer 409 if it is not waiting.  Nothing in the
\* handler keeps the decisions on one conversation apart: ~Concurrent is a
\* condition on its callers.
Read(d) ==
  /\ hpc[d] = "new"
  /\ Concurrent \/ \A e \in Decision : ConvOf[e] = ConvOf[d] => ~Deciding(e)
  /\ IF status[ConvOf[d]] = "waiting_for_approval"
       THEN /\ seen' = [seen EXCEPT ![d] = payload[ConvOf[d]]]
            /\ \E verdict \in {"accept", "reject"} : hpc' = [hpc EXCEPT ![d] = verdict]
       ELSE hpc' = [hpc EXCEPT ![d] = "done"] /\ UNCHANGED seen
  /\ UNCHANGED <<conversations, activeRuns, process, pc, iterations, asked, depth, parent>>

\* Mutant: the question is taken away and the status is left for the run.
ClearPayloadOnly(c) ==
  payload' = [payload EXCEPT ![c] = NoQuestion] /\ UNCHANGED status

ClearApprovalState(c) ==
  /\ SetStatus(c, "in_progress")
  /\ payload' = [payload EXCEPT ![c] = NoQuestion]

\* Whatever the status is by now.
Accept(d) ==
  /\ hpc[d] = "accept"
  /\ ClearApprovalState(ConvOf[d])
  /\ hpc' = [hpc EXCEPT ![d] = "resume"]
  /\ UNCHANGED <<activeRuns, process, pc, iterations, asked, depth, parent, seen>>

\* The run is started and not waited for; if it is refused nobody is told.
Resume(d) ==
  /\ hpc[d] = "resume"
  /\ Take(d)
  /\ hpc' = [hpc EXCEPT ![d] = "done"]
  /\ UNCHANGED <<conversations, process, iterations, asked, depth, parent, seen>>

\* The payload stays.
Reject(d) ==
  /\ hpc[d] = "reject"
  /\ SetStatus(ConvOf[d], "failed")
  /\ hpc' = [hpc EXCEPT ![d] = "rejected"]
  /\ UNCHANGED <<payload, activeRuns, process, pc, iterations, asked, depth, parent, seen>>

\* An update throws, though it may have happened.
DecisionFails(d) ==
  /\ \/ hpc[d] = "accept" /\ ClearApprovalState(ConvOf[d])
     \/ hpc[d] \in {"accept", "reject"} /\ UNCHANGED conversations
  /\ hpc' = [hpc EXCEPT ![d] = "done"]
  /\ UNCHANGED <<activeRuns, process, pc, iterations, asked, depth, parent, seen>>

-----------------------------------------------------------------------------
\* A process dies with its runs and its keys.
Crash(p) ==
  /\ activeRuns' = [activeRuns EXCEPT ![p] = {}]
  /\ pc' = [r \in Run |-> IF process[r] = p /\ InProgress(r) THEN "over" ELSE pc[r]]
  /\ hpc' = [d \in Decision |-> IF process[d] = p /\ Deciding(d) THEN "done" ELSE hpc[d]]
  /\ iterations' = [r \in Run |-> IF process[r] = p THEN 0 ELSE iterations[r]]
  /\ UNCHANGED <<conversations, process, asked, depth, parent, seen>>

Work(r) ==
  \/ Load(r) \/ ConfigFails(r) \/ Iterate(r) \/ CallTools(r)
  \/ Ask(r) \/ AskFails(r) \/ SubtaskReturns(r) \/ Finish(r) \/ Return(r) \/ Throw(r)
  \/ \E s \in Subtask : Delegate(r, s)

Decide(d) == Read(d) \/ Accept(d) \/ Resume(d) \/ Reject(d) \/ DecisionFails(d)

Next ==
  \/ \E r \in Run : Start(r) \/ Work(r)
  \/ \E d \in Decision : Decide(d)
  \/ \E p \in Process : Crash(p)

Spec == Init /\ [][Next]_vars

\* The calls of the model and of the tools return.
FairSpec == Spec /\ \A r \in Run : WF_vars(Work(r))

-----------------------------------------------------------------------------
\* A key in activeRuns is that of exactly one run in progress of the process,
\* and every run in progress has its own there: no two runs of a process work
\* on one conversation, and none leaves a key behind that would refuse all
\* later ones.
KeysAreHeld ==
  /\ \A p \in Process : \A k \in activeRuns[p] :
       \E r \in Run : InProgress(r) /\ process[r] = p /\ Key(r) = k
  /\ \A r \in Run : InProgress(r) => Key(r) \in activeRuns[process[r]]
  /\ \A r, s \in Run : InProgress(r) /\ InProgress(s) /\ process[r] = process[s]
                         /\ Key(r) = Key(s) => r = s

\* A decision that took effect: the question was rejected, or a run was resumed.
Decided(d) == hpc[d] = "rejected" \/ pc[d] \notin {"new", "refused"}

\* An approval is of single use: no question is decided twice, whatever other
\* runs do to the conversation in between and whichever process is asked.
DecisionIsFinal ==
  \A d, e \in Decision : Decided(d) /\ Decided(e) /\ seen[d] = seen[e] => d = e

\* A conversation waits for approval only with a question nobody has decided.
WaitingIsOpen ==
  \A c \in Conversation :
    status[c] = "waiting_for_approval" =>
      payload[c] # NoQuestion /\ \A d \in Decision : Decided(d) => seen[d] # payload[c]

Awaited(r, s) == parent[s] = r /\ InProgress(s)

\* Delegations nest: a subtask in progress has a caller, in the same process and
\* one level up, that waits for it and for no other.  So nobody is left at work
\* that nobody waits for, whatever throws or crashes; and as the levels are
\* bounded, runs never wait for each other in a circle.
DelegationsNest ==
  /\ \A s \in Subtask :
       InProgress(s) =>
         /\ pc[parent[s]] = "delegating"
         /\ process[s] = process[parent[s]]
         /\ depth[s] = depth[parent[s]] + 1
         /\ AgentOf[s] # AgentOf[parent[s]]
  /\ \A r \in Run, s, t \in Subtask : Awaited(r, s) /\ Awaited(r, t) => s = t

\* Runs never all wait for each other: where one is in progress there is one, in
\* the same process, that waits for no subtask.
SomebodyWorks ==
  \A r \in Run :
    InProgress(r) =>
      \E t \in Run : /\ InProgress(t) /\ process[t] = process[r]
                     /\ \A s \in Subtask : ~Awaited(t, s)

\* Every run ends, whatever it delegates: no conversation is refused for ever.
EventuallyFree == \A r \in Run : InProgress(r) ~> ~InProgress(r)

-----------------------------------------------------------------------------
(***************************************************************************)
(* Why they hold: the inductive invariant of the proofs.                   *)
(***************************************************************************)
\* If it is a question, it was asked in conversation c.
AskedIn(c, q) ==
  \A r \in Run, n \in 1 .. MaxQuestions : q = <<r, n>> => ConvOf[r] = c /\ n <= asked[r]

\* A decision that has taken the question away, and one that may.
Spent(d) == Decided(d) \/ hpc[d] = "resume"
Claims(d) == Decided(d) \/ Deciding(d)

DecisionsInOrder ==
  \A d \in Decision :
    /\ hpc[d] # "done" => pc[d] = "new"
    /\ Claims(d) => seen[d] # NoQuestion
    /\ AskedIn(ConvOf[d], seen[d])

ClaimsApart ==
  \A d, e \in Decision : Claims(d) /\ Claims(e) /\ seen[d] = seen[e] => d = e

QuestionsOpen ==
  \A c \in Conversation :
    /\ AskedIn(c, payload[c])
    /\ status[c] = "waiting_for_approval" =>
         payload[c] # NoQuestion /\ \A d \in Decision : Spent(d) => seen[d] # payload[c]

IInv == TypeOK /\ KeysAreHeld /\ DecisionsInOrder /\ ClaimsApart /\ QuestionsOpen

=============================================================================
