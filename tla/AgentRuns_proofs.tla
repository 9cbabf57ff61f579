--------------------------- MODULE AgentRuns_proofs ---------------------------
(***************************************************************************)
(* Proofs about agent runs and approvals, for every set of processes,      *)
(* agents, conversations, requests, decisions and subtasks.                *)
(***************************************************************************)
EXTENDS AgentRuns, WellFoundedInduction, TLAPS

LEMMA Runs ==
  /\ Request \subseteq Run /\ Decision \subseteq Run /\ Subtask \subseteq Run
  /\ \A r \in Run : Key(r) \in Keys /\ Conv(r) \in Conversation \cup Run
BY AgentAssumption DEF Run, Keys, Conv

-----------------------------------------------------------------------------
(***************************************************************************)
(* Type correctness.                                                       *)
(***************************************************************************)
\* The run begins or is refused; it gives its key back.
LEMMA GuardTypes ==
  ASSUME TypeOK, NEW r \in Run
  PROVE  /\ Take(r) => /\ activeRuns' \in [Process -> SUBSET Keys]
                       /\ pc' = [pc EXCEPT ![r] = IF Key(r) \in activeRuns[process[r]]
                                                    THEN "refused" ELSE "load"]
         /\ Release(r) => /\ activeRuns' \in [Process -> SUBSET Keys]
                          /\ iterations' = [iterations EXCEPT ![r] = 0]
                          /\ pc' = [pc EXCEPT ![r] = "over"]
<1>1. /\ process[r] \in Process /\ Key(r) \in Keys
      /\ activeRuns \in [Process -> SUBSET Keys]
  BY Runs DEF TypeOK
<1>2. ASSUME Take(r)
      PROVE  /\ activeRuns' \in [Process -> SUBSET Keys]
             /\ pc' = [pc EXCEPT ![r] = IF Key(r) \in activeRuns[process[r]]
                                          THEN "refused" ELSE "load"]
  BY <1>1, <1>2 DEF Take, Goto
<1> QED
  BY <1>1, <1>2 DEF Release, Goto

\* A step of a run keeps the types.
LEMMA WorkTypes ==
  ASSUME TypeOK, NEW r \in Run, Start(r) \/ Work(r)
  PROVE  TypeOK'
<1> USE Runs, AgentAssumption DEF conversations, handler, Ended
<1>1. CASE Start(r)
  BY <1>1, GuardTypes DEF Start, TypeOK
<1>2. CASE Load(r)
  BY <1>2 DEF Load, Created, SetStatus, Goto, TypeOK
<1>3. CASE ConfigFails(r) \/ Throw(r) \/ Return(r)
  <2>1. status' \in [Conversation \cup Run ->
                      {"none", "in_progress", "completed", "failed", "waiting_for_approval"}]
    BY <1>3 DEF ConfigFails, Throw, Return, Created, SetStatus, TypeOK
  <2>2. Release(r) /\ UNCHANGED <<payload, process, asked, depth, parent, handler>>
    BY <1>3 DEF ConfigFails, Throw, Return
  <2>3. /\ activeRuns' \in [Process -> SUBSET Keys]
        /\ iterations' = [iterations EXCEPT ![r] = 0]
        /\ pc' = [pc EXCEPT ![r] = "over"]
    BY <2>2, GuardTypes
  <2>4. /\ iterations' \in [Run -> 0 .. MaxIterations]
        /\ pc' \in [Run -> Ended \cup {"load", "loop", "tools", "delegating", "last"}]
    BY <2>3 DEF TypeOK
  <2> QED
    BY <2>1, <2>2, <2>3, <2>4 DEF TypeOK
<1>4. CASE Iterate(r)
  <2>1. iterations[r] + 1 \in 0 .. MaxIterations
    BY <1>4 DEF Iterate, TypeOK
  <2>2. iterations' \in [Run -> 0 .. MaxIterations]
    BY <1>4, <2>1 DEF Iterate, TypeOK
  <2>3. pc' = [pc EXCEPT ![r] = "loop"] \/ pc' = [pc EXCEPT ![r] = "tools"]
    BY <1>4 DEF Iterate, Goto
  <2> QED
    BY <1>4, <2>2, <2>3 DEF Iterate, TypeOK
<1>5. CASE Finish(r)
  BY <1>5 DEF Finish, SetStatus, Goto, TypeOK
<1>6. CASE CallTools(r) \/ SubtaskReturns(r)
  BY ZenonT(40), <1>6 DEF CallTools, SubtaskReturns, Goto, TypeOK
<1>7. CASE Ask(r) \/ AskFails(r)
  <2>1. /\ asked[r] + 1 \in 1 .. MaxQuestions
        /\ asked' \in [Run -> 0 .. MaxQuestions]
    BY <1>7 DEF Ask, AskFails, MayAsk, TypeOK
  <2>2. status' \in [Conversation \cup Run ->
                      {"none", "in_progress", "completed", "failed", "waiting_for_approval"}]
    BY <1>7 DEF Ask, AskFails, AskFor, SetStatus, TypeOK
  <2>3. payload' \in [Conversation -> Question \cup {NoQuestion}]
    <3>1. CASE AskFor(r)
      <4>1. payload' = [payload EXCEPT ![ConvOf[r]] = <<r, asked[r] + 1>>]
        BY <3>1 DEF AskFor
      <4> QED
        BY <2>1, <4>1 DEF TypeOK, Question
    <3>2. CASE UNCHANGED conversations
      BY <3>2 DEF TypeOK
    <3> QED
      BY <1>7, <3>1, <3>2 DEF Ask, AskFails
  <2>4. pc' \in [Run -> Ended \cup {"load", "loop", "tools", "delegating", "last"}]
    <3>1. pc' = [pc EXCEPT ![r] = "last"] \/ pc' = pc
      BY <1>7 DEF Ask, AskFails, Goto
    <3> QED
      BY <3>1 DEF TypeOK
  <2>5. /\ activeRuns' \in [Process -> SUBSET Keys]
        /\ process' \in [Run -> Process]
        /\ iterations' \in [Run -> 0 .. MaxIterations]
        /\ depth' \in [Run -> 0 .. MaxDelegationDepth]
        /\ parent' \in [Subtask -> Run]
        /\ hpc' \in [Decision -> {"new", "accept", "resume", "reject", "rejected", "done"}]
        /\ seen' \in [Decision -> Question \cup {NoQuestion}]
    BY <1>7 DEF Ask, AskFails, TypeOK
  <2> QED
    BY <2>1, <2>2, <2>3, <2>4, <2>5 DEF TypeOK
<1>8. ASSUME NEW s \in Subtask, Delegate(r, s)
      PROVE  TypeOK'
  <2>1. depth[r] + 1 \in 0 .. MaxDelegationDepth
    BY <1>8 DEF Delegate, TypeOK
  <2>2. depth' \in [Run -> 0 .. MaxDelegationDepth]
    BY <1>8, <2>1 DEF Delegate, TypeOK
  <2>3. process[r] \in Process /\ s \in Run /\ Key(s) \in Keys
    BY DEF TypeOK
  <2>4. /\ process' \in [Run -> Process] /\ parent' \in [Subtask -> Run]
        /\ activeRuns' \in [Process -> SUBSET Keys]
    BY <1>8, <2>3 DEF Delegate, TypeOK
  <2>5. pc' \in [Run -> Ended \cup {"load", "loop", "tools", "delegating", "last"}]
    BY <1>8, <2>3 DEF Delegate, TypeOK
  <2>6. /\ status' = status /\ payload' = payload /\ iterations' = iterations
        /\ asked' = asked /\ hpc' = hpc /\ seen' = seen
    BY <1>8 DEF Delegate
  <2> QED
    BY <2>2, <2>4, <2>5, <2>6 DEF TypeOK
<1> QED
  BY <1>1, <1>2, <1>3, <1>4, <1>5, <1>6, <1>7, <1>8 DEF Work

\* So does a step of a decision, and a crash.
LEMMA DecideTypes ==
  ASSUME TypeOK, NEW d \in Decision, Decide(d)
  PROVE  TypeOK'
<1> USE Runs, AgentAssumption DEF conversations
<1>1. CASE Read(d)
  BY <1>1 DEF Read, TypeOK
<1>2. CASE Accept(d) \/ DecisionFails(d) \/ Reject(d)
  BY <1>2 DEF Accept, DecisionFails, Reject, ClearApprovalState, SetStatus, TypeOK
<1>3. CASE Resume(d)
  BY SMTT(40), <1>3, GuardTypes DEF Resume, TypeOK, Ended
<1> QED
  BY <1>1, <1>2, <1>3 DEF Decide

LEMMA CrashTypes ==
  ASSUME TypeOK, NEW p \in Process, Crash(p)
  PROVE  TypeOK'
BY AgentAssumption DEF Crash, TypeOK, conversations, InProgress, Ended, Deciding

\* Every variable has its type in every reachable state.
THEOREM TypeCorrect == Spec => []TypeOK
<1>1. Init => TypeOK
  BY AgentAssumption DEF Init, TypeOK, Ended
<1>2. TypeOK /\ [Next]_vars => TypeOK'
  <2>1. TypeOK /\ UNCHANGED vars => TypeOK'
    BY DEF vars, TypeOK
  <2> QED
    BY <2>1, WorkTypes, DecideTypes, CrashTypes DEF Next
<1> QED
  BY <1>1, <1>2, PTL DEF Spec

-----------------------------------------------------------------------------
(***************************************************************************)
(* The keys.                                                               *)
(***************************************************************************)
\* A run that begins takes a key nobody has.
LEMMA TakeKeepsKeys ==
  ASSUME TypeOK, KeysAreHeld, NEW r \in Run, pc[r] = "new", Take(r), process' = process
  PROVE  KeysAreHeld'
<1>1. CASE Key(r) \in activeRuns[process[r]]
  BY <1>1 DEF Take, Goto, KeysAreHeld, InProgress, Ended, TypeOK
<1>2. CASE Key(r) \notin activeRuns[process[r]]
  <2>1. /\ activeRuns' = [activeRuns EXCEPT ![process[r]] = @ \cup {Key(r)}]
        /\ pc' = [pc EXCEPT ![r] = "load"]
    BY <1>2 DEF Take, Goto
  <2>2. \A s \in Run \ {r} : InProgress(s)' <=> InProgress(s)
    BY <2>1 DEF InProgress, TypeOK
  <2>3. InProgress(r)'
    BY <2>1 DEF InProgress, Ended, TypeOK
  <2>4. \A p \in Process : \A k \in activeRuns'[p] :
          \E s \in Run : InProgress(s)' /\ process'[s] = p /\ Key(s) = k
    BY <2>1, <2>2, <2>3 DEF KeysAreHeld, TypeOK, InProgress, Ended
  <2>5. \A s \in Run : InProgress(s)' => Key(s) \in activeRuns'[process'[s]]
    BY <2>1, <2>2 DEF KeysAreHeld, TypeOK
  <2>6. \A s \in Run \ {r} : InProgress(s)' /\ process'[s] = process'[r] => Key(s) # Key(r)
    BY <1>2, <2>2 DEF KeysAreHeld
  <2>7. \A s, t \in Run : InProgress(s)' /\ InProgress(t)' /\ process'[s] = process'[t]
                            /\ Key(s) = Key(t) => s = t
    BY <2>2, <2>6 DEF KeysAreHeld
  <2> QED
    BY <2>4, <2>5, <2>7 DEF KeysAreHeld
<1> QED
  BY <1>1, <1>2

\* A run that ends gives back the key that was its own.
LEMMA ReleaseKeepsKeys ==
  ASSUME TypeOK, KeysAreHeld, NEW r \in Run, InProgress(r), Release(r), process' = process
  PROVE  KeysAreHeld'
<1>1. /\ activeRuns' = [activeRuns EXCEPT ![process[r]] = @ \ {Key(r)}]
      /\ pc' = [pc EXCEPT ![r] = "over"]
  BY DEF Release, Goto
<1>2. \A s \in Run \ {r} : InProgress(s)' <=> InProgress(s)
  BY <1>1 DEF InProgress, TypeOK
<1>3. ~InProgress(r)'
  BY <1>1 DEF InProgress, Ended, TypeOK
<1>4. \A p \in Process : \A k \in activeRuns'[p] :
        \E s \in Run : InProgress(s)' /\ process'[s] = p /\ Key(s) = k
  <2> SUFFICES ASSUME NEW p \in Process, NEW k \in activeRuns'[p]
               PROVE  \E s \in Run : InProgress(s)' /\ process'[s] = p /\ Key(s) = k
    OBVIOUS
  <2>1. k \in activeRuns[p] /\ (p = process[r] => k # Key(r))
    BY <1>1 DEF TypeOK
  <2>2. PICK s \in Run : InProgress(s) /\ process[s] = p /\ Key(s) = k
    BY <2>1 DEF KeysAreHeld
  <2> QED
    BY <1>2, <2>1, <2>2
<1>5. \A s \in Run : InProgress(s)' => Key(s) \in activeRuns'[process'[s]]
  BY <1>1, <1>2, <1>3 DEF KeysAreHeld, TypeOK
<1>6. \A s, t \in Run : InProgress(s)' /\ InProgress(t)' /\ process'[s] = process'[t]
                          /\ Key(s) = Key(t) => s = t
  BY <1>2, <1>3 DEF KeysAreHeld
<1> QED
  BY <1>4, <1>5, <1>6 DEF KeysAreHeld

\* Anything else a run does by itself leaves the keys alone.
LEMMA MoveKeepsKeys ==
  ASSUME TypeOK, KeysAreHeld, NEW r \in Run, InProgress(r),
         NEW label \in {"loop", "tools", "last"}, Goto(r, label),
         activeRuns' = activeRuns, process' = process
  PROVE  KeysAreHeld'
<1>1. \A s \in Run : InProgress(s)' <=> InProgress(s)
  BY DEF Goto, InProgress, Ended, TypeOK
<1> QED
  BY <1>1 DEF KeysAreHeld

\* A subtask takes its key like any run, in the process of its parent.
LEMMA DelegateKeepsKeys ==
  ASSUME TypeOK, KeysAreHeld, NEW r \in Run, NEW s \in Subtask, Delegate(r, s)
  PROVE  KeysAreHeld'
<1> DEFINE free == Key(s) \notin activeRuns[process[r]]
<1>0. s \in Run /\ r # s
  BY Runs DEF Delegate
<1>1. /\ activeRuns' = [activeRuns EXCEPT ![process[r]] = @ \cup {Key(s)}]
      /\ process' = [process EXCEPT ![s] = process[r]]
      /\ pc'[r] = "delegating" /\ pc'[s] = (IF free THEN "load" ELSE "refused")
      /\ \A t \in Run \ {r, s} : pc'[t] = pc[t]
  BY <1>0 DEF Delegate, TypeOK
<1>2. \A t \in Run \ {s} : (InProgress(t)' <=> InProgress(t)) /\ process'[t] = process[t]
  BY <1>0, <1>1 DEF InProgress, Ended, TypeOK, Delegate
<1>3. ~InProgress(s) /\ (InProgress(s)' <=> free) /\ process'[s] = process[r]
  BY <1>0, <1>1 DEF Delegate, InProgress, Ended, TypeOK
<1>4. \A p \in Process : \A k \in activeRuns'[p] :
        \E t \in Run : InProgress(t)' /\ process'[t] = p /\ Key(t) = k
  <2> SUFFICES ASSUME NEW p \in Process, NEW k \in activeRuns'[p]
               PROVE  \E t \in Run : InProgress(t)' /\ process'[t] = p /\ Key(t) = k
    OBVIOUS
  <2>1. k \in activeRuns[p] \/ (p = process[r] /\ k = Key(s) /\ free)
    BY <1>1 DEF TypeOK
  <2>2. CASE k \in activeRuns[p]
    <3>1. PICK t \in Run : InProgress(t) /\ process[t] = p /\ Key(t) = k
      BY <2>2 DEF KeysAreHeld
    <3> QED
      BY <1>2, <1>3, <3>1
  <2>3. CASE p = process[r] /\ k = Key(s) /\ free
    BY <1>0, <1>3, <2>3
  <2> QED
    BY <2>1, <2>2, <2>3
<1>5. \A t \in Run : InProgress(t)' => Key(t) \in activeRuns'[process'[t]]
  <2>1. process[r] \in Process /\ \A t \in Run : process[t] \in Process
    BY DEF TypeOK
  <2> QED
    BY <1>1, <1>2, <1>3, <2>1 DEF KeysAreHeld, TypeOK
<1>6. \A t \in Run \ {s} : free /\ InProgress(t) /\ process[t] = process[r] => Key(t) # Key(s)
  BY DEF KeysAreHeld
<1>7. \A t, u \in Run : InProgress(t)' /\ InProgress(u)' /\ process'[t] = process'[u]
                          /\ Key(t) = Key(u) => t = u
  BY <1>2, <1>3, <1>6 DEF KeysAreHeld
<1> QED
  BY <1>4, <1>5, <1>7 DEF KeysAreHeld

\* A process that dies loses its runs and its keys together.
LEMMA CrashKeepsKeys ==
  ASSUME TypeOK, KeysAreHeld, NEW p \in Process, Crash(p)
  PROVE  KeysAreHeld'
<1>1. \A r \in Run : InProgress(r)' <=> InProgress(r) /\ process[r] # p
  BY DEF Crash, InProgress, Ended
<1>2. /\ process' = process /\ activeRuns'[p] = {}
      /\ \A x \in Process \ {p} : activeRuns'[x] = activeRuns[x]
  BY DEF Crash, TypeOK
<1>3. \A r \in Run : process[r] \in Process
  BY DEF TypeOK
<1> QED
  BY <1>1, <1>2, <1>3 DEF KeysAreHeld

LEMMA KeysStep ==
  ASSUME TypeOK, KeysAreHeld, DecisionsInOrder, Next
  PROVE  KeysAreHeld'
<1>1. ASSUME NEW r \in Run, Start(r) PROVE KeysAreHeld'
  BY <1>1, TakeKeepsKeys DEF Start
<1>2. ASSUME NEW r \in Run, Work(r) PROVE KeysAreHeld'
  <2>1. CASE ConfigFails(r) \/ Throw(r) \/ Return(r)
    BY <2>1, ReleaseKeepsKeys DEF ConfigFails, Throw, Return, InProgress, Ended
  <2>2. CASE Load(r) \/ Iterate(r) \/ CallTools(r) \/ Ask(r) \/ SubtaskReturns(r) \/ Finish(r)
    BY <2>2, MoveKeepsKeys DEF Load, Iterate, CallTools, Ask, MayAsk, SubtaskReturns, Finish,
       InProgress, Ended
  <2>3. CASE AskFails(r)
    BY <2>3 DEF AskFails, KeysAreHeld, InProgress
  <2>4. ASSUME NEW s \in Subtask, Delegate(r, s) PROVE KeysAreHeld'
    BY <2>4, DelegateKeepsKeys
  <2> QED
    BY <1>2, <2>1, <2>2, <2>3, <2>4 DEF Work
<1>3. ASSUME NEW d \in Decision, Decide(d) PROVE KeysAreHeld'
  <2>1. CASE Resume(d)
    BY <2>1, Runs, TakeKeepsKeys DEF Resume, DecisionsInOrder
  <2>2. CASE UNCHANGED <<activeRuns, process, pc>>
    BY <2>2 DEF KeysAreHeld, InProgress
  <2> QED
    BY <1>3, <2>1, <2>2 DEF Decide, Read, Accept, Reject, DecisionFails
<1> QED
  BY <1>1, <1>2, <1>3, CrashKeepsKeys DEF Next

-----------------------------------------------------------------------------
(***************************************************************************)
(* The questions.                                                          *)
(***************************************************************************)
\* The questions of a run are counted, and the count survives the run.
LEMMA AskedGrows ==
  ASSUME TypeOK, Next, NEW r \in Run
  PROVE  asked[r] \in Nat /\ asked'[r] \in Nat /\ asked[r] <= asked'[r]
<1>1. asked \in [Run -> Nat]
  BY AgentAssumption DEF TypeOK
<1>2. asked' = asked \/ \E t \in Run : asked' = [asked EXCEPT ![t] = @ + 1]
  <2>1. ASSUME NEW t \in Run, Start(t) \/ Work(t)
        PROVE  asked' = asked \/ asked' = [asked EXCEPT ![t] = @ + 1]
    BY <2>1 DEF Start, Work, Load, ConfigFails, Iterate, CallTools, Ask, AskFails, SubtaskReturns,
       Finish, Return, Throw, Delegate
  <2>2. ASSUME NEW d \in Decision, Decide(d) PROVE asked' = asked
    BY <2>2 DEF Decide, Read, Accept, Resume, Reject, DecisionFails
  <2> QED
    BY <2>1, <2>2 DEF Next, Crash
<1> QED
  BY <1>1, <1>2

\* What was asked remains asked.
LEMMA AskedStable ==
  ASSUME TypeOK, Next, NEW c, NEW q, AskedIn(c, q)
  PROVE  \A r \in Run, n \in 1 .. MaxQuestions : q = <<r, n>> => ConvOf[r] = c /\ n <= asked'[r]
<1> SUFFICES ASSUME NEW r \in Run, NEW n \in 1 .. MaxQuestions, q = <<r, n>>
             PROVE  ConvOf[r] = c /\ n <= asked'[r]
  OBVIOUS
<1>1. ConvOf[r] = c /\ n <= asked[r]
  BY DEF AskedIn
<1> QED
  BY <1>1, AskedGrows, AgentAssumption

\* The question a run asks is new: nobody has seen it or holds it.
LEMMA AskedAnew ==
  ASSUME TypeOK, NEW r \in Run, MayAsk(r), NEW c, NEW q, AskedIn(c, q)
  PROVE  q # <<r, asked[r] + 1>>
<1>1. asked[r] \in Nat /\ asked[r] + 1 \in 1 .. MaxQuestions /\ ~(asked[r] + 1 <= asked[r])
  BY AgentAssumption DEF TypeOK, MayAsk
<1> QED
  BY <1>1 DEF AskedIn

\* A question is one of a single conversation.
LEMMA AskedOnce ==
  ASSUME NEW c, NEW d, NEW q \in Question, AskedIn(c, q), AskedIn(d, q)
  PROVE  c = d
BY DEF AskedIn, Question

-----------------------------------------------------------------------------
(***************************************************************************)
(* The decisions.                                                          *)
(***************************************************************************)
\* A run, even one that a decision started, makes no decision and takes none back.
LEMMA WorkDecidesNothing ==
  ASSUME TypeOK, DecisionsInOrder, NEW r \in Run, Start(r) \/ Work(r), NEW d \in Decision
  PROVE  UNCHANGED handler /\ (Decided(d)' <=> Decided(d)) /\ (pc[d] = "new" => pc'[d] = "new")
<1>1. CASE Start(r)
  <2>1. r # d
    BY <1>1, AgentAssumption DEF Start
  <2> QED
    BY <1>1, <2>1, Runs DEF Start, Take, Goto, Decided, handler, TypeOK
<1>2. CASE Load(r) \/ CallTools(r) \/ SubtaskReturns(r) \/ Finish(r) \/ Ask(r) \/ AskFails(r) \/ Iterate(r)
  BY <1>2, Runs DEF Load, CallTools, SubtaskReturns, Finish, Ask, AskFails, MayAsk, Iterate, Goto,
     Decided, handler, TypeOK
<1>3. CASE ConfigFails(r) \/ Throw(r) \/ Return(r)
  BY <1>3, Runs DEF ConfigFails, Throw, Return, Release, Goto, Decided, handler, TypeOK
<1>4. ASSUME NEW s \in Subtask, Delegate(r, s)
      PROVE  UNCHANGED handler /\ (Decided(d)' <=> Decided(d)) /\ (pc[d] = "new" => pc'[d] = "new")
  <2>1. s # d
    BY AgentAssumption
  <2> QED
    BY <1>4, <2>1, Runs DEF Delegate, Decided, handler, TypeOK
<1> QED
  BY <1>1, <1>2, <1>3, <1>4 DEF Work

\* Nor does a crash.
LEMMA CrashDecidesNothing ==
  ASSUME TypeOK, DecisionsInOrder, NEW p \in Process, Crash(p), NEW d \in Decision
  PROVE  /\ seen'[d] = seen[d] /\ (Decided(d)' <=> Decided(d)) /\ (pc[d] = "new" => pc'[d] = "new")
         /\ hpc'[d] = hpc[d] \/ (hpc'[d] = "done" /\ hpc[d] # "rejected")
BY Runs DEF Crash, Decided, Deciding, InProgress, Ended, TypeOK

\* A decision lays claim to a question when it reads that the conversation waits
\* for it, and never otherwise.
LEMMA OnlyReadClaims ==
  ASSUME TypeOK, DecisionsInOrder, Next, NEW d \in Decision
  PROVE  \/ Read(d) /\ status[ConvOf[d]] = "waiting_for_approval"
         \/ seen'[d] = seen[d] /\ (Claims(d)' => Claims(d))
<1>1. ASSUME NEW r \in Run, Start(r) \/ Work(r)
      PROVE  seen'[d] = seen[d] /\ (Claims(d)' => Claims(d))
  BY <1>1, WorkDecidesNothing DEF Claims, Deciding, handler
<1>2. ASSUME NEW p \in Process, Crash(p)
      PROVE  seen'[d] = seen[d] /\ (Claims(d)' => Claims(d))
  BY <1>2, CrashDecidesNothing DEF Claims, Deciding
<1>3. ASSUME NEW e \in Decision, Decide(e)
      PROVE  \/ Read(d) /\ status[ConvOf[d]] = "waiting_for_approval"
             \/ seen'[d] = seen[d] /\ (Claims(d)' => Claims(d))
  <2>1. CASE e # d
    <3>1. seen'[d] = seen[d] /\ hpc'[d] = hpc[d] /\ pc'[d] = pc[d]
      BY <1>3, <2>1, Runs DEF Decide, Read, Accept, Resume, Take, Goto, Reject, DecisionFails, TypeOK
    <3> QED
      BY <3>1 DEF Claims, Decided, Deciding
  <2>2. CASE e = d
    <3>1. CASE Read(d)
      BY <3>1 DEF Read, Claims, Decided, Deciding, DecisionsInOrder, TypeOK
    <3>2. CASE Accept(d) \/ Resume(d) \/ Reject(d) \/ DecisionFails(d)
      BY <3>2 DEF Accept, Resume, Reject, DecisionFails, Claims, Deciding
    <3> QED
      BY <1>3, <2>2, <3>1, <3>2 DEF Decide
  <2> QED
    BY <2>1, <2>2
<1> QED
  BY <1>1, <1>2, <1>3 DEF Next

\* The question goes from a decision that claims it to one that has it.
LEMMA OnlyClaimsSpend ==
  ASSUME TypeOK, DecisionsInOrder, Next, NEW d \in Decision, Spent(d)'
  PROVE  Spent(d) \/ Accept(d) \/ Reject(d)
<1>1. ASSUME NEW r \in Run, Start(r) \/ Work(r) PROVE Spent(d)
  BY <1>1, WorkDecidesNothing DEF Spent, handler
<1>2. ASSUME NEW p \in Process, Crash(p) PROVE Spent(d)
  BY <1>2, CrashDecidesNothing DEF Spent
<1>3. ASSUME NEW e \in Decision, Decide(e) PROVE Spent(d) \/ Accept(d) \/ Reject(d)
  BY <1>3, Runs DEF Decide, Read, Accept, Resume, Take, Goto, Reject, DecisionFails, Spent, Decided,
     TypeOK
<1> QED
  BY <1>1, <1>2, <1>3 DEF Next

\* The handler of a decision and the run it starts go together, and what it has
\* seen was asked in its conversation.
LEMMA DecisionsStep ==
  ASSUME TypeOK, DecisionsInOrder, QuestionsOpen, Next
  PROVE  DecisionsInOrder'
<1> SUFFICES ASSUME NEW d \in Decision
             PROVE  /\ hpc'[d] # "done" => pc'[d] = "new"
                    /\ Claims(d)' => seen'[d] # NoQuestion
                    /\ AskedIn(ConvOf[d], seen[d])'
  BY DEF DecisionsInOrder
<1>1. hpc'[d] # "done" => pc'[d] = "new"
  <2>1. ASSUME NEW r \in Run, Start(r) \/ Work(r) PROVE hpc'[d] # "done" => pc'[d] = "new"
    BY <2>1, WorkDecidesNothing DEF handler, DecisionsInOrder
  <2>2. ASSUME NEW p \in Process, Crash(p) PROVE hpc'[d] # "done" => pc'[d] = "new"
    BY <2>2, CrashDecidesNothing DEF DecisionsInOrder
  <2>3. ASSUME NEW e \in Decision, Decide(e) PROVE hpc'[d] # "done" => pc'[d] = "new"
    BY <2>3, Runs DEF Decide, Read, Accept, Resume, Take, Goto, Reject, DecisionFails,
       DecisionsInOrder, TypeOK
  <2> QED
    BY <2>1, <2>2, <2>3 DEF Next
<1>2. ConvOf[d] \in Conversation
  BY AgentAssumption
<1>3. CASE Read(d) /\ status[ConvOf[d]] = "waiting_for_approval"
  <2>1. seen'[d] = payload[ConvOf[d]]
    BY <1>3 DEF Read, TypeOK
  <2>2. payload[ConvOf[d]] # NoQuestion /\ AskedIn(ConvOf[d], payload[ConvOf[d]])
    BY <1>2, <1>3 DEF QuestionsOpen
  <2>3. AskedIn(ConvOf[d], seen[d])'
    BY <2>1, <2>2, AskedStable DEF AskedIn
  <2> QED
    BY <1>1, <2>1, <2>2, <2>3
<1>4. CASE seen'[d] = seen[d] /\ (Claims(d)' => Claims(d))
  <2>1. AskedIn(ConvOf[d], seen[d]) /\ (Claims(d)' => seen[d] # NoQuestion)
    BY <1>4 DEF DecisionsInOrder
  <2>2. AskedIn(ConvOf[d], seen[d])'
    BY <1>4, <2>1, AskedStable DEF AskedIn
  <2> QED
    BY <1>1, <1>4, <2>1, <2>2
<1> QED
  BY <1>3, <1>4, OnlyReadClaims

\* A question that is not the empty one is a question.
LEMMA SeenQuestions ==
  ASSUME TypeOK
  PROVE  /\ \A d \in Decision : seen[d] # NoQuestion => seen[d] \in Question
         /\ \A c \in Conversation : payload[c] # NoQuestion => payload[c] \in Question
BY DEF TypeOK

\* When one decision reads, no other claims the question it finds.
LEMMA ReadAlone ==
  ASSUME ~Concurrent, TypeOK, DecisionsInOrder, QuestionsOpen,
         NEW d \in Decision, Read(d), status[ConvOf[d]] = "waiting_for_approval",
         NEW e \in Decision, Claims(e)
  PROVE  seen[e] # payload[ConvOf[d]]
<1>1. ConvOf[d] \in Conversation /\ ConvOf[e] \in Conversation
  BY AgentAssumption
<1>2. CASE Decided(e)
  BY <1>1, <1>2 DEF QuestionsOpen, Spent
<1>3. CASE Deciding(e)
  <2>1. ConvOf[e] # ConvOf[d]
    BY <1>3 DEF Read
  <2>2. /\ AskedIn(ConvOf[e], seen[e]) /\ AskedIn(ConvOf[d], payload[ConvOf[d]])
        /\ payload[ConvOf[d]] # NoQuestion
    BY <1>1 DEF DecisionsInOrder, QuestionsOpen
  <2>3. payload[ConvOf[d]] \in Question
    BY <1>1, <2>2, SeenQuestions
  <2> QED
    BY <2>1, <2>2, <2>3, AskedOnce
<1> QED
  BY <1>2, <1>3 DEF Claims

LEMMA ClaimsStep ==
  ASSUME ~Concurrent, TypeOK, DecisionsInOrder, ClaimsApart, QuestionsOpen, Next
  PROVE  ClaimsApart'
<1> SUFFICES ASSUME NEW d \in Decision, NEW e \in Decision, d # e,
                    Claims(d)', Claims(e)', seen'[d] = seen'[e]
             PROVE  FALSE
  BY DEF ClaimsApart
<1>1. ASSUME NEW x \in Decision, NEW y \in Decision, x # y, Claims(y)', seen'[x] = seen'[y],
             Read(x), status[ConvOf[x]] = "waiting_for_approval"
      PROVE  FALSE
  <2>1. seen'[x] = payload[ConvOf[x]] /\ seen'[y] = seen[y] /\ hpc'[y] = hpc[y] /\ pc' = pc
    BY <1>1 DEF Read, TypeOK
  <2>2. Claims(y)
    BY <1>1, <2>1 DEF Claims, Decided, Deciding
  <2> QED
    BY <1>1, <2>1, <2>2, ReadAlone
<1>2. seen'[d] = seen[d] /\ Claims(d)
  BY <1>1, OnlyReadClaims
<1>3. seen'[e] = seen[e] /\ Claims(e)
  BY <1>1, OnlyReadClaims
<1> QED
  BY <1>2, <1>3 DEF ClaimsApart

-----------------------------------------------------------------------------
(***************************************************************************)
(* What a conversation waits for.                                          *)
(***************************************************************************)
\* The question of a conversation is the one it had, none, or one a run asks.
LEMMA OnlyAskWaits ==
  ASSUME TypeOK, Next, NEW c \in Conversation
  PROVE  \/ payload'[c] = payload[c] /\ (status'[c] = "waiting_for_approval"
                                           => status[c] = "waiting_for_approval")
         \/ payload'[c] = NoQuestion /\ status'[c] # "waiting_for_approval"
         \/ \E r \in Run : Work(r) /\ MayAsk(r) /\ ConvOf[r] = c
                             /\ payload'[c] = <<r, asked[r] + 1>>
                             /\ asked' = [asked EXCEPT ![r] = @ + 1]
<1> DEFINE same == payload'[c] = payload[c] /\ (status'[c] = "waiting_for_approval"
                                                  => status[c] = "waiting_for_approval")
<1> USE DEF conversations
<1>0. \A r \in Run : Conv(r) \in Conversation \cup Run
  BY Runs
<1>1. ASSUME NEW r \in Run, Start(r) \/ Work(r), ~(Ask(r) \/ AskFails(r)) PROVE same
  <2>1. payload' = payload
    BY <1>1 DEF Start, Work, Load, ConfigFails, Iterate, CallTools, SubtaskReturns, Finish, Return,
       Throw, Delegate
  <2>2. \/ status' = status
        \/ \E x \in Conversation \cup Run : \E s \in {"in_progress", "failed", "completed"} :
             SetStatus(x, s)
    BY <1>0, <1>1 DEF Start, Work, Load, ConfigFails, Iterate, CallTools, SubtaskReturns, Finish,
       Return, Throw, Delegate, Created
  <2> QED
    BY <2>1, <2>2 DEF SetStatus, TypeOK
<1>2. ASSUME NEW r \in Run, Ask(r) \/ AskFails(r)
      PROVE  \/ same
             \/ /\ Work(r) /\ MayAsk(r) /\ ConvOf[r] = c
                /\ payload'[c] = <<r, asked[r] + 1>>
                /\ asked' = [asked EXCEPT ![r] = @ + 1]
  <2>1. CASE UNCHANGED conversations
    BY <2>1
  <2>2. CASE AskFor(r)
    <3>1. CASE ConvOf[r] = c
      <4>1. payload'[c] = <<r, asked[r] + 1>>
        BY <2>2, <3>1 DEF AskFor, TypeOK
      <4>2. MayAsk(r) /\ asked' = [asked EXCEPT ![r] = @ + 1] /\ Work(r)
        BY <1>2 DEF Ask, AskFails, Work
      <4> QED
        BY <3>1, <4>1, <4>2
    <3>2. CASE ConvOf[r] # c
      <4>1. payload'[c] = payload[c] /\ status'[c] = status[c]
        BY <2>2, <3>2 DEF AskFor, SetStatus, TypeOK
      <4> QED
        BY <4>1
    <3> QED
      BY <3>1, <3>2
  <2> QED
    BY <1>2, <2>1, <2>2 DEF Ask, AskFails
<1>3. ASSUME NEW d \in Decision, Decide(d)
      PROVE  same \/ (payload'[c] = NoQuestion /\ status'[c] # "waiting_for_approval")
  <2>1. CASE UNCHANGED conversations
    BY <2>1
  <2>2. CASE Reject(d)
    BY <2>2 DEF Reject, SetStatus, TypeOK
  <2>3. CASE ClearApprovalState(ConvOf[d])
    BY <2>3 DEF ClearApprovalState, SetStatus, TypeOK
  <2> QED
    BY <1>3, <2>1, <2>2, <2>3 DEF Decide, Read, Accept, Resume, DecisionFails
<1>4. ASSUME NEW p \in Process, Crash(p) PROVE same
  BY <1>4 DEF Crash
<1> QED
  BY <1>1, <1>2, <1>3, <1>4 DEF Next

LEMMA QuestionsStep ==
  ASSUME TypeOK, DecisionsInOrder, QuestionsOpen, Next
  PROVE  QuestionsOpen'
<1> SUFFICES ASSUME NEW c \in Conversation
             PROVE  /\ AskedIn(c, payload[c])'
                    /\ status'[c] = "waiting_for_approval" =>
                         /\ payload'[c] # NoQuestion
                         /\ \A d \in Decision : Spent(d)' => seen'[d] # payload'[c]
  BY DEF QuestionsOpen
<1>1. CASE payload'[c] = payload[c] /\ (status'[c] = "waiting_for_approval"
                                          => status[c] = "waiting_for_approval")
  <2>1. AskedIn(c, payload[c])'
    <3>1. AskedIn(c, payload[c])
      BY DEF QuestionsOpen
    <3> QED
      BY <1>1, <3>1, AskedStable DEF AskedIn
  <2>2. ASSUME status'[c] = "waiting_for_approval", NEW d \in Decision, Spent(d)'
        PROVE  seen'[d] # payload'[c]
    <3>1. payload[c] # NoQuestion /\ AskedIn(c, payload[c]) /\ AskedIn(ConvOf[d], seen[d])
      BY <1>1, <2>2 DEF QuestionsOpen, DecisionsInOrder
    <3>2. CASE Spent(d)
      <4>1. seen'[d] = seen[d]
        BY <3>2, OnlyReadClaims DEF Read, Spent, Decided, DecisionsInOrder
      <4> QED
        BY <1>1, <2>2, <3>2, <4>1 DEF QuestionsOpen
    <3>3. CASE Accept(d) \/ Reject(d)
      <4>1. ConvOf[d] # c /\ seen' = seen
        BY <2>2, <3>3, AgentAssumption
           DEF Accept, Reject, ClearApprovalState, SetStatus, TypeOK
      <4> QED
        BY <1>1, <3>1, <4>1, SeenQuestions, AskedOnce
    <3> QED
      BY <2>2, <3>2, <3>3, OnlyClaimsSpend
  <2> QED
    BY <1>1, <2>1, <2>2 DEF QuestionsOpen
<1>2. CASE payload'[c] = NoQuestion /\ status'[c] # "waiting_for_approval"
  BY <1>2, QuestionAssumption DEF AskedIn, Question
<1>3. ASSUME NEW r \in Run, Work(r), MayAsk(r), ConvOf[r] = c,
             payload'[c] = <<r, asked[r] + 1>>, asked' = [asked EXCEPT ![r] = @ + 1]
      PROVE  /\ AskedIn(c, payload[c])'
             /\ payload'[c] # NoQuestion
             /\ \A d \in Decision : Spent(d)' => seen'[d] # payload'[c]
  <2>1. asked[r] + 1 \in 1 .. MaxQuestions
    BY <1>3, AgentAssumption DEF MayAsk, TypeOK
  <2>2. asked'[r] = asked[r] + 1
    BY <1>3 DEF TypeOK
  <2>3. AskedIn(c, payload[c])'
    BY <1>3, <2>1, <2>2 DEF AskedIn
  <2>4. payload'[c] # NoQuestion
    BY <1>3, <2>1, QuestionAssumption DEF Question
  <2>5. ASSUME NEW d \in Decision PROVE seen'[d] # payload'[c]
    <3>1. seen'[d] = seen[d]
      BY <1>3, WorkDecidesNothing DEF handler
    <3>2. AskedIn(ConvOf[d], seen[d])
      BY DEF DecisionsInOrder
    <3> QED
      BY <1>3, <3>1, <3>2, AskedAnew
  <2> QED
    BY <2>3, <2>4, <2>5
<1> QED
  BY <1>1, <1>2, <1>3, OnlyAskWaits

-----------------------------------------------------------------------------
\* If the decisions on a conversation come one at a time, the inductive
\* invariant holds.
THEOREM InvariantHolds == ASSUME ~Concurrent PROVE Spec => []IInv
<1>1. Init => IInv
  BY QuestionAssumption, AgentAssumption, Runs
     DEF Init, IInv, TypeOK, Ended, KeysAreHeld, InProgress, DecisionsInOrder, ClaimsApart, Claims,
         Decided, Deciding, AskedIn, Question, QuestionsOpen
<1>2. IInv /\ Next => IInv'
  <2>1. TypeOK /\ Next => TypeOK'
    BY WorkTypes, DecideTypes, CrashTypes DEF Next
  <2> QED
    BY <2>1, KeysStep, DecisionsStep, ClaimsStep, QuestionsStep DEF IInv
<1>3. IInv /\ UNCHANGED vars => IInv'
  BY DEF vars, IInv, TypeOK, KeysAreHeld, InProgress, DecisionsInOrder, ClaimsApart, Claims, Decided,
     Deciding, AskedIn, QuestionsOpen, Spent
<1> QED
  BY <1>1, <1>2, <1>3, PTL DEF Spec

\* Under that condition no question is decided twice, whatever other runs do to
\* the conversation, whatever fails and whichever process is asked.
THEOREM DecidedOnce == ASSUME ~Concurrent PROVE Spec => []DecisionIsFinal
<1>1. IInv => DecisionIsFinal
  BY DEF IInv, ClaimsApart, Claims, DecisionIsFinal
<1> QED
  BY <1>1, InvariantHolds, PTL

\* Under that condition no conversation waits for a decision that was made.
THEOREM OpenQuestions == ASSUME ~Concurrent PROVE Spec => []WaitingIsOpen
<1>1. IInv => WaitingIsOpen
  BY DEF IInv, QuestionsOpen, Spent, WaitingIsOpen
<1> QED
  BY <1>1, InvariantHolds, PTL

\* However the decisions come, each key in activeRuns is that of one run in
\* progress, and each run in progress has its key.
THEOREM KeysHeld == Spec => []KeysAreHeld
<1> DEFINE J == TypeOK /\ KeysAreHeld /\ DecisionsInOrder /\ QuestionsOpen
<1>1. Init => J
  BY QuestionAssumption, AgentAssumption, Runs
     DEF Init, TypeOK, Ended, KeysAreHeld, InProgress, DecisionsInOrder, Claims,
         Decided, Deciding, AskedIn, Question, QuestionsOpen
<1>2. J /\ Next => J'
  <2>1. TypeOK /\ Next => TypeOK'
    BY WorkTypes, DecideTypes, CrashTypes DEF Next
  <2> QED
    BY <2>1, KeysStep, DecisionsStep, QuestionsStep
<1>3. J /\ UNCHANGED vars => J'
  BY DEF vars, TypeOK, KeysAreHeld, InProgress, DecisionsInOrder, Claims, Decided,
     Deciding, AskedIn, QuestionsOpen, Spent
<1>4. J => KeysAreHeld
  OBVIOUS
<1> QED
  BY <1>1, <1>2, <1>3, <1>4, PTL DEF Spec

-----------------------------------------------------------------------------
(***************************************************************************)
(* The delegations.                                                        *)
(***************************************************************************)
\* A step that starts no subtask, and wakes a caller only when its subtask has
\* ended, keeps the delegations nested.
LEMMA QuietKeepsNest ==
  ASSUME DelegationsNest, UNCHANGED <<process, depth, parent>>,
         \A s \in Subtask : InProgress(s)' => InProgress(s),
         \A r \in Run : pc[r] = "delegating" =>
           pc'[r] = "delegating" \/ \A s \in Subtask : ~Awaited(r, s)',
         parent \in [Subtask -> Run]
  PROVE  DelegationsNest'
<1>1. ASSUME NEW s \in Subtask, InProgress(s)'
      PROVE  /\ pc'[parent[s]] = "delegating" /\ process[s] = process[parent[s]]
             /\ depth[s] = depth[parent[s]] + 1 /\ AgentOf[s] # AgentOf[parent[s]]
  <2>1. /\ parent[s] \in Run /\ pc[parent[s]] = "delegating"
        /\ process[s] = process[parent[s]] /\ depth[s] = depth[parent[s]] + 1
        /\ AgentOf[s] # AgentOf[parent[s]]
    BY <1>1 DEF DelegationsNest
  <2>2. Awaited(parent[s], s)'
    BY <1>1, <2>1 DEF Awaited
  <2> QED
    BY <2>1, <2>2
<1>2. ASSUME NEW r \in Run, NEW s \in Subtask, Awaited(r, s)'
      PROVE  Awaited(r, s)
  BY <1>2 DEF Awaited
<1> QED
  BY <1>1, <1>2 DEF DelegationsNest

\* A delegation nests in that of its caller.
LEMMA DelegateNests ==
  ASSUME TypeOK, DelegationsNest, NEW r \in Run, NEW s \in Subtask, Delegate(r, s)
  PROVE  DelegationsNest'
<1>1. /\ s \in Run /\ r # s /\ pc[r] = "tools" /\ pc[s] = "new"
      /\ AgentOf[s] # AgentOf[r]
  BY Runs DEF Delegate
<1>2. /\ process'[s] = process[r] /\ parent'[s] = r /\ depth'[s] = depth[r] + 1
      /\ pc'[r] = "delegating"
      /\ \A t \in Run \ {s} : process'[t] = process[t] /\ depth'[t] = depth[t]
      /\ \A t \in Subtask \ {s} : parent'[t] = parent[t] /\ parent[t] \in Run
      /\ \A t \in Run \ {r, s} : pc'[t] = pc[t]
  BY <1>1 DEF Delegate, TypeOK
<1>3. ~InProgress(s) /\ InProgress(r) /\ \A t \in Run \ {s} : InProgress(t)' <=> InProgress(t)
  BY <1>1, <1>2 DEF InProgress, Ended
<1>4. \A t \in Subtask : ~Awaited(r, t) /\ ~Awaited(s, t)
  BY <1>1 DEF Awaited, DelegationsNest
<1>5. ASSUME NEW t \in Subtask \ {s}, InProgress(t)'
      PROVE  /\ parent[t] \in Run \ {r, s} /\ parent'[t] = parent[t] /\ Awaited(parent[t], t)
             /\ t \in Run
  BY <1>2, <1>3, <1>4, <1>5, Runs DEF Awaited
<1>6. ASSUME NEW t \in Subtask, InProgress(t)'
      PROVE  /\ pc'[parent'[t]] = "delegating" /\ process'[t] = process'[parent'[t]]
             /\ depth'[t] = depth'[parent'[t]] + 1 /\ AgentOf[t] # AgentOf[parent'[t]]
  <2>1. CASE t = s
    BY <1>1, <1>2, <2>1
  <2>2. CASE t # s
    <3>1. /\ parent[t] \in Run \ {r, s} /\ parent'[t] = parent[t] /\ InProgress(t)
          /\ t \in Run \ {s}
      BY <1>5, <1>6, <2>2 DEF Awaited
    <3>2. /\ pc[parent[t]] = "delegating" /\ process[t] = process[parent[t]]
          /\ depth[t] = depth[parent[t]] + 1 /\ AgentOf[t] # AgentOf[parent[t]]
      BY <3>1 DEF DelegationsNest
    <3> QED
      BY <1>2, <3>1, <3>2
  <2> QED
    BY <2>1, <2>2
<1>7. ASSUME NEW c \in Run, NEW t \in Subtask, NEW u \in Subtask,
             Awaited(c, t)', Awaited(c, u)'
      PROVE  t = u
  <2>1. CASE t # s /\ u # s
    <3>1. Awaited(c, t) /\ Awaited(c, u)
      BY <1>5, <1>7, <2>1 DEF Awaited
    <3> QED
      BY <3>1 DEF DelegationsNest
  <2>2. CASE t = s \/ u = s
    BY <1>2, <1>5, <1>7, <2>2 DEF Awaited
  <2> QED
    BY <2>1, <2>2
<1> QED
  BY <1>6, <1>7 DEF DelegationsNest

\* Every step keeps the delegations nested.
LEMMA NestStep ==
  ASSUME TypeOK, DecisionsInOrder, DelegationsNest, Next
  PROVE  DelegationsNest'
<1>0. parent \in [Subtask -> Run]
  BY DEF TypeOK
<1>1. ASSUME NEW r \in Run, pc[r] # "delegating", r \notin Subtask \/ InProgress(r),
             UNCHANGED <<process, depth, parent>>,
             \A t \in Run \ {r} : pc'[t] = pc[t]
      PROVE  DelegationsNest'
  <2>1. \A s \in Subtask : InProgress(s)' => InProgress(s)
    BY <1>1, Runs DEF InProgress
  <2> QED
    BY <1>0, <1>1, <2>1, QuietKeepsNest
<1>2. ASSUME NEW r \in Run, Start(r) PROVE DelegationsNest'
  <2>1. pc[r] = "new" /\ r \notin Subtask
    BY <1>2, AgentAssumption DEF Start
  <2>2. UNCHANGED <<process, depth, parent>> /\ \A t \in Run \ {r} : pc'[t] = pc[t]
    BY <1>2 DEF Start, Take, Goto, TypeOK
  <2> QED
    BY <1>1, <2>1, <2>2
<1>3. ASSUME NEW r \in Run, Work(r) PROVE DelegationsNest'
  <2>1. CASE \/ Load(r) \/ ConfigFails(r) \/ Iterate(r) \/ CallTools(r)
             \/ Ask(r) \/ AskFails(r) \/ Finish(r) \/ Return(r) \/ Throw(r)
    <3>1. pc[r] \in {"load", "loop", "tools", "last"}
      BY <2>1 DEF Load, ConfigFails, Iterate, CallTools, Ask, AskFails, MayAsk, Finish, Return, Throw
    <3>2. UNCHANGED <<process, depth, parent>> /\ \A t \in Run \ {r} : pc'[t] = pc[t]
      BY <2>1 DEF Load, ConfigFails, Iterate, CallTools, Ask, AskFails, Finish, Return, Throw,
         Goto, Release, TypeOK
    <3> QED
      BY <1>1, <3>1, <3>2 DEF InProgress, Ended
  <2>2. CASE SubtaskReturns(r)
    <3>1. /\ UNCHANGED <<process, depth, parent>> /\ \A t \in Run \ {r} : pc'[t] = pc[t]
          /\ InProgress(r) /\ \A s \in Subtask : parent[s] = r => ~InProgress(s)
      BY <2>2 DEF SubtaskReturns, Goto, TypeOK, InProgress, Ended
    <3>2. \A s \in Subtask : InProgress(s)' => InProgress(s)
      BY <3>1, Runs DEF InProgress
    <3>3. \A s \in Subtask : ~Awaited(r, s)'
      BY <3>1, <3>2 DEF Awaited
    <3> QED
      BY <1>0, <3>1, <3>2, <3>3, QuietKeepsNest
  <2>3. ASSUME NEW s \in Subtask, Delegate(r, s) PROVE DelegationsNest'
    BY <2>3, DelegateNests
  <2> QED
    BY <1>3, <2>1, <2>2, <2>3 DEF Work
<1>4. ASSUME NEW d \in Decision, Decide(d) PROVE DelegationsNest'
  <2>1. CASE Resume(d)
    <3>1. pc[d] = "new" /\ d \in Run /\ d \notin Subtask
      BY <2>1, AgentAssumption, Runs DEF Resume, DecisionsInOrder
    <3>2. UNCHANGED <<process, depth, parent>> /\ \A t \in Run \ {d} : pc'[t] = pc[t]
      BY <2>1 DEF Resume, Take, Goto, TypeOK
    <3> QED
      BY <1>1, <3>1, <3>2
  <2>2. CASE UNCHANGED <<process, depth, parent, pc>>
    BY <2>2 DEF DelegationsNest, Awaited, InProgress
  <2> QED
    BY <1>4, <2>1, <2>2 DEF Decide, Read, Accept, Reject, DecisionFails
<1>5. ASSUME NEW p \in Process, Crash(p) PROVE DelegationsNest'
  <2>1. /\ UNCHANGED <<process, depth, parent>>
        /\ \A r \in Run : InProgress(r)' <=> InProgress(r) /\ process[r] # p
        /\ \A r \in Run : process[r] # p => pc'[r] = pc[r]
    BY <1>5 DEF Crash, InProgress, Ended
  <2>2. ASSUME NEW r \in Run, pc'[r] # "delegating", pc[r] = "delegating",
               NEW s \in Subtask, Awaited(r, s)'
        PROVE  FALSE
    <3>1. process[r] = p /\ Awaited(r, s) /\ process[s] # p
      BY <2>1, <2>2, Runs DEF Awaited
    <3> QED
      BY <3>1 DEF Awaited, DelegationsNest
  <2>3. \A s \in Subtask : InProgress(s)' => InProgress(s)
    BY <2>1, Runs
  <2> QED
    BY <1>0, <2>1, <2>2, <2>3, QuietKeepsNest
<1> QED
  BY <1>2, <1>3, <1>4, <1>5 DEF Next

\* However runs delegate, throw and crash, a subtask in progress is one its
\* caller waits for, one level down and in the same process.
THEOREM DelegationsHold == Spec => []DelegationsNest
<1> DEFINE J == TypeOK /\ DecisionsInOrder /\ QuestionsOpen /\ DelegationsNest
<1>1. Init => J
  BY QuestionAssumption, AgentAssumption, Runs
     DEF Init, TypeOK, Ended, InProgress, DecisionsInOrder, Claims,
         Decided, Deciding, AskedIn, Question, QuestionsOpen, DelegationsNest, Awaited
<1>2. J /\ Next => J'
  <2>1. TypeOK /\ Next => TypeOK'
    BY WorkTypes, DecideTypes, CrashTypes DEF Next
  <2> QED
    BY <2>1, DecisionsStep, QuestionsStep, NestStep
<1>3. J /\ UNCHANGED vars => J'
  BY DEF vars, TypeOK, InProgress, DecisionsInOrder, Claims, Decided,
     Deciding, AskedIn, QuestionsOpen, Spent, DelegationsNest, Awaited
<1>4. J => DelegationsNest
  OBVIOUS
<1> QED
  BY <1>1, <1>2, <1>3, <1>4, PTL DEF Spec

\* Of the runs in progress in a process, the deepest one waits for nobody.
LEMMA DeepestWorks ==
  ASSUME TypeOK, DelegationsNest PROVE SomebodyWorks
<1> SUFFICES ASSUME NEW r \in Run, InProgress(r)
             PROVE  \E t \in Run : /\ InProgress(t) /\ process[t] = process[r]
                                   /\ \A s \in Subtask : ~Awaited(t, s)
  BY DEF SomebodyWorks
<1> DEFINE here == {t \in Run : InProgress(t) /\ process[t] = process[r]}
           room == {MaxDelegationDepth - depth[t] : t \in here}
           less == OpToRel(<, Nat)
<1>1. \A t \in Run : depth[t] \in 0 .. MaxDelegationDepth
  BY DEF TypeOK
<1>2. room \subseteq Nat /\ room # {}
  BY <1>1, AgentAssumption
<1>3. PICK n \in room : \A m \in room : ~(<<m, n>> \in less)
  <2> HIDE DEF room, less
  <2>1. IsWellFoundedOn(less, Nat)
    BY NatLessThanWellFounded DEF less
  <2> QED
    BY <1>2, <2>1, WFMin
<1>4. \A m \in room : ~(m < n)
  BY <1>2, <1>3 DEF OpToRel
<1>5. PICK t \in here : n = MaxDelegationDepth - depth[t]
  BY <1>3
<1>6. ASSUME NEW s \in Subtask, Awaited(t, s) PROVE FALSE
  <2>1. s \in here /\ depth[s] = depth[t] + 1
    BY <1>6, Runs DEF Awaited, DelegationsNest
  <2>2. MaxDelegationDepth - depth[s] \in room
    BY <2>1
  <2>3. MaxDelegationDepth - depth[s] < n
    BY <1>1, <1>5, <2>1, AgentAssumption
  <2> QED
    BY <1>4, <2>2, <2>3
<1> QED
  BY <1>5, <1>6

\* Runs never all wait for each other: while one is in progress, some run in the
\* same process waits for nobody.
THEOREM NoCircularWait == Spec => []SomebodyWorks
<1>1. TypeOK /\ DelegationsNest => SomebodyWorks
  BY DeepestWorks
<1> QED
  BY <1>1, TypeCorrect, DelegationsHold, PTL

=============================================================================
