----------------------------- MODULE MCAgentRuns -----------------------------
(***************************************************************************)
(* Two processes and two agents.  A scenario says who is there and how     *)
(* often a process may die or a question fail: a request and two           *)
(* decisions, or two requests and a decision, about one conversation, from *)
(* two processes; or a request that continues a conversation, another that *)
(* starts one, and the subtasks they hand to other agents; or one request  *)
(* and subtasks enough to reach the limit of the delegation.               *)
(***************************************************************************)
EXTENDS AgentRuns

CONSTANTS p1, p2, a1, a2, c1, q1, q2, q3, d1, d2, s1, s2, s3

VARIABLES present, crashes, failures

budget == <<present, crashes, failures>>

MCAgentOf == [r \in Run |-> IF r \in {q3, s1, s3} THEN a2 ELSE a1]
MCConvOf == [r \in Run |-> IF r \in {q1, q2, d1, d2} THEN c1 ELSE NoConv]

MCInit ==
  /\ Init
  /\ \/ present = {q1, d1, d2} /\ crashes = 1 /\ failures = 2
     \/ present = {q1, q2, d1} /\ crashes = 1 /\ failures = 1
     \/ present = {q1, q3, s1, s2} /\ crashes = 1 /\ failures = 1
     \/ present = {q1, s1, s2, s3} /\ crashes = 0 /\ failures = 1
  /\ parent = [s \in Subtask |-> q1]
  /\ process = [r \in Run |-> IF r \in {q2, d2} THEN p2 ELSE p1]

\* Who is absent does not start.
MCWork(r) ==
  /\ r \in present /\ Work(r)
  /\ \A s \in Subtask \ present : pc'[s] = "new"
  /\ IF asked' # asked /\ pc' = pc
       THEN failures > 0 /\ failures' = failures - 1
       ELSE UNCHANGED failures
  /\ UNCHANGED <<present, crashes>>

MCNext ==
  \/ \E r \in Run : MCWork(r)
  \/ /\ \/ \E r \in Run \cap present : Start(r)
        \/ \E d \in Decision \cap present : Decide(d)
     /\ UNCHANGED budget
  \/ \E p \in Process : /\ Crash(p) /\ crashes > 0 /\ crashes' = crashes - 1
                        /\ UNCHANGED <<present, failures>>

MCSpec == MCInit /\ [][MCNext]_<<vars, budget>>
MCFairSpec == MCSpec /\ \A r \in Run : WF_<<vars, budget>>(MCWork(r))

=============================================================================
