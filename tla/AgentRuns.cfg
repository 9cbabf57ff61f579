SPECIFICATION MCFairSpec
CONSTANTS
  p1 = p1 p2 = p2 a1 = a1 a2 = a2 c1 = c1
  q1 = q1 q2 = q2 q3 = q3 d1 = d1 d2 = d2 s1 = s1 s2 = s2 s3 = s3
  Process = {p1, p2}
  Agent = {a1, a2}
  Conversation = {c1}
  Request = {q1, q2, q3}
  Decision = {d1, d2}
  Subtask = {s1, s2, s3}
  AgentOf <- MCAgentOf
  ConvOf <- MCConvOf
  NoConv = NoConv
  NoQuestion = NoQuestion
  MaxIterations = 2
  MaxQuestions = 2
  MaxDelegationDepth = 2
  Concurrent = FALSE
INVARIANTS TypeOK KeysAreHeld DecisionIsFinal WaitingIsOpen DelegationsNest IInv
PROPERTY EventuallyFree
CHECK_DEADLOCK FALSE
