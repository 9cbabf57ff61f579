-------------------------- MODULE TableUpdate_proofs -------------------------
(***************************************************************************)
(* Proofs about requests that change a table, for every set of requests    *)
(* and every number of retries.                                            *)
(***************************************************************************)
EXTENDS TableUpdate, TLAPS

-----------------------------------------------------------------------------
(***************************************************************************)
(* What the operators of a step do.                                        *)
(***************************************************************************)
\* The operations of two requests, or of the two tables of one, are apart.
LEMMA OperationsApart ==
  ASSUME NEW r \in Request, NEW s \in Request
  PROVE  /\ Host(r) \in Change /\ Foreign(r) \in Change
         /\ Host(r) # Foreign(s)
         /\ r # s => Host(r) # Host(s)
BY DEF Host, Foreign, Change, Part

\* An upsert sets the status of one operation.
LEMMA UpsertEffect ==
  ASSUME NEW o \in [Change -> Op], NEW c \in Change, NEW s \in {"pending", "error", "ready"}
  PROVE  /\ Upsert(o, c, s) \in [Change -> Op]
         /\ Upsert(o, c, s)[c].status = s
         /\ \A d \in Change \ {c} : Upsert(o, c, s)[d] = o[d]
BY DEF Upsert, Op, Status

\* A request that stores its outcome changes the status of its own operation.
LEMMA HostUpsert ==
  ASSUME TypeOK, NEW s \in Request, NEW status \in {"pending", "error", "ready"},
         ops' = Upsert(ops, Host(s), status)
  PROVE  /\ ops' \in [Change -> Op]
         /\ ops'[Host(s)].status = status
         /\ \A r \in Request \ {s} : ops'[Host(r)] = ops[Host(r)]
<1>1. ops \in [Change -> Op] /\ Host(s) \in Change
  BY OperationsApart DEF TypeOK
<1>2. \A r \in Request \ {s} : Host(r) \in Change \ {Host(s)}
  BY OperationsApart
<1> QED
  BY <1>1, <1>2, UpsertEffect

\* Committed metadata leave the operations of the requests themselves alone.
LEMMA MetadataEffect ==
  ASSUME TypeOK, NEW s \in Request, Metadata(s)
  PROVE  /\ ops' \in [Change -> Op]
         /\ metadata' = [metadata EXCEPT ![s] = @ \cup metaTx[s]]
         /\ \A r \in Request : ops'[Host(r)] = ops[Host(r)]
<1>1. ops \in [Change -> Op] /\ Foreign(s) \in Change
  BY OperationsApart DEF TypeOK
<1>2. \A r \in Request : Host(r) \in Change \ {Foreign(s)}
  BY OperationsApart
<1> QED
  BY <1>1, <1>2, UpsertEffect DEF Metadata

-----------------------------------------------------------------------------
(***************************************************************************)
(* Type correctness.                                                       *)
(***************************************************************************)
\* Rolling a transaction back keeps the types of what it changes.
LEMMA AbortTypes ==
  ASSUME TypeOK, NEW s \in Request, NEW x \in BOOLEAN
  PROVE  /\ MetaAborts(s, x) =>
              /\ pc' \in [Request -> Label]
              /\ metaTx' \in [Request -> SUBSET Part] /\ dataTx' \in [Request -> SUBSET Part]
              /\ metaTries' \in [Request -> 0 .. MaxRetries]
              /\ dataTries' \in [Request -> 0 .. MaxRetries]
              /\ retryable' \in [Request -> BOOLEAN] /\ deferred' \in [Request -> BOOLEAN]
         /\ ParentAborts(s, x) =>
              /\ pc' \in [Request -> Label]
              /\ dataTx' \in [Request -> SUBSET Part]
              /\ metaTries' \in [Request -> 0 .. MaxRetries]
              /\ dataTries' \in [Request -> 0 .. MaxRetries]
              /\ retryable' \in [Request -> BOOLEAN] /\ deferred' \in [Request -> BOOLEAN]
              /\ broken' \in [Request -> BOOLEAN]
<1>1. MaxRetries \in Nat
  BY UpdateAssumption
<1>2. ASSUME MetaAborts(s, x)
      PROVE  /\ pc' \in [Request -> Label]
             /\ metaTx' \in [Request -> SUBSET Part] /\ dataTx' \in [Request -> SUBSET Part]
             /\ metaTries' \in [Request -> 0 .. MaxRetries]
             /\ dataTries' \in [Request -> 0 .. MaxRetries]
             /\ retryable' \in [Request -> BOOLEAN] /\ deferred' \in [Request -> BOOLEAN]
  <2>1. CASE Retried(s, x, metaTries)
    BY <1>1, <1>2, <2>1 DEF MetaAborts, Retried, Goto, TypeOK, Label
  <2>2. CASE ~Retried(s, x, metaTries)
    BY <1>1, <1>2, <2>2 DEF MetaAborts, Goto, TypeOK, Label
  <2> QED
    BY <2>1, <2>2
<1>3. ASSUME ParentAborts(s, x)
      PROVE  /\ pc' \in [Request -> Label]
             /\ dataTx' \in [Request -> SUBSET Part]
             /\ metaTries' \in [Request -> 0 .. MaxRetries]
             /\ dataTries' \in [Request -> 0 .. MaxRetries]
             /\ retryable' \in [Request -> BOOLEAN] /\ deferred' \in [Request -> BOOLEAN]
             /\ broken' \in [Request -> BOOLEAN]
  <2>1. CASE Retried(s, x, dataTries)
    <3>1. dataTries[s] + 1 \in 0 .. MaxRetries
      BY <1>1, <2>1 DEF Retried, TypeOK
    <3>2. dataTries' \in [Request -> 0 .. MaxRetries]
      BY <1>3, <2>1, <3>1 DEF ParentAborts, TypeOK
    <3>3. metaTries' \in [Request -> 0 .. MaxRetries] /\ dataTx' \in [Request -> SUBSET Part]
      BY <1>1, <1>3 DEF ParentAborts, TypeOK
    <3>4. pc' \in [Request -> Label]
      BY <1>3, <2>1 DEF ParentAborts, Goto, TypeOK, Label
    <3>5. /\ retryable' \in [Request -> BOOLEAN] /\ deferred' \in [Request -> BOOLEAN]
          /\ broken' \in [Request -> BOOLEAN]
      BY <1>3, <2>1 DEF ParentAborts, TypeOK
    <3> QED
      BY <3>2, <3>3, <3>4, <3>5
  <2>2. CASE ~Retried(s, x, dataTries)
    BY <1>1, <1>3, <2>2 DEF ParentAborts, Goto, TypeOK, Label
  <2> QED
    BY <2>1, <2>2
<1> QED
  BY <1>2, <1>3

\* A step that succeeds keeps the types.
LEMMA ProceedTypes ==
  ASSUME TypeOK, NEW s \in Request, Proceed(s)
  PROVE  TypeOK'
<1> USE DEF Goto, stores, tx, Label, Part
<1>1. CASE Receive(s) \/ NestedReady(s) \/ Write(s) \/ Publish(s)
  BY <1>1 DEF Receive, NestedReady, Write, Publish, TypeOK
<1>2. CASE Begin(s) \/ Complete(s) \/ RunRollbackHandler(s)
  <2>1. ops' \in [Change -> Op]
    BY <1>2, HostUpsert DEF Begin, Complete, RunRollbackHandler
  <2> QED
    BY <1>2, <2>1 DEF Begin, Complete, RunRollbackHandler, TypeOK
<1>3. CASE UpdateMetadata(s) \/ UpdateSchema(s) \/ UpdateForeign(s) \/ CommitData(s)
  BY <1>3 DEF UpdateMetadata, UpdateSchema, UpdateForeign, CommitData, TypeOK
<1>4. CASE CommitMeta(s)
  <2>1. ops' \in [Change -> Op] /\ metadata' = [metadata EXCEPT ![s] = @ \cup metaTx[s]]
    BY <1>4, MetadataEffect DEF CommitMeta
  <2> QED
    BY <1>4, <2>1 DEF CommitMeta, TypeOK
<1>5. CASE Fail(s)
  <2>1. ops' \in [Change -> Op] /\ retryable[s] \in BOOLEAN
    BY <1>5, HostUpsert DEF Fail, TypeOK
  <2> QED
    BY <1>5, <2>1, AbortTypes DEF Fail, FlowFails, TypeOK
<1> QED
  BY <1>1, <1>2, <1>3, <1>4, <1>5 DEF Proceed

\* So does one that fails, and a crash.
LEMMA ErrTypes ==
  ASSUME TypeOK, NEW s \in Request, Err(s) \/ Crash(s)
  PROVE  TypeOK'
<1> USE DEF stores, tx
<1>0. UNCHANGED <<metadata, physical, ops, published>> \/ CommitDataFails(s) \/ CommitMetaFails(s)
  BY DEF Err, Crash, BeginFails, UpdateMetadataFails, UpdateSchemaFails, NestedReadyFails,
         WriteFails, FailFails, CompleteFails, RollbackHandlerFails, PublishFails
<1>1. CASE BeginFails(s) \/ WriteFails(s)
  BY <1>1, AbortTypes DEF BeginFails, WriteFails, Goto, Label, TypeOK
<1>2. CASE UpdateMetadataFails(s) \/ NestedReadyFails(s)
  BY <1>2, AbortTypes DEF UpdateMetadataFails, NestedReadyFails, TypeOK
<1>3. CASE UpdateSchemaFails(s)
  <2>1. MaxRetries \in Nat
    BY UpdateAssumption
  <2>2. PICK x \in BOOLEAN :
          IF s \notin Within /\ Retried(s, x, dataTries)
            THEN /\ dataTx' = [dataTx EXCEPT ![s] = {}]
                 /\ dataTries' = [dataTries EXCEPT ![s] = @ + 1]
                 /\ Goto(s, "schema")
                 /\ UNCHANGED <<metaTx, metaTries, retryable, deferred>>
            ELSE MetaAborts(s, x)
    BY <1>3 DEF UpdateSchemaFails
  <2>3. CASE MetaAborts(s, x)
    BY <1>3, <2>3, AbortTypes DEF UpdateSchemaFails, TypeOK
  <2>4. CASE Retried(s, x, dataTries) /\ ~MetaAborts(s, x)
    <3>1. /\ dataTx' = [dataTx EXCEPT ![s] = {}]
          /\ dataTries' = [dataTries EXCEPT ![s] = @ + 1]
          /\ pc' = [pc EXCEPT ![s] = "schema"]
          /\ UNCHANGED <<metaTx, metaTries, retryable, deferred>>
      BY <2>2, <2>4 DEF Goto
    <3>2. dataTries' \in [Request -> 0 .. MaxRetries]
      BY <2>1, <2>4, <3>1 DEF Retried, TypeOK
    <3>3. broken' \in [Request -> BOOLEAN]
      BY <1>3 DEF UpdateSchemaFails, TypeOK
    <3> QED
      BY <1>3, <3>1, <3>2, <3>3 DEF UpdateSchemaFails, Label, TypeOK
  <2> QED
    BY <2>2, <2>3, <2>4
<1>4. CASE CommitDataFails(s)
  <2>1. physical' \in [Request -> SUBSET Part]
    BY <1>4 DEF CommitDataFails, TypeOK
  <2> QED
    BY <1>4, <2>1, AbortTypes DEF CommitDataFails, TypeOK
<1>5. CASE CommitMetaFails(s)
  <2>1. ops' \in [Change -> Op] /\ metadata' \in [Request -> SUBSET Part]
    BY <1>5, MetadataEffect DEF CommitMetaFails, TypeOK
  <2> QED
    BY <1>5, <2>1, AbortTypes DEF CommitMetaFails, TypeOK
<1>6. CASE FailFails(s)
  BY <1>6, AbortTypes DEF FailFails, FlowFails, Goto, Label, TypeOK
<1>7. CASE CompleteFails(s) \/ RollbackHandlerFails(s) \/ PublishFails(s) \/ Crash(s)
  BY <1>7 DEF CompleteFails, RollbackHandlerFails, PublishFails, Crash, Goto, Label, TypeOK
<1> QED
  BY <1>1, <1>2, <1>3, <1>4, <1>5, <1>6, <1>7 DEF Err

\* Every variable has its type in every reachable state.
THEOREM TypeCorrect == Spec => []TypeOK
<1>1. Init => TypeOK
  BY UpdateAssumption DEF Init, TypeOK, Op, NoOp, Label
<1>2. TypeOK /\ [Next]_vars => TypeOK'
  <2>1. TypeOK /\ UNCHANGED vars => TypeOK'
    BY DEF vars, TypeOK
  <2> QED
    BY <2>1, ProceedTypes, ErrTypes DEF Next
<1> QED
  BY <1>1, <1>2, PTL DEF Spec

-----------------------------------------------------------------------------
(***************************************************************************)
(* What is true of one request at each point of it.                        *)
(***************************************************************************)
RequestInv(r) == OnRecord(r) /\ WrittenSoFar(r) /\ HandlersInPlace(r) /\ NeverLeftPending(r)

Same(r) ==
  /\ metadata'[r] = metadata[r] /\ physical'[r] = physical[r]
  /\ ops'[Host(r)] = ops[Host(r)]
  /\ pc'[r] = pc[r] /\ metaTx'[r] = metaTx[r] /\ dataTx'[r] = dataTx[r]
  /\ dataTries'[r] = dataTries[r] /\ deferred'[r] = deferred[r]
  /\ lost'[r] = lost[r] /\ published'[r] = published[r]

\* It is about what belongs to the request ...
LEMMA Frame ==
  ASSUME NEW r \in Request, RequestInv(r), Same(r)
  PROVE  RequestInv(r)'
BY DEF RequestInv, Same, OnRecord, WrittenSoFar, HandlersInPlace, NeverLeftPending, Untouched,
       Everywhere, Unsettled

\* ... and no request touches what belongs to another.
LEMMA AbortApart ==
  ASSUME TypeOK, NEW s \in Request, NEW r \in Request \ {s}, NEW x \in BOOLEAN
  PROVE  /\ MetaAborts(s, x) =>
              /\ pc'[r] = pc[r] /\ metaTx'[r] = metaTx[r] /\ dataTx'[r] = dataTx[r]
              /\ dataTries'[r] = dataTries[r] /\ deferred'[r] = deferred[r]
         /\ ParentAborts(s, x) =>
              /\ pc'[r] = pc[r] /\ dataTx'[r] = dataTx[r]
              /\ dataTries'[r] = dataTries[r] /\ deferred'[r] = deferred[r]
BY DEF MetaAborts, ParentAborts, Goto, TypeOK

LEMMA ProceedApart ==
  ASSUME TypeOK, NEW s \in Request, Proceed(s), NEW r \in Request \ {s}
  PROVE  Same(r)
<1> USE DEF Goto, stores, tx, Same
<1>1. CASE Receive(s) \/ NestedReady(s) \/ Write(s) \/ Publish(s)
  BY <1>1 DEF Receive, NestedReady, Write, Publish, TypeOK
<1>2. CASE Begin(s) \/ Complete(s) \/ RunRollbackHandler(s)
  BY <1>2, HostUpsert DEF Begin, Complete, RunRollbackHandler, TypeOK
<1>3. CASE UpdateMetadata(s) \/ UpdateSchema(s) \/ UpdateForeign(s) \/ CommitData(s)
  BY <1>3 DEF UpdateMetadata, UpdateSchema, UpdateForeign, CommitData, TypeOK
<1>4. CASE CommitMeta(s)
  BY <1>4, MetadataEffect DEF CommitMeta, TypeOK
<1>5. CASE Fail(s)
  <2>1. ops'[Host(r)] = ops[Host(r)]
    BY <1>5, HostUpsert DEF Fail
  <2>2. retryable[s] \in BOOLEAN
    BY DEF TypeOK
  <2> QED
    BY <1>5, <2>1, <2>2, AbortApart DEF Fail, FlowFails, TypeOK
<1> QED
  BY <1>1, <1>2, <1>3, <1>4, <1>5 DEF Proceed

LEMMA ErrApart ==
  ASSUME TypeOK, NEW s \in Request, Err(s) \/ Crash(s), NEW r \in Request \ {s}
  PROVE  Same(r)
<1> USE DEF Goto, stores, tx, Same
<1>1. CASE BeginFails(s) \/ WriteFails(s)
  BY <1>1, AbortApart DEF BeginFails, WriteFails, TypeOK
<1>2. CASE UpdateMetadataFails(s) \/ NestedReadyFails(s)
  BY <1>2, AbortApart DEF UpdateMetadataFails, NestedReadyFails
<1>3. CASE UpdateSchemaFails(s)
  <2>1. PICK x \in BOOLEAN :
          \/ MetaAborts(s, x)
          \/ /\ dataTx' = [dataTx EXCEPT ![s] = {}]
             /\ dataTries' = [dataTries EXCEPT ![s] = @ + 1]
             /\ Goto(s, "schema")
             /\ UNCHANGED <<metaTx, metaTries, retryable, deferred>>
    BY <1>3 DEF UpdateSchemaFails
  <2> QED
    BY <1>3, <2>1, AbortApart DEF UpdateSchemaFails, TypeOK
<1>4. CASE CommitDataFails(s)
  <2>1. physical'[r] = physical[r]
    BY <1>4 DEF CommitDataFails, TypeOK
  <2> QED
    BY <1>4, <2>1, AbortApart DEF CommitDataFails
<1>5. CASE CommitMetaFails(s)
  <2>1. metadata'[r] = metadata[r] /\ ops'[Host(r)] = ops[Host(r)]
    BY <1>5, MetadataEffect DEF CommitMetaFails, TypeOK
  <2> QED
    BY <1>5, <2>1, AbortApart DEF CommitMetaFails
<1>6. CASE FailFails(s)
  BY <1>6, AbortApart DEF FailFails, FlowFails, TypeOK
<1>7. CASE CompleteFails(s) \/ RollbackHandlerFails(s) \/ PublishFails(s) \/ Crash(s)
  BY <1>7 DEF CompleteFails, RollbackHandlerFails, PublishFails, Crash, TypeOK
<1> QED
  BY <1>1, <1>2, <1>3, <1>4, <1>5, <1>6, <1>7 DEF Err

-----------------------------------------------------------------------------
(***************************************************************************)
(* Each step leaves what is true of its request at the point it goes to.   *)
(***************************************************************************)
LEMMA Parts ==
  ASSUME NEW r \in Request
  PROVE  /\ r \in Within => r \notin Linked
         /\ r \in Linked => PartsOf(r) = {"host", "foreign"}
         /\ r \notin Linked => PartsOf(r) = {"host"}
BY UpdateAssumption DEF PartsOf, Part

\* A transaction that is rolled back takes its changes with it; the flow is
\* over or starts again.
LEMMA MetaAbortInv ==
  ASSUME TypeOK, NEW s \in Request, NEW x \in BOOLEAN, RequestInv(s), MetaAborts(s, x),
         pc[s] \in {"meta", "schema", "nested", "commit", "nestedReady", "commitMeta"},
         metadata'[s] = metadata[s] \/ (pc[s] = "commitMeta" /\ metadata'[s] = metadata[s] \cup metaTx[s]),
         physical'[s] = physical[s] \/ (pc[s] = "commit" /\ s \notin Within),
         x => pc[s] \in {"meta", "schema", "nested"}, pc[s] = "commit" => s \notin Within,
         ops'[Host(s)] = ops[Host(s)], lost'[s] = lost[s], published'[s] = published[s]
  PROVE  RequestInv(s)'
<1>1. pc'[s] = (IF Retried(s, x, metaTries) THEN "meta" ELSE "fail")
  BY DEF MetaAborts, Goto, TypeOK
<1>2. ops'[Host(s)].status = "pending"
  BY DEF RequestInv, OnRecord, InFlow
<1>3. ~deferred'[s]
  BY DEF MetaAborts, RequestInv, HandlersInPlace
<1>4. dataTx'[s] = (IF s \in Within THEN dataTx[s] ELSE {})
  BY DEF MetaAborts, TypeOK
<1>5. OnRecord(s)'
  BY <1>1, <1>2 DEF OnRecord, Unsettled
<1>6. Retried(s, x, metaTries) => physical'[s] = {}
  BY DEF Retried, RequestInv, WrittenSoFar
<1>7. metadata'[s] \subseteq PartsOf(s)
  BY DEF RequestInv, WrittenSoFar
<1>8. dataTx'[s] # {} => physical'[s] = {}
  BY <1>4 DEF RequestInv, WrittenSoFar
<1>9. ~published'[s]
  BY DEF RequestInv, WrittenSoFar
<1>a. s \in Within => physical'[s] = {}
  <2>1. s \in Within => pc[s] \in {"meta", "schema", "commitMeta"}
    BY Parts DEF RequestInv, WrittenSoFar
  <2>2. s \in Within => physical[s] = {}
    BY <2>1 DEF RequestInv, WrittenSoFar
  <2> QED
    BY <2>1, <2>2
<1>10. WrittenSoFar(s)'
  BY <1>1, <1>6, <1>7, <1>8, <1>9, <1>a DEF WrittenSoFar, PartsOf
<1>11. HandlersInPlace(s)' /\ NeverLeftPending(s)'
  BY <1>1, <1>3 DEF HandlersInPlace, NeverLeftPending, RequestInv
<1> QED
  BY <1>5, <1>10, <1>11 DEF RequestInv

\* So for the surrounding transaction, whose handlers are still to run if the
\* flow was over.
LEMMA ParentAbortInv ==
  ASSUME TypeOK, NEW s \in Request, NEW x \in BOOLEAN, RequestInv(s), ParentAborts(s, x),
         s \in Within, pc[s] \in {"begin", "fail", "rest", "commit"},
         metadata'[s] = metadata[s],
         physical'[s] = physical[s] \/ (pc[s] = "commit" /\ ~x),
         pc[s] = "fail" => lost'[s] \/ ops'[Host(s)].status = "error",
         pc[s] = "fail" => Unsettled(ops'[Host(s)]),
         pc[s] # "fail" => ops'[Host(s)] = ops[Host(s)],
         published'[s] = published[s]
  PROVE  RequestInv(s)'
<1>1. IF Retried(s, x, dataTries)
        THEN pc'[s] = "begin" /\ dataTries'[s] = dataTries[s] + 1 /\ ~deferred'[s]
        ELSE /\ pc'[s] = (IF deferred[s] THEN "rolledBack" ELSE "done")
             /\ dataTries'[s] = dataTries[s] /\ deferred'[s] = deferred[s]
  BY DEF ParentAborts, Goto, TypeOK
<1>2. dataTx'[s] = {} /\ dataTries[s] \in Nat
  BY DEF ParentAborts, TypeOK
<1>3. deferred[s] <=> pc[s] \in {"rest", "commit"}
  BY DEF RequestInv, HandlersInPlace
<1>4. OnRecord(s)'
  <2>1. pc'[s] = "rolledBack" => ops'[Host(s)].status = "pending"
    BY <1>1, <1>3 DEF RequestInv, OnRecord, InFlow
  <2>2. metadata'[s] # physical'[s] => Unsettled(ops'[Host(s)])
    BY DEF RequestInv, OnRecord, InFlow, Unsettled
  <2> QED
    BY <1>1, <2>1, <2>2 DEF OnRecord, InFlow
<1>5. WrittenSoFar(s)'
  <2>1. Retried(s, x, dataTries) => physical'[s] = {} /\ dataTries'[s] # 0
    BY <1>1, <1>2 DEF Retried, RequestInv, WrittenSoFar
  <2>2. metadata'[s] \subseteq PartsOf(s) /\ ~published'[s]
    BY DEF RequestInv, WrittenSoFar
  <2> QED
    BY <1>1, <1>2, <2>1, <2>2 DEF WrittenSoFar, PartsOf
<1>6. HandlersInPlace(s)'
  BY <1>1 DEF HandlersInPlace
<1>7. NeverLeftPending(s)'
  <2>1. pc[s] = "begin" /\ dataTries[s] = 0 => ops'[Host(s)].status = "none"
    BY DEF RequestInv, WrittenSoFar, Untouched
  <2> QED
    BY <1>1, <1>3, <2>1 DEF NeverLeftPending
<1> QED
  BY <1>4, <1>5, <1>6, <1>7 DEF RequestInv

\* The steps of a request that gets on.
LEMMA ProceedInv ==
  ASSUME TypeOK, NEW s \in Request, RequestInv(s), Proceed(s)
  PROVE  RequestInv(s)'
<1> USE DEF Goto, stores, tx
<1>1. CASE Receive(s)
  BY <1>1 DEF Receive, TypeOK, RequestInv, OnRecord, WrittenSoFar, HandlersInPlace,
              NeverLeftPending, InFlow, Untouched
<1>2. CASE Begin(s)
  <2>1. ops'[Host(s)].status = "pending"
    BY <1>2, HostUpsert DEF Begin
  <2> QED
    BY <1>2, <2>1 DEF Begin, TypeOK, RequestInv, OnRecord, WrittenSoFar, HandlersInPlace,
                      NeverLeftPending, InFlow, Unsettled
<1>3. CASE UpdateMetadata(s)
  BY <1>3 DEF UpdateMetadata, TypeOK, RequestInv, OnRecord, WrittenSoFar, HandlersInPlace,
              NeverLeftPending, InFlow
<1>4. CASE UpdateSchema(s)
  BY <1>4, Parts DEF UpdateSchema, TypeOK, RequestInv, OnRecord, WrittenSoFar, HandlersInPlace,
              NeverLeftPending, InFlow
<1>5. CASE UpdateForeign(s)
  BY <1>5, Parts DEF UpdateForeign, TypeOK, RequestInv, OnRecord, WrittenSoFar, HandlersInPlace,
              NeverLeftPending, InFlow, Part
<1>6. CASE CommitData(s)
  BY <1>6, Parts DEF CommitData, TypeOK, RequestInv, OnRecord, WrittenSoFar, HandlersInPlace,
              NeverLeftPending, InFlow, Everywhere, Unsettled
<1>7. CASE NestedReady(s)
  BY <1>7, Parts DEF NestedReady, TypeOK, RequestInv, OnRecord, WrittenSoFar, HandlersInPlace,
              NeverLeftPending, InFlow
<1>8. CASE CommitMeta(s)
  <2>0. metaTx[s] = PartsOf(s) /\ metadata[s] \subseteq PartsOf(s)
    BY <1>8 DEF CommitMeta, RequestInv, WrittenSoFar
  <2>1. metadata'[s] = PartsOf(s)
    <3>1. metadata'[s] = metadata[s] \cup metaTx[s]
      BY <1>8, MetadataEffect DEF CommitMeta, TypeOK
    <3> QED
      BY <2>0, <3>1
  <2>2. ops'[Host(s)].status = "pending"
    BY <1>8, MetadataEffect DEF CommitMeta, RequestInv, OnRecord, InFlow
  <2> QED
    BY <1>8, <2>1, <2>2 DEF CommitMeta, TypeOK, RequestInv, OnRecord, WrittenSoFar,
              HandlersInPlace, NeverLeftPending, InFlow, Everywhere, Unsettled
<1>9. CASE Write(s)
  BY <1>9 DEF Write, TypeOK, RequestInv, OnRecord, WrittenSoFar, HandlersInPlace,
              NeverLeftPending, InFlow
<1>10. CASE Complete(s)
  <2>1. ops'[Host(s)].status = "ready"
    BY <1>10, HostUpsert DEF Complete
  <2> QED
    BY <1>10, <2>1 DEF Complete, TypeOK, RequestInv, OnRecord, WrittenSoFar, HandlersInPlace,
              NeverLeftPending, InFlow, Everywhere
<1>11. CASE Publish(s)
  BY <1>11 DEF Publish, TypeOK, RequestInv, OnRecord, WrittenSoFar, HandlersInPlace,
              NeverLeftPending, InFlow, Everywhere
<1>12. CASE Fail(s)
  <2>1. ops'[Host(s)].status = "error"
    BY <1>12, HostUpsert DEF Fail
  <2>2. CASE s \in Within
    BY <1>12, <2>1, <2>2, ParentAbortInv DEF Fail, FlowFails, TypeOK, Unsettled
  <2>3. CASE s \notin Within
    BY <1>12, <2>1, <2>3 DEF Fail, FlowFails, TypeOK, RequestInv, OnRecord, WrittenSoFar,
              HandlersInPlace, NeverLeftPending, InFlow, Unsettled
  <2> QED
    BY <2>2, <2>3
<1>13. CASE RunRollbackHandler(s)
  <2>1. ops'[Host(s)].status = "error"
    BY <1>13, HostUpsert DEF RunRollbackHandler
  <2> QED
    BY <1>13, <2>1 DEF RunRollbackHandler, TypeOK, RequestInv, OnRecord, WrittenSoFar,
              HandlersInPlace, NeverLeftPending, InFlow, Unsettled
<1> QED
  BY <1>1, <1>2, <1>3, <1>4, <1>5, <1>6, <1>7, <1>8, <1>9, <1>10, <1>11, <1>12, <1>13
     DEF Proceed

\* The steps that fail.
LEMMA ErrInv ==
  ASSUME TypeOK, NEW s \in Request, RequestInv(s), Err(s) \/ Crash(s)
  PROVE  RequestInv(s)'
<1> USE DEF stores, tx
<1>1. CASE BeginFails(s)
  <2>1. CASE s \in Within
    BY <1>1, <2>1, ParentAbortInv DEF BeginFails
  <2>2. CASE s \notin Within
    BY <1>1, <2>2 DEF BeginFails, Goto, TypeOK, RequestInv, OnRecord, WrittenSoFar,
              HandlersInPlace, NeverLeftPending, InFlow, Untouched
  <2> QED
    BY <2>1, <2>2
<1>2. CASE UpdateMetadataFails(s)
  BY <1>2, MetaAbortInv DEF UpdateMetadataFails
<1>3. CASE UpdateSchemaFails(s)
  <2>1. PICK x \in BOOLEAN :
          \/ MetaAborts(s, x)
          \/ /\ s \notin Within
             /\ dataTx' = [dataTx EXCEPT ![s] = {}]
             /\ dataTries' = [dataTries EXCEPT ![s] = @ + 1]
             /\ Goto(s, "schema")
             /\ UNCHANGED <<metaTx, metaTries, retryable, deferred>>
    BY <1>3 DEF UpdateSchemaFails
  <2>2. CASE MetaAborts(s, x)
    BY <1>3, <2>2, MetaAbortInv DEF UpdateSchemaFails
  <2>3. CASE ~MetaAborts(s, x)
    BY <1>3, <2>1, <2>3
       DEF UpdateSchemaFails, Goto, TypeOK, RequestInv, OnRecord, WrittenSoFar,
           HandlersInPlace, NeverLeftPending, InFlow
  <2> QED
    BY <2>2, <2>3
<1>4. CASE CommitDataFails(s)
  <2>1. CASE s \in Within
    <3>1. physical'[s] = physical[s] \/ pc[s] = "commit"
      BY <1>4 DEF CommitDataFails, TypeOK
    <3> QED
      BY <1>4, <2>1, <3>1, ParentAbortInv DEF CommitDataFails
  <2>2. CASE s \notin Within
    BY <1>4, <2>2, MetaAbortInv DEF CommitDataFails
  <2> QED
    BY <2>1, <2>2
<1>5. CASE NestedReadyFails(s)
  BY <1>5, MetaAbortInv DEF NestedReadyFails
<1>6. CASE CommitMetaFails(s)
  <2>1. ops'[Host(s)] = ops[Host(s)]
    BY <1>6, MetadataEffect DEF CommitMetaFails
  <2>2. metadata'[s] = metadata[s] \/ metadata'[s] = metadata[s] \cup metaTx[s]
    BY <1>6 DEF CommitMetaFails, Metadata, TypeOK
  <2> QED
    BY <1>6, <2>1, <2>2, MetaAbortInv DEF CommitMetaFails
<1>7. CASE WriteFails(s)
  BY <1>7, ParentAbortInv DEF WriteFails, RequestInv, WrittenSoFar
<1>8. CASE FailFails(s)
  <2>1. lost'[s] /\ Unsettled(ops[Host(s)])
    BY <1>8 DEF FailFails, TypeOK, RequestInv, OnRecord, InFlow, Unsettled
  <2>2. CASE s \in Within
    BY <1>8, <2>1, <2>2, ParentAbortInv DEF FailFails, FlowFails
  <2>3. CASE s \notin Within
    BY <1>8, <2>1, <2>3 DEF FailFails, FlowFails, Goto, TypeOK, RequestInv, OnRecord,
              WrittenSoFar, HandlersInPlace, NeverLeftPending, InFlow
  <2> QED
    BY <2>2, <2>3
<1>9. CASE CompleteFails(s)
  BY <1>9 DEF CompleteFails, Goto, TypeOK, RequestInv, OnRecord, WrittenSoFar, HandlersInPlace,
              NeverLeftPending, InFlow, Everywhere
<1>10. CASE RollbackHandlerFails(s) \/ PublishFails(s)
  BY <1>10 DEF RollbackHandlerFails, PublishFails, Goto, TypeOK, RequestInv, OnRecord,
              WrittenSoFar, HandlersInPlace, NeverLeftPending, InFlow, Everywhere
<1>11. CASE Crash(s)
  <2>1. pc'[s] = "done" /\ lost'[s] /\ dataTx'[s] = {}
    BY <1>11 DEF Crash, Goto, TypeOK
  <2>2. ~published[s]
    BY <1>11 DEF Crash, RequestInv, WrittenSoFar
  <2> QED
    BY <1>11, <2>1, <2>2 DEF Crash, RequestInv, OnRecord, WrittenSoFar, HandlersInPlace,
              NeverLeftPending, InFlow
<1> QED
  BY <1>1, <1>2, <1>3, <1>4, <1>5, <1>6, <1>7, <1>8, <1>9, <1>10, <1>11 DEF Err

-----------------------------------------------------------------------------
(***************************************************************************)
(* The invariant and what follows from it.                                 *)
(***************************************************************************)
LEMMA InvEquiv == IInv <=> TypeOK /\ \A r \in Request : RequestInv(r)
BY DEF IInv, RequestInv

\* The inductive invariant holds: at every point of a request it is known what
\* the open transactions hold, what is committed and what is on record.
THEOREM InvariantHolds == Spec => []IInv
<1>1. Init => IInv
  <2> SUFFICES ASSUME Init PROVE IInv
    OBVIOUS
  <2>1. TypeOK
    BY UpdateAssumption DEF Init, TypeOK, Op, NoOp, Label
  <2>2. ASSUME NEW r \in Request PROVE RequestInv(r)
    <3>1. ops[Host(r)].status = "none"
      BY OperationsApart DEF Init, NoOp
    <3> QED
      BY <3>1 DEF Init, RequestInv, OnRecord, WrittenSoFar, HandlersInPlace, NeverLeftPending,
                  InFlow, Untouched
  <2> QED
    BY <2>1, <2>2, InvEquiv
<1>2. IInv /\ [Next]_vars => IInv'
  <2> SUFFICES ASSUME IInv, [Next]_vars PROVE TypeOK' /\ \A r \in Request : RequestInv(r)'
    BY DEF IInv, RequestInv
  <2>1. TypeOK /\ \A r \in Request : RequestInv(r)
    BY InvEquiv
  <2>2. CASE UNCHANGED vars
    <3>1. TypeOK'
      BY <2>1, <2>2 DEF TypeOK, vars
    <3>2. \A r \in Request : Same(r)
      BY <2>2 DEF Same, vars
    <3> QED
      BY <2>1, <3>1, <3>2, Frame
  <2>3. ASSUME NEW s \in Request, Proceed(s) \/ Err(s) \/ Crash(s)
        PROVE  TypeOK' /\ \A r \in Request : RequestInv(r)'
    <3>1. TypeOK'
      BY <2>1, <2>3, ProceedTypes, ErrTypes
    <3>2. RequestInv(s)'
      BY <2>1, <2>3, ProceedInv, ErrInv
    <3>3. \A r \in Request \ {s} : RequestInv(r)'
      BY <2>1, <2>3, ProceedApart, ErrApart, Frame
    <3> QED
      BY <3>1, <3>2, <3>3
  <2> QED
    BY <2>2, <2>3 DEF Next
<1> QED
  BY <1>1, <1>2, PTL DEF Spec

\* An error after the commit of the data transaction is never retried, so the
\* physical change of a request is made once.
THEOREM DoneOnce == Spec => []NothingTwice
<1>1. IInv => NothingTwice
  BY DEF IInv, WrittenSoFar, NothingTwice
<1> QED
  BY <1>1, InvariantHolds, PTL

\* Whatever fails, events go out only when both databases have the change.
THEOREM EventsAfterCommit == Spec => []PublishedIsCommitted
<1>1. IInv => PublishedIsCommitted
  BY DEF IInv, WrittenSoFar, Everywhere, PublishedIsCommitted
<1> QED
  BY <1>1, InvariantHolds, PTL

\* A request whose own transaction is not retried leaves nothing pending that
\* it could have settled.
THEOREM Settled == Spec => []TriedOnceIsSettled
<1>1. IInv => TriedOnceIsSettled
  BY DEF IInv, NeverLeftPending, TriedOnceIsSettled
<1> QED
  BY <1>1, InvariantHolds, PTL

-----------------------------------------------------------------------------
(***************************************************************************)
(* The refinement.                                                         *)
(***************************************************************************)
\* A step of s puts s on record or takes it off, and nobody else.
LEMMA RecordedEffect ==
  ASSUME NEW s \in Request, \A r \in Request \ {s} : ops'[Host(r)] = ops[Host(r)]
  PROVE  /\ Unsettled(ops'[Host(s)]) => Recorded' = Recorded \cup {s}
         /\ ~Unsettled(ops'[Host(s)]) => Recorded' = Recorded \ {s}
         /\ ops'[Host(s)] = ops[Host(s)] => Recorded' = Recorded
BY DEF Recorded, Unsettled

\* Every step of a request is a step of the promise, or changes nothing of it.
LEMMA StepRefines ==
  ASSUME TypeOK, NEW s \in Request, RequestInv(s), Proceed(s) \/ Err(s) \/ Crash(s)
  PROVE  Promise!Next \/ UNCHANGED Promise!stores
<1> USE DEF stores, tx
<1>0. \A r \in Request \ {s} : ops'[Host(r)] = ops[Host(r)]
  BY ProceedApart, ErrApart DEF Same
<1>1. CASE Begin(s) \/ Fail(s) \/ RunRollbackHandler(s)
  <2>1. Unsettled(ops'[Host(s)])
    BY <1>1, HostUpsert DEF Begin, Fail, RunRollbackHandler, Unsettled
  <2>2. Promise!Announce(s)
    BY <1>0, <1>1, <2>1, RecordedEffect DEF Begin, Fail, RunRollbackHandler, Promise!Announce
  <2> QED
    BY <2>2 DEF Promise!Next
<1>2. CASE Complete(s)
  <2>1. ~Unsettled(ops'[Host(s)])
    BY <1>2, HostUpsert DEF Complete, Unsettled
  <2>2. Promise!Converged(s)
    BY <1>2 DEF Complete, RequestInv, WrittenSoFar, Everywhere, Promise!Converged
  <2>3. Promise!Settle(s)
    BY <1>0, <1>2, <2>1, <2>2, RecordedEffect DEF Complete, Promise!Settle
  <2> QED
    BY <2>3 DEF Promise!Next
<1>3. CASE CommitData(s) \/ CommitDataFails(s)
  <2>1. s \in Recorded /\ Recorded' = Recorded
    <3>1. pc[s] = "commit" /\ ops' = ops /\ metadata' = metadata
      BY <1>3 DEF CommitData, CommitDataFails
    <3> QED
      BY <3>1 DEF RequestInv, OnRecord, InFlow, Recorded, Unsettled
  <2>2. dataTx[s] \in SUBSET Part /\ {} \in SUBSET Part /\ physical[s] = physical[s] \cup {}
    BY DEF TypeOK
  <2>3. \E parts \in SUBSET Part : physical' = [physical EXCEPT ![s] = @ \cup parts]
    BY <1>3, <2>2 DEF CommitData, CommitDataFails
  <2>4. Promise!ChangePhysical(s)
    BY <1>3, <2>1, <2>3 DEF CommitData, CommitDataFails, Promise!ChangePhysical
  <2> QED
    BY <2>4 DEF Promise!Next
<1>4. CASE CommitMeta(s) \/ CommitMetaFails(s)
  <2>1. s \in Recorded /\ physical' = physical
    BY <1>4 DEF CommitMeta, CommitMetaFails, RequestInv, OnRecord, InFlow, Recorded, Unsettled
  <2>2. Metadata(s) \/ UNCHANGED <<metadata, ops>>
    BY <1>4 DEF CommitMeta, CommitMetaFails
  <2>3. ops'[Host(s)] = ops[Host(s)]
    BY <2>2, MetadataEffect
  <2>4. CASE Metadata(s)
    <3>1. metadata' = [metadata EXCEPT ![s] = @ \cup metaTx[s]] /\ metaTx[s] \in SUBSET Part
      BY <2>4 DEF Metadata, TypeOK
    <3>2. Promise!ChangeMetadata(s)
      BY <1>0, <2>1, <2>3, <3>1, RecordedEffect DEF Promise!ChangeMetadata
    <3> QED
      BY <3>2 DEF Promise!Next
  <2>5. CASE UNCHANGED <<metadata, ops>>
    BY <2>1, <2>5 DEF Promise!stores, Recorded
  <2> QED
    BY <2>2, <2>4, <2>5
<1>5. CASE UNCHANGED <<metadata, physical, ops>>
  BY <1>5 DEF Promise!stores, Recorded
<1> QED
  BY <1>1, <1>2, <1>3, <1>4, <1>5
     DEF Proceed, Err, Crash, Receive, UpdateMetadata, UpdateSchema, UpdateForeign, NestedReady,
         Write, Publish, BeginFails, UpdateMetadataFails, UpdateSchemaFails, NestedReadyFails,
         WriteFails, FailFails, CompleteFails, RollbackHandlerFails, PublishFails

\* The flow with its transactions, retries, handlers and crashes implements the
\* promise of the two stores.
THEOREM Refinement == Spec => ImplementsTwoStores
<1>1. Init => Promise!Init
  <2>1. Init => \A r \in Request : ops[Host(r)].status = "none"
    BY OperationsApart DEF Init, NoOp
  <2> QED
    BY <2>1 DEF Init, Promise!Init, Recorded, Unsettled
<1>2. IInv /\ [Next]_vars => [Promise!Next]_(Promise!stores)
  <2> SUFFICES ASSUME IInv, [Next]_vars PROVE Promise!Next \/ UNCHANGED Promise!stores
    OBVIOUS
  <2>1. CASE UNCHANGED vars
    BY <2>1 DEF vars, Promise!stores, Recorded
  <2>2. CASE Next
    BY <2>2, InvEquiv, StepRefines DEF Next
  <2> QED
    BY <2>1, <2>2
<1> QED
  BY <1>1, <1>2, InvariantHolds, PTL DEF Spec, ImplementsTwoStores, Promise!Spec

=============================================================================
