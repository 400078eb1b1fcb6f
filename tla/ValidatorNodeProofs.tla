------------------------- MODULE ValidatorNodeProofs -------------------------
(***************************************************************************)
(* What a validator guarantees of the blocks it has finalized, for any     *)
(* number of blocks, deliveries and faults, and either execution layer.    *)
(***************************************************************************)
EXTENDS ValidatorNode, TLAPS

\* Block k can be served, or one of its handlers is about to store it.
Stored(k) == k \in memory \/ \E i \in 1..Deliveries : pc[<<k, i>>] = "put"

\* The engine has finalized the payloads of handlers that got past it and the
\* payload it has as its head: the two reasons why OnQC calls the replica.
HandlersExecuted ==
  /\ \A t \in Threads : pc[t] \in {"sethead", "put", "replica"} => t[1] \in executed
  /\ head # 0 => head \in executed

\* A handler reaches the replica after its own Put, or because it has seen its
\* block as the head, and whoever set that head stores the block.
HandlersStored ==
  /\ \A t \in Threads : pc[t] = "replica" => Stored(t[1])
  /\ head # 0 => Stored(head)

\* Only the Engine API client has steps after newPayload.
ClientSteps == \A t \in Threads : pc[t] \in {"forkchoice", "sethead"} => engine = "client"

\* Handlers exist for published blocks only.
Arrivals == \A t \in Threads : pc[t] # "idle" => t[1] <= published

Inv ==
  /\ TypeOK
  /\ Arrivals
  /\ HandlersExecuted
  /\ HandlersStored
  /\ ClientSteps
  /\ FinalizedIsExecuted
  /\ FinalizedIsRetrievable

\* What the execution layer has taken, block by block.  The mock has executed the
\* blocks up to its head; the client knows every payload it was told to make the
\* head, whatever Client.head says.
EngineChain ==
  /\ engine = "mock" => executed = 1..head
  /\ engine = "client" => executed \subseteq known
  /\ 0 \in known
  /\ \A t \in Threads : pc[t] = "forkchoice" => t[1] \in known

\* What the mock engine and a reliable network add: the head is at the last
\* published block, or the first handler of that block is still on the way to
\* move it and cannot be refused; the tip is there too, or one of the handlers
\* of the block has only Put and replica.OnQC left.
Following ==
  /\ head \in {published - 1, published}
  /\ height \in {published - 1, published}
  /\ height <= head
  /\ head # published => pc[<<published, 1>>] \in {"arrived", "validate", "execute", "finalize"}
  /\ height # published /\ head = published =>
       \E i \in 1..Deliveries : pc[<<published, i>>] \in {"put", "replica"}
  /\ head # 0 => head \in validated
  /\ \A t \in Threads :
       /\ pc[t] \in {"put", "replica"} => t[1] <= head
       /\ pc[t] = "finalize" => t[1] \in validated

-----------------------------------------------------------------------------
\* A handler is a block and the number of its delivery.
LEMMA ThreadParts ==
  /\ \A t \in Threads : t[1] \in BlockIds /\ t[2] \in 1..Deliveries /\ t = <<t[1], t[2]>>
  /\ \A k \in BlockIds, i \in 1..Deliveries : <<k, i>> \in Threads
  BY DEF Threads

\* A handler goes on and the others stay where they are.
LEMMA GotoStep ==
  ASSUME TypeOK, NEW t \in Threads, NEW label \in PCs, Goto(t, label)
  PROVE  /\ pc' \in [Threads -> PCs]
         /\ pc'[t] = label
         /\ \A s \in Threads : s # t => pc'[s] = pc[s]
  BY DEF TypeOK, Goto

\* A block that is stored, or about to be, stays so, unless a handler gives up
\* its Put before the object is in memory.
LEMMA StoredStays ==
  ASSUME TypeOK, NEW t \in Threads, NEW label \in PCs, Goto(t, label),
         memory \subseteq memory', pc[t] = "put" => t[1] \in memory'
  PROVE  \A k \in BlockIds : Stored(k) => Stored(k)'
<1> SUFFICES ASSUME NEW k \in BlockIds, Stored(k) PROVE Stored(k)'
    OBVIOUS
<1>1. CASE k \in memory
      BY <1>1 DEF Stored
<1>2. CASE k \notin memory
  <2>1. PICK i \in 1..Deliveries : pc[<<k, i>>] = "put"
        BY <1>2 DEF Stored
  <2>2. <<k, i>> \in Threads /\ <<k, i>>[1] = k
        BY ThreadParts
  <2>3. CASE t = <<k, i>>
        BY <2>1, <2>2, <2>3 DEF Stored
  <2>4. CASE t # <<k, i>>
        BY <2>1, <2>2, <2>4, GotoStep DEF Stored
  <2> QED BY <2>3, <2>4
<1> QED BY <1>1, <1>2

\* Finalized blocks stay retrievable while stored blocks stay stored.
LEMMA RetrievableStays ==
  ASSUME TypeOK, FinalizedIsRetrievable, UNCHANGED height,
         \A k \in BlockIds : Stored(k) => Stored(k)'
  PROVE  FinalizedIsRetrievable'
<1>1. \A k \in 1..height : Stored(k)
      BY DEF FinalizedIsRetrievable, Stored
<1>2. 1..height \subseteq BlockIds
      BY NodeAssumption DEF TypeOK, BlockIds
<1>3. \A k \in 1..height' : Stored(k)'
      BY <1>1, <1>2
<1> QED BY <1>3 DEF FinalizedIsRetrievable, Stored

\* Nothing has been delivered yet.
LEMMA InitInv == Init => Inv
  BY NodeAssumption
  DEF Init, Inv, TypeOK, Arrivals, HandlersExecuted, HandlersStored, ClientSteps,
      FinalizedIsExecuted, FinalizedIsRetrievable, PCs, Running

\* A step that neither moves head and height nor finalizes a payload, and brings
\* the handler t nowhere that needs a reason.
LEMMA QuietStep ==
  ASSUME Inv, NEW t \in Threads, NEW label \in PCs, Goto(t, label),
         TypeOK', UNCHANGED <<engine, height, head, executed, memory>>,
         published <= published', t[1] <= published', pc[t] # "put",
         label \in {"sethead", "put", "replica"} => t[1] \in executed,
         label = "replica" => Stored(t[1]),
         label \in {"forkchoice", "sethead"} => engine = "client"
  PROVE  Inv'
<1> USE DEF Inv
<1>1. /\ pc'[t] = label
      /\ \A s \in Threads : s # t => pc'[s] = pc[s]
      BY GotoStep
<1>2. \A k \in BlockIds : Stored(k) => Stored(k)'
      BY StoredStays
<1>3. HandlersExecuted'
      BY <1>1 DEF HandlersExecuted
<1>4. HandlersStored'
      BY <1>1, <1>2, ThreadParts DEF HandlersStored, TypeOK, BlockIds
<1>5. ClientSteps'
      BY <1>1 DEF ClientSteps
<1>6. FinalizedIsRetrievable'
      BY <1>2, RetrievableStays
<1>7. Arrivals'
      BY <1>1, ThreadParts DEF Arrivals, TypeOK, BlockIds
<1> QED BY <1>3, <1>4, <1>5, <1>6, <1>7 DEF FinalizedIsExecuted

\* Every step of every handler preserves the invariant.
LEMMA HandlerInv ==
  ASSUME Inv, NEW t \in Threads, HandlerStep(t) \/ EngineError(t)
  PROVE  Inv'
<1> USE ThreadParts DEF Inv
<1>0. {"arrived", "validate", "execute", "finalize", "forkchoice", "sethead", "put", "replica",
       "done", "refused", "failed"} \subseteq PCs
      BY DEF PCs, Running
<1>a. published \in Int /\ (pc[t] # "idle" => t[1] <= published)
      BY DEF Arrivals, TypeOK
<1>1. CASE SkipExecution(t)
  <2>1. TypeOK'
        BY <1>0, <1>1, GotoStep DEF SkipExecution, TypeOK
  <2>2. t[1] \in executed /\ Stored(t[1])
        BY <1>1, NodeAssumption DEF SkipExecution, HandlersExecuted, HandlersStored, BlockIds
  <2> QED BY <1>0, <1>1, <2>1, <2>2, QuietStep, <1>a DEF SkipExecution
<1>2. CASE ExecutionBehind(t)
  <2>1. TypeOK'
        BY <1>0, <1>2, GotoStep DEF ExecutionBehind, TypeOK
  <2> QED BY <1>0, <1>2, <2>1, QuietStep, <1>a DEF ExecutionBehind
<1>3. CASE ValidateCommitted(t)
  <2>1. /\ pc' \in [Threads -> PCs]
        /\ known' \subseteq 0..MaxHeight /\ validated' \subseteq BlockIds
        BY <1>0, <1>3, GotoStep
        DEF ValidateCommitted, Learn, TypeOK, BlockIds
  <2>2. TypeOK'
        BY <1>3, <2>1 DEF ValidateCommitted, TypeOK
  <2>3. CASE Goto(t, "finalize")
        BY <1>0, <1>3, <2>2, <2>3, QuietStep, <1>a DEF ValidateCommitted
  <2>4. CASE Goto(t, "refused")
        BY <1>0, <1>3, <2>2, <2>4, QuietStep, <1>a DEF ValidateCommitted
  <2> QED BY <1>3, <2>3, <2>4 DEF ValidateCommitted
<1>4. CASE FinalizeMock(t)
  <2>1. CASE head = t[1]
    <3>1. TypeOK'
          BY <1>0, <1>4, <2>1, GotoStep DEF FinalizeMock, TypeOK
    <3>2. t[1] \in executed
          BY <1>4, <2>1 DEF FinalizeMock, HandlersExecuted, BlockIds
    <3> QED BY <1>0, <1>4, <2>1, <3>1, <3>2, QuietStep, <1>a DEF FinalizeMock
  <2>2. CASE head # t[1] /\ EngineAccepts(t[1])
    <3>1. /\ head' = t[1] /\ executed' = executed \cup {t[1]} /\ Goto(t, "put")
          /\ UNCHANGED <<engine, published, height, known, validated, memory, disk>>
          /\ pc[t] = "finalize" /\ engine = "mock"
          BY <1>4, <2>2 DEF FinalizeMock
    <3>2. /\ pc' \in [Threads -> PCs]
          /\ pc'[t] = "put"
          /\ \A s \in Threads : s # t => pc'[s] = pc[s]
          BY <1>0, <3>1, GotoStep
    <3>3. \A k \in BlockIds : Stored(k) => Stored(k)'
          BY <1>0, <3>1, StoredStays
    <3>4. TypeOK'
          BY <3>1, <3>2 DEF TypeOK, BlockIds
    <3>5. HandlersExecuted' /\ FinalizedIsExecuted'
          BY <3>1, <3>2 DEF HandlersExecuted, FinalizedIsExecuted
    <3>6. Stored(t[1])'
          BY <3>2 DEF Stored
    <3>7. HandlersStored'
          BY <3>1, <3>2, <3>3, <3>6 DEF HandlersStored
    <3>8. ClientSteps'
          BY <3>1, <3>2 DEF ClientSteps
    <3>10. Arrivals'
          BY <1>a, <3>1, <3>2 DEF Arrivals
    <3>9. FinalizedIsRetrievable'
          BY <3>1, <3>3, RetrievableStays
    <3> QED BY <3>4, <3>5, <3>7, <3>8, <3>9, <3>10
  <2>3. CASE head # t[1] /\ ~EngineAccepts(t[1])
    <3>1. TypeOK'
          BY <1>0, <1>4, <2>3, GotoStep DEF FinalizeMock, TypeOK
    <3> QED BY <1>0, <1>4, <2>3, <3>1, QuietStep, <1>a DEF FinalizeMock
  <2> QED BY <2>1, <2>2, <2>3
<1>5. CASE FinalizeClient(t)
  <2>1. /\ pc' \in [Threads -> PCs] /\ known' \subseteq 0..MaxHeight
        BY <1>0, <1>5, GotoStep DEF FinalizeClient, Learn, TypeOK, BlockIds
  <2>2. TypeOK'
        BY <1>5, <2>1 DEF FinalizeClient, TypeOK
  <2>3. CASE head = t[1]
    <3>1. t[1] \in executed
          BY <1>5, <2>3 DEF FinalizeClient, HandlersExecuted, BlockIds
    <3> QED BY <1>0, <1>5, <2>2, <2>3, <3>1, QuietStep, <1>a DEF FinalizeClient
  <2>4. CASE head # t[1] /\ EngineAccepts(t[1])
        BY <1>0, <1>5, <2>2, <2>4, QuietStep, <1>a DEF FinalizeClient
  <2>5. CASE head # t[1] /\ ~EngineAccepts(t[1])
        BY <1>0, <1>5, <2>2, <2>5, QuietStep, <1>a DEF FinalizeClient
  <2> QED BY <2>3, <2>4, <2>5
<1>6. CASE UpdateForkchoice(t)
  <2>1. /\ pc' \in [Threads -> PCs]
        /\ pc'[t] = "sethead"
        /\ \A s \in Threads : s # t => pc'[s] = pc[s]
        BY <1>0, <1>6, GotoStep DEF UpdateForkchoice
  <2>2. \A k \in BlockIds : Stored(k) => Stored(k)'
        BY <1>0, <1>6, StoredStays DEF UpdateForkchoice
  <2>3. TypeOK'
        BY <1>6, <2>1 DEF UpdateForkchoice, TypeOK, BlockIds
  <2>4. HandlersExecuted' /\ FinalizedIsExecuted'
        BY <1>6, <2>1 DEF UpdateForkchoice, HandlersExecuted, FinalizedIsExecuted
  <2>5. HandlersStored'
        BY <1>6, <2>1, <2>2 DEF UpdateForkchoice, HandlersStored, TypeOK, BlockIds
  <2>6. ClientSteps'
        BY <1>6, <2>1 DEF UpdateForkchoice, ClientSteps
  <2>7. FinalizedIsRetrievable'
        BY <1>6, <2>2, RetrievableStays DEF UpdateForkchoice
  <2>8. Arrivals'
        BY <1>6, <1>a, <2>1 DEF UpdateForkchoice, Arrivals
  <2> QED BY <2>3, <2>4, <2>5, <2>6, <2>7, <2>8
<1>7. CASE SetHead(t)
  <2>1. /\ pc' \in [Threads -> PCs]
        /\ pc'[t] = "put"
        /\ \A s \in Threads : s # t => pc'[s] = pc[s]
        BY <1>0, <1>7, GotoStep DEF SetHead
  <2>2. \A k \in BlockIds : Stored(k) => Stored(k)'
        BY <1>0, <1>7, StoredStays DEF SetHead
  <2>3. TypeOK'
        BY <1>7, <2>1 DEF SetHead, TypeOK, BlockIds
  <2>4. HandlersExecuted' /\ FinalizedIsExecuted'
        BY <1>7, <2>1 DEF SetHead, HandlersExecuted, FinalizedIsExecuted
  <2>5. Stored(t[1])'
        BY <2>1 DEF Stored
  <2>6. HandlersStored'
        BY <1>7, <2>1, <2>2, <2>5 DEF SetHead, HandlersStored
  <2>7. ClientSteps'
        BY <1>7, <2>1 DEF SetHead, ClientSteps
  <2>8. FinalizedIsRetrievable'
        BY <1>7, <2>2, RetrievableStays DEF SetHead
  <2>9. Arrivals'
        BY <1>7, <1>a, <2>1 DEF SetHead, Arrivals
  <2> QED BY <2>3, <2>4, <2>6, <2>7, <2>8, <2>9
<1>8. CASE PutObject(t)
  <2>1. PICK label \in {"replica", "failed"} : Goto(t, label) /\ disk' \subseteq disk \cup {t[1]}
        BY <1>8 DEF PutObject
  <2>2. /\ pc' \in [Threads -> PCs]
        /\ pc'[t] = label
        /\ \A s \in Threads : s # t => pc'[s] = pc[s]
        BY <1>0, <2>1, GotoStep
  <2>3. memory' = memory \cup {t[1]} /\ pc[t] = "put"
        BY <1>8 DEF PutObject
  <2>4. \A k \in BlockIds : Stored(k) => Stored(k)'
        BY <1>0, <2>1, <2>3, StoredStays
  <2>5. TypeOK'
        BY <1>8, <2>1, <2>2, <2>3 DEF PutObject, TypeOK
  <2>6. HandlersExecuted' /\ FinalizedIsExecuted'
        BY <1>8, <2>2 DEF PutObject, HandlersExecuted, FinalizedIsExecuted
  <2>7. Stored(t[1])'
        BY <2>3 DEF Stored
  <2>8. HandlersStored'
        BY <1>8, <2>2, <2>4, <2>7 DEF PutObject, HandlersStored, TypeOK, BlockIds
  <2>9. ClientSteps'
        BY <1>8, <2>2 DEF PutObject, ClientSteps
  <2>10. FinalizedIsRetrievable'
        BY <1>8, <2>4, RetrievableStays DEF PutObject
  <2>11. Arrivals'
        BY <1>8, <1>a, <2>2 DEF PutObject, Arrivals
  <2> QED BY <2>5, <2>6, <2>8, <2>9, <2>10, <2>11
<1>9. CASE ReplicaOnQC(t)
  <2>1. CASE t[1] # height /\ t[1] = height + 1 /\ BlockValid(t[1])
    <3>1. /\ height' = t[1] /\ RecordValidation(t[1]) /\ Goto(t, "done")
          /\ UNCHANGED <<engine, published, head, executed, memory, disk>>
          /\ pc[t] = "replica"
          BY <1>9, <2>1 DEF ReplicaOnQC
    <3>2. /\ pc' \in [Threads -> PCs]
          /\ pc'[t] = "done"
          /\ \A s \in Threads : s # t => pc'[s] = pc[s]
          BY <1>0, <3>1, GotoStep
    <3>3. \A k \in BlockIds : Stored(k) => Stored(k)'
          BY <1>0, <3>1, StoredStays
    <3>4. known' \subseteq 0..MaxHeight /\ validated' \subseteq BlockIds
          BY <3>1 DEF RecordValidation, Learn, TypeOK, BlockIds
    <3>5. TypeOK'
          BY <3>1, <3>2, <3>4 DEF TypeOK, BlockIds
    <3>6. HandlersExecuted'
          BY <3>1, <3>2 DEF HandlersExecuted
    <3>7. HandlersStored'
          BY <3>1, <3>2, <3>3 DEF HandlersStored, TypeOK, BlockIds
    <3>8. ClientSteps'
          BY <3>1, <3>2 DEF ClientSteps
    <3>9. \A k \in 1..height' : k \in 1..height \/ k = t[1]
          BY <2>1, <3>1 DEF TypeOK
    <3>10. FinalizedIsExecuted'
          BY <3>1, <3>9 DEF FinalizedIsExecuted, HandlersExecuted
    <3>11. \A k \in 1..height' : Stored(k)'
      <4>1. \A k \in 1..height : Stored(k)
            BY DEF FinalizedIsRetrievable, Stored
      <4>2. Stored(t[1])
            BY <3>1 DEF HandlersStored
      <4>3. 1..height \subseteq BlockIds
            BY NodeAssumption DEF TypeOK, BlockIds
      <4> QED BY <3>3, <3>9, <4>1, <4>2, <4>3
    <3>12. FinalizedIsRetrievable'
          BY <3>11 DEF FinalizedIsRetrievable, Stored
    <3>13. Arrivals'
          BY <1>9, <1>a, <3>1, <3>2 DEF Arrivals
    <3> QED BY <3>5, <3>6, <3>7, <3>8, <3>10, <3>12, <3>13
  <2>2. CASE ~(t[1] # height /\ t[1] = height + 1 /\ BlockValid(t[1]))
    <3>1. PICK label \in {"done", "refused"} : Goto(t, label)
          BY <1>9, <2>2 DEF ReplicaOnQC
    <3>2. UNCHANGED <<engine, published, height, head, known, executed, validated, memory, disk>>
          BY <1>9, <2>2 DEF ReplicaOnQC
    <3>3. TypeOK'
          BY <1>0, <3>1, <3>2, GotoStep DEF TypeOK
    <3> QED BY <1>0, <1>9, <3>1, <3>2, <3>3, QuietStep, <1>a DEF ReplicaOnQC
  <2> QED BY <2>1, <2>2
<1>10. CASE EngineError(t)
  <2>1. /\ pc' \in [Threads -> PCs] /\ known' \subseteq 0..MaxHeight
        BY <1>0, <1>10, GotoStep DEF EngineError, Learn, TypeOK, BlockIds
  <2>2. TypeOK'
        BY <1>10, <2>1 DEF EngineError, TypeOK
  <2> QED BY <1>0, <1>10, <2>2, QuietStep, <1>a DEF EngineError
<1>11. CASE LookupValidation(t)
  <2>1. PICK label \in {"execute", "finalize"} : Goto(t, label)
        BY <1>11 DEF LookupValidation
  <2>2. TypeOK'
        BY <1>0, <1>11, <2>1, GotoStep DEF LookupValidation, TypeOK
  <2> QED BY <1>0, <1>11, <2>1, <2>2, QuietStep, <1>a DEF LookupValidation
<1> QED
    BY <1>1, <1>2, <1>3, <1>4, <1>5, <1>6, <1>7, <1>8, <1>9, <1>10, <1>11 DEF HandlerStep

\* Every step preserves the invariant.
LEMMA NextInv == Inv /\ [Next]_vars => Inv'
<1> SUFFICES ASSUME Inv, [Next]_vars PROVE Inv'
    OBVIOUS
<1> USE ThreadParts
<1>0. TypeOK /\ {"arrived", "lost"} \subseteq PCs
      BY DEF Inv, PCs, Running
<1>1. CASE Publish
  <2>1. <<published + 1, 1>> \in Threads
        BY <1>0, <1>1, NodeAssumption DEF Publish, TypeOK, BlockIds
  <2>2. PICK label \in {"arrived", "lost"} : Goto(<<published + 1, 1>>, label)
        BY <1>1 DEF Publish
  <2>3. TypeOK'
    <3>1. pc' \in [Threads -> PCs]
          BY <1>0, <2>1, <2>2, GotoStep
    <3>2. published' \in 0..MaxHeight
          BY <1>0, <1>1, NodeAssumption DEF Publish, TypeOK
    <3> QED BY <1>0, <1>1, <3>1, <3>2 DEF Publish, TypeOK
  <2>4. pc[<<published + 1, 1>>] # "put"
        BY <1>0, <2>1 DEF Inv, Arrivals, TypeOK
  <2>5. published <= published' /\ <<published + 1, 1>>[1] <= published'
        BY <1>0, <1>1 DEF Publish, TypeOK
  <2>6. UNCHANGED <<engine, height, head, executed, memory>>
        BY <1>1 DEF Publish
  <2>7. /\ label \in PCs
        /\ label \notin {"sethead", "put", "replica", "forkchoice"}
        BY <1>0, <2>2
  <2> QED BY <2>1, <2>2, <2>3, <2>4, <2>5, <2>6, <2>7, QuietStep
<1>2. ASSUME NEW k \in BlockIds, OnVoteRequest(k) PROVE Inv'
  <2>1. known' \subseteq 0..MaxHeight /\ validated' \subseteq BlockIds
        BY <1>0, <1>2 DEF OnVoteRequest, RecordValidation, Learn, TypeOK, BlockIds
  <2> QED BY <1>2, <2>1
      DEF OnVoteRequest, Inv, TypeOK, Arrivals, HandlersExecuted, HandlersStored, Stored, ClientSteps,
          FinalizedIsExecuted, FinalizedIsRetrievable
<1>3. ASSUME NEW k \in BlockIds, NEW i \in 1..Deliveries, Redeliver(k, i) PROVE Inv'
  <2>1. TypeOK'
        BY <1>0, <1>3, GotoStep DEF Redeliver, TypeOK
  <2>2. <<k, i>>[1] <= published /\ published <= published
        BY <1>0, <1>3 DEF Redeliver, TypeOK
  <2> QED BY <1>0, <1>3, <2>1, <2>2, QuietStep DEF Redeliver
<1>4. ASSUME NEW t \in Threads, HandlerStep(t) \/ EngineError(t) PROVE Inv'
      BY <1>4, HandlerInv
<1>5. CASE UNCHANGED vars
      BY <1>5
      DEF vars, Inv, TypeOK, Arrivals, HandlersExecuted, HandlersStored, Stored, ClientSteps,
          FinalizedIsExecuted, FinalizedIsRetrievable
<1>6. ASSUME NEW k \in BlockIds, OnVoteRequestError(k) PROVE Inv'
  <2>1. known' \subseteq 0..MaxHeight
        BY <1>0, <1>6 DEF OnVoteRequestError, Learn, TypeOK, BlockIds
  <2> QED BY <1>6, <2>1
      DEF OnVoteRequestError, Inv, TypeOK, Arrivals, HandlersExecuted, HandlersStored, Stored,
          ClientSteps, FinalizedIsExecuted, FinalizedIsRetrievable
<1> QED BY <1>1, <1>2, <1>3, <1>4, <1>5, <1>6 DEF Next

\* The inductive invariant holds in every reachable state.
THEOREM Invariance == Spec => []Inv
<1>1. Init => Inv
      BY InitInv
<1>2. Inv /\ [Next]_vars => Inv'
      BY NextInv
<1> QED BY <1>1, <1>2, PTL DEF Spec

\* The variables of the node have their types: heights stay within the cluster's
\* chain, and handlers are at a step of OnQC.
THEOREM TypeCorrect == Spec => []TypeOK
<1>1. Inv => TypeOK
      BY DEF Inv
<1> QED BY <1>1, Invariance, PTL

\* Consensus never runs ahead of execution: for any number of racing deliveries
\* of the commit QCs, lost or late, and whatever fails between the steps of OnQC,
\* a block in the replica's chain has been finalized by the engine.
THEOREM ConsensusBehindExecution == Spec => []FinalizedIsExecuted
<1>1. Inv => FinalizedIsExecuted
      BY DEF Inv
<1> QED BY <1>1, Invariance, PTL

\* Every finalized block can be served, or one of its handlers is about to store
\* it, also when a second delivery skipped execution and overtook the first one
\* on the way to the replica, and when writing the file fails.
THEOREM FinalizedIsServed == Spec => []FinalizedIsRetrievable
<1>1. Inv => FinalizedIsRetrievable
      BY DEF Inv
<1> QED BY <1>1, Invariance, PTL

\* The execution client forgets nothing, and a handler that reaches the forkchoice
\* call has just had its payload accepted.
LEMMA KnownGrows == ASSUME NEW k, Learn(k) PROVE known \subseteq known'
  BY DEF Learn

\* Every step of every handler keeps the engine's chain.
LEMMA HandlerEngineChain ==
  ASSUME Inv, EngineChain, NEW t \in Threads, HandlerStep(t) \/ EngineError(t)
  PROVE  EngineChain'
<1> USE ThreadParts DEF Inv
<1>0. {"arrived", "validate", "execute", "finalize", "forkchoice", "sethead", "put", "replica",
       "done", "refused", "failed"} \subseteq PCs
      BY DEF PCs, Running
<1>1. CASE FinalizeMock(t)
  <2>1. PICK label \in {"put", "refused"} : Goto(t, label)
        BY <1>1 DEF FinalizeMock
  <2>2. /\ pc'[t] = label
        /\ \A s \in Threads : s # t => pc'[s] = pc[s]
        BY <1>0, <2>1, GotoStep
  <2>3. /\ engine = "mock" /\ UNCHANGED <<engine, known>>
        /\ \/ UNCHANGED <<head, executed>>
           \/ t[1] = head + 1 /\ head' = t[1] /\ executed' = executed \cup {t[1]}
        BY <1>1 DEF FinalizeMock, EngineAccepts, TypeOK, BlockIds
  <2>4. executed' = 1..head'
    <3>1. executed = 1..head /\ head \in Nat
          BY <2>3 DEF EngineChain, TypeOK
    <3>2. CASE UNCHANGED <<head, executed>>
          BY <3>1, <3>2
    <3>3. CASE t[1] = head + 1 /\ head' = t[1] /\ executed' = executed \cup {t[1]}
      <4>1. 1..(head + 1) = (1..head) \cup {head + 1}
            BY <3>1
      <4> QED BY <3>1, <3>3, <4>1
    <3> QED BY <2>3, <3>2, <3>3
  <2> QED BY <2>2, <2>3, <2>4 DEF EngineChain
<1>2. CASE FinalizeClient(t)
  <2>1. PICK label \in {"put", "forkchoice", "refused"} : Goto(t, label)
        BY <1>2 DEF FinalizeClient
  <2>2. /\ pc'[t] = label
        /\ \A s \in Threads : s # t => pc'[s] = pc[s]
        BY <1>0, <2>1, GotoStep
  <2>3. /\ known \subseteq known' /\ UNCHANGED <<engine, head, executed>>
        /\ label = "forkchoice" => t[1] \in known'
    <3>1. CASE head # t[1] /\ EngineAccepts(t[1])
          BY <1>2, <3>1 DEF FinalizeClient, Learn
    <3>2. CASE ~(head # t[1] /\ EngineAccepts(t[1]))
      <4>1. pc'[t] # "forkchoice"
            BY <1>0, <1>2, <3>2, GotoStep DEF FinalizeClient
      <4> QED BY <1>2, <2>2, <3>2, <4>1 DEF FinalizeClient
    <3> QED BY <3>1, <3>2
  <2> QED BY <2>2, <2>3 DEF EngineChain
<1>3. CASE UpdateForkchoice(t)
  <2>1. /\ pc'[t] = "sethead"
        /\ \A s \in Threads : s # t => pc'[s] = pc[s]
        BY <1>0, <1>3, GotoStep DEF UpdateForkchoice
  <2> QED BY <1>3, <2>1 DEF UpdateForkchoice, EngineChain, ClientSteps
<1>4. CASE SetHead(t)
  <2>1. /\ pc'[t] = "put"
        /\ \A s \in Threads : s # t => pc'[s] = pc[s]
        BY <1>0, <1>4, GotoStep DEF SetHead
  <2> QED BY <1>4, <2>1 DEF SetHead, EngineChain, ClientSteps
<1>5. CASE \/ SkipExecution(t) \/ ExecutionBehind(t) \/ LookupValidation(t)
           \/ ValidateCommitted(t) \/ PutObject(t) \/ ReplicaOnQC(t) \/ EngineError(t)
  <2>1. PICK label \in PCs \ {"forkchoice"} : Goto(t, label)
    <3>1. CASE SkipExecution(t) \/ ExecutionBehind(t) \/ LookupValidation(t)
          BY <1>0, <3>1 DEF SkipExecution, ExecutionBehind, LookupValidation
    <3>2. CASE ValidateCommitted(t) \/ PutObject(t)
          BY <1>0, <3>2 DEF ValidateCommitted, PutObject
    <3>3. CASE ReplicaOnQC(t) \/ EngineError(t)
          BY <1>0, <3>3 DEF ReplicaOnQC, EngineError
    <3> QED BY <1>5, <3>1, <3>2, <3>3
  <2>2. UNCHANGED <<engine, head, executed>> /\ known \subseteq known'
    <3>1. CASE SkipExecution(t) \/ ExecutionBehind(t) \/ LookupValidation(t) \/ PutObject(t)
          BY <3>1 DEF SkipExecution, ExecutionBehind, LookupValidation, PutObject
    <3>2. CASE ValidateCommitted(t) \/ ReplicaOnQC(t) \/ EngineError(t)
          BY <3>2, KnownGrows DEF ValidateCommitted, ReplicaOnQC, EngineError, RecordValidation
    <3> QED BY <1>5, <3>1, <3>2
  <2>3. /\ pc'[t] = label
        /\ \A s \in Threads : s # t => pc'[s] = pc[s]
        BY <2>1, GotoStep
  <2> QED BY <2>1, <2>2, <2>3 DEF EngineChain
<1> QED BY <1>1, <1>2, <1>3, <1>4, <1>5 DEF HandlerStep

\* Every step keeps it.
LEMMA NextEngineChain == Inv /\ EngineChain /\ [Next]_vars => EngineChain'
<1> SUFFICES ASSUME Inv, EngineChain, [Next]_vars PROVE EngineChain'
    OBVIOUS
<1> USE ThreadParts
<1>0. TypeOK /\ {"arrived", "lost"} \subseteq PCs
      BY DEF Inv, PCs, Running
<1>1. CASE Publish
  <2>1. <<published + 1, 1>> \in Threads
        BY <1>0, <1>1, NodeAssumption DEF Publish, TypeOK, BlockIds
  <2>2. PICK label \in {"arrived", "lost"} : Goto(<<published + 1, 1>>, label)
        BY <1>1 DEF Publish
  <2>3. \A s \in Threads : pc'[s] = "forkchoice" => pc[s] = "forkchoice"
        BY <1>0, <2>1, <2>2, GotoStep
  <2> QED BY <1>1, <2>3 DEF Publish, EngineChain
<1>2. ASSUME NEW k \in BlockIds, OnVoteRequest(k) \/ OnVoteRequestError(k) PROVE EngineChain'
  <2>1. UNCHANGED <<engine, head, executed, pc>> /\ known \subseteq known'
        BY <1>2, KnownGrows DEF OnVoteRequest, OnVoteRequestError, RecordValidation
  <2> QED BY <2>1 DEF EngineChain
<1>3. ASSUME NEW k \in BlockIds, NEW i \in 1..Deliveries, Redeliver(k, i) PROVE EngineChain'
  <2>1. \A s \in Threads : pc'[s] = "forkchoice" => pc[s] = "forkchoice"
        BY <1>0, <1>3, GotoStep DEF Redeliver
  <2> QED BY <1>3, <2>1 DEF Redeliver, EngineChain
<1>4. ASSUME NEW t \in Threads, HandlerStep(t) \/ EngineError(t) PROVE EngineChain'
      BY <1>4, HandlerEngineChain
<1>5. CASE UNCHANGED vars
      BY <1>5 DEF vars, EngineChain
<1> QED BY <1>1, <1>2, <1>3, <1>4, <1>5 DEF Next

\* The client accepts the block after the tip in every state, and the mock too,
\* unless it has executed that block already.
LEMMA EngineAcceptsNext ==
  ASSUME Inv, EngineChain
  PROVE  EngineAccepts(height + 1) \/ (engine = "mock" /\ height + 1 \in executed)
<1>1. height \in Nat /\ head \in Nat /\ engine \in {"mock", "client"}
      BY NodeAssumption DEF Inv, TypeOK
<1>2. height # 0 => height \in executed
      BY <1>1 DEF Inv, FinalizedIsExecuted
<1>3. CASE engine = "client"
  <2>1. height \in known
        BY <1>2, <1>3 DEF EngineChain
  <2> QED BY <1>1, <1>3, <2>1 DEF EngineAccepts
<1>4. CASE engine = "mock"
  <2>1. height <= head
        BY <1>1, <1>2, <1>4 DEF EngineChain
  <2>2. CASE height = head
        BY <1>1, <1>4, <2>2 DEF EngineAccepts
  <2>3. CASE height # head
    <3>1. height + 1 \in 1..head
          BY <1>1, <2>1, <2>3
    <3> QED BY <1>4, <3>1 DEF EngineChain
  <2> QED BY <2>2, <2>3
<1> QED BY <1>1, <1>3, <1>4

\* The commit QC of the next block is refused only by the mock engine, and only
\* when the mock has executed the block for another delivery: for any number of
\* blocks and deliveries and any faults, a later delivery makes good what an
\* earlier one left undone, and where Client.head points does not matter.
THEOREM NextBlockIsNotRefused == Spec => NextBlockNotRefused
<1> DEFINE Refusals ==
      \A t \in Threads :
        t[1] = height + 1 /\ pc[t] \in Running /\ pc'[t] = "refused"
          => engine = "mock" /\ t[1] \in executed
<1>1. Init => EngineChain
      BY DEF Init, EngineChain
<1>2. Inv /\ EngineChain /\ [Next]_vars => EngineChain'
      BY NextEngineChain
<1>3. Inv /\ EngineChain /\ [Next]_vars => [Refusals]_vars
  <2> SUFFICES ASSUME Inv, EngineChain, Next, NEW t \in Threads,
                      t[1] = height + 1, pc[t] \in Running, pc'[t] = "refused",
                      ~(engine = "mock" /\ t[1] \in executed)
               PROVE  FALSE
      OBVIOUS
  <2> USE ThreadParts DEF Inv
  <2>0. /\ "refused" \notin Running /\ TypeOK
        /\ {"arrived", "lost", "validate", "execute", "finalize", "forkchoice", "sethead", "put",
            "replica", "done", "refused", "failed"} \subseteq PCs
        BY DEF Running, PCs
  <2>1. EngineAccepts(t[1])
        BY EngineAcceptsNext
  <2>2. CASE Publish
    <3>1. <<published + 1, 1>> \in Threads
          BY <2>0, <2>2, NodeAssumption DEF Publish, TypeOK, BlockIds
    <3>2. PICK label \in {"arrived", "lost"} : Goto(<<published + 1, 1>>, label)
          BY <2>2 DEF Publish
    <3> QED BY <2>0, <3>1, <3>2, GotoStep
  <2>3. ASSUME NEW k \in BlockIds, OnVoteRequest(k) \/ OnVoteRequestError(k) PROVE FALSE
        BY <2>0, <2>3 DEF OnVoteRequest, OnVoteRequestError
  <2>4. ASSUME NEW k \in BlockIds, NEW i \in 1..Deliveries, Redeliver(k, i) PROVE FALSE
        BY <2>0, <2>4, GotoStep DEF Redeliver
  <2>5. ASSUME NEW s \in Threads, HandlerStep(s) \/ EngineError(s) PROVE FALSE
    <3>1. PICK label \in PCs : Goto(s, label)
      <4>1. CASE SkipExecution(s) \/ ExecutionBehind(s) \/ LookupValidation(s) \/ UpdateForkchoice(s)
            BY <2>0, <4>1 DEF SkipExecution, ExecutionBehind, LookupValidation, UpdateForkchoice
      <4>2. CASE ValidateCommitted(s) \/ FinalizeMock(s) \/ FinalizeClient(s)
            BY <2>0, <4>2 DEF ValidateCommitted, FinalizeMock, FinalizeClient
      <4>3. CASE SetHead(s) \/ PutObject(s) \/ ReplicaOnQC(s) \/ EngineError(s)
            BY <2>0, <4>3 DEF SetHead, PutObject, ReplicaOnQC, EngineError
      <4> QED BY <2>5, <4>1, <4>2, <4>3 DEF HandlerStep
    <3>2. s = t /\ Goto(t, "refused")
      <4>1. /\ pc'[s] = label
            /\ \A u \in Threads : u # s => pc'[u] = pc[u]
            BY <2>0, <3>1, GotoStep
      <4> QED BY <2>0, <3>1, <4>1
    <3>3. \A label2 \in PCs : Goto(t, label2) => label2 = "refused"
          BY <2>0, GotoStep
    <3>4. \/ ValidateCommitted(t) \/ FinalizeMock(t) \/ FinalizeClient(t) \/ ReplicaOnQC(t)
      <4>1. ~SkipExecution(t) /\ ~ExecutionBehind(t) /\ ~LookupValidation(t)
            BY <2>0, <3>3 DEF SkipExecution, ExecutionBehind, LookupValidation
      <4>2. ~UpdateForkchoice(t) /\ ~SetHead(t)
            BY <2>0, <3>3 DEF UpdateForkchoice, SetHead
      <4>3. ~PutObject(t) /\ ~EngineError(t)
            BY <2>0, <3>3 DEF PutObject, EngineError
      <4> QED BY <2>5, <3>2, <4>1, <4>2, <4>3 DEF HandlerStep
    <3>5. ~ValidateCommitted(t)
          BY <2>0, <2>1, <3>3 DEF ValidateCommitted
    <3>6. ~FinalizeMock(t) /\ ~FinalizeClient(t)
          BY <2>0, <2>1, <3>3 DEF FinalizeMock, FinalizeClient
    <3>7. ~ReplicaOnQC(t)
          BY <2>0, <2>1, <3>3 DEF ReplicaOnQC, BlockValid
    <3> QED BY <3>4, <3>5, <3>6, <3>7
  <2> QED BY <2>2, <2>3, <2>4, <2>5 DEF Next
<1> QED BY <1>1, <1>2, <1>3, Invariance, PTL DEF NextBlockNotRefused, Spec

-----------------------------------------------------------------------------
(* The mock engine on a reliable network *)

Reliable == Faults = {} /\ Engines = {"mock"}

\* Head and tip are both at genesis in the beginning.
LEMMA InitFollowing == Init => Following
  BY ThreadParts, NodeAssumption DEF Init, Following

\* A handler goes on without moving head or tip: the first one of the last block
\* may not give up before the head has moved, and those of that block that are
\* past the engine may not give up before the tip has.
LEMMA FollowingStep ==
  ASSUME Inv, Following, NEW t \in Threads, NEW label \in PCs, Goto(t, label),
         UNCHANGED <<published, height, head>>, validated \subseteq validated',
         label \in {"put", "replica"} => t[1] <= head,
         label = "finalize" => t[1] \in validated',
         t = <<published, 1>> /\ head # published =>
           label \in {"arrived", "validate", "execute", "finalize"},
         t[1] = published /\ height # published /\ pc[t] \in {"put", "replica"} =>
           label \in {"put", "replica"}
  PROVE  Following'
<1>1. /\ pc'[t] = label
      /\ \A s \in Threads : s # t => pc'[s] = pc[s]
      BY GotoStep DEF Inv
<1>2. height # published \/ head # published => published \in BlockIds
      BY NodeAssumption DEF Inv, TypeOK, Following, BlockIds
<1>3. \A s \in Threads : /\ pc'[s] \in {"put", "replica"} => s[1] <= head'
                         /\ pc'[s] = "finalize" => s[1] \in validated'
      BY <1>1 DEF Following
<1>4. head # published => pc'[<<published, 1>>] \in {"arrived", "validate", "execute", "finalize"}
  <2>1. head # published => <<published, 1>> \in Threads
        BY <1>2, ThreadParts, NodeAssumption
  <2> QED BY <1>1, <2>1 DEF Following
<1>5. ASSUME height # published, head = published
      PROVE  \E i \in 1..Deliveries : pc'[<<published, i>>] \in {"put", "replica"}
  <2>1. PICK i \in 1..Deliveries : pc[<<published, i>>] \in {"put", "replica"}
        BY <1>5 DEF Following
  <2>2. <<published, i>> \in Threads /\ <<published, i>>[1] = published
        BY <1>2, <1>5, ThreadParts
  <2> QED BY <1>1, <1>5, <2>1, <2>2
<1> QED BY <1>3, <1>4, <1>5 DEF Following

\* No step of a handler on a reliable network leaves head or tip behind.
LEMMA HandlerFollowing ==
  ASSUME Reliable, Inv, Following, NEW t \in Threads, HandlerStep(t) \/ EngineError(t)
  PROVE  Following'
<1> USE ThreadParts DEF Inv
<1>0. /\ engine = "mock" /\ published \in Nat /\ head \in Nat /\ height \in Nat
      /\ t[1] \in Nat \ {0}
      /\ pc[t] # "idle" => t[1] <= published
      /\ {"validate", "execute", "finalize", "put", "replica", "done", "refused"} \subseteq PCs
      BY DEF Reliable, TypeOK, BlockIds, Arrivals, Running, PCs
<1>a. t = <<published, 1>> => t[1] = published
      OBVIOUS
<1>1. CASE SkipExecution(t)
      BY <1>0, <1>1, <1>a, FollowingStep DEF SkipExecution
<1>2. CASE ExecutionBehind(t)
      BY <1>0, <1>2, FollowingStep DEF ExecutionBehind
<1>3. CASE LookupValidation(t)
  <2>1. CASE t[1] \in validated
        BY <1>0, <1>3, <2>1, FollowingStep DEF LookupValidation
  <2>2. CASE t[1] \notin validated
        BY <1>0, <1>3, <2>2, FollowingStep DEF LookupValidation
  <2> QED BY <2>1, <2>2
<1>8. CASE ValidateCommitted(t)
  <2>1. CASE EngineAccepts(t[1])
        BY <1>0, <1>8, <2>1, FollowingStep DEF ValidateCommitted
  <2>2. CASE ~EngineAccepts(t[1])
    <3>1. t = <<published, 1>> => head = published
          BY <1>0, <1>a, <2>2 DEF EngineAccepts, Following
    <3> QED BY <1>0, <1>8, <2>2, <3>1, FollowingStep DEF ValidateCommitted
  <2> QED BY <2>1, <2>2
<1>4. CASE FinalizeMock(t)
  <2>1. CASE head = t[1]
        BY <1>0, <1>4, <1>a, <2>1, FollowingStep DEF FinalizeMock
  <2>2. CASE head # t[1] /\ EngineAccepts(t[1])
    <3>1. /\ head' = t[1] /\ Goto(t, "put") /\ UNCHANGED <<published, height, validated>>
          /\ pc[t] = "finalize"
          BY <1>4, <2>2 DEF FinalizeMock
    <3>2. head = published - 1 /\ t[1] = published
          BY <1>0, <2>2, <3>1 DEF EngineAccepts, Following
    <3>3. /\ pc'[t] = "put"
          /\ \A s \in Threads : s # t => pc'[s] = pc[s]
          BY <1>0, <3>1, GotoStep
    <3>4. t = <<published, t[2]>> /\ t[2] \in 1..Deliveries
          BY <3>2
    <3>5. \E i \in 1..Deliveries : pc'[<<published, i>>] \in {"put", "replica"}
          BY <3>3, <3>4
    <3>6. \A s \in Threads : /\ pc'[s] \in {"put", "replica"} => s[1] <= head'
                             /\ pc'[s] = "finalize" => s[1] \in validated'
      <4> SUFFICES ASSUME NEW s \in Threads
                   PROVE  /\ pc'[s] \in {"put", "replica"} => s[1] <= head'
                          /\ pc'[s] = "finalize" => s[1] \in validated'
          OBVIOUS
      <4>1. s[1] \in Nat /\ (pc[s] \in {"put", "replica"} => s[1] <= published - 1)
            BY <3>2 DEF Following, BlockIds
      <4> QED BY <1>0, <3>1, <3>2, <3>3, <4>1 DEF Following
    <3>7. head' \in validated'
          BY <3>1 DEF Following
    <3> QED BY <1>0, <3>1, <3>2, <3>5, <3>6, <3>7 DEF Following
  <2>3. CASE head # t[1] /\ ~EngineAccepts(t[1])
    <3>1. t = <<published, 1>> => head = published
          BY <1>0, <1>a, <2>3 DEF EngineAccepts, Following
    <3> QED BY <1>0, <1>4, <2>3, <3>1, FollowingStep DEF FinalizeMock
  <2> QED BY <2>1, <2>2, <2>3
<1>5. CASE PutObject(t)
  <2>1. Goto(t, "replica")
        BY <1>5 DEF PutObject, Reliable
  <2>2. t[1] <= head
        BY <1>5 DEF PutObject, Following
  <2>3. t = <<published, 1>> => head = published
        BY <1>0, <1>a, <2>2 DEF Following
  <2> QED BY <1>0, <1>5, <2>1, <2>2, <2>3, FollowingStep DEF PutObject
<1>6. CASE ReplicaOnQC(t)
  <2>0. t[1] <= head
        BY <1>6 DEF ReplicaOnQC, Following
  <2>1. CASE t[1] = height
    <3>1. t[1] = published => head = published /\ height = published
          BY <1>0, <2>0, <2>1 DEF Following
    <3> QED BY <1>0, <1>6, <2>1, <3>1, FollowingStep DEF ReplicaOnQC
  <2>2. CASE t[1] = height + 1 /\ BlockValid(t[1])
    <3>1. /\ height' = t[1] /\ Goto(t, "done") /\ UNCHANGED <<published, head>>
          /\ validated \subseteq validated'
          BY <1>0, <1>6, <2>2 DEF ReplicaOnQC, RecordValidation
    <3>2. height' = published /\ head = published
          BY <1>0, <1>6, <2>0, <2>2, <3>1 DEF Following
    <3>3. /\ pc'[t] = "done"
          /\ \A s \in Threads : s # t => pc'[s] = pc[s]
          BY <1>0, <3>1, GotoStep
    <3> QED BY <1>0, <3>1, <3>2, <3>3 DEF Following
  <2>3. CASE t[1] # height /\ ~(t[1] = height + 1 /\ BlockValid(t[1]))
    <3>1. Goto(t, "refused") /\ UNCHANGED <<published, height, head, validated>>
          BY <1>6, <2>3 DEF ReplicaOnQC
    <3>2. t[1] = published => head = published /\ height = published
          BY <1>0, <2>0, <2>3 DEF Following, BlockValid
    <3> QED BY <1>0, <3>1, <3>2, FollowingStep
  <2> QED BY <1>0, <2>1, <2>2, <2>3
<1>7. CASE FinalizeClient(t) \/ UpdateForkchoice(t) \/ SetHead(t) \/ EngineError(t)
      BY <1>0, <1>7 DEF FinalizeClient, UpdateForkchoice, SetHead, EngineError, ClientSteps
<1> QED BY <1>1, <1>2, <1>3, <1>4, <1>5, <1>6, <1>7, <1>8 DEF HandlerStep

\* When no handler is running, head and tip are at the last published block.
LEMMA AtRest == Inv /\ Following /\ Quiescent => head = published /\ height = published
<1> SUFFICES ASSUME Inv, Following, Quiescent PROVE head = published /\ height = published
    OBVIOUS
<1>0. {"arrived", "validate", "execute", "finalize", "put", "replica"} \subseteq Running
      BY DEF Running
<1>1. head # published \/ height # published => published \in BlockIds
      BY NodeAssumption DEF Inv, Following, TypeOK, BlockIds
<1>2. head # published => <<published, 1>> \in Threads
      BY <1>1, ThreadParts, NodeAssumption
<1>3. head = published
      BY <1>0, <1>2 DEF Following, Quiescent
<1>4. \A i \in 1..Deliveries : height # published => <<published, i>> \in Threads
      BY <1>1, ThreadParts
<1>5. height = published
      BY <1>0, <1>3, <1>4 DEF Following, Quiescent
<1> QED BY <1>3, <1>5

\* Every step preserves it when nothing fails.
LEMMA NextFollowing == Reliable /\ Inv /\ Following /\ [Next]_vars => Following'
<1> SUFFICES ASSUME Reliable, Inv, Following, [Next]_vars PROVE Following'
    OBVIOUS
<1> USE ThreadParts DEF Inv
<1>0. /\ published \in Nat /\ head \in Nat /\ height \in Nat
      /\ "arrived" \in PCs
      /\ {"arrived", "validate", "execute", "finalize", "put", "replica"} \subseteq Running
      BY DEF TypeOK, Running, PCs
<1>1. CASE Publish
  <2> DEFINE t == <<published + 1, 1>>
  <2>1. t \in Threads
        BY <1>0, <1>1, NodeAssumption DEF Publish, BlockIds
  <2>2. /\ Goto(t, "arrived") /\ published' = published + 1
        /\ UNCHANGED <<height, head, validated>>
        /\ \A s \in Threads : pc[s] \notin Running
        BY <1>1 DEF Publish, Reliable
  <2>3. /\ pc'[t] = "arrived"
        /\ \A s \in Threads : s # t => pc'[s] = pc[s]
        BY <1>0, <2>1, <2>2, GotoStep
  <2>4. height = published /\ head = published
        BY <1>0, <2>2, AtRest DEF Quiescent
  <2>5. \A s \in Threads : /\ pc'[s] \in {"put", "replica"} => s[1] <= head'
                           /\ pc'[s] = "finalize" => s[1] \in validated'
        BY <2>2, <2>3 DEF Following
  <2> QED BY <1>0, <2>2, <2>3, <2>4, <2>5 DEF Following
<1>2. ASSUME NEW k \in BlockIds, OnVoteRequest(k) \/ OnVoteRequestError(k) PROVE Following'
  <2>1. OnVoteRequest(k)
        BY <1>2 DEF OnVoteRequestError, Reliable
  <2> QED BY <2>1 DEF OnVoteRequest, RecordValidation, Following
<1>3. ASSUME NEW k \in BlockIds, NEW i \in 1..Deliveries, Redeliver(k, i) PROVE Following'
  <2>1. <<k, i>> # <<published, 1>>
        BY <1>3 DEF Redeliver
  <2> QED BY <1>0, <1>3, <2>1, FollowingStep DEF Redeliver
<1>4. ASSUME NEW t \in Threads, HandlerStep(t) \/ EngineError(t) PROVE Following'
      BY <1>4, HandlerFollowing
<1>5. CASE UNCHANGED vars
      BY <1>5 DEF vars, Following
<1> QED BY <1>1, <1>2, <1>3, <1>4, <1>5 DEF Next

\* With the mock engine, and with no request lost or given up on, the execution
\* head is the payload of the tip whenever no handler is running, however often
\* the commit QCs are delivered.
THEOREM HeadFollowsTip ==
  ASSUME Faults = {}, Engines = {"mock"}
  PROVE  Spec => []HeadMatchesTip
<1>1. Init => Following
      BY InitFollowing
<1>2. Inv /\ Following /\ [Next]_vars => Following'
      BY NextFollowing DEF Reliable
<1>3. Inv /\ Following => HeadMatchesTip
      BY AtRest DEF HeadMatchesTip
<1> QED BY <1>1, <1>2, <1>3, Invariance, PTL DEF Spec
=============================================================================
