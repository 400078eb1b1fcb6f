--------------------------- MODULE ValidatorNode ----------------------------
(***************************************************************************)
(* How one validator finalizes what the cluster has decided: Node.OnQC of  *)
(* internal/node/node.go, which drives four stateful parts one after the   *)
(* other and holds no lock across them:                                    *)
(*                                                                         *)
(*   validateBlock -> execution.Finalize -> objectStore.Put -> replica.OnQC *)
(*                                                                         *)
(* HotStuff (see that module) decides one block per height, so blocks are  *)
(* numbered 1..MaxHeight and 0 is genesis; block k carries the execution   *)
(* payload k, whose parent is payload k - 1.  The requests that carry the  *)
(* commit QC of a block are handled by HTTP goroutines of their own, each  *)
(* a thread <<k, i>> with a program counter.  The prepare and precommit    *)
(* requests reach the node under Replica.mu and are one action.            *)
(*                                                                         *)
(* The execution layer is engine.Mock (atomic under its mutex, insists on  *)
(* extending its head) or engine.Client (a JSON-RPC conversation with an   *)
(* external execution client, which accepts any payload whose parent it    *)
(* knows).                                                                 *)
(*                                                                         *)
(* EngineAcceptsAtHead, BlockValidUncached, SkipExecutionAlways,           *)
(* FinalizeMockUnchecked, PutObjectOnDiskOnly and ReplicaOnQCCounting are  *)
(* faulty versions of the definitions after them and not part of the       *)
(* specification (see README).                                             *)
(***************************************************************************)
EXTENDS Integers, FiniteSets

CONSTANTS
  MaxHeight,    \* bound: number of blocks the cluster decides
  Deliveries,   \* bound: how often the commit QC of a block may reach the node
  Repeated,     \* bound: the blocks whose commit QC may reach it more than once
  Engines,      \* the execution layers a node may be started with
  Faults        \* what may go wrong, see FaultKinds

\* "loss":    the request with a commit QC never reaches the node;
\* "overlap": the cluster goes on while handlers of this node are still running
\*            (the proposer gave up on them after its 20 s timeout);
\* "disk":    writing the object file fails;
\* "engine":  a call to the execution client fails or times out.
FaultKinds == {"loss", "overlap", "disk", "engine"}

ASSUME NodeAssumption ==
  /\ MaxHeight \in Nat \ {0}
  /\ Deliveries \in Nat \ {0}
  /\ Engines \subseteq {"mock", "client"}
  /\ Faults \subseteq FaultKinds

BlockIds == 1..MaxHeight
Threads == BlockIds \X (1..Deliveries)

VARIABLES
  engine,      \* the execution layer of this node, fixed by its command line
  published,   \* the cluster has broadcast the commit QCs of blocks 1..published
  height,      \* Replica.height; the tip is the block of that height
  head,        \* Mock.head or Client.head: the payload the node takes for the head
  known,       \* payloads the external execution client has accepted as VALID
  executed,    \* history: payloads for which the engine's Finalize has succeeded
  validated,   \* Node.validatedBlocks and Node.validatedExecution
  memory,      \* Store.objects
  disk,        \* object files in Store.dir
  pc           \* pc[<<k, i>>]: where the i-th handler of block k's commit QC is

vars == <<engine, published, height, head, known, executed, validated, memory, disk, pc>>

\* "idle": not sent; "lost": sent and lost; "arrived" ... "replica": running, at
\* that step of OnQC; "done": answered with success; "refused": with the error of
\* an engine or a replica that does not take the block; "failed": with the error
\* of a call that could not be carried out.
Running ==
  {"arrived", "validate", "execute", "finalize", "forkchoice", "sethead", "put", "replica"}
PCs == Running \cup {"idle", "lost", "done", "refused", "failed"}

TypeOK ==
  /\ engine \in Engines
  /\ published \in 0..MaxHeight
  /\ height \in 0..MaxHeight
  /\ head \in 0..MaxHeight
  /\ known \subseteq 0..MaxHeight
  /\ executed \subseteq BlockIds
  /\ validated \subseteq BlockIds
  /\ memory \subseteq BlockIds
  /\ disk \subseteq BlockIds
  /\ pc \in [Threads -> PCs]

Goto(t, label) == pc' = [pc EXCEPT ![t] = label]

Init ==
  /\ engine \in Engines
  /\ published = 0
  /\ height = 0
  /\ head = 0
  /\ known = {0}
  /\ executed = {}
  /\ validated = {}
  /\ memory = {}
  /\ disk = {}
  /\ pc = [t \in Threads |-> "idle"]

-----------------------------------------------------------------------------
EngineAcceptsAtHead(k) == k - 1 = head

\* execution.Validate: the mock compares the parent with its head; the client
\* sends newPayload, which is VALID when the parent is known and executed.
EngineAccepts(k) ==
  IF engine = "mock" THEN k - 1 = head ELSE k - 1 \in known

\* newPayload VALID leaves the payload in the execution client.
Learn(k) == known' = IF engine = "mock" THEN known ELSE known \cup {k}

BlockValidUncached(k) == EngineAccepts(k)

\* validateBlock of a well-formed block: cached, or accepted by the engine.
BlockValid(k) == k \in validated \/ EngineAccepts(k)

\* Its side effects when it succeeds.
RecordValidation(k) ==
  /\ validated' = validated \cup {k}
  /\ IF k \in validated THEN UNCHANGED known ELSE Learn(k)

\* The proposal, the prepare QC or the precommit QC of block k is handled by
\* the replica: validateBlockLocked demands the next height, then calls
\* validateBlock.  The decided block of a height can only be proposed once the
\* block before it is decided.
OnVoteRequest(k) ==
  /\ k <= published + 1
  /\ k = height + 1
  /\ BlockValid(k)
  /\ RecordValidation(k)
  /\ UNCHANGED <<engine, published, height, head, executed, memory, disk, pc>>

\* The call of the execution client fails or times out during such a request: the
\* replica answers with the error, but the payload may have been taken all the same.
OnVoteRequestError(k) ==
  /\ "engine" \in Faults
  /\ engine = "client"
  /\ k <= published + 1
  /\ k = height + 1
  /\ k \notin validated
  /\ EngineAccepts(k)
  /\ Learn(k)
  /\ UNCHANGED <<engine, published, height, head, executed, validated, memory, disk, pc>>

\* The proposer of the next block broadcasts its commit QC: broadcastQC waits
\* for every answer unless a request times out.
Publish ==
  /\ published < MaxHeight
  /\ "overlap" \in Faults \/ \A t \in Threads : pc[t] \notin Running
  /\ published' = published + 1
  /\ \/ Goto(<<published + 1, 1>>, "arrived")
     \/ "loss" \in Faults /\ Goto(<<published + 1, 1>>, "lost")
  /\ UNCHANGED <<engine, height, head, known, executed, validated, memory, disk>>

\* The same request reaches the node once more.
Redeliver(k, i) ==
  /\ i > 1
  /\ k \in Repeated
  /\ k <= published
  /\ pc[<<k, i>>] = "idle"
  /\ Goto(<<k, i>>, "arrived")
  /\ UNCHANGED <<engine, published, height, head, known, executed, validated, memory, disk>>

-----------------------------------------------------------------------------
(* The steps of Node.OnQC with the commit QC of block k, t = <<k, i>> *)

SkipExecutionAlways(t) ==
  /\ pc[t] = "arrived"
  /\ Goto(t, "replica")
  /\ UNCHANGED <<engine, published, height, head, known, executed, validated, memory, disk>>

\* If the engine is already at this block, go straight to the replica.
SkipExecution(t) ==
  /\ pc[t] = "arrived"
  /\ head = t[1]
  /\ Goto(t, "replica")
  /\ UNCHANGED <<engine, published, height, head, known, executed, validated, memory, disk>>

\* Otherwise the QC is verified ...
ExecutionBehind(t) ==
  /\ pc[t] = "arrived"
  /\ head # t[1]
  /\ Goto(t, "validate")
  /\ UNCHANGED <<engine, published, height, head, known, executed, validated, memory, disk>>

\* ... and validateBlock called, with no look at the replica's height: it looks
\* the block up in the caches, under their mutexes ...
LookupValidation(t) ==
  /\ pc[t] = "validate"
  /\ Goto(t, IF t[1] \in validated THEN "finalize" ELSE "execute")
  /\ UNCHANGED <<engine, published, height, head, known, executed, validated, memory, disk>>

\* ... and asks the engine, with no mutex held, when it is in none of them.
ValidateCommitted(t) ==
  /\ pc[t] = "execute"
  /\ IF EngineAccepts(t[1])
     THEN validated' = validated \cup {t[1]} /\ Learn(t[1]) /\ Goto(t, "finalize")
     ELSE UNCHANGED <<validated, known>> /\ Goto(t, "refused")
  /\ UNCHANGED <<engine, published, height, head, executed, memory, disk>>

FinalizeMockUnchecked(t) ==
  /\ engine = "mock"
  /\ pc[t] = "finalize"
  /\ head' = t[1]
  /\ executed' = executed \cup {t[1]}
  /\ Goto(t, "put")
  /\ UNCHANGED <<engine, published, height, known, validated, memory, disk>>

\* Mock.Finalize, under Mock.mu.
FinalizeMock(t) ==
  /\ engine = "mock"
  /\ pc[t] = "finalize"
  /\ IF head = t[1]
     THEN UNCHANGED <<head, executed>> /\ Goto(t, "put")
     ELSE IF EngineAccepts(t[1])
     THEN head' = t[1] /\ executed' = executed \cup {t[1]} /\ Goto(t, "put")
     ELSE UNCHANGED <<head, executed>> /\ Goto(t, "refused")
  /\ UNCHANGED <<engine, published, height, known, validated, memory, disk>>

\* Client.Finalize, first part: nothing to do at the head, else newPayload.
FinalizeClient(t) ==
  /\ engine = "client"
  /\ pc[t] = "finalize"
  /\ IF head = t[1]
     THEN UNCHANGED known /\ Goto(t, "put")
     ELSE IF EngineAccepts(t[1])
     THEN Learn(t[1]) /\ Goto(t, "forkchoice")
     ELSE UNCHANGED known /\ Goto(t, "refused")
  /\ UNCHANGED <<engine, published, height, head, executed, validated, memory, disk>>

\* forkchoiceUpdated answers VALID: the execution client knows the payload.
UpdateForkchoice(t) ==
  /\ pc[t] = "forkchoice"
  /\ executed' = executed \cup {t[1]}
  /\ Goto(t, "sethead")
  /\ UNCHANGED <<engine, published, height, head, known, validated, memory, disk>>

\* Client.head is assigned under a lock of its own, after the call.
SetHead(t) ==
  /\ pc[t] = "sethead"
  /\ head' = t[1]
  /\ Goto(t, "put")
  /\ UNCHANGED <<engine, published, height, known, executed, validated, memory, disk>>

\* A call to the execution client fails or times out and OnQC returns the error;
\* a newPayload may have been carried out all the same.
EngineError(t) ==
  /\ "engine" \in Faults
  /\ engine = "client"
  /\ pc[t] \in {"execute", "finalize", "forkchoice"}
  /\ \/ UNCHANGED known
     \/ EngineAccepts(t[1]) /\ Learn(t[1])
  /\ Goto(t, "failed")
  /\ UNCHANGED <<engine, published, height, head, executed, validated, memory, disk>>

PutObjectOnDiskOnly(t) ==
  /\ pc[t] = "put"
  /\ \/ disk' = disk \cup {t[1]} /\ Goto(t, "replica")
     \/ "disk" \in Faults /\ UNCHANGED disk /\ Goto(t, "failed")
  /\ UNCHANGED <<engine, published, height, head, known, executed, validated, memory>>

\* objectStore.Put: into memory, then into a file.  A failing write returns an
\* error after the object is already in memory.
PutObject(t) ==
  /\ pc[t] = "put"
  /\ memory' = memory \cup {t[1]}
  /\ \/ disk' = disk \cup {t[1]} /\ Goto(t, "replica")
     \/ "disk" \in Faults /\ UNCHANGED disk /\ Goto(t, "failed")
  /\ UNCHANGED <<engine, published, height, head, known, executed, validated>>

ReplicaOnQCCounting(t) ==
  /\ pc[t] = "replica"
  /\ height' = height + 1
  /\ Goto(t, "done")
  /\ UNCHANGED <<engine, published, head, known, validated, executed, memory, disk>>

\* replica.OnQC with a commit QC: already the tip, or the next block, or an
\* error.  The next block goes through validateBlock once more.
ReplicaOnQC(t) ==
  /\ pc[t] = "replica"
  /\ IF t[1] = height
     THEN UNCHANGED <<height, validated, known>> /\ Goto(t, "done")
     ELSE IF t[1] = height + 1 /\ BlockValid(t[1])
     THEN height' = t[1] /\ RecordValidation(t[1]) /\ Goto(t, "done")
     ELSE UNCHANGED <<height, validated, known>> /\ Goto(t, "refused")
  /\ UNCHANGED <<engine, published, head, executed, memory, disk>>

HandlerStep(t) ==
  \/ SkipExecution(t)
  \/ ExecutionBehind(t)
  \/ LookupValidation(t)
  \/ ValidateCommitted(t)
  \/ FinalizeMock(t)
  \/ FinalizeClient(t)
  \/ UpdateForkchoice(t)
  \/ SetHead(t)
  \/ PutObject(t)
  \/ ReplicaOnQC(t)

Next ==
  \/ Publish
  \/ \E k \in BlockIds : OnVoteRequest(k) \/ OnVoteRequestError(k)
  \/ \E k \in BlockIds, i \in 1..Deliveries : Redeliver(k, i)
  \/ \E t \in Threads : HandlerStep(t) \/ EngineError(t)

\* The cluster goes on producing blocks, and a started handler goes on to its
\* answer (the Go scheduler runs every goroutine).
Fairness ==
  /\ WF_vars(Publish)
  /\ \A t \in Threads : WF_vars(HandlerStep(t))

Spec == Init /\ [][Next]_vars
FairSpec == Spec /\ Fairness

-----------------------------------------------------------------------------
(* Properties *)

Quiescent == \A t \in Threads : pc[t] \notin Running

\* Consensus never runs ahead of execution: every block in the replica's chain
\* has a payload the engine has finalized.  It rests on OnQC finalizing before
\* it calls replica.OnQC, also when two deliveries of one QC race.
FinalizedIsExecuted == \A k \in 1..height : k \in executed

\* Every finalized block can be served by GET /v1/objects, or its handler is
\* about to store it: OnQC puts the object before the replica counts the block
\* as finalized, or another delivery of the same QC is still doing so.
FinalizedIsRetrievable ==
  \A k \in 1..height : k \in memory \/ \E i \in 1..Deliveries : pc[<<k, i>>] = "put"

\* The commit QC of the block the replica needs next is not refused, whatever
\* went wrong before: a delivery that was lost, failed half-way or was overtaken
\* is made good by a later one.  On the client this holds also when Client.head
\* ran ahead of the tip or was set back by a slow handler.  The one exception is
\* the mock engine when it has already executed the block for another delivery:
\* its head has moved on, and Validate insists on extending it.
NextBlockNotRefused ==
  [][\A t \in Threads :
       t[1] = height + 1 /\ pc[t] \in Running /\ pc'[t] = "refused"
         => engine = "mock" /\ t[1] \in executed]_vars

\* When no handler is running, the execution head is the payload of the tip,
\* the pair GET /v1/status reports.
HeadMatchesTip == Quiescent => head = height

\* With no faults the node follows the cluster to the last block: finalized,
\* executed and on disk.
FollowsCluster == <>[](height = MaxHeight /\ head = MaxHeight /\ disk = BlockIds)
=============================================================================
