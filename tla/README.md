# A TLA+ model of AI_PoW_unifiedDAG

Modules, TLC configurations and TLAPS proofs for the consensus core of
`AI_PoW_unifiedDAG`: the HotStuff replicas, the rounds that drive them, the
competition that chooses a round's proposer, the finalization pipeline of a
validator node, its object store, the marketplace contract, and the generation and
sampling proofs of the unified DAG. Paths below are relative to the
repository's root (`src/`).

## 1. The system

A devnet of n validators (four by default) finalizes one block per round. Each
validator has an AI miner sidecar. `POST /v1/round` on any validator collects
mining tickets from the sidecars, picks the best ticket, and asks its owner to
propose. The proposer builds a block and drives prepare, precommit and commit
over HTTP; the validators execute and store what is decided.

| Component | State | Operations | Interaction |
|---|---|---|---|
| Replica (`internal/hotstuff`) | height, tipHash, blocks, pending, voted, lock | OnProposal, OnQC | under `Replica.mu`; calls `validateBlock` |
| Validator set | public keys | Quorum, MakeQC, VerifyQC | pure |
| Proposer (`internal/node/network.go`) | one round under `proposeMu` | RunRound, Propose, broadcastProposal, broadcastQC | one goroutine per peer, joined before the next phase |
| Node (`internal/node/node.go`) | validation caches | OnProposal, OnQC, validateBlock, Status | calls engine, store and replica one after the other, no lock across |
| Engine (`internal/engine`) | head | Build, Validate, Finalize | mock: one mutex; client: JSON-RPC to an execution client |
| Object store (`internal/storage`) | objects, files | Put, Get | memory first, then temp file and rename |
| Marketplace (`contracts/AIMarketplace.sol`) | models, jobs, credits | 7 functions | EVM transactions; withdraw calls the payee |
| PoW and miner (`internal/aipow`, `internal/miner`) | proof files | Mine, SelectWinner | HTTP from RunRound |
| AISeal, zkML, EVM forwarder | none | Verify, Prove, Execute | called by node and miner |
| unifiedDAG (`cmd/unifiedDAG`) | page file, sidecar, manifest | generate, prove, verify, extract | worker pool over channels, three atomic renames |

What is hard here: rounds of different proposers overlap; requests are lost,
answered late, or handled after the proposer gave up; a restarted validator
remembers nothing; coordinator, winner and voters check one set of tickets at
different times against different tips; `Node.OnQC` runs several non-atomic steps that fail one by
one; the execution client is a second state machine that can run ahead; the
marketplace pays contracts that call back; the DAG generator is a pipeline of
goroutines over bounded channels that commits three files one after the other;
four pieces of code must compute the same Merkle tree. PROJECT.json lists the hazards with
their lines and the properties that cover them.

What makes each part correct: replicas agree on one linked chain that went
through all phases; a reported success is final; a certified block was earned by
a quorum of miners and its proposer had the best ticket; a stored object is whole
and stays; a block is executed and stored
before it counts as finalized; the execution head is the tip's; the contract
owes exactly what it holds and no reward stays locked; a published DAG is complete
and its manifest the commit point; an honest AISeal proof, and no other, is
accepted.

## 2. Modules

| Module | Models |
|---|---|
| `FinalizedChain` | abstract specification: one decided chain, every validator holds a prefix |
| `HotStuff` | `internal/hotstuff/hotstuff.go` |
| `Round` | Node.Propose with its broadcasts, composed with HotStuff |
| `ConsensusProofs` | proofs about HotStuff and Round: HotStuff implements FinalizedChain, Round implements HotStuff |
| `Competition` | RunRound, collectTickets, the miners, proof of work, the evidence checks, runDemo |
| `CompetitionProofs` | proofs about Competition |
| `ObjectStore` | `internal/storage/store.go` |
| `ObjectStoreProofs` | proofs about ObjectStore |
| `ValidatorNode` | Node.OnQC with engine, object store, caches and replica height |
| `ValidatorNodeProofs` | proofs about ValidatorNode |
| `AIMarketplace` | `contracts/AIMarketplace.sol` |
| `AIMarketplaceProofs` | proofs about AIMarketplace |
| `DagGenerate` | runGenerate of `cmd/unifiedDAG`: pipeline, commit, crashes |
| `DagGenerateProofs` | proofs about DagGenerate |
| `Merkle` | the Merkle accumulator, sidecar, paths and verifier, as operators |
| `DagProof` | roots, sidecar, challenge, ProveFiles and Verify (`internal/aiseal`) |
| `DagProofProofs` | proofs about Merkle and DagProof |
| `Powers` | powers of two |
| `SumsAndPowers` | lemmas: induction over finite sets and numbers, sums over finite sets, powers of two |
| `MC...` | instances for TLC |

`FinalizedChain <- HotStuff <- Round` is a chain of refinements: what is proved
of the abstract chain and of the replicas holds of rounds over the network.

**HotStuff.** A block is its hash, so `Height` and `ParentHash` are constants of
blocks. The variables are the fields of `Replica`, plus `votes` (every vote ever
signed, which outlives restarts) and the history variable `ledger` (the longest
chain ever finalized). `On...` is a handler including VerifyQC, `Accept...` the
part after it. A handler that returns an error before its first assignment is a
stuttering step. The lock and `pending` assigned before a refused vote stay, as
in the code. A QC may be delivered as soon as it exists, at any later time, any
number of times.

**Round.** `stage[b]` is the program counter of the Propose call for b, `inbox`
the requests under way, `answers[b]` what the current broadcast has counted. The
wait of `wg.Wait` ends when every request to a validator that is not flaky has
been answered; a request to a flaky one may time out at any time and still be
handled later. The handlers look only at the request, as the code does: that the
QC it carries consists of signed votes is what `ImplementsHotStuff` says.
The evidence that chooses the proposer (tickets, certificates) is in Competition;
here `Proposer` is any function, and any number of proposers may compete.

**Competition.** The complement of Round: the choice of the proposer in detail,
the voting in two steps. `client[j]` is the program counter of RunRound for job j,
`call[j]` that of the Propose call it makes on another node; `at` and `block` stand
for roundMu and proposeMu. A work hash is a short sequence of small bytes, so that
MeetsDifficulty meets its cases (no bit, whole bytes, part of a byte) and hashes can
tie; `Luck` is the hash each miner's search
for a nonce ends with (one that misses the difficulty stands for a search that finds
none). Validators share one policy
(difficulty, manifest, AISeal samples, zkML); some miners may differ from it in one
setting, or compute something else, and one URL may lead to the wrong miner.
Answers and votes are lost up to a bound, the coordinator may give up on the
winner, and every failure of a Propose call ends it with what it has done. Mode
`demo` is runDemo: the rounds follow each other and nothing is lost. Powers of
two, filtering and sorting are written as `Pow2`, `Kept`, `InOrder` and
`SortedByMiner`, which the provers can expand; `^`, SelectSeq and SortSeq they
cannot.

**ObjectStore.** `call[c]` is the program counter of a caller with its temporary
file. `file` is what the process sees, `stable` the state of the name on the disk
itself and `synced` whose content is there; a loss of power may bring `stable` back
and tear content that was not synced. `acked` is a history variable.

**ValidatorNode.** Each delivery of a commit QC is a thread with a program
counter through `Node.OnQC`; every call to engine, store and replica is a step of
its own. HotStuff has decided the blocks, so block k is the number k and its
payload extends payload k - 1. The external execution client is modelled by what
the code relies on: newPayload is VALID if the parent is known. validateBlock is two
steps, the lookup in the caches and the engine call, because no mutex spans them; its
second use, inside replica.OnQC and under Replica.mu, is part of that step. A handler
ends "refused" when an engine or the replica does not take the block, and "failed" when
a file write or an engine call could not be carried out, with the side effects the
failed call may have had. The caches are one set: a block and its payload enter
together when the engine has accepted the payload. The proposal and the QCs of the
voting phases are one action, with an engine call that may fail after its effect.

**AIMarketplace.** One action per function; withdraw is split around the call of
the payee. While the payee runs, only contracts can call; a failing payee undoes
the whole transaction.

**DagGenerate.** `next` and `producer` are the producer goroutine, `worker` the
workers, `pc` the main goroutine, `jobs` and `results` the two channels. Between
two statements that share state any goroutine may run. `seen` is what the
collector believes, `pages` what is in the page file. `files[f]` is the run whose
file has the final name; removing the old file and renaming the new one are two
steps. An error return removes the temporary files, a crash does not. Power
failure, which could also undo a rename that was not synced, is not modelled.

**Merkle and DagProof.** Hashes are tuples of what was hashed, so they do not
collide. The loops over levels are recursive functions of the number of turns; a
turn after the loop's exit changes nothing, and `StackLevels` turns suffice because a
tree has fewer than 2^StackLevels leaves. They are compared with a tree defined apart
from them, by halving (`Subtrees`, `ReferenceRoot`). A DAG has any number of pages up to the bound, any part of them model
pages, and any of a set of page sizes. `DrawPow` and `DrawTensor` are turns of the
rejection sampling loop. ProveFiles may fail while it reads (`ProveFails`). A
proof may be replaced on its way: by one with another page (of another content, of
another page type, or from another place), with the page and paths of a different DAG,
with other or shorter paths, with a page more or less. VerifyBytes first compares the
length of the proof with MaxProofBytes; the length is a constant function of proof and
page size (`ProofBytes`), any function in the proofs and one that adds up pages and
hashes in the run. Verify then has its limits on page size and number of pages, and
checks of each page the index, the page type and the shard number of its header besides
the paths.
The digests of the seal are left out, since whoever assembles a proof computes
them from its contents. The tree of all pages that makes AIDagRoot is built like
the PoW tree and has no sidecar; it is not modelled separately.

Each module also has a few definitions with names like `...Unchecked`. They are
faulty versions of the definition after them (a dropped guard, an off-by-one, a
wrong order) and are used by no specification; PROJECT.json pairs each with a
property that TLC finds violated when it takes the place of the right one.

## 3. What TLC checks

| Run | Bounds | Result |
|---|---|---|
| `hotstuff_contention` | 4 validators, 2 blocks at height 1, v4 may restart | Agreement, UniqueQC, FinalizedThroughAllPhases, LockIsCertified, refinement of FinalizedChain hold |
| `hotstuff_lock` | two children at height 2, one validator that lags | **PrepareRespectsLock fails** |
| `round_lossy` | 2 competing rounds, two flaky validators, one a proposer | SuccessIsFinal, ImplementsHotStuff hold |
| `round_live` | 2 overlapping rounds, a third that runs alone, nothing lost, v4 restarts | TypeOK, ChainWellFormed, VotedBlockKept, RoundEnds, RoundSucceeds hold |
| `competition` | 4 validators and miners, 2 jobs, 2 coordinators, hashes of 2 bytes with 3 bits, none, one or three miners misconfigured, one wrong URL, one loss per broadcast | CertifiedIsEarned, ProposalAccepted, HonestQuorumSuffices, RoundAnswered, DemoAgrees hold |
| `object_store` | 2 objects and one too large, 2 calls at a time, 3 faults | GetIsGenuine, FileIsWhole, PutIsKept hold |
| `node_faults` | 3 blocks, QCs of the first two delivered up to twice (`Repeated`), both engines, all faults | TypeOK, FinalizedIsExecuted, FinalizedIsRetrievable, NextBlockNotRefused hold |
| `node_follow` | 3 blocks, mock engine, no faults, duplicates | HeadMatchesTip and FollowsCluster hold |
| `node_diverge` | 2 blocks, client engine, loss | **HeadMatchesTip fails** |
| `marketplace` | 2 accounts, one a contract, 1 model, 2 jobs, time to 3 | Solvent, OutcomeIsFinal, JobSettles hold |
| `dag_generate` | 4 pages, 2 of the model, 2 workers, channels of capacity 1, 2 runs | AcceptedIsComplete, ClosedAfterLastSend, ManifestIsCommitPoint, SuccessPublishes, TempsOnlyAfterCrash, GenerateEnds hold |
| `dag_proof` | 2 to 6 pages of 1 KiB or 2 MiB, up to 3 samples per tree, limits of 4 pages per proof, 1 MiB per page and 11200 bytes per proof, each met and exceeded by some proof | RootsAgree, SidecarMatchesRoots, ProofAccepted, AcceptedIsGenuine, SamplingEnds hold |

Four validators are the smallest set with a fault to tolerate and the devnet's
size; with quorum 3, two blocks suffice for every split of the votes, and two
heights for stale locks and tips (`round_live` reaches the second height, with a
block there that extends only one of the two competitors). The theorems remove these bounds for safety.
In the node, two blocks are the least in which one can overtake the other, and a
second delivery the least that can race. In the generator, channels of capacity 1
fill at once and two runs are the least in which a run meets what an earlier one
left. Up to six pages, trees have odd levels at the bottom, in the middle and
above each other. In the competition, two rounds are the least that can wait for
each other or make evidence stale, and the two luck profiles have all miners tied
and a winner that is not the coordinator. In the store, one fault may damage, the
next may lose, and the third restarts. The runs switch deadlock checking off,
except the store's: rounds, blocks and jobs are finite in number and the system
may rest.

Symmetry is used only for invariants and a safety refinement, over validators with
no special role and over the store's callers. The views leave out `pending`, which
no guard reads; the run about it (`round_live`) uses no view.

**Fairness.** Round: some proposer that can execute its next statement does, and
some delivered request is handled (Go schedules every goroutine; HTTP calls have
a timeout). No
fairness is assumed of starting rounds or of restarts. Competition: a round whose
next step is possible takes it; nothing is assumed of failures and timeouts, so that
RoundAnswered does not hold by giving up; the demo starts its rounds. ValidatorNode: the same
for handlers, and the cluster goes on. AIMarketplace: blocks are produced (strong
fairness, since a running call only interrupts them), a payee's code ends because
gas does, and a requester's cancel transaction is eventually included. DagGenerate:
as long as some goroutine of the process can go on, one does; every step is
progress, so nothing stronger is needed. DagProof: the prover goes on, and the
hash stream sooner or later gives a page not yet drawn, as long as there is one.

### Findings

1. *Lock regression* (`hotstuff.go:174`). A precommit QC sets the lock without
   comparing heights, and the block that is already the tip is still accepted. A
   late precommit QC of the tip thus replaces the lock on the next block, and
   OnProposal signs a prepare vote for a competing block. Agreement survives
   because each phase refuses a second vote; the proofs do not use the lock.
2. *Execution ahead of consensus* (`node.go:197`). OnQC finalizes the execution
   payload before the replica checks that the block extends its tip. With the
   Engine API client one lost commit QC leaves the execution head two blocks
   ahead of the replica; the mock engine refuses such a payload.

Four things the runs show that are no disagreement with a doc, and so hazards only:
one miner with the right result but another difficulty or proof setting fails the
whole round (HonestQuorumSuffices has this exception), a decayed object file is
kept by the next successful Put of its object (PutIsKept has that one), a node on the
mock engine that failed to finish a block after executing it cannot make up for it once
the engine has moved on (NextBlockNotRefused), and a DAG can be generated and proved
that the verifier's limits rule out (ProofAccepted has WithinLimits as its premise).

A height can also get stuck for ever (split votes, or a failed round whose
successor has another hash): the repository's README lists view change and
pacemaker as remaining work, so this is recorded as a hazard and not a finding.

## 4. What is proved

For every finite validator set of at least four, every set of fewer than a third
of restarting validators, and every set of blocks (`ValidatorAssumption`,
`FaultAssumption`, `BlockAssumption`; at least four validators is what
`NewValidatorSet` demands):

- `TypeCorrect`, `AgreementHolds`, `ChainWellFormedHolds`, `UniqueQCHolds`,
  `AllPhasesHold`, `LockIsCertifiedHolds`, `VotedBlockKeptHolds`;
- `Refinement`: HotStuff implements FinalizedChain;
- `RoundRefinement`: Round implements HotStuff, for every choice of proposers and
  flaky validators; with it all of the above holds of rounds over the network;
- `SuccessIsFinalHolds`, `OneSuccessHolds`.

For any objects, sizes, callers and number of faults (`StoreAssumption`):
`GetIsGenuineHolds`, `FileIsWholeHolds` and `PutIsKeptHolds` of ObjectStore.

For at least four miners, any number of jobs, any coordinators, hashes of any
number of bytes of any width, any set of misconfigured miners and wrong URLs, and
any number of losses (`CompetitionAssumption`):

- `ProposalsAreAccepted`: every validator accepts what Propose has built;
- `CertifiedBlocksAreEarned`: what has a quorum of votes was earned, with difficulty
  and victory stated of the hash as a number, not as bytes;
- `HonestQuorumIsHeard`: a round with a quorum of good answers is not refused (an
  action property).

For any number of blocks and deliveries, both engines and all faults
(`NodeAssumption`): `TypeCorrect`, `ConsensusBehindExecution`, `FinalizedIsServed`
and the action property `NextBlockIsNotRefused` of ValidatorNode. `HeadFollowsTip` assumes
the mock engine and no faults, like the run `node_follow`; with the client and a loss
it is false (`node_diverge`).

For any number of pages, workers and runs and any capacity of the channels
(`DagAssumption`): `CompleteWhenAccepted`, `NoSendOnClosed`, `CommitPoint`,
`SuccessIsPublished` and `NoTempsLeft` of DagGenerate.

For any finite set of accounts, any contracts among them, and any amounts, models and
jobs (`MarketplaceAssumption`): `EscrowIsSolvent`, `CreditsAreCovered`, and the action
property `OutcomesAreFinal` of AIMarketplace. Amounts are natural numbers; the model
has no overflow of uint256, which Solidity 0.8 turns into a revert.

For DAGs of every size the accumulator has levels for (`ProofAssumption`: fewer than
2^StackLevels pages; StackLevels is 64 in the code), any part of the pages being
model pages, and any number of samples:

- `SidecarProofAccepted`: the verifier accepts the path read from the sidecar for every
  leaf of every tree;
- `OnlySidecarProofAccepted`: and no other leaf and no other path at that index;
- `AccumulatorComputesRoots`: after every page the one-pass accumulator has the root of
  the reference tree over the pages so far;
- `SidecarNeverRefused`: the sidecar's levels end in the same roots, and are the ones the
  prover expects;
- `GenuineProofAccepted`, `OnlyGenuineProofAccepted`: VerifyBytes accepts the proof made
  by ProveFiles if page size, number of pages and length in bytes are within the
  verifier's limits, and accepts nothing else.

The argument for HotStuff and Round. Agreement is not inductive by itself. `IndInv` adds that a vote
signed by a validator that never restarts is still recorded (`VotesRecorded`),
that no phase is skipped (`VotesInOrder`), that a recorded vote was signed under
its height (`VotedSigned`), and that every decided block has a commit QC at its
own height (`LedgerCertified`). Two quorums share more validators than may
restart (`QuorumIntersection`), so they share one that recorded both votes, and
both QCs name the same block (`QCUnique`). A commit on top of a shorter chain
therefore appends what the ledger already holds (`CommitMatchesLedger`), which is
Adopt in FinalizedChain; on top of the whole ledger it is Decide.
For Round, `RoundInv` says that counted votes were signed and that a QC under way
is a quorum of signed votes; success then needs a holder that never restarts,
whose chain is a prefix of the ledger.

For ObjectStore, `Inv` adds that a temporary file holds its object from Write on and
is durable from Sync on (`TempsGood`), that whatever has a final name is synced
(`DiskGood`, which is what makes the loss of power harmless), and that an
acknowledged object was storable and has a file, or a map entry if the store has no
directory (`AckedKept`).

For Competition, `Inv` adds to the types: nobody is ahead of the ledger, each of its
blocks belongs to a call that has returned and a quorum voted for it (`Chain`); a
block that exists passes validateBlock and is not beyond the next height (`Blocks`);
one with a quorum of votes is the next block (`Prepared`), because a voter votes once
per height and two quorums meet (`QuorumsMeet`). What the checks then mean is proved
of the operators: MeetsDifficulty bounds the hash as a number (`DifficultyIsBound`),
the bytewise order is the order of numbers (`LessIsLess`), SelectWinner returns the
one best ticket (`WinnerIsBest`), and sorting changes neither the evidence nor the
winner (`SortedEvidence`, `WinnerSame`). For HonestQuorumIsHeard, `Answered` adds that
an answer was mined by the miner behind its URL and that no URL answers twice. A group
as large as a quorum then has no rival, so collectTickets selects it
(`MajoritySelected`) and RunRound's checks pass (`HonestPass`).

For ValidatorNode, `Inv` says of every handler past the engine that its payload is
executed (`HandlersExecuted`), and of every handler that goes to the replica, and of
the head that lets a second delivery skip execution, that the block is stored or about
to be (`HandlersStored`). For NextBlockIsNotRefused, `EngineChain` adds what the engine
has taken: the mock has executed exactly the blocks up to its head, and the client knows
every payload that was executed, whatever its head says. The tip is executed, so the
client knows the parent of the next block, and the mock's head is the tip or beyond it
(`EngineAcceptsNext`). `Following` adds for the mock engine without faults that the head
is at the last published block, or its first handler is still on the way to move it,
and that the tip is there too, or one of the block's handlers has only the replica's
step or Put before it.

For DagGenerate, `Counting` ties what the collector believes to what is in the file;
`Committing` says at each stage of main which files are the present run's, and that a
manifest of an earlier run can only be met with --force; `OwnTemps` says which temporary
files it still has.

For AIMarketplace, `Balanced` is stated of the present state and of the one saved when
a running withdraw began, which a failing payee brings back. It needs that slots beyond
jobCount hold no reward: the oracle can finalize a job that was never submitted, and
submitJob later overwrites it.

For Merkle and DagProof, everything is compared with `Node`, the node at one place of
one level of the reference tree. The accumulator holds the node of every full block of
leaves that a set bit of its count stands for (`Accumulates`), and joining these from
the right gives the root. The sidecar holds all nodes of all levels (`Holds`,
`Complete`), so a path is the siblings of a leaf's ancestors (`IsPathOf`) and the
verifier goes from ancestor to ancestor (`ClimbAlong`). Backwards from the root, two
equal nodes have equal children (`NoCollisions`), so a climb that ends in the root was
at the ancestors all the way (`ClimbNodes`): that is uniqueness, and it rests on
hashes being tuples. `IInv` then says what the trees hold at each stage of reading
(`TreesInv`) with the layout of the pages fixed (`Layout`), which stage has a sidecar
(`PhaseInv`), that samples are pages of their trees (`SamplesInv`), that a proof
that was not replaced is the genuine one and any other still consists of pages and
paths (`ProofInv`), and what a verdict means (`VerdictInv`). The recursive functions are unfolded one turn at a time
(`JoinedUnfolds`, `SubtreesUnfolds`, `UpperUnfolds`, `PathUnfolds`, `ClimbUnfolds`).
`IInv` quantifies over all sequences, so TLC does not evaluate it; its consequences are
what `dag_proof` checks.

Sums, powers and loops need induction. Its usual form takes the property as an operator; the
one in SumsAndPowers takes it as a set, over the subsets of a finite set
(`FiniteInduction`) and over the natural numbers (`NatSetInduction`). From it follow that
the fold behind SumFunctionOnSet and the recursive function Pow2 are what their
defining equations say (`SumIsFold`, `FoldsAgree`, `PowUnfolds`), and the laws used of
them.

Only model-checked: liveness (RoundEnds, RoundSucceeds, RoundAnswered, DemoAgrees,
FollowsCluster, JobSettles, GenerateEnds, SamplingEnds), which needs fairness.

## 5. Not modelled

Byzantine validators (the model's faulty validators forget but do not forge);
signature and hash functions; the header's commitments to a block's own contents
(Propose computes what validateBlock compares); the JSON and HTTP encodings; zkML
circuits (field arithmetic) and key files; the EVM forwarder; the digests and the
work target of an AISeal; model extraction, a reader of one immutable file that
compares a hash before it renames its output; temporary files that a killed process
leaves in the object store; the command line.
PROJECT.json gives the reason per component.

## 6. Plan

Modelling is complete up to section 5, and every safety property of the passing runs
has a theorem. What is left is a refinement between Competition and Round: their votes
and decided blocks agree in what both model.
