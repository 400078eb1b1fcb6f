----------------------------- MODULE Competition -----------------------------
(***************************************************************************)
(* How a block earns its proposer: Node.RunRound and the first half of     *)
(* Node.Propose (internal/node/network.go), the miner sidecars they ask    *)
(* (internal/miner, internal/aipow) and the checks every validator repeats *)
(* on the block (validateBlock, validateCompetition and                    *)
(* validateResultCertificate in internal/node/node.go).                    *)
(*                                                                         *)
(* A round serves one job.  Its coordinator reads its own height and tip,  *)
(* has all miners run the job and mine a ticket for that challenge, takes  *)
(* the largest group of equal results, and sends the group's evidence to   *)
(* the node with the best ticket.  That node reads its own tip, checks the *)
(* evidence again and proposes.  Rounds of different coordinators overlap. *)
(*                                                                         *)
(* HotStuff and Round model the votes; here the three phases are two       *)
(* steps, one vote per validator and height, and a decided block.  A round *)
(* makes at most one block, so a block's hash is its job.  The ticket, the *)
(* attestation and the proof bundles of a miner come from one call of Mine *)
(* and always travel together: they are one record.  Signatures and hashes *)
(* are not forged.  Every node is configured with the URLs of all nodes    *)
(* and miners, though one of them may lead to another miner.               *)
(*                                                                         *)
(* MeetsDifficultyWrongMask, BeforeByWork, CountedAll, AskedLocks and      *)
(* DeliverCommitToQuorum are faulty versions of the definitions after      *)
(* them and not part of the specification (see README).                    *)
(***************************************************************************)
EXTENDS Integers, FiniteSets, Sequences, SequencesExt, FiniteSetsExt, Powers

CONSTANTS
  N,              \* number of validators; their ids are ordered like 1..N
  MaxJobs,        \* bound: the number of AI jobs submitted, one round each
  Coordinators,   \* nodes that receive POST /v1/round
  ByteBits,       \* bits of a byte of a work hash (8 in the code)
  HashBytes,      \* bytes of a work hash (32 in the code)
  Luck,           \* the hash each miner's search may end with: functions of miners
  Policies,       \* what the validators may be configured to demand
  OddSets,        \* the sets of miners that may be configured differently
  Endpoints,      \* which miner listens where: functions from ids to miners
  ArrivalOrders,  \* bound: the orders in which answers are received
  MaxLost,        \* bound: how many requests of one broadcast may fail
  Modes,          \* subset of {"demo", "devnet"}
  GenesisHash,    \* parent of the first block
  NoBlock         \* no block

Nodes == 1..N
Jobs == 1..MaxJobs
Quorum == (2 * N) \div 3 + 1
Bits == ByteBits * HashBytes

Hashes == [1..HashBytes -> 0..(Pow2[ByteBits] - 1)]

\* The configuration of a validator or miner: leading zero bits of a ticket,
\* DAG manifest, AISeal samples (0: no AISeal), zkML, and whether its inference
\* computes what the model says.
Policy == [difficulty : 0..(Bits - 1), manifest : 1..2, samples : 0..2,
           zkml : BOOLEAN, sound : BOOLEAN]

ASSUME CompetitionAssumption ==
  /\ N \in Nat /\ N >= 4
  /\ ByteBits \in Nat \ {0} /\ HashBytes \in Nat \ {0}
  /\ Coordinators \subseteq Nodes
  /\ Luck \subseteq [Nodes -> Hashes]
  /\ Policies \subseteq {p \in Policy : p.sound}
  /\ OddSets \subseteq SUBSET Nodes
  /\ Endpoints \subseteq [Nodes -> Nodes]
  /\ ArrivalOrders \subseteq SetToSeqs(Nodes)
  /\ MaxLost \in Nat
  /\ Modes \subseteq {"demo", "devnet"}
  /\ MaxJobs \in Nat /\ GenesisHash \notin Jobs /\ NoBlock \notin Jobs

VARIABLES
  mode,         \* "demo": runDemo, one round after the other and nothing fails
  policy,       \* what all validators demand
  minerPolicy,  \* minerPolicy[m]: what miner m is configured to do
  endpoint,     \* endpoint[m]: the miner behind the URL listed for m
  client,       \* client[j]: stage of RunRound for job j
  at,           \* at[j]: its coordinator
  base,         \* base[j]: the height the coordinator read
  answers,      \* answers[j]: what the miners sent, in order of arrival
  request,      \* request[j]: the evidence posted to /v1/propose
  asked,        \* asked[j]: the node it was posted to
  call,         \* call[j]: stage of the Propose call the round made
  block,        \* block[j]: the block that call has built
  voted,        \* voted[v]: the job of the block v voted for, per height
  ledger,       \* the decided blocks, by their hashes
  height        \* height[v]: how many of them v has finalized

config == <<mode, policy, minerPolicy, endpoint>>
vars == <<config, client, at, base, answers, request, asked, call, block, voted, ledger, height>>

-----------------------------------------------------------------------------
(* Order.  These stand for SortSeq and SelectSeq, which the provers cannot expand. *)

\* The numbers of a finite set, in increasing order.
InOrder(S) ==
  [k \in 1..Cardinality(S) |-> CHOOSE x \in S : Cardinality({y \in S : y < x}) = k - 1]

\* What the sequence s holds at the indices I, in the order of s.
Kept(s, I) == [k \in 1..Cardinality(I) |-> s[InOrder(I)[k]]]

-----------------------------------------------------------------------------
(* Proof of work *)

\* aipow.MeetsDifficulty with the mask for the bits that may be set.
MeetsDifficultyWrongMask(hash, difficulty) ==
  LET remaining(i) == difficulty - ByteBits * (i - 1)
  IN \A i \in 1..HashBytes :
       /\ remaining(i) >= ByteBits => hash[i] = 0
       /\ remaining(i) \in 1..(ByteBits - 1) => hash[i] \div Pow2[remaining(i)] = 0

\* aipow.MeetsDifficulty: whole bytes are compared with zero, the last one is
\* masked; what is left when byte i is reached decides which.
MeetsDifficulty(hash, difficulty) ==
  LET remaining(i) == difficulty - ByteBits * (i - 1)
  IN \A i \in 1..HashBytes :
       /\ remaining(i) >= ByteBits => hash[i] = 0
       /\ remaining(i) \in 1..(ByteBits - 1)
            => hash[i] \div Pow2[ByteBits - remaining(i)] = 0

\* Hashes are compared as hexadecimal strings.
HashLess(a, b) ==
  \E i \in 1..HashBytes : a[i] < b[i] /\ \A k \in 1..(i - 1) : a[k] = b[k]

BeforeByWork(s, t) == HashLess(s.work, t.work)

\* The order SelectWinner sorts tickets by.
Before(s, t) ==
  \/ HashLess(s.work, t.work)
  \/ s.work = t.work /\ s.miner < t.miner

\* aipow.SelectWinner: the first of the sorted tickets.
SelectWinner(tickets) ==
  tickets[CHOOSE i \in DOMAIN tickets :
            /\ \A k \in DOMAIN tickets : ~Before(tickets[k], tickets[i])
            /\ \A k \in 1..(i - 1) : Before(tickets[i], tickets[k])]

-----------------------------------------------------------------------------
(* Miner sidecars *)

\* Runner.Run: a deterministic function of job and configuration.
Run(job, p) ==
  [job |-> job, manifest |-> p.manifest, zkml |-> p.zkml, sound |-> p.sound]

\* HashJSON of a result: an injective number, to order results by.
HashOf(result) ==
  4 * result.manifest + (IF result.zkml THEN 2 ELSE 0) + (IF result.sound THEN 1 ELSE 0)

\* Service.Mine gets past the zkML prover, which proves the right output, and
\* aipow.Mine finds a nonce whose hash meets the miner's difficulty; it stops at the
\* first.  A work hash that does not meet it stands for a search that finds none.
CanMine(m, work) ==
  /\ minerPolicy[m].zkml => minerPolicy[m].sound
  /\ MeetsDifficulty(work, minerPolicy[m].difficulty)

\* What Service.Mine returns for a request: the ticket and attestation bound to
\* challenge and result, with the AISeal proof of so many samples and the zkML
\* proof it is configured to add.
Mined(m, h, parent, job, work) ==
  LET p == minerPolicy[m]
  IN [miner |-> m, height |-> h, parent |-> parent, job |-> job,
      result |-> Run(job, p), difficulty |-> p.difficulty, manifest |-> p.manifest,
      samples |-> p.samples, zkml |-> p.zkml, work |-> work]

-----------------------------------------------------------------------------
(* What a validator checks *)

\* runner.Verify recomputes the result; with zkML validateResultCommitment
\* compares the commitments, and the proof stands for the output.
ResultValid(job, result) ==
  /\ result.job = job
  /\ result.manifest = policy.manifest
  /\ result.zkml = policy.zkml
  /\ result.sound \/ policy.zkml

\* The AISeal part: as many proofs as tickets, each of the challenge, with at
\* least the samples demanded; or none at all.
SealValid(ticket) ==
  IF policy.samples > 0 THEN ticket.samples >= policy.samples ELSE ticket.samples = 0

\* validateCompetition, without the selection of the winner.
CompetitionValid(h, parent, job, result, tickets) ==
  /\ \A i, k \in DOMAIN tickets : tickets[i].miner = tickets[k].miner => i = k
  /\ \A t \in ToSet(tickets) :
       /\ t.miner \in Nodes
       /\ t.height = h /\ t.parent = parent /\ t.job = job
       /\ t.result = result
       /\ t.difficulty = policy.difficulty /\ t.manifest = policy.manifest
       /\ SealValid(t)
       /\ MeetsDifficulty(t.work, t.difficulty)

\* validateResultCertificate: a quorum of attestations with one signer each, all
\* for this challenge and result, each with a zkML proof iff that is demanded.
CertificateValid(h, parent, job, result, tickets) ==
  /\ Len(tickets) >= Quorum
  /\ \A a \in ToSet(tickets) :
       /\ a.height = h /\ a.parent = parent /\ a.job = job
       /\ a.result = result
       /\ a.zkml = policy.zkml
       /\ a.zkml => a.result.sound

EvidenceValid(h, parent, job, result, tickets) ==
  /\ ResultValid(job, result)
  /\ CompetitionValid(h, parent, job, result, tickets)
  /\ CertificateValid(h, parent, job, result, tickets)

\* The evidence part of validateBlock.
ValidateBlock(b) ==
  /\ EvidenceValid(b.height, b.parent, b.job, b.result, b.tickets)
  /\ SelectWinner(b.tickets) = b.winner
  /\ b.winner.miner = b.proposer

-----------------------------------------------------------------------------
(* RunRound *)

\* Replica.HeightAndTip; every finalized chain is a prefix of the ledger.
Tip(h) == IF h = 0 THEN GenesisHash ELSE ledger[h]

\* The nodes of S that answer one broadcast: the demo loses nothing.
Reached(S) ==
  {R \in SUBSET S : Cardinality(S \ R) <= IF mode = "demo" THEN 0 ELSE MaxLost}

InRound == {"mining", "judging", "asking"}

\* The coordinator's roundMu.
RoundMuFree(c) == \A j \in Jobs : client[j] \in InRound => at[j] # c

\* runDemo starts one round after the other, on one node after the other, as long
\* as they succeed.
DemoTurn(j, c) ==
  /\ \A k \in 1..(j - 1) : client[k] = "ok"
  /\ c = ((j - 1) % N) + 1

\* RunRound begins: it takes roundMu and reads height and tip.
StartRound(j, c) ==
  /\ client[j] = "new"
  /\ RoundMuFree(c)
  /\ \A k \in 1..(j - 1) : client[k] # "new"
  /\ mode = "demo" => DemoTurn(j, c)
  /\ client' = [client EXCEPT ![j] = "mining"]
  /\ at' = [at EXCEPT ![j] = c]
  /\ base' = [base EXCEPT ![j] = height[c]]
  /\ UNCHANGED <<config, answers, request, asked, call, block, voted, ledger, height>>

\* collectTickets, first half: POST /v1/mine to every miner; some fail, time out
\* or find no nonce.  The results channel has them in order of arrival.
CollectAnswers(j) ==
  /\ client[j] = "mining"
  /\ \E work \in Luck :
       \E S \in Reached({m \in Nodes : CanMine(endpoint[m], work[endpoint[m]])}),
          order \in ArrivalOrders :
         /\ mode = "demo" => S = Nodes
         /\ answers' = [answers EXCEPT ![j] =
              LET arrived == Kept(order, {i \in DOMAIN order : order[i] \in S})
              IN [i \in DOMAIN arrived |->
                   [from |-> arrived[i],
                    response |-> Mined(endpoint[arrived[i]], base[j] + 1, Tip(base[j]), j,
                                       work[endpoint[arrived[i]]])]]]
  /\ client' = [client EXCEPT ![j] = "judging"]
  /\ UNCHANGED <<config, at, base, request, asked, call, block, voted, ledger, height>>

CountedAll(a) == TRUE

\* An answer must carry the id its URL is listed under.
Counted(a) == a.response.miner = a.from

\* collectTickets, second half: answers grouped by the hash of their result, the
\* largest group and, among equals, the smallest hash.
Selected(arrived) ==
  LET counted == Kept(arrived, {i \in DOMAIN arrived : Counted(arrived[i])})
      Group(r) == Kept(counted, {i \in DOMAIN counted : counted[i].response.result = r})
      results == {a.response.result : a \in ToSet(counted)}
      chosen == CHOOSE r \in results : \A q \in results :
                  \/ Len(Group(r)) > Len(Group(q))
                  \/ Len(Group(r)) = Len(Group(q)) /\ HashOf(r) <= HashOf(q)
  IN IF results = {} THEN <<>>
     ELSE [i \in DOMAIN Group(chosen) |-> Group(chosen)[i].response]

\* RunRound's own checks of what it has collected.
RoundValid(j, tickets) ==
  /\ Len(tickets) >= Quorum
  /\ EvidenceValid(base[j] + 1, Tip(base[j]), j, tickets[1].result, tickets)

\* RunRound returns and frees roundMu.
EndRound(j, outcome) ==
  /\ client' = [client EXCEPT ![j] = outcome]
  /\ at' = [at EXCEPT ![j] = 0]
  /\ base' = [base EXCEPT ![j] = 0]
  /\ answers' = [answers EXCEPT ![j] = <<>>]
  /\ request' = [request EXCEPT ![j] = <<>>]

\* RunRound's verdict: POST /v1/propose to the winner, or an error.
Judge(j) ==
  /\ client[j] = "judging"
  /\ LET tickets == Selected(answers[j])
     IN IF RoundValid(j, tickets)
        THEN /\ client' = [client EXCEPT ![j] = "asking"]
             /\ request' = [request EXCEPT ![j] = tickets]
             /\ asked' = [asked EXCEPT ![j] = SelectWinner(tickets).miner]
             /\ call' = [call EXCEPT ![j] = "waiting"]
             /\ answers' = [answers EXCEPT ![j] = <<>>]
             /\ UNCHANGED <<at, base>>
        ELSE EndRound(j, "error") /\ UNCHANGED <<asked, call>>
  /\ UNCHANGED <<config, block, voted, ledger, height>>

-----------------------------------------------------------------------------
(* Propose *)

\* The call returns and proposeMu is free again; RunRound passes the answer on.
Return(j, outcome) ==
  /\ call' = [call EXCEPT ![j] = "returned"]
  /\ block' = [block EXCEPT ![j] = NoBlock]
  /\ asked' = [asked EXCEPT ![j] = 0]
  /\ EndRound(j, outcome)

AskedLocks(p) ==
  /\ RoundMuFree(p)
  /\ \A j \in Jobs : block[j] # NoBlock => block[j].proposer # p

\* The proposer's proposeMu.
ProposeMuFree(p) == \A j \in Jobs : block[j] # NoBlock => block[j].proposer # p

\* Propose sorts the tickets by miner; the checks have shown that no two have the
\* same one.
SortedByMiner(tickets) ==
  LET miners == InOrder({t.miner : t \in ToSet(tickets)})
  IN [k \in DOMAIN miners |-> CHOOSE t \in ToSet(tickets) : t.miner = miners[k]]

\* Propose up to the finished block: the node reads its own height and tip and
\* repeats every check against them; they fail if the chain has moved on or this
\* node has not followed it.
BuildBlock(j) ==
  /\ call[j] = "waiting"
  /\ LET p == asked[j]
         tickets == request[j]
         winner == SelectWinner(tickets)
         h == height[p]
     IN /\ ProposeMuFree(p)
        /\ IF EvidenceValid(h + 1, Tip(h), j, tickets[1].result, tickets) /\ winner.miner = p
           THEN /\ block' = [block EXCEPT ![j] =
                     [height |-> h + 1, parent |-> Tip(h), job |-> j,
                      result |-> tickets[1].result, proposer |-> p, winner |-> winner,
                      tickets |-> SortedByMiner(tickets)]]
                /\ call' = [call EXCEPT ![j] = "built"]
                /\ request' = [request EXCEPT ![j] = <<>>]
                /\ UNCHANGED <<client, at, base, answers, asked>>
           ELSE Return(j, "error")
  /\ UNCHANGED <<config, voted, ledger, height>>

\* A validator votes for a block that extends its tip, whose evidence it
\* accepts, and for no second block of a height.
CanVote(v, b) ==
  /\ b.height = height[v] + 1
  /\ b.parent = Tip(height[v])
  /\ voted[v][b.height] = NoBlock
  /\ ValidateBlock(b)

\* broadcastProposal; some requests are lost or handled too late.
Broadcast(j) ==
  /\ call[j] = "built"
  /\ \E reached \in Reached(Nodes) :
       LET b == block[j]
           votes == {v \in reached : CanVote(v, b)}
       IN /\ voted' = [v \in Nodes |-> IF v \in votes
                                       THEN [voted[v] EXCEPT ![b.height] = j] ELSE voted[v]]
          /\ IF Cardinality(votes) >= Quorum
             THEN /\ call' = [call EXCEPT ![j] = "prepared"]
                  /\ UNCHANGED <<client, at, base, answers, request, asked, block>>
             ELSE Return(j, "error")
  /\ UNCHANGED <<config, ledger, height>>

DeliverCommitToQuorum(b, reached) ==
  [v \in Nodes |-> IF v \in reached /\ v # N /\ height[v] + 1 = b.height THEN b.height ELSE height[v]]

\* The commit QC moves the validators it reaches that are at the block's parent.
DeliverCommit(b, reached) ==
  [v \in Nodes |-> IF v \in reached /\ height[v] + 1 = b.height THEN b.height ELSE height[v]]

\* The remaining phases: the block is decided, and the round succeeds if a quorum
\* reports it finalized.
Commit(j) ==
  /\ call[j] = "prepared"
  /\ \E reached \in Reached(Nodes) :
       /\ height' = DeliverCommit(block[j], reached)
       /\ Return(j, IF Cardinality({v \in reached : height'[v] = block[j].height}) >= Quorum
                    THEN "ok" ELSE "error")
  /\ ledger' = Append(ledger, j)
  /\ UNCHANGED <<config, voted>>

\* The EVM, the engine or a later phase fails.
ProposeFails(j) ==
  /\ mode = "devnet"
  /\ call[j] \in {"built", "prepared"}
  /\ Return(j, "error")
  /\ UNCHANGED <<config, voted, ledger, height>>

\* The coordinator's HTTP client gives up after 20 s, which cancels the context
\* of the Propose call: one that waits for proposeMu will get nowhere ...
GiveUp(j) ==
  /\ mode = "devnet"
  /\ client[j] = "asking"
  /\ EndRound(j, "error")
  /\ call' = [call EXCEPT ![j] = IF @ = "waiting" THEN "returned" ELSE "cancelled"]
  /\ asked' = [asked EXCEPT ![j] = 0]
  /\ UNCHANGED <<config, block, voted, ledger, height>>

\* ... and one that holds it fails at its next request.
Cancelled(j) ==
  /\ call[j] = "cancelled"
  /\ Return(j, "error")
  /\ UNCHANGED <<config, voted, ledger, height>>

-----------------------------------------------------------------------------
\* A miner that differs from the validators in one setting.
Misconfigured(p) ==
  {[p EXCEPT !.difficulty = d] : d \in {0, Bits - 1} \ {p.difficulty}}
    \cup {[p EXCEPT !.manifest = 3 - p.manifest]}
    \cup {[p EXCEPT !.samples = s] : s \in (0..1) \ {p.samples}}
    \cup {[p EXCEPT !.zkml = ~p.zkml]}
    \cup {[p EXCEPT !.sound = FALSE]}

Init ==
  /\ mode \in Modes
  /\ policy \in Policies
  /\ \E odd \in OddSets, p \in Misconfigured(policy) :
       minerPolicy = [m \in Nodes |-> IF m \in odd /\ mode = "devnet" THEN p ELSE policy]
  /\ endpoint \in IF mode = "demo" THEN {[m \in Nodes |-> m]} ELSE Endpoints
  /\ client = [j \in Jobs |-> "new"]
  /\ at = [j \in Jobs |-> 0]
  /\ base = [j \in Jobs |-> 0]
  /\ answers = [j \in Jobs |-> <<>>]
  /\ request = [j \in Jobs |-> <<>>]
  /\ asked = [j \in Jobs |-> 0]
  /\ call = [j \in Jobs |-> "none"]
  /\ block = [j \in Jobs |-> NoBlock]
  /\ voted = [v \in Nodes |-> [h \in 1..Cardinality(Jobs) |-> NoBlock]]
  /\ ledger = <<>>
  /\ height = [v \in Nodes |-> 0]

RoundStep(j) ==
  \/ CollectAnswers(j)
  \/ Judge(j)
  \/ BuildBlock(j)
  \/ Broadcast(j)
  \/ Commit(j)
  \/ Cancelled(j)

Next ==
  \/ \E j \in Jobs, c \in Coordinators : StartRound(j, c)
  \/ \E j \in Jobs : RoundStep(j) \/ ProposeFails(j) \/ GiveUp(j)

\* RoundStep(j) is enabled.
CanStep(j) ==
  \/ client[j] \in {"mining", "judging"}
  \/ call[j] \in {"built", "prepared", "cancelled"}
  \/ call[j] = "waiting" /\ ProposeMuFree(asked[j])

\* A round goes on whenever it can.  A round has only finitely many steps, so weak
\* fairness of RoundStep(j) is that it is not enabled for ever; this form is
\* cheaper to check.  Nothing is assumed of failures and timeouts: rounds must not
\* rely on them to end.  The demo starts its rounds.
Fairness ==
  /\ \A j \in Jobs : []<>~CanStep(j)
  /\ WF_vars(mode = "demo" /\ \E j \in Jobs, c \in Coordinators : StartRound(j, c))

Spec == Init /\ [][Next]_vars /\ Fairness

-----------------------------------------------------------------------------
(* Properties *)

\* A work hash as a number, most significant byte first.
ValueOf(hash) ==
  SumFunctionOnSet([i \in 1..HashBytes |-> hash[i] * Pow2[ByteBits * (HashBytes - i)]],
                   1..HashBytes)

\* A block with a quorum of votes was earned on the chain it extends: a quorum of
\* miners, each once, worked on its job for its height and parent, came to the
\* result the model gives, and met the difficulty as a number; nobody who worked
\* beat the proposer.  Coordinator, proposer and voters check this at different
\* times against different tips.
CertifiedIsEarned ==
  \A j \in Jobs : call[j] = "prepared" =>
    LET b == block[j]
        worked == ToSet(b.tickets)
    IN /\ b.height = Len(ledger) + 1 /\ b.parent = Tip(Len(ledger))
       /\ Cardinality({t.miner : t \in worked}) >= Quorum
       /\ \A t \in worked :
            /\ t.height = b.height /\ t.parent = b.parent /\ t.job = j
            /\ t.result = Run(j, policy)
            /\ ValueOf(t.work) < Pow2[Bits - policy.difficulty]
            /\ ValueOf(b.winner.work) <= ValueOf(t.work)
       /\ b.winner \in worked /\ b.winner.miner = b.proposer

\* A block that Propose has built is accepted by every validator: the winner the
\* coordinator asked, the one the proposer computed and the one a validator finds
\* in the sorted tickets are the same, in whatever order the answers came and
\* however the work hashes tie.
ProposalAccepted ==
  \A j \in Jobs : block[j] # NoBlock => ValidateBlock(block[j])

\* A round is refused only for a reason: too few miners that follow the
\* validators' policy have answered, or a miner that computes the right result
\* has otherwise not followed it.  Miners with a wrong result, silent ones and
\* wrong URLs do no harm.
HonestQuorumSuffices ==
  [][\A j \in Jobs : client[j] = "judging" /\ client'[j] = "error" =>
       LET listed == {a \in ToSet(answers[j]) : endpoint[a.from] = a.from}
           honest == {a \in listed : minerPolicy[a.from] = policy}
       IN \/ Cardinality(honest) < Quorum
          \/ \E a \in listed \ honest : a.response.result = Run(j, policy)]_vars

\* Every round is answered, although coordinators ask each other's nodes to
\* propose while each holds its own roundMu.
RoundAnswered == \A j \in Jobs : client[j] = "mining" ~> client[j] \in {"ok", "error"}

\* runDemo: rounds on changing coordinators all succeed, and in the end every
\* node reports the same height.
DemoAgrees ==
  mode = "demo" ~> /\ \A j \in Jobs : client[j] = "ok"
                   /\ \A v \in Nodes : height[v] = Cardinality(Jobs)
=============================================================================
