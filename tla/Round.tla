-------------------------------- MODULE Round -------------------------------
(***************************************************************************)
(* The proposer's side of a round, Node.Propose of internal/node/network.go *)
(* with broadcastProposal and broadcastQC, composed with the replicas of   *)
(* HotStuff.  The proposer of a block sends it to every validator, waits   *)
(* until each request is answered or has failed, makes a QC of the votes   *)
(* it counted, and sends that QC in the next broadcast:                    *)
(*                                                                         *)
(*   stage       sent to every peer    counted as an answer                *)
(*   building    (reading the tip, EVM and payload calls)                  *)
(*   prepare     the block             prepare votes                       *)
(*   precommit   the prepare QC        precommit votes                     *)
(*   commit      the precommit QC      commit votes                        *)
(*   decide      the commit QC         "finalized" answers                 *)
(*                                                                         *)
(* Rounds of different proposers may run at the same time.  A request to a *)
(* flaky validator may be lost, answered too late, or handled after the    *)
(* proposer has given up on it, also in a later stage: it then stays in    *)
(* inbox, where it may be handled at any time or never.  A handler that    *)
(* fails outside the replica (engine, disk) is such a request, too.        *)
(*                                                                         *)
(* EnoughAnswersAndOne, FinishRoundUnchecked, HandleCommitQCUnreported and *)
(* RefuseSilently are faulty versions of the definitions after them and    *)
(* not part of the specification (see README).                             *)
(***************************************************************************)
EXTENDS HotStuff

CONSTANTS
  Proposer,     \* Proposer[b]: Header.ProposerID of b, the winner of the competition
  Flaky,        \* the validators whose requests and answers may be lost or time out
  Alone         \* the blocks whose rounds overlap no other round

ASSUME RoundAssumption ==
  /\ Proposer \in [Blocks -> Validators]
  /\ Flaky \subseteq Validators
  /\ Alone \subseteq Blocks

VARIABLES
  stage,    \* stage[b]: how far the round of b has come
  inbox,    \* requests <<b, s, v>>: the one of stage s of b's round, on its way to v
  answers   \* answers[b]: the validators whose answer of the current stage was counted

roundVars == <<stage, inbox, answers>>
allVars == <<vars, roundVars>>

Broadcasts == Phases \cup {"decide"}
Stages == Broadcasts \cup {"new", "building", "succeeded", "failed"}

RoundTypeOK ==
  /\ TypeOK
  /\ stage \in [Blocks -> Stages]
  /\ inbox \subseteq Blocks \X Broadcasts \X Validators
  /\ answers \in [Blocks -> SUBSET Validators]

-----------------------------------------------------------------------------
UnderWay(b) == stage[b] \in Broadcasts \cup {"building"}

\* The proposer's wait is over: every request of the broadcast has ended (one
\* that is lost or times out ends at any time).
BroadcastEnded(b) == \A v \in Validators \ Flaky : <<b, stage[b], v>> \notin inbox

EnoughAnswersAndOne(b) == Cardinality(answers[b]) + 1 >= Quorum

\* MakeQC, or the final comparison with Quorum().
EnoughAnswers(b) == Cardinality(answers[b]) >= Quorum

\* The stage that sends the QC made in a stage.
After == [prepare |-> "precommit", precommit |-> "commit", commit |-> "decide"]

Broadcast(b, s) ==
  /\ stage' = [stage EXCEPT ![b] = s]
  /\ inbox' = inbox \cup {<<b, s, v>> : v \in Validators}
  /\ answers' = [answers EXCEPT ![b] = {}]

Return(b, outcome) ==
  /\ stage' = [stage EXCEPT ![b] = outcome]
  /\ answers' = [answers EXCEPT ![b] = {}]
  /\ UNCHANGED inbox

RoundInit ==
  /\ Init
  /\ stage = [b \in Blocks |-> "new"]
  /\ inbox = {}
  /\ answers = [b \in Blocks |-> {}]

\* Propose takes proposeMu and reads the tip that b is going to extend.
StartRound(b) ==
  /\ stage[b] = "new"
  /\ \A c \in Blocks : UnderWay(c) => Proposer[c] # Proposer[b] /\ Alone \cap {b, c} = {}
  /\ Extends(Proposer[b], b)
  /\ stage' = [stage EXCEPT ![b] = "building"]
  /\ UNCHANGED <<inbox, answers, vars>>

\* The block is built, on the tip read before, and broadcast; or evm.Execute or
\* execution.Build fails (the calls of a flaky proposer).
BroadcastProposal(b) ==
  /\ stage[b] = "building"
  /\ Broadcast(b, "prepare") \/ (Proposer[b] \in Flaky /\ Return(b, "failed"))
  /\ UNCHANGED vars

\* The votes of a broadcast make a QC, which goes out next, or the round fails.
BroadcastQC(b) ==
  /\ stage[b] \in Phases
  /\ BroadcastEnded(b)
  /\ IF EnoughAnswers(b) THEN Broadcast(b, After[stage[b]]) ELSE Return(b, "failed")
  /\ UNCHANGED vars

FinishRoundUnchecked(b) ==
  /\ stage[b] = "decide"
  /\ BroadcastEnded(b)
  /\ Return(b, "succeeded")
  /\ UNCHANGED vars

\* Propose returns: enough validators said "finalized", or not.
FinishRound(b) ==
  /\ stage[b] = "decide"
  /\ BroadcastEnded(b)
  /\ Return(b, IF EnoughAnswers(b) THEN "succeeded" ELSE "failed")
  /\ UNCHANGED vars

-----------------------------------------------------------------------------
\* The validator's answer: counted if it is a success and the proposer still
\* waits for it.
Answer(b, s, v, ok) ==
  /\ inbox' = inbox \ {<<b, s, v>>}
  /\ \/ answers' = IF ok /\ stage[b] = s THEN [answers EXCEPT ![b] = @ \cup {v}] ELSE answers
     \/ v \in Flaky /\ UNCHANGED answers
  /\ UNCHANGED stage

(* A QC in a request is what MakeQC made of the counted votes.  VerifyQC      *)
(* repeats MakeQC's test on those votes, and so accepts it: the handlers look *)
(* at the request only, not at the votes that exist.                          *)

HandleProposal(b, v) ==
  /\ <<b, "prepare", v>> \in inbox
  /\ OnProposal(v, b)
  /\ Answer(b, "prepare", v, ~DoubleVote(v, "prepare", b))

HandlePrepareQC(b, v) ==
  /\ <<b, "precommit", v>> \in inbox
  /\ AcceptPrepareQC(v, b)
  /\ Answer(b, "precommit", v, ~DoubleVote(v, "precommit", b))

HandlePreCommitQC(b, v) ==
  /\ <<b, "commit", v>> \in inbox
  /\ AcceptPreCommitQC(v, b)
  /\ Answer(b, "commit", v, ~DoubleVote(v, "commit", b))

HandleCommitQCUnreported(b, v) ==
  /\ <<b, "decide", v>> \in inbox
  /\ AcceptCommitQC(v, b) \/ AcceptCommitQCAgain(v, b)
  /\ Answer(b, "decide", v, FALSE)

HandleCommitQC(b, v) ==
  /\ <<b, "decide", v>> \in inbox
  /\ AcceptCommitQC(v, b) \/ AcceptCommitQCAgain(v, b)
  /\ Answer(b, "decide", v, TRUE)

RefuseSilently(b, s, v) == FALSE

\* The replica returns an error and changes nothing.
Refuse(b, s, v) ==
  /\ <<b, s, v>> \in inbox
  /\ ~ValidateBlockLocked(v, b) \/ (s = "prepare" /\ ConflictsWithLock(v, b))
  /\ Answer(b, s, v, FALSE)
  /\ UNCHANGED vars

\* The process of r ends, with the rounds it was driving and the requests it
\* was about to handle, and is started again.
RestartNode(r) ==
  /\ Restart(r)
  /\ stage' = [b \in Blocks |-> IF Proposer[b] = r /\ UnderWay(b) THEN "failed" ELSE stage[b]]
  /\ inbox' = {m \in inbox : m[3] # r}
  /\ UNCHANGED answers

Handle(b, v) ==
  \/ HandleProposal(b, v)
  \/ HandlePrepareQC(b, v)
  \/ HandlePreCommitQC(b, v)
  \/ HandleCommitQC(b, v)
  \/ \E s \in Broadcasts : Refuse(b, s, v)

Drive(b) == BroadcastProposal(b) \/ BroadcastQC(b) \/ FinishRound(b)

RoundNext ==
  \/ \E b \in Blocks : StartRound(b) \/ Drive(b) \/ \E v \in Validators : Handle(b, v)
  \/ \E r \in Restarters : RestartNode(r)

RoundSpec == RoundInit /\ [][RoundNext]_allVars

\* As long as a proposer can execute its next statement, one of them does, and as
\* long as a delivered request waits for its handler, one is handled.  (Less than
\* the Go scheduler gives each of them, and enough: both kinds run out.)
RoundFairness ==
  /\ WF_allVars(\E b \in Blocks : Drive(b))
  /\ WF_allVars(\E b \in Blocks, v \in Validators : Handle(b, v))

FairRoundSpec == RoundSpec /\ RoundFairness

-----------------------------------------------------------------------------
(* The facts that make the composition inductive. *)

\* A vote that was counted was signed.
CountedVotesSigned ==
  \A b \in Blocks : stage[b] \in Phases => answers[b] \subseteq votes[stage[b]][b]

\* A QC on its way is made of a quorum of votes.
RequestsCertified ==
  \A b \in Blocks, p \in Phases, v \in Validators :
    <<b, After[p], v>> \in inbox => QCExists(p, b)

\* The validators that hold b as finalized, or may have forgotten it.
Holders(b) == {v \in Validators : v \in Restarters \/ \E i \in 1..Len(blocks[v]) : blocks[v][i] = b}

\* A "finalized" that was counted came from a validator that holds the block.
CountedFinalized == \A b \in Blocks : stage[b] = "decide" => answers[b] \subseteq Holders(b)

RoundInv == RoundTypeOK /\ CountedVotesSigned /\ RequestsCertified

-----------------------------------------------------------------------------
(* Properties *)

\* The replicas driven by proposers over the network only do what HotStuff
\* allows: a QC that Propose makes from the answers it counted is a quorum of
\* signed votes, also with concurrent rounds, late requests and restarts.
ImplementsHotStuff == Spec

\* A round that is answered with success is final: its block is decided, and
\* a quorum of validators holds it or has been restarted since.
SuccessIsFinal ==
  \A b \in Blocks :
    stage[b] = "succeeded" =>
      /\ \E i \in 1..Len(ledger) : ledger[i] = b
      /\ Cardinality(Holders(b)) >= Quorum

\* Two rounds of one height never both report success, however they overlap.
OneSuccessPerHeight ==
  \A b, c \in Blocks :
    (stage[b] = "succeeded" /\ stage[c] = "succeeded" /\ Height[b] = Height[c]) => b = c

\* Over a network that loses nothing, a round at a height no other round proposes
\* succeeds, whatever was proposed, refused and restarted at the heights before it
\* (runDemo and the integration test run one round after the other).
RoundSucceeds == \A b \in Alone : stage[b] = "building" ~> stage[b] = "succeeded"

\* Whatever the other proposers do, every round comes to an end: no proposer waits
\* for ever for a validator.  (A block has one round, so a round that never ended
\* would keep this from happening again.)
RoundEnds == []<>(\A b \in Blocks : ~UnderWay(b))
=============================================================================
