------------------------------ MODULE HotStuff ------------------------------
(***************************************************************************)
(* The replica of internal/hotstuff/hotstuff.go: the three-phase voting    *)
(* (prepare, precommit, commit) by which the validators of the devnet      *)
(* finalize one block per height.                                          *)
(*                                                                         *)
(* A block is identified with its hash (block.Hash()), which covers the    *)
(* header and so determines Header.Height and Header.ParentHash.  Every    *)
(* handler runs under Replica.mu and is one atomic action.  A handler that *)
(* returns an error before its first assignment changes nothing and is a   *)
(* stuttering step, so the guards below are the negations of the early     *)
(* returns; a handler that returns an error after an assignment (a refused *)
(* vote) keeps that assignment.                                            *)
(*                                                                         *)
(* Delivery.  A QC can reach a replica as soon as a quorum of its votes    *)
(* has been signed, at any later time, any number of times or never.       *)
(*                                                                         *)
(* Restarts.  The replica keeps everything in memory: a validator that     *)
(* crashes and comes back runs NewReplica again, and the votes it signed   *)
(* before are still in the hands of the others.                            *)
(*                                                                         *)
(* The definitions named ...Unchecked, ...Unphased, ...HeightOnly,         *)
(* ...WithoutOne, ...Nothing, ...Twice and ...NoTip are not part of the    *)
(* specification: each is a faulty version of the definition after it, and *)
(* shows that a property can fail (see README).                            *)
(***************************************************************************)
EXTENDS Integers, Sequences, FiniteSets

CONSTANTS
  Validators,    \* the ids of the ValidatorSet
  Restarters,    \* the validators that may crash and restart without memory
  Blocks,        \* the blocks that may be proposed, each identified with its hash
  Height,        \* Height[b]: Header.Height of b
  ParentHash,    \* ParentHash[b]: Header.ParentHash of b
  GenesisHash,   \* protocol.GenesisHash
  NoHash         \* the empty string: no vote recorded, nothing locked

ASSUME ValidatorAssumption ==
  /\ IsFiniteSet(Validators)
  /\ Cardinality(Validators) >= 4
  /\ Restarters \subseteq Validators

\* Fewer than a third of the validators lose their memory: the quorum rule
\* (2n)/3+1 tolerates no more.
ASSUME FaultAssumption ==
  3 * Cardinality(Restarters) < Cardinality(Validators)

ASSUME BlockAssumption ==
  /\ Height \in [Blocks -> Nat \ {0}]
  /\ ParentHash \in [Blocks -> Blocks \cup {GenesisHash}]
  /\ GenesisHash \notin Blocks
  /\ NoHash \notin Blocks
  /\ NoHash # GenesisHash

VARIABLES
  height,        \* height[r]: height of r's finalized tip
  tipHash,       \* tipHash[r]: hash of r's finalized tip
  blocks,        \* blocks[r]: the finalized chain of r
  pending,       \* pending[r]: block bodies r keeps by hash
  voted,         \* voted[r][h][phase]: the block r voted for, or NoHash
  lockedHeight,  \* lockedHeight[r], lockedHash[r]: the block r is locked on
  lockedHash,
  votes,         \* votes[phase][b]: the validators that ever signed a phase vote for b
  ledger         \* history: the longest chain any replica has ever finalized

replicaVars == <<height, tipHash, blocks, pending, voted, lockedHeight, lockedHash>>
vars == <<height, tipHash, blocks, pending, voted, lockedHeight, lockedHash, votes, ledger>>

Phases == {"prepare", "precommit", "commit"}
Heights == {Height[b] : b \in Blocks}

\* The state NewReplica builds.
NewVoted == [h \in Heights |-> [p \in Phases |-> NoHash]]

TypeOK ==
  /\ height \in [Validators -> Nat]
  /\ tipHash \in [Validators -> Blocks \cup {GenesisHash}]
  /\ blocks \in [Validators -> Seq(Blocks)]
  /\ pending \in [Validators -> SUBSET Blocks]
  /\ voted \in [Validators -> [Heights -> [Phases -> Blocks \cup {NoHash}]]]
  /\ lockedHeight \in [Validators -> Nat]
  /\ lockedHash \in [Validators -> Blocks \cup {NoHash}]
  /\ votes \in [Phases -> [Blocks -> SUBSET Validators]]
  /\ ledger \in Seq(Blocks)

-----------------------------------------------------------------------------
QuorumWithoutOne == (2 * Cardinality(Validators)) \div 3

\* ValidatorSet.Quorum
Quorum == (2 * Cardinality(Validators)) \div 3 + 1

\* MakeQC succeeds on, and VerifyQC accepts, distinct valid votes of at least
\* Quorum() validators for one phase and one block.  A vote's height is its
\* block's: voteLocked is only ever called with block.Header.Height.
QCExists(phase, b) == Cardinality(votes[phase][b]) >= Quorum

ExtendsHeightOnly(r, b) == Height[b] = height[r] + 1

IsTip(r, b) == Height[b] = height[r] /\ b = tipHash[r]
Extends(r, b) == Height[b] = height[r] + 1 /\ ParentHash[b] = tipHash[r]

\* validateBlockLocked.  The validate callback may also reject a block that
\* extends the tip; the handler then does nothing.
ValidateBlockLocked(r, b) == IsTip(r, b) \/ Extends(r, b)

\* The lock test of OnProposal.
ConflictsWithLock(r, b) ==
  /\ lockedHeight[r] = Height[b]
  /\ lockedHash[r] # NoHash
  /\ lockedHash[r] # b

DoubleVoteUnchecked(r, phase, b) == FALSE

\* The test of voteLocked.
DoubleVote(r, phase, b) == voted[r][Height[b]][phase] \notin {NoHash, b}

\* voteLocked: refuse a second vote for another block, else record and sign.
VoteLocked(r, phase, b) ==
  IF DoubleVote(r, phase, b)
  THEN UNCHANGED <<voted, votes>>
  ELSE /\ voted' = [voted EXCEPT ![r][Height[b]][phase] = b]
       /\ votes' = [votes EXCEPT ![phase][b] = @ \cup {r}]

RememberNothing(r, b) == UNCHANGED pending

\* r.pending[blockHash] = block
Remember(r, b) == pending' = [pending EXCEPT ![r] = @ \cup {b}]

-----------------------------------------------------------------------------
Init ==
  /\ height = [r \in Validators |-> 0]
  /\ tipHash = [r \in Validators |-> GenesisHash]
  /\ blocks = [r \in Validators |-> <<>>]
  /\ pending = [r \in Validators |-> {}]
  /\ voted = [r \in Validators |-> NewVoted]
  /\ lockedHeight = [r \in Validators |-> 0]
  /\ lockedHash = [r \in Validators |-> NoHash]
  /\ votes = [p \in Phases |-> [b \in Blocks |-> {}]]
  /\ ledger = <<>>

OnProposal(r, b) ==
  /\ ValidateBlockLocked(r, b)
  /\ ~ConflictsWithLock(r, b)
  /\ Remember(r, b)
  /\ VoteLocked(r, "prepare", b)
  /\ UNCHANGED <<height, tipHash, blocks, lockedHeight, lockedHash, ledger>>

(* OnQC, by the phase of the QC.  Accept... is the handler once VerifyQC has  *)
(* accepted the QC; VerifyQC accepts the QCs that exist.                      *)

\* A prepare QC: vote precommit.
AcceptPrepareQC(r, b) ==
  /\ ValidateBlockLocked(r, b)
  /\ Remember(r, b)
  /\ VoteLocked(r, "precommit", b)
  /\ UNCHANGED <<height, tipHash, blocks, lockedHeight, lockedHash, ledger>>

OnPrepareQC(r, b) == QCExists("prepare", b) /\ AcceptPrepareQC(r, b)

\* A precommit QC: lock the block, whatever was locked before, and vote commit.
\* The lock stays even if the vote is refused.
AcceptPreCommitQC(r, b) ==
  /\ ValidateBlockLocked(r, b)
  /\ Remember(r, b)
  /\ lockedHeight' = [lockedHeight EXCEPT ![r] = Height[b]]
  /\ lockedHash' = [lockedHash EXCEPT ![r] = b]
  /\ VoteLocked(r, "commit", b)
  /\ UNCHANGED <<height, tipHash, blocks, ledger>>

OnPreCommitQCUnphased(r, b) == QCExists("prepare", b) /\ AcceptPreCommitQC(r, b)

OnPreCommitQC(r, b) == QCExists("precommit", b) /\ AcceptPreCommitQC(r, b)

AppendBlock(r, b) ==
  /\ blocks' = [blocks EXCEPT ![r] = Append(@, b)]
  /\ height' = [height EXCEPT ![r] = Height[b]]
  /\ ledger' = IF Len(blocks[r]) = Len(ledger) THEN Append(ledger, b) ELSE ledger

AcceptCommitQCTwice(r, b) ==
  /\ IsTip(r, b)
  /\ AppendBlock(r, b)
  /\ UNCHANGED <<tipHash, pending, voted, lockedHeight, lockedHash, votes>>

\* A commit QC for the block that is already r's tip: reported as finalized; the
\* body goes back into pending and is not deleted again.
AcceptCommitQCAgain(r, b) ==
  /\ IsTip(r, b)
  /\ Remember(r, b)
  /\ UNCHANGED <<height, tipHash, blocks, voted, lockedHeight, lockedHash, votes, ledger>>

OnCommitQCAgain(r, b) == QCExists("commit", b) /\ AcceptCommitQCAgain(r, b)

AcceptCommitQCNoTip(r, b) ==
  /\ Extends(r, b)
  /\ AppendBlock(r, b)
  /\ tipHash' = [tipHash EXCEPT ![r] = NoHash]
  /\ pending' = [pending EXCEPT ![r] = @ \ {b}]
  /\ UNCHANGED <<voted, lockedHeight, lockedHash, votes>>

\* A commit QC for the next block: finalize it.
AcceptCommitQC(r, b) ==
  /\ Extends(r, b)
  /\ AppendBlock(r, b)
  /\ tipHash' = [tipHash EXCEPT ![r] = b]
  /\ pending' = [pending EXCEPT ![r] = @ \ {b}]
  /\ UNCHANGED <<voted, lockedHeight, lockedHash, votes>>

OnCommitQCUnphased(r, b) == QCExists("precommit", b) /\ AcceptCommitQC(r, b)

OnCommitQC(r, b) == QCExists("commit", b) /\ AcceptCommitQC(r, b)

\* The process of r ends and is started again: NewReplica.
Restart(r) ==
  /\ height' = [height EXCEPT ![r] = 0]
  /\ tipHash' = [tipHash EXCEPT ![r] = GenesisHash]
  /\ blocks' = [blocks EXCEPT ![r] = <<>>]
  /\ pending' = [pending EXCEPT ![r] = {}]
  /\ voted' = [voted EXCEPT ![r] = NewVoted]
  /\ lockedHeight' = [lockedHeight EXCEPT ![r] = 0]
  /\ lockedHash' = [lockedHash EXCEPT ![r] = NoHash]
  /\ UNCHANGED <<votes, ledger>>

Next ==
  \/ \E r \in Validators, b \in Blocks :
       \/ OnProposal(r, b)
       \/ OnPrepareQC(r, b)
       \/ OnPreCommitQC(r, b)
       \/ OnCommitQCAgain(r, b)
       \/ OnCommitQC(r, b)
  \/ \E r \in Restarters : Restart(r)

Spec == Init /\ [][Next]_vars

-----------------------------------------------------------------------------
(* The facts that make the properties inductive. *)

\* A vote signed by a validator that never restarts is still in its voted map.
VotesRecorded ==
  \A p \in Phases, b \in Blocks : \A v \in votes[p][b] \ Restarters :
    voted[v][Height[b]][p] = b

\* No phase is skipped: a precommit vote stands on a prepare QC, a commit vote
\* on a precommit QC.
VotesInOrder ==
  \A b \in Blocks :
    /\ votes["precommit"][b] # {} => QCExists("prepare", b)
    /\ votes["commit"][b] # {} => QCExists("precommit", b)

\* What a replica has recorded is a vote it signed, filed under its height.
VotedSigned ==
  \A r \in Validators, h \in Heights, p \in Phases :
    voted[r][h][p] # NoHash =>
      /\ Height[voted[r][h][p]] = h
      /\ r \in votes[p][voted[r][h][p]]

\* Every decided block has a commit QC and sits at its own height.
LedgerCertified ==
  \A i \in 1..Len(ledger) : Height[ledger[i]] = i /\ QCExists("commit", ledger[i])

-----------------------------------------------------------------------------
(* Properties *)

\* What every replica has finalized, now or before a restart, lies on one
\* chain: OnQC(commit) never appends a block that differs from what another
\* replica appended at that height, however votes and QCs interleave.
Agreement ==
  \A r \in Validators :
    /\ Len(blocks[r]) <= Len(ledger)
    /\ \A i \in 1..Len(blocks[r]) : blocks[r][i] = ledger[i]

\* A finalized chain is a chain: its i-th block has height i and names the
\* block before it as its parent, and height and tipHash describe its end.
ChainWellFormed ==
  \A r \in Validators :
    /\ height[r] = Len(blocks[r])
    /\ tipHash[r] = IF blocks[r] = <<>> THEN GenesisHash ELSE blocks[r][Len(blocks[r])]
    /\ \A i \in 1..Len(blocks[r]) :
         /\ Height[blocks[r][i]] = i
         /\ ParentHash[blocks[r][i]] = IF i = 1 THEN GenesisHash ELSE blocks[r][i - 1]

\* In every phase at most one block of a height can be certified: MakeQC never
\* succeeds for two competing blocks, even with the votes signed again by
\* restarted validators.
UniqueQC ==
  \A p \in Phases, b, c \in Blocks :
    (Height[b] = Height[c] /\ QCExists(p, b) /\ QCExists(p, c)) => b = c

\* A finalized block went through all three phases: behind its commit votes
\* there are a precommit quorum and a prepare quorum for the same block.
FinalizedThroughAllPhases ==
  \A i \in 1..Len(ledger) : \A p \in Phases : QCExists(p, ledger[i])

\* The lock and the commit vote of a replica never name different blocks of
\* one height, and a lock always stands on a precommit quorum.
LockIsCertified ==
  \A r \in Validators :
    lockedHash[r] # NoHash =>
      /\ lockedHeight[r] = Height[lockedHash[r]]
      /\ QCExists("precommit", lockedHash[r])
      /\ voted[r][lockedHeight[r]]["commit"] \in {NoHash, lockedHash[r]}

\* A replica still has the body of every block it voted for since it started:
\* in pending until it is finalized, in blocks afterwards.
VotedBlockKept ==
  \A r \in Validators, h \in Heights, p \in Phases :
    voted[r][h][p] # NoHash =>
      voted[r][h][p] \in pending[r] \cup {blocks[r][i] : i \in 1..Len(blocks[r])}

\* The inductive invariant of ConsensusProofs.
IndInv ==
  /\ TypeOK
  /\ VotesRecorded
  /\ VotesInOrder
  /\ VotedSigned
  /\ LedgerCertified
  /\ ChainWellFormed
  /\ Agreement
  /\ LockIsCertified
  /\ VotedBlockKept

\* The refinement mapping: the decided chain is the longest one ever finalized.
Chain == INSTANCE FinalizedChain WITH decided <- ledger, chain <- blocks

\* The replicas implement FinalizedChain: whatever votes and QCs do, finality
\* only ever extends one chain, and OnQC(commit) moves a replica along it.
ImplementsFinalizedChain == Chain!Spec

\* A replica never signs a prepare vote against a block it has locked at that
\* height since it started, which is what the "proposal conflicts with locked
\* block" test of OnProposal is there for.  (A commit vote is only signed in
\* the step that locks its block.)
PrepareRespectsLock ==
  [][\A r \in Validators, h \in Heights :
       (voted'[r][h]["prepare"] # voted[r][h]["prepare"] /\ voted'[r][h]["prepare"] # NoHash)
         => voted[r][h]["commit"] \in {NoHash, voted'[r][h]["prepare"]}]_vars
=============================================================================
