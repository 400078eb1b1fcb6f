-------------------------- MODULE ConsensusProofs ---------------------------
(***************************************************************************)
(* Proofs about HotStuff for every validator set of at least four, every   *)
(* set of blocks and every set of fewer than a third of restarting         *)
(* validators; and about Round: the composition of proposers and replicas  *)
(* implements HotStuff, so every theorem about HotStuff holds of it, and a *)
(* round that reports success is final.                                    *)
(***************************************************************************)
EXTENDS Round, FiniteSetTheorems, SequenceTheorems, TLAPS

-----------------------------------------------------------------------------
(* Quorums *)

\* ValidatorSet.Quorum is more than two thirds of the validators.
LEMMA QuorumSize ==
  /\ Quorum \in Nat
  /\ 3 * Quorum > 2 * Cardinality(Validators)
<1>1. Cardinality(Validators) \in Nat
  BY ValidatorAssumption, FS_CardinalityType
<1> DEFINE n == Cardinality(Validators)
<1>2. n \in Nat
  BY <1>1
<1>3. (2 * n) \div 3 + 1 \in Nat /\ 3 * ((2 * n) \div 3 + 1) > 2 * n
  <2> HIDE DEF n
  <2> QED BY <1>2
<1> QED BY <1>3 DEF Quorum

\* Any two quorums share a validator that never loses its memory.
LEMMA QuorumIntersection ==
  ASSUME NEW S \in SUBSET Validators, NEW T \in SUBSET Validators,
         Cardinality(S) >= Quorum, Cardinality(T) >= Quorum
  PROVE  \E v \in S \cap T : v \notin Restarters
<1>1. IsFiniteSet(Validators) /\ Cardinality(Validators) \in Nat
  BY ValidatorAssumption, FS_CardinalityType
<1>2. /\ IsFiniteSet(S) /\ IsFiniteSet(T) /\ IsFiniteSet(Restarters)
      /\ IsFiniteSet(S \cap T) /\ IsFiniteSet(S \cup T)
  BY <1>1, ValidatorAssumption, FS_Subset
<1>3. /\ Cardinality(S) \in Nat /\ Cardinality(T) \in Nat
      /\ Cardinality(S \cap T) \in Nat /\ Cardinality(S \cup T) \in Nat
      /\ Cardinality(Restarters) \in Nat
  BY <1>2, FS_CardinalityType
<1>4. Cardinality(S \cup T) = Cardinality(S) + Cardinality(T) - Cardinality(S \cap T)
  BY <1>2, FS_Union
<1>5. Cardinality(S \cup T) <= Cardinality(Validators)
  BY <1>1, FS_Subset
<1>6. Cardinality(S \cap T) > Cardinality(Restarters)
  BY <1>1, <1>3, <1>4, <1>5, QuorumSize, FaultAssumption
<1>7. ~(S \cap T \subseteq Restarters)
  BY <1>2, <1>3, <1>6, FS_Subset
<1> QED BY <1>7

\* Votes are never withdrawn, so a QC that could be made once can be made
\* for ever.
LEMMA QCMonotonic ==
  ASSUME TypeOK', NEW p \in Phases, NEW b \in Blocks,
         votes[p][b] \subseteq votes'[p][b], QCExists(p, b)
  PROVE  QCExists(p, b)'
<1>1. votes'[p][b] \subseteq Validators
  BY DEF TypeOK
<1>2. IsFiniteSet(votes'[p][b])
  BY <1>1, ValidatorAssumption, FS_Subset
<1>3. Cardinality(votes[p][b]) <= Cardinality(votes'[p][b]) /\ IsFiniteSet(votes[p][b])
  BY <1>2, FS_Subset
<1>4. Cardinality(votes[p][b]) \in Nat /\ Cardinality(votes'[p][b]) \in Nat /\ Quorum \in Nat
  BY <1>2, <1>3, FS_CardinalityType, QuorumSize
<1>5. Cardinality(votes'[p][b]) >= Quorum
  BY <1>3, <1>4 DEF QCExists
<1> QED BY <1>5 DEF QCExists, Quorum

\* Behind a QC there is at least one vote.
LEMMA QCHasVote ==
  ASSUME TypeOK, NEW p \in Phases, NEW b \in Blocks, QCExists(p, b)
  PROVE  votes[p][b] # {}
<1>1. votes[p][b] \in SUBSET Validators
  BY DEF TypeOK
<1>2. \E v \in votes[p][b] \cap votes[p][b] : v \notin Restarters
  BY <1>1, QuorumIntersection DEF QCExists
<1> QED BY <1>2

\* Two QCs of one phase and one height certify the same block.
LEMMA QCUnique ==
  ASSUME TypeOK, VotesRecorded, NEW p \in Phases, NEW b \in Blocks, NEW c \in Blocks,
         Height[b] = Height[c], QCExists(p, b), QCExists(p, c)
  PROVE  b = c
<1>1. votes[p][b] \in SUBSET Validators /\ votes[p][c] \in SUBSET Validators
  BY DEF TypeOK
<1>2. PICK v \in votes[p][b] \cap votes[p][c] : v \notin Restarters
  BY <1>1, QuorumIntersection DEF QCExists
<1>3. voted[v][Height[b]][p] = b /\ voted[v][Height[c]][p] = c
  BY <1>2 DEF VotesRecorded
<1> QED BY <1>3

-----------------------------------------------------------------------------
(* Type correctness *)

\* voteLocked keeps the shape of the voted map and of the signed votes.
LEMMA VoteLockedType ==
  ASSUME TypeOK, NEW r \in Validators, NEW b \in Blocks, NEW p \in Phases,
         VoteLocked(r, p, b)
  PROVE  /\ voted' \in [Validators -> [Heights -> [Phases -> Blocks \cup {NoHash}]]]
         /\ votes' \in [Phases -> [Blocks -> SUBSET Validators]]
<1>1. Height[b] \in Heights
  BY DEF Heights
<1>2. CASE DoubleVote(r, p, b)
  BY <1>2 DEF VoteLocked, TypeOK
<1>3. CASE ~DoubleVote(r, p, b)
  <2>1. voted' = [voted EXCEPT ![r][Height[b]][p] = b]
    BY <1>3 DEF VoteLocked
  <2>2. votes' = [votes EXCEPT ![p][b] = @ \cup {r}]
    BY <1>3 DEF VoteLocked
  <2>3. voted' \in [Validators -> [Heights -> [Phases -> Blocks \cup {NoHash}]]]
    BY <1>1, <2>1 DEF TypeOK
  <2>4. votes' \in [Phases -> [Blocks -> SUBSET Validators]]
    BY <2>2 DEF TypeOK
  <2> QED BY <2>3, <2>4
<1> QED BY <1>2, <1>3

\* Every handler keeps the replica's state well typed.
LEMMA TypeStep == TypeOK /\ [Next]_vars => TypeOK'
<1> SUFFICES ASSUME TypeOK, [Next]_vars PROVE TypeOK'
  OBVIOUS
<1> USE BlockAssumption, ValidatorAssumption
<1>1. ASSUME NEW r \in Validators, NEW b \in Blocks, OnProposal(r, b)
      PROVE  TypeOK'
  BY <1>1, VoteLockedType DEF TypeOK, OnProposal, Remember, Phases
<1>2. ASSUME NEW r \in Validators, NEW b \in Blocks, OnPrepareQC(r, b)
      PROVE  TypeOK'
  BY <1>2, VoteLockedType DEF TypeOK, OnPrepareQC, AcceptPrepareQC, Remember, Phases
<1>3. ASSUME NEW r \in Validators, NEW b \in Blocks, OnPreCommitQC(r, b)
      PROVE  TypeOK'
  <2>1. /\ voted' \in [Validators -> [Heights -> [Phases -> Blocks \cup {NoHash}]]]
        /\ votes' \in [Phases -> [Blocks -> SUBSET Validators]]
    BY <1>3, VoteLockedType DEF OnPreCommitQC, AcceptPreCommitQC, Phases
  <2>2. Height[b] \in Nat
    OBVIOUS
  <2> QED BY <1>3, <2>1, <2>2 DEF TypeOK, OnPreCommitQC, AcceptPreCommitQC, Remember
<1>4. ASSUME NEW r \in Validators, NEW b \in Blocks, OnCommitQCAgain(r, b)
      PROVE  TypeOK'
  BY <1>4 DEF TypeOK, OnCommitQCAgain, AcceptCommitQCAgain, Remember
<1>5. ASSUME NEW r \in Validators, NEW b \in Blocks, OnCommitQC(r, b)
      PROVE  TypeOK'
  <2>1. Height[b] \in Nat
    OBVIOUS
  <2>2. Append(blocks[r], b) \in Seq(Blocks) /\ Append(ledger, b) \in Seq(Blocks)
    BY DEF TypeOK
  <2> QED BY <1>5, <2>1, <2>2 DEF TypeOK, OnCommitQC, AcceptCommitQC, AppendBlock
<1>6. ASSUME NEW r \in Restarters, Restart(r)
      PROVE  TypeOK'
  <2>1. NewVoted \in [Heights -> [Phases -> Blocks \cup {NoHash}]]
    BY DEF NewVoted
  <2>2. r \in Validators /\ <<>> \in Seq(Blocks)
    OBVIOUS
  <2> QED BY <1>6, <2>1, <2>2 DEF TypeOK, Restart
<1>7. CASE UNCHANGED vars
  BY <1>7 DEF TypeOK, vars
<1> QED BY <1>1, <1>2, <1>3, <1>4, <1>5, <1>6, <1>7 DEF Next

\* The state of every replica stays well typed through any interleaving of
\* handlers and restarts.
THEOREM TypeCorrect == Spec => []TypeOK
<1>1. Init => TypeOK
  BY BlockAssumption, ValidatorAssumption DEF Init, TypeOK, NewVoted
<1> QED BY <1>1, TypeStep, PTL DEF Spec

-----------------------------------------------------------------------------
(* The inductive invariant *)

\* What voteLocked does: it adds at most the vote of r for b, it changes at
\* most the entry of r for that height and phase, and it changes it only from
\* empty to b.
LEMMA VoteLockedEffect ==
  ASSUME TypeOK, NEW r \in Validators, NEW b \in Blocks, NEW p \in Phases,
         VoteLocked(r, p, b)
  PROVE  /\ \A q \in Phases, c \in Blocks :
              /\ votes[q][c] \subseteq votes'[q][c]
              /\ (q # p \/ c # b) => votes'[q][c] = votes[q][c]
         /\ votes'[p][b] \subseteq votes[p][b] \cup {r}
         /\ \A v \in Validators, h \in Heights, q \in Phases :
              (v # r \/ h # Height[b] \/ q # p) => voted'[v][h][q] = voted[v][h][q]
         /\ \/ /\ voted[r][Height[b]][p] \in {NoHash, b}
               /\ voted'[r][Height[b]][p] = b
               /\ r \in votes'[p][b]
            \/ /\ voted[r][Height[b]][p] \notin {NoHash, b}
               /\ voted' = voted
               /\ votes' = votes
<1>1. Height[b] \in Heights
  BY DEF Heights
<1>2. CASE DoubleVote(r, p, b)
  BY <1>2 DEF VoteLocked, DoubleVote
<1>3. CASE ~DoubleVote(r, p, b)
  <2>1. voted' = [voted EXCEPT ![r][Height[b]][p] = b]
    BY <1>3 DEF VoteLocked
  <2>2. votes' = [votes EXCEPT ![p][b] = @ \cup {r}]
    BY <1>3 DEF VoteLocked
  <2>3. voted[r][Height[b]][p] \in {NoHash, b}
    BY <1>3 DEF DoubleVote
  <2>4. votes'[p][b] = votes[p][b] \cup {r}
    BY <2>2 DEF TypeOK
  <2>5. \A q \in Phases, c \in Blocks : (q # p \/ c # b) => votes'[q][c] = votes[q][c]
    BY <2>2 DEF TypeOK
  <2>6. voted'[r][Height[b]][p] = b
    BY <1>1, <2>1 DEF TypeOK
  <2>7. \A v \in Validators, h \in Heights, q \in Phases :
          (v # r \/ h # Height[b] \/ q # p) => voted'[v][h][q] = voted[v][h][q]
    BY <1>1, <2>1 DEF TypeOK
  <2> QED BY <2>3, <2>4, <2>5, <2>6, <2>7
<1> QED BY <1>2, <1>3

\* A QC that could be made before a voting step can be made after it.
LEMMA QCKept ==
  ASSUME TypeOK, TypeOK', NEW r \in Validators, NEW b \in Blocks, NEW p \in Phases,
         VoteLocked(r, p, b)
  PROVE  \A q \in Phases, c \in Blocks : QCExists(q, c) => QCExists(q, c)'
<1> SUFFICES ASSUME NEW q \in Phases, NEW c \in Blocks, QCExists(q, c)
             PROVE  QCExists(q, c)'
  OBVIOUS
<1>1. votes[q][c] \subseteq votes'[q][c]
  BY VoteLockedEffect
<1> QED BY <1>1, QCMonotonic

\* A voting step keeps everything but the facts about the lock.
LEMMA VotingStep ==
  ASSUME IndInv, TypeOK', NEW r \in Validators, NEW b \in Blocks, NEW p \in Phases,
         VoteLocked(r, p, b), Remember(r, b),
         p = "precommit" => QCExists("prepare", b),
         p = "commit" => QCExists("precommit", b),
         UNCHANGED <<height, tipHash, blocks, ledger>>
  PROVE  /\ VotesRecorded' /\ VotesInOrder' /\ VotedSigned' /\ LedgerCertified'
         /\ ChainWellFormed' /\ Agreement' /\ VotedBlockKept'
<1> USE DEF IndInv
<1>h. Height[b] \in Heights
  BY DEF Heights
<1>0. \A q \in Phases, c \in Blocks : QCExists(q, c) => QCExists(q, c)'
  BY QCKept
<1>1. VotesRecorded'
  <2> SUFFICES ASSUME NEW q \in Phases, NEW c \in Blocks,
                      NEW v \in votes'[q][c], v \notin Restarters
               PROVE  voted'[v][Height[c]][q] = c
    BY DEF VotesRecorded
  <2>1. v \in Validators /\ Height[c] \in Heights
    BY DEF TypeOK, Heights
  <2>2. CASE v \in votes[q][c]
    <3>1. voted[v][Height[c]][q] = c
      BY <2>2 DEF VotesRecorded
    <3>2. c # NoHash
      BY BlockAssumption
    <3> QED BY <2>1, <3>1, <3>2, VoteLockedEffect
  <2>3. CASE v \notin votes[q][c]
    <3>1. q = p /\ c = b /\ v = r
      BY <2>3, VoteLockedEffect
    <3> QED BY <2>3, <3>1, VoteLockedEffect
  <2> QED BY <2>2, <2>3
<1>2. VotesInOrder'
  <2> SUFFICES ASSUME NEW c \in Blocks
               PROVE  /\ votes'["precommit"][c] # {} => QCExists("prepare", c)'
                      /\ votes'["commit"][c] # {} => QCExists("precommit", c)'
    BY DEF VotesInOrder
  <2>1. votes'["precommit"][c] # {} => QCExists("prepare", c)
    BY VoteLockedEffect DEF VotesInOrder, Phases
  <2>2. votes'["commit"][c] # {} => QCExists("precommit", c)
    BY VoteLockedEffect DEF VotesInOrder, Phases
  <2> QED BY <1>0, <2>1, <2>2 DEF Phases
<1>3. VotedSigned'
  <2> SUFFICES ASSUME NEW v \in Validators, NEW h \in Heights, NEW q \in Phases,
                      voted'[v][h][q] # NoHash
               PROVE  /\ Height[voted'[v][h][q]] = h
                      /\ v \in votes'[q][voted'[v][h][q]]
    BY DEF VotedSigned
  <2>1. CASE voted'[v][h][q] = voted[v][h][q]
    <3>1. voted[v][h][q] \in Blocks
      BY <2>1, BlockAssumption DEF TypeOK
    <3> QED BY <2>1, <3>1, VoteLockedEffect DEF VotedSigned
  <2>2. CASE voted'[v][h][q] # voted[v][h][q]
    BY <2>2, <1>h, VoteLockedEffect
  <2> QED BY <2>1, <2>2
<1>4. LedgerCertified'
  <2> SUFFICES ASSUME NEW i \in 1..Len(ledger)
               PROVE  Height[ledger[i]] = i /\ QCExists("commit", ledger[i])'
    BY DEF LedgerCertified, QCExists, Quorum
  <2>1. ledger[i] \in Blocks
    BY DEF TypeOK
  <2>2. Height[ledger[i]] = i /\ QCExists("commit", ledger[i])
    BY DEF LedgerCertified
  <2> QED BY <1>0, <2>1, <2>2 DEF Phases
<1>5. ChainWellFormed'
  BY DEF ChainWellFormed
<1>6. Agreement'
  BY DEF Agreement
<1>7. VotedBlockKept'
  <2> SUFFICES ASSUME NEW v \in Validators, NEW h \in Heights, NEW q \in Phases,
                      voted'[v][h][q] # NoHash
               PROVE  voted'[v][h][q] \in pending'[v] \cup {blocks[v][i] : i \in 1..Len(blocks[v])}
    BY DEF VotedBlockKept
  <2>0. pending[v] \subseteq pending'[v] /\ b \in pending'[r]
    BY DEF Remember, TypeOK
  <2>1. CASE voted'[v][h][q] = voted[v][h][q]
    BY <2>0, <2>1 DEF VotedBlockKept
  <2>2. CASE voted'[v][h][q] # voted[v][h][q]
    BY <2>0, <2>2, <1>h, VoteLockedEffect
  <2> QED BY <2>1, <2>2
<1> QED BY <1>1, <1>2, <1>3, <1>4, <1>5, <1>6, <1>7

\* A commit QC for the block after r's tip certifies what the ledger holds at
\* that height, if it holds anything there.
LEMMA CommitMatchesLedger ==
  ASSUME IndInv, NEW r \in Validators, NEW b \in Blocks,
         Extends(r, b), QCExists("commit", b), Len(blocks[r]) # Len(ledger)
  PROVE  /\ Len(blocks[r]) + 1 \in 1..Len(ledger)
         /\ ledger[Len(blocks[r]) + 1] = b
<1> USE DEF IndInv
<1>1. Len(blocks[r]) \in Nat /\ Len(ledger) \in Nat /\ Len(blocks[r]) <= Len(ledger)
  BY DEF TypeOK, Agreement
<1>2. Len(blocks[r]) + 1 \in 1..Len(ledger)
  BY <1>1
<1>3. Height[b] = Len(blocks[r]) + 1
  BY DEF Extends, ChainWellFormed
<1>4. /\ ledger[Len(blocks[r]) + 1] \in Blocks
      /\ Height[ledger[Len(blocks[r]) + 1]] = Len(blocks[r]) + 1
      /\ QCExists("commit", ledger[Len(blocks[r]) + 1])
  BY <1>2 DEF TypeOK, LedgerCertified
<1>5. ledger[Len(blocks[r]) + 1] = b
  BY <1>3, <1>4, QCUnique DEF Phases
<1> QED BY <1>2, <1>5

\* Finalizing a block keeps the invariant.
LEMMA CommitStep ==
  ASSUME IndInv, TypeOK', NEW r \in Validators, NEW b \in Blocks, OnCommitQC(r, b)
  PROVE  IndInv'
<1> USE DEF IndInv
<1>0. /\ Extends(r, b) /\ QCExists("commit", b)
      /\ voted' = voted /\ votes' = votes
      /\ lockedHeight' = lockedHeight /\ lockedHash' = lockedHash
  BY DEF OnCommitQC, AcceptCommitQC, AppendBlock
<1>1. /\ VotesRecorded' /\ VotesInOrder' /\ VotedSigned' /\ LockIsCertified'
  BY <1>0 DEF VotesRecorded, VotesInOrder, VotedSigned, LockIsCertified, QCExists, Quorum
<1>2. /\ blocks' = [blocks EXCEPT ![r] = Append(blocks[r], b)]
      /\ blocks[r] \in Seq(Blocks) /\ ledger \in Seq(Blocks)
      /\ \A v \in Validators : v # r => blocks'[v] = blocks[v]
      /\ blocks'[r] = Append(blocks[r], b)
      /\ ledger' = IF Len(blocks[r]) = Len(ledger) THEN Append(ledger, b) ELSE ledger
  BY DEF OnCommitQC, AcceptCommitQC, AppendBlock, TypeOK
<1>3. /\ Len(blocks'[r]) = Len(blocks[r]) + 1 /\ Len(blocks[r]) \in Nat
      /\ blocks'[r][Len(blocks[r]) + 1] = b
      /\ \A i \in 1..Len(blocks[r]) : blocks'[r][i] = blocks[r][i]
  BY <1>2
<1>4. height[r] = Len(blocks[r]) /\ Height[b] = Len(blocks[r]) + 1
  BY <1>0 DEF Extends, ChainWellFormed
<1>5. LedgerCertified'
  <2> SUFFICES ASSUME NEW i \in 1..Len(ledger')
               PROVE  Height[ledger'[i]] = i /\ QCExists("commit", ledger'[i])
    BY <1>0 DEF LedgerCertified, QCExists, Quorum
  <2>1. CASE Len(blocks[r]) = Len(ledger)
    <3>1. ledger' = Append(ledger, b)
      BY <1>2, <2>1
    <3>2. CASE i = Len(ledger) + 1
      <4>1. ledger'[i] = b
        BY <1>2, <3>1, <3>2
      <4> QED BY <1>0, <1>4, <2>1, <3>2, <4>1
    <3>3. CASE i # Len(ledger) + 1
      <4>1. i \in 1..Len(ledger) /\ ledger'[i] = ledger[i]
        BY <1>2, <3>1, <3>3
      <4> QED BY <4>1 DEF LedgerCertified
    <3> QED BY <3>2, <3>3
  <2>2. CASE Len(blocks[r]) # Len(ledger)
    BY <1>2, <2>2 DEF LedgerCertified
  <2> QED BY <2>1, <2>2
<1>6. ChainWellFormed'
  <2> SUFFICES ASSUME NEW v \in Validators
               PROVE  /\ height'[v] = Len(blocks'[v])
                      /\ tipHash'[v] = IF blocks'[v] = <<>> THEN GenesisHash
                                       ELSE blocks'[v][Len(blocks'[v])]
                      /\ \A i \in 1..Len(blocks'[v]) :
                           /\ Height[blocks'[v][i]] = i
                           /\ ParentHash[blocks'[v][i]] =
                                IF i = 1 THEN GenesisHash ELSE blocks'[v][i - 1]
    BY DEF ChainWellFormed
  <2>1. CASE v # r
    <3>1. blocks'[v] = blocks[v] /\ height'[v] = height[v] /\ tipHash'[v] = tipHash[v]
      BY <1>2, <2>1 DEF OnCommitQC, AcceptCommitQC, AppendBlock, TypeOK
    <3> QED BY <3>1 DEF ChainWellFormed
  <2>2. CASE v = r
    <3>1. height'[r] = Height[b] /\ tipHash'[r] = b
      BY DEF OnCommitQC, AcceptCommitQC, AppendBlock, TypeOK
    <3>2. blocks'[r] # <<>>
      BY <1>2
    <3>3. ASSUME NEW i \in 1..Len(blocks'[r])
          PROVE  /\ Height[blocks'[r][i]] = i
                 /\ ParentHash[blocks'[r][i]] = IF i = 1 THEN GenesisHash ELSE blocks'[r][i - 1]
      <4>1. CASE i = Len(blocks[r]) + 1
        <5>1. ParentHash[b] = tipHash[r]
          BY <1>0 DEF Extends
        <5>2. CASE Len(blocks[r]) = 0
          <6>1. blocks[r] = <<>>
            BY <1>2, <5>2
          <6> QED BY <1>3, <1>4, <4>1, <5>1, <5>2, <6>1 DEF ChainWellFormed
        <5>3. CASE Len(blocks[r]) # 0
          <6>1. blocks[r] # <<>> /\ i - 1 \in 1..Len(blocks[r]) /\ i - 1 = Len(blocks[r]) /\ i # 1
            BY <1>2, <1>3, <4>1, <5>3
          <6>2. tipHash[r] = blocks[r][Len(blocks[r])]
            BY <6>1 DEF ChainWellFormed
          <6> QED BY <1>3, <1>4, <4>1, <5>1, <6>1, <6>2
        <5> QED BY <5>2, <5>3
      <4>2. CASE i # Len(blocks[r]) + 1
        <5>1. i \in 1..Len(blocks[r])
          BY <1>3, <4>2
        <5>2. i # 1 => i - 1 \in 1..Len(blocks[r])
          BY <1>3, <5>1
        <5> QED BY <1>3, <5>1, <5>2 DEF ChainWellFormed
      <4> QED BY <4>1, <4>2
    <3> QED BY <1>3, <1>4, <2>2, <3>1, <3>2, <3>3
  <2> QED BY <2>1, <2>2
<1>7. Agreement'
  <2> SUFFICES ASSUME NEW v \in Validators
               PROVE  /\ Len(blocks'[v]) <= Len(ledger')
                      /\ \A i \in 1..Len(blocks'[v]) : blocks'[v][i] = ledger'[i]
    BY DEF Agreement
  <2>0. /\ Len(ledger) \in Nat /\ Len(ledger') \in Nat /\ Len(ledger) <= Len(ledger')
        /\ \A i \in 1..Len(ledger) : ledger'[i] = ledger[i]
    BY <1>2
  <2>1. CASE v # r
    <3>1. blocks'[v] = blocks[v] /\ Len(blocks[v]) \in Nat
      BY <1>2, <2>1 DEF TypeOK
    <3>2. Len(blocks[v]) <= Len(ledger)
      BY DEF Agreement
    <3> QED BY <2>0, <3>1, <3>2 DEF Agreement
  <2>2. CASE v = r /\ Len(blocks[r]) = Len(ledger)
    <3>1. Len(ledger') = Len(blocks[r]) + 1 /\ ledger'[Len(blocks[r]) + 1] = b
      BY <1>2, <2>2
    <3>2. \A i \in 1..Len(blocks[r]) : blocks[r][i] = ledger[i] /\ i \in 1..Len(ledger)
      BY <2>2 DEF Agreement
    <3> QED BY <1>3, <2>0, <2>2, <3>1, <3>2
  <2>3. CASE v = r /\ Len(blocks[r]) # Len(ledger)
    <3>1. Len(blocks[r]) + 1 \in 1..Len(ledger) /\ ledger[Len(blocks[r]) + 1] = b
      BY <1>0, <2>3, CommitMatchesLedger
    <3>2. \A i \in 1..Len(blocks[r]) : blocks[r][i] = ledger[i]
      BY DEF Agreement
    <3>3. ledger' = ledger
      BY <1>2, <2>3
    <3> QED BY <1>3, <2>0, <2>3, <3>1, <3>2, <3>3
  <2> QED BY <2>1, <2>2, <2>3
<1>8. VotedBlockKept'
  <2> SUFFICES ASSUME NEW v \in Validators, NEW h \in Heights, NEW q \in Phases,
                      voted[v][h][q] # NoHash
               PROVE  voted[v][h][q] \in pending'[v] \cup {blocks'[v][i] : i \in 1..Len(blocks'[v])}
    BY <1>0 DEF VotedBlockKept
  <2>0. voted[v][h][q] \in pending[v] \cup {blocks[v][i] : i \in 1..Len(blocks[v])}
    BY DEF VotedBlockKept
  <2>1. CASE v # r
    <3>1. blocks'[v] = blocks[v] /\ pending'[v] = pending[v]
      BY <1>2, <2>1 DEF OnCommitQC, AcceptCommitQC, AppendBlock, TypeOK
    <3> QED BY <2>0, <3>1
  <2>2. CASE v = r
    <3>1. pending'[r] = pending[r] \ {b}
      BY DEF OnCommitQC, AcceptCommitQC, AppendBlock, TypeOK
    <3>2. CASE voted[r][h][q] = b
      BY <1>3, <2>2, <3>2
    <3>3. CASE voted[r][h][q] \in pending[r] /\ voted[r][h][q] # b
      BY <2>2, <3>1, <3>3
    <3>4. CASE voted[r][h][q] \in {blocks[r][i] : i \in 1..Len(blocks[r])}
      <4>1. PICK i \in 1..Len(blocks[r]) : voted[r][h][q] = blocks[r][i]
        BY <3>4
      <4>2. i \in 1..Len(blocks'[r]) /\ blocks'[r][i] = blocks[r][i]
        BY <1>3, <4>1
      <4> QED BY <2>2, <4>1, <4>2
    <3> QED BY <2>0, <2>2, <3>2, <3>3, <3>4
  <2> QED BY <2>1, <2>2
<1> QED BY <1>1, <1>5, <1>6, <1>7, <1>8

\* A restart keeps the invariant: the votes stay, and nothing is claimed about
\* what a validator that may restart has recorded of them.
LEMMA RestartStep ==
  ASSUME IndInv, TypeOK', NEW r \in Restarters, Restart(r)
  PROVE  IndInv'
<1> USE DEF IndInv
<1>0. r \in Validators
  BY ValidatorAssumption
<1>1. /\ votes' = votes /\ ledger' = ledger
      /\ blocks'[r] = <<>> /\ height'[r] = 0 /\ tipHash'[r] = GenesisHash
      /\ voted'[r] = NewVoted /\ lockedHash'[r] = NoHash
      /\ \A v \in Validators : v # r =>
           /\ blocks'[v] = blocks[v] /\ height'[v] = height[v] /\ tipHash'[v] = tipHash[v]
           /\ voted'[v] = voted[v] /\ lockedHash'[v] = lockedHash[v]
           /\ lockedHeight'[v] = lockedHeight[v] /\ pending'[v] = pending[v]
  BY <1>0 DEF Restart, TypeOK
<1>2. \A h \in Heights, q \in Phases : voted'[r][h][q] = NoHash
  BY <1>1 DEF NewVoted
<1>3. \A q, c : QCExists(q, c)' <=> QCExists(q, c)
  BY <1>1 DEF QCExists, Quorum
<1>4. VotesRecorded'
  <2> SUFFICES ASSUME NEW q \in Phases, NEW c \in Blocks,
                      NEW v \in votes[q][c], v \notin Restarters
               PROVE  voted'[v][Height[c]][q] = c
    BY <1>1 DEF VotesRecorded
  <2>1. v \in Validators /\ v # r
    BY DEF TypeOK
  <2> QED BY <1>1, <2>1 DEF VotesRecorded
<1>5. VotesInOrder'
  BY <1>1, <1>3 DEF VotesInOrder
<1>6. VotedSigned'
  BY <1>1, <1>2 DEF VotedSigned
<1>7. LedgerCertified'
  BY <1>1, <1>3 DEF LedgerCertified
<1>8. ChainWellFormed'
  BY <1>1 DEF ChainWellFormed
<1>9. Agreement'
  <2> SUFFICES ASSUME NEW v \in Validators
               PROVE  /\ Len(blocks'[v]) <= Len(ledger)
                      /\ \A i \in 1..Len(blocks'[v]) : blocks'[v][i] = ledger[i]
    BY <1>1 DEF Agreement
  <2>1. CASE v # r
    BY <1>1, <2>1 DEF Agreement
  <2>2. CASE v = r
    BY <1>1, <2>2 DEF TypeOK
  <2> QED BY <2>1, <2>2
<1>10. LockIsCertified'
  BY <1>1, <1>3 DEF LockIsCertified
<1>11. VotedBlockKept'
  <2> SUFFICES ASSUME NEW v \in Validators, NEW h \in Heights, NEW q \in Phases,
                      voted'[v][h][q] # NoHash
               PROVE  voted'[v][h][q] \in pending'[v] \cup {blocks'[v][i] : i \in 1..Len(blocks'[v])}
    BY DEF VotedBlockKept
  <2>1. v # r
    BY <1>2
  <2>2. blocks'[v] = blocks[v] /\ pending'[v] = pending[v] /\ voted'[v] = voted[v]
    BY <1>1, <2>1
  <2> QED BY <2>2 DEF VotedBlockKept
<1> QED BY <1>4, <1>5, <1>6, <1>7, <1>8, <1>9, <1>10, <1>11

\* A vote in another phase than commit leaves the facts about the lock alone.
LEMMA LockKept ==
  ASSUME IndInv, TypeOK', NEW r \in Validators, NEW b \in Blocks,
         NEW p \in {"prepare", "precommit"},
         VoteLocked(r, p, b), UNCHANGED <<lockedHeight, lockedHash>>
  PROVE  LockIsCertified'
<1> USE DEF IndInv
<1> SUFFICES ASSUME NEW v \in Validators, lockedHash[v] # NoHash
             PROVE  /\ lockedHeight[v] = Height[lockedHash[v]]
                    /\ QCExists("precommit", lockedHash[v])'
                    /\ voted'[v][lockedHeight[v]]["commit"] \in {NoHash, lockedHash[v]}
  BY DEF LockIsCertified, QCExists, Quorum
<1>0. p \in Phases /\ "commit" \in Phases /\ "precommit" \in Phases /\ p # "commit"
  BY DEF Phases
<1>1. lockedHash[v] \in Blocks
  BY DEF TypeOK
<1>2. /\ lockedHeight[v] = Height[lockedHash[v]]
      /\ QCExists("precommit", lockedHash[v])
      /\ voted[v][lockedHeight[v]]["commit"] \in {NoHash, lockedHash[v]}
  BY DEF LockIsCertified
<1>3. lockedHeight[v] \in Heights
  BY <1>1, <1>2 DEF Heights
<1>4. voted'[v][lockedHeight[v]]["commit"] = voted[v][lockedHeight[v]]["commit"]
  BY <1>0, <1>3, VoteLockedEffect
<1>5. QCExists("precommit", lockedHash[v])'
  BY <1>0, <1>1, <1>2, QCKept
<1> QED BY <1>2, <1>4, <1>5

\* Locking b and voting commit for it keeps the facts about the lock: had r
\* voted commit for another block of that height, two precommit QCs would exist.
LEMMA LockStep ==
  ASSUME IndInv, TypeOK', NEW r \in Validators, NEW b \in Blocks, OnPreCommitQC(r, b)
  PROVE  LockIsCertified'
<1> USE DEF IndInv
<1> SUFFICES ASSUME NEW v \in Validators, NEW d \in Blocks, lockedHash'[v] = d
             PROVE  /\ lockedHeight'[v] = Height[d]
                    /\ QCExists("precommit", d)'
                    /\ voted'[v][lockedHeight'[v]]["commit"] \in {NoHash, d}
  BY DEF LockIsCertified, QCExists, Quorum, TypeOK
<1>0. /\ "commit" \in Phases /\ "precommit" \in Phases /\ Height[b] \in Heights
      /\ VoteLocked(r, "commit", b) /\ QCExists("precommit", b)
  BY DEF Phases, Heights, OnPreCommitQC, AcceptPreCommitQC
<1>1. CASE v # r
  <2>1. lockedHash[v] = d /\ lockedHeight'[v] = lockedHeight[v]
    BY <1>1 DEF OnPreCommitQC, AcceptPreCommitQC, TypeOK
  <2>2. d # NoHash
    BY BlockAssumption
  <2>3. /\ lockedHeight[v] = Height[d]
        /\ QCExists("precommit", d)
        /\ voted[v][lockedHeight[v]]["commit"] \in {NoHash, d}
    BY <2>1, <2>2 DEF LockIsCertified
  <2>4. lockedHeight[v] \in Heights
    BY <2>3 DEF Heights
  <2>5. voted'[v][lockedHeight[v]]["commit"] = voted[v][lockedHeight[v]]["commit"]
    BY <1>0, <1>1, <2>4, VoteLockedEffect
  <2>6. QCExists("precommit", d)'
    BY <1>0, <2>3, QCKept
  <2> QED BY <2>1, <2>3, <2>5, <2>6
<1>2. CASE v = r
  <2>1. d = b /\ lockedHeight'[r] = Height[b]
    BY <1>2 DEF OnPreCommitQC, AcceptPreCommitQC, TypeOK
  <2>2. QCExists("precommit", b)'
    BY <1>0, QCKept
  <2>3. voted'[r][Height[b]]["commit"] = b
    <3>1. SUFFICES ASSUME voted[r][Height[b]]["commit"] \notin {NoHash, b} PROVE FALSE
      BY <1>0, VoteLockedEffect
    <3> DEFINE c == voted[r][Height[b]]["commit"]
    <3>2. c \in Blocks
      BY <1>0, <3>1 DEF TypeOK
    <3>3. Height[c] = Height[b] /\ r \in votes["commit"][c]
      BY <1>0, <3>1 DEF VotedSigned
    <3>4. QCExists("precommit", c)
      BY <3>2, <3>3 DEF VotesInOrder
    <3>5. c = b
      BY <1>0, <3>2, <3>3, <3>4, QCUnique
    <3> QED BY <3>1, <3>5
  <2> QED BY <1>2, <2>1, <2>2, <2>3
<1> QED BY <1>1, <1>2

\* Every step of the system keeps the invariant.
LEMMA InvariantStep == IndInv /\ [Next]_vars => IndInv'
<1> SUFFICES ASSUME IndInv, [Next]_vars PROVE IndInv'
  OBVIOUS
<1>0. TypeOK /\ TypeOK'
  BY TypeStep DEF IndInv
<1>1. ASSUME NEW r \in Validators, NEW b \in Blocks, OnProposal(r, b)
      PROVE  IndInv'
  <2>1. /\ "prepare" \in Phases /\ VoteLocked(r, "prepare", b) /\ Remember(r, b)
        /\ UNCHANGED <<height, tipHash, blocks, lockedHeight, lockedHash, ledger>>
    BY <1>1 DEF OnProposal, Phases
  <2>2. LockIsCertified'
    BY <1>0, <2>1, LockKept
  <2> QED BY <1>0, <2>1, <2>2, VotingStep DEF IndInv
<1>2. ASSUME NEW r \in Validators, NEW b \in Blocks, OnPrepareQC(r, b)
      PROVE  IndInv'
  <2>1. /\ "precommit" \in Phases /\ VoteLocked(r, "precommit", b) /\ Remember(r, b)
        /\ QCExists("prepare", b)
        /\ UNCHANGED <<height, tipHash, blocks, lockedHeight, lockedHash, ledger>>
    BY <1>2 DEF OnPrepareQC, AcceptPrepareQC, Phases
  <2>2. LockIsCertified'
    BY <1>0, <2>1, LockKept
  <2> QED BY <1>0, <2>1, <2>2, VotingStep DEF IndInv
<1>3. ASSUME NEW r \in Validators, NEW b \in Blocks, OnPreCommitQC(r, b)
      PROVE  IndInv'
  <2>1. /\ "commit" \in Phases /\ VoteLocked(r, "commit", b) /\ Remember(r, b)
        /\ QCExists("precommit", b)
        /\ UNCHANGED <<height, tipHash, blocks, ledger>>
    BY <1>3 DEF OnPreCommitQC, AcceptPreCommitQC, Phases
  <2>2. LockIsCertified'
    BY <1>0, <1>3, LockStep
  <2> QED BY <1>0, <2>1, <2>2, VotingStep DEF IndInv
<1>4. ASSUME NEW r \in Validators, NEW b \in Blocks, OnCommitQCAgain(r, b)
      PROVE  IndInv'
  <2>1. \A v \in Validators : pending[v] \subseteq pending'[v]
    BY <1>0, <1>4 DEF OnCommitQCAgain, AcceptCommitQCAgain, Remember, TypeOK
  <2>2. UNCHANGED <<height, tipHash, blocks, voted, lockedHeight, lockedHash, votes, ledger>>
    BY <1>4 DEF OnCommitQCAgain, AcceptCommitQCAgain
  <2>3. VotedBlockKept'
    BY <2>1, <2>2 DEF IndInv, VotedBlockKept
  <2>4. \A q, c : QCExists(q, c)' <=> QCExists(q, c)
    BY <2>2 DEF QCExists, Quorum
  <2>5. /\ VotesRecorded' /\ VotesInOrder' /\ VotedSigned' /\ LedgerCertified'
        /\ ChainWellFormed' /\ Agreement' /\ LockIsCertified'
    BY <2>2, <2>4 DEF IndInv, VotesRecorded, VotesInOrder, VotedSigned, LedgerCertified,
                      ChainWellFormed, Agreement, LockIsCertified
  <2> QED BY <1>0, <2>3, <2>5 DEF IndInv
<1>5. ASSUME NEW r \in Validators, NEW b \in Blocks, OnCommitQC(r, b)
      PROVE  IndInv'
  BY <1>0, <1>5, CommitStep
<1>6. ASSUME NEW r \in Restarters, Restart(r)
      PROVE  IndInv'
  BY <1>0, <1>6, RestartStep
<1>7. CASE UNCHANGED vars
  <2>1. \A q, c : QCExists(q, c)' <=> QCExists(q, c)
    BY <1>7 DEF QCExists, Quorum, vars
  <2> QED BY <1>0, <1>7, <2>1 DEF vars, IndInv, VotesRecorded, VotesInOrder, VotedSigned,
             LedgerCertified, ChainWellFormed, Agreement, LockIsCertified, VotedBlockKept
<1> QED BY <1>1, <1>2, <1>3, <1>4, <1>5, <1>6, <1>7 DEF Next

\* Fresh replicas (NewReplica) satisfy the invariant.
LEMMA InvariantInit == Init => IndInv
<1> SUFFICES ASSUME Init PROVE IndInv
  OBVIOUS
<1> USE DEF Init
<1>1. TypeOK
  BY BlockAssumption, ValidatorAssumption DEF TypeOK, NewVoted
<1>2. \A r \in Validators, h \in Heights, p \in Phases : voted[r][h][p] = NoHash
  BY DEF NewVoted
<1>3. \A p \in Phases, b \in Blocks : votes[p][b] = {}
  OBVIOUS
<1>4. VotesRecorded /\ VotesInOrder
  BY <1>3 DEF VotesRecorded, VotesInOrder, Phases
<1>5. VotedSigned /\ VotedBlockKept
  BY <1>2 DEF VotedSigned, VotedBlockKept
<1>6. LedgerCertified /\ ChainWellFormed /\ Agreement
  BY DEF LedgerCertified, ChainWellFormed, Agreement
<1>7. LockIsCertified
  BY DEF LockIsCertified
<1> QED BY <1>1, <1>4, <1>5, <1>6, <1>7 DEF IndInv

\* The invariant holds in every reachable state.
LEMMA Invariance == Spec => []IndInv
  BY InvariantInit, InvariantStep, PTL DEF Spec

-----------------------------------------------------------------------------
(* The results *)

\* All finalized chains, those of restarted validators included, are prefixes
\* of one chain, for every validator set and every choice of fewer than a third
\* of forgetful validators: OnQC(commit) cannot fork the chain.
THEOREM AgreementHolds == Spec => []Agreement
<1>1. IndInv => Agreement
  BY DEF IndInv
<1> QED BY <1>1, Invariance, PTL

\* Finalized chains are linked by height and parent hash.
THEOREM ChainWellFormedHolds == Spec => []ChainWellFormed
<1>1. IndInv => ChainWellFormed
  BY DEF IndInv
<1> QED BY <1>1, Invariance, PTL

\* MakeQC can never succeed for two competing blocks of one height and phase.
THEOREM UniqueQCHolds == Spec => []UniqueQC
<1>1. IndInv => UniqueQC
  BY QCUnique DEF IndInv, UniqueQC
<1> QED BY <1>1, Invariance, PTL

\* Every finalized block collected a prepare, a precommit and a commit quorum.
THEOREM AllPhasesHold == Spec => []FinalizedThroughAllPhases
<1>1. IndInv => FinalizedThroughAllPhases
  <2> SUFFICES ASSUME IndInv, NEW i \in 1..Len(ledger), NEW p \in Phases
               PROVE  QCExists(p, ledger[i])
    BY DEF FinalizedThroughAllPhases
  <2> DEFINE b == ledger[i]
  <2>0. TypeOK /\ b \in Blocks
    BY DEF IndInv, TypeOK
  <2>1. QCExists("commit", b)
    BY DEF IndInv, LedgerCertified
  <2>2. QCExists("precommit", b)
    <3>1. votes["commit"][b] # {}
      BY <2>0, <2>1, QCHasVote DEF Phases
    <3> QED BY <2>0, <3>1 DEF IndInv, VotesInOrder
  <2>3. QCExists("prepare", b)
    <3>1. votes["precommit"][b] # {}
      BY <2>0, <2>2, QCHasVote DEF Phases
    <3> QED BY <2>0, <3>1 DEF IndInv, VotesInOrder
  <2> QED BY <2>1, <2>2, <2>3 DEF Phases
<1> QED BY <1>1, Invariance, PTL

\* A lock always stands on a precommit quorum and never contradicts the
\* replica's own commit vote.
THEOREM LockIsCertifiedHolds == Spec => []LockIsCertified
<1>1. IndInv => LockIsCertified
  BY DEF IndInv
<1> QED BY <1>1, Invariance, PTL

\* The body of a block a replica voted for is never lost.
THEOREM VotedBlockKeptHolds == Spec => []VotedBlockKept
<1>1. IndInv => VotedBlockKept
  BY DEF IndInv
<1> QED BY <1>1, Invariance, PTL

-----------------------------------------------------------------------------
(* Refinement *)

\* A commit is an Adopt step of FinalizedChain if another replica was there
\* first, and a Decide step otherwise.
LEMMA CommitRefines ==
  ASSUME IndInv, NEW r \in Validators, NEW b \in Blocks, OnCommitQC(r, b)
  PROVE  Chain!Adopt(r) \/ Chain!Decide(r, b)
<1> USE DEF IndInv
<1>1. /\ Extends(r, b) /\ QCExists("commit", b)
      /\ blocks' = [blocks EXCEPT ![r] = Append(blocks[r], b)]
      /\ ledger' = IF Len(blocks[r]) = Len(ledger) THEN Append(ledger, b) ELSE ledger
      /\ blocks[r] \in Seq(Blocks) /\ ledger \in Seq(Blocks)
  BY DEF OnCommitQC, AcceptCommitQC, AppendBlock, TypeOK
<1>2. CASE Len(blocks[r]) # Len(ledger)
  <2>1. Len(blocks[r]) + 1 \in 1..Len(ledger) /\ ledger[Len(blocks[r]) + 1] = b
    BY <1>1, <1>2, CommitMatchesLedger
  <2>2. Len(blocks[r]) < Len(ledger)
    BY <1>1, <2>1
  <2>3. blocks' = [blocks EXCEPT ![r] = Append(blocks[r], ledger[Len(blocks[r]) + 1])]
    BY <1>1, <2>1
  <2> QED BY <1>1, <1>2, <2>2, <2>3 DEF Chain!Adopt
<1>3. CASE Len(blocks[r]) = Len(ledger)
  <2>1. \A i \in 1..Len(blocks[r]) : blocks[r][i] = ledger[i]
    BY DEF Agreement
  <2>2. blocks[r] = ledger
    BY <1>1, <1>3, <2>1, SeqEqual
  <2>3. Height[b] = Len(ledger) + 1 /\ ParentHash[b] = Chain!LastHash(ledger)
    BY <1>1, <2>2 DEF Extends, ChainWellFormed, Chain!LastHash
  <2>4. ledger' = Append(ledger, b) /\ blocks' = [blocks EXCEPT ![r] = ledger']
    BY <1>1, <1>3, <2>2
  <2> QED BY <2>2, <2>3, <2>4 DEF Chain!Decide
<1> QED BY <1>2, <1>3

\* HotStuff implements FinalizedChain: voting and locking are invisible, a
\* commit moves one replica along the one decided chain, a restart forgets.
THEOREM Refinement == Spec => ImplementsFinalizedChain
<1>1. Init => Chain!Init
  BY DEF Init, Chain!Init
<1>2. IndInv /\ [Next]_vars => [Chain!Next]_(Chain!chainVars)
  <2> SUFFICES ASSUME IndInv, [Next]_vars
               PROVE  Chain!Next \/ UNCHANGED <<ledger, blocks>>
    BY DEF Chain!chainVars
  <2>1. ASSUME NEW r \in Validators, NEW b \in Blocks, OnCommitQC(r, b)
        PROVE  Chain!Next
    BY <2>1, CommitRefines DEF Chain!Next
  <2>2. ASSUME NEW r \in Restarters, Restart(r)
        PROVE  Chain!Next
    BY <2>2 DEF Restart, Chain!Next, Chain!Forget
  <2>3. ASSUME NEW r \in Validators, NEW b \in Blocks,
               \/ OnProposal(r, b) \/ OnPrepareQC(r, b)
               \/ OnPreCommitQC(r, b) \/ OnCommitQCAgain(r, b)
        PROVE  UNCHANGED <<ledger, blocks>>
    BY <2>3 DEF OnProposal, OnPrepareQC, AcceptPrepareQC, OnPreCommitQC, AcceptPreCommitQC, OnCommitQCAgain, AcceptCommitQCAgain
  <2>4. CASE UNCHANGED vars
    BY <2>4 DEF vars
  <2> QED BY <2>1, <2>2, <2>3, <2>4 DEF Next
<1> QED BY <1>1, <1>2, Invariance, PTL DEF Spec, ImplementsFinalizedChain, Chain!Spec

-----------------------------------------------------------------------------
(* Signed votes *)

\* A handler of the replica that does not refuse the vote adds it to the signed
\* votes, and none takes a vote away.
LEMMA VoteSigned ==
  ASSUME TypeOK, NEW v \in Validators, NEW b \in Blocks, NEW p \in Phases,
         VoteLocked(v, p, b)
  PROVE  /\ \A q \in Phases, c \in Blocks : votes[q][c] \subseteq votes'[q][c]
         /\ ~DoubleVote(v, p, b) => v \in votes'[p][b]
<1>1. \A q \in Phases, c \in Blocks : votes[q][c] \subseteq votes'[q][c]
  BY VoteLockedEffect
<1>2. ~DoubleVote(v, p, b) => v \in votes'[p][b]
  BY VoteLockedEffect DEF DoubleVote
<1> QED BY <1>1, <1>2

\* Enough counted votes are a QC.
LEMMA CountedIsQC ==
  ASSUME RoundInv, NEW b \in Blocks, stage[b] \in Phases, EnoughAnswers(b)
  PROVE  QCExists(stage[b], b)
<1> DEFINE p == stage[b]
<1>1. answers[b] \subseteq votes[p][b] /\ votes[p][b] \subseteq Validators
  BY DEF RoundInv, RoundTypeOK, TypeOK, CountedVotesSigned
<1>2. IsFiniteSet(votes[p][b])
  BY <1>1, ValidatorAssumption, FS_Subset
<1>3. IsFiniteSet(answers[b]) /\ Cardinality(answers[b]) <= Cardinality(votes[p][b])
  BY <1>1, <1>2, FS_Subset
<1>4. Cardinality(answers[b]) \in Nat /\ Cardinality(votes[p][b]) \in Nat /\ Quorum \in Nat
  BY <1>2, <1>3, FS_CardinalityType, QuorumSize
<1> QED BY <1>3, <1>4 DEF EnoughAnswers, QCExists

-----------------------------------------------------------------------------
(* Every step of the composition is a step of the replicas or leaves them   *)
(* alone.                                                                   *)

\* The steps that drive a round, and refusals, do not touch the replicas; a
\* handled request is the handler of the same name.
LEMMA StepRefines == RoundInv /\ [RoundNext]_allVars => [Next]_vars
<1> SUFFICES ASSUME RoundInv, [RoundNext]_allVars PROVE [Next]_vars
  OBVIOUS
<1>1. ASSUME NEW b \in Blocks, StartRound(b) \/ Drive(b)
      PROVE  UNCHANGED vars
  BY <1>1 DEF StartRound, Drive, BroadcastProposal, BroadcastQC, FinishRound
<1>2. ASSUME NEW b \in Blocks, NEW v \in Validators, Handle(b, v)
      PROVE  [Next]_vars
  <2>0. \A p \in Phases : <<b, After[p], v>> \in inbox => QCExists(p, b)
    BY DEF RoundInv, RequestsCertified
  <2>1. CASE HandleProposal(b, v)
    BY <2>1 DEF HandleProposal, Next
  <2>2. CASE HandlePrepareQC(b, v)
    <3>1. QCExists("prepare", b)
      BY <2>0, <2>2 DEF HandlePrepareQC, After, Phases
    <3> QED BY <2>2, <3>1 DEF HandlePrepareQC, OnPrepareQC, Next
  <2>3. CASE HandlePreCommitQC(b, v)
    <3>1. QCExists("precommit", b)
      BY <2>0, <2>3 DEF HandlePreCommitQC, After, Phases
    <3> QED BY <2>3, <3>1 DEF HandlePreCommitQC, OnPreCommitQC, Next
  <2>4. CASE HandleCommitQC(b, v)
    <3>1. QCExists("commit", b)
      BY <2>0, <2>4 DEF HandleCommitQC, After, Phases
    <3> QED BY <2>4, <3>1 DEF HandleCommitQC, OnCommitQC, OnCommitQCAgain, Next
  <2>5. CASE \E s \in Broadcasts : Refuse(b, s, v)
    BY <2>5 DEF Refuse
  <2> QED BY <1>2, <2>1, <2>2, <2>3, <2>4, <2>5 DEF Handle
<1>3. ASSUME NEW r \in Restarters, RestartNode(r)
      PROVE  [Next]_vars
  BY <1>3 DEF RestartNode, Next
<1>4. CASE UNCHANGED allVars
  BY <1>4 DEF allVars
<1> QED BY <1>1, <1>2, <1>3, <1>4 DEF RoundNext

\* What a handled request does to the round: it removes the request, leaves
\* every stage alone and counts at most this validator, in the request's stage.
LEMMA AnswerEffect ==
  ASSUME RoundTypeOK, NEW b \in Blocks, NEW s \in Broadcasts, NEW v \in Validators,
         NEW ok \in BOOLEAN, Answer(b, s, v, ok)
  PROVE  /\ stage' = stage
         /\ inbox' \subseteq inbox
         /\ answers' \in [Blocks -> SUBSET Validators]
         /\ \A c \in Blocks :
              \/ answers'[c] = answers[c]
              \/ c = b /\ stage[b] = s /\ ok /\ answers'[b] = answers[b] \cup {v}
<1>1. stage' = stage /\ inbox' \subseteq inbox
  BY DEF Answer
<1>2. CASE answers' = answers
  BY <1>1, <1>2 DEF RoundTypeOK
<1>3. CASE ok /\ stage[b] = s /\ answers' = [answers EXCEPT ![b] = @ \cup {v}]
  <2>1. answers' \in [Blocks -> SUBSET Validators]
    BY <1>3 DEF RoundTypeOK
  <2>2. answers'[b] = answers[b] \cup {v} /\ \A c \in Blocks : c # b => answers'[c] = answers[c]
    BY <1>3 DEF RoundTypeOK
  <2> QED BY <1>1, <1>3, <2>1, <2>2
<1> QED BY <1>2, <1>3 DEF Answer

\* A request that is handled keeps the invariant, if votes only grow and a
\* counted vote is a signed one.
LEMMA AnswerStep ==
  ASSUME RoundInv, TypeOK', NEW b \in Blocks, NEW s \in Broadcasts, NEW v \in Validators,
         NEW ok \in BOOLEAN, Answer(b, s, v, ok),
         \A q \in Phases, c \in Blocks : votes[q][c] \subseteq votes'[q][c],
         s \in Phases /\ ok => v \in votes'[s][b]
  PROVE  RoundInv'
<1> USE DEF RoundInv
<1>1. /\ stage' = stage
      /\ inbox' \subseteq inbox
      /\ answers' \in [Blocks -> SUBSET Validators]
      /\ \A c \in Blocks :
           \/ answers'[c] = answers[c]
           \/ c = b /\ stage[b] = s /\ ok /\ answers'[b] = answers[b] \cup {v}
  BY AnswerEffect
<1>2. RoundTypeOK'
  BY <1>1 DEF RoundTypeOK
<1>3. CountedVotesSigned'
  <2> SUFFICES ASSUME NEW c \in Blocks, stage[c] \in Phases
               PROVE  answers'[c] \subseteq votes'[stage[c]][c]
    BY <1>1 DEF CountedVotesSigned
  <2>1. answers[c] \subseteq votes'[stage[c]][c]
    BY DEF CountedVotesSigned
  <2> QED BY <1>1, <2>1
<1>4. RequestsCertified'
  <2> SUFFICES ASSUME NEW c \in Blocks, NEW p \in Phases, NEW w \in Validators,
                      <<c, After[p], w>> \in inbox'
               PROVE  QCExists(p, c)'
    BY DEF RequestsCertified
  <2>1. QCExists(p, c)
    BY <1>1 DEF RequestsCertified
  <2> QED BY <2>1, QCMonotonic
<1> QED BY <1>2, <1>3, <1>4

\* A broadcast keeps the invariant: a QC it sends is one.
LEMMA BroadcastStep ==
  ASSUME RoundInv, NEW b \in Blocks, NEW s \in Broadcasts, Broadcast(b, s), UNCHANGED vars,
         \A p \in Phases : After[p] = s => QCExists(p, b)
  PROVE  RoundInv'
<1> USE DEF RoundInv
<1>1. /\ stage' = [stage EXCEPT ![b] = s]
      /\ inbox' = inbox \cup {<<b, s, v>> : v \in Validators}
      /\ answers' = [answers EXCEPT ![b] = {}]
      /\ votes' = votes
  BY DEF Broadcast, vars
<1>2. \A q, c : QCExists(q, c)' <=> QCExists(q, c)
  BY <1>1 DEF QCExists, Quorum
<1>3. TypeOK'
  BY DEF RoundTypeOK, TypeOK, vars
<1>4. RoundTypeOK'
  BY <1>1, <1>3 DEF RoundTypeOK, Stages
<1>5. CountedVotesSigned'
  BY <1>1 DEF RoundTypeOK, CountedVotesSigned
<1>6. RequestsCertified'
  <2> SUFFICES ASSUME NEW c \in Blocks, NEW p \in Phases, NEW w \in Validators,
                      <<c, After[p], w>> \in inbox'
               PROVE  QCExists(p, c)
    BY <1>2 DEF RequestsCertified
  <2>1. CASE <<c, After[p], w>> \in inbox
    BY <2>1 DEF RequestsCertified
  <2>2. CASE <<c, After[p], w>> \notin inbox
    <3>1. c = b /\ After[p] = s
      BY <1>1, <2>2
    <3> QED BY <3>1
  <2> QED BY <2>1, <2>2
<1> QED BY <1>4, <1>5, <1>6

\* A change of stage that sends nothing, and ends outside the voting phases,
\* keeps the invariant.
LEMMA QuietStep ==
  ASSUME RoundInv, UNCHANGED vars, stage' \in [Blocks -> Stages],
         \A c \in Blocks : stage'[c] = stage[c] \/ stage'[c] \notin Phases,
         inbox' \subseteq inbox, answers' \in [Blocks -> SUBSET Validators],
         \A c \in Blocks : answers'[c] \subseteq answers[c]
  PROVE  RoundInv'
<1> USE DEF RoundInv
<1>1. \A q, c : QCExists(q, c)' <=> QCExists(q, c)
  BY DEF QCExists, Quorum, vars
<1>2. TypeOK'
  BY DEF RoundTypeOK, TypeOK, vars
<1>3. RoundTypeOK'
  BY <1>2 DEF RoundTypeOK
<1>4. CountedVotesSigned'
  BY DEF CountedVotesSigned, vars
<1>5. RequestsCertified'
  BY <1>1 DEF RequestsCertified
<1> QED BY <1>3, <1>4, <1>5

-----------------------------------------------------------------------------
(* The invariant *)

\* Every step of the composition keeps the invariant.
LEMMA RoundStep == RoundInv /\ [RoundNext]_allVars => RoundInv'
<1> SUFFICES ASSUME RoundInv, [RoundNext]_allVars PROVE RoundInv'
  OBVIOUS
<1>0. TypeOK /\ TypeOK' /\ RoundTypeOK
  BY StepRefines, TypeStep DEF RoundInv, RoundTypeOK
<1>p. "prepare" \in Phases /\ "precommit" \in Phases /\ "commit" \in Phases
  BY DEF Phases
<1>b. Phases \subseteq Broadcasts /\ "decide" \in Broadcasts /\ "decide" \notin Phases
  BY DEF Phases, Broadcasts
<1>1. ASSUME NEW b \in Blocks, StartRound(b) PROVE RoundInv'
  <2>1. stage' = [stage EXCEPT ![b] = "building"] /\ UNCHANGED <<inbox, answers, vars>>
    BY <1>1 DEF StartRound
  <2>2. "building" \in Stages /\ "building" \notin Phases
    BY DEF Stages, Phases
  <2>3. stage' \in [Blocks -> Stages] /\ \A c \in Blocks : stage'[c] = stage[c] \/ stage'[c] \notin Phases
    BY <1>0, <2>1, <2>2 DEF RoundTypeOK
  <2> QED BY <1>0, <2>1, <2>3, QuietStep DEF RoundTypeOK
<1>2. ASSUME NEW b \in Blocks, NEW o \in {"failed", "succeeded"}, Return(b, o), UNCHANGED vars
      PROVE  RoundInv'
  <2>1. stage' = [stage EXCEPT ![b] = o] /\ answers' = [answers EXCEPT ![b] = {}] /\ inbox' = inbox
    BY <1>2 DEF Return
  <2>2. o \in Stages /\ o \notin Phases
    BY DEF Stages, Phases
  <2>3. stage' \in [Blocks -> Stages] /\ \A c \in Blocks : stage'[c] = stage[c] \/ stage'[c] \notin Phases
    BY <1>0, <2>1, <2>2 DEF RoundTypeOK
  <2>4. answers' \in [Blocks -> SUBSET Validators] /\ \A c \in Blocks : answers'[c] \subseteq answers[c]
    BY <1>0, <2>1 DEF RoundTypeOK
  <2> QED BY <1>2, <2>1, <2>3, <2>4, QuietStep
<1>3. ASSUME NEW b \in Blocks, Drive(b) PROVE RoundInv'
  <2>1. CASE BroadcastProposal(b)
    <3>1. UNCHANGED vars /\ (Broadcast(b, "prepare") \/ Return(b, "failed"))
      BY <2>1 DEF BroadcastProposal
    <3>2. \A p \in Phases : After[p] # "prepare"
      BY DEF After, Phases
    <3>3. CASE Broadcast(b, "prepare")
      BY <1>b, <1>p, <3>1, <3>2, <3>3, BroadcastStep
    <3> QED BY <1>2, <3>1, <3>3
  <2>2. CASE BroadcastQC(b)
    <3>1. stage[b] \in Phases /\ UNCHANGED vars
      BY <2>2 DEF BroadcastQC
    <3>2. CASE EnoughAnswers(b)
      <4>1. Broadcast(b, After[stage[b]])
        BY <2>2, <3>2 DEF BroadcastQC
      <4>2. QCExists(stage[b], b)
        BY <3>1, <3>2, CountedIsQC
      <4>3. After[stage[b]] \in Broadcasts
        BY <3>1 DEF After, Phases, Broadcasts
      <4>4. \A p \in Phases : After[p] = After[stage[b]] => p = stage[b]
        BY <3>1 DEF After, Phases
      <4> QED BY <3>1, <4>1, <4>2, <4>3, <4>4, BroadcastStep
    <3>3. CASE ~EnoughAnswers(b)
      BY <1>2, <2>2, <3>1, <3>3 DEF BroadcastQC
    <3> QED BY <3>2, <3>3
  <2>3. CASE FinishRound(b)
    BY <1>2, <2>3 DEF FinishRound
  <2> QED BY <1>3, <2>1, <2>2, <2>3 DEF Drive
<1>4. ASSUME NEW b \in Blocks, NEW v \in Validators, Handle(b, v) PROVE RoundInv'
  <2>1. ASSUME NEW p \in Phases, VoteLocked(v, p, b), Answer(b, p, v, ~DoubleVote(v, p, b))
        PROVE  RoundInv'
    <3>1. (~DoubleVote(v, p, b)) \in BOOLEAN
      OBVIOUS
    <3> QED BY <1>0, <1>b, <2>1, <3>1, VoteSigned, AnswerStep
  <2>2. CASE HandleProposal(b, v)
    BY <1>p, <2>1, <2>2 DEF HandleProposal, OnProposal
  <2>3. CASE HandlePrepareQC(b, v)
    BY <1>p, <2>1, <2>3 DEF HandlePrepareQC, AcceptPrepareQC
  <2>4. CASE HandlePreCommitQC(b, v)
    BY <1>p, <2>1, <2>4 DEF HandlePreCommitQC, AcceptPreCommitQC
  <2>5. CASE HandleCommitQC(b, v)
    <3>1. votes' = votes /\ Answer(b, "decide", v, TRUE)
      BY <2>5 DEF HandleCommitQC, AcceptCommitQC, AcceptCommitQCAgain
    <3> QED BY <1>0, <1>b, <3>1, AnswerStep
  <2>6. ASSUME NEW s \in Broadcasts, Refuse(b, s, v) PROVE RoundInv'
    <3>1. votes' = votes /\ Answer(b, s, v, FALSE)
      BY <2>6 DEF Refuse, vars
    <3> QED BY <1>0, <3>1, AnswerStep
  <2> QED BY <1>4, <2>2, <2>3, <2>4, <2>5, <2>6 DEF Handle
<1>5. ASSUME NEW r \in Restarters, RestartNode(r) PROVE RoundInv'
  <2>1. /\ votes' = votes /\ answers' = answers /\ inbox' \subseteq inbox
        /\ stage' = [b \in Blocks |-> IF Proposer[b] = r /\ UnderWay(b) THEN "failed" ELSE stage[b]]
    BY <1>5 DEF RestartNode, Restart
  <2>2. "failed" \in Stages /\ "failed" \notin Phases
    BY DEF Stages, Phases
  <2>3. stage' \in [Blocks -> Stages] /\ \A c \in Blocks : stage'[c] = stage[c] \/ stage'[c] \notin Phases
    BY <1>0, <2>1, <2>2 DEF RoundTypeOK
  <2>4. \A q, c : QCExists(q, c)' <=> QCExists(q, c)
    BY <2>1 DEF QCExists, Quorum
  <2>5. RoundTypeOK'
    BY <1>0, <2>1, <2>3 DEF RoundTypeOK
  <2>6. CountedVotesSigned'
    BY <2>1, <2>3 DEF RoundInv, CountedVotesSigned
  <2>7. RequestsCertified'
    BY <2>1, <2>4 DEF RoundInv, RequestsCertified
  <2> QED BY <2>5, <2>6, <2>7 DEF RoundInv
<1>6. CASE UNCHANGED allVars
  BY <1>0, <1>6, QuietStep DEF allVars, roundVars, RoundTypeOK
<1> QED BY <1>1, <1>3, <1>4, <1>5, <1>6 DEF RoundNext

\* No round is under way at first, so nothing is counted or sent.
LEMMA RoundInitial == RoundInit => RoundInv
<1> SUFFICES ASSUME RoundInit PROVE RoundInv
  OBVIOUS
<1>1. TypeOK
  BY InvariantInit DEF RoundInit, IndInv
<1>2. RoundTypeOK
  BY <1>1 DEF RoundInit, RoundTypeOK, Stages
<1>3. CountedVotesSigned /\ RequestsCertified
  BY DEF RoundInit, CountedVotesSigned, RequestsCertified, Phases
<1> QED BY <1>2, <1>3 DEF RoundInv

\* The invariant holds in every reachable state of the composition.
LEMMA RoundInvariance == RoundSpec => []RoundInv
  BY RoundInitial, RoundStep, PTL DEF RoundSpec

-----------------------------------------------------------------------------
(* The results *)

\* Proposers that make QCs from the answers they count, over a network that
\* loses and delays requests, never make the replicas do anything HotStuff does
\* not allow: agreement and all that is shown above holds of the devnet's
\* rounds.
THEOREM RoundRefinement == RoundSpec => ImplementsHotStuff
<1>1. RoundInit => Init
  BY DEF RoundInit
<1> QED BY <1>1, StepRefines, RoundInvariance, PTL DEF RoundSpec, ImplementsHotStuff, Spec

-----------------------------------------------------------------------------
(* Success is final *)

\* A validator that holds a block keeps it until it restarts, and the decided
\* chain only grows.
LEMMA HoldersKept ==
  ASSUME TypeOK, [Next]_vars, NEW b \in Blocks
  PROVE  /\ Holders(b) \subseteq Holders(b)'
         /\ (\E i \in 1..Len(ledger) : ledger[i] = b) => (\E i \in 1..Len(ledger') : ledger'[i] = b)
<1>1. ASSUME NEW r \in Validators, NEW c \in Blocks, OnCommitQC(r, c)
      PROVE  /\ Holders(b) \subseteq Holders(b)'
             /\ (\E i \in 1..Len(ledger) : ledger[i] = b) => (\E i \in 1..Len(ledger') : ledger'[i] = b)
  <2>1. /\ blocks \in [Validators -> Seq(Blocks)] /\ ledger \in Seq(Blocks)
        /\ blocks' = [blocks EXCEPT ![r] = Append(blocks[r], c)]
        /\ ledger' = IF Len(blocks[r]) = Len(ledger) THEN Append(ledger, c) ELSE ledger
    BY <1>1 DEF OnCommitQC, AcceptCommitQC, AppendBlock, TypeOK
  <2>2. ASSUME NEW v \in Validators, NEW i \in 1..Len(blocks[v])
        PROVE  i \in 1..Len(blocks'[v]) /\ blocks'[v][i] = blocks[v][i]
    <3>1. CASE v = r
      <4>1. blocks'[v] = Append(blocks[v], c) /\ blocks[v] \in Seq(Blocks)
        BY <2>1, <3>1
      <4> QED BY <4>1
    <3>2. CASE v # r
      BY <2>1, <3>2
    <3> QED BY <3>1, <3>2
  <2>3. Holders(b) \subseteq Holders(b)'
    BY <2>2 DEF Holders
  <2>4. \A i \in 1..Len(ledger) : i \in 1..Len(ledger') /\ ledger'[i] = ledger[i]
    BY <2>1
  <2> QED BY <2>3, <2>4
<1>2. ASSUME NEW r \in Restarters, Restart(r)
      PROVE  Holders(b) \subseteq Holders(b)' /\ ledger' = ledger
  <2>1. ledger' = ledger /\ \A v \in Validators : v # r => blocks'[v] = blocks[v]
    BY <1>2 DEF Restart, TypeOK
  <2> QED BY <2>1 DEF Holders
<1>3. ASSUME blocks' = blocks, ledger' = ledger
      PROVE  Holders(b) \subseteq Holders(b)' /\ ledger' = ledger
  BY <1>3 DEF Holders
<1>4. \/ \E r \in Validators, c \in Blocks : OnCommitQC(r, c)
      \/ \E r \in Restarters : Restart(r)
      \/ blocks' = blocks /\ ledger' = ledger
  BY DEF Next, OnProposal, OnPrepareQC, AcceptPrepareQC, OnPreCommitQC, AcceptPreCommitQC,
         OnCommitQCAgain, AcceptCommitQCAgain, vars
<1> QED BY <1>1, <1>2, <1>3, <1>4

\* A validator that answers "finalized" holds the block.
LEMMA FinalizedIsHeld ==
  ASSUME IndInv, NEW v \in Validators, NEW b \in Blocks, AcceptCommitQC(v, b) \/ AcceptCommitQCAgain(v, b)
  PROVE  v \in Holders(b)'
<1>0. blocks \in [Validators -> Seq(Blocks)]
  BY DEF IndInv, TypeOK
<1>1. CASE AcceptCommitQC(v, b)
  <2>1. blocks'[v] = Append(blocks[v], b) /\ blocks[v] \in Seq(Blocks)
    BY <1>0, <1>1 DEF AcceptCommitQC, AppendBlock
  <2>2. Len(blocks[v]) + 1 \in 1..Len(blocks'[v]) /\ blocks'[v][Len(blocks[v]) + 1] = b
    BY <2>1
  <2> QED BY <2>2 DEF Holders
<1>2. CASE AcceptCommitQCAgain(v, b)
  <2>1. tipHash[v] = b /\ blocks' = blocks
    BY <1>2 DEF AcceptCommitQCAgain, IsTip
  <2>2. blocks[v] # <<>> /\ blocks[v][Len(blocks[v])] = b
    BY <2>1, BlockAssumption DEF IndInv, ChainWellFormed
  <2>3. Len(blocks[v]) \in 1..Len(blocks[v])
    BY <1>0, <2>2
  <2> QED BY <2>1, <2>2, <2>3 DEF Holders
<1> QED BY <1>1, <1>2

\* Enough "finalized" answers: a quorum holds the block, and one of it that
\* never forgets puts it on the decided chain.
LEMMA EnoughIsFinal ==
  ASSUME IndInv, RoundTypeOK, NEW b \in Blocks, answers[b] \subseteq Holders(b), EnoughAnswers(b)
  PROVE  /\ \E i \in 1..Len(ledger) : ledger[i] = b
         /\ Cardinality(Holders(b)) >= Quorum
<1>1. Holders(b) \in SUBSET Validators
  BY DEF Holders
<1>2. IsFiniteSet(Holders(b))
  BY <1>1, ValidatorAssumption, FS_Subset
<1>3. IsFiniteSet(answers[b]) /\ Cardinality(answers[b]) <= Cardinality(Holders(b))
  BY <1>2, FS_Subset
<1>4. Cardinality(answers[b]) \in Nat /\ Cardinality(Holders(b)) \in Nat /\ Quorum \in Nat
  BY <1>2, <1>3, FS_CardinalityType, QuorumSize
<1>5. Cardinality(Holders(b)) >= Quorum
  BY <1>3, <1>4 DEF EnoughAnswers
<1>6. PICK v \in Holders(b) \cap Holders(b) : v \notin Restarters
  BY <1>1, <1>5, QuorumIntersection
<1>7. PICK i \in 1..Len(blocks[v]) : blocks[v][i] = b
  BY <1>6 DEF Holders
<1>8. v \in Validators /\ Len(blocks[v]) \in Nat /\ Len(ledger) \in Nat /\ Len(blocks[v]) <= Len(ledger)
  BY <1>6 DEF Holders, IndInv, TypeOK, Agreement
<1>9. i \in 1..Len(ledger) /\ ledger[i] = b
  BY <1>7, <1>8 DEF IndInv, Agreement
<1> QED BY <1>5, <1>9

\* A step of the composition keeps what is known of the answers counted in the
\* last stage and of the rounds that have succeeded.
LEMMA FinalStep ==
  ASSUME RoundInv, IndInv, CountedFinalized, SuccessIsFinal, [RoundNext]_allVars
  PROVE  CountedFinalized' /\ SuccessIsFinal'
<1>0. TypeOK /\ TypeOK' /\ RoundTypeOK /\ [Next]_vars
  BY StepRefines, TypeStep DEF RoundInv, RoundTypeOK
<1>1. \A c \in Blocks : stage'[c] = "succeeded" =>
        \/ stage[c] = "succeeded"
        \/ stage[c] = "decide" /\ EnoughAnswers(c)
  <2>1. ASSUME NEW b \in Blocks, StartRound(b) \/ Drive(b), NEW c \in Blocks, stage'[c] = "succeeded"
        PROVE  stage[c] = "succeeded" \/ (stage[c] = "decide" /\ EnoughAnswers(c))
    <3>1. CASE c # b
      BY <1>0, <2>1, <3>1 DEF RoundTypeOK, StartRound, Drive, BroadcastProposal, BroadcastQC,
                            FinishRound, Broadcast, Return
    <3>2. CASE c = b /\ FinishRound(b)
      BY <1>0, <2>1, <3>2 DEF RoundTypeOK, FinishRound, Return
    <3>3. CASE c = b /\ StartRound(b)
      BY <1>0, <2>1, <3>3 DEF RoundTypeOK, StartRound
    <3>4. CASE c = b /\ BroadcastProposal(b)
      BY <1>0, <2>1, <3>4 DEF RoundTypeOK, BroadcastProposal, Broadcast, Return
    <3>5. CASE c = b /\ BroadcastQC(b)
      BY <1>0, <2>1, <3>5 DEF RoundTypeOK, BroadcastQC, Broadcast, Return, After, Phases
    <3> QED BY <2>1, <3>1, <3>2, <3>3, <3>4, <3>5 DEF Drive
  <2>2. ASSUME NEW b \in Blocks, NEW v \in Validators, Handle(b, v) PROVE stage' = stage
    BY <2>2 DEF Handle, HandleProposal, HandlePrepareQC, HandlePreCommitQC, HandleCommitQC, Refuse, Answer
  <2>3. ASSUME NEW r \in Restarters, RestartNode(r), NEW c \in Blocks, stage'[c] = "succeeded"
        PROVE  stage[c] = "succeeded"
    BY <2>3 DEF RestartNode
  <2>4. CASE UNCHANGED allVars
    BY <2>4 DEF allVars, roundVars
  <2> QED BY <2>1, <2>2, <2>3, <2>4 DEF RoundNext
<1>2. \A c \in Blocks : stage'[c] = "decide" => answers'[c] \subseteq Holders(c)'
  <2> SUFFICES ASSUME NEW c \in Blocks, stage'[c] = "decide"
               PROVE  answers'[c] \subseteq Holders(c)'
    OBVIOUS
  <2>0. Holders(c) \subseteq Holders(c)'
    BY <1>0, HoldersKept
  <2>k. ASSUME stage[c] = "decide", answers'[c] = answers[c]
        PROVE  answers'[c] \subseteq Holders(c)'
    BY <2>0, <2>k DEF CountedFinalized
  <2>1. ASSUME NEW b \in Blocks, StartRound(b) \/ Drive(b)
        PROVE  answers'[c] = {} \/ (stage[c] = "decide" /\ answers'[c] = answers[c])
    <3>1. CASE c # b
      BY <1>0, <2>1, <3>1 DEF RoundTypeOK, StartRound, Drive, BroadcastProposal, BroadcastQC,
                            FinishRound, Broadcast, Return
    <3>2. CASE c = b /\ StartRound(b)
      BY <1>0, <3>2 DEF RoundTypeOK, StartRound
    <3>3. CASE c = b /\ Drive(b)
      BY <1>0, <3>3 DEF RoundTypeOK, Drive, BroadcastProposal, BroadcastQC, FinishRound, Broadcast, Return
    <3> QED BY <2>1, <3>1, <3>2, <3>3
  <2>2. ASSUME NEW b \in Blocks, NEW v \in Validators, Handle(b, v)
        PROVE  answers'[c] \subseteq Holders(c)'
    <3>0. \A p \in Phases : p # "decide" /\ p \in Broadcasts
      BY DEF Phases, Broadcasts
    <3>1. ASSUME NEW s \in Broadcasts, NEW ok \in BOOLEAN, Answer(b, s, v, ok), s # "decide" \/ ~ok
          PROVE  answers'[c] \subseteq Holders(c)'
      <4>1. stage[c] = "decide"
        BY <1>0, <3>1, AnswerEffect
      <4>2. answers'[c] = answers[c]
        BY <1>0, <3>1, <4>1, AnswerEffect
      <4> QED BY <2>k, <4>1, <4>2
    <3>2. CASE HandleProposal(b, v) \/ HandlePrepareQC(b, v) \/ HandlePreCommitQC(b, v)
      <4>1. \E p \in Phases : Answer(b, p, v, ~DoubleVote(v, p, b))
        BY <3>2 DEF HandleProposal, HandlePrepareQC, HandlePreCommitQC, Phases
      <4>2. PICK p \in Phases : Answer(b, p, v, ~DoubleVote(v, p, b))
        BY <4>1
      <4>3. (~DoubleVote(v, p, b)) \in BOOLEAN
        OBVIOUS
      <4> QED BY <3>0, <3>1, <4>2, <4>3
    <3>3. CASE \E s \in Broadcasts : Refuse(b, s, v)
      BY <3>1, <3>3 DEF Refuse
    <3>4. CASE HandleCommitQC(b, v)
      <4>1. Answer(b, "decide", v, TRUE) /\ "decide" \in Broadcasts /\ v \in Holders(b)'
        BY <3>4, FinalizedIsHeld DEF HandleCommitQC, Broadcasts
      <4>2. stage[c] = "decide" /\ (answers'[c] = answers[c] \/ (c = b /\ answers'[c] = answers[c] \cup {v}))
        <5>1. /\ stage' = stage
              /\ answers' = answers \/ answers' = [answers EXCEPT ![b] = @ \cup {v}]
          BY <4>1 DEF Answer
        <5> QED BY <1>0, <5>1 DEF RoundTypeOK
      <4>3. answers[c] \subseteq Holders(c)'
        BY <2>0, <4>2 DEF CountedFinalized
      <4> QED BY <4>1, <4>2, <4>3
    <3> QED BY <2>2, <3>2, <3>3, <3>4 DEF Handle
  <2>3. ASSUME NEW r \in Restarters, RestartNode(r)
        PROVE  stage[c] = "decide" /\ answers'[c] = answers[c]
    BY <2>3 DEF RestartNode
  <2>4. ASSUME UNCHANGED allVars PROVE stage[c] = "decide" /\ answers'[c] = answers[c]
    BY <2>4 DEF allVars, roundVars
  <2> QED BY <2>k, <2>1, <2>2, <2>3, <2>4 DEF RoundNext
<1>3. SuccessIsFinal'
  <2> SUFFICES ASSUME NEW c \in Blocks, stage'[c] = "succeeded"
               PROVE  /\ \E i \in 1..Len(ledger') : ledger'[i] = c
                      /\ Cardinality(Holders(c)') >= Quorum
    BY DEF SuccessIsFinal, Quorum
  <2>1. (\E i \in 1..Len(ledger) : ledger[i] = c) /\ Cardinality(Holders(c)) >= Quorum
    BY <1>0, <1>1, EnoughIsFinal DEF SuccessIsFinal, CountedFinalized
  <2>2. Holders(c) \subseteq Holders(c)' /\ \E i \in 1..Len(ledger') : ledger'[i] = c
    BY <1>0, <2>1, HoldersKept
  <2>3. IsFiniteSet(Holders(c)')
    <3>1. Holders(c)' \subseteq Validators
      BY DEF Holders
    <3> QED BY <3>1, ValidatorAssumption, FS_Subset
  <2>4. Cardinality(Holders(c)) <= Cardinality(Holders(c)') /\ IsFiniteSet(Holders(c))
    BY <2>2, <2>3, FS_Subset
  <2>5. Cardinality(Holders(c)) \in Nat /\ Cardinality(Holders(c)') \in Nat /\ Quorum \in Nat
    BY <2>3, <2>4, FS_CardinalityType, QuorumSize
  <2>6. Cardinality(Holders(c)') >= Quorum
    BY <2>1, <2>4, <2>5
  <2> QED BY <2>2, <2>6
<1> QED BY <1>2, <1>3 DEF CountedFinalized

\* A round that Propose answers with success has its block decided and held by a
\* quorum, whatever is lost, delayed, restarted or proposed concurrently.
THEOREM SuccessIsFinalHolds == RoundSpec => []SuccessIsFinal
<1>1. RoundSpec => []IndInv
  BY RoundRefinement, Invariance, PTL DEF ImplementsHotStuff
<1>2. RoundInit => CountedFinalized /\ SuccessIsFinal
  BY DEF RoundInit, CountedFinalized, SuccessIsFinal
<1> QED BY <1>1, <1>2, RoundInvariance, FinalStep, PTL DEF RoundSpec

\* Two rounds of one height never both report success: both blocks would be on
\* the decided chain at that height.
THEOREM OneSuccessHolds == RoundSpec => []OneSuccessPerHeight
<1>1. RoundSpec => []IndInv
  BY RoundRefinement, Invariance, PTL DEF ImplementsHotStuff
<1>2. IndInv /\ SuccessIsFinal => OneSuccessPerHeight
  <2> SUFFICES ASSUME IndInv, SuccessIsFinal, NEW b \in Blocks, NEW c \in Blocks,
                      stage[b] = "succeeded", stage[c] = "succeeded", Height[b] = Height[c]
               PROVE  b = c
    BY DEF OneSuccessPerHeight
  <2>1. PICK i \in 1..Len(ledger) : ledger[i] = b
    BY DEF SuccessIsFinal
  <2>2. PICK j \in 1..Len(ledger) : ledger[j] = c
    BY DEF SuccessIsFinal
  <2> QED BY <2>1, <2>2 DEF IndInv, LedgerCertified
<1> QED BY <1>1, <1>2, SuccessIsFinalHolds, PTL
=============================================================================
