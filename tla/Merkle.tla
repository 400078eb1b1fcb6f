------------------------------- MODULE Merkle -------------------------------
(***************************************************************************)
(* The Merkle trees of the DAG, in the four forms in which cmd/unifiedDAG  *)
(* and internal/aiseal compute with them: the accumulator that makes the   *)
(* roots of the manifest in one pass, the levels of the sidecar file, the  *)
(* paths read from the sidecar, and the verifier that sees one leaf, one   *)
(* path and the root.  A level with an odd number of nodes passes its last *)
(* node up unchanged.                                                      *)
(*                                                                         *)
(* Hashes do not collide: a hash is the tuple of what was hashed, with the *)
(* tree's id t.  Leaves, nodes and empty trees have tuples of different    *)
(* lengths, as they have different domain tags in the code.                *)
(*                                                                         *)
(* AddLeafKeepingFilled, ParentsDuplicating, PathStepUnbounded and         *)
(* MatchesAnyRoot are faulty versions of the definitions after them (see   *)
(* README).                                                                *)
(***************************************************************************)
EXTENDS Integers, Sequences, SequencesExt, FiniteSetsExt, Powers

CONSTANT StackLevels    \* levels of the accumulator: 64 in the code

LeafHash(t, page) == <<t, page>>
NodeHash(t, left, right) == <<t, left, right>>
EmptyHash(t) == <<t>>
NoHash == <<>>

-----------------------------------------------------------------------------
(* MerkleAccumulator: one complete subtree per bit of the number of leaves *)

NewAccumulator ==
  [stack |-> [l \in 0..StackLevels - 1 |-> NoHash], filled |-> {}, count |-> 0]

Bit(n, l) == (n \div Pow2[l]) % 2

\* The level where the carry of a new leaf ends: the lowest 0 bit of count.
CarryLevel(acc) ==
  CHOOSE l \in 0..StackLevels - 1 : Bit(acc.count, l) = 0 /\ \A k \in 0..l - 1 : Bit(acc.count, k) = 1

\* The subtrees of the given levels joined from the lowest up, starting with first:
\* Joined(...)[l] is what the loop has after the levels below l.
Joined(t, stack, levels, first) ==
  LET node[l \in Nat] ==
        IF l = 0 THEN first
        ELSE LET right == node[l - 1]
             IN IF l - 1 \notin levels THEN right
                ELSE IF right = NoHash THEN stack[l - 1]
                ELSE NodeHash(t, stack[l - 1], right)
  IN node

\* The leaf joined with the subtrees to its left.
Carried(t, acc, leaf) ==
  Joined(t, acc.stack, 0..CarryLevel(acc) - 1, leaf)[CarryLevel(acc)]

AddLeafKeepingFilled(t, acc, leaf) ==
  [stack |-> [acc.stack EXCEPT ![CarryLevel(acc)] = Carried(t, acc, leaf)],
   filled |-> acc.filled \cup {CarryLevel(acc)},
   count |-> acc.count + 1]

AddLeaf(t, acc, leaf) ==
  [stack |-> [acc.stack EXCEPT ![CarryLevel(acc)] = Carried(t, acc, leaf)],
   filled |-> (acc.filled \ (0..CarryLevel(acc) - 1)) \cup {CarryLevel(acc)},
   count |-> acc.count + 1]

\* The filled subtrees joined.
AccumulatorRoot(t, acc) ==
  IF acc.count = 0 THEN EmptyHash(t)
  ELSE Joined(t, acc.stack, acc.filled, NoHash)[StackLevels]

-----------------------------------------------------------------------------
(* The sidecar: one flat file of hashes, and for each tree the levels in it, *)
(* each a number of nodes and an offset.                                     *)

HashAt(file, level, i) == file[level.offset + i + 1]

ParentsDuplicating(t, file, level) ==
  [i \in 1..(level.count + 1) \div 2 |->
     LET left == HashAt(file, level, 2 * i - 2)
     IN IF 2 * i - 1 < level.count THEN NodeHash(t, left, HashAt(file, level, 2 * i - 1))
        ELSE NodeHash(t, left, left)]

\* The nodes of the next level.
Parents(t, file, level) ==
  [i \in 1..(level.count + 1) \div 2 |->
     LET left == HashAt(file, level, 2 * i - 2)
     IN IF 2 * i - 1 < level.count THEN NodeHash(t, left, HashAt(file, level, 2 * i - 1))
        ELSE left]

\* One turn of the loop of appendSidecarUpperLevels: the level above the last one, at
\* the end of the file, unless the last one is a single node.
AppendLevel(t, s) ==
  LET prev == Last(s.levels)
  IN IF prev.count = 1 THEN s
     ELSE [file |-> s.file \o Parents(t, s.file, prev),
           levels |-> Append(s.levels, [count |-> (prev.count + 1) \div 2, offset |-> Len(s.file)])]

\* The loop: it is over within StackLevels turns, since the leaves are fewer than
\* 2^StackLevels.
AppendUpperLevels(t, file, levels) ==
  LET turn[k \in Nat] ==
        IF k = 0 THEN [file |-> file, levels |-> levels] ELSE AppendLevel(t, turn[k - 1])
  IN turn[StackLevels]

\* The leaves of both trees, then the upper levels of one and of the other.
Sidecar(powLeaves, tensorLeaves) ==
  LET pow == AppendUpperLevels("pow", powLeaves \o tensorLeaves,
               <<[count |-> Len(powLeaves), offset |-> 0]>>)
      tensor == AppendUpperLevels("tensor", pow.file,
                  <<[count |-> Len(tensorLeaves), offset |-> Len(powLeaves)]>>)
  IN [file |-> tensor.file, pow |-> pow.levels, tensor |-> tensor.levels]

SidecarRoot(file, levels) == HashAt(file, Last(levels), 0)

PathStepUnbounded(file, level, i) ==
  IF i % 2 = 1 THEN <<[side |-> "left", hash |-> HashAt(file, level, i - 1)]>>
  ELSE <<[side |-> "right", hash |-> HashAt(file, level, Min({i + 1, level.count - 1}))]>>

\* What one level adds to the path of its i-th node: the sibling, if it has one.
PathStep(file, level, i) ==
  IF i % 2 = 1 THEN <<[side |-> "left", hash |-> HashAt(file, level, i - 1)]>>
  ELSE IF i + 1 < level.count THEN <<[side |-> "right", hash |-> HashAt(file, level, i + 1)]>>
  ELSE <<>>

\* sidecarReader.Proof: the steps of all levels but the last.
SidecarPath(file, levels, index) ==
  LET path[k \in Nat] ==
        IF k = 0 THEN <<>>
        ELSE path[k - 1] \o PathStep(file, levels[k], index \div Pow2[k - 1])
  IN path[Len(levels) - 1]

-----------------------------------------------------------------------------
(* The verifier.  It knows a hash, its place among the nodes of its level, *)
(* the number of these nodes and how many steps of the path it has used.   *)

\* One turn of the loop: an error if the path is used up or its step is on the
\* other side.
ClimbStep(t, path, c) ==
  LET side == IF c.index % 2 = 0 THEN "right" ELSE "left"
      sibling == path[c.pos + 1].hash
      parent == IF side = "right" THEN NodeHash(t, c.node, sibling) ELSE NodeHash(t, sibling, c.node)
      up(node, pos) == [node |-> node, index |-> c.index \div 2, count |-> (c.count + 1) \div 2,
                        pos |-> pos, ok |-> TRUE]
  IN IF ~c.ok \/ c.count = 1 THEN c
     ELSE IF side = "right" /\ c.index + 1 >= c.count THEN up(c.node, c.pos)
     ELSE IF c.pos >= Len(path) \/ path[c.pos + 1].side # side THEN [c EXCEPT !.ok = FALSE]
     ELSE up(parent, c.pos + 1)

\* The loop from a leaf up: over, like AppendUpperLevels, within StackLevels turns.
Climb(t, leaf, index, count, path) ==
  LET turn[l \in Nat] ==
        IF l = 0 THEN [node |-> leaf, index |-> index, count |-> count, pos |-> 0, ok |-> TRUE]
        ELSE ClimbStep(t, path, turn[l - 1])
  IN turn[StackLevels]

MatchesAnyRoot(t, leaf, index, count, path, root) ==
  LET top == Climb(t, leaf, index, count, path)
  IN index < count /\ top.ok /\ top.pos = Len(path)

\* verifyMerkleProof
VerifyMerkleProof(t, leaf, index, count, path, root) ==
  LET top == Climb(t, leaf, index, count, path)
  IN index < count /\ top.ok /\ top.pos = Len(path) /\ top.node = root

-----------------------------------------------------------------------------
\* The reference definition: Subtrees(...)[l][from] is the tree over the leaves from
\* number from on (counted from 0), at most 2^l of them.  The left half is full; where
\* no leaf is left for the right half, the left one is passed up.
Subtrees(t, leaves) ==
  LET sub[l \in Nat] ==
        IF l = 0 THEN [from \in Nat |-> leaves[from + 1]]
        ELSE [from \in Nat |->
                LET middle == from + Pow2[l - 1]
                IN IF middle < Len(leaves) THEN NodeHash(t, sub[l - 1][from], sub[l - 1][middle])
                   ELSE sub[l - 1][from]]
  IN sub

ReferenceRoot(t, leaves) ==
  IF leaves = <<>> THEN EmptyHash(t) ELSE Subtrees(t, leaves)[StackLevels][0]
=============================================================================
