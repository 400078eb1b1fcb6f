---------------------------- MODULE DagProofProofs ----------------------------
(***************************************************************************)
(* Proofs about the Merkle trees and the AISeal proofs of DagProof, for    *)
(* DAGs of every size that the accumulator has levels for.                 *)
(*                                                                         *)
(* Node(t, leaves, l, x), the x-th node of level l, is read off the        *)
(* reference trees.  Everything else is compared with it: the accumulator  *)
(* keeps the node of every full block (Accumulates), the sidecar has all   *)
(* nodes of all levels (Complete), a path has the siblings of the          *)
(* ancestors of its leaf (IsPathOf), and the verifier goes from ancestor   *)
(* to ancestor (ClimbAlong).  Since hashes do not collide it can be        *)
(* followed back from the root down (ClimbNodes), which shows that it      *)
(* accepts no other leaf and no other path.                                *)
(*                                                                         *)
(* The first section unfolds the definitions by recursion: a table of the  *)
(* first n values exists for every n, any two tables agree, and the        *)
(* function is the union of the tables.                                    *)
(***************************************************************************)
EXTENDS DagProof, SumsAndPowers, SequenceTheorems

-----------------------------------------------------------------------------
(* The definitions by recursion *)

\* One level of Joined.
JoinStep(t, stack, levels, l, right) ==
  IF l \notin levels THEN right
  ELSE IF right = NoHash THEN stack[l] ELSE NodeHash(t, stack[l], right)

\* Joined goes from level to level.
LEMMA JoinedUnfolds ==
  ASSUME NEW t, NEW stack, NEW levels, NEW first
  PROVE  /\ Joined(t, stack, levels, first)[0] = first
         /\ \A l \in Nat : Joined(t, stack, levels, first)[l + 1]
                             = JoinStep(t, stack, levels, l, Joined(t, stack, levels, first)[l])
<1> DEFINE Step(k, x) == JoinStep(t, stack, levels, k, x)
           Table(n, g) == g = [k \in 0..n |-> IF k = 0 THEN first ELSE Step(k - 1, g[k - 1])]
           G(n) == CHOOSE g : Table(n, g)
           f == [n \in Nat |-> G(n)[n]]
<1> HIDE DEF Step
<1>1. ASSUME NEW n \in Nat, NEW g, NEW h, Table(n + 1, g), Table(n, h) PROVE g[n] = h[n]
  <2> DEFINE Good == {k \in Nat : k <= n => g[k] = h[k]}
  <2>1. 0 \in Good
        BY <1>1
  <2>2. ASSUME NEW k \in Nat, k \in Good PROVE k + 1 \in Good
    <3> SUFFICES ASSUME k + 1 <= n PROVE g[k + 1] = h[k + 1]
        OBVIOUS
    <3>1. k + 1 \in 0..n /\ k + 1 \in 0..(n + 1) /\ k + 1 # 0 /\ (k + 1) - 1 = k
          OBVIOUS
    <3>2. g[k + 1] = Step(k, g[k]) /\ h[k + 1] = Step(k, h[k])
          BY <1>1, <3>1
    <3> QED BY <2>2, <3>2
  <2>3. \A k \in Nat : k \in Good
    <3> HIDE DEF Good
    <3> QED BY <2>1, <2>2, NatSetInduction
  <2> QED BY <2>3
<1>2. \A n \in Nat : \E g : Table(n, g)
  <2> DEFINE Good == {n \in Nat : \E g : Table(n, g)}
  <2>1. 0 \in Good
    <3>1. Table(0, [k \in 0..0 |-> first])
          OBVIOUS
    <3> QED BY <3>1
  <2>2. ASSUME NEW n \in Nat, n \in Good PROVE n + 1 \in Good
    <3> PICK h : Table(n, h)
        BY <2>2
    <3> DEFINE g == [k \in 0..(n + 1) |-> IF k = n + 1 THEN Step(n, h[n]) ELSE h[k]]
    <3>1. \A k \in 0..n : h[k] = IF k = 0 THEN first ELSE Step(k - 1, h[k - 1])
          OBVIOUS
    <3>2. \A k \in 0..(n + 1) : g[k] = IF k = 0 THEN first ELSE Step(k - 1, g[k - 1])
          BY <3>1
    <3>3. g = [k \in 0..(n + 1) |-> g[k]]
          OBVIOUS
    <3> HIDE DEF g
    <3>4. Table(n + 1, g)
          BY <3>2, <3>3
    <3> QED BY <3>4
  <2>3. \A n \in Nat : n \in Good
    <3> HIDE DEF Good
    <3> QED BY <2>1, <2>2, NatSetInduction
  <2> QED BY <2>3
<1>3. \A n \in Nat : Table(n, G(n))
      BY <1>2
<1>4. \A n \in Nat : f[n] = IF n = 0 THEN first ELSE Step(n - 1, f[n - 1])
  <2> SUFFICES ASSUME NEW n \in Nat
               PROVE  f[n] = IF n = 0 THEN first ELSE Step(n - 1, f[n - 1])
      OBVIOUS
  <2>1. f[n] = G(n)[n] /\ (n # 0 => f[n - 1] = G(n - 1)[n - 1])
        OBVIOUS
  <2>2. Table(n, G(n)) /\ (n # 0 => Table(n - 1, G(n - 1)))
    <3>1. n # 0 => n - 1 \in Nat
          OBVIOUS
    <3> HIDE DEF Table, G
    <3> QED BY <1>3, <3>1
  <2> HIDE DEF G, f
  <2>3. G(n)[n] = IF n = 0 THEN first ELSE Step(n - 1, G(n)[n - 1])
        BY <2>2
  <2>4. n # 0 => G(n)[n - 1] = G(n - 1)[n - 1]
    <3> HAVE n # 0
    <3> HIDE DEF Table
    <3>1. n - 1 \in Nat /\ (n - 1) + 1 = n
          OBVIOUS
    <3>2. Table((n - 1) + 1, G(n)) /\ Table(n - 1, G(n - 1))
          BY <2>2, <3>1
    <3> QED BY <1>1, <3>1, <3>2
  <2> QED BY <2>1, <2>3, <2>4
<1>5. f = [n \in Nat |-> f[n]]
      OBVIOUS
<1> HIDE DEF f
<1>6. f = [n \in Nat |-> IF n = 0 THEN first ELSE Step(n - 1, f[n - 1])]
      BY <1>4, <1>5
<1>7. \E j : j = [l \in Nat |-> IF l = 0 THEN first ELSE Step(l - 1, j[l - 1])]
      BY <1>6
<1> DEFINE J == Joined(t, stack, levels, first)
<1>8. J = [l \in Nat |-> IF l = 0 THEN first ELSE Step(l - 1, J[l - 1])]
      BY <1>7 DEF Joined, Step, JoinStep
<1> HIDE DEF J
<1>9. ASSUME NEW l \in Nat PROVE J[l + 1] = Step(l, J[l])
  <2>1. l + 1 \in Nat /\ l + 1 # 0 /\ (l + 1) - 1 = l
        OBVIOUS
  <2>2. J[l + 1] = Step((l + 1) - 1, J[(l + 1) - 1])
        BY <1>8, <2>1
  <2> QED BY <2>1, <2>2
<1>10. J[0] = first
       BY <1>8
<1> QED BY <1>9, <1>10 DEF J, Step

\* One level of Subtrees.
SubStep(t, leaves, l, prev) ==
  [from \in Nat |-> IF from + Pow2[l] < Len(leaves)
                    THEN NodeHash(t, prev[from], prev[from + Pow2[l]]) ELSE prev[from]]

\* A level of the reference trees is made from the one below.
LEMMA SubtreesUnfolds ==
  ASSUME NEW t, NEW leaves
  PROVE  /\ \A from \in Nat : Subtrees(t, leaves)[0][from] = leaves[from + 1]
         /\ \A l \in Nat : Subtrees(t, leaves)[l + 1]
                             = SubStep(t, leaves, l, Subtrees(t, leaves)[l])
<1> DEFINE first == [from \in Nat |-> leaves[from + 1]]
<1> HIDE DEF first
<1> DEFINE Step(k, x) == SubStep(t, leaves, k, x)
           Table(n, g) == g = [k \in 0..n |-> IF k = 0 THEN first ELSE Step(k - 1, g[k - 1])]
           G(n) == CHOOSE g : Table(n, g)
           f == [n \in Nat |-> G(n)[n]]
<1> HIDE DEF Step
<1>1. ASSUME NEW n \in Nat, NEW g, NEW h, Table(n + 1, g), Table(n, h) PROVE g[n] = h[n]
  <2> DEFINE Good == {k \in Nat : k <= n => g[k] = h[k]}
  <2>1. 0 \in Good
        BY <1>1
  <2>2. ASSUME NEW k \in Nat, k \in Good PROVE k + 1 \in Good
    <3> SUFFICES ASSUME k + 1 <= n PROVE g[k + 1] = h[k + 1]
        OBVIOUS
    <3>1. k + 1 \in 0..n /\ k + 1 \in 0..(n + 1) /\ k + 1 # 0 /\ (k + 1) - 1 = k
          OBVIOUS
    <3>2. g[k + 1] = Step(k, g[k]) /\ h[k + 1] = Step(k, h[k])
          BY <1>1, <3>1
    <3> QED BY <2>2, <3>2
  <2>3. \A k \in Nat : k \in Good
    <3> HIDE DEF Good
    <3> QED BY <2>1, <2>2, NatSetInduction
  <2> QED BY <2>3
<1>2. \A n \in Nat : \E g : Table(n, g)
  <2> DEFINE Good == {n \in Nat : \E g : Table(n, g)}
  <2>1. 0 \in Good
    <3>1. Table(0, [k \in 0..0 |-> first])
          OBVIOUS
    <3> QED BY <3>1
  <2>2. ASSUME NEW n \in Nat, n \in Good PROVE n + 1 \in Good
    <3> PICK h : Table(n, h)
        BY <2>2
    <3> DEFINE g == [k \in 0..(n + 1) |-> IF k = n + 1 THEN Step(n, h[n]) ELSE h[k]]
    <3>1. \A k \in 0..n : h[k] = IF k = 0 THEN first ELSE Step(k - 1, h[k - 1])
          OBVIOUS
    <3>2. \A k \in 0..(n + 1) : g[k] = IF k = 0 THEN first ELSE Step(k - 1, g[k - 1])
          BY <3>1
    <3>3. g = [k \in 0..(n + 1) |-> g[k]]
          OBVIOUS
    <3> HIDE DEF g
    <3>4. Table(n + 1, g)
          BY <3>2, <3>3
    <3> QED BY <3>4
  <2>3. \A n \in Nat : n \in Good
    <3> HIDE DEF Good
    <3> QED BY <2>1, <2>2, NatSetInduction
  <2> QED BY <2>3
<1>3. \A n \in Nat : Table(n, G(n))
      BY <1>2
<1>4. \A n \in Nat : f[n] = IF n = 0 THEN first ELSE Step(n - 1, f[n - 1])
  <2> SUFFICES ASSUME NEW n \in Nat
               PROVE  f[n] = IF n = 0 THEN first ELSE Step(n - 1, f[n - 1])
      OBVIOUS
  <2>1. f[n] = G(n)[n] /\ (n # 0 => f[n - 1] = G(n - 1)[n - 1])
        OBVIOUS
  <2>2. Table(n, G(n)) /\ (n # 0 => Table(n - 1, G(n - 1)))
    <3>1. n # 0 => n - 1 \in Nat
          OBVIOUS
    <3> HIDE DEF Table, G
    <3> QED BY <1>3, <3>1
  <2> HIDE DEF G, f
  <2>3. G(n)[n] = IF n = 0 THEN first ELSE Step(n - 1, G(n)[n - 1])
        BY <2>2
  <2>4. n # 0 => G(n)[n - 1] = G(n - 1)[n - 1]
    <3> HAVE n # 0
    <3> HIDE DEF Table
    <3>1. n - 1 \in Nat /\ (n - 1) + 1 = n
          OBVIOUS
    <3>2. Table((n - 1) + 1, G(n)) /\ Table(n - 1, G(n - 1))
          BY <2>2, <3>1
    <3> QED BY <1>1, <3>1, <3>2
  <2> QED BY <2>1, <2>3, <2>4
<1>5. f = [n \in Nat |-> f[n]]
      OBVIOUS
<1> HIDE DEF f
<1>6. f = [n \in Nat |-> IF n = 0 THEN first ELSE Step(n - 1, f[n - 1])]
      BY <1>4, <1>5
<1>7. \E j : j = [l \in Nat |-> IF l = 0 THEN first ELSE Step(l - 1, j[l - 1])]
      BY <1>6
<1> DEFINE J == Subtrees(t, leaves)
<1>8. J = [l \in Nat |-> IF l = 0 THEN first ELSE Step(l - 1, J[l - 1])]
      BY <1>7 DEF Subtrees, first, Step, SubStep
<1> HIDE DEF J
<1>9. ASSUME NEW l \in Nat PROVE J[l + 1] = Step(l, J[l])
  <2>1. l + 1 \in Nat /\ l + 1 # 0 /\ (l + 1) - 1 = l
        OBVIOUS
  <2>2. J[l + 1] = Step((l + 1) - 1, J[(l + 1) - 1])
        BY <1>8, <2>1
  <2> QED BY <2>1, <2>2
<1>10. J[0] = first
       BY <1>8
<1> QED BY <1>9, <1>10 DEF J, Step, first

\* s is the turns of the loop of AppendUpperLevels.
IsTurns(t, file, levels, s) ==
  /\ s[0] = [file |-> file, levels |-> levels]
  /\ \A k \in Nat : s[k + 1] = AppendLevel(t, s[k])
  /\ AppendUpperLevels(t, file, levels) = s[StackLevels]

\* The loop has turns.
LEMMA UpperUnfolds ==
  ASSUME NEW t, NEW file, NEW levels
  PROVE  \E s : IsTurns(t, file, levels, s)
<1> DEFINE Step(k, x) == AppendLevel(t, x)
           Table(n, g) == g = [k \in 0..n |-> IF k = 0 THEN [file |-> file, levels |-> levels] ELSE Step(k - 1, g[k - 1])]
           G(n) == CHOOSE g : Table(n, g)
           f == [n \in Nat |-> G(n)[n]]
<1> HIDE DEF Step
<1>1. ASSUME NEW n \in Nat, NEW g, NEW h, Table(n + 1, g), Table(n, h) PROVE g[n] = h[n]
  <2> DEFINE Good == {k \in Nat : k <= n => g[k] = h[k]}
  <2>1. 0 \in Good
        BY <1>1
  <2>2. ASSUME NEW k \in Nat, k \in Good PROVE k + 1 \in Good
    <3> SUFFICES ASSUME k + 1 <= n PROVE g[k + 1] = h[k + 1]
        OBVIOUS
    <3>1. k + 1 \in 0..n /\ k + 1 \in 0..(n + 1) /\ k + 1 # 0 /\ (k + 1) - 1 = k
          OBVIOUS
    <3>2. g[k + 1] = Step(k, g[k]) /\ h[k + 1] = Step(k, h[k])
          BY <1>1, <3>1
    <3> QED BY <2>2, <3>2
  <2>3. \A k \in Nat : k \in Good
    <3> HIDE DEF Good
    <3> QED BY <2>1, <2>2, NatSetInduction
  <2> QED BY <2>3
<1>2. \A n \in Nat : \E g : Table(n, g)
  <2> DEFINE Good == {n \in Nat : \E g : Table(n, g)}
  <2>1. 0 \in Good
    <3>1. Table(0, [k \in 0..0 |-> [file |-> file, levels |-> levels]])
          OBVIOUS
    <3> QED BY <3>1
  <2>2. ASSUME NEW n \in Nat, n \in Good PROVE n + 1 \in Good
    <3> PICK h : Table(n, h)
        BY <2>2
    <3> DEFINE g == [k \in 0..(n + 1) |-> IF k = n + 1 THEN Step(n, h[n]) ELSE h[k]]
    <3>1. \A k \in 0..n : h[k] = IF k = 0 THEN [file |-> file, levels |-> levels] ELSE Step(k - 1, h[k - 1])
          OBVIOUS
    <3>2. \A k \in 0..(n + 1) : g[k] = IF k = 0 THEN [file |-> file, levels |-> levels] ELSE Step(k - 1, g[k - 1])
          BY <3>1
    <3>3. g = [k \in 0..(n + 1) |-> g[k]]
          OBVIOUS
    <3> HIDE DEF g
    <3>4. Table(n + 1, g)
          BY <3>2, <3>3
    <3> QED BY <3>4
  <2>3. \A n \in Nat : n \in Good
    <3> HIDE DEF Good
    <3> QED BY <2>1, <2>2, NatSetInduction
  <2> QED BY <2>3
<1>3. \A n \in Nat : Table(n, G(n))
      BY <1>2
<1>4. \A n \in Nat : f[n] = IF n = 0 THEN [file |-> file, levels |-> levels] ELSE Step(n - 1, f[n - 1])
  <2> SUFFICES ASSUME NEW n \in Nat
               PROVE  f[n] = IF n = 0 THEN [file |-> file, levels |-> levels] ELSE Step(n - 1, f[n - 1])
      OBVIOUS
  <2>1. f[n] = G(n)[n] /\ (n # 0 => f[n - 1] = G(n - 1)[n - 1])
        OBVIOUS
  <2>2. Table(n, G(n)) /\ (n # 0 => Table(n - 1, G(n - 1)))
    <3>1. n # 0 => n - 1 \in Nat
          OBVIOUS
    <3> HIDE DEF Table, G
    <3> QED BY <1>3, <3>1
  <2> HIDE DEF G, f
  <2>3. G(n)[n] = IF n = 0 THEN [file |-> file, levels |-> levels] ELSE Step(n - 1, G(n)[n - 1])
        BY <2>2
  <2>4. n # 0 => G(n)[n - 1] = G(n - 1)[n - 1]
    <3> HAVE n # 0
    <3> HIDE DEF Table
    <3>1. n - 1 \in Nat /\ (n - 1) + 1 = n
          OBVIOUS
    <3>2. Table((n - 1) + 1, G(n)) /\ Table(n - 1, G(n - 1))
          BY <2>2, <3>1
    <3> QED BY <1>1, <3>1, <3>2
  <2> QED BY <2>1, <2>3, <2>4
<1>5. f = [n \in Nat |-> f[n]]
      OBVIOUS
<1> HIDE DEF f
<1>6. f = [n \in Nat |-> IF n = 0 THEN [file |-> file, levels |-> levels] ELSE Step(n - 1, f[n - 1])]
      BY <1>4, <1>5
<1> DEFINE J == CHOOSE j : j = [l \in Nat |-> IF l = 0 THEN [file |-> file, levels |-> levels] ELSE Step(l - 1, j[l - 1])]
<1>7. J = [l \in Nat |-> IF l = 0 THEN [file |-> file, levels |-> levels] ELSE Step(l - 1, J[l - 1])]
      BY <1>6
<1>8. AppendUpperLevels(t, file, levels) = J[StackLevels]
      BY DEF AppendUpperLevels, Step
<1> HIDE DEF J
<1>9. ASSUME NEW l \in Nat PROVE J[l + 1] = Step(l, J[l])
  <2>1. l + 1 \in Nat /\ l + 1 # 0 /\ (l + 1) - 1 = l
        OBVIOUS
  <2>2. J[l + 1] = Step((l + 1) - 1, J[(l + 1) - 1])
        BY <1>7, <2>1
  <2> QED BY <2>1, <2>2
<1>10. J[0] = [file |-> file, levels |-> levels]
       BY <1>7
<1>11. \A l \in Nat : J[l + 1] = AppendLevel(t, J[l])
       BY <1>9 DEF Step
<1>12. IsTurns(t, file, levels, J)
       BY <1>8, <1>10, <1>11 DEF IsTurns
<1> QED BY <1>12

\* One turn of the loop of SidecarPath.
PathTurn(file, levels, index, k, path) ==
  path \o PathStep(file, levels[k + 1], index \div Pow2[k])

\* The loop itself.
PathTurns(file, levels, index) ==
  CHOOSE path : path = [k \in Nat |->
    IF k = 0 THEN <<>> ELSE path[k - 1] \o PathStep(file, levels[k], index \div Pow2[k - 1])]

\* SidecarPath is what this loop has after the last level but one.
LEMMA PathUnfolds ==
  ASSUME NEW file, NEW levels, NEW index
  PROVE  /\ PathTurns(file, levels, index)[0] = <<>>
         /\ \A k \in Nat : PathTurns(file, levels, index)[k + 1]
                             = PathTurn(file, levels, index, k, PathTurns(file, levels, index)[k])
         /\ SidecarPath(file, levels, index) = PathTurns(file, levels, index)[Len(levels) - 1]
<1> DEFINE Step(k, x) == x \o PathStep(file, levels[k], index \div Pow2[k - 1])
           Table(n, g) == g = [k \in 0..n |-> IF k = 0 THEN <<>> ELSE Step(k, g[k - 1])]
           G(n) == CHOOSE g : Table(n, g)
           f == [n \in Nat |-> G(n)[n]]
<1> HIDE DEF Step
<1>1. ASSUME NEW n \in Nat, NEW g, NEW h, Table(n + 1, g), Table(n, h) PROVE g[n] = h[n]
  <2> DEFINE Good == {k \in Nat : k <= n => g[k] = h[k]}
  <2>1. 0 \in Good
        BY <1>1
  <2>2. ASSUME NEW k \in Nat, k \in Good PROVE k + 1 \in Good
    <3> SUFFICES ASSUME k + 1 <= n PROVE g[k + 1] = h[k + 1]
        OBVIOUS
    <3>1. k + 1 \in 0..n /\ k + 1 \in 0..(n + 1) /\ k + 1 # 0 /\ (k + 1) - 1 = k
          OBVIOUS
    <3>2. g[k + 1] = Step(k + 1, g[k]) /\ h[k + 1] = Step(k + 1, h[k])
          BY <1>1, <3>1
    <3> QED BY <2>2, <3>2
  <2>3. \A k \in Nat : k \in Good
    <3> HIDE DEF Good
    <3> QED BY <2>1, <2>2, NatSetInduction
  <2> QED BY <2>3
<1>2. \A n \in Nat : \E g : Table(n, g)
  <2> DEFINE Good == {n \in Nat : \E g : Table(n, g)}
  <2>1. 0 \in Good
    <3>1. Table(0, [k \in 0..0 |-> <<>>])
          OBVIOUS
    <3> QED BY <3>1
  <2>2. ASSUME NEW n \in Nat, n \in Good PROVE n + 1 \in Good
    <3> PICK h : Table(n, h)
        BY <2>2
    <3> DEFINE g == [k \in 0..(n + 1) |-> IF k = n + 1 THEN Step(n + 1, h[n]) ELSE h[k]]
    <3>1. \A k \in 0..n : h[k] = IF k = 0 THEN <<>> ELSE Step(k, h[k - 1])
          OBVIOUS
    <3>2. \A k \in 0..(n + 1) : g[k] = IF k = 0 THEN <<>> ELSE Step(k, g[k - 1])
          BY <3>1
    <3>3. g = [k \in 0..(n + 1) |-> g[k]]
          OBVIOUS
    <3> HIDE DEF g
    <3>4. Table(n + 1, g)
          BY <3>2, <3>3
    <3> QED BY <3>4
  <2>3. \A n \in Nat : n \in Good
    <3> HIDE DEF Good
    <3> QED BY <2>1, <2>2, NatSetInduction
  <2> QED BY <2>3
<1>3. \A n \in Nat : Table(n, G(n))
      BY <1>2
<1>4. \A n \in Nat : f[n] = IF n = 0 THEN <<>> ELSE Step(n, f[n - 1])
  <2> SUFFICES ASSUME NEW n \in Nat
               PROVE  f[n] = IF n = 0 THEN <<>> ELSE Step(n, f[n - 1])
      OBVIOUS
  <2>1. f[n] = G(n)[n] /\ (n # 0 => f[n - 1] = G(n - 1)[n - 1])
        OBVIOUS
  <2>2. Table(n, G(n)) /\ (n # 0 => Table(n - 1, G(n - 1)))
    <3>1. n # 0 => n - 1 \in Nat
          OBVIOUS
    <3> HIDE DEF Table, G
    <3> QED BY <1>3, <3>1
  <2> HIDE DEF G, f
  <2>3. G(n)[n] = IF n = 0 THEN <<>> ELSE Step(n, G(n)[n - 1])
        BY <2>2
  <2>4. n # 0 => G(n)[n - 1] = G(n - 1)[n - 1]
    <3> HAVE n # 0
    <3> HIDE DEF Table
    <3>1. n - 1 \in Nat /\ (n - 1) + 1 = n
          OBVIOUS
    <3>2. Table((n - 1) + 1, G(n)) /\ Table(n - 1, G(n - 1))
          BY <2>2, <3>1
    <3> QED BY <1>1, <3>1, <3>2
  <2> QED BY <2>1, <2>3, <2>4
<1>5. f = [n \in Nat |-> f[n]]
      OBVIOUS
<1> HIDE DEF f
<1>6. f = [n \in Nat |-> IF n = 0 THEN <<>> ELSE Step(n, f[n - 1])]
      BY <1>4, <1>5
<1> DEFINE J == CHOOSE j : j = [l \in Nat |-> IF l = 0 THEN <<>> ELSE Step(l, j[l - 1])]
<1>7. J = [l \in Nat |-> IF l = 0 THEN <<>> ELSE Step(l, J[l - 1])]
      BY <1>6
<1>8. SidecarPath(file, levels, index) = J[Len(levels) - 1]
      BY DEF SidecarPath, Step
<1> HIDE DEF J
<1>9. ASSUME NEW l \in Nat PROVE J[l + 1] = Step(l + 1, J[l])
  <2>1. l + 1 \in Nat /\ l + 1 # 0 /\ (l + 1) - 1 = l
        OBVIOUS
  <2>2. J[l + 1] = Step(l + 1, J[(l + 1) - 1])
        BY <1>7, <2>1
  <2> QED BY <2>1, <2>2
<1>10. J[0] = <<>>
       BY <1>7
<1>11. \A k \in Nat : (k + 1) - 1 = k
       OBVIOUS
<1> QED BY <1>8, <1>9, <1>10, <1>11 DEF Step, PathTurn, J, PathTurns

\* The turns of the verifier's loop.
ClimbTurns(t, leaf, index, count, path) ==
  CHOOSE turn : turn = [l \in Nat |->
    IF l = 0 THEN [node |-> leaf, index |-> index, count |-> count, pos |-> 0, ok |-> TRUE]
    ELSE ClimbStep(t, path, turn[l - 1])]

\* Climb is what its loop has after StackLevels turns.
LEMMA ClimbUnfolds ==
  ASSUME NEW t, NEW leaf, NEW index, NEW count, NEW path
  PROVE  /\ ClimbTurns(t, leaf, index, count, path)[0]
              = [node |-> leaf, index |-> index, count |-> count, pos |-> 0, ok |-> TRUE]
         /\ \A l \in Nat : ClimbTurns(t, leaf, index, count, path)[l + 1]
                             = ClimbStep(t, path, ClimbTurns(t, leaf, index, count, path)[l])
         /\ Climb(t, leaf, index, count, path)
              = ClimbTurns(t, leaf, index, count, path)[StackLevels]
<1> DEFINE first == [node |-> leaf, index |-> index, count |-> count, pos |-> 0, ok |-> TRUE]
<1> HIDE DEF first
<1> DEFINE Step(k, x) == ClimbStep(t, path, x)
           Table(n, g) == g = [k \in 0..n |-> IF k = 0 THEN first ELSE Step(k - 1, g[k - 1])]
           G(n) == CHOOSE g : Table(n, g)
           f == [n \in Nat |-> G(n)[n]]
<1> HIDE DEF Step
<1>1. ASSUME NEW n \in Nat, NEW g, NEW h, Table(n + 1, g), Table(n, h) PROVE g[n] = h[n]
  <2> DEFINE Good == {k \in Nat : k <= n => g[k] = h[k]}
  <2>1. 0 \in Good
        BY <1>1
  <2>2. ASSUME NEW k \in Nat, k \in Good PROVE k + 1 \in Good
    <3> SUFFICES ASSUME k + 1 <= n PROVE g[k + 1] = h[k + 1]
        OBVIOUS
    <3>1. k + 1 \in 0..n /\ k + 1 \in 0..(n + 1) /\ k + 1 # 0 /\ (k + 1) - 1 = k
          OBVIOUS
    <3>2. g[k + 1] = Step(k, g[k]) /\ h[k + 1] = Step(k, h[k])
          BY <1>1, <3>1
    <3> QED BY <2>2, <3>2
  <2>3. \A k \in Nat : k \in Good
    <3> HIDE DEF Good
    <3> QED BY <2>1, <2>2, NatSetInduction
  <2> QED BY <2>3
<1>2. \A n \in Nat : \E g : Table(n, g)
  <2> DEFINE Good == {n \in Nat : \E g : Table(n, g)}
  <2>1. 0 \in Good
    <3>1. Table(0, [k \in 0..0 |-> first])
          OBVIOUS
    <3> QED BY <3>1
  <2>2. ASSUME NEW n \in Nat, n \in Good PROVE n + 1 \in Good
    <3> PICK h : Table(n, h)
        BY <2>2
    <3> DEFINE g == [k \in 0..(n + 1) |-> IF k = n + 1 THEN Step(n, h[n]) ELSE h[k]]
    <3>1. \A k \in 0..n : h[k] = IF k = 0 THEN first ELSE Step(k - 1, h[k - 1])
          OBVIOUS
    <3>2. \A k \in 0..(n + 1) : g[k] = IF k = 0 THEN first ELSE Step(k - 1, g[k - 1])
          BY <3>1
    <3>3. g = [k \in 0..(n + 1) |-> g[k]]
          OBVIOUS
    <3> HIDE DEF g
    <3>4. Table(n + 1, g)
          BY <3>2, <3>3
    <3> QED BY <3>4
  <2>3. \A n \in Nat : n \in Good
    <3> HIDE DEF Good
    <3> QED BY <2>1, <2>2, NatSetInduction
  <2> QED BY <2>3
<1>3. \A n \in Nat : Table(n, G(n))
      BY <1>2
<1>4. \A n \in Nat : f[n] = IF n = 0 THEN first ELSE Step(n - 1, f[n - 1])
  <2> SUFFICES ASSUME NEW n \in Nat
               PROVE  f[n] = IF n = 0 THEN first ELSE Step(n - 1, f[n - 1])
      OBVIOUS
  <2>1. f[n] = G(n)[n] /\ (n # 0 => f[n - 1] = G(n - 1)[n - 1])
        OBVIOUS
  <2>2. Table(n, G(n)) /\ (n # 0 => Table(n - 1, G(n - 1)))
    <3>1. n # 0 => n - 1 \in Nat
          OBVIOUS
    <3> HIDE DEF Table, G
    <3> QED BY <1>3, <3>1
  <2> HIDE DEF G, f
  <2>3. G(n)[n] = IF n = 0 THEN first ELSE Step(n - 1, G(n)[n - 1])
        BY <2>2
  <2>4. n # 0 => G(n)[n - 1] = G(n - 1)[n - 1]
    <3> HAVE n # 0
    <3> HIDE DEF Table
    <3>1. n - 1 \in Nat /\ (n - 1) + 1 = n
          OBVIOUS
    <3>2. Table((n - 1) + 1, G(n)) /\ Table(n - 1, G(n - 1))
          BY <2>2, <3>1
    <3> QED BY <1>1, <3>1, <3>2
  <2> QED BY <2>1, <2>3, <2>4
<1>5. f = [n \in Nat |-> f[n]]
      OBVIOUS
<1> HIDE DEF f
<1>6. f = [n \in Nat |-> IF n = 0 THEN first ELSE Step(n - 1, f[n - 1])]
      BY <1>4, <1>5
<1> DEFINE J == CHOOSE j : j = [l \in Nat |-> IF l = 0 THEN first ELSE Step(l - 1, j[l - 1])]
<1>7. J = [l \in Nat |-> IF l = 0 THEN first ELSE Step(l - 1, J[l - 1])]
      BY <1>6
<1>8. Climb(t, leaf, index, count, path) = J[StackLevels]
      BY DEF Climb, Step, first
<1> HIDE DEF J
<1>9. ASSUME NEW l \in Nat PROVE J[l + 1] = Step(l, J[l])
  <2>1. l + 1 \in Nat /\ l + 1 # 0 /\ (l + 1) - 1 = l
        OBVIOUS
  <2>2. J[l + 1] = Step((l + 1) - 1, J[(l + 1) - 1])
        BY <1>7, <2>1
  <2> QED BY <2>1, <2>2
<1>10. J[0] = first
       BY <1>7
<1> QED BY <1>8, <1>9, <1>10 DEF Step, first, J, ClimbTurns

-----------------------------------------------------------------------------
(* Places and widths: the ancestor of leaf i at level l is node Quot(i, l), *)
(* and level l of a tree of n leaves has Width(n, l) nodes.                 *)

\* The ancestor, and the width of its level.
Quot(i, l) == i \div Pow2[l]
Width(n, l) == (n + Pow2[l] - 1) \div Pow2[l]

\* What the quotient is.
LEMMA Division ==
  ASSUME NEW a \in Nat, NEW p \in Nat, p > 0
  PROVE  a \div p \in Nat /\ (a \div p) * p <= a /\ a < (a \div p) * p + p
<1>1. \A x, y \in Nat : y > 0 => x \div y \in Nat
      OBVIOUS
<1>2. \A x, y \in Nat : y > 0 => (x \div y) * y <= x
      OBVIOUS
<1>3. \A x, y \in Nat : y > 0 => x < (x \div y) * y + y
      OBVIOUS
<1> QED BY <1>1, <1>2, <1>3

\* Multiples are ordered like their factors.
LEMMA Multiples ==
  ASSUME NEW p \in Nat, NEW u \in Nat, NEW v \in Nat, u < v
  PROVE  u * p + p <= v * p
<1>1. v = u + 1 + (v - u - 1) /\ v - u - 1 \in Nat
      OBVIOUS
<1> PICK d \in Nat : v = u + 1 + d
    BY <1>1
<1>2. v * p = u * p + p + d * p
      OBVIOUS
<1>3. d * p \in Nat /\ u * p \in Nat
      OBVIOUS
<1> QED BY <1>2, <1>3

\* Only one multiple of p ends less than p below a.
LEMMA QuotientUnique ==
  ASSUME NEW p \in Nat, NEW a \in Nat, NEW x \in Nat, NEW y \in Nat,
         x * p <= a, a < x * p + p, y * p <= a, a < y * p + p
  PROVE  x = y
<1>1. x < y => x * p + p <= y * p
      BY Multiples
<1>2. y < x => y * p + p <= x * p
      BY Multiples
<1>3. x * p \in Nat /\ y * p \in Nat
      OBVIOUS
<1> QED BY <1>1, <1>2, <1>3

\* The ancestor of leaf i at level l.
LEMMA QuotType ==
  ASSUME NEW i \in Nat, NEW l \in Nat
  PROVE  /\ Quot(i, l) \in Nat
         /\ Quot(i, l) * Pow2[l] <= i
         /\ i < Quot(i, l) * Pow2[l] + Pow2[l]
<1>1. Pow2[l] \in Nat /\ Pow2[l] > 0
      BY PowType
<1> QED BY <1>1, Division DEF Quot

\* The inequalities of QuotType determine the ancestor.
LEMMA QuotIs ==
  ASSUME NEW i \in Nat, NEW l \in Nat, NEW q \in Nat,
         q * Pow2[l] <= i, i < q * Pow2[l] + Pow2[l]
  PROVE  Quot(i, l) = q
<1>1. Pow2[l] \in Nat
      BY PowType
<1> QED BY <1>1, QuotType, QuotientUnique

\* A leaf is its own ancestor at level 0.
LEMMA QuotBase == ASSUME NEW i \in Nat PROVE Quot(i, 0) = i
<1>1. i * Pow2[0] = i /\ Pow2[0] = 1
      BY PowUnfolds
<1> QED BY <1>1, QuotIs

\* The parent of an ancestor, as ClimbStep and PathStep compute it.
LEMMA QuotUp ==
  ASSUME NEW i \in Nat, NEW l \in Nat
  PROVE  Quot(i, l + 1) = Quot(i, l) \div 2
<1> DEFINE q == Quot(i, l)
           h == q \div 2
           p == Pow2[l]
<1>1. p \in Nat /\ Pow2[l + 1] = 2 * p
      BY PowType, PowUnfolds
<1>2. q \in Nat /\ q * p <= i /\ i < q * p + p
      BY QuotType
<1>3. h \in Nat /\ (q = 2 * h \/ q = 2 * h + 1)
  <2> HIDE DEF q
  <2> QED BY <1>2
<1> HIDE DEF p, q, h
<1>4. (2 * h) * p = h * (2 * p) /\ (2 * h + 1) * p = h * (2 * p) + p /\ h * (2 * p) \in Nat
      BY <1>1, <1>3
<1>5. h * (2 * p) <= i /\ i < h * (2 * p) + 2 * p
      BY <1>1, <1>2, <1>3, <1>4
<1>6. h * Pow2[l + 1] <= i /\ i < h * Pow2[l + 1] + Pow2[l + 1] /\ l + 1 \in Nat
      BY <1>1, <1>5
<1>7. Quot(i, l + 1) = h
      BY <1>3, <1>6, QuotIs
<1> QED BY <1>7 DEF h, q

\* The nodes of level l start with the leaves x * 2^l, as far as there are such leaves.
LEMMA WidthType ==
  ASSUME NEW n \in Nat \ {0}, NEW l \in Nat
  PROVE  /\ Width(n, l) \in Nat /\ Width(n, l) > 0
         /\ \A x \in Nat : x < Width(n, l) <=> x * Pow2[l] < n
<1> DEFINE p == Pow2[l]
           w == Width(n, l)
           a == n + p - 1
<1>1. p \in Nat /\ p > 0
      BY PowType
<1> HIDE DEF p
<1>2. a \in Nat
      BY <1>1
<1>3. w = a \div p
      BY DEF Width, p
<1> HIDE DEF a, w
<1>4. w \in Nat /\ w * p <= a /\ a < w * p + p
      BY <1>1, <1>2, <1>3, Division
<1>5. w * p \in Nat /\ n <= w * p /\ w * p < n + p
      BY <1>1, <1>4 DEF a
<1>6. w # 0
  <2> SUFFICES ASSUME w = 0 PROVE FALSE
      OBVIOUS
  <2>1. w * p = 0
        BY <1>1
  <2> QED BY <1>5, <2>1
<1>7. ASSUME NEW x \in Nat PROVE x < w <=> x * p < n
  <2>0. x * p \in Nat
        BY <1>1
  <2>1. ASSUME x < w PROVE x * p < n
    <3>1. x * p + p <= w * p
          BY <1>1, <1>4, <2>1, Multiples
    <3> QED BY <1>1, <1>5, <2>0, <3>1
  <2>2. ASSUME ~(x < w) PROVE ~(x * p < n)
    <3>1. CASE x = w
          BY <1>5, <3>1
    <3>2. CASE w < x
      <4>1. w * p + p <= x * p
            BY <1>1, <1>4, <3>2, Multiples
      <4> QED BY <1>1, <1>5, <2>0, <4>1
    <3> QED BY <1>4, <2>2, <3>1, <3>2
  <2> QED BY <2>1, <2>2
<1> QED BY <1>4, <1>6, <1>7 DEF w, p

\* The equivalence of WidthType determines the width.
LEMMA WidthIs ==
  ASSUME NEW n \in Nat \ {0}, NEW l \in Nat, NEW w \in Nat,
         \A x \in Nat : x < w <=> x * Pow2[l] < n
  PROVE  Width(n, l) = w
<1> DEFINE v == Width(n, l)
<1>1. v \in Nat /\ \A x \in Nat : x < v <=> x < w
      BY WidthType
<1> HIDE DEF v
<1>2. v = w
  <2>1. ~(v < w) /\ ~(w < v)
        BY <1>1
  <2> QED BY <1>1, <2>1
<1> QED BY <1>2 DEF v

\* Level 0 has the leaves.
LEMMA WidthBase == ASSUME NEW n \in Nat \ {0} PROVE Width(n, 0) = n
<1>1. \A x \in Nat : x * Pow2[0] = x
      BY PowUnfolds
<1> QED BY <1>1, WidthIs

\* The width of the next level, as AppendLevel and ClimbStep compute it.
LEMMA WidthUp ==
  ASSUME NEW n \in Nat \ {0}, NEW l \in Nat
  PROVE  Width(n, l + 1) = (Width(n, l) + 1) \div 2
<1> DEFINE w == Width(n, l)
           h == (w + 1) \div 2
           p == Pow2[l]
<1>1. p \in Nat /\ Pow2[l + 1] = 2 * p
      BY PowType, PowUnfolds
<1>2. w \in Nat /\ \A x \in Nat : x < w <=> x * p < n
      BY WidthType
<1> HIDE DEF p, w
<1>3. h \in Nat /\ \A x \in Nat : x < h <=> 2 * x < w
      BY <1>2
<1> HIDE DEF h
<1>4. ASSUME NEW x \in Nat PROVE x < h <=> x * Pow2[l + 1] < n
  <2>1. 2 * x \in Nat /\ (2 * x) * p = x * (2 * p)
        BY <1>1
  <2>2. 2 * x < w <=> (2 * x) * p < n
        BY <1>2, <2>1
  <2> QED BY <1>1, <1>3, <2>1, <2>2
<1>5. Width(n, l + 1) = h
      BY <1>3, <1>4, WidthIs
<1> QED BY <1>5 DEF h, w

\* A level that is wide enough for all leaves is a single node.
LEMMA WidthTop ==
  ASSUME NEW n \in Nat \ {0}, NEW l \in Nat, n <= Pow2[l]
  PROVE  Width(n, l) = 1
<1>1. Pow2[l] \in Nat
      BY PowType
<1>2. 0 * Pow2[l] = 0 /\ 1 * Pow2[l] = Pow2[l]
      BY <1>1
<1> DEFINE w == Width(n, l)
<1>3. w \in Nat /\ w > 0 /\ \A x \in Nat : x < w <=> x * Pow2[l] < n
      BY WidthType
<1> HIDE DEF w
<1>4. ~(1 < w)
      BY <1>1, <1>2, <1>3
<1>5. w = 1
      BY <1>3, <1>4
<1> QED BY <1>5 DEF w

\* The ancestor of a leaf is a node of its level.
LEMMA QuotInWidth ==
  ASSUME NEW n \in Nat \ {0}, NEW i \in Nat, i < n, NEW l \in Nat
  PROVE  Quot(i, l) \in Nat /\ Quot(i, l) < Width(n, l)
<1>1. Quot(i, l) \in Nat /\ Quot(i, l) * Pow2[l] <= i
      BY QuotType
<1>2. Pow2[l] \in Nat
      BY PowType
<1>3. Quot(i, l) * Pow2[l] < n
  <2>1. Quot(i, l) * Pow2[l] \in Nat
        BY <1>1, <1>2
  <2> QED BY <1>1, <2>1
<1> QED BY <1>1, <1>3, WidthType

-----------------------------------------------------------------------------
(* The nodes of the tree *)

\* Hashes do not collide.
LEMMA NoCollisions ==
  /\ \A t, a, b, c, d : NodeHash(t, a, b) = NodeHash(t, c, d) => a = c /\ b = d
  /\ \A t, a, b : NodeHash(t, a, b) # NoHash
  /\ \A t, a : LeafHash(t, a) # NoHash
  /\ \A t, a, b : LeafHash(t, a) = LeafHash(t, b) => a = b
BY DEF NodeHash, LeafHash, NoHash

\* The x-th node of level l in the reference tree.
Node(t, leaves, l, x) == Subtrees(t, leaves)[l][x * Pow2[l]]

\* The nodes of level 0 are the leaves.
LEMMA NodeBase ==
  ASSUME NEW t, NEW leaves, NEW x \in Nat
  PROVE  Node(t, leaves, 0, x) = leaves[x + 1]
<1>1. x * Pow2[0] = x
      BY PowUnfolds
<1>2. Subtrees(t, leaves)[0][x] = leaves[x + 1]
      BY SubtreesUnfolds
<1> QED BY <1>1, <1>2 DEF Node

\* A node has two children in the level below, or one if that level ends there.
LEMMA NodeUp ==
  ASSUME NEW t, NEW leaves, Len(leaves) \in Nat \ {0}, NEW l \in Nat, NEW x \in Nat
  PROVE  Node(t, leaves, l + 1, x) =
           IF 2 * x + 1 < Width(Len(leaves), l)
           THEN NodeHash(t, Node(t, leaves, l, 2 * x), Node(t, leaves, l, 2 * x + 1))
           ELSE Node(t, leaves, l, 2 * x)
<1> DEFINE p == Pow2[l]
           n == Len(leaves)
           S == Subtrees(t, leaves)
<1>1. p \in Nat /\ Pow2[l + 1] = 2 * p
      BY PowType, PowUnfolds
<1>2. 2 * x + 1 < Width(n, l) <=> (2 * x + 1) * p < n
  <2>1. \A y \in Nat : y < Width(n, l) <=> y * p < n
        BY WidthType
  <2>2. 2 * x + 1 \in Nat
        OBVIOUS
  <2> QED BY <2>1, <2>2
<1>3. S[l + 1] = [from \in Nat |-> IF from + p < n THEN NodeHash(t, S[l][from], S[l][from + p])
                                   ELSE S[l][from]]
  <2>1. \A k \in Nat : S[k + 1] = SubStep(t, leaves, k, S[k])
        BY SubtreesUnfolds
  <2> HIDE DEF S
  <2> QED BY <2>1 DEF SubStep
<1> HIDE DEF p, S, n
<1>4. x * Pow2[l + 1] = (2 * x) * p /\ (2 * x) * p + p = (2 * x + 1) * p /\ (2 * x) * p \in Nat
      BY <1>1
<1> DEFINE from == (2 * x) * p
<1>5. from \in Nat /\ from + p = (2 * x + 1) * p
      BY <1>4
<1>6. S[l + 1][x * Pow2[l + 1]] = S[l + 1][from]
      BY <1>4
<1> HIDE DEF from
<1>7. S[l + 1][from] = IF (2 * x + 1) * p < n
                       THEN NodeHash(t, S[l][from], S[l][(2 * x + 1) * p]) ELSE S[l][from]
      BY <1>3, <1>5
<1> QED BY <1>2, <1>6, <1>7 DEF Node, from, S, p, n

\* Every node is a hash.
LEMMA NodeIsHash ==
  ASSUME NEW t, NEW leaves, Len(leaves) \in Nat \ {0},
         \A k \in 1..Len(leaves) : leaves[k] # NoHash
  PROVE  \A l \in Nat : \A x \in Nat :
           x < Width(Len(leaves), l) => Node(t, leaves, l, x) # NoHash
<1> DEFINE n == Len(leaves)
           Good == {l \in Nat : \A x \in Nat : x < Width(n, l) => Node(t, leaves, l, x) # NoHash}
<1>1. 0 \in Good
  <2> SUFFICES ASSUME NEW x \in Nat, x < Width(n, 0) PROVE Node(t, leaves, 0, x) # NoHash
      OBVIOUS
  <2>1. x + 1 \in 1..n
        BY WidthBase
  <2> QED BY <2>1, NodeBase
<1>2. ASSUME NEW l \in Nat, l \in Good PROVE l + 1 \in Good
  <2> SUFFICES ASSUME NEW x \in Nat, x < Width(n, l + 1) PROVE Node(t, leaves, l + 1, x) # NoHash
      OBVIOUS
  <2>1. Width(n, l) \in Nat /\ Width(n, l + 1) = (Width(n, l) + 1) \div 2
        BY WidthType, WidthUp
  <2>2. 2 * x \in Nat /\ 2 * x < Width(n, l)
    <3> DEFINE w == Width(n, l)
    <3> HIDE DEF w
    <3>1. w \in Nat /\ x < (w + 1) \div 2
          BY <2>1 DEF w
    <3>2. 2 * x \in Nat /\ 2 * x < w
          BY <3>1
    <3> QED BY <3>2 DEF w
  <2>3. Node(t, leaves, l, 2 * x) # NoHash
        BY <1>2, <2>2
  <2> QED BY <2>3, NodeUp, NoCollisions
<1>3. \A l \in Nat : l \in Good
  <2> HIDE DEF Good
  <2> QED BY <1>1, <1>2, NatSetInduction
<1> QED BY <1>3

\* A node whose leaves are all there is not changed by more leaves.
LEMMA NodePrefix ==
  ASSUME NEW t, NEW leaves, NEW more, Len(leaves) \in Nat, Len(more) \in Nat \ {0},
         Len(leaves) <= Len(more), \A k \in 1..Len(leaves) : more[k] = leaves[k]
  PROVE  \A l \in Nat : \A x \in Nat :
           x * Pow2[l] + Pow2[l] <= Len(leaves) => Node(t, leaves, l, x) = Node(t, more, l, x)
<1> DEFINE n == Len(leaves)
           Good == {l \in Nat : \A x \in Nat : x * Pow2[l] + Pow2[l] <= n
                                  => Node(t, leaves, l, x) = Node(t, more, l, x)}
<1>1. 0 \in Good
  <2> SUFFICES ASSUME NEW x \in Nat, x * Pow2[0] + Pow2[0] <= n
               PROVE  Node(t, leaves, 0, x) = Node(t, more, 0, x)
      OBVIOUS
  <2> HIDE DEF Good
  <2>1. Pow2[0] = 1
        BY PowUnfolds
  <2>2. x * 1 + 1 <= n /\ n \in Nat
        BY <2>1
  <2>3. x + 1 \in 1..n
        BY <2>2
  <2> QED BY <2>3, NodeBase
<1>2. ASSUME NEW l \in Nat, l \in Good PROVE l + 1 \in Good
  <2> SUFFICES ASSUME NEW x \in Nat, x * Pow2[l + 1] + Pow2[l + 1] <= n
               PROVE  Node(t, leaves, l + 1, x) = Node(t, more, l + 1, x)
      OBVIOUS
  <2> DEFINE p == Pow2[l]
             y == 2 * x
             z == 2 * x + 1
  <2>1. p \in Nat /\ p > 0 /\ Pow2[l + 1] = 2 * p
        BY PowType, PowUnfolds
  <2>2. y \in Nat /\ z \in Nat
        OBVIOUS
  <2>3. y * p \in Nat /\ x * (2 * p) = y * p /\ z * p = y * p + p
    <3> HIDE DEF p
    <3> QED BY <2>1
  <2> HIDE DEF p, y, z
  <2>4. y * p + p <= n /\ z * p + p <= n /\ z * p < n /\ z * p < Len(more) /\ n # 0
        BY <2>1, <2>2, <2>3
  <2>5. z < Width(n, l) /\ z < Width(Len(more), l)
        BY <2>2, <2>4, WidthType DEF p
  <2>6. Node(t, leaves, l, y) = Node(t, more, l, y) /\ Node(t, leaves, l, z) = Node(t, more, l, z)
        BY <1>2, <2>2, <2>4 DEF p
  <2>7. /\ Node(t, leaves, l + 1, x) = NodeHash(t, Node(t, leaves, l, y), Node(t, leaves, l, z))
        /\ Node(t, more, l + 1, x) = NodeHash(t, Node(t, more, l, y), Node(t, more, l, z))
        BY <2>4, <2>5, NodeUp DEF y, z
  <2> QED BY <2>6, <2>7
<1>3. \A l \in Nat : l \in Good
  <2> HIDE DEF Good
  <2> QED BY <1>1, <1>2, NatSetInduction
<1> QED BY <1>3

\* The node of a level that has one only is the root.
LEMMA RootIsNode ==
  ASSUME NEW t, NEW leaves, Len(leaves) \in Nat \ {0}, leaves # <<>>, StackLevels \in Nat,
         NEW h \in Nat, h <= StackLevels, Width(Len(leaves), h) = 1
  PROVE  ReferenceRoot(t, leaves) = Node(t, leaves, h, 0)
<1> DEFINE n == Len(leaves)
           Good == {l \in Nat : l >= h => Width(n, l) = 1 /\ Node(t, leaves, l, 0) = Node(t, leaves, h, 0)}
<1>1. 0 \in Good
  <2> SUFFICES ASSUME 0 >= h PROVE 0 = h
      OBVIOUS
  <2> QED OBVIOUS
<1>2. ASSUME NEW l \in Nat, l \in Good PROVE l + 1 \in Good
  <2> SUFFICES ASSUME l + 1 >= h, l + 1 # h
               PROVE  Width(n, l + 1) = 1 /\ Node(t, leaves, l + 1, 0) = Node(t, leaves, h, 0)
      OBVIOUS
  <2>1. Width(n, l) = 1 /\ Node(t, leaves, l, 0) = Node(t, leaves, h, 0)
        BY <1>2
  <2>2. Width(n, l + 1) = (1 + 1) \div 2
        BY <2>1, WidthUp
  <2>3. Node(t, leaves, l + 1, 0) = Node(t, leaves, l, 2 * 0)
        BY <2>1, NodeUp
  <2> QED BY <2>1, <2>2, <2>3
<1>3. \A l \in Nat : l \in Good
  <2> HIDE DEF Good
  <2> QED BY <1>1, <1>2, NatSetInduction
<1>4. Node(t, leaves, StackLevels, 0) = Node(t, leaves, h, 0)
      BY <1>3
<1>5. 0 * Pow2[StackLevels] = 0
      BY PowType
<1> QED BY <1>4, <1>5 DEF ReferenceRoot, Node

-----------------------------------------------------------------------------
(* The accumulator *)

\* The levels of the stack.
Levels == 0..StackLevels - 1

\* Even and odd ancestors.
LEMMA BitIs ==
  ASSUME NEW c \in Nat, NEW l \in Nat
  PROVE  /\ Bit(c, l) \in {0, 1}
         /\ Quot(c, l + 1) \in Nat
         /\ Bit(c, l) = 0 => Quot(c, l) = 2 * Quot(c, l + 1)
         /\ Bit(c, l) = 1 => Quot(c, l) = 2 * Quot(c, l + 1) + 1
<1> DEFINE q == Quot(c, l)
<1>1. q \in Nat /\ Quot(c, l + 1) = q \div 2 /\ Bit(c, l) = q % 2
      BY QuotType, QuotUp DEF Bit, Quot
<1> HIDE DEF q
<1>2. q % 2 \in {0, 1} /\ q \div 2 \in Nat /\ (q % 2 = 0 => q = 2 * (q \div 2)) /\ (q % 2 = 1 => q = 2 * (q \div 2) + 1)
      BY <1>1
<1> QED BY <1>1, <1>2 DEF q

\* Where all bits below level m are ones, the blocks of these levels end with leaf c.
LEMMA Ones ==
  ASSUME NEW c \in Nat, NEW m \in Nat, \A k \in 0..m - 1 : Bit(c, k) = 1
  PROVE  \A k \in Nat : k <= m => Quot(c, k) * Pow2[k] + Pow2[k] = c + 1
<1> DEFINE Good == {k \in Nat : k <= m => Quot(c, k) * Pow2[k] + Pow2[k] = c + 1}
<1>1. 0 \in Good
      BY PowUnfolds, QuotBase
<1>2. ASSUME NEW k \in Nat, k \in Good PROVE k + 1 \in Good
  <2> SUFFICES ASSUME k + 1 <= m PROVE Quot(c, k + 1) * Pow2[k + 1] + Pow2[k + 1] = c + 1
      OBVIOUS
  <2> DEFINE p == Pow2[k]
             h == Quot(c, k + 1)
  <2>1. k \in 0..m - 1 /\ Bit(c, k) = 1
        OBVIOUS
  <2>2. h \in Nat /\ Quot(c, k) = 2 * h + 1
        BY <2>1, BitIs
  <2>3. p \in Nat /\ Pow2[k + 1] = 2 * p
        BY PowType, PowUnfolds
  <2>4. (2 * h + 1) * p + p = c + 1
        BY <1>2, <2>2
  <2> HIDE DEF p, h
  <2>5. h * (2 * p) + 2 * p = (2 * h + 1) * p + p
        BY <2>2, <2>3
  <2>6. h * Pow2[k + 1] + Pow2[k + 1] = c + 1
        BY <2>3, <2>4, <2>5
  <2> QED BY <2>6 DEF h
<1>3. \A k \in Nat : k \in Good
  <2> HIDE DEF Good
  <2> QED BY <1>1, <1>2, NatSetInduction
<1> QED BY <1>3

\* CarryLevel is well defined as long as the stack has a level for one more leaf.
LEMMA CarryLevelIs ==
  ASSUME NEW acc, acc.count \in Nat, StackLevels \in Nat, acc.count + 1 < Pow2[StackLevels]
  PROVE  /\ CarryLevel(acc) \in Levels
         /\ Bit(acc.count, CarryLevel(acc)) = 0
         /\ \A k \in 0..CarryLevel(acc) - 1 : Bit(acc.count, k) = 1
<1> DEFINE c == acc.count
           End(l) == Bit(c, l) = 0 /\ \A k \in 0..l - 1 : Bit(c, k) = 1
           Good == {m \in Nat : (\A k \in 0..m - 1 : Bit(c, k) = 1) \/ \E l \in 0..m - 1 : End(l)}
<1>1. 0 \in Good
      OBVIOUS
<1>2. ASSUME NEW m \in Nat, m \in Good PROVE m + 1 \in Good
  <2>1. CASE \E l \in 0..m - 1 : End(l)
    <3> PICK l \in 0..m - 1 : End(l)
        BY <2>1
    <3>1. l \in 0..(m + 1) - 1
          OBVIOUS
    <3> QED BY <3>1
  <2>2. CASE \A k \in 0..m - 1 : Bit(c, k) = 1
    <3>1. Bit(c, m) \in {0, 1}
          BY BitIs
    <3>2. m \in 0..(m + 1) - 1 /\ \A k \in 0..(m + 1) - 1 : k = m \/ k \in 0..m - 1
          OBVIOUS
    <3>3. CASE Bit(c, m) = 0
      <4>1. End(m)
            BY <2>2, <3>3
      <4> QED BY <3>2, <4>1
    <3>4. CASE Bit(c, m) = 1
      <4>1. \A k \in 0..(m + 1) - 1 : Bit(c, k) = 1
            BY <2>2, <3>2, <3>4
      <4> QED BY <4>1
    <3> QED BY <3>1, <3>3, <3>4
  <2> QED BY <1>2, <2>1, <2>2
<1>3. \A m \in Nat : m \in Good
  <2> HIDE DEF Good
  <2> QED BY <1>1, <1>2, NatSetInduction
<1>4. ~ \A k \in 0..StackLevels - 1 : Bit(c, k) = 1
  <2> SUFFICES ASSUME \A k \in 0..StackLevels - 1 : Bit(c, k) = 1 PROVE FALSE
      OBVIOUS
  <2> DEFINE p == Pow2[StackLevels]
             q == Quot(c, StackLevels)
  <2>1. q * p + p = c + 1
        BY Ones
  <2>2. p \in Nat /\ q \in Nat
        BY PowType, QuotType
  <2> HIDE DEF p, q
  <2>3. q * p \in Nat
        BY <2>2
  <2>4. c + 1 >= p
        BY <2>1, <2>2, <2>3
  <2> QED BY <2>2, <2>4 DEF p
<1>5. \E l \in 0..StackLevels - 1 : End(l)
  <2>1. StackLevels \in Good
        BY <1>3
  <2> QED BY <1>4, <2>1
<1> QED BY <1>5 DEF CarryLevel, Levels

\* The accumulator holds the full blocks of the leaves so far.
Accumulates(t, acc, leaves) ==
  /\ acc = [stack |-> acc.stack, filled |-> acc.filled, count |-> Len(leaves)]
  /\ acc.stack = [l \in Levels |-> acc.stack[l]]
  /\ acc.filled = {l \in Levels : Bit(Len(leaves), l) = 1}
  /\ \A l \in acc.filled : acc.stack[l] = Node(t, leaves, l, Quot(Len(leaves), l) - 1)

\* The leaves after one more.
Extends(leaves, leaf, more) ==
  /\ Len(leaves) \in Nat /\ Len(more) = Len(leaves) + 1
  /\ \A k \in 1..Len(leaves) : more[k] = leaves[k]
  /\ more[Len(leaves) + 1] = leaf
  /\ \A k \in 1..Len(more) : more[k] # NoHash

\* What is carried to level k is the block of this level that the new leaf completes.
LEMMA CarriedIs ==
  ASSUME NEW t, NEW acc, NEW leaves, NEW leaf, NEW more,
         Accumulates(t, acc, leaves), Extends(leaves, leaf, more),
         NEW m \in Nat, m <= StackLevels, StackLevels \in Nat,
         \A k \in 0..m - 1 : Bit(Len(leaves), k) = 1
  PROVE  \A k \in Nat : k <= m =>
           Joined(t, acc.stack, 0..m - 1, leaf)[k] = Node(t, more, k, Quot(Len(leaves), k))
<1> DEFINE c == Len(leaves)
           J == Joined(t, acc.stack, 0..m - 1, leaf)
           Good == {k \in Nat : k <= m => J[k] = Node(t, more, k, Quot(c, k))}
<1>0. c \in Nat /\ Len(more) = c + 1 /\ Len(more) \in Nat \ {0}
      BY DEF Extends
<1>1. 0 \in Good
  <2>1. J[0] = leaf
        BY JoinedUnfolds
  <2>2. Node(t, more, 0, Quot(c, 0)) = more[c + 1]
        BY <1>0, NodeBase, QuotBase
  <2> QED BY <2>1, <2>2 DEF Extends
<1>2. ASSUME NEW k \in Nat, k \in Good PROVE k + 1 \in Good
  <2> SUFFICES ASSUME k + 1 <= m PROVE J[k + 1] = Node(t, more, k + 1, Quot(c, k + 1))
      OBVIOUS
  <2> DEFINE h == Quot(c, k + 1)
             p == Pow2[k]
  <2>1. k \in 0..m - 1 /\ k \in Levels /\ Bit(c, k) = 1
        BY DEF Levels
  <2>2. h \in Nat /\ Quot(c, k) = 2 * h + 1
        BY <1>0, <2>1, BitIs
  <2>3. J[k] = Node(t, more, k, 2 * h + 1)
        BY <1>2, <2>2
  <2>4. acc.stack[k] = Node(t, leaves, k, 2 * h)
    <3>1. k \in acc.filled
          BY <2>1 DEF Accumulates
    <3>2. (2 * h + 1) - 1 = 2 * h
          BY <2>2
    <3>3. acc.stack[k] = Node(t, leaves, k, Quot(c, k) - 1)
          BY <3>1 DEF Accumulates
    <3> HIDE DEF h
    <3> QED BY <2>2, <3>2, <3>3
  <2>5. p \in Nat /\ p > 0 /\ (2 * h + 1) * p <= c
        BY <1>0, <2>2, PowType, QuotType
  <2>6. Node(t, leaves, k, 2 * h) = Node(t, more, k, 2 * h)
    <3>1. 2 * h \in Nat /\ (2 * h) * p + p = (2 * h + 1) * p
      <4> HIDE DEF h, p
      <4> QED BY <2>2, <2>5
    <3>2. (2 * h) * p + p <= c
          BY <2>5, <3>1
    <3> HIDE DEF h
    <3> QED BY <1>0, <3>1, <3>2, NodePrefix DEF Extends
  <2>7. 2 * h + 1 < Width(Len(more), k)
    <3> HIDE DEF h
    <3>1. 2 * h + 1 \in Nat /\ (2 * h + 1) * p \in Nat
      <4> HIDE DEF p
      <4> QED BY <2>2, <2>5
    <3>2. (2 * h + 1) * p < Len(more)
          BY <1>0, <2>5, <3>1
    <3> QED BY <1>0, <3>1, <3>2, WidthType
  <2>8. Node(t, more, k, 2 * h + 1) # NoHash
    <3> HIDE DEF h
    <3>1. 2 * h + 1 \in Nat
          BY <2>2
    <3> QED BY <1>0, <2>7, <3>1, NodeIsHash DEF Extends
  <2>9. J[k + 1] = NodeHash(t, acc.stack[k], J[k])
    <3>1. J[k + 1] = JoinStep(t, acc.stack, 0..m - 1, k, J[k])
          BY JoinedUnfolds
    <3> HIDE DEF J, h
    <3> QED BY <2>1, <2>3, <2>8, <3>1 DEF JoinStep
  <2>10. Node(t, more, k + 1, h) = NodeHash(t, Node(t, more, k, 2 * h), Node(t, more, k, 2 * h + 1))
    <3> HIDE DEF h
    <3> QED BY <1>0, <2>2, <2>7, NodeUp
  <2> QED BY <2>3, <2>4, <2>6, <2>9, <2>10
<1>3. \A k \in Nat : k \in Good
  <2> HIDE DEF Good
  <2> QED BY <1>1, <1>2, NatSetInduction
<1> QED BY <1>3

\* The blocks of the leaves and of one leaf more.
LEMMA OneMore ==
  ASSUME NEW c \in Nat, NEW m \in Nat, Bit(c, m) = 0, \A k \in 0..m - 1 : Bit(c, k) = 1
  PROVE  /\ \A k \in Nat : k < m => Bit(c + 1, k) = 0
         /\ Bit(c + 1, m) = 1 /\ Quot(c + 1, m) = Quot(c, m) + 1
         /\ \A k \in Nat : k > m => Quot(c + 1, k) = Quot(c, k) /\ Bit(c + 1, k) = Bit(c, k)
<1>1. ASSUME NEW k \in Nat, k <= m PROVE Quot(c + 1, k) = Quot(c, k) + 1 /\ Quot(c, k) \in Nat
  <2> DEFINE q == Quot(c, k)
             p == Pow2[k]
  <2>1. q \in Nat /\ p \in Nat /\ p > 0
        BY QuotType, PowType
  <2>2. q * p + p = c + 1
        BY <1>1, Ones
  <2> HIDE DEF p, q
  <2>3. (q + 1) * p = q * p + p /\ q + 1 \in Nat
        BY <2>1
  <2>4. (q + 1) * p <= c + 1 /\ c + 1 < (q + 1) * p + p
        BY <2>1, <2>2, <2>3
  <2>5. Quot(c + 1, k) = q + 1
        BY <2>3, <2>4, QuotIs DEF p
  <2> QED BY <2>1, <2>5 DEF q
<1>2. \A n \in Nat : \A k \in Nat : Bit(n, k) = Quot(n, k) % 2
      BY DEF Bit, Quot
<1>3. ASSUME NEW k \in Nat, k < m PROVE Bit(c + 1, k) = 0
  <2> DEFINE q == Quot(c, k)
  <2>1. k \in 0..m - 1 /\ k <= m
        BY <1>3
  <2>2. q % 2 = 1 /\ q \in Nat /\ Quot(c + 1, k) = q + 1
        BY <1>1, <1>2, <2>1
  <2> HIDE DEF q
  <2>3. (q + 1) % 2 = 0
        BY <2>2
  <2> QED BY <1>2, <2>2, <2>3
<1>4. Bit(c + 1, m) = 1 /\ Quot(c + 1, m) = Quot(c, m) + 1
  <2> DEFINE q == Quot(c, m)
  <2>1. q % 2 = 0 /\ q \in Nat /\ Quot(c + 1, m) = q + 1
        BY <1>1, <1>2
  <2> HIDE DEF q
  <2>2. (q + 1) % 2 = 1
        BY <2>1
  <2> QED BY <1>2, <2>1, <2>2 DEF q
<1>5. \A k \in Nat : k > m => Quot(c + 1, k) = Quot(c, k)
  <2> DEFINE Good == {k \in Nat : k > m => Quot(c + 1, k) = Quot(c, k)}
  <2>1. 0 \in Good
        OBVIOUS
  <2>2. ASSUME NEW k \in Nat, k \in Good PROVE k + 1 \in Good
    <3> SUFFICES ASSUME k + 1 > m PROVE Quot(c + 1, k + 1) = Quot(c, k + 1)
        OBVIOUS
    <3>1. Quot(c + 1, k + 1) = Quot(c + 1, k) \div 2 /\ Quot(c, k + 1) = Quot(c, k) \div 2
          BY QuotUp
    <3>2. CASE k > m
          BY <2>2, <3>1, <3>2
    <3>3. CASE k = m
      <4> DEFINE q == Quot(c, m)
      <4>1. q % 2 = 0 /\ q \in Nat /\ Quot(c + 1, m) = q + 1
            BY <1>1, <1>2
      <4> HIDE DEF q
      <4>2. (q + 1) \div 2 = q \div 2
            BY <4>1
      <4> QED BY <3>1, <3>3, <4>1, <4>2 DEF q
    <3> QED BY <3>2, <3>3
  <2>3. \A k \in Nat : k \in Good
    <3> HIDE DEF Good
    <3> QED BY <2>1, <2>2, NatSetInduction
  <2> QED BY <2>3
<1>6. ASSUME NEW k \in Nat, k > m PROVE Quot(c + 1, k) = Quot(c, k) /\ Bit(c + 1, k) = Bit(c, k)
  <2>1. Quot(c + 1, k) = Quot(c, k)
        BY <1>5, <1>6
  <2> QED BY <1>2, <2>1
<1> QED BY <1>3, <1>4, <1>6

\* At first there are no leaves.
LEMMA NewAccumulates ==
  ASSUME NEW t, NEW leaves, Len(leaves) = 0
  PROVE  Accumulates(t, NewAccumulator, leaves)
<1>1. ASSUME NEW l \in Levels PROVE Bit(0, l) # 1
  <2>1. l \in Nat /\ Pow2[l] \in Nat /\ Pow2[l] > 0
    <3>1. l \in Nat
          BY DEF Levels
    <3> QED BY <3>1, PowType
  <2> DEFINE p == Pow2[l]
  <2> HIDE DEF p
  <2>2. 0 * p <= 0 /\ 0 < 0 * p + p /\ p \in Nat
        BY <2>1 DEF p
  <2>3. Quot(0, l) = 0
        BY <2>1, <2>2, QuotIs DEF p
  <2> QED BY <2>3 DEF Bit, Quot
<1>2. {l \in Levels : Bit(0, l) = 1} = {}
      BY <1>1
<1>3. \A l \in Levels : NewAccumulator.stack[l] = NoHash
      BY DEF NewAccumulator, Levels
<1>4. NewAccumulator.stack = [l \in Levels |-> NewAccumulator.stack[l]]
      BY DEF NewAccumulator, Levels
<1>5. /\ NewAccumulator = [stack |-> NewAccumulator.stack, filled |-> NewAccumulator.filled, count |-> 0]
      /\ NewAccumulator.filled = {}
      BY DEF NewAccumulator
<1> QED BY <1>2, <1>4, <1>5 DEF Accumulates

\* AddLeaf keeps the blocks up to date.
LEMMA AddLeafAccumulates ==
  ASSUME NEW t, NEW acc, NEW leaves, NEW leaf, NEW more,
         Accumulates(t, acc, leaves), Extends(leaves, leaf, more),
         StackLevels \in Nat, Len(more) < Pow2[StackLevels]
  PROVE  Accumulates(t, AddLeaf(t, acc, leaf), more)
<1> DEFINE c == Len(leaves)
           m == CarryLevel(acc)
           new == AddLeaf(t, acc, leaf)
<1>1. c \in Nat /\ Len(more) = c + 1 /\ Len(more) \in Nat \ {0}
      BY DEF Extends
<1>2. acc.count = c
      BY DEF Accumulates
<1>3. m \in Levels /\ Bit(c, m) = 0 /\ \A k \in 0..m - 1 : Bit(c, k) = 1
      BY <1>1, <1>2, CarryLevelIs
<1>4. m \in Nat /\ m <= StackLevels
      BY <1>3 DEF Levels
<1>5. Carried(t, acc, leaf) = Node(t, more, m, Quot(c, m))
  <2>1. Joined(t, acc.stack, 0..m - 1, leaf)[m] = Node(t, more, m, Quot(c, m))
        BY <1>3, <1>4, CarriedIs
  <2> QED BY <2>1 DEF Carried
<1>6. /\ \A k \in Nat : k < m => Bit(c + 1, k) = 0
      /\ Bit(c + 1, m) = 1 /\ Quot(c + 1, m) = Quot(c, m) + 1
      /\ \A k \in Nat : k > m => Quot(c + 1, k) = Quot(c, k) /\ Bit(c + 1, k) = Bit(c, k)
  <2> HIDE DEF m, c
  <2> QED BY <1>1, <1>3, <1>4, OneMore
<1>7. /\ new.stack = [acc.stack EXCEPT ![m] = Carried(t, acc, leaf)]
      /\ new.filled = (acc.filled \ (0..m - 1)) \cup {m}
      /\ new.count = Len(more)
      /\ new = [stack |-> new.stack, filled |-> new.filled, count |-> Len(more)]
      BY <1>1, <1>2 DEF AddLeaf
<1> HIDE DEF new, m, c
<1>8. new.stack = [l \in Levels |-> new.stack[l]]
      BY <1>7 DEF Accumulates
<1>9. new.filled = {l \in Levels : Bit(Len(more), l) = 1}
  <2>1. ASSUME NEW l \in Levels PROVE l \in new.filled <=> Bit(c + 1, l) = 1
    <3>1. l \in Nat
          BY DEF Levels
    <3>2. l \in acc.filled <=> Bit(c, l) = 1
          BY DEF Accumulates, c
    <3>3. CASE l < m
      <4>1. l \in 0..m - 1 /\ l # m
            BY <1>4, <3>1, <3>3
      <4> QED BY <1>6, <1>7, <3>1, <3>3, <4>1
    <3>4. CASE l = m
          BY <1>6, <1>7, <3>4
    <3>5. CASE l > m
      <4>1. l \notin 0..m - 1 /\ l # m
            BY <1>4, <3>1, <3>5
      <4> QED BY <1>6, <1>7, <3>1, <3>2, <3>5, <4>1
    <3> QED BY <1>4, <3>1, <3>3, <3>4, <3>5
  <2>2. new.filled \subseteq Levels
        BY <1>3, <1>7 DEF Accumulates
  <2> QED BY <1>1, <2>1, <2>2
<1>10. ASSUME NEW l \in new.filled
       PROVE  new.stack[l] = Node(t, more, l, Quot(Len(more), l) - 1)
  <2>1. l \in Levels /\ l \in Nat /\ Bit(c + 1, l) = 1
        BY <1>1, <1>9 DEF Levels
  <2>2. CASE l = m
    <3>1. new.stack[m] = Carried(t, acc, leaf)
          BY <1>3, <1>7 DEF Accumulates
    <3>2. Quot(c, m) \in Nat
          BY <1>1, <1>4, QuotType
    <3>3. (Quot(c, m) + 1) - 1 = Quot(c, m)
          BY <3>2
    <3> QED BY <1>1, <1>5, <1>6, <2>2, <3>1, <3>3
  <2>3. CASE l # m
    <3>1. l > m
      <4>1. l \notin 0..m - 1
            BY <1>7, <2>3
      <4> QED BY <1>4, <2>1, <2>3, <4>1
    <3>2. Quot(c + 1, l) = Quot(c, l) /\ Bit(c, l) = 1
          BY <1>6, <2>1, <3>1
    <3>3. new.stack[l] = acc.stack[l]
          BY <1>7, <2>1, <2>3 DEF Accumulates
    <3>4. acc.stack[l] = Node(t, leaves, l, Quot(c, l) - 1)
          BY <2>1, <3>2 DEF Accumulates, c
    <3> DEFINE x == Quot(c, l + 1)
               p == Pow2[l]
    <3>5. x \in Nat /\ Quot(c, l) = 2 * x + 1 /\ p \in Nat /\ (2 * x + 1) * p <= c
          BY <1>1, <2>1, <3>2, BitIs, QuotType, PowType
    <3> HIDE DEF x
    <3>6. 2 * x \in Nat /\ (2 * x) * p + p = (2 * x + 1) * p /\ (2 * x + 1) - 1 = 2 * x
      <4> HIDE DEF p
      <4> QED BY <3>5
    <3>7. (2 * x) * p + p <= c
          BY <3>5, <3>6
    <3>8. Node(t, leaves, l, 2 * x) = Node(t, more, l, 2 * x)
          BY <1>1, <2>1, <3>6, <3>7, NodePrefix DEF Extends, c
    <3>9. Quot(c, l) - 1 = 2 * x /\ Quot(c + 1, l) - 1 = 2 * x
          BY <3>2, <3>5, <3>6
    <3> QED BY <1>1, <3>3, <3>4, <3>8, <3>9
  <2> QED BY <2>2, <2>3
<1>11. Accumulates(t, new, more)
       BY <1>7, <1>8, <1>9, <1>10 DEF Accumulates
<1> QED BY <1>11 DEF new

\* Root joins the blocks below level l to the node of that level where the leaves end.
LEMMA PartialRoot ==
  ASSUME NEW t, NEW acc, NEW leaves, Accumulates(t, acc, leaves), StackLevels \in Nat,
         Len(leaves) \in Nat \ {0}, \A k \in 1..Len(leaves) : leaves[k] # NoHash
  PROVE  \A l \in Nat : l <= StackLevels =>
           Joined(t, acc.stack, acc.filled, NoHash)[l] =
             IF Quot(Len(leaves), l) * Pow2[l] < Len(leaves)
             THEN Node(t, leaves, l, Quot(Len(leaves), l)) ELSE NoHash
<1> DEFINE c == Len(leaves)
           J == Joined(t, acc.stack, acc.filled, NoHash)
           Good == {l \in Nat : l <= StackLevels =>
                      J[l] = IF Quot(c, l) * Pow2[l] < c THEN Node(t, leaves, l, Quot(c, l)) ELSE NoHash}
<1>0. c \in Nat /\ c > 0
      OBVIOUS
<1>1. 0 \in Good
  <2>1. J[0] = NoHash
        BY JoinedUnfolds
  <2>2. Quot(c, 0) = c /\ Pow2[0] = 1 /\ c * 1 = c
        BY QuotBase, PowUnfolds
  <2>3. ~(Quot(c, 0) * Pow2[0] < c)
        BY <2>2
  <2> QED BY <2>1, <2>3
<1>2. ASSUME NEW l \in Nat, l \in Good PROVE l + 1 \in Good
  <2> SUFFICES ASSUME l + 1 <= StackLevels
               PROVE  J[l + 1] = IF Quot(c, l + 1) * Pow2[l + 1] < c
                                 THEN Node(t, leaves, l + 1, Quot(c, l + 1)) ELSE NoHash
      OBVIOUS
  <2> DEFINE q == Quot(c, l)
             h == Quot(c, l + 1)
             p == Pow2[l]
  <2>1. l \in Levels
        BY DEF Levels
  <2>2. p \in Nat /\ p > 0 /\ Pow2[l + 1] = 2 * p
        BY PowType, PowUnfolds
  <2>3. q \in Nat /\ q * p <= c /\ c < q * p + p
        BY QuotType
  <2>4. /\ Bit(c, l) \in {0, 1} /\ h \in Nat
        /\ Bit(c, l) = 0 => q = 2 * h
        /\ Bit(c, l) = 1 => q = 2 * h + 1
        BY BitIs
  <2>5. J[l] = IF q * p < c THEN Node(t, leaves, l, q) ELSE NoHash
        BY <1>2
  <2>6. l \in acc.filled <=> Bit(c, l) = 1
        BY <2>1 DEF Accumulates
  <2>7. l \in acc.filled => acc.stack[l] = Node(t, leaves, l, q - 1)
        BY DEF Accumulates
  <2>8. J[l + 1] = JoinStep(t, acc.stack, acc.filled, l, J[l])
        BY JoinedUnfolds
  <2>9. /\ \A x \in Nat : x < Width(c, l) <=> x * p < c
        /\ \A x \in Nat : x < Width(c, l) => Node(t, leaves, l, x) # NoHash
        BY <1>0, WidthType, NodeIsHash
  <2>10. Node(t, leaves, l + 1, h) =
           IF 2 * h + 1 < Width(c, l)
           THEN NodeHash(t, Node(t, leaves, l, 2 * h), Node(t, leaves, l, 2 * h + 1))
           ELSE Node(t, leaves, l, 2 * h)
        BY <2>4, NodeUp
  <2> HIDE DEF q, h, p, c, J
  <2>11. /\ h * (2 * p) = (2 * h) * p /\ (2 * h) * p + p = (2 * h + 1) * p
         /\ (2 * h) * p \in Nat /\ 2 * h \in Nat /\ 2 * h + 1 \in Nat /\ (2 * h + 1) * p \in Nat
         /\ (2 * h + 1) - 1 = 2 * h
        BY <2>2, <2>4
  <2>12. CASE Bit(c, l) = 0
    <3>1. q = 2 * h /\ l \notin acc.filled
          BY <2>4, <2>6, <2>12
    <3>2. J[l + 1] = J[l]
          BY <2>8, <3>1 DEF JoinStep
    <3>3. ~(2 * h + 1 < Width(c, l))
      <4>1. ~((2 * h + 1) * p < c)
            BY <1>0, <2>3, <2>11, <3>1
      <4> QED BY <2>9, <2>11, <4>1
    <3>4. Node(t, leaves, l + 1, h) = Node(t, leaves, l, 2 * h)
          BY <2>10, <3>3
    <3>5. h * Pow2[l + 1] = q * p
          BY <2>2, <2>11, <3>1
    <3> QED BY <2>5, <3>1, <3>2, <3>4, <3>5 DEF h
  <2>13. CASE Bit(c, l) = 1
    <3>1. q = 2 * h + 1 /\ l \in acc.filled /\ acc.stack[l] = Node(t, leaves, l, 2 * h)
          BY <2>4, <2>6, <2>7, <2>11, <2>13
    <3>2. h * Pow2[l + 1] < c
      <4>1. h * Pow2[l + 1] = (2 * h) * p
            BY <2>2, <2>11
      <4>2. (2 * h) * p + p <= c
            BY <2>3, <2>11, <3>1
      <4> QED BY <1>0, <2>2, <2>11, <4>1, <4>2
    <3>3. J[l + 1] = Node(t, leaves, l + 1, h)
      <4>1. CASE q * p < c
        <5>1. 2 * h + 1 < Width(c, l)
              BY <2>9, <2>11, <3>1, <4>1
        <5>2. J[l] = Node(t, leaves, l, 2 * h + 1) /\ J[l] # NoHash
              BY <2>5, <2>9, <2>11, <3>1, <4>1, <5>1
        <5> QED BY <2>8, <2>10, <3>1, <5>1, <5>2 DEF JoinStep
      <4>2. CASE ~(q * p < c)
        <5>1. ~(2 * h + 1 < Width(c, l))
              BY <2>9, <2>11, <3>1, <4>2
        <5>2. J[l] = NoHash
              BY <2>5, <4>2
        <5> QED BY <2>8, <2>10, <3>1, <5>1, <5>2 DEF JoinStep
      <4> QED BY <4>1, <4>2
    <3> QED BY <3>2, <3>3 DEF h
  <2> QED BY <2>4, <2>12, <2>13
<1>3. \A l \in Nat : l \in Good
  <2> HIDE DEF Good
  <2> QED BY <1>1, <1>2, NatSetInduction
<1> QED BY <1>3

\* An accumulator that holds the blocks of the leaves has their root.
LEMMA RootIs ==
  ASSUME NEW t, NEW acc, NEW leaves, Accumulates(t, acc, leaves), StackLevels \in Nat,
         Len(leaves) \in Nat, Len(leaves) < Pow2[StackLevels], leaves = <<>> <=> Len(leaves) = 0,
         \A k \in 1..Len(leaves) : leaves[k] # NoHash
  PROVE  AccumulatorRoot(t, acc) = ReferenceRoot(t, leaves)
<1> DEFINE c == Len(leaves)
<1>1. acc.count = c
      BY DEF Accumulates
<1>2. CASE c = 0
      BY <1>1, <1>2 DEF AccumulatorRoot, ReferenceRoot
<1>3. CASE c # 0
  <2>1. c \in Nat \ {0}
        BY <1>3
  <2>2. Quot(c, StackLevels) = 0
    <3> DEFINE p == Pow2[StackLevels]
    <3>1. p \in Nat
          BY PowType
    <3> HIDE DEF p
    <3>2. 0 * p = 0
          BY <3>1
    <3>3. 0 * p <= c /\ c < 0 * p + p
          BY <3>1, <3>2 DEF p
    <3> QED BY <2>1, <3>3, QuotIs DEF p
  <2>3. 0 * Pow2[StackLevels] = 0
        BY PowType
  <2>4. Joined(t, acc.stack, acc.filled, NoHash)[StackLevels] = Node(t, leaves, StackLevels, 0)
        BY <2>1, <2>2, <2>3, PartialRoot
  <2>5. ReferenceRoot(t, leaves) = Node(t, leaves, StackLevels, 0)
        BY <1>3, <2>3 DEF ReferenceRoot, Node
  <2> QED BY <1>1, <1>3, <2>4, <2>5 DEF AccumulatorRoot
<1> QED BY <1>2, <1>3

-----------------------------------------------------------------------------
(* Sequences of hashes: there is no set of all hashes, so a sequence is one *)
(* over some set.                                                           *)

\* A sequence over some set.
IsSequence(s) == \E S : s \in Seq(S)

\* A sequence is a function on 1..Len.
LEMMA SequenceIs ==
  ASSUME NEW s, IsSequence(s)
  PROVE  Len(s) \in Nat /\ DOMAIN s = 1..Len(s) /\ s = [k \in 1..Len(s) |-> s[k]]
<1> PICK S : s \in Seq(S)
    BY DEF IsSequence
<1> QED OBVIOUS

\* A function on 1..n is a sequence of length n.
LEMMA FunctionIsSequence ==
  ASSUME NEW s, NEW n \in Nat, s = [k \in 1..n |-> s[k]]
  PROVE  IsSequence(s) /\ Len(s) = n
<1> DEFINE S == {s[k] : k \in 1..n}
<1>1. \A k \in 1..n : s[k] \in S
      OBVIOUS
<1> HIDE DEF S
<1>2. s \in [1..n -> S]
      BY <1>1
<1>3. s \in Seq(S)
      BY <1>2
<1>4. Len(s) = n
      BY <1>2, <1>3
<1> QED BY <1>3, <1>4 DEF IsSequence

\* What a concatenation consists of.
LEMMA Concatenation ==
  ASSUME NEW a, NEW b, IsSequence(a), IsSequence(b)
  PROVE  /\ IsSequence(a \o b)
         /\ Len(a) \in Nat /\ Len(b) \in Nat /\ Len(a \o b) = Len(a) + Len(b)
         /\ \A k \in 1..Len(a) : (a \o b)[k] = a[k]
         /\ \A k \in 1..Len(b) : (a \o b)[Len(a) + k] = b[k]
<1> PICK S : a \in Seq(S)
    BY DEF IsSequence
<1> PICK T : b \in Seq(T)
    BY DEF IsSequence
<1> DEFINE U == S \cup T
<1>1. \A k \in 1..Len(a) : a[k] \in U
      OBVIOUS
<1>2. \A k \in 1..Len(b) : b[k] \in U
      OBVIOUS
<1> HIDE DEF U
<1>3. a \in Seq(U) /\ b \in Seq(U)
      BY <1>1, <1>2
<1>4. a \o b \in Seq(U)
      BY <1>3
<1>5. /\ Len(a) \in Nat /\ Len(b) \in Nat /\ Len(a \o b) = Len(a) + Len(b)
      /\ \A k \in 1..Len(a) : (a \o b)[k] = a[k]
      BY <1>3
<1>6. \A k \in 1..Len(b) : (a \o b)[Len(a) + k] = b[k]
      BY <1>3
<1> QED BY <1>4, <1>5, <1>6 DEF IsSequence

-----------------------------------------------------------------------------
(* The sidecar *)

\* A level of a sidecar: its number of nodes and where they start.
Level == [count : Nat, offset : Nat]

\* The levels are those of the tree over the leaves, from the leaves up, each in its
\* place of the file; only the last one may have a single node.
Holds(t, leaves, file, levels) ==
  /\ IsSequence(file)
  /\ levels \in Seq(Level) /\ Len(levels) > 0
  /\ \A l \in Nat : l < Len(levels) =>
       /\ levels[l + 1].count = Width(Len(leaves), l)
       /\ levels[l + 1].offset + levels[l + 1].count <= Len(file)
       /\ \A x \in Nat : x < Width(Len(leaves), l) =>
            HashAt(file, levels[l + 1], x) = Node(t, leaves, l, x)
  /\ \A l \in Nat : l + 1 < Len(levels) => levels[l + 1].count # 1

\* more is file with something after it.
Continues(file, more) ==
  /\ IsSequence(file) /\ IsSequence(more) /\ Len(file) <= Len(more)
  /\ \A k \in 1..Len(file) : more[k] = file[k]

\* What stands in a file stays there when more is written after it.
LEMMA HoldsAfter ==
  ASSUME NEW t, NEW leaves, NEW file, NEW more, NEW levels, Len(leaves) \in Nat \ {0},
         Holds(t, leaves, file, levels), Continues(file, more)
  PROVE  Holds(t, leaves, more, levels)
<1>1. Len(file) \in Nat /\ Len(more) \in Nat
      BY SequenceIs DEF Continues
<1>2. ASSUME NEW l \in Nat, l < Len(levels)
      PROVE  /\ levels[l + 1].offset + levels[l + 1].count <= Len(more)
             /\ \A x \in Nat : x < Width(Len(leaves), l) =>
                  HashAt(more, levels[l + 1], x) = Node(t, leaves, l, x)
  <2> DEFINE v == levels[l + 1]
  <2>1. v \in Level
        BY <1>2 DEF Holds
  <2>2. /\ v.count = Width(Len(leaves), l) /\ v.offset + v.count <= Len(file)
        /\ \A x \in Nat : x < Width(Len(leaves), l) => HashAt(file, v, x) = Node(t, leaves, l, x)
        BY <1>2 DEF Holds
  <2> HIDE DEF v
  <2>3. v.count \in Nat /\ v.offset \in Nat
        BY <2>1 DEF Level
  <2>4. v.offset + v.count <= Len(more)
        BY <1>1, <2>2, <2>3 DEF Continues
  <2>5. ASSUME NEW x \in Nat, x < v.count PROVE HashAt(more, v, x) = HashAt(file, v, x)
    <3>1. v.offset + x + 1 \in 1..Len(file)
          BY <1>1, <2>2, <2>3, <2>5
    <3> QED BY <3>1 DEF Continues, HashAt
  <2>6. ASSUME NEW x \in Nat, x < Width(Len(leaves), l)
        PROVE  HashAt(more, v, x) = Node(t, leaves, l, x)
        BY <2>2, <2>5, <2>6
  <2> QED BY <2>4, <2>6 DEF v
<1>3. IsSequence(more)
      BY DEF Continues
<1> QED BY <1>2, <1>3 DEF Holds

\* The nodes written for the next level are its nodes.
LEMMA ParentsAre ==
  ASSUME NEW t, NEW leaves, NEW file, NEW level \in Level, NEW l \in Nat, Len(leaves) \in Nat \ {0},
         level.count = Width(Len(leaves), l),
         \A x \in Nat : x < Width(Len(leaves), l) => HashAt(file, level, x) = Node(t, leaves, l, x)
  PROVE  /\ IsSequence(Parents(t, file, level))
         /\ Len(Parents(t, file, level)) = Width(Len(leaves), l + 1)
         /\ \A x \in Nat : x < Width(Len(leaves), l + 1) =>
              Parents(t, file, level)[x + 1] = Node(t, leaves, l + 1, x)
<1> DEFINE w == Width(Len(leaves), l)
           v == Width(Len(leaves), l + 1)
           P == Parents(t, file, level)
<1>0. l + 1 \in Nat
      OBVIOUS
<1>1. w \in Nat /\ v \in Nat /\ v = (w + 1) \div 2 /\ level.count = w
      BY <1>0, WidthType, WidthUp
<1> HIDE DEF w, v
<1>2. P = [i \in 1..v |-> IF 2 * i - 1 < w
                          THEN NodeHash(t, HashAt(file, level, 2 * i - 2), HashAt(file, level, 2 * i - 1))
                          ELSE HashAt(file, level, 2 * i - 2)]
      BY <1>1 DEF Parents
<1>3. P = [i \in 1..v |-> P[i]]
      BY <1>2
<1> HIDE DEF P
<1>4. IsSequence(P) /\ Len(P) = v
      BY <1>1, <1>3, FunctionIsSequence
<1>5. ASSUME NEW x \in Nat, x < v PROVE P[x + 1] = Node(t, leaves, l + 1, x)
  <2>1. x + 1 \in 1..v /\ 2 * (x + 1) - 1 = 2 * x + 1 /\ 2 * (x + 1) - 2 = 2 * x
        BY <1>1, <1>5
  <2>2. P[x + 1] = IF 2 * x + 1 < w THEN NodeHash(t, HashAt(file, level, 2 * x), HashAt(file, level, 2 * x + 1))
                   ELSE HashAt(file, level, 2 * x)
        BY <1>2, <2>1
  <2>3. 2 * x \in Nat /\ 2 * x + 1 \in Nat /\ 2 * x < w
        BY <1>1, <1>5
  <2>4. HashAt(file, level, 2 * x) = Node(t, leaves, l, 2 * x)
        BY <2>3 DEF w
  <2>5. 2 * x + 1 < w => HashAt(file, level, 2 * x + 1) = Node(t, leaves, l, 2 * x + 1)
        BY <2>3 DEF w
  <2>6. Node(t, leaves, l + 1, x) =
          IF 2 * x + 1 < w THEN NodeHash(t, Node(t, leaves, l, 2 * x), Node(t, leaves, l, 2 * x + 1))
          ELSE Node(t, leaves, l, 2 * x)
        BY NodeUp DEF w
  <2> QED BY <2>2, <2>4, <2>5, <2>6
<1> QED BY <1>4, <1>5 DEF P, v

\* One turn of the loop adds the next level, unless there is none.
LEMMA AppendLevelHolds ==
  ASSUME NEW t, NEW leaves, NEW s, Len(leaves) \in Nat \ {0}, Holds(t, leaves, s.file, s.levels)
  PROVE  /\ Holds(t, leaves, AppendLevel(t, s).file, AppendLevel(t, s).levels)
         /\ Continues(s.file, AppendLevel(t, s).file)
         /\ Last(s.levels).count = 1 => AppendLevel(t, s) = s
         /\ Last(s.levels).count # 1 => Len(AppendLevel(t, s).levels) = Len(s.levels) + 1
<1> DEFINE n == Len(leaves)
           r == AppendLevel(t, s)
           h == Len(s.levels) - 1
           prev == s.levels[h + 1]
           P == Parents(t, s.file, prev)
           new == [count |-> (prev.count + 1) \div 2, offset |-> Len(s.file)]
<1> SUFFICES /\ Holds(t, leaves, r.file, r.levels)
             /\ Continues(s.file, r.file)
             /\ Last(s.levels).count = 1 => r = s
             /\ Last(s.levels).count # 1 => Len(r.levels) = Len(s.levels) + 1
    OBVIOUS
<1>1. /\ IsSequence(s.file) /\ Len(s.file) \in Nat
      /\ s.levels \in Seq(Level) /\ h \in Nat /\ h < Len(s.levels) /\ h + 1 = Len(s.levels)
      BY SequenceIs DEF Holds
<1>2. prev \in Level /\ Last(s.levels) = prev
      BY <1>1 DEF Last
<1>3. /\ prev.count = Width(n, h)
      /\ \A x \in Nat : x < Width(n, h) => HashAt(s.file, prev, x) = Node(t, leaves, h, x)
      BY <1>1 DEF Holds
<1>4. CASE prev.count = 1
  <2>1. r = s
        BY <1>2, <1>4 DEF AppendLevel
  <2>2. Continues(s.file, s.file)
        BY <1>1 DEF Continues
  <2> QED BY <1>2, <1>4, <2>1, <2>2
<1>5. CASE prev.count # 1
  <2>1. r.file = s.file \o P /\ r.levels = Append(s.levels, new)
        BY <1>2, <1>5 DEF AppendLevel
  <2>2. /\ IsSequence(P) /\ Len(P) = Width(n, h + 1)
        /\ \A x \in Nat : x < Width(n, h + 1) => P[x + 1] = Node(t, leaves, h + 1, x)
    <3> HIDE DEF h, prev
    <3> QED BY <1>1, <1>2, <1>3, ParentsAre
  <2>3. Width(n, h) \in Nat /\ Width(n, h + 1) \in Nat /\ Width(n, h + 1) = (Width(n, h) + 1) \div 2
    <3> HIDE DEF h
    <3>1. h + 1 \in Nat
          BY <1>1
    <3> QED BY <1>1, <3>1, WidthType, WidthUp
  <2>4. new \in Level /\ new.count = Width(n, h + 1) /\ new.offset = Len(s.file)
        BY <1>1, <1>3, <2>3 DEF Level
  <2> HIDE DEF P, new
  <2>5. /\ IsSequence(r.file) /\ Len(r.file) = Len(s.file) + Width(n, h + 1)
        /\ \A k \in 1..Len(s.file) : r.file[k] = s.file[k]
        /\ \A k \in 1..Len(P) : r.file[Len(s.file) + k] = P[k]
    <3> DEFINE f == s.file
    <3> HIDE DEF f, h
    <3>0. IsSequence(f) /\ IsSequence(P)
          BY <1>1, <2>2 DEF f
    <3>1. /\ IsSequence(f \o P) /\ Len(f \o P) = Len(f) + Len(P)
          /\ \A k \in 1..Len(f) : (f \o P)[k] = f[k]
          /\ \A k \in 1..Len(P) : (f \o P)[Len(f) + k] = P[k]
          BY <3>0, Concatenation
    <3> HIDE DEF r
    <3> QED BY <2>1, <2>2, <3>1 DEF f
  <2>6. Continues(s.file, r.file)
    <3> HIDE DEF r, h
    <3>1. Len(s.file) <= Len(r.file)
          BY <1>1, <2>3, <2>5
    <3> QED BY <1>1, <2>5, <3>1 DEF Continues
  <2>7. /\ r.levels \in Seq(Level) /\ Len(r.levels) = Len(s.levels) + 1
        /\ \A k \in 1..Len(s.levels) : r.levels[k] = s.levels[k]
        /\ r.levels[Len(s.levels) + 1] = new
        BY <1>1, <2>1, <2>4
  <2>8. Holds(t, leaves, r.file, s.levels)
    <3> HIDE DEF r
    <3> QED BY <2>6, HoldsAfter
  <2> HIDE DEF r
  <2>9. ASSUME NEW l \in Nat, l < Len(r.levels)
        PROVE  /\ r.levels[l + 1].count = Width(n, l)
               /\ r.levels[l + 1].offset + r.levels[l + 1].count <= Len(r.file)
               /\ \A x \in Nat : x < Width(n, l) => HashAt(r.file, r.levels[l + 1], x) = Node(t, leaves, l, x)
    <3>1. CASE l < Len(s.levels)
      <4>1. l + 1 \in 1..Len(s.levels)
            BY <1>1, <3>1
      <4>2. r.levels[l + 1] = s.levels[l + 1]
            BY <2>7, <4>1
      <4> QED BY <2>8, <3>1, <4>2 DEF Holds
    <3>2. CASE l = h + 1
      <4>1. r.levels[l + 1] = new
            BY <1>1, <2>7, <3>2
      <4>2. ASSUME NEW x \in Nat, x < Width(n, h + 1) PROVE HashAt(r.file, new, x) = Node(t, leaves, h + 1, x)
        <5>1. x + 1 \in 1..Len(P)
              BY <2>2, <2>3, <4>2
        <5>2. Len(s.file) + (x + 1) = new.offset + x + 1
          <6> DEFINE m == Len(s.file)
          <6>1. m \in Nat /\ new.offset = m
                BY <1>1, <2>4
          <6> HIDE DEF m
          <6>2. m + (x + 1) = m + x + 1
                BY <6>1
          <6> QED BY <6>1, <6>2 DEF m
        <5>3. r.file[Len(s.file) + (x + 1)] = P[x + 1]
              BY <2>5, <5>1
        <5>4. r.file[new.offset + x + 1] = P[x + 1]
              BY <5>2, <5>3
        <5> QED BY <2>2, <4>2, <5>4 DEF HashAt
      <4>3. new.offset + new.count <= Len(r.file)
            BY <1>1, <2>3, <2>4, <2>5
      <4> QED BY <2>4, <3>2, <4>1, <4>2, <4>3
    <3> QED BY <1>1, <2>7, <2>9, <3>1, <3>2
  <2>10. ASSUME NEW l \in Nat, l + 1 < Len(r.levels) PROVE r.levels[l + 1].count # 1
    <3>1. l + 1 \in 1..Len(s.levels)
          BY <1>1, <2>7, <2>10
    <3>2. r.levels[l + 1] = s.levels[l + 1]
          BY <2>7, <3>1
    <3>3. CASE l = h
          BY <1>5, <3>2, <3>3
    <3>4. CASE l # h
      <4>1. l + 1 < Len(s.levels)
            BY <1>1, <3>1, <3>4
      <4> QED BY <2>8, <3>2, <4>1 DEF Holds
    <3> QED BY <3>3, <3>4
  <2>11. Holds(t, leaves, r.file, r.levels)
    <3>1. Len(r.levels) > 0
          BY <1>1, <2>7
    <3> QED BY <2>5, <2>7, <2>9, <2>10, <3>1 DEF Holds
  <2> QED BY <1>2, <1>5, <2>6, <2>7, <2>11
<1> QED BY <1>4, <1>5

\* The file has the whole tree, up to its root.
Complete(t, leaves, file, levels) ==
  Holds(t, leaves, file, levels) /\ levels[Len(levels)].count = 1

\* Continuing is transitive.
LEMMA ContinuesOn ==
  ASSUME NEW a, NEW b, NEW c, Continues(a, b), Continues(b, c)
  PROVE  Continues(a, c)
<1>1. Len(a) \in Nat /\ Len(b) \in Nat /\ Len(c) \in Nat
      BY SequenceIs DEF Continues
<1>2. \A k \in 1..Len(a) : k \in 1..Len(b)
      BY <1>1 DEF Continues
<1>3. \A k \in 1..Len(a) : c[k] = a[k]
      BY <1>2 DEF Continues
<1> QED BY <1>1, <1>3 DEF Continues

\* The loop of AppendUpperLevels ends with the whole tree in the file.
LEMMA UpperComplete ==
  ASSUME NEW t, NEW leaves, NEW file, NEW levels, Len(leaves) \in Nat \ {0},
         StackLevels \in Nat, Len(leaves) <= Pow2[StackLevels],
         Holds(t, leaves, file, levels), Len(levels) = 1
  PROVE  /\ Complete(t, leaves, AppendUpperLevels(t, file, levels).file,
                     AppendUpperLevels(t, file, levels).levels)
         /\ Len(AppendUpperLevels(t, file, levels).levels) <= StackLevels + 1
         /\ Continues(file, AppendUpperLevels(t, file, levels).file)
<1> PICK s : IsTurns(t, file, levels, s)
      BY UpperUnfolds
<1>0. /\ s[0] = [file |-> file, levels |-> levels]
      /\ \A k \in Nat : s[k + 1] = AppendLevel(t, s[k])
      /\ AppendUpperLevels(t, file, levels) = s[StackLevels]
      BY DEF IsTurns
<1> DEFINE Done(k) == s[k].levels[Len(s[k].levels)].count = 1
           Good == {k \in Nat : /\ Holds(t, leaves, s[k].file, s[k].levels)
                                /\ Continues(file, s[k].file)
                                /\ Len(s[k].levels) <= k + 1
                                /\ Len(s[k].levels) = k + 1 \/ Done(k)}
<1>1. 0 \in Good
  <2>1. s[0].file = file /\ s[0].levels = levels
        BY <1>0
  <2>2. Continues(file, file)
    <3>1. IsSequence(file)
          BY DEF Holds
    <3> QED BY <3>1, SequenceIs DEF Continues
  <2>3. /\ Holds(t, leaves, s[0].file, s[0].levels) /\ Continues(file, s[0].file)
        /\ Len(s[0].levels) = 0 + 1 /\ Len(s[0].levels) <= 0 + 1
    <3>1. Holds(t, leaves, s[0].file, s[0].levels)
          BY <2>1
    <3>2. Continues(file, s[0].file)
          BY <2>1, <2>2
    <3>3. Len(s[0].levels) = 1
          BY <2>1
    <3> QED BY <3>1, <3>2, <3>3
  <2> QED BY <2>3
<1>2. ASSUME NEW k \in Nat, k \in Good PROVE k + 1 \in Good
  <2> DEFINE r == s[k + 1]
             v == s[k]
  <2>1. /\ Holds(t, leaves, v.file, v.levels) /\ Continues(file, v.file)
        /\ Len(v.levels) <= k + 1 /\ (Len(v.levels) = k + 1 \/ Done(k))
        BY <1>2
  <2>2. r = AppendLevel(t, v)
        BY <1>0
  <2>3. Last(v.levels).count = 1 <=> Done(k)
        BY DEF Last
  <2> HIDE DEF r, v, Done
  <2>4. Len(v.levels) \in Nat
    <3>1. v.levels \in Seq(Level)
          BY <2>1 DEF Holds
    <3> QED BY <3>1
  <2>5. /\ Holds(t, leaves, r.file, r.levels) /\ Continues(v.file, r.file)
        /\ Last(v.levels).count = 1 => r = v
        /\ Last(v.levels).count # 1 => Len(r.levels) = Len(v.levels) + 1
    <3>1. /\ Holds(t, leaves, AppendLevel(t, v).file, AppendLevel(t, v).levels)
          /\ Continues(v.file, AppendLevel(t, v).file)
          /\ Last(v.levels).count = 1 => AppendLevel(t, v) = v
          /\ Last(v.levels).count # 1 => Len(AppendLevel(t, v).levels) = Len(v.levels) + 1
          BY <2>1, AppendLevelHolds
    <3> QED BY <2>2, <3>1
  <2>6. Continues(file, r.file)
        BY <2>1, <2>5, ContinuesOn
  <2>7. CASE Done(k)
    <3>1. r = v
          BY <2>3, <2>5, <2>7
    <3>2. Done(k + 1)
          BY <2>7, <3>1 DEF Done, r, v
    <3>3. Len(r.levels) <= (k + 1) + 1
      <4> DEFINE m == Len(v.levels)
      <4> HIDE DEF m
      <4>1. m \in Nat /\ m <= k + 1
            BY <2>1, <2>4 DEF m
      <4>2. m <= (k + 1) + 1
            BY <4>1
      <4> QED BY <3>1, <4>2 DEF m
    <3> QED BY <2>5, <2>6, <3>2, <3>3 DEF r
  <2>8. CASE ~Done(k)
    <3>1. Len(r.levels) = (k + 1) + 1
          BY <2>1, <2>3, <2>5, <2>8
    <3>2. Len(r.levels) <= (k + 1) + 1 /\ k + 1 \in Nat
          BY <3>1
    <3> QED BY <2>5, <2>6, <3>1, <3>2 DEF r
  <2> QED BY <2>7, <2>8
<1>3. \A k \in Nat : k \in Good
  <2> HIDE DEF Good
  <2> QED BY <1>1, <1>2, NatSetInduction
<1> DEFINE r == s[StackLevels]
<1>4. /\ Holds(t, leaves, r.file, r.levels) /\ Continues(file, r.file)
      /\ Len(r.levels) <= StackLevels + 1
      /\ Len(r.levels) = StackLevels + 1 \/ r.levels[Len(r.levels)].count = 1
      BY <1>3
<1> HIDE DEF r
<1>5. r.levels[Len(r.levels)].count = 1
  <2> SUFFICES ASSUME Len(r.levels) = StackLevels + 1
               PROVE  r.levels[StackLevels + 1].count = 1
      BY <1>4
  <2>1. StackLevels < Len(r.levels)
        OBVIOUS
  <2>2. r.levels[StackLevels + 1].count = Width(Len(leaves), StackLevels)
        BY <1>4, <2>1 DEF Holds
  <2> QED BY <2>2, WidthTop
<1> QED BY <1>0, <1>4, <1>5 DEF Complete, r

\* The level of the leaves.
LEMMA LeavesHold ==
  ASSUME NEW t, NEW leaves, NEW file, NEW at \in Nat, Len(leaves) \in Nat \ {0}, IsSequence(file),
         at + Len(leaves) <= Len(file), \A k \in 1..Len(leaves) : file[at + k] = leaves[k]
  PROVE  /\ Holds(t, leaves, file, <<[count |-> Len(leaves), offset |-> at]>>)
         /\ Len(<<[count |-> Len(leaves), offset |-> at]>>) = 1
<1> DEFINE v == [count |-> Len(leaves), offset |-> at]
           levels == <<v>>
<1>1. v \in Level /\ v.count = Len(leaves) /\ v.offset = at
      BY DEF Level
<1> HIDE DEF v
<1>2. levels \in Seq(Level) /\ Len(levels) = 1 /\ levels[1] = v
      BY <1>1
<1> HIDE DEF levels
<1>3. ASSUME NEW l \in Nat, l < 1
      PROVE  /\ levels[l + 1].count = Width(Len(leaves), l)
             /\ levels[l + 1].offset + levels[l + 1].count <= Len(file)
             /\ \A x \in Nat : x < Width(Len(leaves), l) =>
                  HashAt(file, levels[l + 1], x) = Node(t, leaves, l, x)
  <2>1. l = 0 /\ levels[l + 1] = v /\ Width(Len(leaves), l) = Len(leaves)
    <3>1. l = 0
          BY <1>3
    <3> QED BY <1>2, <3>1, WidthBase
  <2>2. ASSUME NEW x \in Nat, x < Len(leaves) PROVE HashAt(file, v, x) = Node(t, leaves, 0, x)
    <3>1. x + 1 \in 1..Len(leaves) /\ at + (x + 1) = at + x + 1
          BY <2>2
    <3>2. file[at + (x + 1)] = leaves[x + 1]
          BY <3>1
    <3> QED BY <1>1, <3>1, <3>2, NodeBase DEF HashAt
  <2> QED BY <1>1, <2>1, <2>2
<1>4. \A l \in Nat : ~(l + 1 < 1)
      OBVIOUS
<1>5. Holds(t, leaves, file, levels)
      BY <1>2, <1>3, <1>4 DEF Holds
<1> QED BY <1>2, <1>5 DEF levels, v

\* The sidecar has both trees.
LEMMA SidecarComplete ==
  ASSUME NEW powLeaves, NEW tensorLeaves, IsSequence(powLeaves), IsSequence(tensorLeaves),
         Len(powLeaves) # 0, Len(tensorLeaves) # 0, StackLevels \in Nat,
         Len(powLeaves) <= Pow2[StackLevels], Len(tensorLeaves) <= Pow2[StackLevels]
  PROVE  LET s == Sidecar(powLeaves, tensorLeaves)
         IN /\ Complete("pow", powLeaves, s.file, s.pow)
            /\ Complete("tensor", tensorLeaves, s.file, s.tensor)
            /\ Len(s.pow) <= StackLevels + 1 /\ Len(s.tensor) <= StackLevels + 1
<1> DEFINE n == Len(powLeaves)
           m == Len(tensorLeaves)
           base == powLeaves \o tensorLeaves
           pl == <<[count |-> n, offset |-> 0]>>
           tl == <<[count |-> m, offset |-> n]>>
           p == AppendUpperLevels("pow", base, pl)
           q == AppendUpperLevels("tensor", p.file, tl)
           s == Sidecar(powLeaves, tensorLeaves)
<1>1. s.file = q.file /\ s.pow = p.levels /\ s.tensor = q.levels
      BY DEF Sidecar
<1> HIDE DEF s
<1>2. n \in Nat \ {0} /\ m \in Nat \ {0}
      BY SequenceIs
<1>3. /\ IsSequence(base) /\ Len(base) = n + m
      /\ \A k \in 1..n : base[k] = powLeaves[k]
      /\ \A k \in 1..m : base[n + k] = tensorLeaves[k]
      BY Concatenation
<1> HIDE DEF base
<1>4. Holds("pow", powLeaves, base, pl) /\ Len(pl) = 1
  <2>1. 0 + n <= Len(base) /\ \A k \in 1..n : 0 + k = k
        BY <1>2, <1>3
  <2>2. \A k \in 1..n : base[0 + k] = powLeaves[k]
        BY <1>3, <2>1
  <2> QED BY <1>2, <1>3, <2>1, <2>2, LeavesHold
<1> HIDE DEF pl
<1>5. /\ Complete("pow", powLeaves, p.file, p.levels)
      /\ Len(p.levels) <= StackLevels + 1
      /\ Continues(base, p.file)
      BY <1>2, <1>4, UpperComplete
<1> HIDE DEF p
<1>6. Holds("tensor", tensorLeaves, p.file, tl) /\ Len(tl) = 1
  <2>1. IsSequence(p.file) /\ Len(p.file) \in Nat /\ Len(base) <= Len(p.file)
        BY <1>5, SequenceIs DEF Continues
  <2>2. n + m <= Len(p.file)
        BY <1>2, <1>3, <2>1
  <2>3. ASSUME NEW k \in 1..m PROVE p.file[n + k] = tensorLeaves[k]
    <3>1. n + k \in 1..Len(base)
          BY <1>2, <1>3
    <3>2. p.file[n + k] = base[n + k]
          BY <1>5, <3>1 DEF Continues
    <3> QED BY <1>3, <3>2
  <2> QED BY <1>2, <2>1, <2>2, <2>3, LeavesHold
<1> HIDE DEF tl
<1>7. /\ Complete("tensor", tensorLeaves, q.file, q.levels)
      /\ Len(q.levels) <= StackLevels + 1
      /\ Continues(p.file, q.file)
      BY <1>2, <1>6, UpperComplete
<1> HIDE DEF q
<1>8. Complete("pow", powLeaves, q.file, p.levels)
      BY <1>2, <1>5, <1>7, HoldsAfter DEF Complete
<1> QED BY <1>1, <1>5, <1>7, <1>8 DEF s

\* The last hash is the root, and the levels are those the prover checks for.
LEMMA CompleteIs ==
  ASSUME NEW t, NEW leaves, NEW file, NEW levels, Complete(t, leaves, file, levels),
         Len(leaves) \in Nat \ {0}, leaves # <<>>, StackLevels \in Nat, Len(levels) <= StackLevels + 1
  PROVE  /\ SidecarRoot(file, levels) = ReferenceRoot(t, leaves)
         /\ LevelsValid(levels, Len(leaves))
<1> DEFINE n == Len(leaves)
           h == Len(levels) - 1
<1>1. levels \in Seq(Level) /\ h \in Nat /\ h < Len(levels) /\ h + 1 = Len(levels) /\ h <= StackLevels
      BY DEF Complete, Holds
<1>2. \A l \in Nat : l < Len(levels) => levels[l + 1].count = Width(n, l)
      BY DEF Complete, Holds
<1>3. Width(n, h) = 1
      BY <1>1, <1>2 DEF Complete
<1>4. HashAt(file, levels[h + 1], 0) = Node(t, leaves, h, 0)
      BY <1>1, <1>3 DEF Complete, Holds
<1> HIDE DEF h
<1>5. ReferenceRoot(t, leaves) = Node(t, leaves, h, 0)
      BY <1>1, <1>3, RootIsNode
<1>6. SidecarRoot(file, levels) = ReferenceRoot(t, leaves)
      BY <1>1, <1>4, <1>5 DEF SidecarRoot, Last
<1>7. ASSUME NEW k \in 2..Len(levels) PROVE levels[k].count = (levels[k - 1].count + 1) \div 2
  <2> DEFINE l == k - 2
  <2>1. l \in Nat /\ l + 1 \in Nat /\ k = (l + 1) + 1 /\ k - 1 = l + 1 /\ l < Len(levels) /\ l + 1 < Len(levels)
        BY <1>1
  <2> HIDE DEF l
  <2>2. levels[k].count = Width(n, l + 1) /\ levels[k - 1].count = Width(n, l)
        BY <1>2, <2>1
  <2> QED BY <2>1, <2>2, WidthUp
<1>8. levels[1].count = n
      BY <1>1, <1>2, WidthBase
<1>9. levels # <<>> /\ Last(levels).count = 1
      BY <1>1 DEF Complete, Last
<1> QED BY <1>6, <1>7, <1>8, <1>9 DEF LevelsValid

-----------------------------------------------------------------------------
(* Paths *)

\* The ancestor of leaf i at level l is a right child.
IsOdd(i, l) == Quot(i, l) % 2 = 1

\* The ancestor of leaf i at level l has a sibling, and the step of the path that names it.
HasSibling(n, i, l) == IsOdd(i, l) \/ Quot(i, l) + 1 < Width(n, l)
SideOf(i, l) == IF IsOdd(i, l) THEN "left" ELSE "right"
SiblingOf(t, leaves, i, l) ==
  Node(t, leaves, l, IF IsOdd(i, l) THEN Quot(i, l) - 1 ELSE Quot(i, l) + 1)

\* A node and its sibling below their parent.
JoinedAt(t, i, l, node, sibling) ==
  IF IsOdd(i, l) THEN NodeHash(t, sibling, node) ELSE NodeHash(t, node, sibling)

\* The hash of an ancestor follows from the one below and its sibling.
LEMMA AncestorUp ==
  ASSUME NEW t, NEW leaves, Len(leaves) \in Nat \ {0}, NEW i \in Nat, i < Len(leaves), NEW l \in Nat
  PROVE  Node(t, leaves, l + 1, Quot(i, l + 1)) =
           IF HasSibling(Len(leaves), i, l)
           THEN JoinedAt(t, i, l, Node(t, leaves, l, Quot(i, l)), SiblingOf(t, leaves, i, l))
           ELSE Node(t, leaves, l, Quot(i, l))
<1> DEFINE n == Len(leaves)
           q == Quot(i, l)
           x == Quot(i, l + 1)
           w == Width(n, l)
<1>1. q \in Nat /\ w \in Nat /\ q < w
      BY QuotInWidth, WidthType
<1>2. x = q \div 2
      BY QuotUp
<1>3. x \in Nat
  <2> HIDE DEF q, x
  <2> QED BY <1>1, <1>2
<1>4. Node(t, leaves, l + 1, x) =
        IF 2 * x + 1 < w THEN NodeHash(t, Node(t, leaves, l, 2 * x), Node(t, leaves, l, 2 * x + 1))
        ELSE Node(t, leaves, l, 2 * x)
  <2> HIDE DEF x
  <2> QED BY <1>3, NodeUp
<1> HIDE DEF q, x, w
<1>5. CASE IsOdd(i, l)
  <2>1. q % 2 = 1
        BY <1>5 DEF IsOdd, q
  <2>2. q = 2 * x + 1 /\ q - 1 = 2 * x
        BY <1>1, <1>2, <2>1
  <2>3. 2 * x + 1 < w
        BY <1>1, <2>2
  <2>4. Node(t, leaves, l + 1, x) = NodeHash(t, Node(t, leaves, l, q - 1), Node(t, leaves, l, q))
        BY <1>4, <2>2, <2>3
  <2> QED BY <1>5, <2>4 DEF HasSibling, JoinedAt, SiblingOf, q, x
<1>6. CASE ~IsOdd(i, l)
  <2>1. q % 2 # 1
        BY <1>6 DEF IsOdd, q
  <2>2. q = 2 * x /\ q + 1 = 2 * x + 1
        BY <1>1, <1>2, <2>1
  <2>3. Node(t, leaves, l + 1, x) = IF q + 1 < w THEN NodeHash(t, Node(t, leaves, l, q), Node(t, leaves, l, q + 1))
                                    ELSE Node(t, leaves, l, q)
        BY <1>4, <2>2
  <2> QED BY <1>6, <2>3 DEF HasSibling, JoinedAt, SiblingOf, q, x, w
<1> QED BY <1>5, <1>6

\* path is the path of leaf i up to level h: g[l] steps of it are below level l.
IsPathOf(t, leaves, i, h, path, g) ==
  /\ IsSequence(path) /\ g[0] = 0 /\ Len(path) = g[h]
  /\ \A l \in Nat : l <= h => g[l] \in Nat
  /\ \A l \in Nat : l < h =>
       IF HasSibling(Len(leaves), i, l)
       THEN /\ g[l + 1] = g[l] + 1
            /\ path[g[l] + 1] = [side |-> SideOf(i, l), hash |-> SiblingOf(t, leaves, i, l)]
       ELSE g[l + 1] = g[l]

\* What the prover reads from one level.
LEMMA PathStepIs ==
  ASSUME NEW t, NEW leaves, NEW file, NEW levels, Holds(t, leaves, file, levels),
         Len(leaves) \in Nat \ {0}, NEW i \in Nat, i < Len(leaves), NEW l \in Nat, l < Len(levels)
  PROVE  PathStep(file, levels[l + 1], Quot(i, l)) =
           IF HasSibling(Len(leaves), i, l)
           THEN <<[side |-> SideOf(i, l), hash |-> SiblingOf(t, leaves, i, l)]>> ELSE <<>>
<1> DEFINE n == Len(leaves)
           q == Quot(i, l)
           w == Width(n, l)
           v == levels[l + 1]
<1>1. q \in Nat /\ w \in Nat /\ q < w
      BY QuotInWidth, WidthType
<1>2. v.count = w /\ \A x \in Nat : x < w => HashAt(file, v, x) = Node(t, leaves, l, x)
      BY DEF Holds
<1> HIDE DEF q, w, v
<1>3. CASE q % 2 = 1
  <2>1. q - 1 \in Nat /\ q - 1 < w
        BY <1>1, <1>3
  <2>2. PathStep(file, v, q) = <<[side |-> "left", hash |-> Node(t, leaves, l, q - 1)]>>
        BY <1>2, <1>3, <2>1 DEF PathStep
  <2> QED BY <1>3, <2>2 DEF HasSibling, SideOf, SiblingOf, IsOdd, q, v
<1>4. CASE q % 2 # 1
  <2>1. CASE q + 1 < w
    <3>1. q + 1 \in Nat
          BY <1>1
    <3>2. PathStep(file, v, q) = <<[side |-> "right", hash |-> Node(t, leaves, l, q + 1)]>>
          BY <1>2, <1>4, <2>1, <3>1 DEF PathStep
    <3> QED BY <1>4, <2>1, <3>2 DEF HasSibling, SideOf, SiblingOf, IsOdd, q, v, w
  <2>2. CASE ~(q + 1 < w)
    <3>1. PathStep(file, v, q) = <<>>
          BY <1>2, <1>4, <2>2 DEF PathStep
    <3> QED BY <1>4, <2>2, <3>1 DEF HasSibling, IsOdd, q, v, w
  <2> QED BY <2>1, <2>2
<1> QED BY <1>3, <1>4

\* The path of a leaf has the siblings of all its ancestors but the root.
LEMMA PathIs ==
  ASSUME NEW t, NEW leaves, NEW file, NEW levels, Holds(t, leaves, file, levels),
         Len(leaves) \in Nat \ {0}, NEW i \in Nat, i < Len(leaves)
  PROVE  \E g : IsPathOf(t, leaves, i, Len(levels) - 1, SidecarPath(file, levels, i), g)
<1> DEFINE p == PathTurns(file, levels, i)
<1>0. /\ p[0] = <<>>
      /\ \A k \in Nat : p[k + 1] = PathTurn(file, levels, i, k, p[k])
      /\ SidecarPath(file, levels, i) = p[Len(levels) - 1]
      BY PathUnfolds
<1> HIDE DEF p
<1> DEFINE n == Len(leaves)
           h == Len(levels) - 1
           Step(l) == IF HasSibling(n, i, l)
                      THEN <<[side |-> SideOf(i, l), hash |-> SiblingOf(t, leaves, i, l)]>> ELSE <<>>
<1>1. levels \in Seq(Level) /\ h \in Nat /\ h + 1 = Len(levels)
      BY DEF Holds
<1>2. ASSUME NEW l \in Nat, l < h PROVE p[l + 1] = p[l] \o Step(l)
  <2>1. l < Len(levels)
        BY <1>1, <1>2
  <2>2. PathStep(file, levels[l + 1], Quot(i, l)) = Step(l)
    <3> HIDE DEF h
    <3> QED BY <2>1, PathStepIs
  <2> HIDE DEF Step, h
  <2> QED BY <1>0, <2>2 DEF Quot, PathTurn
<1>3. ASSUME NEW l \in Nat
      PROVE  /\ IsSequence(Step(l))
             /\ HasSibling(n, i, l) =>
                  /\ Len(Step(l)) = 1
                  /\ Step(l)[1] = [side |-> SideOf(i, l), hash |-> SiblingOf(t, leaves, i, l)]
             /\ ~HasSibling(n, i, l) => Len(Step(l)) = 0
  <2> DEFINE e == [side |-> SideOf(i, l), hash |-> SiblingOf(t, leaves, i, l)]
  <2> HIDE DEF e
  <2>1. IsSequence(<<e>>) /\ Len(<<e>>) = 1 /\ <<e>>[1] = e
    <3>1. <<e>> \in Seq({e})
          OBVIOUS
    <3> QED BY <3>1 DEF IsSequence
  <2>2. IsSequence(<<>>) /\ Len(<<>>) = 0
    <3>1. <<>> \in Seq({e})
          OBVIOUS
    <3> QED BY <3>1 DEF IsSequence
  <2> QED BY <2>1, <2>2 DEF e
<1> HIDE DEF Step, h
<1> DEFINE Good == {m \in Nat : m <= h => /\ IsSequence(p[m])
                                          /\ \A l \in Nat : l <= m => Continues(p[l], p[m])}
<1>4. 0 \in Good
  <2>1. IsSequence(p[0])
    <3>1. <<>> \in Seq({})
          OBVIOUS
    <3> QED BY <1>0, <3>1 DEF IsSequence
  <2>2. Continues(p[0], p[0])
        BY <2>1, SequenceIs DEF Continues
  <2>3. \A l \in Nat : l <= 0 => l = 0
        OBVIOUS
  <2> QED BY <2>1, <2>2, <2>3
<1>5. ASSUME NEW m \in Nat, m < h, IsSequence(p[m])
      PROVE  /\ IsSequence(p[m + 1]) /\ Len(p[m]) \in Nat
             /\ Len(p[m + 1]) = Len(p[m]) + Len(Step(m))
             /\ \A k \in 1..Len(p[m]) : p[m + 1][k] = p[m][k]
             /\ \A k \in 1..Len(Step(m)) : p[m + 1][Len(p[m]) + k] = Step(m)[k]
             /\ Continues(p[m], p[m + 1])
  <2> DEFINE a == p[m]
             b == Step(m)
  <2>1. IsSequence(a) /\ IsSequence(b)
        BY <1>3, <1>5
  <2>2. p[m + 1] = a \o b
        BY <1>2, <1>5
  <2> HIDE DEF a, b
  <2>3. /\ IsSequence(a \o b)
        /\ Len(a) \in Nat /\ Len(b) \in Nat /\ Len(a \o b) = Len(a) + Len(b)
        /\ \A k \in 1..Len(a) : (a \o b)[k] = a[k]
        /\ \A k \in 1..Len(b) : (a \o b)[Len(a) + k] = b[k]
        BY <2>1, Concatenation
  <2>4. Len(a) <= Len(a \o b)
        BY <2>3
  <2>5. Continues(a, a \o b)
        BY <2>1, <2>3, <2>4 DEF Continues
  <2> QED BY <2>2, <2>3, <2>5 DEF a, b
<1>6. ASSUME NEW m \in Nat, m \in Good PROVE m + 1 \in Good
  <2> SUFFICES ASSUME m + 1 <= h
               PROVE  IsSequence(p[m + 1]) /\ \A l \in Nat : l <= m + 1 => Continues(p[l], p[m + 1])
      OBVIOUS
  <2>1. m < h
        BY <1>1
  <2>2. IsSequence(p[m]) /\ \A l \in Nat : l <= m => Continues(p[l], p[m])
        BY <1>1, <1>6, <2>1
  <2>3. IsSequence(p[m + 1]) /\ Continues(p[m], p[m + 1])
        BY <1>5, <2>1, <2>2
  <2>4. Continues(p[m + 1], p[m + 1])
        BY <2>3, SequenceIs DEF Continues
  <2>5. ASSUME NEW l \in Nat, l <= m + 1 PROVE Continues(p[l], p[m + 1])
    <3>1. CASE l = m + 1
          BY <2>4, <3>1
    <3>2. CASE l <= m
          BY <2>2, <2>3, <3>2, ContinuesOn
    <3> QED BY <2>5, <3>1, <3>2
  <2> QED BY <2>3, <2>5
<1>7. \A m \in Nat : m \in Good
  <2> HIDE DEF Good
  <2> QED BY <1>4, <1>6, NatSetInduction
<1>8. IsSequence(p[h]) /\ \A l \in Nat : l <= h => IsSequence(p[l]) /\ Continues(p[l], p[h])
      BY <1>1, <1>7
<1> DEFINE g == [l \in Nat |-> Len(p[l])]
<1>9. g[0] = 0 /\ Len(p[h]) = g[h]
  <2>1. Len(p[0]) = 0
        BY <1>0
  <2> QED BY <1>1, <2>1
<1>10. \A l \in Nat : l <= h => g[l] \in Nat
  <2>1. \A l \in Nat : l <= h => Len(p[l]) \in Nat
        BY <1>8, SequenceIs
  <2> QED BY <2>1
<1>11. ASSUME NEW l \in Nat, l < h
       PROVE  IF HasSibling(n, i, l)
              THEN /\ g[l + 1] = g[l] + 1
                   /\ p[h][g[l] + 1] = [side |-> SideOf(i, l), hash |-> SiblingOf(t, leaves, i, l)]
              ELSE g[l + 1] = g[l]
  <2>1. /\ IsSequence(p[l]) /\ l + 1 \in Nat /\ l + 1 <= h
        /\ g[l] = Len(p[l]) /\ g[l + 1] = Len(p[l + 1])
        BY <1>1, <1>8, <1>11
  <2> HIDE DEF g
  <2>2. /\ Len(p[l]) \in Nat
        /\ Len(p[l + 1]) = Len(p[l]) + Len(Step(l))
        /\ \A k \in 1..Len(Step(l)) : p[l + 1][Len(p[l]) + k] = Step(l)[k]
        BY <1>5, <1>11, <2>1
  <2>3. CASE HasSibling(n, i, l)
    <3> DEFINE e == [side |-> SideOf(i, l), hash |-> SiblingOf(t, leaves, i, l)]
    <3>1. Len(Step(l)) = 1 /\ Step(l)[1] = e
          BY <1>3, <2>3
    <3> HIDE DEF e
    <3>2. Len(p[l + 1]) = Len(p[l]) + 1
          BY <2>2, <3>1
    <3>3. 1 \in 1..Len(Step(l))
          BY <3>1
    <3>4. p[l + 1][Len(p[l]) + 1] = e
          BY <2>2, <3>1, <3>3
    <3>5. Len(p[l]) + 1 \in 1..Len(p[l + 1])
          BY <2>2, <3>2
    <3>6. p[h][Len(p[l]) + 1] = p[l + 1][Len(p[l]) + 1]
          BY <1>8, <2>1, <3>5 DEF Continues
    <3> QED BY <2>1, <2>3, <3>2, <3>4, <3>6 DEF e
  <2>4. CASE ~HasSibling(n, i, l)
    <3>0. Len(Step(l)) = 0
          BY <1>3, <2>4
    <3>1. Len(p[l + 1]) = Len(p[l])
          BY <2>2, <3>0
    <3> QED BY <2>1, <2>4, <3>1
  <2> QED BY <2>3, <2>4
<1> HIDE DEF g
<1>12. IsPathOf(t, leaves, i, h, p[h], g)
       BY <1>8, <1>9, <1>10, <1>11 DEF IsPathOf
<1> QED BY <1>0, <1>12 DEF h

-----------------------------------------------------------------------------
(* The verifier *)

\* The state of the verifier's loop.
IsClimb(c) ==
  /\ c = [node |-> c.node, index |-> c.index, count |-> c.count, pos |-> c.pos, ok |-> c.ok]
  /\ c.pos \in Nat /\ c.ok \in BOOLEAN

\* The verifier is at the ancestor of leaf i at level l.
IsAt(c, n, i, l) == IsClimb(c) /\ c.index = Quot(i, l) /\ c.count = Width(n, l)

\* It has found no error.
Fine(c) == c.ok = TRUE

\* The turn of the loop at level l.
LEMMA ClimbTurn ==
  ASSUME NEW t, NEW path, Len(path) \in Nat, NEW n \in Nat \ {0}, NEW i \in Nat, i < n, NEW l \in Nat,
         NEW c, IsAt(c, n, i, l), Fine(c), NEW r, r = ClimbStep(t, path, c)
  PROVE  /\ IsClimb(r)
         /\ Fine(r) => IsAt(r, n, i, l + 1)
         /\ Fine(r) <=>
              (HasSibling(n, i, l) => c.pos < Len(path) /\ path[c.pos + 1].side = SideOf(i, l))
         /\ Fine(r) /\ HasSibling(n, i, l) =>
              r.pos = c.pos + 1 /\ r.node = JoinedAt(t, i, l, c.node, path[c.pos + 1].hash)
         /\ ~HasSibling(n, i, l) => r.pos = c.pos /\ r.node = c.node
<1> USE DEF Fine
<1> DEFINE fits == c.pos < Len(path) /\ path[c.pos + 1].side = SideOf(i, l)
           q == Quot(i, l)
           w == Width(n, l)
           e == path[c.pos + 1]
           side == IF q % 2 = 0 THEN "right" ELSE "left"
           node == IF side = "right" THEN NodeHash(t, c.node, e.hash) ELSE NodeHash(t, e.hash, c.node)
           up(x, p) == [node |-> x, index |-> q \div 2, count |-> (w + 1) \div 2, pos |-> p, ok |-> TRUE]
<1>0. IsClimb(c) /\ c.index = q /\ c.count = w
      BY DEF IsAt
<1>1. q \in Nat /\ w \in Nat /\ q < w
      BY QuotInWidth, WidthType
<1>2. Quot(i, l + 1) = q \div 2 /\ Width(n, l + 1) = (w + 1) \div 2
      BY QuotUp, WidthUp
<1>3. /\ side = SideOf(i, l)
      /\ node = JoinedAt(t, i, l, c.node, e.hash)
      /\ HasSibling(n, i, l) <=> ~(side = "right" /\ q + 1 >= w)
  <2>1. q % 2 = 0 <=> ~(q % 2 = 1)
    <3> HIDE DEF q
    <3> QED BY <1>1
  <2>2. q + 1 < w <=> ~(q + 1 >= w)
    <3> HIDE DEF q, w
    <3> QED BY <1>1
  <2> QED BY <2>1, <2>2 DEF SideOf, JoinedAt, HasSibling, IsOdd
<1>4. r = IF c.count = 1 THEN c
          ELSE IF side = "right" /\ q + 1 >= w THEN up(c.node, c.pos)
          ELSE IF c.pos >= Len(path) \/ e.side # side THEN [c EXCEPT !.ok = FALSE]
          ELSE up(node, c.pos + 1)
  <2> HIDE DEF q, w
  <2> QED BY <1>0 DEF ClimbStep
<1>5. c.pos \in Nat
      BY <1>0 DEF IsClimb
<1>6. fits <=> ~(c.pos >= Len(path) \/ e.side # side)
  <2>1. c.pos < Len(path) <=> ~(c.pos >= Len(path))
        BY <1>5
  <2> HIDE DEF side
  <2> QED BY <1>3, <2>1
<1> HIDE DEF fits, q, w, e, side, node
<1>7. CASE c.count = 1
  <2>1. r = c
        BY <1>4, <1>7
  <2>2. q = 0 /\ w = 1
        BY <1>0, <1>1, <1>7
  <2>3. side = "right" /\ q + 1 >= w
        BY <2>2 DEF side
  <2>4. ~HasSibling(n, i, l)
        BY <1>3, <2>3
  <2>5. q \div 2 = q /\ (w + 1) \div 2 = w
        BY <2>2
  <2>6. IsAt(r, n, i, l + 1)
        BY <1>0, <1>2, <2>1, <2>5 DEF IsAt
  <2> QED BY <2>1, <2>4, <2>6 DEF IsAt, fits
<1>8. CASE c.count # 1 /\ side = "right" /\ q + 1 >= w
  <2>1. r = up(c.node, c.pos) /\ ~HasSibling(n, i, l)
        BY <1>3, <1>4, <1>8
  <2>2. IsAt(r, n, i, l + 1)
        BY <1>2, <1>5, <2>1 DEF IsAt, IsClimb
  <2>3. r.ok = TRUE /\ r.pos = c.pos /\ r.node = c.node
        BY <2>1
  <2> QED BY <2>1, <2>2, <2>3 DEF IsAt, fits
<1>9. CASE c.count # 1 /\ ~(side = "right" /\ q + 1 >= w) /\ ~fits
  <2>1. r = [c EXCEPT !.ok = FALSE] /\ HasSibling(n, i, l)
        BY <1>3, <1>4, <1>6, <1>9
  <2>2. r = [node |-> c.node, index |-> c.index, count |-> c.count, pos |-> c.pos, ok |-> FALSE]
        BY <1>0, <2>1 DEF IsClimb
  <2>3. IsClimb(r) /\ r.ok # TRUE
        BY <1>5, <2>2 DEF IsClimb
  <2> QED BY <1>9, <2>1, <2>3 DEF fits
<1>10. CASE c.count # 1 /\ ~(side = "right" /\ q + 1 >= w) /\ fits
  <2>1. r = up(node, c.pos + 1) /\ HasSibling(n, i, l)
        BY <1>3, <1>4, <1>6, <1>10
  <2>2. r = [node |-> node, index |-> q \div 2, count |-> (w + 1) \div 2, pos |-> c.pos + 1, ok |-> TRUE]
        BY <2>1
  <2>3. IsAt(r, n, i, l + 1)
        BY <1>2, <1>5, <2>2 DEF IsAt, IsClimb
  <2>4. r.ok = TRUE /\ r.pos = c.pos + 1 /\ r.node = node
        BY <2>2
  <2> QED BY <1>3, <1>10, <2>1, <2>3, <2>4 DEF IsAt, fits, e
<1> QED BY <1>7, <1>8, <1>9, <1>10

\* Each turn of the verifier's loop is a step from the one before, and the last is the result.
LEMMA ClimbNext ==
  ASSUME NEW t, NEW leaf, NEW path, NEW n, NEW i, NEW l \in Nat
  PROVE  ClimbTurns(t, leaf, i, n, path)[l + 1] = ClimbStep(t, path, ClimbTurns(t, leaf, i, n, path)[l])
<1> DEFINE c == ClimbTurns(t, leaf, i, n, path)
<1>1. /\ c[0] = [node |-> leaf, index |-> i, count |-> n, pos |-> 0, ok |-> TRUE]
      /\ \A k \in Nat : c[k + 1] = ClimbStep(t, path, c[k])
      /\ Climb(t, leaf, i, n, path) = c[StackLevels]
      BY ClimbUnfolds
<1> HIDE DEF c
<1>2. c[l + 1] = ClimbStep(t, path, c[l])
      BY <1>1
<1> QED BY <1>2 DEF c

\* The last turn is the result.
LEMMA ClimbTop ==
  ASSUME NEW t, NEW leaf, NEW path, NEW n, NEW i
  PROVE  Climb(t, leaf, i, n, path) = ClimbTurns(t, leaf, i, n, path)[StackLevels]
<1> DEFINE c == ClimbTurns(t, leaf, i, n, path)
<1>1. /\ c[0] = [node |-> leaf, index |-> i, count |-> n, pos |-> 0, ok |-> TRUE]
      /\ \A k \in Nat : c[k + 1] = ClimbStep(t, path, c[k])
      /\ Climb(t, leaf, i, n, path) = c[StackLevels]
      BY ClimbUnfolds
<1> HIDE DEF c
<1>2. Climb(t, leaf, i, n, path) = c[StackLevels]
      BY <1>1
<1> QED BY <1>2 DEF c

\* As long as the verifier finds no error it is at an ancestor of the leaf.
LEMMA ClimbStates ==
  ASSUME NEW t, NEW leaf, NEW path, Len(path) \in Nat, NEW n \in Nat \ {0}, NEW i \in Nat, i < n
  PROVE  \A l \in Nat :
           /\ IsClimb(ClimbTurns(t, leaf, i, n, path)[l])
           /\ Fine(ClimbTurns(t, leaf, i, n, path)[l])
                => IsAt(ClimbTurns(t, leaf, i, n, path)[l], n, i, l)
           /\ Fine(ClimbTurns(t, leaf, i, n, path)[l + 1])
                => Fine(ClimbTurns(t, leaf, i, n, path)[l])
<1> DEFINE c == ClimbTurns(t, leaf, i, n, path)
<1>0. /\ c[0] = [node |-> leaf, index |-> i, count |-> n, pos |-> 0, ok |-> TRUE]
      /\ \A l \in Nat : c[l + 1] = ClimbStep(t, path, c[l])
      BY ClimbUnfolds
<1> HIDE DEF c
<1> DEFINE Good == {l \in Nat : IsClimb(c[l]) /\ (Fine(c[l]) => IsAt(c[l], n, i, l))}
<1>1. 0 \in Good
  <2>1. IsClimb(c[0]) /\ c[0].index = i /\ c[0].count = n
        BY <1>0 DEF IsClimb
  <2> QED BY <2>1, QuotBase, WidthBase DEF IsAt
<1>2. ASSUME NEW l \in Nat, IsClimb(c[l]), ~Fine(c[l]) PROVE c[l + 1] = c[l]
  <2>1. ~c[l].ok
        BY <1>2 DEF IsClimb, Fine
  <2>2. c[l + 1] = ClimbStep(t, path, c[l])
        BY <1>0
  <2> QED BY <2>1, <2>2 DEF ClimbStep
<1>3. ASSUME NEW l \in Nat, l \in Good PROVE l + 1 \in Good
  <2>0. l + 1 \in Nat
        OBVIOUS
  <2>1. CASE Fine(c[l])
    <3> DEFINE v == c[l]
               r == c[l + 1]
    <3>1. IsAt(v, n, i, l) /\ Fine(v)
          BY <1>3, <2>1
    <3>2. r = ClimbStep(t, path, v)
          BY <1>0
    <3> HIDE DEF v, r
    <3>3. IsClimb(r) /\ (Fine(r) => IsAt(r, n, i, l + 1))
          BY <3>1, <3>2, ClimbTurn
    <3> QED BY <2>0, <3>3 DEF r
  <2>2. CASE ~Fine(c[l])
    <3>1. IsClimb(c[l])
          BY <1>3
    <3>2. c[l + 1] = c[l]
          BY <1>2, <2>2, <3>1
    <3>3. IsClimb(c[l + 1]) /\ ~Fine(c[l + 1])
          BY <2>2, <3>1, <3>2
    <3> QED BY <2>0, <3>3
  <2> QED BY <2>1, <2>2
<1>4. \A l \in Nat : l \in Good
  <2> HIDE DEF Good
  <2> QED BY <1>1, <1>3, NatSetInduction
<1>5. ASSUME NEW l \in Nat, Fine(c[l + 1]) PROVE Fine(c[l])
  <2>1. IsClimb(c[l])
        BY <1>4
  <2> QED BY <1>2, <1>5, <2>1
<1> QED BY <1>4, <1>5 DEF c

\* The turn of the loop at level l, when there is no error.
LEMMA ClimbGoesOn ==
  ASSUME NEW t, NEW leaf, NEW path, Len(path) \in Nat, NEW n \in Nat \ {0}, NEW i \in Nat, i < n,
         NEW l \in Nat, NEW v, NEW r,
         v = ClimbTurns(t, leaf, i, n, path)[l], r = ClimbTurns(t, leaf, i, n, path)[l + 1], Fine(v)
  PROVE  /\ v.pos \in Nat
         /\ Fine(r) <=>
              (HasSibling(n, i, l) => v.pos < Len(path) /\ path[v.pos + 1].side = SideOf(i, l))
         /\ Fine(r) /\ HasSibling(n, i, l) =>
              r.pos = v.pos + 1 /\ r.node = JoinedAt(t, i, l, v.node, path[v.pos + 1].hash)
         /\ ~HasSibling(n, i, l) => r.pos = v.pos /\ r.node = v.node
<1>1. r = ClimbStep(t, path, v)
      BY ClimbNext
<1>2. IsAt(v, n, i, l)
      BY ClimbStates
<1>3. v.pos \in Nat
      BY <1>2 DEF IsAt, IsClimb
<1>4. SUFFICES ASSUME NEW x, NEW y, IsAt(x, n, i, l), Fine(x), y = ClimbStep(t, path, x)
      PROVE  /\ Fine(y) <=>
                 (HasSibling(n, i, l) => x.pos < Len(path) /\ path[x.pos + 1].side = SideOf(i, l))
             /\ Fine(y) /\ HasSibling(n, i, l) =>
                 y.pos = x.pos + 1 /\ y.node = JoinedAt(t, i, l, x.node, path[x.pos + 1].hash)
             /\ ~HasSibling(n, i, l) => y.pos = x.pos /\ y.node = x.node
      BY <1>1, <1>2, <1>3
<1> QED BY <1>4, ClimbTurn

\* From the first level with a single node on nothing changes.
LEMMA ClimbEnds ==
  ASSUME NEW t, NEW leaf, NEW path, Len(path) \in Nat, NEW n \in Nat \ {0}, NEW i \in Nat, i < n,
         StackLevels \in Nat, NEW h \in Nat, h <= StackLevels, Width(n, h) = 1,
         Fine(ClimbTurns(t, leaf, i, n, path)[h])
  PROVE  /\ Fine(Climb(t, leaf, i, n, path))
         /\ Climb(t, leaf, i, n, path).pos = ClimbTurns(t, leaf, i, n, path)[h].pos
         /\ Climb(t, leaf, i, n, path).node = ClimbTurns(t, leaf, i, n, path)[h].node
<1> DEFINE c == ClimbTurns(t, leaf, i, n, path)
           Good == {l \in Nat : l >= h => /\ Fine(c[l]) /\ c[l].pos = c[h].pos
                                          /\ c[l].node = c[h].node /\ Width(n, l) = 1}
<1>0. Fine(c[h])
      OBVIOUS
<1>4. Climb(t, leaf, i, n, path) = c[StackLevels]
      BY ClimbTop
<1> HIDE DEF c
<1>1. 0 \in Good
  <2>1. 0 >= h => h = 0
        OBVIOUS
  <2> QED BY <1>0, <2>1
<1>2. ASSUME NEW l \in Nat, l \in Good PROVE l + 1 \in Good
  <2>0. l + 1 \in Nat
        OBVIOUS
  <2>1. CASE l + 1 = h
        BY <1>0, <2>1
  <2>2. CASE l >= h
    <3>1. /\ Fine(c[l]) /\ c[l].pos = c[h].pos
          /\ c[l].node = c[h].node /\ Width(n, l) = 1
          BY <1>2, <2>2
    <3>2. Width(n, l + 1) = 1
      <4>1. Width(n, l + 1) = (Width(n, l) + 1) \div 2
            BY WidthUp
      <4> QED BY <3>1, <4>1
    <3>3. Quot(i, l) \in Nat /\ Quot(i, l) < 1
          BY <3>1, QuotInWidth
    <3>4. ~HasSibling(n, i, l)
      <4>1. Quot(i, l) = 0
            BY <3>3
      <4> QED BY <3>1, <4>1 DEF HasSibling, IsOdd
    <3>5. Fine(c[l + 1]) /\ c[l + 1].pos = c[l].pos /\ c[l + 1].node = c[l].node
      <4> DEFINE v == c[l]
                 r == c[l + 1]
      <4>1. v = ClimbTurns(t, leaf, i, n, path)[l] /\ r = ClimbTurns(t, leaf, i, n, path)[l + 1]
            BY DEF c
      <4>2. Fine(v)
            BY <3>1
      <4> HIDE DEF v, r
      <4>3. Fine(r) /\ r.pos = v.pos /\ r.node = v.node
            BY <3>4, <4>1, <4>2, ClimbGoesOn
      <4> QED BY <4>3 DEF v, r
    <3> QED BY <2>0, <3>1, <3>2, <3>5
  <2>3. CASE l + 1 < h
        BY <2>0, <2>3
  <2> QED BY <2>0, <2>1, <2>2, <2>3
<1>3. \A l \in Nat : l \in Good
  <2> HIDE DEF Good
  <2> QED BY <1>1, <1>2, NatSetInduction
<1> QED BY <1>3, <1>4 DEF c

\* The positions at the levels up to m do not decrease, and each position up to the m-th
\* is that of a level.
Grow(g, m) == \A l \in Nat : l <= m => g[l] <= g[m]
Covered(n, i, g, m) ==
  \A k \in 1..g[m] : \E l \in Nat : l < m /\ HasSibling(n, i, l) /\ k = g[l] + 1

\* The positions in a path of leaf i grow with the level, and every position belongs to
\* the level of some ancestor with a sibling.
LEMMA PathPositions ==
  ASSUME NEW t, NEW leaves, NEW i, NEW h \in Nat, NEW path, NEW g, IsPathOf(t, leaves, i, h, path, g)
  PROVE  \A m \in Nat : m <= h => Grow(g, m) /\ Covered(Len(leaves), i, g, m)
<1> DEFINE n == Len(leaves)
           Below(m) == \A l \in Nat : l <= m => g[l] <= g[m]
           Found(m) == \A k \in 1..g[m] : \E l \in Nat : l < m /\ HasSibling(n, i, l) /\ k = g[l] + 1
           Good == {m \in Nat : m <= h => Below(m) /\ Found(m)}
<1>1. g[0] = 0 /\ \A l \in Nat : l <= h => g[l] \in Nat
      BY DEF IsPathOf
<1>2. \A l \in Nat : l < h => IF HasSibling(n, i, l) THEN g[l + 1] = g[l] + 1 ELSE g[l + 1] = g[l]
      BY DEF IsPathOf
<1>3. 0 \in Good
  <2>1. \A l \in Nat : l <= 0 => l = 0
        OBVIOUS
  <2>2. Below(0)
        BY <1>1, <2>1
  <2>3. Found(0)
        BY <1>1
  <2> QED BY <2>2, <2>3
<1>4. ASSUME NEW m \in Nat, m \in Good PROVE m + 1 \in Good
  <2>0. m + 1 \in Nat
        OBVIOUS
  <2>1. CASE m + 1 <= h
    <3>1. m < h /\ m <= h
          BY <2>1
    <3>2. Below(m) /\ Found(m)
          BY <1>4, <3>1
    <3>3. g[m] \in Nat /\ g[m + 1] \in Nat
          BY <1>1, <2>0, <2>1, <3>1
    <3>4. IF HasSibling(n, i, m) THEN g[m + 1] = g[m] + 1 ELSE g[m + 1] = g[m]
          BY <1>2, <3>1
    <3>5. ASSUME NEW l \in Nat, l <= m + 1 PROVE g[l] <= g[m + 1]
      <4>1. CASE l = m + 1
            BY <3>3, <4>1
      <4>2. CASE l <= m
        <5>1. g[l] \in Nat /\ g[l] <= g[m]
              BY <1>1, <2>1, <3>2, <4>2
        <5>2. g[m] <= g[m + 1]
              BY <3>3, <3>4
        <5> QED BY <3>3, <5>1, <5>2
      <4> QED BY <3>5, <4>1, <4>2
    <3>6. ASSUME NEW k \in 1..g[m + 1]
          PROVE  \E l \in Nat : l < m + 1 /\ HasSibling(n, i, l) /\ k = g[l] + 1
      <4>1. CASE k <= g[m]
        <5>1. k \in 1..g[m]
              BY <3>3, <4>1
        <5>2. PICK l \in Nat : l < m /\ HasSibling(n, i, l) /\ k = g[l] + 1
              BY <3>2, <5>1
        <5>3. l < m + 1
              BY <5>2
        <5> QED BY <5>2, <5>3
      <4>2. CASE ~(k <= g[m])
        <5>1. HasSibling(n, i, m) /\ k = g[m] + 1
              BY <3>3, <3>4, <4>2
        <5>2. m < m + 1
              OBVIOUS
        <5> QED BY <5>1, <5>2
      <4> QED BY <4>1, <4>2
    <3> QED BY <2>0, <3>5, <3>6
  <2>2. CASE ~(m + 1 <= h)
        BY <2>0, <2>2
  <2> QED BY <2>1, <2>2
<1>5. \A m \in Nat : m \in Good
  <2> HIDE DEF Good
  <2> QED BY <1>3, <1>4, NatSetInduction
<1> QED BY <1>5 DEF Grow, Covered

\* The turn at level l of a climb that finds no error in it.
LEMMA FineTurn ==
  ASSUME NEW t, NEW leaf, NEW path, Len(path) \in Nat, NEW n \in Nat \ {0}, NEW i \in Nat, i < n,
         NEW l \in Nat, NEW c, c = ClimbTurns(t, leaf, i, n, path), Fine(c[l]), Fine(c[l + 1])
  PROVE  IF HasSibling(n, i, l)
         THEN /\ c[l].pos < Len(path) /\ path[c[l].pos + 1].side = SideOf(i, l)
              /\ c[l + 1].pos = c[l].pos + 1
              /\ c[l + 1].node = JoinedAt(t, i, l, c[l].node, path[c[l].pos + 1].hash)
         ELSE c[l + 1].pos = c[l].pos /\ c[l + 1].node = c[l].node
<1> DEFINE v == c[l]
           r == c[l + 1]
<1>1. v = ClimbTurns(t, leaf, i, n, path)[l] /\ r = ClimbTurns(t, leaf, i, n, path)[l + 1]
      OBVIOUS
<1>2. Fine(v) /\ Fine(r)
      OBVIOUS
<1> HIDE DEF v, r
<1>3. /\ HasSibling(n, i, l) => v.pos < Len(path) /\ path[v.pos + 1].side = SideOf(i, l)
      /\ HasSibling(n, i, l) =>
           r.pos = v.pos + 1 /\ r.node = JoinedAt(t, i, l, v.node, path[v.pos + 1].hash)
      /\ ~HasSibling(n, i, l) => r.pos = v.pos /\ r.node = v.node
      BY <1>1, <1>2, ClimbGoesOn
<1> QED BY <1>3 DEF v, r

\* When the turn at level l finds no error.
LEMMA TurnIsFine ==
  ASSUME NEW t, NEW leaf, NEW path, Len(path) \in Nat, NEW n \in Nat \ {0}, NEW i \in Nat, i < n,
         NEW l \in Nat, NEW c, c = ClimbTurns(t, leaf, i, n, path), Fine(c[l]),
         HasSibling(n, i, l) => c[l].pos < Len(path) /\ path[c[l].pos + 1].side = SideOf(i, l)
  PROVE  Fine(c[l + 1])
<1> DEFINE v == c[l]
           r == c[l + 1]
<1>1. v = ClimbTurns(t, leaf, i, n, path)[l] /\ r = ClimbTurns(t, leaf, i, n, path)[l + 1]
      OBVIOUS
<1>2. Fine(v) /\ (HasSibling(n, i, l) => v.pos < Len(path) /\ path[v.pos + 1].side = SideOf(i, l))
      OBVIOUS
<1> HIDE DEF v, r
<1>3. Fine(r)
      BY <1>1, <1>2, ClimbGoesOn
<1> QED BY <1>3 DEF r

\* Where a climb starts.
LEMMA ClimbStart ==
  ASSUME NEW t, NEW leaf, NEW path, NEW n, NEW i
  PROVE  /\ Fine(ClimbTurns(t, leaf, i, n, path)[0])
         /\ ClimbTurns(t, leaf, i, n, path)[0].pos = 0
         /\ ClimbTurns(t, leaf, i, n, path)[0].node = leaf
<1> DEFINE c == ClimbTurns(t, leaf, i, n, path)
<1>1. /\ c[0] = [node |-> leaf, index |-> i, count |-> n, pos |-> 0, ok |-> TRUE]
      /\ \A k \in Nat : c[k + 1] = ClimbStep(t, path, c[k])
      BY ClimbUnfolds
<1> HIDE DEF c
<1>2. Fine(c[0]) /\ c[0].pos = 0 /\ c[0].node = leaf
      BY <1>1 DEF Fine
<1> QED BY <1>2 DEF c

\* The facts about a path of leaf i, level by level.
LEMMA PathLevel ==
  ASSUME NEW t, NEW leaves, NEW i, NEW h \in Nat, NEW path, NEW g, IsPathOf(t, leaves, i, h, path, g),
         NEW l \in Nat, l < h
  PROVE  /\ g[l] \in Nat /\ g[l + 1] \in Nat /\ Len(path) \in Nat
         /\ ~HasSibling(Len(leaves), i, l) => g[l + 1] = g[l]
         /\ HasSibling(Len(leaves), i, l) =>
              /\ g[l + 1] = g[l] + 1 /\ g[l] < Len(path)
              /\ path[g[l] + 1] = [side |-> SideOf(i, l), hash |-> SiblingOf(t, leaves, i, l)]
<1>1. l + 1 \in Nat /\ l + 1 <= h /\ l <= h
      OBVIOUS
<1>2. g[l] \in Nat /\ g[l + 1] \in Nat /\ g[h] \in Nat /\ Len(path) = g[h]
      BY <1>1 DEF IsPathOf
<1>3. IF HasSibling(Len(leaves), i, l)
      THEN /\ g[l + 1] = g[l] + 1
           /\ path[g[l] + 1] = [side |-> SideOf(i, l), hash |-> SiblingOf(t, leaves, i, l)]
      ELSE g[l + 1] = g[l]
      BY DEF IsPathOf
<1>4. g[l + 1] <= g[h]
  <2>0. h <= h
        OBVIOUS
  <2>1. Grow(g, h)
        BY <2>0, PathPositions, Zenon
  <2> QED BY <1>1, <2>1 DEF Grow
<1> QED BY <1>2, <1>3, <1>4

\* A climb along the path of leaf i from this leaf goes from ancestor to ancestor.
LEMMA ClimbAlong ==
  ASSUME NEW t, NEW leaves, Len(leaves) \in Nat \ {0}, NEW i \in Nat, i < Len(leaves),
         NEW h \in Nat, NEW path, NEW g, IsPathOf(t, leaves, i, h, path, g),
         NEW c, c = ClimbTurns(t, leaves[i + 1], i, Len(leaves), path)
  PROVE  \A l \in Nat : l <= h =>
           Fine(c[l]) /\ c[l].pos = g[l] /\ c[l].node = Node(t, leaves, l, Quot(i, l))
<1> DEFINE n == Len(leaves)
           At(l) == Fine(c[l]) /\ c[l].pos = g[l] /\ c[l].node = Node(t, leaves, l, Quot(i, l))
           Good == {l \in Nat : l <= h => At(l)}
<1>0. Len(path) \in Nat /\ g[0] = 0
      BY DEF IsPathOf
<1>1. 0 \in Good
  <2>1. Fine(c[0]) /\ c[0].pos = 0 /\ c[0].node = leaves[i + 1]
        BY ClimbStart
  <2>2. Node(t, leaves, 0, Quot(i, 0)) = leaves[i + 1]
        BY QuotBase, NodeBase
  <2> QED BY <1>0, <2>1, <2>2
<1>2. ASSUME NEW l \in Nat, l \in Good PROVE l + 1 \in Good
  <2>0. l + 1 \in Nat
        OBVIOUS
  <2>1. CASE l + 1 <= h
    <3>1. l < h /\ l <= h
          BY <2>1
    <3>2. At(l)
          BY <1>2, <3>1
    <3>3. /\ g[l] \in Nat
          /\ ~HasSibling(n, i, l) => g[l + 1] = g[l]
          /\ HasSibling(n, i, l) =>
               /\ g[l + 1] = g[l] + 1 /\ g[l] < Len(path)
               /\ path[g[l] + 1] = [side |-> SideOf(i, l), hash |-> SiblingOf(t, leaves, i, l)]
          BY <3>1, PathLevel
    <3>4. HasSibling(n, i, l) => /\ path[g[l] + 1].side = SideOf(i, l)
                                 /\ path[g[l] + 1].hash = SiblingOf(t, leaves, i, l)
          BY <3>3
    <3>5. HasSibling(n, i, l) => c[l].pos < Len(path) /\ path[c[l].pos + 1].side = SideOf(i, l)
          BY <3>2, <3>3, <3>4
    <3>6. Fine(c[l + 1])
          BY <1>0, <3>2, <3>5, TurnIsFine
    <3>7. IF HasSibling(n, i, l)
          THEN /\ c[l + 1].pos = c[l].pos + 1
               /\ c[l + 1].node = JoinedAt(t, i, l, c[l].node, path[c[l].pos + 1].hash)
          ELSE c[l + 1].pos = c[l].pos /\ c[l + 1].node = c[l].node
          BY <1>0, <3>2, <3>6, FineTurn
    <3>8. Node(t, leaves, l + 1, Quot(i, l + 1)) =
            IF HasSibling(n, i, l)
            THEN JoinedAt(t, i, l, Node(t, leaves, l, Quot(i, l)), SiblingOf(t, leaves, i, l))
            ELSE Node(t, leaves, l, Quot(i, l))
          BY AncestorUp
    <3>9. At(l + 1)
          BY <3>2, <3>3, <3>4, <3>6, <3>7, <3>8
    <3> QED BY <2>0, <3>9
  <2>2. CASE ~(l + 1 <= h)
        BY <2>0, <2>2
  <2> QED BY <2>1, <2>2
<1>3. \A l \in Nat : l \in Good
  <2> HIDE DEF Good
  <2> QED BY <1>1, <1>2, NatSetInduction
<1> QED BY <1>3

\* The root is the node above all leaves.
LEMMA TopIs ==
  ASSUME NEW t, NEW leaves, Len(leaves) \in Nat \ {0}, leaves # <<>>, StackLevels \in Nat,
         NEW i \in Nat, i < Len(leaves), NEW h \in Nat, h <= StackLevels, Width(Len(leaves), h) = 1
  PROVE  Node(t, leaves, h, Quot(i, h)) = ReferenceRoot(t, leaves)
<1>1. Quot(i, h) \in Nat /\ Quot(i, h) < 1
      BY QuotInWidth
<1>2. Quot(i, h) = 0
      BY <1>1
<1> QED BY <1>2, RootIsNode

\* The verifier accepts a leaf with its path.
LEMMA PathAccepted ==
  ASSUME NEW t, NEW leaves, Len(leaves) \in Nat \ {0}, leaves # <<>>, StackLevels \in Nat,
         NEW i \in Nat, i < Len(leaves), NEW h \in Nat, h <= StackLevels, Width(Len(leaves), h) = 1,
         NEW path, NEW g, IsPathOf(t, leaves, i, h, path, g)
  PROVE  VerifyMerkleProof(t, leaves[i + 1], i, Len(leaves), path, ReferenceRoot(t, leaves))
<1> DEFINE n == Len(leaves)
           leaf == leaves[i + 1]
           c == ClimbTurns(t, leaf, i, n, path)
           top == Climb(t, leaf, i, n, path)
<1>1. Fine(c[h]) /\ c[h].pos = g[h] /\ c[h].node = Node(t, leaves, h, Quot(i, h))
  <2> HIDE DEF c
  <2>1. c = ClimbTurns(t, leaves[i + 1], i, Len(leaves), path)
        BY DEF c
  <2> QED BY <2>1, ClimbAlong
<1>2. Len(path) \in Nat /\ Len(path) = g[h]
      BY DEF IsPathOf
<1>3. Fine(top) /\ top.pos = c[h].pos /\ top.node = c[h].node
  <2> HIDE DEF leaf
  <2> QED BY <1>1, <1>2, ClimbEnds
<1>4. Node(t, leaves, h, Quot(i, h)) = ReferenceRoot(t, leaves)
      BY TopIs
<1> HIDE DEF top, c
<1>5. i < n /\ top.ok /\ top.pos = Len(path) /\ top.node = ReferenceRoot(t, leaves)
      BY <1>1, <1>2, <1>3, <1>4 DEF Fine
<1> QED BY <1>5 DEF VerifyMerkleProof, top

\* A path is a sequence of steps, each a side and a hash.
IsPath(path) ==
  /\ IsSequence(path)
  /\ \A k \in 1..Len(path) : path[k] = [side |-> path[k].side, hash |-> path[k].hash]

\* No error up to level h.
AllFine(c, h) == \A l \in Nat : l <= h => Fine(c[l])

\* The climb is at position g[l] of its path when it is at level l.
Positions(c, g, h) == \A l \in Nat : l <= h => c[l].pos = g[l]

\* Its nodes are the ancestors of leaf i, and its steps name their siblings.
Ancestors(t, leaves, i, path, c, h) ==
  \A l \in Nat : l <= h =>
    /\ c[l].node = Node(t, leaves, l, Quot(i, l))
    /\ l < h /\ HasSibling(Len(leaves), i, l) =>
         /\ path[c[l].pos + 1].side = SideOf(i, l)
         /\ path[c[l].pos + 1].hash = SiblingOf(t, leaves, i, l)

\* A climb without an error uses the positions of the path as the leaf's own path has them.
LEMMA ClimbPositions ==
  ASSUME NEW t, NEW leaves, Len(leaves) \in Nat \ {0}, NEW i \in Nat, i < Len(leaves),
         NEW h \in Nat, NEW genuine, NEW g, IsPathOf(t, leaves, i, h, genuine, g),
         NEW leaf, NEW path, Len(path) \in Nat,
         NEW c, c = ClimbTurns(t, leaf, i, Len(leaves), path), AllFine(c, h)
  PROVE  Positions(c, g, h)
<1> DEFINE n == Len(leaves)
           Good == {l \in Nat : l <= h => c[l].pos = g[l]}
<1>1. 0 \in Good
  <2>1. c[0].pos = 0
        BY ClimbStart
  <2>2. g[0] = 0
        BY DEF IsPathOf
  <2> QED BY <2>1, <2>2
<1>2. ASSUME NEW l \in Nat, l \in Good PROVE l + 1 \in Good
  <2>0. l + 1 \in Nat
        OBVIOUS
  <2>1. CASE l + 1 <= h
    <3>1. l < h /\ l <= h
          BY <2>1
    <3>2. c[l].pos = g[l]
          BY <1>2, <3>1
    <3>3. /\ ~HasSibling(n, i, l) => g[l + 1] = g[l]
          /\ HasSibling(n, i, l) =>
               /\ g[l + 1] = g[l] + 1 /\ g[l] < Len(genuine)
               /\ genuine[g[l] + 1] = [side |-> SideOf(i, l), hash |-> SiblingOf(t, leaves, i, l)]
          BY <3>1, PathLevel
    <3>4. Fine(c[l]) /\ Fine(c[l + 1])
          BY <2>0, <2>1, <3>1 DEF AllFine
    <3>5. IF HasSibling(n, i, l) THEN c[l + 1].pos = c[l].pos + 1 ELSE c[l + 1].pos = c[l].pos
          BY <3>4, FineTurn
    <3> QED BY <2>0, <3>2, <3>3, <3>5
  <2>2. CASE ~(l + 1 <= h)
        BY <2>0, <2>2
  <2> QED BY <2>1, <2>2
<1>3. \A l \in Nat : l \in Good
  <2> HIDE DEF Good
  <2> QED BY <1>1, <1>2, NatSetInduction
<1> QED BY <1>3 DEF Positions

\* Joining is injective: the parent determines a node and its sibling.
LEMMA JoinedOnce ==
  ASSUME NEW t, NEW i, NEW l, NEW a, NEW b, NEW x, NEW y, JoinedAt(t, i, l, a, b) = JoinedAt(t, i, l, x, y)
  PROVE  a = x /\ b = y
BY NoCollisions DEF JoinedAt

\* A climb that ends at the root of the leaves has been at the ancestors of leaf i, and
\* the steps it used name their siblings.
LEMMA ClimbNodes ==
  ASSUME NEW t, NEW leaves, Len(leaves) \in Nat \ {0}, NEW i \in Nat, i < Len(leaves),
         NEW h \in Nat, NEW leaf, NEW path, Len(path) \in Nat,
         NEW c, c = ClimbTurns(t, leaf, i, Len(leaves), path), AllFine(c, h),
         c[h].node = Node(t, leaves, h, Quot(i, h))
  PROVE  Ancestors(t, leaves, i, path, c, h)
<1> DEFINE n == Len(leaves)
           N(l) == Node(t, leaves, l, Quot(i, l))
           At(l) == /\ c[l].node = N(l)
                    /\ l < h /\ HasSibling(n, i, l) =>
                         /\ path[c[l].pos + 1].side = SideOf(i, l)
                         /\ path[c[l].pos + 1].hash = SiblingOf(t, leaves, i, l)
           Good == {k \in Nat : k <= h => At(h - k)}
<1>1. 0 \in Good
  <2>1. h - 0 = h /\ ~(h < h)
        OBVIOUS
  <2>2. At(h)
        BY <2>1
  <2> QED BY <2>1, <2>2
<1>2. ASSUME NEW l \in Nat, l < h, c[l + 1].node = N(l + 1) PROVE At(l)
  <2>1. Fine(c[l]) /\ Fine(c[l + 1])
    <3>1. l + 1 \in Nat /\ l + 1 <= h /\ l <= h
          BY <1>2
    <3> QED BY <3>1 DEF AllFine
  <2>2. IF HasSibling(n, i, l)
        THEN /\ path[c[l].pos + 1].side = SideOf(i, l)
             /\ c[l + 1].node = JoinedAt(t, i, l, c[l].node, path[c[l].pos + 1].hash)
        ELSE c[l + 1].node = c[l].node
        BY <2>1, FineTurn
  <2>3. N(l + 1) = IF HasSibling(n, i, l) THEN JoinedAt(t, i, l, N(l), SiblingOf(t, leaves, i, l))
                   ELSE N(l)
        BY AncestorUp
  <2> HIDE DEF N
  <2>4. HasSibling(n, i, l) => c[l].node = N(l) /\ path[c[l].pos + 1].hash = SiblingOf(t, leaves, i, l)
        BY <1>2, <2>2, <2>3, JoinedOnce
  <2> QED BY <1>2, <2>2, <2>3, <2>4
<1>3. ASSUME NEW k \in Nat, k \in Good PROVE k + 1 \in Good
  <2>0. k + 1 \in Nat
        OBVIOUS
  <2>1. CASE k + 1 <= h
    <3> DEFINE l == h - (k + 1)
    <3>1. l \in Nat /\ l < h /\ l + 1 = h - k /\ k <= h
          BY <2>1
    <3>2. At(h - k)
          BY <1>3, <3>1
    <3> HIDE DEF l
    <3>3. c[l + 1].node = N(l + 1)
          BY <3>1, <3>2
    <3>4. At(l)
          BY <1>2, <3>1, <3>3
    <3> QED BY <2>0, <3>4 DEF l
  <2>2. CASE ~(k + 1 <= h)
        BY <2>0, <2>2
  <2> QED BY <2>1, <2>2
<1>4. \A k \in Nat : k \in Good
  <2> HIDE DEF Good
  <2> QED BY <1>1, <1>3, NatSetInduction
<1>5. ASSUME NEW l \in Nat, l <= h PROVE At(l)
  <2>1. h - l \in Nat /\ h - l <= h /\ h - (h - l) = l
        BY <1>5
  <2>2. At(h - (h - l))
        BY <1>4, <2>1
  <2> HIDE DEF At
  <2> QED BY <2>1, <2>2
<1> QED BY <1>5 DEF Ancestors

\* Without an error at level m there was none before.
LEMMA FineBelow ==
  ASSUME NEW t, NEW leaf, NEW path, Len(path) \in Nat, NEW n \in Nat \ {0}, NEW i \in Nat, i < n,
         NEW m \in Nat, NEW c, c = ClimbTurns(t, leaf, i, n, path), Fine(c[m])
  PROVE  \A l \in Nat : l <= m => Fine(c[l])
<1> DEFINE Good == {k \in Nat : k <= m => Fine(c[m - k])}
<1>0. \A l \in Nat : Fine(c[l + 1]) => Fine(c[l])
      BY ClimbStates
<1>1. 0 \in Good
  <2>1. m - 0 = m
        OBVIOUS
  <2> QED BY <2>1
<1>2. ASSUME NEW k \in Nat, k \in Good PROVE k + 1 \in Good
  <2>0. k + 1 \in Nat
        OBVIOUS
  <2>1. CASE k + 1 <= m
    <3> DEFINE l == m - (k + 1)
    <3>1. l \in Nat /\ l + 1 = m - k /\ k <= m
          BY <2>1
    <3>2. Fine(c[m - k])
          BY <1>2, <3>1
    <3> HIDE DEF l
    <3>3. Fine(c[l])
          BY <1>0, <3>1, <3>2
    <3> QED BY <2>0, <3>3 DEF l
  <2>2. CASE ~(k + 1 <= m)
        BY <2>0, <2>2
  <2> QED BY <2>1, <2>2
<1>3. \A k \in Nat : k \in Good
  <2> HIDE DEF Good
  <2> QED BY <1>1, <1>2, NatSetInduction
<1>4. ASSUME NEW l \in Nat, l <= m PROVE Fine(c[l])
  <2>1. m - l \in Nat /\ m - l <= m /\ m - (m - l) = l
        BY <1>4
  <2>2. Fine(c[m - (m - l)])
        BY <1>3, <2>1
  <2> QED BY <2>1, <2>2
<1> QED BY <1>4

\* The path of a leaf is a path.
LEMMA PathIsPath ==
  ASSUME NEW t, NEW leaves, NEW i, NEW h \in Nat, NEW path, NEW g, IsPathOf(t, leaves, i, h, path, g)
  PROVE  IsPath(path)
<1>1. IsSequence(path) /\ Len(path) = g[h]
      BY DEF IsPathOf
<1>2. Covered(Len(leaves), i, g, h)
  <2>0. h <= h
        OBVIOUS
  <2> QED BY <2>0, PathPositions, Zenon
<1>3. ASSUME NEW k \in 1..Len(path) PROVE path[k] = [side |-> path[k].side, hash |-> path[k].hash]
  <2>1. PICK l \in Nat : l < h /\ HasSibling(Len(leaves), i, l) /\ k = g[l] + 1
        BY <1>1, <1>2 DEF Covered
  <2>2. path[k] = [side |-> SideOf(i, l), hash |-> SiblingOf(t, leaves, i, l)]
        BY <2>1, PathLevel
  <2> QED BY <2>2
<1> QED BY <1>1, <1>3 DEF IsPath

\* Two paths that agree step by step are equal.
LEMMA PathsEqual ==
  ASSUME NEW a, NEW b, IsPath(a), IsPath(b), Len(a) = Len(b),
         \A k \in 1..Len(a) : a[k].side = b[k].side /\ a[k].hash = b[k].hash
  PROVE  a = b
<1>1. a = [k \in 1..Len(a) |-> a[k]] /\ b = [k \in 1..Len(b) |-> b[k]]
      BY SequenceIs DEF IsPath
<1>2. ASSUME NEW k \in 1..Len(a) PROVE a[k] = b[k]
  <2>1. a[k] = [side |-> a[k].side, hash |-> a[k].hash] /\ b[k] = [side |-> b[k].side, hash |-> b[k].hash]
        BY DEF IsPath
  <2> QED BY <2>1
<1> QED BY <1>1, <1>2

\* The verifier accepts no other leaf and no other path.
LEMMA PathUnique ==
  ASSUME NEW t, NEW leaves, Len(leaves) \in Nat \ {0}, leaves # <<>>, StackLevels \in Nat,
         NEW i \in Nat, i < Len(leaves), NEW h \in Nat, h <= StackLevels, Width(Len(leaves), h) = 1,
         NEW genuine, NEW g, IsPathOf(t, leaves, i, h, genuine, g), NEW leaf, NEW path, IsPath(path),
         VerifyMerkleProof(t, leaf, i, Len(leaves), path, ReferenceRoot(t, leaves))
  PROVE  leaf = leaves[i + 1] /\ path = genuine
<1> DEFINE n == Len(leaves)
           c == ClimbTurns(t, leaf, i, n, path)
           top == Climb(t, leaf, i, n, path)
<1>1. Fine(top) /\ top.pos = Len(path) /\ top.node = ReferenceRoot(t, leaves)
  <2>1. IsClimb(top)
    <3>1. top = c[StackLevels]
          BY ClimbTop
    <3>2. Len(path) \in Nat
          BY SequenceIs DEF IsPath
    <3>3. IsClimb(c[StackLevels])
          BY <3>2, ClimbStates
    <3> QED BY <3>1, <3>3
  <2>2. top.ok /\ top.pos = Len(path) /\ top.node = ReferenceRoot(t, leaves)
        BY DEF VerifyMerkleProof
  <2> HIDE DEF top
  <2>3. top.ok \in BOOLEAN
        BY <2>1 DEF IsClimb
  <2> QED BY <2>2, <2>3 DEF Fine
<1>2. top = c[StackLevels]
      BY ClimbTop
<1>3. Len(path) \in Nat
      BY SequenceIs DEF IsPath
<1>4. AllFine(c, h) /\ Fine(c[h])
  <2>1. Fine(c[StackLevels])
        BY <1>1, <1>2
  <2> HIDE DEF c
  <2>2. c = ClimbTurns(t, leaf, i, n, path)
        BY DEF c
  <2>3. \A l \in Nat : l <= StackLevels => Fine(c[l])
        BY <1>3, <2>1, <2>2, FineBelow
  <2>4. \A l \in Nat : l <= h => l <= StackLevels
        OBVIOUS
  <2>5. h <= StackLevels
        OBVIOUS
  <2> QED BY <2>3, <2>4, <2>5 DEF AllFine
<1>5. top.pos = c[h].pos /\ top.node = c[h].node
      BY <1>3, <1>4, ClimbEnds
<1>6. c[h].node = Node(t, leaves, h, Quot(i, h)) /\ c[h].pos = Len(path)
      BY <1>1, <1>5, TopIs
<1> HIDE DEF c, top
<1>7. c = ClimbTurns(t, leaf, i, n, path)
      BY DEF c
<1>8. Positions(c, g, h)
      BY <1>3, <1>4, <1>7, ClimbPositions
<1>9. Ancestors(t, leaves, i, path, c, h)
      BY <1>3, <1>4, <1>6, <1>7, ClimbNodes
<1>10. Len(path) = Len(genuine) /\ Len(genuine) = g[h]
  <2>1. Len(genuine) = g[h]
        BY DEF IsPathOf
  <2> QED BY <1>6, <1>8, <2>1 DEF Positions
<1>11. leaf = leaves[i + 1]
  <2>1. c[0].node = leaf
        BY <1>7, ClimbStart
  <2>2. c[0].node = Node(t, leaves, 0, Quot(i, 0))
        BY <1>9 DEF Ancestors
  <2>3. Node(t, leaves, 0, Quot(i, 0)) = leaves[i + 1]
        BY QuotBase, NodeBase
  <2> QED BY <2>1, <2>2, <2>3
<1>12. Covered(n, i, g, h)
  <2>0. h <= h
        OBVIOUS
  <2> QED BY <2>0, PathPositions, Zenon
<1>13. ASSUME NEW k \in 1..Len(path)
       PROVE  path[k].side = genuine[k].side /\ path[k].hash = genuine[k].hash
  <2>1. PICK l \in Nat : l < h /\ HasSibling(n, i, l) /\ k = g[l] + 1
        BY <1>10, <1>12 DEF Covered
  <2>2. l <= h
        BY <2>1
  <2>3. genuine[k] = [side |-> SideOf(i, l), hash |-> SiblingOf(t, leaves, i, l)]
        BY <2>1, PathLevel
  <2>4. path[k].side = SideOf(i, l) /\ path[k].hash = SiblingOf(t, leaves, i, l)
    <3>1. c[l].pos + 1 = k
          BY <1>8, <2>1, <2>2 DEF Positions
    <3> QED BY <1>9, <2>1, <2>2, <3>1 DEF Ancestors
  <2> QED BY <2>3, <2>4
<1>14. IsPath(genuine)
       BY PathIsPath
<1>15. path = genuine
       BY <1>10, <1>13, <1>14, PathsEqual
<1> QED BY <1>11, <1>15

-----------------------------------------------------------------------------
(* Sidecar and verifier together *)

\* The level of the root in a sidecar.
LEMMA SidecarTop ==
  ASSUME NEW t, NEW leaves, NEW file, NEW levels, Complete(t, leaves, file, levels), StackLevels \in Nat,
         Len(levels) <= StackLevels + 1
  PROVE  /\ Holds(t, leaves, file, levels)
         /\ Len(levels) - 1 \in Nat /\ Len(levels) - 1 <= StackLevels
         /\ Width(Len(leaves), Len(levels) - 1) = 1
<1> DEFINE h == Len(levels) - 1
<1>1. levels \in Seq(Level) /\ Len(levels) > 0 /\ levels[Len(levels)].count = 1
      BY DEF Complete, Holds
<1>2. h \in Nat /\ h < Len(levels) /\ h + 1 = Len(levels) /\ h <= StackLevels
      BY <1>1
<1>3. levels[h + 1].count = Width(Len(leaves), h)
  <2> HIDE DEF h
  <2> QED BY <1>2 DEF Complete, Holds
<1> QED BY <1>1, <1>2, <1>3 DEF Complete

\* Completeness: what sidecarReader.Proof reads from the sidecar of the leaves,
\* verifyMerkleProof accepts, for each leaf of a tree of any size.
THEOREM SidecarProofAccepted ==
  ASSUME NEW t, NEW leaves, NEW file, NEW levels, Complete(t, leaves, file, levels), StackLevels \in Nat,
         Len(levels) <= StackLevels + 1, Len(leaves) \in Nat \ {0}, leaves # <<>>,
         NEW i \in Nat, i < Len(leaves)
  PROVE  /\ IsPath(SidecarPath(file, levels, i))
         /\ VerifyMerkleProof(t, leaves[i + 1], i, Len(leaves), SidecarPath(file, levels, i),
                              ReferenceRoot(t, leaves))
<1> DEFINE h == Len(levels) - 1
           path == SidecarPath(file, levels, i)
<1>1. Holds(t, leaves, file, levels) /\ h \in Nat /\ h <= StackLevels /\ Width(Len(leaves), h) = 1
      BY SidecarTop
<1>2. PICK g : IsPathOf(t, leaves, i, h, path, g)
      BY <1>1, PathIs
<1> HIDE DEF h, path
<1>3. IsPath(path)
      BY <1>1, <1>2, PathIsPath
<1>4. VerifyMerkleProof(t, leaves[i + 1], i, Len(leaves), path, ReferenceRoot(t, leaves))
      BY <1>1, <1>2, PathAccepted
<1> QED BY <1>3, <1>4 DEF path

\* Soundness: verifyMerkleProof accepts at place i, against the root of the leaves, the
\* i-th leaf only, and with the path of the sidecar only.
THEOREM OnlySidecarProofAccepted ==
  ASSUME NEW t, NEW leaves, NEW file, NEW levels, Complete(t, leaves, file, levels), StackLevels \in Nat,
         Len(levels) <= StackLevels + 1, Len(leaves) \in Nat \ {0}, leaves # <<>>,
         NEW i \in Nat, i < Len(leaves), NEW leaf, NEW path, IsPath(path),
         VerifyMerkleProof(t, leaf, i, Len(leaves), path, ReferenceRoot(t, leaves))
  PROVE  leaf = leaves[i + 1] /\ path = SidecarPath(file, levels, i)
<1> DEFINE h == Len(levels) - 1
           genuine == SidecarPath(file, levels, i)
<1>1. Holds(t, leaves, file, levels) /\ h \in Nat /\ h <= StackLevels /\ Width(Len(leaves), h) = 1
      BY SidecarTop
<1>2. PICK g : IsPathOf(t, leaves, i, h, genuine, g)
      BY <1>1, PathIs
<1> HIDE DEF h, genuine
<1>3. leaf = leaves[i + 1] /\ path = genuine
      BY <1>1, <1>2, PathUnique
<1> QED BY <1>3 DEF genuine

-----------------------------------------------------------------------------
(* The leaves of the DAG *)

\* The leaves of its first n pages, and of the first n pages of the model.
PowTo(n) == [k \in 1..n |-> LeafHash("pow", k - 1)]
TensorTo(n) == [k \in 1..n |-> LeafHash("tensor", k)]

\* What the lemmas above ask of leaves.
IsLeaves(leaves, n) ==
  /\ IsSequence(leaves) /\ Len(leaves) = n
  /\ leaves = <<>> <=> n = 0
  /\ \A k \in 1..n : leaves[k] # NoHash

\* A function on 1..n whose values are hashes is a sequence of leaves.
LEMMA LeavesAre ==
  ASSUME NEW leaves, NEW n \in Nat, leaves = [k \in 1..n |-> leaves[k]],
         \A k \in 1..n : leaves[k] # NoHash
  PROVE  IsLeaves(leaves, n)
<1>1. IsSequence(leaves) /\ Len(leaves) = n
      BY FunctionIsSequence
<1>2. leaves = <<>> <=> n = 0
  <2>1. leaves = <<>> => n = 0
    <3> HAVE leaves = <<>>
    <3>1. Len(<<>>) = 0
          OBVIOUS
    <3> QED BY <1>1, <3>1
  <2>2. n = 0 => leaves = <<>>
    <3> HAVE n = 0
    <3>1. leaves \in Seq({})
      <4>1. leaves = [k \in 1..0 |-> leaves[k]]
            OBVIOUS
      <4>2. leaves \in [1..0 -> {}]
            BY <4>1
      <4> QED BY <4>2
    <3> QED BY <1>1, <3>1
  <2> QED BY <2>1, <2>2
<1> QED BY <1>1, <1>2 DEF IsLeaves

\* The leaves of n pages, and of one page more, in the PoW tree.
LEMMA PowToIs ==
  ASSUME NEW n \in Nat
  PROVE  /\ IsLeaves(PowTo(n), n)
         /\ Extends(PowTo(n), LeafHash("pow", n), PowTo(n + 1))
<1> DEFINE a == PowTo(n)
           b == PowTo(n + 1)
<1>1. a = [k \in 1..n |-> a[k]] /\ \A k \in 1..n : a[k] = LeafHash("pow", k - 1)
      BY DEF PowTo
<1>2. /\ b = [k \in 1..(n + 1) |-> b[k]] /\ \A k \in 1..(n + 1) : b[k] = LeafHash("pow", k - 1)
      /\ n + 1 \in Nat
      BY DEF PowTo
<1> HIDE DEF a, b
<1>3. IsLeaves(a, n)
      BY <1>1, NoCollisions, LeavesAre
<1>4. IsLeaves(b, n + 1)
  <2>1. \A k \in 1..(n + 1) : b[k] # NoHash
        BY <1>2, NoCollisions
  <2> QED BY <1>2, <2>1, LeavesAre
<1>5. n + 1 \in 1..(n + 1) /\ (n + 1) - 1 = n /\ \A k \in 1..n : k \in 1..(n + 1)
      OBVIOUS
<1>6. b[n + 1] = LeafHash("pow", n) /\ \A k \in 1..n : b[k] = a[k]
      BY <1>1, <1>2, <1>5
<1>7. Extends(a, LeafHash("pow", n), b)
      BY <1>3, <1>4, <1>6 DEF IsLeaves, Extends
<1> QED BY <1>3, <1>7 DEF a, b

\* The same in the tensor tree, which starts with page 1.
LEMMA TensorToIs ==
  ASSUME NEW n \in Nat
  PROVE  /\ IsLeaves(TensorTo(n), n)
         /\ Extends(TensorTo(n), LeafHash("tensor", n + 1), TensorTo(n + 1))
<1> DEFINE a == TensorTo(n)
           b == TensorTo(n + 1)
<1>1. a = [k \in 1..n |-> a[k]] /\ \A k \in 1..n : a[k] = LeafHash("tensor", k)
      BY DEF TensorTo
<1>2. /\ b = [k \in 1..(n + 1) |-> b[k]] /\ \A k \in 1..(n + 1) : b[k] = LeafHash("tensor", k)
      /\ n + 1 \in Nat
      BY DEF TensorTo
<1> HIDE DEF a, b
<1>3. IsLeaves(a, n)
      BY <1>1, NoCollisions, LeavesAre
<1>4. IsLeaves(b, n + 1)
  <2>1. \A k \in 1..(n + 1) : b[k] # NoHash
        BY <1>2, NoCollisions
  <2> QED BY <1>2, <2>1, LeavesAre
<1>5. n + 1 \in 1..(n + 1) /\ \A k \in 1..n : k \in 1..(n + 1)
      OBVIOUS
<1>6. b[n + 1] = LeafHash("tensor", n + 1) /\ \A k \in 1..n : b[k] = a[k]
      BY <1>1, <1>2, <1>5
<1>7. Extends(a, LeafHash("tensor", n + 1), b)
      BY <1>3, <1>4, <1>6 DEF IsLeaves, Extends
<1> QED BY <1>3, <1>7 DEF a, b

\* The sizes of the manifest.
Layout ==
  /\ total \in Nat /\ model \in Nat
  /\ total <= MaxPages /\ 1 <= model /\ model <= total - 1

\* The leaves of a page file.
LEMMA DagLeaves ==
  ASSUME Layout, NEW dag
  PROVE  IsLeaves(PowLeaves(dag), total) /\ IsLeaves(TensorLeaves(dag), model)
<1> DEFINE a == PowLeaves(dag)
           b == TensorLeaves(dag)
<1>1. a = [k \in 1..total |-> a[k]] /\ \A k \in 1..total : a[k] = LeafHash("pow", dag[k - 1])
      BY DEF PowLeaves
<1>2. b = [k \in 1..model |-> b[k]] /\ \A k \in 1..model : b[k] = LeafHash("tensor", dag[ModelStart + k - 1])
      BY DEF TensorLeaves
<1> HIDE DEF a, b
<1>3. IsLeaves(a, total)
      BY <1>1, NoCollisions, LeavesAre DEF Layout
<1>4. IsLeaves(b, model)
      BY <1>2, NoCollisions, LeavesAre DEF Layout
<1> QED BY <1>3, <1>4 DEF a, b

\* The leaves of the DAG itself are those the accumulators have read.
LEMMA OwnLeaves ==
  ASSUME Layout
  PROVE  PowLeaves(Dag) = PowTo(total) /\ TensorLeaves(Dag) = TensorTo(model)
<1>1. \A k \in 1..total : Dag[k - 1] = k - 1
      BY DEF Layout, Dag, Pages
<1>2. \A k \in 1..model : ModelStart + k - 1 = k /\ Dag[k] = k
      BY DEF Layout, Dag, Pages, ModelStart
<1>3. PowLeaves(Dag) = PowTo(total)
      BY <1>1 DEF PowLeaves, PowTo
<1>4. TensorLeaves(Dag) = TensorTo(model)
  <2>1. \A k \in 1..model : Dag[ModelStart + k - 1] = k
        BY <1>2
  <2> QED BY <2>1 DEF TensorLeaves, TensorTo
<1> QED BY <1>3, <1>4

\* A sidecar that is complete for leaves, in the terms of the theorems about paths.
Serves(t, leaves, n, file, levels) ==
  /\ Complete(t, leaves, file, levels) /\ Len(levels) <= StackLevels + 1
  /\ IsLeaves(leaves, n)

\* The sidecar of a page file serves both its trees.
LEMMA SidecarServes ==
  ASSUME Layout, NEW dag
  PROVE  /\ Serves("pow", PowLeaves(dag), total, SidecarOf(dag).file, SidecarOf(dag).pow)
         /\ Serves("tensor", TensorLeaves(dag), model, SidecarOf(dag).file, SidecarOf(dag).tensor)
<1> DEFINE a == PowLeaves(dag)
           b == TensorLeaves(dag)
<1>1. IsLeaves(a, total) /\ IsLeaves(b, model)
      BY DagLeaves
<1>2. SidecarOf(dag) = Sidecar(a, b)
      BY DEF SidecarOf
<1> HIDE DEF a, b
<1>3. /\ StackLevels \in Nat /\ Pow2[StackLevels] \in Nat
      /\ total \in Nat /\ model \in Nat /\ MaxPages \in Nat /\ MaxPages < Pow2[StackLevels]
      BY ProofAssumption, PowType DEF Layout
<1>4. total <= Pow2[StackLevels] /\ model <= Pow2[StackLevels] /\ total # 0 /\ model # 0
      BY <1>3 DEF Layout
<1>5. /\ IsSequence(a) /\ IsSequence(b) /\ Len(a) # 0 /\ Len(b) # 0
      /\ Len(a) <= Pow2[StackLevels] /\ Len(b) <= Pow2[StackLevels]
      BY <1>1, <1>4 DEF IsLeaves
<1> DEFINE s == Sidecar(a, b)
<1>6. /\ Complete("pow", a, s.file, s.pow)
      /\ Complete("tensor", b, s.file, s.tensor)
      /\ Len(s.pow) <= StackLevels + 1 /\ Len(s.tensor) <= StackLevels + 1
      BY <1>3, <1>5, SidecarComplete
<1> HIDE DEF s
<1> QED BY <1>1, <1>2, <1>6 DEF Serves, s, a, b

\* A sidecar that serves a tree has its root and the levels openSidecar expects.
LEMMA ServesRoot ==
  ASSUME NEW t, NEW leaves, NEW n \in Nat \ {0}, NEW file, NEW levels, Serves(t, leaves, n, file, levels)
  PROVE  SidecarRoot(file, levels) = ReferenceRoot(t, leaves) /\ LevelsValid(levels, n)
<1>1. /\ Complete(t, leaves, file, levels) /\ Len(levels) <= StackLevels + 1
      /\ Len(leaves) = n /\ leaves # <<>> /\ StackLevels \in Nat
      BY ProofAssumption DEF Serves, IsLeaves
<1>2. Len(leaves) \in Nat \ {0}
      BY <1>1
<1>3. SidecarRoot(file, levels) = ReferenceRoot(t, leaves) /\ LevelsValid(levels, Len(leaves))
      BY <1>1, <1>2, CompleteIs
<1> QED BY <1>1, <1>3

\* Its paths are accepted (SidecarProofAccepted).
LEMMA ServesPaths ==
  ASSUME NEW t, NEW leaves, NEW n \in Nat \ {0}, NEW file, NEW levels, Serves(t, leaves, n, file, levels),
         NEW i \in Nat, i < n
  PROVE  /\ IsPath(SidecarPath(file, levels, i))
         /\ VerifyMerkleProof(t, leaves[i + 1], i, n, SidecarPath(file, levels, i), ReferenceRoot(t, leaves))
<1>1. /\ Complete(t, leaves, file, levels) /\ Len(levels) <= StackLevels + 1
      /\ Len(leaves) = n /\ leaves # <<>> /\ StackLevels \in Nat
      BY ProofAssumption DEF Serves, IsLeaves
<1>2. Len(leaves) \in Nat \ {0} /\ i < Len(leaves)
      BY <1>1
<1>3. /\ IsPath(SidecarPath(file, levels, i))
      /\ VerifyMerkleProof(t, leaves[i + 1], i, Len(leaves), SidecarPath(file, levels, i),
                           ReferenceRoot(t, leaves))
      BY <1>1, <1>2, SidecarProofAccepted
<1> QED BY <1>1, <1>3

\* Nothing but its paths is accepted (OnlySidecarProofAccepted).
LEMMA ServesOnly ==
  ASSUME NEW t, NEW leaves, NEW n \in Nat \ {0}, NEW file, NEW levels, Serves(t, leaves, n, file, levels),
         NEW i \in Nat, i < n, NEW leaf, NEW path, IsPath(path),
         VerifyMerkleProof(t, leaf, i, n, path, ReferenceRoot(t, leaves))
  PROVE  leaf = leaves[i + 1] /\ path = SidecarPath(file, levels, i)
<1>1. /\ Complete(t, leaves, file, levels) /\ Len(levels) <= StackLevels + 1
      /\ Len(leaves) = n /\ leaves # <<>> /\ StackLevels \in Nat
      BY ProofAssumption DEF Serves, IsLeaves
<1>2. Len(leaves) \in Nat \ {0} /\ i < Len(leaves)
      BY <1>1
<1>3. VerifyMerkleProof(t, leaf, i, Len(leaves), path, ReferenceRoot(t, leaves))
      BY <1>1
<1> QED BY <1>1, <1>2, <1>3, OnlySidecarProofAccepted

\* The root of an accumulator that has read n leaves.
LEMMA ReadRoot ==
  ASSUME NEW t, NEW acc, NEW leaves, NEW n \in Nat, n <= MaxPages,
         Accumulates(t, acc, leaves), IsLeaves(leaves, n)
  PROVE  AccumulatorRoot(t, acc) = ReferenceRoot(t, leaves)
<1>1. /\ Len(leaves) = n /\ (leaves = <<>> <=> Len(leaves) = 0)
      /\ \A k \in 1..Len(leaves) : leaves[k] # NoHash
      BY DEF IsLeaves
<1>2. StackLevels \in Nat /\ Len(leaves) \in Nat /\ Len(leaves) < Pow2[StackLevels]
  <2>1. StackLevels \in Nat /\ Pow2[StackLevels] \in Nat /\ MaxPages \in Nat /\ MaxPages < Pow2[StackLevels]
        BY ProofAssumption, PowType
  <2> QED BY <1>1, <2>1
<1> QED BY <1>1, <1>2, RootIs

-----------------------------------------------------------------------------
(* The inductive invariant *)

\* Tensor pages among the pages read so far: page 0 is not one, and after the last
\* model page no more are.
TensorCount ==
  IF pow.count = 0 THEN 0 ELSE IF pow.count - 1 <= model THEN pow.count - 1 ELSE model

\* The accumulators hold the pages read so far.
TreesInv ==
  /\ pow.count \in Nat /\ pow.count <= total
  /\ tensor.count = TensorCount
  /\ Accumulates("pow", pow, PowTo(pow.count))
  /\ Accumulates("tensor", tensor, TensorTo(tensor.count))

\* The phases with a proof.
Late == {"proved", "verified"}

\* No phase is "failed", and after the first one the sidecar is that of the DAG.
PhaseInv ==
  /\ phase \in {"roots", "ready", "refused", "sampling", "aborted"} \cup Late
  /\ phase # "roots" => pow.count = total /\ sidecar = SidecarOf(Dag)

\* The samples are pages of their trees.
SamplesInv == powSamples \subseteq Pages /\ tensorSamples \subseteq ModelPages

\* The shape of what arrives: any pages, each with two paths.
IsPageProof(p) ==
  /\ p = [page |-> p.page, powPath |-> p.powPath, tensorPath |-> p.tensorPath]
  /\ IsPath(p.powPath) /\ IsPath(p.tensorPath)
IsProof(q) == q = [i \in DOMAIN q |-> q[i]] /\ \A i \in DOMAIN q : IsPageProof(q[i])

\* A proof that was not replaced is the genuine one.
ProofInv ==
  /\ replaced \in BOOLEAN
  /\ phase \notin Late => ~replaced
  /\ phase \in Late => IsProof(proof) /\ (~replaced => proof = GenuineProof)

\* What Verify says of it.
VerdictInv ==
  /\ phase # "verified" => verdict = "none"
  /\ ProofAccepted
  /\ AcceptedIsGenuine

\* The inductive invariant.
IInv == Layout /\ TreesInv /\ PhaseInv /\ SamplesInv /\ ProofInv /\ VerdictInv

\* Before the DAG is read.
LEMMA InitIInv == Init => IInv
<1> SUFFICES ASSUME Init PROVE IInv
    OBVIOUS
<1>1. Layout
      BY ProofAssumption DEF Init, Layout
<1>2. TreesInv
  <2>1. pow = NewAccumulator /\ tensor = NewAccumulator
        BY DEF Init
  <2>2. NewAccumulator.count = 0
        BY DEF NewAccumulator
  <2>3. Len(PowTo(0)) = 0 /\ Len(TensorTo(0)) = 0
        BY PowToIs, TensorToIs DEF IsLeaves
  <2>4. Accumulates("pow", NewAccumulator, PowTo(0)) /\ Accumulates("tensor", NewAccumulator, TensorTo(0))
        BY <2>3, NewAccumulates
  <2>5. pow.count = 0 /\ tensor.count = 0
        BY <2>1, <2>2
  <2> QED BY <1>1, <2>1, <2>4, <2>5 DEF TreesInv, TensorCount, Layout
<1>3. PhaseInv /\ SamplesInv /\ ProofInv /\ VerdictInv
      BY DEF Init, PhaseInv, SamplesInv, ProofInv, VerdictInv, Late, ProofAccepted, AcceptedIsGenuine
<1> QED BY <1>1, <1>2, <1>3 DEF IInv

\* The roots of both trees.
LEMMA RootsAre ==
  ASSUME Layout, TreesInv
  PROVE  /\ powRoot = ReferenceRoot("pow", PowTo(pow.count))
         /\ tensorRoot = ReferenceRoot("tensor", TensorTo(tensor.count))
<1>1. /\ pow.count \in Nat /\ pow.count <= MaxPages
      /\ tensor.count \in Nat /\ tensor.count <= MaxPages
      BY ProofAssumption DEF Layout, TreesInv, TensorCount
<1>2. IsLeaves(PowTo(pow.count), pow.count) /\ IsLeaves(TensorTo(tensor.count), tensor.count)
      BY <1>1, PowToIs, TensorToIs
<1>3. Accumulates("pow", pow, PowTo(pow.count)) /\ Accumulates("tensor", tensor, TensorTo(tensor.count))
      BY DEF TreesInv
<1>4. AccumulatorRoot("pow", pow) = ReferenceRoot("pow", PowTo(pow.count))
      BY <1>1, <1>2, <1>3, ReadRoot
<1>5. AccumulatorRoot("tensor", tensor) = ReferenceRoot("tensor", TensorTo(tensor.count))
      BY <1>1, <1>2, <1>3, ReadRoot
<1> QED BY <1>4, <1>5 DEF powRoot, tensorRoot

\* Once all pages are read: the sidecar serves the trees, and the roots are theirs.
LEMMA DagRead ==
  ASSUME Layout, TreesInv, pow.count = total, NEW s, s = SidecarOf(Dag)
  PROVE  /\ total \in Nat \ {0} /\ model \in Nat \ {0}
         /\ Serves("pow", PowTo(total), total, s.file, s.pow)
         /\ Serves("tensor", TensorTo(model), model, s.file, s.tensor)
         /\ powRoot = ReferenceRoot("pow", PowTo(total))
         /\ tensorRoot = ReferenceRoot("tensor", TensorTo(model))
<1>1. tensor.count = model
      BY DEF Layout, TreesInv, TensorCount
<1>2. PowLeaves(Dag) = PowTo(total) /\ TensorLeaves(Dag) = TensorTo(model)
      BY OwnLeaves
<1>3. /\ Serves("pow", PowLeaves(Dag), total, s.file, s.pow)
      /\ Serves("tensor", TensorLeaves(Dag), model, s.file, s.tensor)
      BY SidecarServes
<1>4. total \in Nat \ {0} /\ model \in Nat \ {0}
      BY DEF Layout
<1>5. /\ powRoot = ReferenceRoot("pow", PowTo(pow.count))
      /\ tensorRoot = ReferenceRoot("tensor", TensorTo(tensor.count))
      BY RootsAre
<1> QED BY <1>1, <1>2, <1>3, <1>4, <1>5

\* A page more in an accumulator.
LEMMA OnePageMore ==
  ASSUME NEW t, NEW acc, NEW leaves, NEW leaf, NEW more, NEW n \in Nat, n < MaxPages,
         Accumulates(t, acc, leaves), Len(leaves) = n, Extends(leaves, leaf, more)
  PROVE  /\ Accumulates(t, AddLeaf(t, acc, leaf), more)
         /\ AddLeaf(t, acc, leaf).count = n + 1
<1>1. Len(more) = n + 1
      BY DEF Extends
<1>2. StackLevels \in Nat /\ Len(more) < Pow2[StackLevels]
  <2>1. StackLevels \in Nat /\ Pow2[StackLevels] \in Nat /\ MaxPages \in Nat /\ MaxPages < Pow2[StackLevels]
        BY ProofAssumption, PowType
  <2> QED BY <1>1, <2>1
<1>3. Accumulates(t, AddLeaf(t, acc, leaf), more)
      BY <1>2, AddLeafAccumulates
<1>4. AddLeaf(t, acc, leaf).count = Len(more)
  <2> DEFINE new == AddLeaf(t, acc, leaf)
  <2>1. new = [stack |-> new.stack, filled |-> new.filled, count |-> Len(more)]
        BY <1>3 DEF Accumulates
  <2> HIDE DEF new
  <2>2. new.count = Len(more)
        BY <2>1
  <2> QED BY <2>2 DEF new
<1> QED BY <1>1, <1>3, <1>4

\* The trees stay as they are.
LEMMA FrameTrees ==
  ASSUME Layout, TreesInv, UNCHANGED layout, UNCHANGED <<pow, tensor>>
  PROVE  Layout' /\ TreesInv'
<1>1. total' = total /\ model' = model /\ pow' = pow /\ tensor' = tensor
      BY DEF layout
<1> QED BY <1>1 DEF Layout, TreesInv, TensorCount

\* The page file stays as it is.
LEMMA FrameDag ==
  ASSUME UNCHANGED layout
  PROVE  SidecarOf(Dag)' = SidecarOf(Dag) /\ Pages' = Pages /\ ModelPages' = ModelPages
<1>1. total' = total /\ model' = model
      BY DEF layout
<1> QED BY <1>1 DEF SidecarOf, PowLeaves, TensorLeaves, Dag, Pages, ModelPages

\* The samples stay as they are.
LEMMA FrameSamples ==
  ASSUME SamplesInv, UNCHANGED layout, UNCHANGED samples
  PROVE  SamplesInv'
BY FrameDag DEF SamplesInv, samples

\* As long as nothing is proved.
LEMMA EarlyProof ==
  ASSUME ProofInv, VerdictInv, phase \notin Late, phase' \notin Late, UNCHANGED <<replaced, verdict>>
  PROVE  ProofInv' /\ VerdictInv'
<1>1. ~replaced /\ verdict = "none"
      BY DEF ProofInv, VerdictInv, Late
<1> QED BY <1>1 DEF ProofInv, VerdictInv, ProofAccepted, AcceptedIsGenuine, Late

\* ReadPage adds the page to the trees whose page it is.
LEMMA ReadPageIInv ==
  ASSUME IInv, ReadPage PROVE IInv'
<1>1. Layout' /\ total' = total /\ model' = model
      BY DEF IInv, Layout, ReadPage, layout
<1>2. TreesInv'
  <2> DEFINE n == pow.count
             m == tensor.count
  <2>1. n \in Nat /\ n < total /\ m = TensorCount /\ total \in Nat /\ model \in Nat /\ total <= MaxPages
        /\ 1 <= model /\ model <= total - 1 /\ MaxPages \in Nat
        BY ProofAssumption DEF IInv, TreesInv, Layout, ReadPage
  <2>2. m \in Nat /\ m <= model
        BY <2>1 DEF TensorCount
  <2>3. Accumulates("pow", pow, PowTo(n)) /\ Accumulates("tensor", tensor, TensorTo(m))
        BY DEF IInv, TreesInv
  <2>4. Len(PowTo(n)) = n /\ Extends(PowTo(n), LeafHash("pow", n), PowTo(n + 1))
    <3> HIDE DEF n
    <3> QED BY <2>1, PowToIs DEF IsLeaves
  <2>5. Len(TensorTo(m)) = m /\ Extends(TensorTo(m), LeafHash("tensor", m + 1), TensorTo(m + 1))
    <3> HIDE DEF m
    <3> QED BY <2>2, TensorToIs DEF IsLeaves
  <2>6. /\ Accumulates("pow", AddLeaf("pow", pow, LeafHash("pow", n)), PowTo(n + 1))
        /\ AddLeaf("pow", pow, LeafHash("pow", n)).count = n + 1
    <3>1. n < MaxPages
          BY <2>1
    <3> HIDE DEF n
    <3> QED BY <2>1, <2>3, <2>4, <3>1, OnePageMore
  <2>7. pow' = AddLeaf("pow", pow, LeafHash("pow", n))
        BY DEF ReadPage
  <2>8. pow'.count = n + 1 /\ Accumulates("pow", pow', PowTo(pow'.count))
        BY <2>6, <2>7
  <2>9. tensor'.count = TensorCount' /\ Accumulates("tensor", tensor', TensorTo(tensor'.count))
    <3>1. CASE n \in ModelPages
      <4>1. n = m + 1
            BY <2>1, <3>1 DEF ModelPages, ModelStart, TensorCount
      <4>2. tensor' = AddLeaf("tensor", tensor, LeafHash("tensor", m + 1))
            BY <3>1, <4>1 DEF ReadPage
      <4>3. m < MaxPages
            BY <2>1, <2>2
      <4>4. /\ Accumulates("tensor", AddLeaf("tensor", tensor, LeafHash("tensor", m + 1)), TensorTo(m + 1))
            /\ AddLeaf("tensor", tensor, LeafHash("tensor", m + 1)).count = m + 1
        <5> HIDE DEF m
        <5> QED BY <2>2, <2>3, <2>5, <4>3, OnePageMore
      <4>5. tensor'.count = m + 1 /\ Accumulates("tensor", tensor', TensorTo(tensor'.count))
            BY <4>2, <4>4
      <4>6. TensorCount' = m + 1
        <5>1. n <= model
              BY <2>1, <3>1 DEF ModelPages, ModelStart
        <5>2. pow'.count = n + 1 /\ n + 1 # 0 /\ (n + 1) - 1 = n
              BY <2>1, <2>8
        <5> HIDE DEF n, m
        <5> QED BY <1>1, <4>1, <5>1, <5>2 DEF TensorCount
      <4> QED BY <4>5, <4>6
    <3>2. CASE n \notin ModelPages
      <4>1. tensor' = tensor
            BY <3>2 DEF ReadPage
      <4>2. n = 0 \/ n > model
            BY <2>1, <3>2 DEF ModelPages, ModelStart
      <4>3. TensorCount' = m
        <5>1. pow'.count = n + 1 /\ n + 1 # 0 /\ (n + 1) - 1 = n
              BY <2>1, <2>8
        <5>2. m = IF n = 0 THEN 0 ELSE IF n - 1 <= model THEN n - 1 ELSE model
              BY <2>1 DEF TensorCount
        <5>3. TensorCount' = IF n <= model THEN n ELSE model
          <6> HIDE DEF n, m
          <6> QED BY <1>1, <5>1 DEF TensorCount
        <5> HIDE DEF n, m
        <5> QED BY <2>1, <4>2, <5>2, <5>3
      <4> QED BY <2>3, <4>1, <4>3
    <3> QED BY <3>1, <3>2
  <2>10. pow'.count \in Nat /\ pow'.count <= total'
         BY <1>1, <2>1, <2>8
  <2> QED BY <2>8, <2>9, <2>10 DEF TreesInv
<1>3. phase = "roots" /\ phase' = "roots" /\ replaced' = replaced /\ verdict' = verdict
      BY DEF ReadPage
<1>4. PhaseInv'
      BY <1>3 DEF PhaseInv
<1>5. ProofInv' /\ VerdictInv'
  <2>1. phase \notin Late /\ phase' \notin Late
        BY <1>3 DEF Late
  <2> QED BY <1>3, <2>1, EarlyProof DEF IInv
<1>6. SamplesInv'
      BY <1>1 DEF IInv, SamplesInv, ReadPage, samples, Pages, ModelPages
<1> QED BY <1>1, <1>2, <1>4, <1>5, <1>6 DEF IInv

\* BuildSidecar finds the roots equal, so it does not fail.
LEMMA BuildSidecarIInv ==
  ASSUME IInv, BuildSidecar PROVE IInv'
<1>1. UNCHANGED layout /\ UNCHANGED <<pow, tensor>> /\ UNCHANGED samples /\ UNCHANGED <<replaced, verdict>>
      BY DEF BuildSidecar
<1>2. Layout /\ TreesInv /\ pow.count = total /\ phase = "roots" /\ phase \notin Late
      BY DEF IInv, BuildSidecar, Late
<1> DEFINE s == SidecarOf(Dag)
<1>3. IF SidecarRoot(s.file, s.pow) = powRoot /\ SidecarRoot(s.file, s.tensor) = tensorRoot
      THEN sidecar' = s /\ phase' = "ready"
      ELSE phase' = "failed" /\ UNCHANGED sidecar
      BY DEF BuildSidecar
<1>4. s = SidecarOf(Dag)
      OBVIOUS
<1> HIDE DEF s
<1>5. /\ total \in Nat \ {0} /\ model \in Nat \ {0}
      /\ Serves("pow", PowTo(total), total, s.file, s.pow)
      /\ Serves("tensor", TensorTo(model), model, s.file, s.tensor)
      /\ powRoot = ReferenceRoot("pow", PowTo(total))
      /\ tensorRoot = ReferenceRoot("tensor", TensorTo(model))
      BY <1>2, <1>4, DagRead
<1>6. SidecarRoot(s.file, s.pow) = powRoot /\ SidecarRoot(s.file, s.tensor) = tensorRoot
      BY <1>5, ServesRoot
<1>7. sidecar' = s /\ phase' = "ready" /\ phase' \notin Late
      BY <1>3, <1>6 DEF Late
<1>8. PhaseInv'
  <2>1. SidecarOf(Dag)' = SidecarOf(Dag)
        BY <1>1, FrameDag
  <2>2. pow'.count = total'
        BY <1>1, <1>2 DEF layout
  <2> QED BY <1>4, <1>7, <2>1, <2>2 DEF PhaseInv
<1>9. Layout' /\ TreesInv'
      BY <1>1, <1>2, FrameTrees
<1>10. SamplesInv'
      BY <1>1, FrameSamples DEF IInv
<1>11. ProofInv' /\ VerdictInv'
      BY <1>1, <1>2, <1>7, EarlyProof DEF IInv
<1> QED BY <1>8, <1>9, <1>10, <1>11 DEF IInv

\* The sidecar stays as it is.
LEMMA FramePhase ==
  ASSUME PhaseInv, phase # "roots", phase' \in {"ready", "refused", "sampling", "aborted"} \cup Late,
         UNCHANGED layout, UNCHANGED trees
  PROVE  PhaseInv'
<1>1. SidecarOf(Dag)' = SidecarOf(Dag)
      BY FrameDag
<1> QED BY <1>1 DEF PhaseInv, trees, layout

\* Challenge finds the levels of the sidecar valid, so it does not fail.
LEMMA ChallengeIInv ==
  ASSUME IInv, NEW p \in 0..MaxSamples, NEW t \in 0..MaxSamples, Challenge(p, t) PROVE IInv'
<1>1. /\ UNCHANGED layout /\ UNCHANGED trees /\ UNCHANGED <<pow, tensor>> /\ UNCHANGED samples
      /\ UNCHANGED <<replaced, verdict>>
      BY DEF Challenge, trees
<1>2. Layout /\ TreesInv /\ PhaseInv /\ phase = "ready" /\ phase \notin Late /\ phase # "roots"
      BY DEF IInv, Challenge, Late
<1>3. pow.count = total /\ sidecar = SidecarOf(Dag)
      BY <1>2 DEF PhaseInv
<1>4. /\ total \in Nat \ {0} /\ model \in Nat \ {0}
      /\ Serves("pow", PowTo(total), total, sidecar.file, sidecar.pow)
      /\ Serves("tensor", TensorTo(model), model, sidecar.file, sidecar.tensor)
      BY <1>2, <1>3, DagRead
<1>5. LevelsValid(sidecar.pow, total) /\ LevelsValid(sidecar.tensor, model)
      BY <1>4, ServesRoot
<1>6. phase' \in {"refused", "sampling"}
      BY <1>5 DEF Challenge, SidecarValid
<1>7. PhaseInv'
      BY <1>1, <1>2, <1>6, FramePhase
<1>8. phase' \notin Late
      BY <1>6 DEF Late
<1>9. Layout' /\ TreesInv'
      BY <1>1, <1>2, FrameTrees
<1>10. SamplesInv'
      BY <1>1, FrameSamples DEF IInv
<1>11. ProofInv' /\ VerdictInv'
      BY <1>1, <1>2, <1>8, EarlyProof DEF IInv
<1> QED BY <1>7, <1>9, <1>10, <1>11 DEF IInv

\* Drawing a sample.
LEMMA DrawIInv ==
  ASSUME IInv, DrawPow \/ DrawTensor PROVE IInv'
<1>1. /\ UNCHANGED layout /\ UNCHANGED trees /\ UNCHANGED <<pow, tensor>>
      /\ UNCHANGED <<replaced, verdict>> /\ phase' = phase /\ phase = "sampling"
      BY DEF DrawPow, DrawTensor, trees
<1>2. Layout /\ TreesInv /\ PhaseInv /\ phase \notin Late /\ phase' \notin Late /\ phase # "roots"
      BY <1>1 DEF IInv, Late
<1>3. PhaseInv'
      BY <1>1, <1>2, FramePhase
<1>4. Layout' /\ TreesInv'
      BY <1>1, <1>2, FrameTrees
<1>5. ProofInv' /\ VerdictInv'
      BY <1>1, <1>2, EarlyProof DEF IInv
<1>6. SamplesInv'
  <2>1. Pages' = Pages /\ ModelPages' = ModelPages
        BY <1>1, FrameDag
  <2> QED BY <2>1 DEF IInv, SamplesInv, DrawPow, DrawTensor
<1> QED BY <1>3, <1>4, <1>5, <1>6 DEF IInv

\* A path without its last step is a path.
LEMMA ShortPath ==
  ASSUME NEW path, IsPath(path) PROVE IsPath(Front(path))
<1> DEFINE n == Len(path)
           m == IF n = 0 THEN 0 ELSE n - 1
           f == Front(path)
<1>1. n \in Nat /\ path = [k \in 1..n |-> path[k]]
      BY SequenceIs DEF IsPath
<1>3. m \in Nat /\ m <= n
      BY <1>1
<1>5. IsSequence(f) /\ Len(f) = m /\ \A k \in 1..m : f[k] = path[k]
  <2>1. PICK S : path \in Seq(S)
        BY DEF IsPath, IsSequence
  <2>2. f = SubSeq(path, 1, n - 1) /\ n - 1 \in Int
        BY <1>1 DEF Front
  <2>3. \A k \in 1..(n - 1) : path[k] \in S
        BY <1>1, <2>1
  <2>4. /\ SubSeq(path, 1, n - 1) \in Seq(S)
        /\ Len(SubSeq(path, 1, n - 1)) = IF 1 <= n - 1 THEN (n - 1) - 1 + 1 ELSE 0
        /\ \A k \in 1..((n - 1) - 1 + 1) : SubSeq(path, 1, n - 1)[k] = path[1 + k - 1]
        BY <2>2, <2>3, SubSeqProperties
  <2>5. 1..m = 1..((n - 1) - 1 + 1) /\ \A k \in 1..m : 1 + k - 1 = k
        BY <1>1
  <2>6. m = IF 1 <= n - 1 THEN (n - 1) - 1 + 1 ELSE 0
        BY <1>1
  <2>7. \A k \in 1..m : SubSeq(path, 1, n - 1)[k] = path[k]
        BY <2>4, <2>5
  <2> HIDE DEF f, m
  <2> QED BY <2>2, <2>4, <2>6, <2>7 DEF IsSequence
<1> HIDE DEF f, m
<1>6. \A k \in 1..m : k \in 1..n
      BY <1>1, <1>3
<1>7. \A k \in 1..Len(f) : f[k] = [side |-> f[k].side, hash |-> f[k].hash]
      BY <1>5, <1>6 DEF IsPath
<1> QED BY <1>5, <1>7 DEF IsPath, f

\* The empty path.
LEMMA NoPath == IsPath(<<>>)
<1>1. <<>> \in Seq({}) /\ Len(<<>>) = 0
      OBVIOUS
<1> QED BY <1>1 DEF IsPath, IsSequence

\* What ProveFiles makes of one page, with the sidecar of any page file.
LEMMA PageProofIs ==
  ASSUME Layout, SamplesInv, NEW dag, NEW s, s = SidecarOf(dag), NEW i \in Pages, NEW page
  PROVE  IsPageProof(PageProof(s, i, page))
<1>1. /\ Serves("pow", PowLeaves(dag), total, s.file, s.pow)
      /\ Serves("tensor", TensorLeaves(dag), model, s.file, s.tensor)
      BY SidecarServes
<1>2. total \in Nat \ {0} /\ model \in Nat \ {0} /\ i \in Nat /\ i < total
      BY DEF Layout, Pages
<1>3. IsPath(SidecarPath(s.file, s.pow, i))
      BY <1>1, <1>2, ServesPaths
<1>4. ASSUME i \in tensorSamples PROVE IsPath(SidecarPath(s.file, s.tensor, i - ModelStart))
  <2> DEFINE j == i - ModelStart
  <2>1. j \in Nat /\ j < model
        BY <1>2, <1>4 DEF SamplesInv, ModelPages, ModelStart
  <2> HIDE DEF j
  <2>2. IsPath(SidecarPath(s.file, s.tensor, j))
        BY <1>1, <1>2, <2>1, ServesPaths
  <2> QED BY <2>2 DEF j
<1> DEFINE a == SidecarPath(s.file, s.pow, i)
           b == IF i \in tensorSamples THEN SidecarPath(s.file, s.tensor, i - ModelStart) ELSE <<>>
<1>5. IsPath(a) /\ IsPath(b)
      BY <1>3, <1>4, NoPath
<1>6. PageProof(s, i, page) = [page |-> page, powPath |-> a, tensorPath |-> b]
      BY DEF PageProof
<1> HIDE DEF a, b
<1> QED BY <1>5, <1>6 DEF IsPageProof

\* What it makes of a set of pages.
LEMMA ProofOfIs ==
  ASSUME Layout, SamplesInv, NEW dag, NEW file, NEW s, s = SidecarOf(dag),
         NEW required, required \subseteq Pages
  PROVE  /\ IsProof(ProofOf(s, file, required))
         /\ DOMAIN ProofOf(s, file, required) = required
         /\ \A i \in required : ProofOf(s, file, required)[i] = PageProof(s, i, file[i])
<1> DEFINE q == ProofOf(s, file, required)
<1>1. q = [i \in required |-> PageProof(s, i, file[i])]
      BY DEF ProofOf
<1> HIDE DEF q
<1>2. /\ DOMAIN q = required /\ q = [i \in DOMAIN q |-> q[i]]
      /\ \A i \in required : q[i] = PageProof(s, i, file[i])
      BY <1>1
<1>3. ASSUME NEW i \in required PROVE IsPageProof(q[i])
  <2>1. i \in Pages
        OBVIOUS
  <2>2. IsPageProof(PageProof(s, i, file[i]))
        BY <2>1, PageProofIs
  <2> QED BY <1>2, <2>2
<1> QED BY <1>2, <1>3 DEF q, IsProof

\* The pages to prove are pages of the DAG.
LEMMA RequiredIs == ASSUME Layout, SamplesInv PROVE Required \subseteq Pages
BY DEF Layout, SamplesInv, Required, Pages, ModelPages, ModelStart

\* The genuine proof does not change with what it does not depend on.
LEMMA FrameGenuine ==
  ASSUME UNCHANGED layout, UNCHANGED trees, UNCHANGED samples
  PROVE  GenuineProof' = GenuineProof /\ Required' = Required
<1>1. total' = total /\ sidecar' = sidecar /\ powSamples' = powSamples /\ tensorSamples' = tensorSamples
      BY DEF layout, trees, samples
<1> QED BY <1>1 DEF GenuineProof, ProofOf, PageProof, Required, Dag, Pages

\* Prove makes the genuine proof.
LEMMA ProveIInv ==
  ASSUME IInv, Prove PROVE IInv'
<1>1. /\ UNCHANGED layout /\ UNCHANGED trees /\ UNCHANGED <<pow, tensor>> /\ UNCHANGED samples
      /\ UNCHANGED <<replaced, verdict>>
      BY DEF Prove, trees
<1>2. /\ Layout /\ TreesInv /\ PhaseInv /\ SamplesInv /\ phase = "sampling" /\ phase \notin Late
      /\ phase # "roots" /\ phase' = "proved" /\ phase' \in Late
      BY DEF IInv, Prove, Late
<1>3. sidecar = SidecarOf(Dag)
      BY <1>2 DEF PhaseInv
<1>4. PhaseInv'
      BY <1>1, <1>2, FramePhase
<1>5. Layout' /\ TreesInv'
      BY <1>1, <1>2, FrameTrees
<1>6. SamplesInv'
      BY <1>1, <1>2, FrameSamples
<1>7. ~replaced /\ verdict = "none"
      BY <1>2 DEF IInv, ProofInv, VerdictInv
<1>8. proof' = GenuineProof' /\ IsProof(proof')
  <2>1. proof' = GenuineProof /\ GenuineProof' = GenuineProof
        BY <1>1, FrameGenuine DEF Prove
  <2>2. IsProof(GenuineProof)
    <3>1. IsProof(ProofOf(sidecar, Dag, Required))
          BY <1>2, <1>3, RequiredIs, ProofOfIs
    <3> QED BY <3>1 DEF GenuineProof
  <2> QED BY <2>1, <2>2
<1>9. ProofInv'
  <2>1. replaced' \in BOOLEAN
        BY <1>1 DEF IInv, ProofInv
  <2> QED BY <1>2, <1>8, <2>1 DEF ProofInv
<1>10. VerdictInv'
      BY <1>1, <1>2, <1>7 DEF VerdictInv, ProofAccepted, AcceptedIsGenuine
<1> QED BY <1>4, <1>5, <1>6, <1>9, <1>10 DEF IInv

\* ProveFails leaves everything but the phase.
LEMMA ProveFailsIInv ==
  ASSUME IInv, ProveFails PROVE IInv'
<1>1. /\ UNCHANGED layout /\ UNCHANGED trees /\ UNCHANGED <<pow, tensor>> /\ UNCHANGED samples
      /\ UNCHANGED <<replaced, verdict>>
      BY DEF ProveFails, trees
<1>2. /\ Layout /\ TreesInv /\ PhaseInv /\ phase \notin Late /\ phase' \notin Late
      /\ phase # "roots" /\ phase' = "aborted"
      BY DEF IInv, ProveFails, Late
<1>3. PhaseInv'
      BY <1>1, <1>2, FramePhase
<1>4. Layout' /\ TreesInv'
      BY <1>1, <1>2, FrameTrees
<1>5. SamplesInv'
      BY <1>1, FrameSamples DEF IInv
<1>6. ProofInv' /\ VerdictInv'
      BY <1>1, <1>2, EarlyProof DEF IInv
<1> QED BY <1>3, <1>4, <1>5, <1>6 DEF IInv

\* A proof with another page proof in one place.
LEMMA OneReplaced ==
  ASSUME NEW f, IsProof(f), NEW k \in DOMAIN f, NEW r, IsPageProof(r), NEW q, q = [f EXCEPT ![k] = r]
  PROVE  IsProof(q)
<1>1. /\ DOMAIN q = DOMAIN f /\ q = [i \in DOMAIN q |-> q[i]]
      /\ \A i \in DOMAIN f : q[i] = IF i = k THEN r ELSE f[i]
      BY DEF IsProof
<1>2. ASSUME NEW i \in DOMAIN q PROVE IsPageProof(q[i])
      BY <1>1 DEF IsProof
<1> QED BY <1>1, <1>2 DEF IsProof

\* A page proof with another page, or with another path.
LEMMA OtherPart ==
  ASSUME NEW p, IsPageProof(p)
  PROVE  /\ \A page : IsPageProof([p EXCEPT !.page = page])
         /\ \A path : IsPath(path) => IsPageProof([p EXCEPT !.powPath = path])
<1> DEFINE a == p.powPath
           b == p.tensorPath
           c == p.page
<1>1. p = [page |-> c, powPath |-> a, tensorPath |-> b] /\ IsPath(a) /\ IsPath(b)
      BY DEF IsPageProof
<1> HIDE DEF a, b, c
<1>2. ASSUME NEW page PROVE IsPageProof([p EXCEPT !.page = page])
  <2> DEFINE r == [page |-> page, powPath |-> a, tensorPath |-> b]
  <2>1. [p EXCEPT !.page = page] = r
        BY <1>1
  <2>2. IsPageProof(r)
        BY <1>1 DEF IsPageProof
  <2> QED BY <2>1, <2>2
<1>3. ASSUME NEW path, IsPath(path) PROVE IsPageProof([p EXCEPT !.powPath = path])
  <2> DEFINE r == [page |-> c, powPath |-> path, tensorPath |-> b]
  <2>1. [p EXCEPT !.powPath = path] = r
        BY <1>1
  <2>2. IsPageProof(r)
        BY <1>1, <1>3 DEF IsPageProof
  <2> QED BY <2>1, <2>2
<1> QED BY <1>2, <1>3

\* Whatever arrives in place of the proof has the shape of one.
LEMMA ReplacementsAre ==
  ASSUME Layout, SamplesInv, sidecar = SidecarOf(Dag), proof = GenuineProof, NEW q \in Replacements
  PROVE  IsProof(q)
<1>1. Required \subseteq Pages
      BY RequiredIs
<1>2. IsProof(proof) /\ DOMAIN proof = Required
  <2>1. IsProof(ProofOf(sidecar, Dag, Required)) /\ DOMAIN ProofOf(sidecar, Dag, Required) = Required
        BY <1>1, ProofOfIs
  <2> QED BY <2>1 DEF GenuineProof
<1>3. q \in PageReplaced \cup PathReplaced \cup ProofReplaced
      BY DEF Replacements
<1>4. CASE \E k \in Pages : q = ProofOf(SidecarOf(WithAltered(k)), WithAltered(k), Required)
  <2>1. PICK k \in Pages : q = ProofOf(SidecarOf(WithAltered(k)), WithAltered(k), Required)
        BY <1>4
  <2> DEFINE dag == WithAltered(k)
             s == SidecarOf(dag)
  <2>2. s = SidecarOf(dag)
        OBVIOUS
  <2> HIDE DEF dag, s
  <2>3. IsProof(ProofOf(s, dag, Required))
        BY <1>1, <2>2, ProofOfIs
  <2> QED BY <2>1, <2>3 DEF s, dag
<1>5. ASSUME NEW k \in Required, NEW page, q = [proof EXCEPT ![k].page = page] PROVE IsProof(q)
  <2> DEFINE r == [proof[k] EXCEPT !.page = page]
  <2>2. q = [proof EXCEPT ![k] = r]
        BY <1>5
  <2>3. IsPageProof(r)
        BY <1>2, OtherPart DEF IsProof
  <2> HIDE DEF r
  <2> QED BY <1>2, <2>2, <2>3, OneReplaced
<1>6. CASE \E k \in Required, j \in Pages : q = [proof EXCEPT ![k] = PageProof(sidecar, k, j)]
  <2>1. PICK k \in Required, j \in Pages : q = [proof EXCEPT ![k] = PageProof(sidecar, k, j)]
        BY <1>6
  <2>2. k \in Pages
        BY <1>1
  <2>3. IsPageProof(PageProof(sidecar, k, j))
        BY <2>2, PageProofIs
  <2> QED BY <1>2, <2>1, <2>3, OneReplaced
<1>7. CASE \E k \in Required, j \in Pages :
             q = [proof EXCEPT ![k].powPath = SidecarPath(sidecar.file, sidecar.pow, j)]
  <2>1. PICK k \in Required, j \in Pages :
               q = [proof EXCEPT ![k].powPath = SidecarPath(sidecar.file, sidecar.pow, j)]
        BY <1>7
  <2> DEFINE path == SidecarPath(sidecar.file, sidecar.pow, j)
             r == [proof[k] EXCEPT !.powPath = path]
  <2>2. q = [proof EXCEPT ![k] = r]
        BY <2>1
  <2>3. IsPath(path)
    <3>1. Serves("pow", PowLeaves(Dag), total, sidecar.file, sidecar.pow)
          BY SidecarServes
    <3>2. total \in Nat \ {0} /\ j \in Nat /\ j < total
          BY DEF Layout, Pages
    <3> QED BY <3>1, <3>2, ServesPaths
  <2> HIDE DEF path
  <2>4. IsPageProof(r)
        BY <1>2, <2>3, OtherPart DEF IsProof
  <2> HIDE DEF r
  <2> QED BY <1>2, <2>2, <2>4, OneReplaced
<1>8. CASE \E k \in Required : q = [proof EXCEPT ![k].powPath = Front(@)]
  <2>1. PICK k \in Required : q = [proof EXCEPT ![k].powPath = Front(@)]
        BY <1>8
  <2> DEFINE path == Front(proof[k].powPath)
             r == [proof[k] EXCEPT !.powPath = path]
  <2>2. q = [proof EXCEPT ![k] = r]
        BY <2>1
  <2>3. IsPath(path)
        BY <1>2, ShortPath DEF IsProof, IsPageProof
  <2> HIDE DEF path
  <2>4. IsPageProof(r)
        BY <1>2, <2>3, OtherPart DEF IsProof
  <2> HIDE DEF r
  <2> QED BY <1>2, <2>2, <2>4, OneReplaced
<1>9. CASE \E k \in Required : q = [i \in Required \ {k} |-> proof[i]]
  <2>1. PICK k \in Required : q = [i \in Required \ {k} |-> proof[i]]
        BY <1>9
  <2>2. DOMAIN q = Required \ {k} /\ \A i \in DOMAIN q : i \in Required /\ q[i] = proof[i]
        BY <2>1
  <2>3. q = [i \in DOMAIN q |-> q[i]]
        BY <2>1
  <2> QED BY <1>2, <2>2, <2>3 DEF IsProof
<1>10. CASE \E j \in Pages : q = ProofOf(sidecar, Dag, Required \cup {j})
  <2>1. PICK j \in Pages : q = ProofOf(sidecar, Dag, Required \cup {j})
        BY <1>10
  <2> DEFINE more == Required \cup {j}
  <2>2. more \subseteq Pages
        BY <1>1
  <2> HIDE DEF more
  <2>3. IsProof(ProofOf(sidecar, Dag, more))
        BY <2>2, ProofOfIs
  <2> QED BY <2>1, <2>3 DEF more
<1>11. CASE q \in PageReplaced
  <2>1. \/ \E k \in Required : q = [proof EXCEPT ![k].page = Altered(k)]
        \/ \E k \in Required : q = [proof EXCEPT ![k].page = Retyped(k)]
        \/ \E k \in Required, j \in Pages : q = [proof EXCEPT ![k] = PageProof(sidecar, k, j)]
        BY <1>11 DEF PageReplaced
  <2> QED BY <1>5, <1>6, <2>1
<1>12. CASE q \in PathReplaced
  <2>1. \/ \E k \in Required, j \in Pages :
             q = [proof EXCEPT ![k].powPath = SidecarPath(sidecar.file, sidecar.pow, j)]
        \/ \E k \in Required : q = [proof EXCEPT ![k].powPath = Front(@)]
        BY <1>12 DEF PathReplaced
  <2> QED BY <1>7, <1>8, <2>1
<1>13. CASE q \in ProofReplaced
  <2>1. \/ \E k \in Pages : q = ProofOf(SidecarOf(WithAltered(k)), WithAltered(k), Required)
        \/ \E k \in Required : q = [i \in Required \ {k} |-> proof[i]]
        \/ \E j \in Pages : q = ProofOf(sidecar, Dag, Required \cup {j})
        BY <1>13 DEF ProofReplaced
  <2> QED BY <1>4, <1>9, <1>10, <2>1
<1> QED BY <1>3, <1>11, <1>12, <1>13

\* Replace leaves something of the shape of a proof.
LEMMA ReplaceIInv ==
  ASSUME IInv, Replace PROVE IInv'
<1>1. /\ UNCHANGED layout /\ UNCHANGED trees /\ UNCHANGED <<pow, tensor>> /\ UNCHANGED samples
      /\ phase' = phase /\ verdict' = verdict /\ replaced' = TRUE
      BY DEF Replace, trees
<1>2. /\ Layout /\ TreesInv /\ PhaseInv /\ SamplesInv /\ phase = "proved" /\ phase \in Late
      /\ phase # "roots" /\ ~replaced
      BY DEF IInv, Replace, Late
<1>3. sidecar = SidecarOf(Dag) /\ proof = GenuineProof /\ verdict = "none"
      BY <1>2 DEF IInv, PhaseInv, ProofInv, VerdictInv
<1>4. PhaseInv'
      BY <1>1, <1>2, FramePhase
<1>5. Layout' /\ TreesInv'
      BY <1>1, <1>2, FrameTrees
<1>6. SamplesInv'
      BY <1>1, <1>2, FrameSamples
<1>7. IsProof(proof')
  <2>1. proof' \in Replacements
        BY DEF Replace
  <2> QED BY <1>2, <1>3, <2>1, ReplacementsAre
<1>8. ProofInv'
      BY <1>1, <1>2, <1>7 DEF ProofInv
<1>9. VerdictInv'
      BY <1>1, <1>2, <1>3 DEF VerdictInv, ProofAccepted, AcceptedIsGenuine
<1> QED BY <1>4, <1>5, <1>6, <1>8, <1>9 DEF IInv

\* Verify accepts a page as ProveFiles sends it, and nothing else in its place.
LEMMA PageAcceptedIs ==
  ASSUME Layout, TreesInv, SamplesInv, pow.count = total, sidecar = SidecarOf(Dag),
         NEW i \in Pages, NEW p, IsPageProof(p)
  PROVE  PageAccepted(i, p) <=> p = PageProof(sidecar, i, i)
<1> DEFINE sp == SidecarPath(sidecar.file, sidecar.pow, i)
           j == i - ModelStart
           st == SidecarPath(sidecar.file, sidecar.tensor, j)
<1>1. /\ total \in Nat \ {0} /\ model \in Nat \ {0}
      /\ Serves("pow", PowTo(total), total, sidecar.file, sidecar.pow)
      /\ Serves("tensor", TensorTo(model), model, sidecar.file, sidecar.tensor)
      /\ powRoot = ReferenceRoot("pow", PowTo(total))
      /\ tensorRoot = ReferenceRoot("tensor", TensorTo(model))
      BY DagRead
<1>2. i \in Nat /\ i < total
      BY <1>1 DEF Pages
<1>3. PowTo(total)[i + 1] = LeafHash("pow", i)
  <2>1. i + 1 \in 1..total /\ (i + 1) - 1 = i
        BY <1>1, <1>2
  <2> QED BY <2>1 DEF PowTo
<1>4. ASSUME i \in tensorSamples
      PROVE  j \in Nat /\ j < model /\ TensorTo(model)[j + 1] = LeafHash("tensor", i)
  <2>1. j \in Nat /\ j < model /\ j + 1 = i /\ i \in 1..model
        BY <1>1, <1>4 DEF SamplesInv, ModelPages, ModelStart
  <2> HIDE DEF j
  <2> QED BY <2>1 DEF TensorTo
<1>5. p = [page |-> p.page, powPath |-> p.powPath, tensorPath |-> p.tensorPath]
      /\ IsPath(p.powPath) /\ IsPath(p.tensorPath)
      BY DEF IsPageProof
<1>6. PageProof(sidecar, i, i) = [page |-> i, powPath |-> sp,
                                  tensorPath |-> IF i \in tensorSamples THEN st ELSE <<>>]
      BY DEF PageProof
<1> HIDE DEF sp, st, j
<1>7. ASSUME PageAccepted(i, p) PROVE p = PageProof(sidecar, i, i)
  <2>1. VerifyMerkleProof("pow", LeafHash("pow", p.page), i, total, p.powPath, ReferenceRoot("pow", PowTo(total)))
        BY <1>1, <1>7 DEF PageAccepted
  <2>2. LeafHash("pow", p.page) = PowTo(total)[i + 1] /\ p.powPath = sp
        BY <1>1, <1>2, <1>5, <2>1, ServesOnly DEF sp
  <2>3. p.page = i
        BY <1>3, <2>2, NoCollisions
  <2>4. p.tensorPath = IF i \in tensorSamples THEN st ELSE <<>>
    <3>1. CASE i \in tensorSamples
      <4>1. VerifyMerkleProof("tensor", LeafHash("tensor", p.page), j, model, p.tensorPath,
                              ReferenceRoot("tensor", TensorTo(model)))
            BY <1>1, <1>7, <3>1 DEF PageAccepted, j
      <4>2. p.tensorPath = st
            BY <1>1, <1>4, <1>5, <3>1, <4>1, ServesOnly DEF st
      <4> QED BY <3>1, <4>2
    <3>2. CASE i \notin tensorSamples
          BY <1>7, <3>2 DEF PageAccepted
    <3> QED BY <3>1, <3>2
  <2> QED BY <1>5, <1>6, <2>2, <2>3, <2>4
<1>8. ASSUME p = PageProof(sidecar, i, i) PROVE PageAccepted(i, p)
  <2>1. p.page = i /\ p.powPath = sp /\ p.tensorPath = IF i \in tensorSamples THEN st ELSE <<>>
        BY <1>6, <1>8
  <2>2. IndexOf(p.page) = i
        BY <1>2, <2>1 DEF IndexOf
  <2>3. VerifyMerkleProof("pow", PowTo(total)[i + 1], i, total, sp, ReferenceRoot("pow", PowTo(total)))
        BY <1>1, <1>2, ServesPaths DEF sp
  <2>4. ASSUME i \in tensorSamples
        PROVE  VerifyMerkleProof("tensor", TensorTo(model)[j + 1], j, model, st,
                                 ReferenceRoot("tensor", TensorTo(model)))
        BY <1>1, <1>4, <2>4, ServesPaths DEF st
  <2>5. VerifyMerkleProof("pow", LeafHash("pow", p.page), i, total, p.powPath, powRoot)
        BY <1>1, <1>3, <2>1, <2>3
  <2>6. ASSUME i \in tensorSamples
        PROVE  VerifyMerkleProof("tensor", LeafHash("tensor", p.page), i - ModelStart, model,
                                 p.tensorPath, tensorRoot)
    <3>1. VerifyMerkleProof("tensor", LeafHash("tensor", p.page), j, model, p.tensorPath, tensorRoot)
          BY <1>1, <1>4, <2>1, <2>4, <2>6
    <3> QED BY <3>1 DEF j
  <2>7. i \notin tensorSamples => p.tensorPath = <<>>
        BY <2>1
  <2>8. ASSUME i \in tensorSamples
        PROVE  IsModelPage(p.page) /\ ShardID(p.page) = i - ModelStart
    <3>1. i \in ModelPages /\ ~(i < 0)
          BY <1>2, <2>8 DEF SamplesInv
    <3> QED BY <2>1, <2>2, <3>1 DEF IsModelPage, ShardID
  <2> QED BY <2>2, <2>5, <2>6, <2>7, <2>8 DEF PageAccepted
<1> QED BY <1>7, <1>8

\* Verify accepts the genuine proof and no other.
LEMMA VerifyIInv ==
  ASSUME IInv, VerifyBytes PROVE IInv'
<1>1. /\ UNCHANGED layout /\ UNCHANGED trees /\ UNCHANGED <<pow, tensor>> /\ UNCHANGED samples
      /\ phase' = "verified" /\ phase' \in Late /\ proof' = proof /\ replaced' = replaced
      /\ pageSize' = pageSize
      BY DEF VerifyBytes, trees, layout, Late
<1>2. /\ Layout /\ TreesInv /\ PhaseInv /\ SamplesInv /\ phase = "proved" /\ phase \in Late
      /\ phase # "roots"
      BY DEF IInv, VerifyBytes, Late
<1>3. sidecar = SidecarOf(Dag) /\ pow.count = total
      BY <1>2 DEF PhaseInv
<1>4. PhaseInv'
      BY <1>1, <1>2, FramePhase
<1>5. Layout' /\ TreesInv'
      BY <1>1, <1>2, FrameTrees
<1>6. SamplesInv'
      BY <1>1, <1>2, FrameSamples
<1>7. GenuineProof' = GenuineProof /\ Required' = Required
      BY <1>1, FrameGenuine
<1>8. replaced \in BOOLEAN /\ IsProof(proof) /\ (~replaced => proof = GenuineProof)
      BY <1>2 DEF IInv, ProofInv
<1>9. ProofInv'
      BY <1>1, <1>7, <1>8 DEF ProofInv
<1>10. Required \subseteq Pages
      BY <1>2, RequiredIs
<1>11. \A i \in Pages : Dag[i] = i
      BY DEF Dag
<1>12. /\ IsProof(GenuineProof) /\ DOMAIN GenuineProof = Required
       /\ \A i \in Required : GenuineProof[i] = PageProof(sidecar, i, i)
  <2>1. /\ IsProof(ProofOf(sidecar, Dag, Required))
        /\ DOMAIN ProofOf(sidecar, Dag, Required) = Required
        /\ \A i \in Required : ProofOf(sidecar, Dag, Required)[i] = PageProof(sidecar, i, Dag[i])
        BY <1>2, <1>3, <1>10, ProofOfIs
  <2>2. \A i \in Required : PageProof(sidecar, i, Dag[i]) = PageProof(sidecar, i, i)
        BY <1>10, <1>11
  <2> QED BY <2>1, <2>2 DEF GenuineProof
<1>13. verdict' = IF /\ ProofBytes(proof, pageSize) <= MaxProofBytes
                     /\ pageSize <= MaxPageSize
                     /\ Cardinality(DOMAIN proof) <= MaxProofPages
                     /\ DOMAIN proof = Required
                     /\ \A i \in Required : PageAccepted(i, proof[i])
                  THEN "accepted" ELSE "rejected"
      BY DEF VerifyBytes, Verify
<1>14. ASSUME NEW i \in Required, NEW q, IsProof(q), DOMAIN q = Required
       PROVE  PageAccepted(i, q[i]) <=> q[i] = PageProof(sidecar, i, i)
  <2>1. i \in Pages /\ IsPageProof(q[i])
        BY <1>10, <1>14 DEF IsProof
  <2> QED BY <1>2, <1>3, <2>1, PageAcceptedIs
<1>15. ASSUME ~replaced, WithinLimits PROVE verdict' = "accepted"
  <2>1. proof = GenuineProof
        BY <1>8, <1>15
  <2>2. DOMAIN proof = Required /\ \A i \in Required : proof[i] = PageProof(sidecar, i, i)
        BY <1>12, <2>1
  <2>3. \A i \in Required : PageAccepted(i, proof[i])
        BY <1>8, <1>14, <2>2
  <2>4. /\ ProofBytes(proof, pageSize) <= MaxProofBytes
        /\ pageSize <= MaxPageSize
        /\ Cardinality(DOMAIN proof) <= MaxProofPages
        BY <1>15, <2>1, <2>2 DEF WithinLimits
  <2> QED BY <1>13, <2>2, <2>3, <2>4
<1>16. ASSUME verdict' = "accepted" PROVE proof = GenuineProof
  <2>1. DOMAIN proof = Required /\ \A i \in Required : PageAccepted(i, proof[i])
        BY <1>13, <1>16
  <2>2. \A i \in Required : proof[i] = PageProof(sidecar, i, i)
        BY <1>8, <1>14, <2>1
  <2>3. proof = [i \in Required |-> proof[i]] /\ GenuineProof = [i \in Required |-> GenuineProof[i]]
        BY <1>8, <1>12, <2>1 DEF IsProof
  <2> QED BY <1>12, <2>2, <2>3
<1>17. VerdictInv'
  <2>0. WithinLimits' <=> WithinLimits
        BY <1>1, <1>7 DEF WithinLimits
  <2>1. ProofAccepted'
        BY <1>1, <1>15, <2>0 DEF ProofAccepted
  <2>2. AcceptedIsGenuine'
        BY <1>1, <1>7, <1>16 DEF AcceptedIsGenuine
  <2> QED BY <1>1, <2>1, <2>2 DEF VerdictInv
<1> QED BY <1>4, <1>5, <1>6, <1>9, <1>17 DEF IInv

\* A step that changes nothing.
LEMMA StutterIInv ==
  ASSUME IInv, UNCHANGED vars PROVE IInv'
<1>1. /\ UNCHANGED layout /\ UNCHANGED trees /\ UNCHANGED <<pow, tensor>> /\ UNCHANGED samples
      /\ phase' = phase /\ proof' = proof /\ replaced' = replaced /\ verdict' = verdict
      BY DEF vars, trees
<1>2. Layout /\ TreesInv /\ PhaseInv /\ SamplesInv /\ ProofInv /\ VerdictInv
      BY DEF IInv
<1>3. Layout' /\ TreesInv'
      BY <1>1, <1>2, FrameTrees
<1>4. SamplesInv'
      BY <1>1, <1>2, FrameSamples
<1>5. SidecarOf(Dag)' = SidecarOf(Dag) /\ GenuineProof' = GenuineProof /\ Required' = Required
      BY <1>1, FrameDag, FrameGenuine
<1>6. PhaseInv'
      BY <1>1, <1>2, <1>5 DEF PhaseInv, layout, trees
<1>7. ProofInv'
      BY <1>1, <1>2, <1>5 DEF ProofInv
<1>8. VerdictInv'
      BY <1>1, <1>2, <1>5 DEF VerdictInv, ProofAccepted, AcceptedIsGenuine, WithinLimits, layout
<1> QED BY <1>3, <1>4, <1>6, <1>7, <1>8 DEF IInv

\* The inductive invariant: the trees hold the pages read, the sidecar is that of the DAG, what
\* arrives has the shape of a proof, and Verify has judged it rightly.
THEOREM Invariance == Spec => []IInv
<1>1. Init => IInv
      BY InitIInv
<1>2. IInv /\ [Next]_vars => IInv'
  <2> SUFFICES ASSUME IInv, [Next]_vars PROVE IInv'
      OBVIOUS
  <2>1. CASE ReadPage
        BY <2>1, ReadPageIInv
  <2>2. CASE BuildSidecar
        BY <2>2, BuildSidecarIInv
  <2>3. CASE \E p, t \in 0..MaxSamples : Challenge(p, t)
        BY <2>3, ChallengeIInv
  <2>4. CASE DrawPow \/ DrawTensor
        BY <2>4, DrawIInv
  <2>5. CASE Prove
        BY <2>5, ProveIInv
  <2>6. CASE Replace
        BY <2>6, ReplaceIInv
  <2>7. CASE VerifyBytes
        BY <2>7, VerifyIInv
  <2>9. CASE ProveFails
        BY <2>9, ProveFailsIInv
  <2>8. CASE UNCHANGED vars
        BY <2>8, StutterIInv
  <2> QED BY <2>1, <2>2, <2>3, <2>4, <2>5, <2>6, <2>7, <2>8, <2>9 DEF Next
<1> QED BY <1>1, <1>2, PTL DEF Spec

\* RootsAgree: after every page MerkleAccumulator.Root is the root of the tree over all
\* pages read so far, for DAGs of every size.
THEOREM AccumulatorComputesRoots == Spec => []RootsAgree
<1>1. IInv => RootsAgree
  <2> SUFFICES ASSUME IInv PROVE RootsAgree
      OBVIOUS
  <2>1. /\ powRoot = ReferenceRoot("pow", PowTo(pow.count))
        /\ tensorRoot = ReferenceRoot("tensor", TensorTo(tensor.count))
        BY RootsAre DEF IInv
  <2> QED BY <2>1 DEF RootsAgree, PowTo, TensorTo
<1> QED BY <1>1, Invariance, PTL

\* SidecarMatchesRoots: buildMerkleSidecarTempFromDAG always finds the manifest's roots at the
\* top of its levels, and openSidecar the levels it expects.
THEOREM SidecarNeverRefused == Spec => []SidecarMatchesRoots
<1>1. IInv => SidecarMatchesRoots
      BY DEF IInv, PhaseInv, Late, SidecarMatchesRoots
<1> QED BY <1>1, Invariance, PTL

\* ProofAccepted: VerifyBytes accepts what ProveFiles made, whatever pages were drawn,
\* if it is within the verifier's limits on page size, pages and bytes.
THEOREM GenuineProofAccepted == Spec => []ProofAccepted
<1>1. IInv => ProofAccepted
      BY DEF IInv, VerdictInv
<1> QED BY <1>1, Invariance, PTL

\* AcceptedIsGenuine: no altered, missing, additional or misplaced page or path is accepted.
THEOREM OnlyGenuineProofAccepted == Spec => []AcceptedIsGenuine
<1>1. IInv => AcceptedIsGenuine
      BY DEF IInv, VerdictInv
<1> QED BY <1>1, Invariance, PTL
===============================================================================
