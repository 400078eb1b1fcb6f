-------------------------- MODULE CompetitionProofs --------------------------
(***************************************************************************)
(* The competition for any number of miners and jobs, any configuration    *)
(* of miners and URLs, hashes of any length and bytes of any width: what a *)
(* proposer builds is accepted, what is certified was earned, and a quorum *)
(* of miners that follow the validators' policy is not refused.            *)
(***************************************************************************)
EXTENDS Competition, SumsAndPowers

-----------------------------------------------------------------------------
(* Work hashes as numbers *)

\* Bytes have bits and hashes have bytes.
LEMMA Widths ==
  /\ ByteBits \in Nat /\ ByteBits > 0 /\ HashBytes \in Nat /\ HashBytes > 0
  /\ Bits = ByteBits * HashBytes
  BY CompetitionAssumption DEF Bits

\* The indices of a hash's bytes.
Bytes == 1..HashBytes

\* The weight of byte i.
Weight(i) == Pow2[ByteBits * (HashBytes - i)]

\* What the bytes contribute.
Terms(hash) == [i \in Bytes |-> hash[i] * Pow2[ByteBits * (HashBytes - i)]]

\* Weights are positive.
LEMMA WeightType == \A i \in Bytes : Weight(i) \in Nat /\ Weight(i) > 0
<1> SUFFICES ASSUME NEW i \in Bytes PROVE Weight(i) \in Nat /\ Weight(i) > 0
    OBVIOUS
<1>1. ByteBits * (HashBytes - i) \in Nat
  <2>1. HashBytes - i \in Nat
        BY Widths DEF Bytes
  <2>2. \A a, b \in Nat : a * b \in Nat
        OBVIOUS
  <2> QED BY <2>1, <2>2, Widths
<1> QED BY <1>1, PowType DEF Weight

\* A byte is smaller than a byte's range, and its term is a natural number.
LEMMA HashType ==
  ASSUME NEW hash \in Hashes, NEW i \in Bytes
  PROVE  /\ hash[i] \in Nat /\ hash[i] < Pow2[ByteBits]
         /\ Terms(hash)[i] = hash[i] * Weight(i)
         /\ Terms(hash)[i] \in Nat
<1>1. Pow2[ByteBits] \in Nat
      BY PowType, Widths
<1>2. hash[i] \in Nat /\ hash[i] < Pow2[ByteBits]
  <2>1. hash[i] \in 0..(Pow2[ByteBits] - 1)
        BY DEF Hashes, Bytes
  <2> QED BY <1>1, <2>1
<1>3. Terms(hash)[i] = hash[i] * Weight(i)
      BY DEF Terms, Weight
<1>4. \A a, b \in Nat : a * b \in Nat
      OBVIOUS
<1> QED BY <1>2, <1>3, <1>4, WeightType

\* A hash has finitely many bytes.
LEMMA BytesFinite == IsFiniteSet(Bytes)
  BY FS_Interval, Widths DEF Bytes

\* Sums of bytes are natural numbers.
LEMMA PartType ==
  ASSUME NEW hash \in Hashes, NEW T \in SUBSET Bytes
  PROVE  SumFunctionOnSet(Terms(hash), T) \in Nat
<1>1. \A i \in Bytes : Terms(hash)[i] \in Nat
      BY HashType
<1> HIDE DEF Terms
<1> QED BY <1>1, BytesFinite, SumNat

\* A sum of bytes, with one of them taken out.
LEMMA PartRemove ==
  ASSUME NEW hash \in Hashes, NEW T \in SUBSET Bytes, NEW i \in T
  PROVE  SumFunctionOnSet(Terms(hash), T)
           = Terms(hash)[i] + SumFunctionOnSet(Terms(hash), T \ {i})
<1>1. \A x \in Bytes : Terms(hash)[x] \in Int
      BY HashType
<1> QED BY <1>1, BytesFinite, SumRemove

\* What is below the weight of a digit cannot make up for a smaller digit.
LEMMA Carry == \A x, y, w, t \in Nat : x < y /\ t < w => x * w + t < y * w
<1> SUFFICES ASSUME NEW x \in Nat, NEW y \in Nat, NEW w \in Nat, NEW t \in Nat, x < y, t < w
             PROVE  x * w + t < y * w
    OBVIOUS
<1>1. (y - x - 1) * w >= 0
      OBVIOUS
<1>2. (y - x - 1) * w = y * w - x * w - w
      OBVIOUS
<1> QED BY <1>1, <1>2

\* The last k bytes are less than the weight of the byte before them.
LEMMA TailBound ==
  ASSUME NEW hash \in Hashes
  PROVE  \A k \in Nat : k <= HashBytes =>
           SumFunctionOnSet(Terms(hash), (HashBytes - k + 1)..HashBytes) < Pow2[ByteBits * k]
<1> DEFINE Lower(k) == (HashBytes - k + 1)..HashBytes
           Sum(k) == SumFunctionOnSet(Terms(hash), Lower(k))
           Good == {k \in Nat : k <= HashBytes => Sum(k) < Pow2[ByteBits * k]}
<1>1. 0 \in Good
  <2>1. Lower(0) = {}
        BY Widths
  <2>2. Sum(0) = 0
        BY <2>1, SumUnfolds, FS_EmptySet
  <2>3. ByteBits * 0 = 0
        BY Widths
  <2> HIDE DEF Sum
  <2> QED BY <2>2, <2>3, PowUnfolds
<1>2. ASSUME NEW k \in Nat, k \in Good PROVE k + 1 \in Good
  <2> SUFFICES ASSUME k + 1 <= HashBytes PROVE Sum(k + 1) < Pow2[ByteBits * (k + 1)]
      OBVIOUS
  <2> DEFINE i == HashBytes - k
             W == Pow2[ByteBits * k]
             B == Pow2[ByteBits]
  <2>0. i \in Bytes /\ HashBytes - i = k /\ k <= HashBytes /\ HashBytes - (k + 1) + 1 = i
        BY Widths DEF Bytes
  <2>1. Sum(k) < W
        BY <1>2, <2>0
  <2>2. /\ Lower(k + 1) \in SUBSET Bytes /\ i \in Lower(k + 1)
        /\ Lower(k + 1) \ {i} = Lower(k)
        BY <2>0, Widths DEF Bytes
  <2>3. Sum(k + 1) = Terms(hash)[i] + Sum(k)
    <3>1. Sum(k + 1) = Terms(hash)[i] + SumFunctionOnSet(Terms(hash), Lower(k + 1) \ {i})
      <4> HIDE DEF Lower, i
      <4> QED BY <2>2, PartRemove
    <3> QED BY <2>2, <3>1
  <2>4. Weight(i) = W
        BY <2>0 DEF Weight
  <2>5. hash[i] \in Nat /\ hash[i] < B /\ Terms(hash)[i] = hash[i] * W
        BY <2>0, <2>4, HashType
  <2>6. W \in Nat /\ B \in Nat
        BY <2>0, <2>4, PowType, WeightType, Widths
  <2>7. Sum(k) \in Nat
    <3>1. Lower(k) \in SUBSET Bytes
          BY <2>0, Widths DEF Bytes
    <3> QED BY <3>1, PartType
  <2>8. Pow2[ByteBits * (k + 1)] = B * W
    <3>1. ByteBits * k \in Nat
      <4>1. \A a, b \in Nat : a * b \in Nat
            OBVIOUS
      <4> QED BY <4>1, Widths
    <3>2. ByteBits * (k + 1) = ByteBits + ByteBits * k
          BY Widths
    <3> QED BY <3>1, <3>2, PowSum, Widths
  <2>9. \A x, y, w, t \in Nat : x < y /\ t < w => x * w + t < y * w
        BY Carry
  <2> HIDE DEF Sum, W, B, i
  <2> QED BY <2>1, <2>3, <2>5, <2>6, <2>7, <2>8, <2>9
<1>3. \A k \in Nat : k \in Good
  <2> HIDE DEF Good
  <2> QED BY <1>1, <1>2, NatSetInduction
<1> QED BY <1>3

\* ValueOf is the sum of the terms.
LEMMA ValueIsSum == \A hash : ValueOf(hash) = SumFunctionOnSet(Terms(hash), Bytes)
  BY DEF ValueOf, Terms, Bytes

\* The bytes before i, byte i, and the bytes after it.
LEMMA Split ==
  ASSUME NEW hash \in Hashes, NEW i \in Bytes
  PROVE  /\ ValueOf(hash) = SumFunctionOnSet(Terms(hash), 1..(i - 1)) + hash[i] * Weight(i)
                              + SumFunctionOnSet(Terms(hash), (i + 1)..HashBytes)
         /\ SumFunctionOnSet(Terms(hash), 1..(i - 1)) \in Nat
         /\ SumFunctionOnSet(Terms(hash), (i + 1)..HashBytes) \in Nat
         /\ SumFunctionOnSet(Terms(hash), (i + 1)..HashBytes) < Weight(i)
         /\ hash[i] * Weight(i) \in Nat
<1> DEFINE f == Terms(hash)
           Upper == 1..(i - 1)
           Lower == (i + 1)..HashBytes
<1>1. /\ Upper \in SUBSET Bytes /\ Lower \in SUBSET Bytes /\ Upper \cap Lower = {}
      /\ Bytes \ {i} = Upper \cup Lower
      BY Widths DEF Bytes
<1>2. SumFunctionOnSet(f, Upper) \in Nat /\ SumFunctionOnSet(f, Lower) \in Nat
  <2> HIDE DEF Upper, Lower
  <2> QED BY <1>1, PartType
<1>3. \A x \in Bytes : f[x] \in Int
      BY HashType
<1>4. SumFunctionOnSet(f, Bytes) = f[i] + SumFunctionOnSet(f, Bytes \ {i})
      BY PartRemove
<1>5. SumFunctionOnSet(f, Upper \cup Lower) = SumFunctionOnSet(f, Upper) + SumFunctionOnSet(f, Lower)
  <2> HIDE DEF f, Upper, Lower
  <2> QED BY <1>1, <1>3, BytesFinite, SumUnion
<1>6. f[i] = hash[i] * Weight(i) /\ f[i] \in Nat
      BY HashType
<1>7. SumFunctionOnSet(f, Lower) < Weight(i)
  <2>1. HashBytes - i \in Nat /\ HashBytes - i <= HashBytes /\ HashBytes - (HashBytes - i) + 1 = i + 1
        BY Widths DEF Bytes
  <2> QED BY <2>1, TailBound DEF Weight
<1>8. SumFunctionOnSet(f, Bytes \ {i}) = SumFunctionOnSet(f, Upper \cup Lower)
      BY <1>1
<1>9. ValueOf(hash) = SumFunctionOnSet(f, Bytes)
      BY ValueIsSum
<1> HIDE DEF f, Upper, Lower
<1>10. ValueOf(hash) = SumFunctionOnSet(f, Upper) + hash[i] * Weight(i) + SumFunctionOnSet(f, Lower)
      BY <1>2, <1>4, <1>5, <1>6, <1>8, <1>9
<1> QED BY <1>2, <1>6, <1>7, <1>10 DEF f, Upper, Lower

\* A hash is a natural number.
LEMMA ValueType == \A hash \in Hashes : ValueOf(hash) \in Nat
  BY ValueIsSum, PartType

\* The order of the hexadecimal strings is the order of the numbers.
LEMMA LessIsLess ==
  ASSUME NEW a \in Hashes, NEW b \in Hashes, HashLess(a, b)
  PROVE  ValueOf(a) < ValueOf(b)
<1> PICK i \in Bytes : a[i] < b[i] /\ \A k \in 1..(i - 1) : a[k] = b[k]
    BY DEF HashLess, Bytes
<1> DEFINE Upper(h) == SumFunctionOnSet(Terms(h), 1..(i - 1))
           Lower(h) == SumFunctionOnSet(Terms(h), (i + 1)..HashBytes)
<1>1. Upper(a) = Upper(b)
  <2>1. 1..(i - 1) \in SUBSET Bytes /\ \A k \in 1..(i - 1) : k \in Bytes
        BY Widths DEF Bytes
  <2>2. \A k \in 1..(i - 1) : Terms(a)[k] = Terms(b)[k]
        BY <2>1, HashType
  <2> DEFINE T == 1..(i - 1)
  <2>3. T \in SUBSET Bytes /\ \A k \in T : Terms(a)[k] = Terms(b)[k]
        BY <2>1, <2>2
  <2> HIDE DEF T
  <2>4. SumFunctionOnSet(Terms(a), T) = SumFunctionOnSet(Terms(b), T)
        BY <2>3, BytesFinite, SumSame
  <2> QED BY <2>4 DEF T
<1>2. /\ ValueOf(a) = Upper(a) + a[i] * Weight(i) + Lower(a)
      /\ ValueOf(b) = Upper(b) + b[i] * Weight(i) + Lower(b)
      /\ Upper(b) \in Nat /\ Lower(a) \in Nat /\ Lower(b) \in Nat /\ Lower(a) < Weight(i)
      BY Split
<1>3. a[i] \in Nat /\ b[i] \in Nat /\ Weight(i) \in Nat
      BY HashType, WeightType
<1>4. \A x, y, w, t \in Nat : x < y /\ t < w => x * w + t < y * w
      BY Carry
<1>5. \A x, w \in Nat : x * w \in Nat
      OBVIOUS
<1>6. a[i] * Weight(i) + Lower(a) < b[i] * Weight(i) /\ a[i] * Weight(i) \in Nat /\ b[i] * Weight(i) \in Nat
  <2> HIDE DEF Lower
  <2> QED BY <1>2, <1>3, <1>4, <1>5
<1> HIDE DEF Upper, Lower
<1> QED BY <1>1, <1>2, <1>6

\* MeetsDifficulty, which looks at bytes and bits, is the bound on the number.
LEMMA DifficultyIsBound ==
  ASSUME NEW hash \in Hashes, NEW d \in 0..(Bits - 1), MeetsDifficulty(hash, d)
  PROVE  ValueOf(hash) < Pow2[Bits - d]
<1> DEFINE q == d \div ByteBits
           r == d % ByteBits
           i == q + 1
<1>1. /\ d \in Nat /\ q \in Nat /\ r \in Nat /\ r < ByteBits /\ d = ByteBits * q + r
      /\ d < ByteBits * HashBytes
      BY Widths
<1> HIDE DEF q, r
<1>2. q < HashBytes
  <2> SUFFICES ASSUME q >= HashBytes PROVE FALSE
      BY <1>1, Widths
  <2>1. ByteBits * q >= ByteBits * HashBytes
    <3>1. \A x, y, z \in Nat : x >= y => z * x >= z * y
          OBVIOUS
    <3> QED BY <1>1, <3>1, Widths
  <2>2. ByteBits * q \in Nat /\ ByteBits * HashBytes \in Nat
    <3>1. \A x, y \in Nat : x * y \in Nat
          OBVIOUS
    <3> QED BY <1>1, <3>1, Widths
  <2> QED BY <1>1, <2>1, <2>2
<1>3. i \in Bytes /\ i - 1 = q
      BY <1>1, <1>2, Widths DEF Bytes
<1>4. /\ \A k \in Bytes : d - ByteBits * (k - 1) >= ByteBits => hash[k] = 0
      /\ \A k \in Bytes : d - ByteBits * (k - 1) \in 1..(ByteBits - 1)
           => hash[k] \div Pow2[ByteBits - (d - ByteBits * (k - 1))] = 0
      BY DEF MeetsDifficulty, Bytes
<1>5. SumFunctionOnSet(Terms(hash), 1..(i - 1)) = 0
  <2> DEFINE T == 1..(i - 1)
  <2>1. T \in SUBSET Bytes
        BY <1>1, <1>3, Widths DEF Bytes
  <2>2. ASSUME NEW k \in T PROVE Terms(hash)[k] = 0
    <3>1. k \in Bytes /\ k \in Nat /\ k >= 1 /\ q - k \in Nat
          BY <1>1, <1>3, <2>1
    <3>2. d - ByteBits * (k - 1) = ByteBits * (q - k) + ByteBits + r
      <4>1. \A x, y, z \in Int : z * x - z * (y - 1) = z * (x - y) + z
            OBVIOUS
      <4>2. ByteBits * q - ByteBits * (k - 1) = ByteBits * (q - k) + ByteBits
            BY <1>1, <3>1, <4>1, Widths
      <4>3. ByteBits * q \in Int /\ ByteBits * (k - 1) \in Int
        <5>1. \A x, y \in Int : x * y \in Int
              OBVIOUS
        <5> QED BY <1>1, <3>1, <5>1, Widths
      <4> QED BY <1>1, <3>1, <4>2, <4>3, Widths
    <3>3. ByteBits * (q - k) \in Nat
      <4>1. \A x, y \in Nat : x * y \in Nat
            OBVIOUS
      <4> QED BY <3>1, <4>1, Widths
    <3>4. d - ByteBits * (k - 1) >= ByteBits
          BY <1>1, <3>2, <3>3, Widths
    <3>5. hash[k] = 0
          BY <1>4, <3>1, <3>4
    <3> QED BY <3>1, <3>5, HashType, WeightType
  <2>3. IsFiniteSet(T)
        BY <2>1, BytesFinite, FS_Subset
  <2> HIDE DEF T
  <2>4. SumFunctionOnSet(Terms(hash), T) = 0
        BY <2>2, <2>3, SumZero
  <2> QED BY <2>4 DEF T
<1>6. hash[i] \in Nat /\ hash[i] < Pow2[ByteBits - r]
  <2>1. hash[i] \in Nat /\ hash[i] < Pow2[ByteBits]
        BY <1>3, HashType
  <2>2. d - ByteBits * (i - 1) = r
    <3>1. ByteBits * q \in Int
      <4>1. \A x, y \in Int : x * y \in Int
            OBVIOUS
      <4> QED BY <1>1, <4>1, Widths
    <3> QED BY <1>1, <1>3, <3>1
  <2>3. CASE r = 0
    <3>1. ByteBits - r = ByteBits
          BY <2>3, Widths
    <3> QED BY <2>1, <3>1
  <2>4. CASE r # 0
    <3>1. hash[i] \div Pow2[ByteBits - r] = 0
      <4>1. r \in 1..(ByteBits - 1)
            BY <1>1, <2>4, Widths
      <4>2. d - ByteBits * (i - 1) \in 1..(ByteBits - 1)
            BY <2>2, <4>1
      <4>3. hash[i] \div Pow2[ByteBits - (d - ByteBits * (i - 1))] = 0
        <5> HIDE DEF i
        <5> QED BY <1>3, <1>4, <4>2
      <4> QED BY <2>2, <4>3
    <3>2. Pow2[ByteBits - r] \in Nat /\ Pow2[ByteBits - r] > 0
          BY <1>1, PowType, Widths
    <3>3. \A x, y \in Nat : y > 0 /\ x \div y = 0 => x < y
          OBVIOUS
    <3> QED BY <2>1, <3>1, <3>2, <3>3
  <2> QED BY <2>3, <2>4
<1>7. Pow2[ByteBits - r] * Weight(i) = Pow2[Bits - d]
  <2>1. ByteBits - r \in Nat /\ HashBytes - i \in Nat
        BY <1>1, <1>2, Widths
  <2>2. ByteBits * (HashBytes - i) \in Nat
    <3>1. \A x, y \in Nat : x * y \in Nat
          OBVIOUS
    <3> QED BY <2>1, <3>1, Widths
  <2>3. Bits - d = (ByteBits - r) + ByteBits * (HashBytes - i)
    <3>1. \A b, n, x, y \in Int : b * n - (b * x + y) = (b - y) + b * (n - (x + 1))
          OBVIOUS
    <3> QED BY <1>1, <3>1, Widths
  <2> QED BY <2>1, <2>2, <2>3, PowSum DEF Weight
<1>8. /\ ValueOf(hash) = SumFunctionOnSet(Terms(hash), 1..(i - 1)) + hash[i] * Weight(i)
                              + SumFunctionOnSet(Terms(hash), (i + 1)..HashBytes)
      /\ SumFunctionOnSet(Terms(hash), (i + 1)..HashBytes) \in Nat
      /\ SumFunctionOnSet(Terms(hash), (i + 1)..HashBytes) < Weight(i)
      /\ hash[i] * Weight(i) \in Nat
  <2> HIDE DEF i
  <2> QED BY <1>3, Split
<1>9. \A x, y, w, t \in Nat : x < y /\ t < w => x * w + t < y * w
      BY Carry
<1>10. Weight(i) \in Nat /\ Pow2[ByteBits - r] \in Nat
      BY <1>1, <1>3, WeightType, PowType, Widths
<1> HIDE DEF i
<1>11. hash[i] * Weight(i) + SumFunctionOnSet(Terms(hash), (i + 1)..HashBytes)
         < Pow2[ByteBits - r] * Weight(i)
      BY <1>6, <1>8, <1>9, <1>10
<1> QED BY <1>5, <1>7, <1>8, <1>11

-----------------------------------------------------------------------------
(* Order *)

\* A number of a set is preceded by fewer of them than a greater one.
LEMMA RankGrows ==
  ASSUME NEW S, IsFiniteSet(S), S \subseteq Int, NEW x \in S
  PROVE  /\ Cardinality({y \in S : y < x}) \in 0..(Cardinality(S) - 1)
         /\ \A z \in S : x < z => Cardinality({y \in S : y < x}) < Cardinality({y \in S : y < z})
<1> DEFINE Less(a) == {y \in S : y < a}
<1>1. \A a : IsFiniteSet(Less(a)) /\ Cardinality(Less(a)) \in Nat
      BY FS_Subset, FS_CardinalityType
<1>2. Cardinality(S) \in Nat
      BY FS_CardinalityType
<1>3. Cardinality(Less(x)) < Cardinality(S)
  <2>1. Less(x) \in SUBSET S /\ x \notin Less(x)
        OBVIOUS
  <2>2. Cardinality(Less(x)) <= Cardinality(S) /\ Cardinality(Less(x)) # Cardinality(S)
    <3> HIDE DEF Less
    <3> QED BY <2>1, FS_Subset
  <2> HIDE DEF Less
  <2> QED BY <1>1, <1>2, <2>2
<1>4. ASSUME NEW z \in S, x < z PROVE Cardinality(Less(x)) < Cardinality(Less(z))
  <2>1. Less(x) \in SUBSET Less(z) /\ x \in Less(z) /\ x \notin Less(x)
    <3>1. \A y \in S : y < x => y < z
          BY <1>4
    <3>2. ~(x < x)
          OBVIOUS
    <3> QED BY <1>4, <3>1, <3>2, Zenon
  <2>2. Cardinality(Less(x)) <= Cardinality(Less(z)) /\ Cardinality(Less(x)) # Cardinality(Less(z))
    <3> HIDE DEF Less
    <3> QED BY <1>1, <2>1, FS_Subset
  <2>3. Cardinality(Less(x)) \in Nat /\ Cardinality(Less(z)) \in Nat
        BY <1>1
  <2> HIDE DEF Less
  <2> QED BY <2>2, <2>3
<1>5. Cardinality(Less(x)) \in Nat
      BY <1>1
<1>6. Cardinality(Less(x)) \in 0..(Cardinality(S) - 1)
  <2> HIDE DEF Less
  <2> QED BY <1>2, <1>3, <1>5
<1> QED BY <1>4, <1>6

\* InOrder lists every number of the set once.
LEMMA InOrderLists ==
  ASSUME NEW S, IsFiniteSet(S), S \subseteq Int
  PROVE  /\ InOrder(S) \in [1..Cardinality(S) -> S]
         /\ \A x \in S : \E k \in 1..Cardinality(S) : InOrder(S)[k] = x
         /\ \A i, k \in 1..Cardinality(S) : InOrder(S)[i] = InOrder(S)[k] => i = k
<1> DEFINE n == Cardinality(S)
           Rank(x) == Cardinality({y \in S : y < x})
           r == [x \in S |-> Rank(x)]
           D == 0..(n - 1)
<1>0. n \in Nat
      BY FS_CardinalityType
<1>1. \A x \in S : Rank(x) \in D /\ \A z \in S : x < z => Rank(x) < Rank(z)
      BY RankGrows
<1>2. \A x, z \in S : Rank(x) = Rank(z) => x = z
  <2> SUFFICES ASSUME NEW x \in S, NEW z \in S, Rank(x) = Rank(z), x # z PROVE FALSE
      OBVIOUS
  <2>1. Rank(x) \in Int
        BY <1>0, <1>1
  <2>2. x < z \/ z < x
        OBVIOUS
  <2>3. Rank(x) < Rank(z) \/ Rank(z) < Rank(x)
    <3> HIDE DEF Rank
    <3> QED BY <1>1, <2>2
  <2> HIDE DEF Rank
  <2> QED BY <2>1, <2>3
<1>3. r \in Injection(S, D)
  <2> HIDE DEF Rank, D
  <2> QED BY <1>1, <1>2 DEF Injection, IsInjective
<1>4. IsFiniteSet(D) /\ Cardinality(D) = n
  <2> HIDE DEF n
  <2>1. 0 \in Int /\ n - 1 \in Int
        BY <1>0
  <2>2. IsFiniteSet(D) /\ Cardinality(D) = IF 0 > n - 1 THEN 0 ELSE (n - 1) - 0 + 1
        BY <2>1, FS_Interval
  <2>3. n = IF 0 > n - 1 THEN 0 ELSE (n - 1) - 0 + 1
        BY <1>0
  <2> QED BY <2>2, <2>3
<1>5. r \in Surjection(S, D)
  <2> HIDE DEF r, D
  <2> QED BY <1>3, <1>4, FS_Injection
<1>6. \A k \in 1..n : \E x \in S : Rank(x) = k - 1
  <2> SUFFICES ASSUME NEW k \in 1..n PROVE \E x \in S : Rank(x) = k - 1
      OBVIOUS
  <2>1. k - 1 \in D
        BY <1>0
  <2>2. \E x \in S : r[x] = k - 1
    <3> HIDE DEF r, D
    <3> QED BY <1>5, <2>1 DEF Surjection
  <2> QED BY <2>2
<1>7. \A k \in 1..n : InOrder(S)[k] \in S /\ Rank(InOrder(S)[k]) = k - 1
      BY <1>6 DEF InOrder
<1>8. InOrder(S) \in [1..n -> S]
      BY <1>6 DEF InOrder
<1>9. ASSUME NEW x \in S PROVE \E k \in 1..n : InOrder(S)[k] = x
  <2>1. Rank(x) + 1 \in 1..n /\ (Rank(x) + 1) - 1 = Rank(x)
    <3>1. Rank(x) \in D
          BY <1>1
    <3> HIDE DEF Rank, n
    <3> QED BY <1>0, <3>1
  <2>2. InOrder(S)[Rank(x) + 1] \in S /\ Rank(InOrder(S)[Rank(x) + 1]) = Rank(x)
    <3> HIDE DEF Rank, n
    <3> QED BY <1>7, <2>1
  <2>3. InOrder(S)[Rank(x) + 1] = x
    <3> HIDE DEF Rank, n
    <3> QED BY <1>2, <2>2
  <2> QED BY <2>1, <2>3
<1>10. ASSUME NEW i \in 1..n, NEW k \in 1..n, InOrder(S)[i] = InOrder(S)[k] PROVE i = k
  <2>1. i - 1 = k - 1
    <3> HIDE DEF Rank, n
    <3> QED BY <1>7, <1>10
  <2> QED BY <1>0, <2>1
<1> QED BY <1>8, <1>9, <1>10

\* What is kept of a sequence is a sequence.
LEMMA KeptType ==
  ASSUME NEW T, NEW s \in Seq(T), NEW I \in SUBSET DOMAIN s
  PROVE  Kept(s, I) \in Seq(T)
<1>1. IsFiniteSet(I) /\ I \subseteq Int
  <2>1. DOMAIN s = 1..Len(s) /\ Len(s) \in Nat
        OBVIOUS
  <2>2. IsFiniteSet(1..Len(s))
        BY <2>1, FS_Interval
  <2>3. IsFiniteSet(I)
        BY <2>1, <2>2, FS_Subset
  <2> QED BY <2>1, <2>3
<1>2. InOrder(I) \in [1..Cardinality(I) -> I] /\ Cardinality(I) \in Nat
      BY <1>1, InOrderLists, FS_CardinalityType
<1>3. \A k \in 1..Cardinality(I) : s[InOrder(I)[k]] \in T
      BY <1>2
<1>4. Kept(s, I) \in [1..Cardinality(I) -> T]
      BY <1>3 DEF Kept
<1> HIDE DEF Kept
<1> QED BY <1>2, <1>4

\* What is kept is what is at the indices, each once.
LEMMA KeptLists ==
  ASSUME NEW T, NEW s \in Seq(T), NEW I \in SUBSET DOMAIN s
  PROVE  /\ DOMAIN Kept(s, I) = 1..Cardinality(I) /\ Len(Kept(s, I)) = Cardinality(I)
         /\ \A k \in 1..Cardinality(I) : InOrder(I)[k] \in I /\ Kept(s, I)[k] = s[InOrder(I)[k]]
         /\ \A i \in I : \E k \in 1..Cardinality(I) : Kept(s, I)[k] = s[i]
         /\ \A k, m \in 1..Cardinality(I) : InOrder(I)[k] = InOrder(I)[m] => k = m
<1>1. IsFiniteSet(I) /\ I \subseteq Int
  <2>1. DOMAIN s = 1..Len(s) /\ Len(s) \in Nat
        OBVIOUS
  <2>2. IsFiniteSet(1..Len(s))
        BY <2>1, FS_Interval
  <2>3. IsFiniteSet(I)
        BY <2>1, <2>2, FS_Subset
  <2> QED BY <2>1, <2>3
<1>2. Cardinality(I) \in Nat
      BY <1>1, FS_CardinalityType
<1>3. /\ InOrder(I) \in [1..Cardinality(I) -> I]
      /\ \A x \in I : \E k \in 1..Cardinality(I) : InOrder(I)[k] = x
      /\ \A k, m \in 1..Cardinality(I) : InOrder(I)[k] = InOrder(I)[m] => k = m
      BY <1>1, InOrderLists
<1>4. /\ DOMAIN Kept(s, I) = 1..Cardinality(I)
      /\ \A k \in 1..Cardinality(I) : Kept(s, I)[k] = s[InOrder(I)[k]]
      BY DEF Kept
<1>5. Len(Kept(s, I)) = Cardinality(I)
      BY <1>2 DEF Kept
<1> QED BY <1>3, <1>4, <1>5

\* Hashes that differ are ordered.
LEMMA HashTotal ==
  ASSUME NEW a \in Hashes, NEW b \in Hashes, a # b
  PROVE  HashLess(a, b) \/ HashLess(b, a)
<1> DEFINE Same == {n \in Nat : \A k \in Bytes : k <= n => a[k] = b[k]}
<1>1. SUFFICES ASSUME ~HashLess(a, b), ~HashLess(b, a) PROVE FALSE
      OBVIOUS
<1>2. 0 \in Same
      BY Widths DEF Bytes
<1>3. ASSUME NEW n \in Nat, n \in Same PROVE n + 1 \in Same
  <2> SUFFICES ASSUME NEW k \in Bytes, k <= n + 1 PROVE a[k] = b[k]
      OBVIOUS
  <2>1. CASE k <= n
        BY <1>3, <2>1
  <2>2. CASE k = n + 1
    <3>1. \A i \in 1..(k - 1) : a[i] = b[i]
      <4>1. \A i \in 1..(k - 1) : i \in Bytes /\ i <= n
            BY <2>2, Widths DEF Bytes
      <4> QED BY <1>3, <4>1
    <3>2. ~(a[k] < b[k]) /\ ~(b[k] < a[k])
          BY <1>1, <3>1 DEF HashLess, Bytes
    <3>3. a[k] \in Nat /\ b[k] \in Nat
          BY HashType
    <3> QED BY <3>2, <3>3
  <2> QED BY <2>1, <2>2 DEF Bytes
<1>4. \A n \in Nat : n \in Same
  <2> HIDE DEF Same
  <2> QED BY <1>2, <1>3, NatSetInduction
<1>5. \A k \in Bytes : a[k] = b[k]
  <2>1. \A k \in Bytes : k <= HashBytes /\ HashBytes \in Same
        BY <1>4, Widths DEF Bytes
  <2> QED BY <2>1
<1>6. a = [k \in Bytes |-> a[k]] /\ b = [k \in Bytes |-> b[k]]
      BY DEF Hashes, Bytes
<1> QED BY <1>5, <1>6

-----------------------------------------------------------------------------
(* Tickets *)

Result == [job : Jobs, manifest : 1..2, zkml : BOOLEAN, sound : BOOLEAN]

Ticket == [miner : Nodes, height : Nat, parent : Jobs \cup {GenesisHash}, job : Jobs,
           result : Result, difficulty : 0..(Bits - 1), manifest : 1..2, samples : 0..2,
           zkml : BOOLEAN, work : Hashes]

\* No miner has two tickets.
Distinct(tickets) ==
  \A i, k \in DOMAIN tickets : tickets[i].miner = tickets[k].miner => i = k

\* Miners are numbers and their work is a hash.
LEMMA MinersAreInts == \A t \in Ticket : t.miner \in Int /\ t.work \in Hashes
  BY CompetitionAssumption DEF Ticket, Nodes

\* SelectWinner's order: by the number, then by the miner.
LEMMA BeforeIsOrder ==
  ASSUME NEW s \in Ticket, NEW t \in Ticket
  PROVE  /\ Before(s, t) <=> \/ ValueOf(s.work) < ValueOf(t.work)
                             \/ ValueOf(s.work) = ValueOf(t.work) /\ s.miner < t.miner
         /\ ValueOf(s.work) \in Nat /\ ValueOf(t.work) \in Nat
<1> DEFINE a == s.work
           b == t.work
<1>1. a \in Hashes /\ b \in Hashes
      BY MinersAreInts
<1>2. ValueOf(a) \in Nat /\ ValueOf(b) \in Nat
      BY <1>1, ValueType
<1>3. Before(s, t) <=> HashLess(a, b) \/ (a = b /\ s.miner < t.miner)
      BY DEF Before
<1> HIDE DEF a, b
<1>4. HashLess(a, b) => ValueOf(a) < ValueOf(b)
      BY <1>1, LessIsLess
<1>5. HashLess(b, a) => ValueOf(b) < ValueOf(a)
      BY <1>1, LessIsLess
<1>6. a = b \/ HashLess(a, b) \/ HashLess(b, a)
      BY <1>1, HashTotal
<1>7. Before(s, t) <=> \/ ValueOf(a) < ValueOf(b)
                       \/ ValueOf(a) = ValueOf(b) /\ s.miner < t.miner
  <2>1. CASE a = b
    <3>1. ~HashLess(a, b)
          BY <1>2, <1>4, <2>1
    <3> QED BY <1>2, <1>3, <2>1, <3>1
  <2>2. CASE a # b /\ HashLess(a, b)
        BY <1>2, <1>3, <1>4, <2>2
  <2>3. CASE a # b /\ HashLess(b, a)
    <3>1. ~HashLess(a, b)
          BY <1>2, <1>4, <1>5, <2>3
    <3> QED BY <1>2, <1>3, <1>5, <2>3, <3>1
  <2> QED BY <1>6, <2>1, <2>2, <2>3
<1> QED BY <1>2, <1>7 DEF a, b

\* It is a strict order, total on the tickets of different miners.
LEMMA BeforeOrders ==
  ASSUME NEW s \in Ticket, NEW t \in Ticket, NEW u \in Ticket
  PROVE  /\ Before(s, t) => ~Before(t, s)
         /\ Before(s, t) /\ Before(t, u) => Before(s, u)
         /\ s.miner # t.miner => Before(s, t) \/ Before(t, s)
<1> DEFINE V(x) == ValueOf(x.work)
<1>1. /\ Before(s, t) <=> V(s) < V(t) \/ (V(s) = V(t) /\ s.miner < t.miner)
      /\ Before(t, s) <=> V(t) < V(s) \/ (V(t) = V(s) /\ t.miner < s.miner)
      /\ Before(t, u) <=> V(t) < V(u) \/ (V(t) = V(u) /\ t.miner < u.miner)
      /\ Before(s, u) <=> V(s) < V(u) \/ (V(s) = V(u) /\ s.miner < u.miner)
      BY BeforeIsOrder
<1>2. V(s) \in Nat /\ V(t) \in Nat /\ V(u) \in Nat
      BY BeforeIsOrder
<1>3. s.miner \in Int /\ t.miner \in Int /\ u.miner \in Int
      BY MinersAreInts
<1> DEFINE ms == s.miner
           mt == t.miner
           mu == u.miner
<1> HIDE DEF V, ms, mt, mu
<1> QED BY <1>1, <1>2, <1>3 DEF ms, mt, mu

\* Among finitely many tickets of different miners one comes first.
LEMMA BestExists ==
  ASSUME NEW X, IsFiniteSet(X), X \subseteq Ticket,
         \A s, t \in X : s.miner = t.miner => s = t
  PROVE  \A T \in SUBSET X : T # {} => \E w \in T : \A t \in T : t # w => Before(w, t)
<1> DEFINE Good == {T \in SUBSET X : T # {} => \E w \in T : \A t \in T : t # w => Before(w, t)}
<1>1. ASSUME NEW T \in SUBSET X, \A U \in SUBSET T : U # T => U \in Good
      PROVE  T \in Good
  <2> SUFFICES ASSUME T # {} PROVE \E w \in T : \A t \in T : t # w => Before(w, t)
      OBVIOUS
  <2> PICK x \in T : TRUE
      OBVIOUS
  <2>1. CASE T = {x}
        BY <2>1
  <2>2. CASE T # {x}
    <3>1. T \ {x} \in Good /\ T \ {x} # {}
      <4>1. T \ {x} \in SUBSET T /\ T \ {x} # T
            OBVIOUS
      <4>2. T \ {x} # {}
            BY <2>2
      <4> HIDE DEF Good
      <4> QED BY <1>1, <4>1, <4>2
    <3> PICK w \in T \ {x} : \A t \in T \ {x} : t # w => Before(w, t)
        BY <3>1
    <3>2. CASE Before(w, x)
          BY <3>2
    <3>3. CASE ~Before(w, x)
      <4>1. Before(x, w)
        <5>1. x \in Ticket /\ w \in Ticket /\ x.miner # w.miner
              OBVIOUS
        <5> QED BY <3>3, <5>1, BeforeOrders
      <4>2. \A t \in T : t # x => Before(x, t)
        <5> SUFFICES ASSUME NEW t \in T, t # x PROVE Before(x, t)
            OBVIOUS
        <5>1. x \in Ticket /\ w \in Ticket /\ t \in Ticket
              OBVIOUS
        <5>2. t = w \/ Before(w, t)
              OBVIOUS
        <5> QED BY <4>1, <5>1, <5>2, BeforeOrders
      <4> QED BY <4>2
    <3> QED BY <3>2, <3>3
  <2> QED BY <2>1, <2>2
<1>2. \A T \in SUBSET X : T \in Good
  <2> HIDE DEF Good
  <2> QED BY <1>1, FiniteInduction
<1> QED BY <1>2

\* Tickets of different miners are as many as the miners.
LEMMA TicketSets ==
  ASSUME NEW tickets \in Seq(Ticket), Distinct(tickets)
  PROVE  /\ IsFiniteSet(ToSet(tickets)) /\ ToSet(tickets) \subseteq Ticket
         /\ \A s, t \in ToSet(tickets) : s.miner = t.miner => s = t
         /\ IsFiniteSet({t.miner : t \in ToSet(tickets)})
         /\ Cardinality({t.miner : t \in ToSet(tickets)}) = Len(tickets)
<1> DEFINE D == 1..Len(tickets)
           M == {t.miner : t \in ToSet(tickets)}
           f == [i \in D |-> tickets[i].miner]
           g == [i \in D |-> tickets[i]]
<1>1. DOMAIN tickets = D /\ Len(tickets) \in Nat /\ \A i \in D : tickets[i] \in Ticket
      OBVIOUS
<1>2. IsFiniteSet(D) /\ Cardinality(D) = Len(tickets)
  <2>1. 1 \in Int /\ Len(tickets) \in Int
        BY <1>1
  <2>2. IsFiniteSet(D) /\ Cardinality(D) = IF 1 > Len(tickets) THEN 0 ELSE Len(tickets) - 1 + 1
        BY <2>1, FS_Interval
  <2> QED BY <1>1, <2>2
<1>3. ToSet(tickets) = {tickets[i] : i \in D}
      BY <1>1 DEF ToSet
<1>4. \A i, k \in D : tickets[i].miner = tickets[k].miner => i = k
      BY <1>1 DEF Distinct
<1> HIDE DEF D
<1>5. g \in Surjection(D, ToSet(tickets))
      BY <1>3 DEF Surjection
<1>6. IsFiniteSet(ToSet(tickets))
  <2> HIDE DEF g
  <2> QED BY <1>2, <1>5, FS_Surjection
<1>7. f \in Surjection(D, M)
      BY <1>3 DEF Surjection
<1>8. f \in Injection(D, M)
  <2>1. f \in [D -> M]
        BY <1>3
  <2>2. \A i, k \in D : f[i] = f[k] => i = k
        BY <1>4
  <2> HIDE DEF f, M
  <2> QED BY <2>1, <2>2 DEF Injection, IsInjective
<1>9. IsFiniteSet(M) /\ Cardinality(M) = Len(tickets)
  <2> HIDE DEF f, M
  <2> QED BY <1>2, <1>7, <1>8, FS_Surjection
<1> QED BY <1>1, <1>3, <1>4, <1>6, <1>9

\* SelectWinner returns the ticket that comes before all others.
LEMMA WinnerIsBest ==
  ASSUME NEW tickets \in Seq(Ticket), Len(tickets) > 0, Distinct(tickets)
  PROVE  /\ SelectWinner(tickets) \in ToSet(tickets)
         /\ \A t \in ToSet(tickets) : t # SelectWinner(tickets) => Before(SelectWinner(tickets), t)
<1> DEFINE X == ToSet(tickets)
           First(i) == /\ \A k \in DOMAIN tickets : ~Before(tickets[k], tickets[i])
                       /\ \A k \in 1..(i - 1) : Before(tickets[i], tickets[k])
<1>1. /\ IsFiniteSet(X) /\ X \subseteq Ticket
      /\ \A s, t \in X : s.miner = t.miner => s = t
      BY TicketSets
<1>2. DOMAIN tickets = 1..Len(tickets) /\ Len(tickets) \in Nat
      OBVIOUS
<1>3. X # {} /\ \A i \in DOMAIN tickets : tickets[i] \in X
      BY <1>2 DEF ToSet
<1>4. PICK w \in X : \A t \in X : t # w => Before(w, t)
  <2> HIDE DEF X
  <2>1. X \in SUBSET X
        OBVIOUS
  <2> QED BY <1>1, <1>3, <2>1, BestExists
<1>5. PICK i \in DOMAIN tickets : tickets[i] = w
      BY DEF ToSet
<1>6. \A k \in DOMAIN tickets : k # i => tickets[k] # w
      BY <1>5 DEF Distinct
<1>7. First(i)
  <2>1. \A k \in DOMAIN tickets : k # i => Before(tickets[i], tickets[k])
        BY <1>3, <1>4, <1>5, <1>6
  <2>2. ASSUME NEW k \in DOMAIN tickets PROVE ~Before(tickets[k], tickets[i])
    <3>1. tickets[k] \in Ticket /\ tickets[i] \in Ticket
          BY <1>2
    <3>2. CASE k = i
          BY <3>1, <3>2, BeforeOrders
    <3>3. CASE k # i
          BY <2>1, <3>1, <3>3, BeforeOrders
    <3> QED BY <3>2, <3>3
  <2>3. \A k \in 1..(i - 1) : k \in DOMAIN tickets /\ k # i
        BY <1>2
  <2> QED BY <2>1, <2>2, <2>3
<1>8. PICK c \in DOMAIN tickets : SelectWinner(tickets) = tickets[c] /\ First(c)
  <2>1. (CHOOSE n \in DOMAIN tickets : First(n)) \in DOMAIN tickets
        /\ First(CHOOSE n \in DOMAIN tickets : First(n))
    <3> HIDE DEF First
    <3> QED BY <1>7
  <2>2. SelectWinner(tickets) = tickets[CHOOSE n \in DOMAIN tickets : First(n)]
        BY DEF SelectWinner
  <2> HIDE DEF First
  <2> QED BY <2>1, <2>2
<1>9. ASSUME NEW t \in X, t # tickets[c] PROVE Before(tickets[c], t)
  <2>1. PICK k \in DOMAIN tickets : tickets[k] = t
        BY DEF ToSet
  <2>2. ~Before(t, tickets[c])
        BY <1>8, <2>1
  <2>3. tickets[c] \in X /\ tickets[c] \in Ticket /\ t \in Ticket /\ t.miner # tickets[c].miner
        BY <1>1, <1>3, <1>9
  <2> QED BY <2>2, <2>3, BeforeOrders
<1> QED BY <1>3, <1>8, <1>9

\* Sorting the tickets changes neither their set nor their number.
LEMMA SortedSame ==
  ASSUME NEW tickets \in Seq(Ticket), Distinct(tickets)
  PROVE  LET sorted == SortedByMiner(tickets)
         IN  /\ sorted \in Seq(Ticket) /\ Len(sorted) = Len(tickets)
             /\ ToSet(sorted) = ToSet(tickets)
             /\ Distinct(sorted)
<1> DEFINE X == ToSet(tickets)
           M == {t.miner : t \in X}
           n == Len(tickets)
           sorted == SortedByMiner(tickets)
           order == InOrder(M)
<1>1. /\ IsFiniteSet(X) /\ X \subseteq Ticket
      /\ \A s, t \in X : s.miner = t.miner => s = t
      /\ IsFiniteSet(M) /\ Cardinality(M) = n
      BY TicketSets
<1>2. M \subseteq Int
      BY <1>1, MinersAreInts
<1>3. /\ order \in [1..n -> M]
      /\ \A x \in M : \E k \in 1..n : order[k] = x
      /\ \A i, k \in 1..n : order[i] = order[k] => i = k
  <2>1. /\ order \in [1..Cardinality(M) -> M]
        /\ \A x \in M : \E k \in 1..Cardinality(M) : order[k] = x
        /\ \A i, k \in 1..Cardinality(M) : order[i] = order[k] => i = k
    <3> HIDE DEF M
    <3> QED BY <1>1, <1>2, InOrderLists
  <2> HIDE DEF M, n, order
  <2> QED BY <1>1, <2>1
<1>4. sorted = [k \in 1..n |-> CHOOSE t \in X : t.miner = order[k]]
  <2>1. sorted = [k \in DOMAIN order |-> CHOOSE t \in X : t.miner = order[k]]
        BY DEF SortedByMiner
  <2>2. DOMAIN order = 1..n
        BY <1>3
  <2> HIDE DEF order, n, sorted, X
  <2> QED BY <2>1, <2>2
<1>5. \A k \in 1..n : order[k] \in M
  <2> HIDE DEF order, n, M
  <2> QED BY <1>3
<1>6. \A k \in 1..n : sorted[k] \in X /\ sorted[k].miner = order[k]
  <2> SUFFICES ASSUME NEW k \in 1..n PROVE sorted[k] \in X /\ sorted[k].miner = order[k]
      OBVIOUS
  <2>1. \E t \in X : t.miner = order[k]
        BY <1>5
  <2>2. sorted[k] = CHOOSE t \in X : t.miner = order[k]
    <3> HIDE DEF order, n, X, sorted
    <3> QED BY <1>4
  <2> HIDE DEF order, n, X, sorted
  <2> QED BY <2>1, <2>2
<1>7. n \in Nat
      OBVIOUS
<1> HIDE DEF sorted
<1>8. DOMAIN sorted = 1..n
      BY <1>4
<1>9. sorted \in Seq(Ticket) /\ Len(sorted) = n
  <2>1. \A k \in 1..n : sorted[k] \in Ticket
        BY <1>1, <1>6
  <2>2. sorted \in [1..n -> Ticket]
    <3> HIDE DEF n, X, order
    <3>1. sorted = [k \in 1..n |-> sorted[k]]
          BY <1>4
    <3> QED BY <2>1, <3>1
  <2> HIDE DEF n
  <2> QED BY <1>7, <1>8, <2>2
<1>10. ToSet(sorted) = X
  <2>1. ToSet(sorted) \subseteq X
        BY <1>6, <1>8 DEF ToSet
  <2>2. ASSUME NEW t \in X PROVE t \in ToSet(sorted)
    <3>1. PICK k \in 1..n : order[k] = t.miner
          BY <1>3
    <3>2. sorted[k] \in X /\ sorted[k].miner = t.miner
          BY <1>6, <3>1
    <3>3. sorted[k] = t
          BY <1>1, <3>2
    <3> QED BY <1>8, <3>3 DEF ToSet
  <2> QED BY <2>1, <2>2
<1>11. Distinct(sorted)
      BY <1>3, <1>6, <1>8 DEF Distinct
<1> QED BY <1>9, <1>10, <1>11 DEF sorted

\* The winner does not depend on the order of the tickets.
LEMMA WinnerSame ==
  ASSUME NEW a \in Seq(Ticket), NEW b \in Seq(Ticket), Len(a) > 0, Len(b) > 0,
         Distinct(a), Distinct(b), ToSet(a) = ToSet(b)
  PROVE  SelectWinner(a) = SelectWinner(b)
<1> DEFINE u == SelectWinner(a)
           v == SelectWinner(b)
<1>1. u \in ToSet(a) /\ \A t \in ToSet(a) : t # u => Before(u, t)
      BY WinnerIsBest
<1>2. v \in ToSet(b) /\ \A t \in ToSet(b) : t # v => Before(v, t)
      BY WinnerIsBest
<1>3. u \in Ticket /\ v \in Ticket
  <2>1. ToSet(a) \subseteq Ticket
        BY TicketSets
  <2> QED BY <1>1, <1>2, <2>1
<1> HIDE DEF u, v
<1>4. u # v => Before(u, v) /\ Before(v, u)
      BY <1>1, <1>2
<1>5. Before(u, v) => ~Before(v, u)
      BY <1>3, BeforeOrders
<1>6. u = v
      BY <1>4, <1>5
<1> QED BY <1>6 DEF u, v

-----------------------------------------------------------------------------
(* The invariant *)

Answer == [from : Nodes, response : Ticket]

Block == [height : Nat, parent : Jobs \cup {GenesisHash}, job : Jobs, result : Result,
          proposer : Nodes, winner : Ticket, tickets : Seq(Ticket)]

\* The types of what the blocks are made of.
TypeInv ==
  /\ policy \in Policies
  /\ minerPolicy \in [Nodes -> Policy]
  /\ endpoint \in [Nodes -> Nodes]
  /\ client \in [Jobs -> {"new", "mining", "judging", "asking", "ok", "error"}]
  /\ base \in [Jobs -> Nat]
  /\ answers \in [Jobs -> Seq(Answer)]
  /\ request \in [Jobs -> Seq(Ticket)]
  /\ call \in [Jobs -> {"none", "waiting", "built", "prepared", "cancelled", "returned"}]
  /\ block \in [Jobs -> Block \cup {NoBlock}]
  /\ voted \in [Nodes -> [1..MaxJobs -> Jobs \cup {NoBlock}]]
  /\ ledger \in Seq(Jobs)
  /\ height \in [Nodes -> Nat]

\* The validators whose vote at height h is for job j's block.
Votes(h, j) == {v \in Nodes : voted[v][h] = j}

\* Nobody is ahead of the ledger; its blocks belong to calls that have returned, each
\* to one, and a quorum voted for each.
Chain ==
  /\ \A v \in Nodes : height[v] <= Len(ledger)
  /\ \A j \in Jobs : base[j] <= Len(ledger)
  /\ \A i \in 1..Len(ledger) : call[ledger[i]] = "returned"
  /\ \A i, k \in 1..Len(ledger) : ledger[i] = ledger[k] => i = k
  /\ \A h \in 1..Len(ledger) : Cardinality(Votes(h, ledger[h])) >= Quorum

\* A round has made no Propose call before it asks, and waits while it asks.
Stages ==
  \A j \in Jobs :
    /\ client[j] \in {"new", "mining", "judging"} => call[j] = "none"
    /\ client[j] = "asking" => call[j] \in {"waiting", "built", "prepared"}

\* The block of j is one every validator accepts, and does not reach beyond the
\* ledger's next height.
Built(j) ==
  /\ block[j] \in Block
  /\ block[j].job = j
  /\ block[j].height \in 1..(Len(ledger) + 1)
  /\ ValidateBlock(block[j])

Blocks ==
  \A j \in Jobs : block[j] # NoBlock \/ call[j] \in {"built", "prepared"} => Built(j)

\* A block with a quorum of votes is the next block of the ledger.
Prepared ==
  \A j \in Jobs : call[j] = "prepared" =>
    /\ block[j].height = Len(ledger) + 1
    /\ block[j].parent = Tip(Len(ledger))
    /\ Cardinality(Votes(Len(ledger) + 1, j)) >= Quorum

Inv == TypeInv /\ Chain /\ Stages /\ Blocks /\ Prepared

-----------------------------------------------------------------------------
(* Quorums and the ledger *)

\* There are N validators, and the quorum is a number.
LEMMA NodesFinite == IsFiniteSet(Nodes) /\ Cardinality(Nodes) = N /\ N \in Nat /\ Quorum \in Nat
<1>1. 1 \in Int /\ N \in Int /\ N >= 4
      BY CompetitionAssumption
<1>2. IsFiniteSet(1..N) /\ Cardinality(1..N) = IF 1 > N THEN 0 ELSE N - 1 + 1
      BY <1>1, FS_Interval
<1> QED BY <1>1, <1>2 DEF Nodes, Quorum

\* There are MaxJobs jobs.
LEMMA JobsFinite == IsFiniteSet(Jobs) /\ Cardinality(Jobs) = MaxJobs /\ MaxJobs \in Nat
<1>1. 1 \in Int /\ MaxJobs \in Nat
      BY CompetitionAssumption
<1>2. IsFiniteSet(1..MaxJobs) /\ Cardinality(1..MaxJobs) = IF 1 > MaxJobs THEN 0 ELSE MaxJobs - 1 + 1
      BY <1>1, FS_Interval
<1> QED BY <1>1, <1>2 DEF Jobs

\* Two quorums have a validator in common.
LEMMA QuorumsMeet ==
  ASSUME NEW A \in SUBSET Nodes, NEW B \in SUBSET Nodes,
         Cardinality(A) >= Quorum, Cardinality(B) >= Quorum
  PROVE  \E v \in Nodes : v \in A /\ v \in B
<1>1. Cardinality(A) \in Nat /\ Cardinality(B) \in Nat
      BY NodesFinite, FS_Subset, FS_CardinalityType
<1>2. 2 * Quorum > N
      BY NodesFinite DEF Quorum
<1>3. Cardinality(A) + Cardinality(B) > Cardinality(Nodes)
      BY <1>1, <1>2, NodesFinite
<1>4. A \cap B # {}
      BY <1>3, NodesFinite, FS_MajoritiesIntersect
<1> QED BY <1>4

\* A quorum has a member.
LEMMA QuorumNotEmpty ==
  ASSUME NEW A \in SUBSET Nodes, Cardinality(A) >= Quorum
  PROVE  \E v \in Nodes : v \in A
  BY QuorumsMeet

\* While a call has not returned there is room for its block.
LEMMA LedgerShort ==
  ASSUME TypeInv, Chain, NEW j \in Jobs, call[j] # "returned"
  PROVE  Len(ledger) + 1 \in 1..MaxJobs
<1> DEFINE D == 1..Len(ledger)
           T == Jobs \ {j}
           f == [i \in D |-> ledger[i]]
<1>0. ledger \in Seq(Jobs) /\ Len(ledger) \in Nat
      BY DEF TypeInv
<1>1. f \in Injection(D, T)
  <2>1. \A i \in D : ledger[i] \in T
        BY <1>0 DEF Chain
  <2>2. \A i, k \in D : ledger[i] = ledger[k] => i = k
        BY DEF Chain
  <2> HIDE DEF D, T
  <2> QED BY <2>1, <2>2 DEF Injection, IsInjective
<1>2. IsFiniteSet(T) /\ Cardinality(T) = MaxJobs - 1
      BY JobsFinite, FS_RemoveElement
<1>3. Cardinality(D) <= Cardinality(T)
  <2> HIDE DEF D, T, f
  <2> QED BY <1>1, <1>2, FS_Injection
<1>4. Cardinality(D) = Len(ledger)
  <2>1. 1 \in Int /\ Len(ledger) \in Int
        BY <1>0
  <2>2. Cardinality(D) = IF 1 > Len(ledger) THEN 0 ELSE Len(ledger) - 1 + 1
        BY <2>1, FS_Interval
  <2> QED BY <1>0, <2>2
<1> HIDE DEF D, T
<1> QED BY <1>0, <1>2, <1>3, <1>4, JobsFinite

\* The tip is a block of the ledger, or genesis.
LEMMA TipType ==
  ASSUME TypeInv, NEW h \in 0..Len(ledger)
  PROVE  Tip(h) \in Jobs \cup {GenesisHash}
  BY DEF Tip, TypeInv

-----------------------------------------------------------------------------
(* Evidence *)

\* The evidence of sorted tickets is as good as that of the tickets.
LEMMA SortedEvidence ==
  ASSUME NEW tickets \in Seq(Ticket), NEW h, NEW parent, NEW job, NEW result,
         EvidenceValid(h, parent, job, result, tickets)
  PROVE  /\ EvidenceValid(h, parent, job, result, SortedByMiner(tickets))
         /\ SelectWinner(SortedByMiner(tickets)) = SelectWinner(tickets)
         /\ SelectWinner(tickets) \in Ticket
         /\ SortedByMiner(tickets) \in Seq(Ticket)
<1> DEFINE sorted == SortedByMiner(tickets)
<1>1. Distinct(tickets) /\ Len(tickets) >= Quorum
      BY DEF EvidenceValid, CompetitionValid, CertificateValid, Distinct
<1>2. /\ sorted \in Seq(Ticket) /\ Len(sorted) = Len(tickets)
      /\ ToSet(sorted) = ToSet(tickets) /\ Distinct(sorted)
      BY <1>1, SortedSame
<1>3. Len(tickets) > 0
  <2>1. Quorum > 0
        BY NodesFinite DEF Quorum
  <2>2. Len(tickets) \in Nat
        OBVIOUS
  <2> QED BY <1>1, <2>1, <2>2, NodesFinite
<1> HIDE DEF sorted
<1>4. SelectWinner(sorted) = SelectWinner(tickets)
      BY <1>1, <1>2, <1>3, WinnerSame
<1>5. SelectWinner(tickets) \in Ticket
      BY <1>1, <1>3, WinnerIsBest, TicketSets
<1>6. CompetitionValid(h, parent, job, result, sorted)
      BY <1>2 DEF EvidenceValid, CompetitionValid, Distinct
<1>7. CertificateValid(h, parent, job, result, sorted)
      BY <1>2 DEF EvidenceValid, CertificateValid
<1> QED BY <1>2, <1>4, <1>5, <1>6, <1>7 DEF EvidenceValid, sorted

\* What a miner answers is a ticket.
LEMMA MinedType ==
  ASSUME TypeInv, NEW m \in Nodes, NEW h \in Nat, NEW parent \in Jobs \cup {GenesisHash},
         NEW j \in Jobs, NEW work \in Hashes
  PROVE  Mined(m, h, parent, j, work) \in Ticket
<1>1. minerPolicy[m] \in Policy
      BY DEF TypeInv
<1> QED BY <1>1 DEF Mined, Run, Policy, Ticket, Result

\* What collectTickets selects of answers are tickets.
LEMMA SelectedType ==
  ASSUME NEW arrived \in Seq(Answer)
  PROVE  Selected(arrived) \in Seq(Ticket)
<1> DEFINE counted == Kept(arrived, {i \in DOMAIN arrived : Counted(arrived[i])})
           Group(r) == Kept(counted, {i \in DOMAIN counted : counted[i].response.result = r})
           results == {a.response.result : a \in ToSet(counted)}
           chosen == CHOOSE r \in results : \A q \in results :
                       \/ Len(Group(r)) > Len(Group(q))
                       \/ Len(Group(r)) = Len(Group(q)) /\ HashOf(r) <= HashOf(q)
<1>1. counted \in Seq(Answer)
      BY KeptType
<1>2. \A r : Group(r) \in Seq(Answer)
  <2> HIDE DEF counted
  <2> QED BY <1>1, KeptType
<1>3. ASSUME NEW g \in Seq(Answer)
      PROVE  [i \in DOMAIN g |-> g[i].response] \in Seq(Ticket)
  <2>1. DOMAIN g = 1..Len(g) /\ Len(g) \in Nat /\ \A i \in 1..Len(g) : g[i] \in Answer
        OBVIOUS
  <2>2. [i \in 1..Len(g) |-> g[i].response] \in [1..Len(g) -> Ticket]
        BY <2>1 DEF Answer
  <2>3. [i \in DOMAIN g |-> g[i].response] = [i \in 1..Len(g) |-> g[i].response]
        BY <2>1
  <2> DEFINE f == [i \in 1..Len(g) |-> g[i].response]
  <2>4. f \in Seq(Ticket)
    <3> HIDE DEF f
    <3>1. f \in [1..Len(g) -> Ticket]
          BY <2>2 DEF f
    <3> QED BY <2>1, <3>1
  <2> QED BY <2>3, <2>4
<1>4. Selected(arrived) = IF results = {} THEN <<>>
                          ELSE [i \in DOMAIN Group(chosen) |-> Group(chosen)[i].response]
      BY DEF Selected
<1>5. Group(chosen) \in Seq(Answer)
  <2> HIDE DEF Group, chosen
  <2> QED BY <1>2
<1> HIDE DEF Group, chosen, results
<1>6. [i \in DOMAIN Group(chosen) |-> Group(chosen)[i].response] \in Seq(Ticket)
      BY <1>3, <1>5
<1> QED BY <1>4, <1>6

-----------------------------------------------------------------------------
(* The invariant is inductive *)

\* Nothing has been asked, built or decided in the beginning.
LEMMA InitInv == Init => Inv
<1> SUFFICES ASSUME Init PROVE Inv
    OBVIOUS
<1>0. Cardinality(Jobs) = MaxJobs
      BY JobsFinite
<1>1. policy \in Policies /\ policy \in Policy
      BY CompetitionAssumption DEF Init
<1>2. minerPolicy \in [Nodes -> Policy]
  <2>1. PICK odd \in OddSets, p \in Misconfigured(policy) :
          minerPolicy = [m \in Nodes |-> IF m \in odd /\ mode = "devnet" THEN p ELSE policy]
        BY DEF Init
  <2>2. Bits - 1 \in 0..(Bits - 1) /\ 0 \in 0..(Bits - 1)
    <3>1. Bits \in Nat /\ Bits > 0
      <4>1. \A x, y \in Nat : x > 0 /\ y > 0 => x * y \in Nat /\ x * y > 0
            OBVIOUS
      <4> QED BY <4>1, Widths
    <3> QED BY <3>1
  <2>3. p \in Policy
    <3>1. CASE \E d \in {0, Bits - 1} \ {policy.difficulty} : p = [policy EXCEPT !.difficulty = d]
          BY <1>1, <2>2, <3>1 DEF Policy
    <3>2. CASE p = [policy EXCEPT !.manifest = 3 - policy.manifest]
      <4>1. 3 - policy.manifest \in 1..2
            BY <1>1 DEF Policy
      <4> QED BY <1>1, <3>2, <4>1 DEF Policy
    <3>3. CASE \E s \in (0..1) \ {policy.samples} : p = [policy EXCEPT !.samples = s]
      <4>1. 0..1 \subseteq 0..2
            OBVIOUS
      <4> QED BY <1>1, <3>3, <4>1 DEF Policy
    <3>4. CASE p = [policy EXCEPT !.zkml = ~policy.zkml]
          BY <1>1, <3>4 DEF Policy
    <3>5. CASE p = [policy EXCEPT !.sound = FALSE]
          BY <1>1, <3>5 DEF Policy
    <3> QED BY <3>1, <3>2, <3>3, <3>4, <3>5 DEF Misconfigured
  <2> QED BY <1>1, <2>1, <2>3
<1>3. endpoint \in [Nodes -> Nodes]
      BY CompetitionAssumption DEF Init
<1>4. \A j \in Jobs : client[j] = "new" /\ call[j] = "none" /\ block[j] = NoBlock /\ base[j] = 0
      BY DEF Init
<1>5. ledger = <<>> /\ Len(ledger) = 0
      BY DEF Init
<1>6. TypeInv
  <2>1. <<>> \in Seq(Answer) /\ <<>> \in Seq(Ticket) /\ <<>> \in Seq(Jobs)
        OBVIOUS
  <2>2. voted \in [Nodes -> [1..MaxJobs -> Jobs \cup {NoBlock}]]
        BY <1>0 DEF Init
  <2> QED BY <1>1, <1>2, <1>3, <2>1, <2>2 DEF Init, TypeInv
<1>7. Chain
      BY <1>4, <1>5 DEF Init, Chain
<1> QED BY <1>4, <1>6, <1>7 DEF Inv, Stages, Blocks, Prepared

\* Votes are only added.
VotesGrow ==
  /\ voted' \in [Nodes -> [1..MaxJobs -> Jobs \cup {NoBlock}]]
  /\ \A v \in Nodes, h \in 1..MaxJobs : voted[v][h] # NoBlock => voted'[v][h] = voted[v][h]

\* Votes are not taken back, so a quorum stays one.
LEMMA QuorumKept ==
  ASSUME VotesGrow, NEW h \in 1..MaxJobs, NEW j \in Jobs, Cardinality(Votes(h, j)) >= Quorum
  PROVE  Cardinality({v \in Nodes : voted'[v][h] = j}) >= Quorum
<1> DEFINE A == Votes(h, j)
           B == {v \in Nodes : voted'[v][h] = j}
<1>1. A \in SUBSET B /\ B \in SUBSET Nodes
      BY CompetitionAssumption DEF VotesGrow, Votes
<1>2. IsFiniteSet(B)
      BY <1>1, NodesFinite, FS_Subset
<1> HIDE DEF A, B
<1>3. Cardinality(A) <= Cardinality(B) /\ Cardinality(A) \in Nat /\ Cardinality(B) \in Nat
      BY <1>1, <1>2, FS_Subset, FS_CardinalityType
<1>4. Cardinality(B) >= Quorum
      BY <1>3, NodesFinite DEF A
<1> QED BY <1>4 DEF B

\* A step in which votes are added and the ledger and the calls in it stay.
LEMMA ChainKept ==
  ASSUME TypeInv, Chain, VotesGrow, UNCHANGED <<ledger, height>>,
         \A j \in Jobs : base'[j] <= Len(ledger),
         \A j \in Jobs : call[j] = "returned" => call'[j] = "returned",
         \E j \in Jobs : call[j] # "returned"
  PROVE  Chain'
<1>0. ledger \in Seq(Jobs) /\ Len(ledger) \in Nat /\ \A i \in 1..Len(ledger) : ledger[i] \in Jobs
      BY DEF TypeInv
<1>1. Len(ledger) + 1 \in 1..MaxJobs
      BY LedgerShort
<1>2. \A h \in 1..Len(ledger) : h \in 1..MaxJobs
      BY <1>0, <1>1, JobsFinite
<1>3. \A h \in 1..Len(ledger) : Cardinality({v \in Nodes : voted'[v][h] = ledger[h]}) >= Quorum
      BY <1>0, <1>2, QuorumKept DEF Chain
<1>5. \A i \in 1..Len(ledger) : call'[ledger[i]] = "returned"
      BY <1>0 DEF Chain
<1> QED BY <1>3, <1>5 DEF Chain, Votes

\* The other calls keep their blocks, their votes and what was decided.
LEMMA OthersKept ==
  ASSUME Inv, VotesGrow, UNCHANGED <<policy, ledger>>, NEW j \in Jobs,
         \A k \in Jobs : k # j => call'[k] = call[k] /\ block'[k] = block[k],
         call[j] # "returned"
  PROVE  \A k \in Jobs : k # j =>
           /\ (block[k] # NoBlock \/ call[k] \in {"built", "prepared"} => Built(k))'
           /\ (call[k] = "prepared" =>
                 /\ block[k].height = Len(ledger) + 1
                 /\ block[k].parent = Tip(Len(ledger))
                 /\ Cardinality(Votes(Len(ledger) + 1, k)) >= Quorum)'
<1> SUFFICES ASSUME NEW k \in Jobs, k # j
             PROVE  /\ (block[k] # NoBlock \/ call[k] \in {"built", "prepared"} => Built(k))'
                    /\ (call[k] = "prepared" =>
                          /\ block[k].height = Len(ledger) + 1
                          /\ block[k].parent = Tip(Len(ledger))
                          /\ Cardinality(Votes(Len(ledger) + 1, k)) >= Quorum)'
    OBVIOUS
<1>0. call'[k] = call[k] /\ block'[k] = block[k]
      OBVIOUS
<1>1. Built(k) => Built(k)'
  <2>1. ValidateBlock(block[k]) => ValidateBlock(block[k])'
        BY <1>0 DEF ValidateBlock, EvidenceValid, ResultValid, CompetitionValid,
                    CertificateValid, SealValid
  <2> QED BY <1>0, <2>1 DEF Built
<1>2. block[k] # NoBlock \/ call[k] \in {"built", "prepared"} => Built(k)
      BY DEF Inv, Blocks
<1>3. call[k] = "prepared" =>
        /\ block[k].height = Len(ledger) + 1
        /\ block[k].parent = Tip(Len(ledger))
        /\ Cardinality(Votes(Len(ledger) + 1, k)) >= Quorum
      BY DEF Inv, Prepared
<1>4. Len(ledger) + 1 \in 1..MaxJobs
      BY LedgerShort DEF Inv
<1>5. call[k] = "prepared" => Cardinality({v \in Nodes : voted'[v][Len(ledger) + 1] = k}) >= Quorum
      BY <1>3, <1>4, QuorumKept
<1>6. Tip(Len(ledger))' = Tip(Len(ledger))
      BY DEF Tip
<1> QED BY <1>0, <1>1, <1>2, <1>3, <1>5, <1>6 DEF Votes

\* A Propose call fails, whatever votes it has gathered.
LEMMA ReturnInv ==
  ASSUME Inv, VotesGrow, UNCHANGED <<config, ledger, height>>, NEW j \in Jobs,
         NEW outcome \in {"ok", "error"}, Return(j, outcome),
         call[j] # "returned"
  PROVE  Inv'
<1>0. TypeInv /\ Chain /\ Stages /\ Blocks /\ Prepared
      BY DEF Inv
<1>1. TypeInv'
  <2>1. <<>> \in Seq(Answer) /\ <<>> \in Seq(Ticket)
        OBVIOUS
  <2>2. /\ policy' = policy /\ minerPolicy' = minerPolicy /\ endpoint' = endpoint
        /\ client' = [client EXCEPT ![j] = outcome]
        /\ base' = [base EXCEPT ![j] = 0]
        /\ answers' = [answers EXCEPT ![j] = <<>>]
        /\ request' = [request EXCEPT ![j] = <<>>]
        /\ call' = [call EXCEPT ![j] = "returned"]
        /\ block' = [block EXCEPT ![j] = NoBlock]
        BY DEF config, Return, EndRound
  <2> QED BY <1>0, <2>1, <2>2 DEF TypeInv, VotesGrow
<1>2. /\ \A k \in Jobs : k # j => /\ call'[k] = call[k] /\ block'[k] = block[k]
                                  /\ client'[k] = client[k] /\ base'[k] = base[k]
      /\ call'[j] = "returned" /\ block'[j] = NoBlock /\ base'[j] = 0 /\ client'[j] = outcome
      BY <1>0 DEF Return, EndRound, TypeInv
<1>3. Chain'
  <2>1. \A k \in Jobs : base'[k] <= Len(ledger)
    <3>1. 0 <= Len(ledger)
          BY <1>0 DEF TypeInv
    <3> QED BY <1>0, <1>2, <3>1 DEF Chain
  <2>2. \A k \in Jobs : call[k] = "returned" => call'[k] = "returned"
        BY <1>2
  <2> QED BY <1>0, <2>1, <2>2, ChainKept
<1>4. Stages'
      BY <1>0, <1>2 DEF Stages
<1>5. policy' = policy
      BY DEF config
<1>6. \A k \in Jobs : k # j =>
           /\ (block[k] # NoBlock \/ call[k] \in {"built", "prepared"} => Built(k))'
           /\ (call[k] = "prepared" =>
                 /\ block[k].height = Len(ledger) + 1
                 /\ block[k].parent = Tip(Len(ledger))
                 /\ Cardinality(Votes(Len(ledger) + 1, k)) >= Quorum)'
      BY <1>2, <1>5, OthersKept
<1>7. Blocks'
      BY <1>2, <1>6 DEF Blocks
<1>8. Prepared'
      BY <1>2, <1>6 DEF Prepared
<1> QED BY <1>1, <1>3, <1>4, <1>7, <1>8 DEF Inv

\* A step of a round before it has asked for a proposal, or the end of such a round.
LEMMA RoundInv ==
  ASSUME Inv, UNCHANGED <<config, call, block, voted, ledger, height>>, NEW j \in Jobs,
         TypeInv', base'[j] <= Len(ledger), call[j] = "none",
         client'[j] # "asking",
         \A k \in Jobs : k # j => client'[k] = client[k] /\ base'[k] = base[k]
  PROVE  Inv'
<1>0. TypeInv /\ Chain /\ Stages /\ Blocks /\ Prepared
      BY DEF Inv
<1>1. Chain'
      BY <1>0 DEF Chain, Votes
<1>2. Stages'
      BY <1>0 DEF Stages
<1>3. Blocks'
      BY <1>0 DEF Blocks, Built, config, ValidateBlock, EvidenceValid, ResultValid,
                  CompetitionValid, CertificateValid, SealValid
<1>4. Prepared'
      BY <1>0 DEF Prepared, Tip, Votes
<1> QED BY <1>1, <1>2, <1>3, <1>4 DEF Inv

\* RunRound begins.
LEMMA StartInv ==
  ASSUME Inv, NEW j \in Jobs, NEW c \in Coordinators, StartRound(j, c)
  PROVE  Inv'
<1>0. TypeInv /\ Chain /\ Stages
      BY DEF Inv
<1>1. c \in Nodes
      BY CompetitionAssumption
<1>2. /\ client[j] = "new" /\ client' = [client EXCEPT ![j] = "mining"]
      /\ base' = [base EXCEPT ![j] = height[c]]
      /\ UNCHANGED <<config, answers, request, asked, call, block, voted, ledger, height>>
      BY DEF StartRound
<1>3. TypeInv'
      BY <1>0, <1>1, <1>2 DEF TypeInv, config
<1>4. base'[j] <= Len(ledger) /\ call[j] = "none" /\ client'[j] # "asking"
      BY <1>0, <1>1, <1>2 DEF TypeInv, Chain, Stages
<1>5. \A k \in Jobs : k # j => client'[k] = client[k] /\ base'[k] = base[k]
      BY <1>0, <1>2 DEF TypeInv
<1> QED BY <1>2, <1>3, <1>4, <1>5, RoundInv

\* collectTickets, first half.
LEMMA CollectInv ==
  ASSUME Inv, NEW j \in Jobs, CollectAnswers(j)
  PROVE  Inv'
<1>0. TypeInv /\ Chain /\ Stages
      BY DEF Inv
<1>1. /\ client[j] = "mining" /\ client' = [client EXCEPT ![j] = "judging"]
      /\ UNCHANGED <<config, at, base, request, asked, call, block, voted, ledger, height>>
      BY DEF CollectAnswers
<1>2. PICK work \in Luck :
      \E S \in Reached({m \in Nodes : CanMine(endpoint[m], work[endpoint[m]])}),
         order \in ArrivalOrders :
        answers' = [answers EXCEPT ![j] =
          LET arrived == Kept(order, {i \in DOMAIN order : order[i] \in S})
          IN [i \in DOMAIN arrived |->
               [from |-> arrived[i],
                response |-> Mined(endpoint[arrived[i]], base[j] + 1, Tip(base[j]), j,
                                   work[endpoint[arrived[i]]])]]]
      BY DEF CollectAnswers
<1>a. PICK S \in Reached({m \in Nodes : CanMine(endpoint[m], work[endpoint[m]])}),
           order \in ArrivalOrders :
        answers' = [answers EXCEPT ![j] =
          LET arrived == Kept(order, {i \in DOMAIN order : order[i] \in S})
          IN [i \in DOMAIN arrived |->
               [from |-> arrived[i],
                response |-> Mined(endpoint[arrived[i]], base[j] + 1, Tip(base[j]), j,
                                   work[endpoint[arrived[i]]])]]]
      BY <1>2
<1> DEFINE arrived == Kept(order, {i \in DOMAIN order : order[i] \in S})
           new == [i \in DOMAIN arrived |->
                    [from |-> arrived[i],
                     response |-> Mined(endpoint[arrived[i]], base[j] + 1, Tip(base[j]), j,
                                        work[endpoint[arrived[i]]])]]
<1>3. order \in Seq(Nodes)
  <2>1. order \in [1..Cardinality(Nodes) -> Nodes]
        BY CompetitionAssumption DEF SetToSeqs
  <2> QED BY <2>1, NodesFinite
<1>4. arrived \in Seq(Nodes)
      BY <1>3, KeptType
<1>5. work \in [Nodes -> Hashes]
      BY CompetitionAssumption
<1>6. base[j] \in Nat /\ base[j] + 1 \in Nat /\ base[j] \in 0..Len(ledger)
      BY <1>0 DEF TypeInv, Chain
<1>7. Tip(base[j]) \in Jobs \cup {GenesisHash}
      BY <1>0, <1>6, TipType
<1>8. new \in Seq(Answer)
  <2> HIDE DEF arrived
  <2>1. DOMAIN arrived = 1..Len(arrived) /\ Len(arrived) \in Nat
        /\ \A i \in 1..Len(arrived) : arrived[i] \in Nodes
        BY <1>4
  <2>2. ASSUME NEW i \in 1..Len(arrived) PROVE new[i] \in Answer
    <3>1. arrived[i] \in Nodes /\ endpoint[arrived[i]] \in Nodes
          BY <1>0, <2>1 DEF TypeInv
    <3>2. work[endpoint[arrived[i]]] \in Hashes
          BY <1>5, <3>1
    <3>3. Mined(endpoint[arrived[i]], base[j] + 1, Tip(base[j]), j, work[endpoint[arrived[i]]])
            \in Ticket
          BY <1>0, <1>6, <1>7, <3>1, <3>2, MinedType
    <3> QED BY <2>1, <3>1, <3>3 DEF Answer
  <2>3. DOMAIN new = 1..Len(arrived) /\ new = [i \in 1..Len(arrived) |-> new[i]]
        BY <2>1
  <2> HIDE DEF new
  <2>4. new \in [1..Len(arrived) -> Answer]
        BY <2>2, <2>3
  <2> QED BY <2>1, <2>4
<1>9. answers' = [answers EXCEPT ![j] = new]
      BY <1>a
<1> HIDE DEF new
<1>10. TypeInv'
      BY <1>0, <1>1, <1>8, <1>9 DEF TypeInv, config
<1>11. base'[j] <= Len(ledger) /\ call[j] = "none" /\ client'[j] # "asking"
      BY <1>0, <1>1 DEF TypeInv, Chain, Stages
<1>12. \A k \in Jobs : k # j => client'[k] = client[k] /\ base'[k] = base[k]
      BY <1>0, <1>1 DEF TypeInv
<1> QED BY <1>1, <1>10, <1>11, <1>12, RoundInv

\* RunRound's verdict.
LEMMA JudgeInv ==
  ASSUME Inv, NEW j \in Jobs, Judge(j)
  PROVE  Inv'
<1>0. TypeInv /\ Chain /\ Stages /\ Blocks /\ Prepared
      BY DEF Inv
<1> DEFINE tickets == Selected(answers[j])
<1>1. tickets \in Seq(Ticket)
  <2>1. answers[j] \in Seq(Answer)
        BY <1>0 DEF TypeInv
  <2> QED BY <2>1, SelectedType
<1>2. client[j] = "judging" /\ UNCHANGED <<config, block, voted, ledger, height>> /\ call[j] = "none"
      BY <1>0 DEF Judge, Stages
<1>3. CASE RoundValid(j, tickets)
  <2>1. /\ client' = [client EXCEPT ![j] = "asking"]
        /\ request' = [request EXCEPT ![j] = tickets]
        /\ call' = [call EXCEPT ![j] = "waiting"]
        /\ answers' = [answers EXCEPT ![j] = <<>>]
        /\ UNCHANGED <<at, base>>
        BY <1>3 DEF Judge
  <2>2. TypeInv'
    <3> HIDE DEF tickets
    <3>1. <<>> \in Seq(Answer)
          OBVIOUS
    <3> QED BY <1>0, <1>1, <1>2, <2>1, <3>1 DEF TypeInv, config
  <2>3. /\ \A k \in Jobs : k # j => call'[k] = call[k] /\ client'[k] = client[k]
        /\ call'[j] = "waiting" /\ client'[j] = "asking"
        BY <1>0, <2>1 DEF TypeInv
  <2>4. Chain'
    <3>1. VotesGrow
          BY <1>0, <1>2 DEF VotesGrow, TypeInv
    <3>2. /\ \A k \in Jobs : base'[k] <= Len(ledger)
          /\ \A k \in Jobs : call[k] = "returned" => call'[k] = "returned"
          BY <1>0, <1>2, <2>1, <2>3 DEF Chain
    <3> QED BY <1>0, <1>2, <3>1, <3>2, ChainKept
  <2>5. Stages'
        BY <1>0, <2>3 DEF Stages
  <2>6. Blocks'
        BY <1>0, <1>2, <2>3 DEF Blocks, Built, config, ValidateBlock, EvidenceValid, ResultValid,
                  CompetitionValid, CertificateValid, SealValid
  <2>7. Prepared'
        BY <1>0, <1>2, <2>3 DEF Prepared, Tip, Votes
  <2> QED BY <2>2, <2>4, <2>5, <2>6, <2>7 DEF Inv
<1>4. CASE ~RoundValid(j, tickets)
  <2>1. /\ client' = [client EXCEPT ![j] = "error"]
        /\ base' = [base EXCEPT ![j] = 0]
        /\ answers' = [answers EXCEPT ![j] = <<>>]
        /\ request' = [request EXCEPT ![j] = <<>>]
        /\ UNCHANGED <<asked, call>>
        BY <1>4 DEF Judge, EndRound
  <2>2. <<>> \in Seq(Answer) /\ <<>> \in Seq(Ticket)
        OBVIOUS
  <2>3. TypeInv'
        BY <1>0, <1>2, <2>1, <2>2 DEF TypeInv, config
  <2>4. base'[j] <= Len(ledger) /\ client'[j] # "asking"
        BY <1>0, <2>1 DEF TypeInv
  <2>5. \A k \in Jobs : k # j => client'[k] = client[k] /\ base'[k] = base[k]
        BY <1>0, <2>1 DEF TypeInv
  <2> QED BY <1>2, <2>1, <2>3, <2>4, <2>5, RoundInv
<1> QED BY <1>3, <1>4

\* Propose up to the finished block.
LEMMA BuildInv ==
  ASSUME Inv, NEW j \in Jobs, BuildBlock(j)
  PROVE  Inv'
<1>0. TypeInv /\ Chain /\ Stages /\ Blocks /\ Prepared
      BY DEF Inv
<1> DEFINE p == asked[j]
           tickets == request[j]
           winner == SelectWinner(tickets)
           h == height[p]
           Passes == EvidenceValid(h + 1, Tip(h), j, tickets[1].result, tickets) /\ winner.miner = p
           new == [height |-> h + 1, parent |-> Tip(h), job |-> j,
                   result |-> tickets[1].result, proposer |-> p, winner |-> winner,
                   tickets |-> SortedByMiner(tickets)]
<1>1. call[j] = "waiting" /\ UNCHANGED <<config, voted, ledger, height>>
      BY DEF BuildBlock
<1>2. VotesGrow /\ policy' = policy
      BY <1>0, <1>1 DEF VotesGrow, TypeInv, config
<1>3. CASE Passes
  <2>1. /\ block' = [block EXCEPT ![j] = new]
        /\ call' = [call EXCEPT ![j] = "built"]
        /\ request' = [request EXCEPT ![j] = <<>>]
        /\ UNCHANGED <<client, at, base, answers, asked>>
        BY <1>3 DEF BuildBlock
  <2>2. tickets \in Seq(Ticket)
        BY <1>0 DEF TypeInv
  <2>3. EvidenceValid(h + 1, Tip(h), j, tickets[1].result, tickets) /\ winner.miner = p
        BY <1>3
  <2>4. /\ EvidenceValid(h + 1, Tip(h), j, tickets[1].result, SortedByMiner(tickets))
        /\ SelectWinner(SortedByMiner(tickets)) = winner
        /\ winner \in Ticket /\ SortedByMiner(tickets) \in Seq(Ticket)
    <3> HIDE DEF tickets, h
    <3> QED BY <2>2, <2>3, SortedEvidence
  <2>5. p \in Nodes
        BY <2>3, <2>4 DEF Ticket
  <2>6. h \in Nat /\ h + 1 \in Nat /\ h \in 0..Len(ledger) /\ h + 1 \in 1..(Len(ledger) + 1)
    <3>1. Len(ledger) \in Nat /\ h \in Nat /\ h <= Len(ledger)
          BY <1>0, <2>5 DEF TypeInv, Chain
    <3> HIDE DEF h
    <3> QED BY <3>1
  <2>7. Tip(h) \in Jobs \cup {GenesisHash}
    <3> HIDE DEF h
    <3> QED BY <1>0, <2>6, TipType
  <2>8. tickets[1].result \in Result
    <3>1. Len(tickets) >= Quorum
          BY <2>3 DEF EvidenceValid, CertificateValid
    <3>2. Quorum >= 1
          BY NodesFinite DEF Quorum
    <3>3. 1 \in 1..Len(tickets)
      <4>1. Len(tickets) \in Nat
            BY <2>2
      <4> HIDE DEF tickets
      <4> QED BY <3>1, <3>2, <4>1, NodesFinite
    <3>4. tickets[1] \in Ticket
      <4> HIDE DEF tickets
      <4> QED BY <2>2, <3>3
    <3> HIDE DEF tickets
    <3> QED BY <3>4 DEF Ticket
  <2>9. new \in Block
    <3> HIDE DEF tickets, winner, h, p
    <3> QED BY <2>4, <2>5, <2>6, <2>7, <2>8 DEF Block
  <2>10. ValidateBlock(new)
    <3>1. /\ new.height = h + 1 /\ new.parent = Tip(h) /\ new.job = j /\ new.winner = winner
          /\ new.result = tickets[1].result /\ new.tickets = SortedByMiner(tickets)
          /\ new.proposer = p
          OBVIOUS
    <3> HIDE DEF new, tickets, winner, h, p
    <3> QED BY <2>3, <2>4, <3>1 DEF ValidateBlock
  <2>11. new.job = j /\ new.height \in 1..(Len(ledger) + 1)
        BY <2>6
  <2> HIDE DEF new, tickets, winner, h, p
  <2>12. TypeInv'
    <3>1. <<>> \in Seq(Ticket)
          OBVIOUS
    <3> QED BY <1>0, <1>1, <2>1, <2>9, <3>1 DEF TypeInv, config
  <2>13. /\ \A k \in Jobs : k # j => call'[k] = call[k] /\ block'[k] = block[k]
         /\ call'[j] = "built" /\ block'[j] = new
        BY <1>0, <2>1 DEF TypeInv
  <2>14. Built(j)'
    <3>1. ValidateBlock(block[j])'
          BY <1>2, <2>10, <2>13 DEF ValidateBlock, EvidenceValid, ResultValid, CompetitionValid,
                                    CertificateValid, SealValid
    <3> QED BY <1>1, <2>9, <2>11, <2>13, <3>1 DEF Built
  <2>15. \A k \in Jobs : k # j =>
           /\ (block[k] # NoBlock \/ call[k] \in {"built", "prepared"} => Built(k))'
           /\ (call[k] = "prepared" =>
                 /\ block[k].height = Len(ledger) + 1
                 /\ block[k].parent = Tip(Len(ledger))
                 /\ Cardinality(Votes(Len(ledger) + 1, k)) >= Quorum)'
        BY <1>1, <1>2, <2>13, OthersKept
  <2>16. Chain'
    <3>1. /\ \A k \in Jobs : base'[k] <= Len(ledger)
          /\ \A k \in Jobs : call[k] = "returned" => call'[k] = "returned"
          BY <1>0, <1>1, <2>1, <2>13 DEF Chain
    <3> QED BY <1>0, <1>1, <1>2, <3>1, ChainKept
  <2>17. Stages'
        BY <1>0, <1>1, <2>1, <2>13 DEF Stages
  <2>18. Blocks' /\ Prepared'
        BY <2>13, <2>14, <2>15 DEF Blocks, Prepared
  <2> QED BY <2>12, <2>16, <2>17, <2>18 DEF Inv
<1>4. CASE ~Passes
  <2>1. Return(j, "error")
        BY <1>4 DEF BuildBlock
  <2> QED BY <1>1, <1>2, <2>1, ReturnInv
<1> QED BY <1>3, <1>4

\* The votes for a block: only validators that have not voted at its height, and
\* that stand at its parent, add one.
LEMMA BroadcastInv ==
  ASSUME Inv, NEW j \in Jobs, Broadcast(j)
  PROVE  Inv'
<1>0. TypeInv /\ Chain /\ Stages /\ Blocks /\ Prepared
      BY DEF Inv
<1> DEFINE b == block[j]
           h == block[j].height
<1>1. call[j] = "built" /\ UNCHANGED <<config, ledger, height>>
      BY DEF Broadcast
<1>2. PICK reached \in Reached(Nodes) :
        LET votes == {v \in reached : CanVote(v, b)}
        IN  /\ voted' = [v \in Nodes |-> IF v \in votes
                                         THEN [voted[v] EXCEPT ![b.height] = j] ELSE voted[v]]
            /\ IF Cardinality(votes) >= Quorum
               THEN /\ call' = [call EXCEPT ![j] = "prepared"]
                    /\ UNCHANGED <<client, at, base, answers, request, asked, block>>
               ELSE Return(j, "error")
      BY DEF Broadcast
<1> DEFINE votes == {v \in reached : CanVote(v, b)}
<1>3. /\ voted' = [v \in Nodes |-> IF v \in votes THEN [voted[v] EXCEPT ![h] = j] ELSE voted[v]]
      /\ IF Cardinality(votes) >= Quorum
         THEN /\ call' = [call EXCEPT ![j] = "prepared"]
              /\ UNCHANGED <<client, at, base, answers, request, asked, block>>
         ELSE Return(j, "error")
      BY <1>2
<1>4. Built(j)
      BY <1>0, <1>1 DEF Blocks
<1>5. Len(ledger) + 1 \in 1..MaxJobs /\ Len(ledger) \in Nat
      BY <1>0, <1>1, LedgerShort DEF TypeInv
<1>6. h \in 1..(Len(ledger) + 1) /\ h \in 1..MaxJobs
  <2>1. h \in 1..(Len(ledger) + 1)
        BY <1>4 DEF Built
  <2> HIDE DEF h
  <2> QED BY <1>5, <2>1, JobsFinite
<1>7. votes \in SUBSET Nodes
      BY DEF Reached
<1>8. \A v \in votes : /\ h = height[v] + 1 /\ block[j].parent = Tip(height[v])
                       /\ voted[v][h] = NoBlock
      BY DEF CanVote
<1> HIDE DEF votes, h
<1>9. /\ \A v \in Nodes \ votes : voted'[v] = voted[v]
      /\ \A v \in votes : voted'[v] = [voted[v] EXCEPT ![h] = j]
      BY <1>3, <1>7
<1>10. \A v \in Nodes : voted[v] \in [1..MaxJobs -> Jobs \cup {NoBlock}]
      BY <1>0 DEF TypeInv
<1>11. VotesGrow
  <2>1. \A v \in Nodes : voted'[v] \in [1..MaxJobs -> Jobs \cup {NoBlock}]
    <3> SUFFICES ASSUME NEW v \in Nodes
                 PROVE  voted'[v] \in [1..MaxJobs -> Jobs \cup {NoBlock}]
        OBVIOUS
    <3>1. CASE v \in votes
      <4>1. voted'[v] = [voted[v] EXCEPT ![h] = j]
            BY <1>9, <3>1
      <4> QED BY <1>10, <4>1
    <3>2. CASE v \notin votes
          BY <1>9, <1>10, <3>2
    <3> QED BY <3>1, <3>2
  <2>2. voted' = [v \in Nodes |-> voted'[v]]
        BY <1>3
  <2>3. voted' \in [Nodes -> [1..MaxJobs -> Jobs \cup {NoBlock}]]
        BY <2>1, <2>2
  <2>4. ASSUME NEW v \in Nodes, NEW k \in 1..MaxJobs, voted[v][k] # NoBlock
        PROVE  voted'[v][k] = voted[v][k]
    <3>1. CASE v \in votes
      <4>1. k # h
            BY <1>8, <2>4, <3>1
      <4> QED BY <1>9, <1>10, <3>1, <4>1
    <3>2. CASE v \notin votes
          BY <1>9, <3>2
    <3> QED BY <3>1, <3>2
  <2> QED BY <2>3, <2>4 DEF VotesGrow
<1>12. CASE Cardinality(votes) >= Quorum
  <2>1. /\ call' = [call EXCEPT ![j] = "prepared"]
        /\ UNCHANGED <<client, at, base, answers, request, asked, block>>
        BY <1>3, <1>12
  <2>2. TypeInv'
        BY <1>0, <1>1, <1>11, <2>1 DEF TypeInv, config, VotesGrow
  <2>3. /\ \A k \in Jobs : k # j => call'[k] = call[k] /\ block'[k] = block[k]
        /\ call'[j] = "prepared" /\ block'[j] = block[j] /\ policy' = policy
        BY <1>0, <1>1, <2>1 DEF TypeInv, config
  <2>4. Chain'
    <3>1. /\ \A k \in Jobs : base'[k] <= Len(ledger)
          /\ \A k \in Jobs : call[k] = "returned" => call'[k] = "returned"
          BY <1>0, <1>1, <2>1, <2>3 DEF Chain
    <3> QED BY <1>0, <1>1, <1>11, <3>1, ChainKept
  <2>5. Stages'
        BY <1>0, <1>1, <2>1, <2>3 DEF Stages
  <2>6. Built(j)'
    <3>1. ValidateBlock(block[j])'
          BY <1>4, <2>3 DEF Built, ValidateBlock, EvidenceValid, ResultValid, CompetitionValid,
                            CertificateValid, SealValid
    <3> QED BY <1>1, <1>4, <2>3, <3>1 DEF Built
  <2>7. h = Len(ledger) + 1
    <3> SUFFICES ASSUME h # Len(ledger) + 1 PROVE FALSE
        OBVIOUS
    <3>1. h \in 1..Len(ledger) /\ ledger[h] \in Jobs
      <4>1. h \in 1..Len(ledger)
            BY <1>5, <1>6
      <4> QED BY <1>0, <4>1 DEF TypeInv
    <3>2. Cardinality(Votes(h, ledger[h])) >= Quorum /\ Votes(h, ledger[h]) \in SUBSET Nodes
          BY <1>0, <3>1 DEF Chain, Votes
    <3>3. PICK v \in Nodes : v \in votes /\ v \in Votes(h, ledger[h])
          BY <1>7, <1>12, <3>2, QuorumsMeet
    <3>4. voted[v][h] = NoBlock /\ voted[v][h] = ledger[h]
          BY <1>8, <3>3 DEF Votes
    <3> QED BY <3>1, <3>4, CompetitionAssumption
  <2>8. block[j].parent = Tip(Len(ledger))
    <3>1. PICK v \in Nodes : v \in votes
          BY <1>7, <1>12, QuorumNotEmpty
    <3>2. height[v] = Len(ledger)
      <4>1. height[v] \in Nat
            BY <1>0 DEF TypeInv
      <4>2. h = height[v] + 1
            BY <1>8, <3>1
      <4> QED BY <1>5, <2>7, <4>1, <4>2
    <3> QED BY <1>8, <3>1, <3>2
  <2>9. Cardinality({v \in Nodes : voted'[v][h] = j}) >= Quorum
    <3> DEFINE B == {v \in Nodes : voted'[v][h] = j}
    <3>1. votes \in SUBSET B
      <4> SUFFICES ASSUME NEW v \in votes PROVE v \in Nodes /\ voted'[v][h] = j
          OBVIOUS
      <4>1. v \in Nodes /\ voted'[v] = [voted[v] EXCEPT ![h] = j]
            BY <1>7, <1>9
      <4>2. voted[v] \in [1..MaxJobs -> Jobs \cup {NoBlock}]
            BY <1>10, <4>1
      <4> QED BY <1>6, <4>1, <4>2
    <3>2. IsFiniteSet(B)
      <4>1. B \in SUBSET Nodes
            OBVIOUS
      <4> HIDE DEF B
      <4> QED BY <4>1, NodesFinite, FS_Subset
    <3> HIDE DEF B
    <3>3. Cardinality(votes) <= Cardinality(B) /\ Cardinality(votes) \in Nat /\ Cardinality(B) \in Nat
          BY <3>1, <3>2, FS_Subset, FS_CardinalityType
    <3>4. Cardinality(B) >= Quorum
          BY <1>12, <3>3, NodesFinite
    <3> QED BY <3>4 DEF B
  <2>10. \A k \in Jobs : k # j =>
           /\ (block[k] # NoBlock \/ call[k] \in {"built", "prepared"} => Built(k))'
           /\ (call[k] = "prepared" =>
                 /\ block[k].height = Len(ledger) + 1
                 /\ block[k].parent = Tip(Len(ledger))
                 /\ Cardinality(Votes(Len(ledger) + 1, k)) >= Quorum)'
        BY <1>1, <1>11, <2>3, OthersKept
  <2>11. Blocks'
        BY <2>3, <2>6, <2>10 DEF Blocks
  <2>12. /\ block'[j].height = Len(ledger') + 1
         /\ block'[j].parent = Tip(Len(ledger))'
         /\ Cardinality(Votes(Len(ledger) + 1, j)') >= Quorum
    <3>1. Tip(Len(ledger))' = Tip(Len(ledger))
          BY <1>1 DEF Tip
    <3>2. Votes(Len(ledger) + 1, j)' = {v \in Nodes : voted'[v][h] = j}
          BY <1>1, <2>7 DEF Votes
    <3>3. h = block[j].height
          BY DEF h
    <3> QED BY <1>1, <2>3, <2>7, <2>8, <2>9, <3>1, <3>2, <3>3
  <2>13. Prepared'
        BY <2>3, <2>10, <2>12 DEF Prepared
  <2> QED BY <2>2, <2>4, <2>5, <2>11, <2>13 DEF Inv
<1>13. CASE ~(Cardinality(votes) >= Quorum)
  <2>1. Return(j, "error")
        BY <1>3, <1>13
  <2> QED BY <1>1, <1>11, <2>1, ReturnInv
<1> QED BY <1>12, <1>13

\* No other block of the height has a quorum, so the decided one is the next.
LEMMA CommitInv ==
  ASSUME Inv, NEW j \in Jobs, Commit(j)
  PROVE  Inv'
<1>0. TypeInv /\ Chain /\ Stages /\ Blocks /\ Prepared
      BY DEF Inv
<1> DEFINE n == Len(ledger) + 1
<1>1. call[j] = "prepared" /\ ledger' = Append(ledger, j) /\ UNCHANGED <<config, voted>>
      BY DEF Commit
<1>2. PICK reached \in Reached(Nodes), outcome \in {"ok", "error"} :
        height' = DeliverCommit(block[j], reached) /\ Return(j, outcome)
      BY DEF Commit
<1>3. block[j].height = n /\ Cardinality(Votes(n, j)) >= Quorum /\ n \in Nat
      BY <1>0, <1>1 DEF Prepared, TypeInv
<1>4. /\ policy' = policy /\ minerPolicy' = minerPolicy /\ endpoint' = endpoint
      /\ client' = [client EXCEPT ![j] = outcome]
      /\ base' = [base EXCEPT ![j] = 0]
      /\ answers' = [answers EXCEPT ![j] = <<>>]
      /\ request' = [request EXCEPT ![j] = <<>>]
      /\ call' = [call EXCEPT ![j] = "returned"]
      /\ block' = [block EXCEPT ![j] = NoBlock]
      BY <1>1, <1>2 DEF config, Return, EndRound
<1>5. /\ \A v \in Nodes : height'[v] \in {height[v], n}
      /\ height' = [v \in Nodes |-> height'[v]]
      BY <1>2, <1>3 DEF DeliverCommit
<1>6. /\ ledger' \in Seq(Jobs) /\ Len(ledger') = n
      /\ ledger'[n] = j /\ \A i \in 1..Len(ledger) : ledger'[i] = ledger[i]
      /\ Len(ledger) \in Nat
      BY <1>0, <1>1 DEF TypeInv
<1>7. TypeInv'
  <2>1. <<>> \in Seq(Answer) /\ <<>> \in Seq(Ticket)
        OBVIOUS
  <2>2. height' \in [Nodes -> Nat]
    <3>1. \A v \in Nodes : height'[v] \in Nat
          BY <1>0, <1>3, <1>5 DEF TypeInv
    <3> QED BY <1>5, <3>1
  <2> QED BY <1>0, <1>1, <1>4, <1>6, <2>1, <2>2 DEF TypeInv
<1>8. /\ \A k \in Jobs : k # j => /\ call'[k] = call[k] /\ block'[k] = block[k]
                                  /\ client'[k] = client[k] /\ base'[k] = base[k]
      /\ call'[j] = "returned" /\ block'[j] = NoBlock /\ base'[j] = 0 /\ client'[j] = outcome
      BY <1>0, <1>4 DEF TypeInv
<1>9. Chain'
  <2>0. \A i \in 1..n : i \in 1..Len(ledger) \/ i = n
        BY <1>6
  <2>1. \A v \in Nodes : height'[v] <= n
    <3> SUFFICES ASSUME NEW v \in Nodes PROVE height'[v] <= n
        OBVIOUS
    <3>1. height[v] \in Nat /\ height[v] <= Len(ledger)
          BY <1>0 DEF TypeInv, Chain
    <3> QED BY <1>5, <1>6, <3>1
  <2>2. \A k \in Jobs : base'[k] <= n
    <3> SUFFICES ASSUME NEW k \in Jobs PROVE base'[k] <= n
        OBVIOUS
    <3>1. base[k] \in Nat /\ base[k] <= Len(ledger)
          BY <1>0 DEF TypeInv, Chain
    <3> QED BY <1>6, <1>8, <3>1
  <2>3. \A i \in 1..Len(ledger) : ledger[i] \in Jobs /\ call[ledger[i]] = "returned" /\ ledger[i] # j
        BY <1>0, <1>1 DEF TypeInv, Chain
  <2>4. \A i \in 1..n : call'[ledger'[i]] = "returned"
        BY <1>6, <1>8, <2>0, <2>3
  <2>5. \A i, k \in 1..n : ledger'[i] = ledger'[k] => i = k
    <3>1. \A i, k \in 1..Len(ledger) : ledger[i] = ledger[k] => i = k
          BY <1>0 DEF Chain
    <3> HIDE DEF n
    <3> QED BY <1>6, <2>0, <2>3, <3>1
  <2>6. \A i \in 1..n : Cardinality(Votes(i, ledger[i])') >= Quorum
    <3> SUFFICES ASSUME NEW i \in 1..n PROVE Cardinality(Votes(i, ledger[i])') >= Quorum
        OBVIOUS
    <3>1. CASE i \in 1..Len(ledger)
      <4>1. Votes(i, ledger[i])' = Votes(i, ledger[i])
            BY <1>1, <1>6, <3>1 DEF Votes
      <4>2. Cardinality(Votes(i, ledger[i])) >= Quorum
            BY <1>0, <3>1 DEF Chain
      <4> QED BY <4>1, <4>2
    <3>2. CASE i = n
      <4>1. Votes(i, ledger[i])' = Votes(n, j)
            BY <1>1, <1>6, <3>2 DEF Votes
      <4> QED BY <1>3, <4>1
    <3> QED BY <2>0, <3>1, <3>2
  <2> HIDE DEF n
  <2> QED BY <1>6, <2>1, <2>2, <2>4, <2>5, <2>6 DEF Chain
<1>10. Stages'
      BY <1>0, <1>8 DEF Stages
<1>11. \A k \in Jobs : k # j => call[k] # "prepared"
  <2> SUFFICES ASSUME NEW k \in Jobs, call[k] = "prepared", k # j PROVE FALSE
      OBVIOUS
  <2>1. Cardinality(Votes(n, k)) >= Quorum
        BY <1>0 DEF Prepared
  <2>2. Votes(n, k) \in SUBSET Nodes /\ Votes(n, j) \in SUBSET Nodes
        BY DEF Votes
  <2>3. PICK v \in Nodes : v \in Votes(n, k) /\ v \in Votes(n, j)
    <3> HIDE DEF n
    <3> QED BY <1>3, <2>1, <2>2, QuorumsMeet
  <2> QED BY <2>3 DEF Votes
<1>12. Prepared'
      BY <1>8, <1>11 DEF Prepared
<1>13. Blocks'
  <2> SUFFICES ASSUME NEW k \in Jobs, (block[k] # NoBlock \/ call[k] \in {"built", "prepared"})'
               PROVE  Built(k)'
      BY DEF Blocks
  <2>1. k # j /\ block'[k] = block[k] /\ call'[k] = call[k]
        BY <1>8
  <2>2. Built(k)
        BY <1>0, <2>1 DEF Blocks
  <2>3. ValidateBlock(block[k])'
        BY <1>4, <2>1, <2>2 DEF Built, ValidateBlock, EvidenceValid, ResultValid,
                                CompetitionValid, CertificateValid, SealValid
  <2>4. block[k].height \in 1..(Len(ledger') + 1)
    <3>1. block[k].height \in 1..(Len(ledger) + 1)
          BY <2>2 DEF Built
    <3> QED BY <1>6, <3>1
  <2> QED BY <2>1, <2>2, <2>3, <2>4 DEF Built
<1> QED BY <1>7, <1>9, <1>10, <1>12, <1>13 DEF Inv

\* The coordinator gives up.
LEMMA GiveUpInv ==
  ASSUME Inv, NEW j \in Jobs, GiveUp(j)
  PROVE  Inv'
<1>0. TypeInv /\ Chain /\ Stages /\ Blocks /\ Prepared
      BY DEF Inv
<1>1. /\ client[j] = "asking" /\ UNCHANGED <<config, block, voted, ledger, height>>
      /\ call' = [call EXCEPT ![j] = IF @ = "waiting" THEN "returned" ELSE "cancelled"]
      /\ client' = [client EXCEPT ![j] = "error"]
      /\ base' = [base EXCEPT ![j] = 0]
      /\ answers' = [answers EXCEPT ![j] = <<>>]
      /\ request' = [request EXCEPT ![j] = <<>>]
      BY DEF GiveUp, EndRound
<1>2. TypeInv'
  <2>1. <<>> \in Seq(Answer) /\ <<>> \in Seq(Ticket)
        OBVIOUS
  <2> QED BY <1>0, <1>1, <2>1 DEF TypeInv, config
<1>3. /\ \A k \in Jobs : k # j => /\ call'[k] = call[k]
                                  /\ client'[k] = client[k] /\ base'[k] = base[k]
      /\ call'[j] \in {"returned", "cancelled"} /\ base'[j] = 0 /\ client'[j] = "error"
      /\ call[j] # "returned"
      BY <1>0, <1>1 DEF TypeInv, Stages
<1>4. Chain'
  <2>1. VotesGrow
        BY <1>0, <1>1 DEF VotesGrow, TypeInv
  <2>2. \A k \in Jobs : base'[k] <= Len(ledger)
    <3>1. 0 <= Len(ledger)
          BY <1>0 DEF TypeInv
    <3> QED BY <1>0, <1>3, <3>1 DEF Chain
  <2>3. \A k \in Jobs : call[k] = "returned" => call'[k] = "returned"
        BY <1>3
  <2> QED BY <1>0, <1>1, <1>3, <2>1, <2>2, <2>3, ChainKept
<1>5. Stages'
      BY <1>0, <1>3 DEF Stages
<1>6. Blocks'
      BY <1>0, <1>1, <1>3 DEF Blocks, Built, config, ValidateBlock, EvidenceValid, ResultValid,
                  CompetitionValid, CertificateValid, SealValid
<1>7. Prepared'
      BY <1>0, <1>1, <1>3 DEF Prepared, Tip, Votes
<1> QED BY <1>2, <1>4, <1>5, <1>6, <1>7 DEF Inv

\* Every step of every round preserves the invariant.
LEMMA NextInv == Inv /\ [Next]_vars => Inv'
<1> SUFFICES ASSUME Inv, [Next]_vars PROVE Inv'
    OBVIOUS
<1>1. ASSUME NEW j \in Jobs, ProposeFails(j) \/ Cancelled(j) PROVE Inv'
  <2>1. /\ call[j] # "returned" /\ Return(j, "error")
        /\ UNCHANGED <<config, voted, ledger, height>>
        BY <1>1 DEF ProposeFails, Cancelled
  <2>2. VotesGrow
        BY <2>1 DEF VotesGrow, Inv, TypeInv
  <2> QED BY <2>1, <2>2, ReturnInv
<1>2. CASE UNCHANGED vars
  <2>1. /\ TypeInv' /\ Stages'
        BY <1>2 DEF vars, config, Inv, TypeInv, Stages
  <2>2. Chain' /\ Prepared'
        BY <1>2 DEF vars, Inv, Chain, Prepared, Votes, Tip
  <2>3. Blocks'
        BY <1>2 DEF vars, config, Inv, Blocks, Built, ValidateBlock, EvidenceValid, ResultValid,
                    CompetitionValid, CertificateValid, SealValid
  <2> QED BY <2>1, <2>2, <2>3 DEF Inv
<1> QED BY <1>1, <1>2, StartInv, CollectInv, JudgeInv, BuildInv, BroadcastInv, CommitInv, GiveUpInv
    DEF Next, RoundStep

-----------------------------------------------------------------------------
(* Theorems *)

\* The inductive invariant holds in every reachable state.
THEOREM Invariance == Spec => []Inv
<1>1. Init => Inv
      BY InitInv
<1>2. Inv /\ [Next]_vars => Inv'
      BY NextInv
<1> QED BY <1>1, <1>2, PTL DEF Spec

\* Every validator accepts a block that Propose has built: coordinator, proposer and
\* voters find the same winner, for any number of miners, in whatever order their
\* answers came and however their work ties.
THEOREM ProposalsAreAccepted == Spec => []ProposalAccepted
<1>1. Inv => ProposalAccepted
      BY DEF Inv, Blocks, Built, ProposalAccepted
<1> QED BY <1>1, Invariance, PTL

\* MeetsDifficulty, SelectWinner and the checks of a block mean what they are for,
\* for hashes of any length, bytes of any width and every difficulty.
LEMMA AcceptedIsEarned ==
  ASSUME TypeInv, NEW b \in Block, ValidateBlock(b)
  PROVE  LET worked == ToSet(b.tickets)
         IN /\ Cardinality({t.miner : t \in worked}) >= Quorum
            /\ \A t \in worked :
                 /\ t.height = b.height /\ t.parent = b.parent /\ t.job = b.job
                 /\ t.result = Run(b.job, policy)
                 /\ ValueOf(t.work) < Pow2[Bits - policy.difficulty]
                 /\ ValueOf(b.winner.work) <= ValueOf(t.work)
            /\ b.winner \in worked /\ b.winner.miner = b.proposer
<1> DEFINE tickets == b.tickets
           worked == ToSet(tickets)
<1>1. tickets \in Seq(Ticket) /\ b.result \in Result
      BY DEF Block
<1>2. /\ EvidenceValid(b.height, b.parent, b.job, b.result, tickets)
      /\ SelectWinner(tickets) = b.winner /\ b.winner.miner = b.proposer
      BY DEF ValidateBlock
<1>3. Distinct(tickets) /\ Len(tickets) >= Quorum
      BY <1>2 DEF EvidenceValid, CompetitionValid, CertificateValid, Distinct
<1>4. Len(tickets) > 0
  <2>1. Quorum > 0 /\ Len(tickets) \in Nat
        BY <1>1, NodesFinite DEF Quorum
  <2> HIDE DEF tickets
  <2> QED BY <1>3, <2>1, NodesFinite
<1>5. /\ Cardinality({t.miner : t \in worked}) = Len(tickets)
      /\ worked \subseteq Ticket
  <2> HIDE DEF tickets
  <2> QED BY <1>1, <1>3, TicketSets
<1>6. b.winner \in worked /\ \A t \in worked : t # b.winner => Before(b.winner, t)
  <2> HIDE DEF tickets
  <2> QED BY <1>1, <1>2, <1>3, <1>4, WinnerIsBest
<1>7. policy \in Policy /\ policy.sound
      BY CompetitionAssumption DEF TypeInv
<1>8. ASSUME NEW t \in worked
      PROVE  /\ t.height = b.height /\ t.parent = b.parent /\ t.job = b.job
             /\ t.result = Run(b.job, policy)
             /\ ValueOf(t.work) < Pow2[Bits - policy.difficulty]
             /\ ValueOf(b.winner.work) <= ValueOf(t.work)
  <2>1. /\ t.height = b.height /\ t.parent = b.parent /\ t.job = b.job /\ t.result = b.result
        /\ t.difficulty = policy.difficulty /\ MeetsDifficulty(t.work, t.difficulty)
        BY <1>2 DEF EvidenceValid, CompetitionValid
  <2>2. t.zkml = policy.zkml /\ (t.zkml => b.result.sound)
        BY <1>2, <2>1 DEF EvidenceValid, CertificateValid
  <2>3. t.result = Run(b.job, policy)
    <3>1. /\ b.result.job = b.job /\ b.result.manifest = policy.manifest
          /\ b.result.zkml = policy.zkml /\ (b.result.sound \/ policy.zkml)
          BY <1>2 DEF EvidenceValid, ResultValid
    <3>2. b.result.sound = TRUE /\ policy.sound = TRUE
          BY <1>1, <1>7, <2>2, <3>1 DEF Result, Policy
    <3> QED BY <1>1, <2>1, <3>1, <3>2 DEF Run, Result
  <2>4. ValueOf(t.work) < Pow2[Bits - policy.difficulty]
    <3>1. t.work \in Hashes /\ policy.difficulty \in 0..(Bits - 1)
          BY <1>5, <1>7 DEF Ticket, Policy
    <3>2. MeetsDifficulty(t.work, policy.difficulty)
          BY <2>1
    <3> QED BY <3>1, <3>2, DifficultyIsBound
  <2>5. ValueOf(b.winner.work) <= ValueOf(t.work)
    <3>1. t \in Ticket /\ b.winner \in Ticket
          BY <1>5, <1>6
    <3>2. ValueOf(t.work) \in Nat /\ ValueOf(b.winner.work) \in Nat
          BY <3>1, BeforeIsOrder
    <3>3. CASE t = b.winner
          BY <3>2, <3>3
    <3>4. CASE t # b.winner
          BY <1>6, <3>1, <3>2, <3>4, BeforeIsOrder
    <3> QED BY <3>3, <3>4
  <2> QED BY <2>1, <2>3, <2>4, <2>5
<1> QED BY <1>2, <1>3, <1>5, <1>6, <1>8

\* A block with a quorum of votes extends the decided chain and was earned: a quorum
\* of different miners worked for it, and the proposer's number is the smallest.
THEOREM CertifiedBlocksAreEarned == Spec => []CertifiedIsEarned
<1>1. Inv => CertifiedIsEarned
  <2> SUFFICES ASSUME Inv, NEW j \in Jobs, call[j] = "prepared"
               PROVE  LET b == block[j]
                          worked == ToSet(b.tickets)
                      IN /\ b.height = Len(ledger) + 1 /\ b.parent = Tip(Len(ledger))
                         /\ Cardinality({t.miner : t \in worked}) >= Quorum
                         /\ \A t \in worked :
                              /\ t.height = b.height /\ t.parent = b.parent /\ t.job = j
                              /\ t.result = Run(j, policy)
                              /\ ValueOf(t.work) < Pow2[Bits - policy.difficulty]
                              /\ ValueOf(b.winner.work) <= ValueOf(t.work)
                         /\ b.winner \in worked /\ b.winner.miner = b.proposer
      BY DEF CertifiedIsEarned
  <2>1. block[j].height = Len(ledger) + 1 /\ block[j].parent = Tip(Len(ledger))
        BY DEF Inv, Prepared
  <2>2. block[j] \in Block /\ block[j].job = j /\ ValidateBlock(block[j]) /\ TypeInv
        BY DEF Inv, Blocks, Built
  <2> DEFINE b == block[j]
  <2>3. b \in Block /\ ValidateBlock(b) /\ b.job = j
        BY <2>2
  <2> HIDE DEF b
  <2>4. LET worked == ToSet(b.tickets)
        IN /\ Cardinality({t.miner : t \in worked}) >= Quorum
           /\ \A t \in worked :
                /\ t.height = b.height /\ t.parent = b.parent /\ t.job = b.job
                /\ t.result = Run(b.job, policy)
                /\ ValueOf(t.work) < Pow2[Bits - policy.difficulty]
                /\ ValueOf(b.winner.work) <= ValueOf(t.work)
           /\ b.winner \in worked /\ b.winner.miner = b.proposer
        BY <2>2, <2>3, AcceptedIsEarned
  <2> QED BY <2>1, <2>3, <2>4 DEF b
<1> QED BY <1>1, Invariance, PTL

-----------------------------------------------------------------------------
(* Who answers honestly is heard *)

\* An answer is what the miner behind the URL makes of the request.
AnswerOf(a, j) ==
  \E w \in Hashes :
    /\ CanMine(endpoint[a.from], w)
    /\ a.response = Mined(endpoint[a.from], base[j] + 1, Tip(base[j]), j, w)

\* A coordinator that judges has such answers, one per URL.
Answered ==
  \A j \in Jobs : client[j] = "judging" =>
    /\ \A i \in DOMAIN answers[j] : AnswerOf(answers[j][i], j)
    /\ \A i, k \in DOMAIN answers[j] : answers[j][i].from = answers[j][k].from => i = k

\* An answer stays one as long as the chain below it does.
LEMMA AnswerStays ==
  ASSUME Inv, UNCHANGED config, NEW k \in Jobs, NEW i,
         answers'[k] = answers[k], base'[k] = base[k],
         \A h \in 1..Len(ledger) : ledger'[h] = ledger[h],
         AnswerOf(answers[k][i], k)
  PROVE  AnswerOf(answers[k][i], k)'
<1> DEFINE a == answers[k][i]
<1>1. base[k] \in Nat /\ base[k] <= Len(ledger) /\ Len(ledger) \in Nat
      BY DEF Inv, TypeInv, Chain
<1>2. Tip(base[k])' = Tip(base[k])
  <2>1. base[k] # 0 => base[k] \in 1..Len(ledger)
        BY <1>1
  <2> QED BY <2>1 DEF Tip
<1>3. minerPolicy' = minerPolicy /\ endpoint' = endpoint
      BY DEF config
<1>4. PICK w \in Hashes :
        /\ CanMine(endpoint[a.from], w)
        /\ a.response = Mined(endpoint[a.from], base[k] + 1, Tip(base[k]), k, w)
      BY DEF AnswerOf
<1>5. a' = a
      OBVIOUS
<1> HIDE DEF a
<1>6. CanMine(endpoint[a.from], w)'
      BY <1>3, <1>4, <1>5 DEF CanMine
<1>7. Mined(endpoint[a.from], base[k] + 1, Tip(base[k]), k, w)'
        = Mined(endpoint[a.from], base[k] + 1, Tip(base[k]), k, w)
      BY <1>2, <1>3, <1>5 DEF Mined
<1>8. AnswerOf(a, k)'
      BY <1>4, <1>5, <1>6, <1>7 DEF AnswerOf
<1> QED BY <1>8 DEF a

\* A step that lets no round begin to judge.
LEMMA AnsweredKept ==
  ASSUME Inv, Answered, UNCHANGED config,
         \A k \in Jobs : client'[k] = "judging" =>
           client[k] = "judging" /\ answers'[k] = answers[k] /\ base'[k] = base[k],
         \A h \in 1..Len(ledger) : ledger'[h] = ledger[h]
  PROVE  Answered'
<1>1. ASSUME NEW k \in Jobs, client'[k] = "judging"
      PROVE  /\ \A i \in DOMAIN answers'[k] : AnswerOf(answers[k][i], k)'
             /\ \A i, n \in DOMAIN answers'[k] :
                  answers'[k][i].from = answers'[k][n].from => i = n
  <2>1. client[k] = "judging" /\ answers'[k] = answers[k] /\ base'[k] = base[k]
        BY <1>1
  <2>2. ASSUME NEW i \in DOMAIN answers[k] PROVE AnswerOf(answers[k][i], k)'
    <3>1. AnswerOf(answers[k][i], k)
          BY <2>1 DEF Answered
    <3> QED BY <2>1, <3>1, AnswerStays
  <2> QED BY <2>1, <2>2 DEF Answered
<1> QED BY <1>1 DEF Answered

\* collectTickets takes one answer per URL, made by the miner behind it.
LEMMA CollectAnswered ==
  ASSUME Inv, Answered, NEW j \in Jobs, CollectAnswers(j)
  PROVE  Answered'
<1>0. TypeInv /\ Chain
      BY DEF Inv
<1>1. /\ client' = [client EXCEPT ![j] = "judging"]
      /\ UNCHANGED <<config, at, base, request, asked, call, block, voted, ledger, height>>
      BY DEF CollectAnswers
<1>2. PICK work \in Luck :
      \E S \in Reached({m \in Nodes : CanMine(endpoint[m], work[endpoint[m]])}),
         order \in ArrivalOrders :
        answers' = [answers EXCEPT ![j] =
          LET arrived == Kept(order, {i \in DOMAIN order : order[i] \in S})
          IN [i \in DOMAIN arrived |->
               [from |-> arrived[i],
                response |-> Mined(endpoint[arrived[i]], base[j] + 1, Tip(base[j]), j,
                                   work[endpoint[arrived[i]]])]]]
      BY DEF CollectAnswers
<1>3. PICK S \in Reached({m \in Nodes : CanMine(endpoint[m], work[endpoint[m]])}),
           order \in ArrivalOrders :
        answers' = [answers EXCEPT ![j] =
          LET arrived == Kept(order, {i \in DOMAIN order : order[i] \in S})
          IN [i \in DOMAIN arrived |->
               [from |-> arrived[i],
                response |-> Mined(endpoint[arrived[i]], base[j] + 1, Tip(base[j]), j,
                                   work[endpoint[arrived[i]]])]]]
      BY <1>2
<1> DEFINE I == {i \in DOMAIN order : order[i] \in S}
           arrived == Kept(order, I)
           new == [i \in DOMAIN arrived |->
                    [from |-> arrived[i],
                     response |-> Mined(endpoint[arrived[i]], base[j] + 1, Tip(base[j]), j,
                                        work[endpoint[arrived[i]]])]]
<1>4. /\ order \in Seq(Nodes)
      /\ \A i, k \in DOMAIN order : i # k => order[i] # order[k]
  <2>1. /\ order \in [1..Cardinality(Nodes) -> Nodes]
        /\ \A i, k \in 1..Cardinality(Nodes) : i # k => order[i] # order[k]
        BY CompetitionAssumption DEF SetToSeqs
  <2> QED BY <2>1, NodesFinite
<1>5. I \in SUBSET DOMAIN order
      OBVIOUS
<1>6. \A m \in S : m \in Nodes /\ CanMine(endpoint[m], work[endpoint[m]])
      BY DEF Reached
<1>7. work \in [Nodes -> Hashes] /\ endpoint \in [Nodes -> Nodes]
      BY <1>0, CompetitionAssumption DEF TypeInv
<1>8. /\ DOMAIN arrived = 1..Cardinality(I)
      /\ \A k \in 1..Cardinality(I) : InOrder(I)[k] \in I /\ arrived[k] = order[InOrder(I)[k]]
      /\ \A k, m \in 1..Cardinality(I) : InOrder(I)[k] = InOrder(I)[m] => k = m
  <2> HIDE DEF I
  <2> QED BY <1>4, <1>5, KeptLists
<1>9. \A k \in DOMAIN arrived : arrived[k] \in S
  <2>1. \A i \in I : order[i] \in S
        OBVIOUS
  <2> HIDE DEF I, arrived
  <2> QED BY <1>8, <2>1
<1>10. \A k, m \in DOMAIN arrived : arrived[k] = arrived[m] => k = m
  <2> HIDE DEF I, arrived
  <2> QED BY <1>4, <1>5, <1>8
<1>11. answers' = [answers EXCEPT ![j] = new]
      BY <1>3
<1>12. answers'[j] = new /\ \A k \in Jobs : k # j => answers'[k] = answers[k]
  <2> HIDE DEF new
  <2> QED BY <1>0, <1>11 DEF TypeInv
<1>13. /\ minerPolicy' = minerPolicy /\ endpoint' = endpoint /\ Tip(base[j])' = Tip(base[j])
       /\ base' = base
      BY <1>1 DEF config, Tip
<1>14. ASSUME NEW i \in DOMAIN new PROVE AnswerOf(new[i], j)'
  <2> DEFINE m == arrived[i]
  <2>1. i \in DOMAIN arrived /\ m \in S /\ m \in Nodes
        BY <1>6, <1>9
  <2>2. new[i] = [from |-> m, response |-> Mined(endpoint[m], base[j] + 1, Tip(base[j]), j,
                                                 work[endpoint[m]])]
        BY <2>1
  <2>3. CanMine(endpoint[m], work[endpoint[m]]) /\ work[endpoint[m]] \in Hashes
        BY <1>6, <1>7, <2>1
  <2> DEFINE a == new[i]
  <2>4. a.from = m /\ a.response = Mined(endpoint[m], base[j] + 1, Tip(base[j]), j,
                                         work[endpoint[m]])
        BY <2>2
  <2>5. new' = new /\ m' = m
    <3>1. arrived' = arrived
          OBVIOUS
    <3> QED BY <1>13, <3>1 DEF Mined
  <2> HIDE DEF new, m, a
  <2> QED BY <1>13, <2>3, <2>4, <2>5 DEF AnswerOf, CanMine, Mined, a
<1>15. \A i, k \in DOMAIN new : new[i].from = new[k].from => i = k
  <2>1. \A i \in DOMAIN new : i \in DOMAIN arrived /\ new[i].from = arrived[i]
        OBVIOUS
  <2> HIDE DEF new, arrived
  <2> QED BY <1>10, <2>1
<1>16. ASSUME NEW k \in Jobs, client'[k] = "judging"
       PROVE  /\ \A i \in DOMAIN answers'[k] : AnswerOf(answers[k][i], k)'
              /\ \A i, n \in DOMAIN answers'[k] :
                   answers'[k][i].from = answers'[k][n].from => i = n
  <2>1. CASE k = j
    <3>1. new' = new
      <4>1. arrived' = arrived
            OBVIOUS
      <4> QED BY <1>13, <4>1 DEF Mined
    <3>2. \A i \in DOMAIN answers'[k] : AnswerOf(new[i], j)'
          BY <1>12, <1>14, <2>1
    <3> HIDE DEF new
    <3> QED BY <1>12, <1>15, <2>1, <3>1, <3>2
  <2>2. CASE k # j
    <3>1. client[k] = "judging" /\ answers'[k] = answers[k]
          BY <1>0, <1>1, <1>12, <1>16, <2>2 DEF TypeInv
    <3>2. \A i \in DOMAIN answers[k] : AnswerOf(answers[k][i], k)'
          BY <1>1, <3>1, AnswerStays DEF Answered, Inv
    <3> QED BY <3>1, <3>2 DEF Answered
  <2> QED BY <2>1, <2>2
<1> QED BY <1>16 DEF Answered

\* collectTickets selects the result of a quorum: a group that large has no rival.
LEMMA MajoritySelected ==
  ASSUME NEW arrived \in Seq(Answer), NEW r \in Result, NEW H,
         \A i, k \in DOMAIN arrived : arrived[i].from = arrived[k].from => i = k,
         \A a \in H : /\ \E i \in DOMAIN arrived : arrived[i] = a
                      /\ Counted(a) /\ a.response.result = r,
         Cardinality(H) >= Quorum
  PROVE  LET tickets == Selected(arrived)
         IN /\ Len(tickets) >= Quorum
            /\ \A i \in DOMAIN tickets : \E k \in DOMAIN arrived :
                 /\ Counted(arrived[k]) /\ arrived[k].response.result = r
                 /\ tickets[i] = arrived[k].response
            /\ \A i, k \in DOMAIN tickets : tickets[i].miner = tickets[k].miner => i = k
<1> DEFINE C == {i \in DOMAIN arrived : Counted(arrived[i])}
           counted == Kept(arrived, C)
           G(q) == {i \in DOMAIN counted : counted[i].response.result = q}
           Group(q) == Kept(counted, G(q))
           results == {a.response.result : a \in ToSet(counted)}
           Wins(q) == \A p \in results : \/ Len(Group(q)) > Len(Group(p))
                                         \/ Len(Group(q)) = Len(Group(p)) /\ HashOf(q) <= HashOf(p)
           chosen == CHOOSE q \in results : Wins(q)
           D == 1..Cardinality(C)
<1>1. Selected(arrived) = IF results = {} THEN <<>>
                          ELSE [i \in DOMAIN Group(chosen) |-> Group(chosen)[i].response]
      BY DEF Selected
<1>2. C \in SUBSET DOMAIN arrived /\ IsFiniteSet(C) /\ Cardinality(C) \in Nat
  <2>1. DOMAIN arrived = 1..Len(arrived) /\ Len(arrived) \in Nat
        OBVIOUS
  <2>2. IsFiniteSet(1..Len(arrived))
        BY <2>1, FS_Interval
  <2>3. C \in SUBSET DOMAIN arrived
        OBVIOUS
  <2> HIDE DEF C
  <2>4. IsFiniteSet(C)
        BY <2>1, <2>2, <2>3, FS_Subset
  <2> QED BY <2>3, <2>4, FS_CardinalityType
<1>3. /\ DOMAIN counted = D
      /\ \A k \in D : InOrder(C)[k] \in C /\ counted[k] = arrived[InOrder(C)[k]]
      /\ \A i \in C : \E k \in D : counted[k] = arrived[i]
      /\ \A k, m \in D : InOrder(C)[k] = InOrder(C)[m] => k = m
  <2> HIDE DEF C
  <2> QED BY <1>2, KeptLists
<1>4. counted \in Seq(Answer)
  <2> HIDE DEF C
  <2> QED BY <1>2, KeptType
<1>5. \A i \in C : i \in DOMAIN arrived /\ Counted(arrived[i])
      OBVIOUS
<1>6. \A i \in DOMAIN arrived : Counted(arrived[i]) => i \in C
      OBVIOUS
<1> HIDE DEF C, counted
<1>7. \A k, m \in D : counted[k].from = counted[m].from => k = m
      BY <1>3, <1>5
<1>8. IsFiniteSet(D) /\ Cardinality(D) = Cardinality(C)
  <2>1. 1 \in Int /\ Cardinality(C) \in Int
        BY <1>2
  <2>2. IsFiniteSet(D) /\ Cardinality(D) = IF 1 > Cardinality(C) THEN 0 ELSE Cardinality(C) - 1 + 1
        BY <2>1, FS_Interval
  <2> QED BY <1>2, <2>2
<1> HIDE DEF D
<1>9. Cardinality(D) <= N
  <2> DEFINE f == [k \in D |-> counted[k].from]
  <2>0. \A k \in DOMAIN counted : counted[k] \in Answer
        BY <1>4
  <2>1. \A k \in D : counted[k].from \in Nodes
        BY <1>3, <2>0 DEF Answer
  <2>2. f \in Injection(D, Nodes)
        BY <1>7, <2>1 DEF Injection, IsInjective
  <2> HIDE DEF f
  <2> QED BY <2>2, NodesFinite, FS_Injection
<1>10. ASSUME NEW q
       PROVE  /\ G(q) \subseteq D /\ IsFiniteSet(G(q)) /\ Cardinality(G(q)) \in Nat
              /\ Len(Group(q)) = Cardinality(G(q))
  <2>1. G(q) \in SUBSET D /\ G(q) \in SUBSET DOMAIN counted
        BY <1>3
  <2> HIDE DEF G
  <2>2. IsFiniteSet(G(q)) /\ Cardinality(G(q)) \in Nat
        BY <1>8, <2>1, FS_Subset, FS_CardinalityType
  <2>3. Len(Group(q)) = Cardinality(G(q))
        BY <1>4, <2>1, KeptLists
  <2> QED BY <2>1, <2>2, <2>3
<1>11. Cardinality(G(r)) >= Quorum
  <2> DEFINE J == G(r)
             f == [k \in J |-> counted[k]]
             I == {counted[k] : k \in J}
  <2>0. J \subseteq D /\ IsFiniteSet(J) /\ Cardinality(J) \in Nat
        BY <1>10
  <2>1. \A a \in H : a \in I
    <3> SUFFICES ASSUME NEW a \in H PROVE \E k \in J : counted[k] = a
        OBVIOUS
    <3>1. PICK i \in DOMAIN arrived : arrived[i] = a
          OBVIOUS
    <3>2. i \in C
          BY <1>6, <3>1
    <3>3. PICK k \in D : counted[k] = arrived[i]
          BY <1>3, <3>2
    <3> QED BY <1>3, <3>1, <3>3
  <2> HIDE DEF J
  <2>2. f \in Surjection(J, I)
        BY DEF Surjection
  <2>3. IsFiniteSet(I) /\ Cardinality(I) <= Cardinality(J) /\ Cardinality(I) \in Nat
    <3> HIDE DEF f, I
    <3> QED BY <2>0, <2>2, FS_Surjection, FS_CardinalityType
  <2>4. Cardinality(H) <= Cardinality(I) /\ Cardinality(H) \in Nat
    <3>1. H \in SUBSET I
          BY <2>1
    <3> HIDE DEF I
    <3> QED BY <2>3, <3>1, FS_Subset, FS_CardinalityType
  <2>5. Cardinality(J) >= Quorum
    <3> HIDE DEF I
    <3> QED BY <2>0, <2>3, <2>4, NodesFinite
  <2> QED BY <2>5 DEF J
<1>12. ASSUME NEW q, q # r PROVE Cardinality(G(q)) < Cardinality(G(r))
  <2>1. G(q) \cap G(r) = {}
        BY <1>12
  <2>2. G(q) \subseteq D /\ G(r) \subseteq D /\ Cardinality(G(q)) \in Nat /\ Cardinality(G(r)) \in Nat
        BY <1>10
  <2> HIDE DEF G
  <2>3. ~(Cardinality(G(q)) + Cardinality(G(r)) > Cardinality(D))
        BY <1>8, <2>1, <2>2, FS_MajoritiesIntersect
  <2>4. 2 * Quorum > N
        BY NodesFinite DEF Quorum
  <2> QED BY <1>2, <1>8, <1>9, <1>11, <2>2, <2>3, <2>4, NodesFinite
<1>13. r \in results
  <2>1. G(r) # {}
    <3>1. Quorum > 0
          BY NodesFinite DEF Quorum
    <3>2. Cardinality(G(r)) # 0
          BY <1>10, <1>11, <3>1, NodesFinite
    <3> QED BY <3>2, FS_EmptySet
  <2>2. PICK k \in DOMAIN counted : counted[k].response.result = r
        BY <2>1
  <2> QED BY <2>2 DEF ToSet
<1>14. HashOf(r) \in Int
      BY DEF HashOf, Result
<1>15. Wins(r)
  <2> SUFFICES ASSUME NEW p \in results
               PROVE  \/ Len(Group(r)) > Len(Group(p))
                      \/ Len(Group(r)) = Len(Group(p)) /\ HashOf(r) <= HashOf(p)
      OBVIOUS
  <2> HIDE DEF G, Group
  <2>1. /\ Len(Group(r)) = Cardinality(G(r)) /\ Len(Group(p)) = Cardinality(G(p))
        /\ Cardinality(G(r)) \in Nat /\ Cardinality(G(p)) \in Nat
        BY <1>10
  <2>2. CASE p = r
        BY <1>14, <2>2
  <2>3. CASE p # r
        BY <1>12, <2>1, <2>3
  <2> QED BY <2>2, <2>3
<1>16. ASSUME NEW q \in results, Wins(q) PROVE q = r
  <2> HIDE DEF G, Group
  <2>1. /\ Len(Group(r)) = Cardinality(G(r)) /\ Len(Group(q)) = Cardinality(G(q))
        /\ Cardinality(G(r)) \in Nat /\ Cardinality(G(q)) \in Nat
        BY <1>10
  <2>2. Len(Group(q)) > Len(Group(r)) \/ Len(Group(q)) = Len(Group(r))
        BY <1>13, <1>16
  <2> QED BY <1>12, <2>1, <2>2
<1>17. chosen = r
  <2> HIDE DEF Wins, results
  <2> QED BY <1>13, <1>15, <1>16
<1> DEFINE g == Group(r)
           tickets == [i \in DOMAIN g |-> g[i].response]
<1>18. Selected(arrived) = tickets
  <2> HIDE DEF chosen, Group, results
  <2>1. results # {}
        BY <1>13
  <2> QED BY <1>1, <1>17, <2>1
<1>19. /\ DOMAIN g = 1..Cardinality(G(r)) /\ Cardinality(G(r)) \in Nat
       /\ \A k \in DOMAIN g : InOrder(G(r))[k] \in G(r) /\ g[k] = counted[InOrder(G(r))[k]]
       /\ \A k, m \in DOMAIN g : InOrder(G(r))[k] = InOrder(G(r))[m] => k = m
  <2>1. G(r) \in SUBSET DOMAIN counted /\ Cardinality(G(r)) \in Nat
        BY <1>10
  <2> HIDE DEF G
  <2> QED BY <1>4, <2>1, KeptLists
<1>20. \A i \in G(r) : i \in D /\ counted[i].response.result = r
      BY <1>3
<1> HIDE DEF G, Group, g
<1>21. Len(tickets) >= Quorum
  <2>1. DOMAIN tickets = 1..Cardinality(G(r))
        BY <1>19
  <2>2. Len(tickets) = Cardinality(G(r))
        BY <1>19, <2>1
  <2> QED BY <1>11, <2>2
<1>22. ASSUME NEW i \in DOMAIN g
       PROVE  \E k \in DOMAIN arrived :
                 /\ Counted(arrived[k]) /\ arrived[k].response.result = r
                 /\ tickets[i] = arrived[k].response
  <2> DEFINE n == InOrder(G(r))[i]
             k == InOrder(C)[n]
  <2>1. n \in G(r) /\ g[i] = counted[n]
        BY <1>19
  <2>2. n \in D /\ counted[n].response.result = r
        BY <1>20, <2>1
  <2>3. k \in C /\ counted[n] = arrived[k]
        BY <1>3, <2>2
  <2>4. k \in DOMAIN arrived /\ Counted(arrived[k])
        BY <1>5, <2>3
  <2>5. tickets[i] = arrived[k].response
        BY <2>1, <2>3
  <2> HIDE DEF k, tickets
  <2> QED BY <2>2, <2>3, <2>4, <2>5
<1>23. ASSUME NEW i \in DOMAIN g, NEW k \in DOMAIN g, tickets[i].miner = tickets[k].miner
       PROVE  i = k
  <2> DEFINE n == InOrder(G(r))[i]
             m == InOrder(G(r))[k]
  <2>1. n \in D /\ m \in D /\ g[i] = counted[n] /\ g[k] = counted[m]
        BY <1>19, <1>20
  <2>2. \A x \in D : counted[x].response.miner = counted[x].from
        BY <1>3, <1>5 DEF Counted
  <2>3. tickets[i] = counted[n].response /\ tickets[k] = counted[m].response
        BY <2>1
  <2>4. counted[n].from = counted[m].from
        BY <1>23, <2>1, <2>2, <2>3
  <2>5. n = m
    <3> HIDE DEF n, m
    <3> QED BY <1>7, <2>1, <2>4
  <2> QED BY <1>19, <2>5
<1>24. DOMAIN tickets = DOMAIN g
      OBVIOUS
<1> HIDE DEF tickets
<1> QED BY <1>18, <1>21, <1>22, <1>23, <1>24

\* RunRound's checks pass when a quorum of the listed miners follows the validators'
\* policy and nobody else comes to their result.
LEMMA HonestPass ==
  ASSUME Inv, Answered, NEW j \in Jobs, client[j] = "judging",
         LET listed == {a \in ToSet(answers[j]) : endpoint[a.from] = a.from}
             honest == {a \in listed : minerPolicy[a.from] = policy}
         IN /\ Cardinality(honest) >= Quorum
            /\ \A a \in listed \ honest : a.response.result # Run(j, policy)
  PROVE  RoundValid(j, Selected(answers[j]))
<1> DEFINE arrived == answers[j]
           listed == {a \in ToSet(arrived) : endpoint[a.from] = a.from}
           honest == {a \in listed : minerPolicy[a.from] = policy}
           h == base[j] + 1
           parent == Tip(base[j])
           r == Run(j, policy)
           tickets == Selected(arrived)
<1>1. arrived \in Seq(Answer) /\ base[j] \in Nat /\ policy \in Policies
      BY DEF Inv, TypeInv
<1>2. policy \in Policy /\ policy.sound
      BY <1>1, CompetitionAssumption
<1>3. r \in Result
      BY <1>2 DEF Run, Result, Policy
<1>4. /\ \A i \in DOMAIN arrived : AnswerOf(arrived[i], j)
      /\ \A i, k \in DOMAIN arrived : arrived[i].from = arrived[k].from => i = k
      BY DEF Answered
<1>5. ASSUME NEW i \in DOMAIN arrived
      PROVE  /\ arrived[i] \in Answer
             /\ \E w \in Hashes : LET a == arrived[i]
                                      m == endpoint[a.from]
                                  IN CanMine(m, w) /\ a.response = Mined(m, h, parent, j, w)
             /\ arrived[i].response.miner = endpoint[arrived[i].from]
             /\ arrived[i].response.result = Run(j, minerPolicy[endpoint[arrived[i].from]])
  <2>1. arrived[i] \in Answer
        BY <1>1
  <2>2. PICK w \in Hashes : /\ CanMine(endpoint[arrived[i].from], w)
                            /\ arrived[i].response = Mined(endpoint[arrived[i].from], h, parent, j, w)
        BY <1>4 DEF AnswerOf
  <2> DEFINE m == endpoint[arrived[i].from]
  <2>3. Mined(m, h, parent, j, w).miner = m /\ Mined(m, h, parent, j, w).result = Run(j, minerPolicy[m])
    <3> HIDE DEF m, h, parent
    <3> QED BY DEF Mined
  <2> QED BY <2>1, <2>2, <2>3
<1>6. \A a \in honest : /\ \E i \in DOMAIN arrived : arrived[i] = a
                        /\ Counted(a) /\ a.response.result = r
  <2> SUFFICES ASSUME NEW a \in honest
               PROVE  /\ \E i \in DOMAIN arrived : arrived[i] = a
                      /\ Counted(a) /\ a.response.result = r
      OBVIOUS
  <2>1. PICK i \in DOMAIN arrived : arrived[i] = a
        BY DEF ToSet
  <2>2. endpoint[a.from] = a.from /\ minerPolicy[a.from] = policy
        OBVIOUS
  <2>3. a.response.miner = a.from /\ a.response.result = r
        BY <1>5, <2>1, <2>2
  <2> QED BY <2>1, <2>3 DEF Counted
<1>7. Cardinality(honest) >= Quorum /\ \A a \in listed \ honest : a.response.result # r
      OBVIOUS
<1>8. /\ Len(tickets) >= Quorum
      /\ \A i \in DOMAIN tickets : \E k \in DOMAIN arrived :
           /\ Counted(arrived[k]) /\ arrived[k].response.result = r
           /\ tickets[i] = arrived[k].response
      /\ \A i, k \in DOMAIN tickets : tickets[i].miner = tickets[k].miner => i = k
  <2> HIDE DEF arrived, honest, r
  <2> QED BY <1>1, <1>3, <1>4, <1>6, <1>7, MajoritySelected
<1>9. tickets \in Seq(Ticket)
  <2> HIDE DEF arrived
  <2> QED BY <1>1, SelectedType
<1>10. ASSUME NEW t \in ToSet(tickets)
       PROVE  /\ t.miner \in Nodes /\ t.height = h /\ t.parent = parent /\ t.job = j
              /\ t.result = r /\ t.difficulty = policy.difficulty /\ t.manifest = policy.manifest
              /\ t.samples = policy.samples /\ t.zkml = policy.zkml
              /\ MeetsDifficulty(t.work, t.difficulty)
  <2>1. PICK i \in DOMAIN tickets : tickets[i] = t
        BY DEF ToSet
  <2>2. PICK k \in DOMAIN arrived : /\ Counted(arrived[k]) /\ arrived[k].response.result = r
                                    /\ tickets[i] = arrived[k].response
        BY <1>8
  <2> DEFINE a == arrived[k]
             m == a.from
  <2>3. a \in Answer /\ endpoint[m] = m
        BY <1>5, <2>2 DEF Counted
  <2>4. a \in honest
    <3>1. a \in listed
          BY <2>3 DEF ToSet
    <3> QED BY <1>7, <2>2, <3>1
  <2>5. minerPolicy[m] = policy /\ m \in Nodes
        BY <2>3, <2>4 DEF Answer
  <2>6. PICK w \in Hashes : CanMine(m, w) /\ a.response = Mined(m, h, parent, j, w)
        BY <1>5, <2>3
  <2>7. t = Mined(m, h, parent, j, w)
        BY <2>1, <2>2, <2>6
  <2> HIDE DEF m, h, parent
  <2>8. /\ t.miner = m /\ t.height = h /\ t.parent = parent /\ t.job = j
        /\ t.difficulty = policy.difficulty /\ t.manifest = policy.manifest
        /\ t.samples = policy.samples /\ t.zkml = policy.zkml /\ t.work = w
        BY <2>5, <2>7 DEF Mined
  <2>9. t.result = r
        BY <2>1, <2>2
  <2>10. MeetsDifficulty(w, policy.difficulty)
        BY <2>5, <2>6 DEF CanMine
  <2> QED BY <2>5, <2>8, <2>9, <2>10
<1>11. tickets[1].result = r
  <2>1. Quorum > 0 /\ Len(tickets) \in Nat /\ DOMAIN tickets = 1..Len(tickets)
    <3> HIDE DEF tickets
    <3> QED BY <1>9, NodesFinite DEF Quorum
  <2>2. 1 \in DOMAIN tickets
    <3> HIDE DEF tickets
    <3> QED BY <1>8, <2>1, NodesFinite
  <2>3. tickets[1] \in ToSet(tickets)
        BY <2>2 DEF ToSet
  <2> HIDE DEF tickets, r
  <2> QED BY <1>10, <2>3
<1>12. ResultValid(j, r)
      BY <1>2 DEF ResultValid, Run
<1>13. policy.samples \in 0..2
      BY <1>2 DEF Policy
<1> HIDE DEF arrived, honest, listed, h, parent, tickets
<1>14. CompetitionValid(h, parent, j, r, tickets)
  <2>1. \A t \in ToSet(tickets) : SealValid(t)
        BY <1>10, <1>13 DEF SealValid
  <2> HIDE DEF r
  <2> QED BY <1>8, <1>10, <2>1 DEF CompetitionValid
<1>15. CertificateValid(h, parent, j, r, tickets)
  <2>1. r.sound
        BY <1>2 DEF Run
  <2> HIDE DEF r
  <2> QED BY <1>8, <1>10, <2>1 DEF CertificateValid
<1> QED BY <1>8, <1>11, <1>12, <1>14, <1>15 DEF RoundValid, EvidenceValid, tickets, arrived, h, parent

\* A round that does not go on to judge: its answers are gone, the others' stay.
LEMMA RoundLeaves ==
  ASSUME Inv, Answered, UNCHANGED config, NEW j \in Jobs, NEW stage, stage # "judging",
         NEW h, NEW s,
         client' = [client EXCEPT ![j] = stage],
         base' = base \/ base' = [base EXCEPT ![j] = h],
         answers' = answers \/ answers' = [answers EXCEPT ![j] = s],
         \A i \in 1..Len(ledger) : ledger'[i] = ledger[i]
  PROVE  Answered'
<1>1. ASSUME NEW k \in Jobs, client'[k] = "judging"
      PROVE  client[k] = "judging" /\ answers'[k] = answers[k] /\ base'[k] = base[k]
  <2>1. k # j /\ client[k] = "judging"
        BY <1>1 DEF Inv, TypeInv
  <2> QED BY <2>1 DEF Inv, TypeInv
<1> QED BY <1>1, AnsweredKept

\* No step makes an answer of what is none.
LEMMA NextAnswered == Inv /\ Answered /\ [Next]_vars => Answered'
<1> SUFFICES ASSUME Inv, Answered, [Next]_vars PROVE Answered'
    OBVIOUS
<1>1. ASSUME NEW j \in Jobs, NEW outcome \in {"ok", "error"}, EndRound(j, outcome),
             UNCHANGED config, \A i \in 1..Len(ledger) : ledger'[i] = ledger[i]
      PROVE  Answered'
  <2>1. /\ client' = [client EXCEPT ![j] = outcome]
        /\ base' = [base EXCEPT ![j] = 0]
        /\ answers' = [answers EXCEPT ![j] = <<>>]
        BY <1>1 DEF EndRound
  <2>2. outcome # "judging"
        OBVIOUS
  <2> QED BY <1>1, <2>1, <2>2, RoundLeaves
<1>2. ASSUME UNCHANGED <<config, client, base, answers, ledger>> PROVE Answered'
      BY <1>2, AnsweredKept
<1>3. ASSUME NEW j \in Jobs, NEW c \in Coordinators, StartRound(j, c) PROVE Answered'
  <2>1. /\ client' = [client EXCEPT ![j] = "mining"]
        /\ base' = [base EXCEPT ![j] = height[c]]
        /\ UNCHANGED <<config, answers, ledger>>
        BY <1>3 DEF StartRound
  <2> QED BY <2>1, RoundLeaves
<1>4. ASSUME NEW j \in Jobs, Judge(j) PROVE Answered'
  <2>1. UNCHANGED <<config, ledger>>
        BY <1>4 DEF Judge
  <2>2. CASE RoundValid(j, Selected(answers[j]))
    <3>1. /\ client' = [client EXCEPT ![j] = "asking"]
          /\ answers' = [answers EXCEPT ![j] = <<>>]
          /\ UNCHANGED base
          BY <1>4, <2>2 DEF Judge
    <3> QED BY <2>1, <3>1, RoundLeaves
  <2>3. CASE ~RoundValid(j, Selected(answers[j]))
    <3>1. EndRound(j, "error")
          BY <1>4, <2>3 DEF Judge
    <3> QED BY <1>1, <2>1, <3>1
  <2> QED BY <2>2, <2>3
<1>5. ASSUME NEW j \in Jobs, BuildBlock(j) PROVE Answered'
  <2>1. UNCHANGED <<config, ledger>>
        BY <1>5 DEF BuildBlock
  <2>2. UNCHANGED <<client, base, answers>> \/ EndRound(j, "error")
        BY <1>5 DEF BuildBlock, Return
  <2> QED BY <1>1, <1>2, <2>1, <2>2
<1>6. ASSUME NEW j \in Jobs, Broadcast(j) PROVE Answered'
  <2>1. UNCHANGED <<config, ledger>>
        BY <1>6 DEF Broadcast
  <2>2. UNCHANGED <<client, base, answers>> \/ EndRound(j, "error")
        BY <1>6 DEF Broadcast, Return
  <2> QED BY <1>1, <1>2, <2>1, <2>2
<1>7. ASSUME NEW j \in Jobs, Commit(j) PROVE Answered'
  <2>1. ledger' = Append(ledger, j) /\ UNCHANGED config
        BY <1>7 DEF Commit
  <2>2. \E outcome \in {"ok", "error"} : EndRound(j, outcome)
    <3>1. PICK reached \in Reached(Nodes) :
            Return(j, IF Cardinality({v \in reached : height'[v] = block[j].height}) >= Quorum
                      THEN "ok" ELSE "error")
          BY <1>7 DEF Commit
    <3> QED BY <3>1 DEF Return
  <2>3. \A i \in 1..Len(ledger) : ledger'[i] = ledger[i]
        BY <2>1 DEF Inv, TypeInv
  <2> QED BY <1>1, <2>1, <2>2, <2>3
<1>8. ASSUME NEW j \in Jobs, Cancelled(j) \/ ProposeFails(j) \/ GiveUp(j) PROVE Answered'
  <2>1. EndRound(j, "error") /\ UNCHANGED <<config, ledger>>
        BY <1>8 DEF Cancelled, ProposeFails, GiveUp, Return
  <2> QED BY <1>1, <2>1
<1>9. CASE UNCHANGED vars
      BY <1>2, <1>9 DEF vars
<1> QED BY <1>3, <1>4, <1>5, <1>6, <1>7, <1>8, <1>9, CollectAnswered DEF Next, RoundStep

\* Only RunRound's own verdict ends a round that judges.
LEMMA OnlyJudgeRefuses ==
  ASSUME Inv, [Next]_vars, NEW j \in Jobs, client[j] = "judging", client'[j] = "error"
  PROVE  Judge(j) /\ ~RoundValid(j, Selected(answers[j]))
<1>0. call[j] = "none" /\ client \in [Jobs -> {"new", "mining", "judging", "asking", "ok", "error"}]
      BY DEF Inv, Stages, TypeInv
<1>1. ASSUME NEW k \in Jobs, NEW stage, client' = [client EXCEPT ![k] = stage] PROVE k = j /\ stage = "error"
      BY <1>0, <1>1
<1>2. ASSUME UNCHANGED client PROVE FALSE
      BY <1>2
<1>3. ASSUME NEW k \in Jobs, NEW c \in Coordinators, StartRound(k, c) PROVE FALSE
  <2>1. client' = [client EXCEPT ![k] = "mining"]
        BY <1>3 DEF StartRound
  <2> QED BY <1>1, <2>1
<1>4. ASSUME NEW k \in Jobs, CollectAnswers(k) PROVE FALSE
  <2>1. client' = [client EXCEPT ![k] = "judging"]
        BY <1>4 DEF CollectAnswers
  <2> QED BY <1>1, <2>1
<1>5. ASSUME NEW k \in Jobs, Judge(k) PROVE k = j /\ ~RoundValid(k, Selected(answers[k]))
  <2>1. CASE RoundValid(k, Selected(answers[k]))
    <3>1. client' = [client EXCEPT ![k] = "asking"]
          BY <1>5, <2>1 DEF Judge
    <3> QED BY <1>1, <3>1
  <2>2. CASE ~RoundValid(k, Selected(answers[k]))
    <3>1. client' = [client EXCEPT ![k] = "error"]
          BY <1>5, <2>2 DEF Judge, EndRound
    <3> QED BY <1>1, <2>2, <3>1
  <2> QED BY <2>1, <2>2
<1>6. ASSUME NEW k \in Jobs,
             \/ BuildBlock(k) \/ Broadcast(k) \/ Commit(k) \/ Cancelled(k)
             \/ ProposeFails(k) \/ GiveUp(k)
      PROVE  FALSE
  <2>1. call[k] # "none" \/ client[k] = "asking"
        BY <1>6 DEF BuildBlock, Broadcast, Commit, Cancelled, ProposeFails, GiveUp
  <2>2. UNCHANGED client \/ \E o : client' = [client EXCEPT ![k] = o]
        BY <1>6 DEF BuildBlock, Broadcast, Commit, Cancelled, ProposeFails, GiveUp, Return, EndRound
  <2> QED BY <1>0, <1>1, <1>2, <2>1, <2>2
<1>7. ~UNCHANGED vars
      BY <1>2 DEF vars
<1> QED BY <1>3, <1>4, <1>5, <1>6, <1>7 DEF Next, RoundStep

\* A round is refused only for a reason: too few miners that follow the validators'
\* policy were heard, or one that computes the right result has otherwise not followed it.
THEOREM HonestQuorumIsHeard == Spec => HonestQuorumSuffices
<1>1. Init => Answered
      BY DEF Init, Answered
<1>2. Inv /\ Answered /\ [Next]_vars => Answered'
      BY NextAnswered
<1> DEFINE Reason ==
      \A j \in Jobs : client[j] = "judging" /\ client'[j] = "error" =>
        LET listed == {a \in ToSet(answers[j]) : endpoint[a.from] = a.from}
            honest == {a \in listed : minerPolicy[a.from] = policy}
        IN \/ Cardinality(honest) < Quorum
           \/ \E a \in listed \ honest : a.response.result = Run(j, policy)
<1>3. Inv /\ Answered /\ [Next]_vars => [Reason]_vars
  <2> SUFFICES ASSUME Inv, Answered, [Next]_vars, NEW j \in Jobs,
                      client[j] = "judging", client'[j] = "error"
               PROVE  LET listed == {a \in ToSet(answers[j]) : endpoint[a.from] = a.from}
                          honest == {a \in listed : minerPolicy[a.from] = policy}
                      IN \/ Cardinality(honest) < Quorum
                         \/ \E a \in listed \ honest : a.response.result = Run(j, policy)
      OBVIOUS
  <2>1. ~RoundValid(j, Selected(answers[j]))
        BY OnlyJudgeRefuses
  <2> DEFINE listed == {a \in ToSet(answers[j]) : endpoint[a.from] = a.from}
             honest == {a \in listed : minerPolicy[a.from] = policy}
  <2>2. Cardinality(honest) \in Nat /\ Quorum \in Nat
    <3>1. answers[j] \in Seq(Answer)
          BY DEF Inv, TypeInv
    <3>2. DOMAIN answers[j] = 1..Len(answers[j]) /\ Len(answers[j]) \in Nat
          BY <3>1
    <3>3. IsFiniteSet(DOMAIN answers[j])
          BY <3>2, FS_Interval
    <3> DEFINE D == DOMAIN answers[j]
               f == [i \in D |-> answers[j][i]]
    <3>4. f \in Surjection(D, ToSet(answers[j]))
          BY DEF ToSet, Surjection
    <3>5. IsFiniteSet(ToSet(answers[j]))
      <4> HIDE DEF D, f
      <4> QED BY <3>3, <3>4, FS_Surjection DEF D
    <3>6. honest \in SUBSET ToSet(answers[j])
          OBVIOUS
    <3> HIDE DEF honest
    <3> QED BY <3>5, <3>6, FS_Subset, FS_CardinalityType, NodesFinite
  <2>3. ~(/\ Cardinality(honest) >= Quorum
          /\ \A a \in listed \ honest : a.response.result # Run(j, policy))
        BY <2>1, HonestPass
  <2>4. \/ ~(Cardinality(honest) >= Quorum)
        \/ \E a \in listed \ honest : a.response.result = Run(j, policy)
        BY <2>3
  <2>5. ~(Cardinality(honest) >= Quorum) => Cardinality(honest) < Quorum
    <3> HIDE DEF honest
    <3> QED BY <2>2
  <2> QED BY <2>4, <2>5
<1> QED BY <1>1, <1>2, <1>3, Invariance, PTL DEF Spec, HonestQuorumSuffices
=============================================================================
