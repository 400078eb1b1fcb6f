--------------------------- MODULE SumsAndPowers ---------------------------
(***************************************************************************)
(* Sums of the values of a function over a finite set, and the powers of   *)
(* two: the facts about SumFunctionOnSet and Pow2 that the accounts of the *)
(* marketplace, the numbers of the work hashes and the levels of the       *)
(* Merkle trees rest on.                                                   *)
(*                                                                         *)
(* The induction is in a first-order form: a property is the set of the    *)
(* sets, or of the numbers, that have it.  A set of subsets of a finite    *)
(* set that is not empty has a minimal element, and so has a set of        *)
(* natural numbers.                                                        *)
(***************************************************************************)
EXTENDS FiniteSetsExt, Powers, FiniteSetTheorems, TLAPS

\* If T has the property whenever its proper subsets have, all sets have.
LEMMA FiniteInduction ==
  ASSUME NEW S, IsFiniteSet(S), NEW Good,
         \A T \in SUBSET S : (\A U \in SUBSET T : U # T => U \in Good) => T \in Good
  PROVE  \A T \in SUBSET S : T \in Good
<1> SUFFICES ASSUME NEW X \in SUBSET S, X \notin Good PROVE FALSE
    OBVIOUS
<1> DEFINE Bad == {T \in SUBSET S : T \notin Good}
           R == StrictSubsetOrdering(S)
           F == FiniteSubsetsOf(S)
<1>1. F = SUBSET S
      BY FS_FiniteSubsetsOfFinite
<1>2. IsWellFoundedOn(R, F)
      BY FS_StrictSubsetOrderingWellFounded
<1>3. Bad \subseteq F /\ Bad # {}
      BY <1>1
<1>4. \E T \in Bad : \A U \in Bad : ~(<<U, T>> \in R)
  <2> HIDE DEF Bad, R, F
  <2> QED BY <1>2, <1>3, WFMin
<1>5. PICK T \in Bad : \A U \in Bad : ~(<<U, T>> \in StrictSubsetOrdering(S))
      BY <1>4
<1>6. \A U \in SUBSET T : U # T => U \in Good
      BY <1>5 DEF StrictSubsetOrdering
<1> QED BY <1>5, <1>6

\* Induction over the natural numbers, for a property given as a set.
LEMMA NatSetInduction ==
  ASSUME NEW Good, 0 \in Good, \A n \in Nat : n \in Good => n + 1 \in Good
  PROVE  \A n \in Nat : n \in Good
<1> SUFFICES ASSUME NEW m \in Nat PROVE m \in Good
    OBVIOUS
<1> DEFINE S == 0..m
           Upto == {T \in SUBSET S : \A k \in S : T = 0..k => k \in Good}
<1>1. IsFiniteSet(S)
      BY FS_Interval
<1>2. ASSUME NEW T \in SUBSET S, \A U \in SUBSET T : U # T => U \in Upto
      PROVE  T \in Upto
  <2> SUFFICES ASSUME NEW k \in S, T = 0..k PROVE k \in Good
      OBVIOUS
  <2>1. CASE k = 0
        BY <2>1
  <2>2. CASE k # 0
    <3>1. 0..(k - 1) \in SUBSET T /\ 0..(k - 1) # T
      <4>1. k \in T /\ k \notin 0..(k - 1)
            OBVIOUS
      <4> QED BY <4>1
    <3>2. k - 1 \in S /\ k - 1 \in Nat /\ (k - 1) + 1 = k
          BY <2>2
    <3>3. k - 1 \in Good
          BY <1>2, <3>1, <3>2
    <3> QED BY <3>2, <3>3
  <2> QED BY <2>1, <2>2
<1>3. \A T \in SUBSET S : T \in Upto
  <2> HIDE DEF S, Upto
  <2> QED BY <1>1, <1>2, FiniteInduction
<1>4. 0..m \in Upto
      BY <1>3
<1> QED BY <1>4

-----------------------------------------------------------------------------
(* The fold is well defined *)

Chosen(s) == CHOOSE x \in s : TRUE

\* g is the recursive function the sum over S is defined by.
Folds(f, S, g) ==
  g = [s \in SUBSET S |-> IF s = {} THEN 0 ELSE f[Chosen(s)] + g[s \ {Chosen(s)}]]

\* The sum is the value of that function at S.
LEMMA SumIsFold ==
  ASSUME NEW f, NEW S
  PROVE  SumFunctionOnSet(f, S) = (CHOOSE g : Folds(f, S, g))[S]
  BY DEF SumFunctionOnSet, FoldFunctionOnSet, MapThenFoldSet, Folds, Chosen

\* What is chosen is an element.
LEMMA ChosenIn == \A s : s # {} => Chosen(s) \in s
  BY DEF Chosen

\* Folds over a set and over a subset of it agree on what both are defined for.
LEMMA FoldsAgree ==
  ASSUME NEW f, NEW S, IsFiniteSet(S), NEW T \in SUBSET S, NEW g, NEW h,
         Folds(f, S, g), Folds(f, T, h)
  PROVE  \A s \in SUBSET T : g[s] = h[s]
<1> DEFINE Good == {s \in SUBSET T : g[s] = h[s]}
<1>0. IsFiniteSet(T)
      BY FS_Subset
<1>1. ASSUME NEW s \in SUBSET T, \A u \in SUBSET s : u # s => u \in Good
      PROVE  s \in Good
  <2>1. CASE s = {}
        BY <2>1 DEF Folds
  <2>2. CASE s # {}
    <3> DEFINE u == s \ {Chosen(s)}
    <3>1. Chosen(s) \in s
          BY <2>2, ChosenIn
    <3>2. u \in SUBSET s /\ u # s
          BY <3>1
    <3>3. g[u] = h[u]
          BY <1>1, <3>2
    <3>4. g[s] = f[Chosen(s)] + g[u] /\ h[s] = f[Chosen(s)] + h[u]
          BY <2>2 DEF Folds
    <3> QED BY <3>3, <3>4
  <2> QED BY <2>1, <2>2
<1>2. \A s \in SUBSET T : s \in Good
  <2> HIDE DEF Good
  <2> QED BY <1>0, <1>1, FiniteInduction
<1> QED BY <1>2

\* There is a fold over every finite set.
LEMMA FoldExists ==
  ASSUME NEW f, NEW S, IsFiniteSet(S)
  PROVE  \A T \in SUBSET S : \E g : Folds(f, T, g)
<1> DEFINE Good == {T \in SUBSET S : \E g : Folds(f, T, g)}
<1>1. ASSUME NEW T \in SUBSET S, \A U \in SUBSET T : U # T => U \in Good
      PROVE  T \in Good
  <2> DEFINE G(U) == CHOOSE g : Folds(f, U, g)
             val(u) == IF u = {} THEN 0 ELSE G(u)[u]
             g == [s \in SUBSET T |->
                     IF s = {} THEN 0 ELSE f[Chosen(s)] + val(s \ {Chosen(s)})]
  <2>1. \A U \in SUBSET T : U # T => Folds(f, U, G(U))
        BY <1>1
  <2>2. ASSUME NEW u \in SUBSET T, u # T
        PROVE  g[u] = val(u)
    <3>1. CASE u = {}
          BY <3>1
    <3>2. CASE u # {}
      <4> DEFINE w == u \ {Chosen(u)}
      <4>1. Chosen(u) \in u
            BY <3>2, ChosenIn
      <4>2. w \in SUBSET u /\ w \in SUBSET T /\ w # T
            BY <2>2, <4>1
      <4>3. Folds(f, u, G(u)) /\ Folds(f, w, G(w))
            BY <2>1, <2>2, <4>2
      <4>4. IsFiniteSet(u)
            BY FS_Subset
      <4>5. G(u)[w] = G(w)[w]
        <5> HIDE DEF G, w
        <5> QED BY <4>2, <4>3, <4>4, FoldsAgree
      <4>6. G(u)[u] = f[Chosen(u)] + G(u)[w]
        <5> HIDE DEF G
        <5> QED BY <3>2, <4>3 DEF Folds
      <4>7. val(w) = G(w)[w]
        <5>1. CASE w = {}
          <6>1. G(w)[w] = 0
            <7> HIDE DEF G, w
            <7> QED BY <4>3, <5>1 DEF Folds
          <6> QED BY <5>1, <6>1
        <5>2. CASE w # {}
              BY <5>2
        <5> QED BY <5>1, <5>2
      <4>8. g[u] = f[Chosen(u)] + val(w)
            BY <3>2
      <4>9. val(u) = G(u)[u]
            BY <3>2
      <4> HIDE DEF G, val, g, w
      <4> QED BY <4>5, <4>6, <4>7, <4>8, <4>9
    <3> QED BY <3>1, <3>2
  <2>3. \A s \in SUBSET T : s # {} => g[s \ {Chosen(s)}] = val(s \ {Chosen(s)})
    <3> SUFFICES ASSUME NEW s \in SUBSET T, s # {}
                 PROVE  g[s \ {Chosen(s)}] = val(s \ {Chosen(s)})
        OBVIOUS
    <3>1. Chosen(s) \in s
          BY ChosenIn
    <3>2. s \ {Chosen(s)} \in SUBSET T /\ s \ {Chosen(s)} # T
          BY <3>1
    <3> HIDE DEF val, g
    <3> QED BY <2>2, <3>2
  <2>4. Folds(f, T, g)
    <3>1. g = [s \in SUBSET T |->
                 IF s = {} THEN 0 ELSE f[Chosen(s)] + val(s \ {Chosen(s)})]
          OBVIOUS
    <3> HIDE DEF val, g
    <3> QED BY <2>3, <3>1 DEF Folds
  <2> QED BY <2>4
<1>2. \A T \in SUBSET S : T \in Good
  <2> HIDE DEF Good
  <2> QED BY <1>1, FiniteInduction
<1> QED BY <1>2

-----------------------------------------------------------------------------
(* What the sum is *)

\* The sum over a set is the chosen element's value and the sum over the others.
LEMMA SumUnfolds ==
  ASSUME NEW f, NEW S, IsFiniteSet(S)
  PROVE  /\ S = {} => SumFunctionOnSet(f, S) = 0
         /\ S # {} => SumFunctionOnSet(f, S)
                        = f[Chosen(S)] + SumFunctionOnSet(f, S \ {Chosen(S)})
<1> DEFINE G(U) == CHOOSE g : Folds(f, U, g)
           T == S \ {Chosen(S)}
<1>1. T \in SUBSET S /\ IsFiniteSet(T)
      BY FS_RemoveElement
<1>2. Folds(f, S, G(S)) /\ Folds(f, T, G(T))
      BY <1>1, FoldExists
<1>3. SumFunctionOnSet(f, S) = G(S)[S] /\ SumFunctionOnSet(f, T) = G(T)[T]
      BY SumIsFold
<1>4. G(S)[T] = G(T)[T]
  <2> HIDE DEF G, T
  <2> QED BY <1>1, <1>2, FoldsAgree
<1>5. G(S)[S] = IF S = {} THEN 0 ELSE f[Chosen(S)] + G(S)[T]
  <2> HIDE DEF G
  <2> QED BY <1>2 DEF Folds
<1> HIDE DEF G
<1> QED BY <1>3, <1>4, <1>5

\* Sums of integers are integers.
LEMMA SumType ==
  ASSUME NEW S, IsFiniteSet(S), NEW f, \A x \in S : f[x] \in Int
  PROVE  \A T \in SUBSET S : SumFunctionOnSet(f, T) \in Int
<1> DEFINE Good == {T \in SUBSET S : SumFunctionOnSet(f, T) \in Int}
<1>1. ASSUME NEW T \in SUBSET S, \A U \in SUBSET T : U # T => U \in Good
      PROVE  T \in Good
  <2>0. IsFiniteSet(T)
        BY FS_Subset
  <2>1. CASE T = {}
    <3>1. SumFunctionOnSet(f, T) = 0
          BY <2>0, <2>1, SumUnfolds
    <3> QED BY <3>1
  <2>2. CASE T # {}
    <3>1. Chosen(T) \in T
          BY <2>2, ChosenIn
    <3>2. T \ {Chosen(T)} \in Good
          BY <1>1, <3>1
    <3> QED BY <2>0, <2>2, <3>1, <3>2, SumUnfolds
  <2> QED BY <2>1, <2>2
<1>2. \A T \in SUBSET S : T \in Good
  <2> HIDE DEF Good
  <2> QED BY <1>1, FiniteInduction
<1> QED BY <1>2

\* Any element may be taken out of the sum first.
LEMMA SumRemove ==
  ASSUME NEW S, IsFiniteSet(S), NEW f, \A x \in S : f[x] \in Int
  PROVE  \A T \in SUBSET S : \A x \in T :
           SumFunctionOnSet(f, T) = f[x] + SumFunctionOnSet(f, T \ {x})
<1> DEFINE Sum(T) == SumFunctionOnSet(f, T)
           Good == {T \in SUBSET S : \A x \in T : Sum(T) = f[x] + Sum(T \ {x})}
<1>1. ASSUME NEW T \in SUBSET S, \A U \in SUBSET T : U # T => U \in Good
      PROVE  T \in Good
  <2> SUFFICES ASSUME NEW x \in T PROVE Sum(T) = f[x] + Sum(T \ {x})
      OBVIOUS
  <2> DEFINE c == Chosen(T)
  <2>0. IsFiniteSet(T) /\ c \in T
        BY FS_Subset, ChosenIn
  <2>1. Sum(T) = f[c] + Sum(T \ {c})
        BY <2>0, SumUnfolds
  <2>2. CASE x = c
        BY <2>1, <2>2
  <2>3. CASE x # c
    <3>1. T \ {c} \in Good /\ T \ {x} \in Good
          BY <1>1, <2>0
    <3>2. Sum(T \ {c}) = f[x] + Sum((T \ {c}) \ {x})
          BY <2>3, <3>1
    <3>3. Sum(T \ {x}) = f[c] + Sum((T \ {x}) \ {c})
          BY <2>0, <2>3, <3>1
    <3>4. (T \ {c}) \ {x} = (T \ {x}) \ {c}
          OBVIOUS
    <3>5. Sum((T \ {c}) \ {x}) \in Int /\ f[x] \in Int /\ f[c] \in Int
          BY <2>0, SumType
    <3> HIDE DEF Sum, c
    <3>6. Sum(T) = f[c] + (f[x] + Sum((T \ {c}) \ {x}))
          BY <2>1, <3>2
    <3>7. Sum(T \ {x}) = f[c] + Sum((T \ {c}) \ {x})
          BY <3>3, <3>4
    <3>8. \A a, b, t \in Int : a + (b + t) = b + (a + t)
          OBVIOUS
    <3> QED BY <3>5, <3>6, <3>7, <3>8
  <2> QED BY <2>2, <2>3
<1>2. \A T \in SUBSET S : T \in Good
  <2> HIDE DEF Good
  <2> QED BY <1>1, FiniteInduction
<1> QED BY <1>2

\* The sum over two sets that have no element in common.
LEMMA SumUnion ==
  ASSUME NEW S, IsFiniteSet(S), NEW f, \A x \in S : f[x] \in Int, NEW V \in SUBSET S
  PROVE  \A T \in SUBSET S : T \cap V = {} =>
           SumFunctionOnSet(f, T \cup V) = SumFunctionOnSet(f, T) + SumFunctionOnSet(f, V)
<1> DEFINE Sum(T) == SumFunctionOnSet(f, T)
           Good == {T \in SUBSET S : T \cap V = {} => Sum(T \cup V) = Sum(T) + Sum(V)}
<1>0. Sum(V) \in Int
      BY SumType
<1>1. ASSUME NEW T \in SUBSET S, \A U \in SUBSET T : U # T => U \in Good
      PROVE  T \in Good
  <2> SUFFICES ASSUME T \cap V = {} PROVE Sum(T \cup V) = Sum(T) + Sum(V)
      OBVIOUS
  <2>1. CASE T = {}
    <3>1. Sum(T) = 0
          BY <2>1, SumUnfolds, FS_EmptySet
    <3>2. Sum(T \cup V) = Sum(V)
      <4>1. T \cup V = V
            BY <2>1
      <4> QED BY <4>1
    <3> HIDE DEF Sum
    <3> QED BY <1>0, <3>1, <3>2
  <2>2. CASE T # {}
    <3> PICK x \in T : TRUE
        BY <2>2
    <3>1. T \ {x} \in Good /\ (T \ {x}) \cap V = {}
          BY <1>1
    <3>2. Sum((T \ {x}) \cup V) = Sum(T \ {x}) + Sum(V)
          BY <3>1
    <3>3. Sum((T \cup V) \ {x}) = Sum((T \ {x}) \cup V)
      <4>1. (T \cup V) \ {x} = (T \ {x}) \cup V
            OBVIOUS
      <4> QED BY <4>1
    <3>4. Sum(T) = f[x] + Sum(T \ {x}) /\ Sum(T \cup V) = f[x] + Sum((T \cup V) \ {x})
          BY SumRemove
    <3>5. f[x] \in Int /\ Sum(T \ {x}) \in Int
          BY SumType
    <3> HIDE DEF Sum
    <3> QED BY <1>0, <3>2, <3>3, <3>4, <3>5
  <2> QED BY <2>1, <2>2
<1>2. \A T \in SUBSET S : T \in Good
  <2> HIDE DEF Good
  <2> QED BY <1>1, FiniteInduction
<1> QED BY <1>2

\* The sum only depends on the values.
LEMMA SumSame ==
  ASSUME NEW S, IsFiniteSet(S), NEW f, NEW h
  PROVE  \A T \in SUBSET S :
           (\A x \in T : f[x] = h[x]) => SumFunctionOnSet(f, T) = SumFunctionOnSet(h, T)
<1> DEFINE Good == {T \in SUBSET S : (\A x \in T : f[x] = h[x])
                                       => SumFunctionOnSet(f, T) = SumFunctionOnSet(h, T)}
<1>1. ASSUME NEW T \in SUBSET S, \A U \in SUBSET T : U # T => U \in Good
      PROVE  T \in Good
  <2> SUFFICES ASSUME \A x \in T : f[x] = h[x]
               PROVE  SumFunctionOnSet(f, T) = SumFunctionOnSet(h, T)
      OBVIOUS
  <2>0. IsFiniteSet(T)
        BY FS_Subset
  <2>1. CASE T = {}
        BY <2>0, <2>1, SumUnfolds
  <2>2. CASE T # {}
    <3>1. Chosen(T) \in T
          BY <2>2, ChosenIn
    <3>2. T \ {Chosen(T)} \in Good
          BY <1>1, <3>1
    <3>3. SumFunctionOnSet(f, T \ {Chosen(T)}) = SumFunctionOnSet(h, T \ {Chosen(T)})
          BY <3>2
    <3>4. f[Chosen(T)] = h[Chosen(T)]
          BY <3>1
    <3> QED BY <2>0, <2>2, <3>3, <3>4, SumUnfolds
  <2> QED BY <2>1, <2>2
<1>2. \A T \in SUBSET S : T \in Good
  <2> HIDE DEF Good
  <2> QED BY <1>1, FiniteInduction
<1> QED BY <1>2

\* One value changes, and the sum changes with it.
LEMMA SumUpdate ==
  ASSUME NEW S, IsFiniteSet(S), NEW f, NEW h, NEW x \in S,
         \A y \in S : f[y] \in Int, h[x] \in Int,
         \A y \in S : y # x => h[y] = f[y]
  PROVE  SumFunctionOnSet(h, S) = SumFunctionOnSet(f, S) - f[x] + h[x]
<1>1. \A y \in S : h[y] \in Int
      OBVIOUS
<1>2. SumFunctionOnSet(h, S) = h[x] + SumFunctionOnSet(h, S \ {x})
      BY <1>1, SumRemove
<1>3. SumFunctionOnSet(f, S) = f[x] + SumFunctionOnSet(f, S \ {x})
      BY SumRemove
<1>4. SumFunctionOnSet(f, S \ {x}) = SumFunctionOnSet(h, S \ {x})
  <2>1. S \ {x} \in SUBSET S /\ \A y \in S \ {x} : f[y] = h[y]
        OBVIOUS
  <2> QED BY <2>1, SumSame
<1>5. SumFunctionOnSet(f, S \ {x}) \in Int /\ SumFunctionOnSet(f, S) \in Int
      BY SumType
<1> QED BY <1>2, <1>3, <1>4, <1>5

\* A sum of natural numbers is one, and no summand is greater.
LEMMA SumNat ==
  ASSUME NEW S, IsFiniteSet(S), NEW f, \A x \in S : f[x] \in Nat
  PROVE  /\ \A T \in SUBSET S : SumFunctionOnSet(f, T) \in Nat
         /\ \A x \in S : f[x] <= SumFunctionOnSet(f, S)
<1> DEFINE Good == {T \in SUBSET S : SumFunctionOnSet(f, T) \in Nat}
<1>1. ASSUME NEW T \in SUBSET S, \A U \in SUBSET T : U # T => U \in Good
      PROVE  T \in Good
  <2>0. IsFiniteSet(T)
        BY FS_Subset
  <2>1. CASE T = {}
    <3>1. SumFunctionOnSet(f, T) = 0
          BY <2>0, <2>1, SumUnfolds
    <3> QED BY <3>1
  <2>2. CASE T # {}
    <3>1. Chosen(T) \in T
          BY <2>2, ChosenIn
    <3>2. T \ {Chosen(T)} \in Good
          BY <1>1, <3>1
    <3> QED BY <2>0, <2>2, <3>1, <3>2, SumUnfolds
  <2> QED BY <2>1, <2>2
<1>2. \A T \in SUBSET S : T \in Good
  <2> HIDE DEF Good
  <2> QED BY <1>1, FiniteInduction
<1>3. ASSUME NEW x \in S PROVE f[x] <= SumFunctionOnSet(f, S)
  <2>1. SumFunctionOnSet(f, S) = f[x] + SumFunctionOnSet(f, S \ {x})
        BY SumRemove
  <2>2. SumFunctionOnSet(f, S \ {x}) \in Nat
        BY <1>2
  <2> QED BY <2>1, <2>2
<1> QED BY <1>2, <1>3

\* A sum of zeros is zero.
LEMMA SumZero ==
  ASSUME NEW S, IsFiniteSet(S), NEW f, \A x \in S : f[x] = 0
  PROVE  \A T \in SUBSET S : SumFunctionOnSet(f, T) = 0
<1> DEFINE Good == {T \in SUBSET S : SumFunctionOnSet(f, T) = 0}
<1>1. ASSUME NEW T \in SUBSET S, \A U \in SUBSET T : U # T => U \in Good
      PROVE  T \in Good
  <2>0. IsFiniteSet(T)
        BY FS_Subset
  <2>1. CASE T = {}
        BY <2>0, <2>1, SumUnfolds
  <2>2. CASE T # {}
    <3>1. Chosen(T) \in T
          BY <2>2, ChosenIn
    <3>2. T \ {Chosen(T)} \in Good
          BY <1>1, <3>1
    <3> QED BY <2>0, <2>2, <3>1, <3>2, SumUnfolds
  <2> QED BY <2>1, <2>2
<1>2. \A T \in SUBSET S : T \in Good
  <2> HIDE DEF Good
  <2> QED BY <1>1, FiniteInduction
<1> QED BY <1>2

-----------------------------------------------------------------------------
(* Powers of two *)

\* g is the table of the powers of two up to n.
PowTable(n, g) == g = [k \in 0..n |-> IF k = 0 THEN 1 ELSE 2 * g[k - 1]]

\* Two tables agree as far as both reach.
LEMMA TablesAgree ==
  ASSUME NEW n \in Nat, NEW m \in Nat, NEW g, NEW h, PowTable(n, g), PowTable(m, h)
  PROVE  \A k \in Nat : k <= n /\ k <= m => g[k] = h[k]
<1> DEFINE Good == {k \in Nat : k <= n /\ k <= m => g[k] = h[k]}
<1>1. 0 \in Good
      BY DEF PowTable
<1>2. ASSUME NEW k \in Nat, k \in Good PROVE k + 1 \in Good
  <2> SUFFICES ASSUME k + 1 <= n, k + 1 <= m PROVE g[k + 1] = h[k + 1]
      OBVIOUS
  <2>1. g[k] = h[k]
        BY <1>2
  <2>2. /\ k + 1 \in 0..n /\ k + 1 \in 0..m
        /\ k + 1 # 0 /\ (k + 1) - 1 = k
        OBVIOUS
  <2>3. g[k + 1] = 2 * g[k] /\ h[k + 1] = 2 * h[k]
        BY <2>2 DEF PowTable
  <2> QED BY <2>1, <2>3
<1>3. \A k \in Nat : k \in Good
  <2> HIDE DEF Good
  <2> QED BY <1>1, <1>2, NatSetInduction
<1> QED BY <1>3

\* There is a table of every length.
LEMMA TableExists == \A n \in Nat : \E g : PowTable(n, g)
<1> DEFINE Good == {n \in Nat : \E g : PowTable(n, g)}
<1>1. 0 \in Good
  <2> DEFINE g == [k \in 0..0 |-> 1]
  <2>1. PowTable(0, g)
        BY DEF PowTable
  <2> QED BY <2>1
<1>2. ASSUME NEW n \in Nat, n \in Good PROVE n + 1 \in Good
  <2> PICK h : PowTable(n, h)
      BY <1>2
  <2> DEFINE g == [k \in 0..(n + 1) |-> IF k = n + 1 THEN 2 * h[n] ELSE h[k]]
  <2>1. \A k \in 0..n : h[k] = IF k = 0 THEN 1 ELSE 2 * h[k - 1]
        BY DEF PowTable
  <2>2. \A k \in 0..(n + 1) : g[k] = IF k = 0 THEN 1 ELSE 2 * g[k - 1]
    <3> SUFFICES ASSUME NEW k \in 0..(n + 1) PROVE g[k] = IF k = 0 THEN 1 ELSE 2 * g[k - 1]
        OBVIOUS
    <3>1. CASE k = n + 1
      <4>1. k # 0 /\ k - 1 = n /\ n \in 0..(n + 1) /\ n # n + 1
            BY <3>1
      <4>2. g[n] = h[n] /\ g[k] = 2 * h[n]
            BY <3>1, <4>1
      <4> QED BY <4>1, <4>2
    <3>2. CASE k = 0
      <4>1. k \in 0..n /\ k # n + 1
            BY <3>2
      <4>2. g[k] = h[k] /\ h[k] = 1
            BY <2>1, <3>2, <4>1
      <4> QED BY <3>2, <4>2
    <3>3. CASE k # n + 1 /\ k # 0
      <4>1. k \in 0..n /\ k - 1 \in 0..(n + 1) /\ k - 1 # n + 1
            BY <3>3
      <4>2. g[k] = h[k] /\ g[k - 1] = h[k - 1] /\ h[k] = 2 * h[k - 1]
            BY <2>1, <3>3, <4>1
      <4> QED BY <3>3, <4>2
    <3> QED BY <3>1, <3>2, <3>3
  <2>3. PowTable(n + 1, g)
    <3>1. g = [k \in 0..(n + 1) |-> g[k]]
          OBVIOUS
    <3> HIDE DEF g
    <3> QED BY <2>2, <3>1 DEF PowTable
  <2> QED BY <2>3
<1>3. \A n \in Nat : n \in Good
  <2> HIDE DEF Good
  <2> QED BY <1>1, <1>2, NatSetInduction
<1> QED BY <1>3

\* Pow2 is what its definition says.
LEMMA PowUnfolds == Pow2[0] = 1 /\ \A n \in Nat : Pow2[n + 1] = 2 * Pow2[n]
<1> DEFINE G(n) == CHOOSE g : PowTable(n, g)
           f == [n \in Nat |-> G(n)[n]]
<1>1. \A n \in Nat : PowTable(n, G(n))
      BY TableExists
<1>2. \A n \in Nat : f[n] = IF n = 0 THEN 1 ELSE 2 * f[n - 1]
  <2> SUFFICES ASSUME NEW n \in Nat PROVE f[n] = IF n = 0 THEN 1 ELSE 2 * f[n - 1]
      OBVIOUS
  <2>0. f[n] = G(n)[n] /\ (n # 0 => f[n - 1] = G(n - 1)[n - 1])
        OBVIOUS
  <2>1. PowTable(n, G(n)) /\ (n # 0 => PowTable(n - 1, G(n - 1)))
        BY <1>1
  <2> HIDE DEF G, f
  <2>2. G(n)[n] = IF n = 0 THEN 1 ELSE 2 * G(n)[n - 1]
        BY <2>1 DEF PowTable
  <2>3. n # 0 => G(n)[n - 1] = G(n - 1)[n - 1]
        BY <2>1, TablesAgree
  <2> QED BY <2>0, <2>2, <2>3
<1>3. f = [n \in Nat |-> IF n = 0 THEN 1 ELSE 2 * f[n - 1]]
  <2>1. f = [n \in Nat |-> f[n]]
        OBVIOUS
  <2> HIDE DEF f
  <2> QED BY <1>2, <2>1
<1>4. Pow2 = [n \in Nat |-> IF n = 0 THEN 1 ELSE 2 * Pow2[n - 1]]
  <2> HIDE DEF f
  <2> QED BY <1>3 DEF Pow2
<1>5. ASSUME NEW n \in Nat PROVE Pow2[n + 1] = 2 * Pow2[n]
  <2>1. n + 1 \in Nat /\ n + 1 # 0 /\ (n + 1) - 1 = n
        OBVIOUS
  <2>2. Pow2[n + 1] = 2 * Pow2[(n + 1) - 1]
        BY <1>4, <2>1
  <2> QED BY <2>1, <2>2
<1> QED BY <1>4, <1>5

\* Powers of two are positive.
LEMMA PowType == \A n \in Nat : Pow2[n] \in Nat /\ Pow2[n] > 0
<1> DEFINE Good == {n \in Nat : Pow2[n] \in Nat /\ Pow2[n] > 0}
<1>1. 0 \in Good
      BY PowUnfolds
<1>2. ASSUME NEW n \in Nat, n \in Good PROVE n + 1 \in Good
      BY <1>2, PowUnfolds
<1>3. \A n \in Nat : n \in Good
  <2> HIDE DEF Good
  <2> QED BY <1>1, <1>2, NatSetInduction
<1> QED BY <1>3

\* The law of exponents.
LEMMA PowSum ==
  ASSUME NEW m \in Nat
  PROVE  \A n \in Nat : Pow2[m + n] = Pow2[m] * Pow2[n]
<1> DEFINE Good == {n \in Nat : Pow2[m + n] = Pow2[m] * Pow2[n]}
<1>0. Pow2[m] \in Nat
      BY PowType
<1>1. 0 \in Good
  <2>1. m + 0 = m
        OBVIOUS
  <2> QED BY <1>0, <2>1, PowUnfolds
<1>2. ASSUME NEW n \in Nat, n \in Good PROVE n + 1 \in Good
  <2>1. m + (n + 1) = (m + n) + 1 /\ m + n \in Nat
        OBVIOUS
  <2>2. Pow2[m + (n + 1)] = 2 * Pow2[m + n] /\ Pow2[n + 1] = 2 * Pow2[n]
        BY <2>1, PowUnfolds
  <2>3. Pow2[m + n] = Pow2[m] * Pow2[n]
        BY <1>2
  <2>4. Pow2[n] \in Nat
        BY PowType
  <2>5. \A a, b \in Nat : 2 * (a * b) = a * (2 * b)
        OBVIOUS
  <2> QED BY <1>0, <2>2, <2>3, <2>4, <2>5
<1>3. \A n \in Nat : n \in Good
  <2> HIDE DEF Good
  <2> QED BY <1>1, <1>2, NatSetInduction
<1> QED BY <1>3
=============================================================================
