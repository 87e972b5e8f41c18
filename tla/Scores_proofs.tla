----------------------------- MODULE Scores_proofs -----------------------------
(***************************************************************************)
(* Proofs about the scores of the rainfall forecasts (Scores): rank sums,  *)
(* curves and cuts of ranked rows, Brier scores of resampled days, and the *)
(* CRPS and cells of a forecast distribution, for any rows, forecasts,     *)
(* weights and observations.                                               *)
(***************************************************************************)
EXTENDS Rainfall_proofs

-----------------------------------------------------------------------------
(* More about finite sums.                                                   *)

(* SumFunction of the module Functions is the sum over the domain.           *)
LEMMA FunctionSum ==
  ASSUME NEW S, IsFiniteSet(S), NEW f, DOMAIN f = S, Ints(f, S)
  PROVE  G!SumFunction(f) = SumOf(f, S)
  <1> DEFINE I(g) == g = [s \in SUBSET S |->
                           IF s = {} THEN 0
                           ELSE LET x == CHOOSE x \in s : TRUE IN f[x] + g[s \ {x}]]
  <1>1. \A g : Folded(g, f, S) <=> I(g)
    BY DEF Folded, Choice
  <1>2. G!SumFunction(f) = (CHOOSE g : I(g))[S]
    BY DEF G!SumFunction, G!SumFunctionOnSet, G!FoldFunctionOnSet, G!MapThenFoldSet
  <1>3. \E g : Folded(g, f, S)
    BY FoldExists
  <1> HIDE DEF I
  <1>4. I(CHOOSE g : I(g))
    BY <1>1, <1>3
  <1> QED
    BY <1>1, <1>2, <1>4, SumIs

(* A sum of combinations is the combination of the sums.                     *)
LEMMA SumLinear ==
  ASSUME NEW S, IsFiniteSet(S), NEW f, Ints(f, S), NEW e, Ints(e, S), NEW a \in Int, NEW b \in Int,
         NEW h, \A x \in S : h[x] = a * f[x] + b * e[x]
  PROVE  SumOf(h, S) = a * SumOf(f, S) + b * SumOf(e, S)
  <1> DEFINE Good == {T \in SUBSET S : SumOf(h, T) = a * SumOf(f, T) + b * SumOf(e, T)}
  <1>1. ASSUME NEW T \in SUBSET S
        PROVE  /\ IsFiniteSet(T) /\ Ints(f, T) /\ Ints(e, T) /\ Ints(h, T)
               /\ SumOf(f, T) \in Int /\ SumOf(e, T) \in Int /\ SumOf(h, T) \in Int
    <2>1. IsFiniteSet(T) /\ Ints(f, T) /\ Ints(e, T)
      BY FS_Subset DEF Ints
    <2>2. Ints(h, T)
      <3> SUFFICES ASSUME NEW x \in T PROVE h[x] \in Int
        BY DEF Ints
      <3>1. f[x] \in Int /\ e[x] \in Int /\ h[x] = a * f[x] + b * e[x]
        BY <2>1 DEF Ints
      <3> QED
        BY <3>1
    <2> QED
      BY <2>1, <2>2, SumType
  <1>2. ASSUME NEW T \in SUBSET S, \A U \in SUBSET T : U # T => U \in Good PROVE T \in Good
    <2>1. CASE T = {}
      <3>1. SumOf(h, T) = 0 /\ SumOf(f, T) = 0 /\ SumOf(e, T) = 0
        BY <2>1, SumEmpty
      <3> QED
        BY <3>1
    <2>2. CASE T # {}
      <3>1. PICK x : x \in T
        BY <2>2
      <3> DEFINE R == T \ {x}
      <3>2. R \in SUBSET S /\ R \in SUBSET T /\ R # T
        BY <3>1
      <3>3. SumOf(h, R) = a * SumOf(f, R) + b * SumOf(e, R)
        BY <1>2, <3>2
      <3>4. /\ SumOf(h, T) = h[x] + SumOf(h, R) /\ SumOf(f, T) = f[x] + SumOf(f, R)
            /\ SumOf(e, T) = e[x] + SumOf(e, R)
        BY <1>1, <3>1, SumTake
      <3>5. f[x] \in Int /\ e[x] \in Int /\ h[x] = a * f[x] + b * e[x]
        BY <3>1 DEF Ints
      <3>6. SumOf(f, R) \in Int /\ SumOf(e, R) \in Int
        BY <1>1, <3>2
      <3> HIDE DEF R
      <3>7. SumOf(h, T) = a * SumOf(f, T) + b * SumOf(e, T)
        BY <3>3, <3>4, <3>5, <3>6
      <3> QED
        BY <3>7
    <2> QED
      BY <2>1, <2>2
  <1>3. S \in Good
    <2> HIDE DEF Good
    <2> QED
      BY <1>2, SubsetInduction
  <1> QED
    BY <1>3

(* The sum of one value.                                                     *)
LEMMA SumSingle ==
  ASSUME NEW f, NEW x, f[x] \in Int
  PROVE  SumOf(f, {x}) = f[x]
  <1>1. IsFiniteSet({x}) /\ Ints(f, {x}) /\ {x} \ {x} = {}
    BY FS_Singleton DEF Ints
  <1>2. SumOf(f, {x}) = f[x] + SumOf(f, {})
    BY <1>1, SumTake
  <1> QED
    BY <1>2, SumEmpty

(* A sum of ones counts.                                                     *)
LEMMA SumOnes ==
  ASSUME NEW S, IsFiniteSet(S), NEW f, \A x \in S : f[x] = 1
  PROVE  SumOf(f, S) = Cardinality(S)
  <1> DEFINE Good == {T \in SUBSET S : SumOf(f, T) = Cardinality(T)}
  <1>1. \A T \in SUBSET S : IsFiniteSet(T) /\ Ints(f, T) /\ Cardinality(T) \in Nat
    BY FS_Subset, FS_CardinalityType DEF Ints
  <1>2. ASSUME NEW T \in SUBSET S, \A U \in SUBSET T : U # T => U \in Good PROVE T \in Good
    <2>1. CASE T = {}
      <3>1. SumOf(f, T) = 0 /\ Cardinality(T) = 0
        BY <2>1, SumEmpty, FS_EmptySet
      <3> QED
        BY <3>1
    <2>2. CASE T # {}
      <3>1. PICK x : x \in T
        BY <2>2
      <3> DEFINE R == T \ {x}
      <3>2. R \in SUBSET S /\ R \in SUBSET T /\ R # T
        BY <3>1
      <3>3. SumOf(f, R) = Cardinality(R)
        BY <1>2, <3>2
      <3>4. SumOf(f, T) = f[x] + SumOf(f, R) /\ Cardinality(R) = Cardinality(T) - 1 /\ f[x] = 1
        BY <1>1, <3>1, SumTake, FS_RemoveElement
      <3> HIDE DEF R
      <3>5. SumOf(f, T) = Cardinality(T)
        BY <1>1, <3>3, <3>4
      <3> QED
        BY <3>5
    <2> QED
      BY <2>1, <2>2
  <1>3. S \in Good
    <2> HIDE DEF Good
    <2> QED
      BY <1>2, SubsetInduction
  <1> QED
    BY <1>3

(* A sum over the images under an injection.                                 *)
LEMMA SumMap ==
  ASSUME NEW S, IsFiniteSet(S), NEW T, IsFiniteSet(T), NEW f, NEW e, Ints(e, T), NEW b,
         \A x \in S : b[x] \in T /\ f[x] = e[b[x]],
         \A x, z \in S : b[x] = b[z] => x = z,
         \A t \in T : \E x \in S : b[x] = t
  PROVE  SumOf(f, S) = SumOf(e, T)
  <1> DEFINE part == [x \in S |-> {b[x]}]
  <1>1. \A x \in S : part[x] \subseteq T /\ f[x] = SumOf(e, part[x])
    <2> TAKE x \in S
    <2>1. e[b[x]] \in Int /\ b[x] \in T
      BY DEF Ints
    <2> QED
      BY <2>1, SumSingle
  <1>2. \A x, z \in S : x # z => part[x] \cap part[z] = {}
    OBVIOUS
  <1>3. UNION {part[x] : x \in S} = T
    OBVIOUS
  <1> HIDE DEF part
  <1>4. SumOf(f, S) = SumOf(e, UNION {part[x] : x \in S})
    BY <1>1, <1>2, SumParts
  <1> QED
    BY <1>3, <1>4

(* A sum over a set and over the rest of it.                                 *)
LEMMA SumSplit ==
  ASSUME NEW S, IsFiniteSet(S), NEW f, Ints(f, S), NEW T, T \subseteq S
  PROVE  /\ SumOf(f, S) = SumOf(f, T) + SumOf(f, S \ T)
         /\ SumOf(f, T) \in Int /\ SumOf(f, S \ T) \in Int
  <1> DEFINE R == S \ T
  <1>1. IsFiniteSet(T) /\ IsFiniteSet(R) /\ Ints(f, T) /\ Ints(f, R) /\ T \cap R = {} /\ T \cup R = S
    BY FS_Subset DEF Ints
  <1> HIDE DEF R
  <1>2. SumOf(f, S) = SumOf(f, T) + SumOf(f, R) /\ SumOf(f, T) \in Int /\ SumOf(f, R) \in Int
    BY <1>1, SumUnion, SumType
  <1> QED
    BY <1>2 DEF R

(* Sizes of disjoint parts add up.                                           *)
LEMMA CountParts ==
  ASSUME NEW K, IsFiniteSet(K), NEW S, IsFiniteSet(S), NEW part, NEW size,
         \A k \in K : part[k] \subseteq S /\ size[k] = Cardinality(part[k]),
         \A k, m \in K : k # m => part[k] \cap part[m] = {}
  PROVE  SumOf(size, K) = Cardinality(UNION {part[k] : k \in K})
  <1> DEFINE one == [x \in S |-> 1]
  <1>1. Ints(one, S)
    BY DEF Ints
  <1>2. \A T \in SUBSET S : SumOf(one, T) = Cardinality(T)
    <2> TAKE T \in SUBSET S
    <2>1. IsFiniteSet(T) /\ \A x \in T : one[x] = 1
      BY FS_Subset
    <2> HIDE DEF one
    <2> QED
      BY <2>1, SumOnes
  <1> HIDE DEF one
  <1>3. \A k \in K : part[k] \subseteq S /\ size[k] = SumOf(one, part[k])
    BY <1>2
  <1>4. UNION {part[k] : k \in K} \in SUBSET S
    OBVIOUS
  <1>5. SumOf(size, K) = SumOf(one, UNION {part[k] : k \in K})
    BY <1>1, <1>3, SumParts
  <1> QED
    BY <1>2, <1>4, <1>5

-----------------------------------------------------------------------------
(* Any number of rows, of forecasts, of wet amounts and of rows with an      *)
(* amount.                                                                   *)
ScoreConstants == N \in Nat /\ Grades \in Nat /\ V \in Nat /\ MaxWeight \in Nat

(* What a report of ranked rows starts from.                                 *)
RankedData == data \in [p : [1 .. N -> 0 .. Grades], event : [1 .. N -> BOOLEAN]]

(* The instance counts with the Cardinality of FiniteSets.                   *)
LEMMA GCount ==
  ASSUME NEW S
  PROVE  G!Cardinality(S) = Cardinality(S) /\ G!Count(S) = Cardinality(S)
  BY Zenon DEF G!Count, G!Cardinality, Cardinality

(* Two sets in bijection have as many elements.                              *)
LEMMA SameCount ==
  ASSUME NEW S, IsFiniteSet(S), NEW T, NEW b, \A x \in S : b[x] \in T,
         \A x, z \in S : b[x] = b[z] => x = z,
         \A t \in T : \E x \in S : b[x] = t
  PROVE  IsFiniteSet(T) /\ Cardinality(T) = Cardinality(S)
  <1> DEFINE f == [x \in S |-> b[x]]
  <1>1. f \in Bijection(S, T)
    <2>1. f \in [S -> T]
      OBVIOUS
    <2>2. \A x, z \in S : f[x] = f[z] => x = z
      OBVIOUS
    <2>3. \A t \in T : \E x \in S : f[x] = t
      OBVIOUS
    <2> HIDE DEF f
    <2> QED
      BY <2>1, <2>2, <2>3 DEF Bijection, Injection, Surjection, IsInjective
  <1>2. ExistsBijection(S, T)
    BY <1>1 DEF ExistsBijection
  <1> QED
    BY <1>2, FS_Bijection

(* The rows, the events among them and their forecasts.                      *)
LEMMA RankedRows ==
  ASSUME ScoreConstants, RankedData
  PROVE  /\ G!Rank = 1 .. N /\ IsFiniteSet(G!Rank)
         /\ \A S \in SUBSET G!Rank : IsFiniteSet(S) /\ G!Count(S) = Cardinality(S) /\ Cardinality(S) \in Nat
         /\ G!Events \in SUBSET G!Rank
         /\ \A r \in G!Rank : G!p[r] \in Nat /\ G!p[r] <= Grades
  <1>1. G!Rank = 1 .. N
    BY DEF G!Rank
  <1>2. IsFiniteSet(1 .. N)
    BY FS_Interval DEF ScoreConstants
  <1>3. \A S \in SUBSET G!Rank : IsFiniteSet(S) /\ G!Count(S) = Cardinality(S) /\ Cardinality(S) \in Nat
    BY <1>1, <1>2, FS_Subset, FS_CardinalityType, GCount
  <1>4. G!Events \in SUBSET G!Rank
    BY DEF G!Events
  <1>5. \A r \in 1 .. N : G!p[r] \in 0 .. Grades
    BY DEF RankedData, G!p
  <1> QED
    BY <1>1, <1>2, <1>3, <1>4, <1>5 DEF ScoreConstants

(* Counting pairs by their first element.                                    *)
LEMMA CountRows ==
  ASSUME NEW K, IsFiniteSet(K), NEW S, IsFiniteSet(S), NEW rows, NEW size,
         \A k \in K : rows[k] \subseteq S /\ size[k] = Cardinality(rows[k])
  PROVE  SumOf(size, K) = Cardinality({pair \in K \X S : pair[2] \in rows[pair[1]]})
  <1> DEFINE part == [k \in K |-> {k} \X rows[k]]
             All == K \X S
  <1>1. \A k \in K : part[k] \subseteq All /\ size[k] = Cardinality(part[k])
    <2> TAKE k \in K
    <2>1. IsFiniteSet(rows[k]) /\ Cardinality(rows[k]) \in Nat /\ IsFiniteSet({k}) /\ Cardinality({k}) = 1
      BY FS_Subset, FS_CardinalityType, FS_Singleton
    <2>2. Cardinality({k} \X rows[k]) = 1 * Cardinality(rows[k])
      BY <2>1, FS_Product
    <2> QED
      BY <2>1, <2>2
  <1>2. \A k, m \in K : k # m => part[k] \cap part[m] = {}
    OBVIOUS
  <1>3. UNION {part[k] : k \in K} = {pair \in K \X S : pair[2] \in rows[pair[1]]}
    OBVIOUS
  <1>4. IsFiniteSet(All)
    BY FS_Product
  <1> HIDE DEF part, All
  <1>5. SumOf(size, K) = Cardinality(UNION {part[k] : k \in K})
    BY <1>1, <1>2, <1>4, CountParts
  <1> QED
    BY <1>3, <1>5

(* Of the pairs of a set with itself, twice those in order are all and the   *)
(* ties once more.                                                           *)
LEMMA OrderedPairs ==
  ASSUME NEW S, IsFiniteSet(S), NEW f, \A x \in S : f[x] \in Int
  PROVE  2 * Cardinality({q \in S \X S : f[q[2]] <= f[q[1]]})
            = Cardinality(S) * Cardinality(S) + Cardinality({q \in S \X S : f[q[2]] = f[q[1]]})
  <1> DEFINE Down == {q \in S \X S : f[q[2]] <= f[q[1]]}
             Up   == {q \in S \X S : f[q[1]] <= f[q[2]]}
             Tied == {q \in S \X S : f[q[2]] = f[q[1]]}
  <1>1. /\ IsFiniteSet(S \X S) /\ Cardinality(S \X S) = Cardinality(S) * Cardinality(S)
        /\ Cardinality(S) \in Nat
    BY FS_Product, FS_CardinalityType
  <1>2. \A T \in SUBSET (S \X S) : IsFiniteSet(T) /\ Cardinality(T) \in Nat
    BY <1>1, FS_Subset, FS_CardinalityType
  <1>3. Cardinality(Up) = Cardinality(Down)
    <2> DEFINE b == [q \in S \X S |-> <<q[2], q[1]>>]
    <2>1. \A q \in Down : b[q] \in Up
      OBVIOUS
    <2>2. \A q, r \in Down : b[q] = b[r] => q = r
      OBVIOUS
    <2>3. \A t \in Up : \E q \in Down : b[q] = t
      <3> TAKE t \in Up
      <3> WITNESS <<t[2], t[1]>> \in Down
      <3> QED
        OBVIOUS
    <2>4. IsFiniteSet(Down)
      BY <1>2
    <2> HIDE DEF b, Down, Up
    <2> QED
      BY <2>1, <2>2, <2>3, <2>4, SameCount
  <1>4. Down \cup Up = S \X S /\ Down \cap Up = Tied
    OBVIOUS
  <1>5. Down \in SUBSET (S \X S) /\ Up \in SUBSET (S \X S) /\ Tied \in SUBSET (S \X S)
    OBVIOUS
  <1> HIDE DEF Down, Up, Tied
  <1>6. Cardinality(S \X S) = Cardinality(Down) + Cardinality(Up) - Cardinality(Tied)
    BY <1>2, <1>4, <1>5, FS_Union
  <1>7. Cardinality(Down) \in Nat /\ Cardinality(Up) \in Nat /\ Cardinality(Tied) \in Nat
    BY <1>2, <1>5
  <1>8. 2 * Cardinality(Down) = Cardinality(S \X S) + Cardinality(Tied)
    BY <1>1, <1>3, <1>6, <1>7
  <1>9. 2 * Cardinality(Down) = Cardinality(S) * Cardinality(S) + Cardinality(Tied)
    BY <1>1, <1>8
  <1> QED
    BY <1>9 DEF Down, Tied

(* The sum of the midranks of the events counts pairs.                       *)
LEMMA AucCountsPairs ==
  ASSUME ScoreConstants, RankedData
  PROVE  G!Auc2 = 2 * G!Count(G!Pairs) - G!Count(G!Ties)
  <1> DEFINE R == G!Rank
             K == G!Events
             least == [r \in R |-> {q \in R : G!p[q] <= G!p[r]}]
             same == [r \in R |-> {q \in R : G!p[q] = G!p[r]}]
             c == [r \in R |-> Cardinality(least[r])]
             d == [r \in R |-> Cardinality(same[r])]
             one == [r \in R |-> 1]
             e == [r \in R |-> d[r] - 1]
             f == [r \in K |-> G!Rank2(r)]
  <1>1. /\ IsFiniteSet(R) /\ K \in SUBSET R /\ IsFiniteSet(K)
        /\ \A S \in SUBSET R : IsFiniteSet(S) /\ G!Count(S) = Cardinality(S) /\ Cardinality(S) \in Nat
        /\ \A r \in R : G!p[r] \in Int
    BY RankedRows
  <1>2. \A r \in R : least[r] \in SUBSET R /\ same[r] \in SUBSET R
    OBVIOUS
  <1>3. \A r \in R : c[r] \in Nat /\ d[r] \in Nat /\ e[r] \in Int /\ one[r] = 1
    <2> TAKE r \in R
    <2>1. least[r] \in SUBSET R /\ same[r] \in SUBSET R
      BY <1>2
    <2>2. Cardinality(least[r]) \in Nat /\ Cardinality(same[r]) \in Nat
      BY <1>1, <2>1
    <2> QED
      BY <2>2
  <1>4. \A r \in K : f[r] = 2 * c[r] + (-1) * e[r] /\ e[r] = 1 * d[r] + (-1) * one[r]
    <2> TAKE r \in K
    <2>1. r \in R
      BY <1>1
    <2>2. G!Rank2(r) = 2 * Cardinality(least[r]) - (Cardinality(same[r]) - 1)
      BY <2>1, GCount DEF G!Rank2
    <2>3. c[r] = Cardinality(least[r]) /\ d[r] = Cardinality(same[r]) /\ f[r] = G!Rank2(r)
          /\ e[r] = d[r] - 1 /\ one[r] = 1
      BY <2>1
    <2>4. c[r] \in Int /\ d[r] \in Int /\ e[r] \in Int
      BY <1>3, <2>1
    <2> HIDE DEF c, d, e, f, one, least, same
    <2> QED
      BY <2>2, <2>3, <2>4
  <1>5. Ints(c, K) /\ Ints(d, K) /\ Ints(e, K) /\ Ints(one, K)
    <2> SUFFICES ASSUME NEW r \in K PROVE c[r] \in Int /\ d[r] \in Int /\ e[r] \in Int /\ one[r] \in Int
      BY DEF Ints
    <2> QED
      BY <1>1, <1>3
  <1> DEFINE Le == {pair \in K \X R : pair[2] \in least[pair[1]]}
             Eq == {pair \in K \X R : pair[2] \in same[pair[1]]}
             Both == {q \in K \X K : G!p[q[2]] <= G!p[q[1]]}
             Tied == {q \in K \X K : G!p[q[2]] = G!p[q[1]]}
  <1>6. SumOf(c, K) = Cardinality(Le) /\ SumOf(d, K) = Cardinality(Eq)
    <2>1. \A k \in K : least[k] \subseteq R /\ c[k] = Cardinality(least[k])
      BY <1>1
    <2>2. \A k \in K : same[k] \subseteq R /\ d[k] = Cardinality(same[k])
      BY <1>1
    <2> HIDE DEF R, K, least, same, c, d
    <2>3. SumOf(c, K) = Cardinality(Le)
      BY <1>1, <2>1, CountRows
    <2>4. SumOf(d, K) = Cardinality(Eq)
      BY <1>1, <2>2, CountRows
    <2> QED
      BY <2>3, <2>4
  <1>7. Le = G!Pairs \cup Both /\ G!Pairs \cap Both = {} /\ Eq = G!Ties \cup Tied /\ G!Ties \cap Tied = {}
    <2>1. ASSUME NEW q \in R, NEW r \in R PROVE G!p[q] <= G!p[r] <=> G!p[r] >= G!p[q]
      BY <1>1
    <2>2. G!Pairs = {pair \in K \X (R \ K) : G!p[pair[2]] <= G!p[pair[1]]}
      BY <1>1, <2>1 DEF G!Pairs
    <2>3. G!Ties = {pair \in K \X (R \ K) : G!p[pair[2]] = G!p[pair[1]]}
      <3>1. \A pair \in K \X (R \ K) : G!p[pair[2]] = G!p[pair[1]] => G!p[pair[2]] <= G!p[pair[1]]
        BY <1>1
      <3> QED
        BY <2>2, <3>1 DEF G!Ties
    <2>4. Le = {pair \in K \X R : G!p[pair[2]] <= G!p[pair[1]]}
      BY <1>1
    <2>5. Eq = {pair \in K \X R : G!p[pair[2]] = G!p[pair[1]]}
      BY <1>1
    <2>6. K \X R = (K \X (R \ K)) \cup (K \X K) /\ (K \X (R \ K)) \cap (K \X K) = {}
      BY <1>1
    <2> HIDE DEF R, K, Le, Eq
    <2> QED
      BY <2>2, <2>3, <2>4, <2>5, <2>6
  <1>8. IsFiniteSet(K \X R) /\ \A T \in SUBSET (K \X R) : IsFiniteSet(T) /\ Cardinality(T) \in Nat
    <2>1. IsFiniteSet(K \X R)
      BY <1>1, FS_Product
    <2> QED
      BY <2>1, FS_Subset, FS_CardinalityType
  <1>9. /\ G!Pairs \in SUBSET (K \X R) /\ G!Ties \in SUBSET (K \X R)
        /\ Both \in SUBSET (K \X R) /\ Tied \in SUBSET (K \X R)
    BY <1>1 DEF G!Pairs, G!Ties
  <1>10. 2 * Cardinality(Both) = Cardinality(K) * Cardinality(K) + Cardinality(Tied)
    <2>1. \A x \in K : G!p[x] \in Int
      BY <1>1
    <2> HIDE DEF K
    <2> QED
      BY <1>1, <2>1, OrderedPairs
  <1>11. SumOf(f, K) = 2 * SumOf(c, K) + (-1) * SumOf(e, K)
         /\ SumOf(e, K) = 1 * SumOf(d, K) + (-1) * SumOf(one, K)
         /\ SumOf(one, K) = Cardinality(K)
    <2>1. \A r \in K : f[r] = 2 * c[r] + (-1) * e[r]
      BY <1>4
    <2>2. \A r \in K : e[r] = 1 * d[r] + (-1) * one[r]
      BY <1>4
    <2>3. \A r \in K : one[r] = 1
      BY <1>1, <1>3
    <2>4. 2 \in Int /\ -1 \in Int /\ 1 \in Int
      OBVIOUS
    <2> HIDE DEF K, c, d, e, f, one
    <2>5. SumOf(f, K) = 2 * SumOf(c, K) + (-1) * SumOf(e, K)
      BY <1>1, <1>5, <2>1, <2>4, SumLinear
    <2>6. SumOf(e, K) = 1 * SumOf(d, K) + (-1) * SumOf(one, K)
      BY <1>1, <1>5, <2>2, <2>4, SumLinear
    <2>7. SumOf(one, K) = Cardinality(K)
      BY <1>1, <2>3, SumOnes
    <2> QED
      BY <2>5, <2>6, <2>7
  <1>12. G!SumFunction(f) = SumOf(f, K)
    <2>1. DOMAIN f = K
      OBVIOUS
    <2>2. Ints(f, K)
      <3> SUFFICES ASSUME NEW r \in K PROVE f[r] \in Int
        BY DEF Ints
      <3>1. c[r] \in Int /\ e[r] \in Int /\ f[r] = 2 * c[r] + (-1) * e[r]
        BY <1>4, <1>5 DEF Ints
      <3> HIDE DEF c, e, f
      <3> QED
        BY <3>1
    <2> HIDE DEF K, f
    <2> QED
      BY <1>1, <2>1, <2>2, FunctionSum
  <1>13. G!Auc2 = SumOf(f, K) - Cardinality(K) * (Cardinality(K) + 1)
    BY <1>12, GCount DEF G!Auc2
  <1>14. G!Count(G!Pairs) = Cardinality(G!Pairs) /\ G!Count(G!Ties) = Cardinality(G!Ties)
    BY GCount
  <1> HIDE DEF R, K, Le, Eq, Both, Tied, c, d, e, f, one
  <1>15. Cardinality(Le) = Cardinality(G!Pairs) + Cardinality(Both)
         /\ Cardinality(Eq) = Cardinality(G!Ties) + Cardinality(Tied)
    <2>1. /\ IsFiniteSet(G!Pairs) /\ IsFiniteSet(Both) /\ IsFiniteSet(G!Ties) /\ IsFiniteSet(Tied)
          /\ Cardinality(G!Pairs) \in Nat /\ Cardinality(Both) \in Nat
          /\ Cardinality(G!Ties) \in Nat /\ Cardinality(Tied) \in Nat
      BY <1>8, <1>9
    <2>2. Cardinality(Le) = Cardinality(G!Pairs) + Cardinality(Both) - Cardinality({})
      BY <1>7, <2>1, FS_Union
    <2>3. Cardinality(Eq) = Cardinality(G!Ties) + Cardinality(Tied) - Cardinality({})
      BY <1>7, <2>1, FS_Union
    <2> QED
      BY <2>1, <2>2, <2>3, FS_EmptySet
  <1>16. Cardinality(G!Pairs) \in Int /\ Cardinality(Both) \in Int /\ Cardinality(G!Ties) \in Int
         /\ Cardinality(Tied) \in Int /\ Cardinality(K) \in Int
    BY <1>1, <1>8, <1>9
  <1>17. ASSUME NEW k \in Int, NEW a \in Int, NEW b \in Int, NEW pr \in Int, NEW ti \in Int,
                2 * a = k * k + b
         PROVE  2 * (pr + a) + (-1) * (1 * (ti + b) + (-1) * k) - k * (k + 1) = 2 * pr - ti
    <2>1. k * (k + 1) = k * k + k /\ k * k \in Int
      OBVIOUS
    <2> QED
      BY <1>17, <2>1
  <1> QED
    BY <1>6, <1>10, <1>11, <1>13, <1>14, <1>15, <1>16, <1>17

(* The product of the rows exists and is an integer.                         *)
Multiplied(g, S) ==
    g = [s \in SUBSET S |-> IF s = {} THEN 1 ELSE Choice(s) * g[s \ {Choice(s)}]]

LEMMA ProductExists ==
  ASSUME NEW S, IsFiniteSet(S), S \subseteq Int
  PROVE  \E g \in [SUBSET S -> Int] : Multiplied(g, S)
  <1> DEFINE Value(g, s) == IF s = {} THEN 1 ELSE Choice(s) * g[s \ {Choice(s)}]
             Upto(g, d) == \A s \in SUBSET S : Cardinality(s) <= d => g[s] = Value(g, s)
             Bad == {d \in Nat : ~ \E g \in [SUBSET S -> Int] : Upto(g, d)}
  <1>1. \A s \in SUBSET S : IsFiniteSet(s) /\ Cardinality(s) \in Nat
    BY FS_Subset, FS_CardinalityType
  <1>2. \A s \in SUBSET S : s # {} => Cardinality(s \ {Choice(s)}) = Cardinality(s) - 1
    BY <1>1, ChoiceIs, FS_RemoveElement
  <1>3. ASSUME NEW g \in [SUBSET S -> Int] PROVE [s \in SUBSET S |-> Value(g, s)] \in [SUBSET S -> Int]
    <2>1. ASSUME NEW s \in SUBSET S PROVE Value(g, s) \in Int
      <3>1. CASE s = {}
        BY <3>1
      <3>2. CASE s # {}
        <4>1. Choice(s) \in Int /\ g[s \ {Choice(s)}] \in Int
          BY <3>2, ChoiceIs
        <4> QED
          BY <3>2, <4>1
      <3> QED
        BY <3>1, <3>2
    <2> QED
      BY <2>1
  <1>4. Bad = {}
    <2> SUFFICES ASSUME Bad # {} PROVE FALSE
      OBVIOUS
    <2>1. PICK d \in Bad : \A e \in Bad : d <= e
      <3>1. Bad \subseteq Nat
        OBVIOUS
      <3> HIDE DEF Bad
      <3> QED
        BY <3>1, LeastExists
    <2>2. PICK g \in [SUBSET S -> Int] : \A s \in SUBSET S : Cardinality(s) < d => g[s] = Value(g, s)
      <3>1. CASE d = 0
        <4>1. [s \in SUBSET S |-> 1] \in [SUBSET S -> Int]
          OBVIOUS
        <4>2. \A s \in SUBSET S : ~(Cardinality(s) < d)
          BY <1>1, <3>1
        <4> QED
          BY <4>1, <4>2
      <3>2. CASE d # 0
        <4>1. d - 1 \in Nat /\ d - 1 \notin Bad
          <5>1. d \in Nat
            OBVIOUS
          <5> HIDE DEF Bad
          <5> QED
            BY <2>1, <3>2, <5>1
        <4>2. PICK g \in [SUBSET S -> Int] : Upto(g, d - 1)
          BY <4>1
        <4>3. \A s \in SUBSET S : Cardinality(s) < d => Cardinality(s) <= d - 1
          BY <1>1, <4>1
        <4> QED
          BY <4>2, <4>3
      <3> QED
        BY <3>1, <3>2
    <2> DEFINE h == [s \in SUBSET S |-> Value(g, s)]
    <2>3. h \in [SUBSET S -> Int]
      BY <1>3
    <2>4. ASSUME NEW s \in SUBSET S, Cardinality(s) <= d PROVE h[s] = Value(h, s)
      <3>1. CASE s = {}
        BY <3>1
      <3>2. CASE s # {}
        <4> DEFINE t == s \ {Choice(s)}
        <4>1. t \in SUBSET S /\ Cardinality(t) < d
          <5>1. t \in SUBSET S /\ Cardinality(t) = Cardinality(s) - 1
            BY <1>2, <3>2
          <5>2. Cardinality(s) \in Nat /\ d \in Nat
            BY <1>1
          <5> HIDE DEF t
          <5> QED
            BY <2>4, <5>1, <5>2
        <4>2. g[t] = Value(g, t) /\ h[t] = Value(g, t)
          BY <2>2, <4>1
        <4>3. h[s] = Choice(s) * g[t] /\ Value(h, s) = Choice(s) * h[t]
          BY <3>2
        <4> QED
          BY <4>2, <4>3
      <3> QED
        BY <3>1, <3>2
    <2>5. Upto(h, d)
      BY <2>4
    <2> QED
      BY <2>1, <2>3, <2>5
  <1>5. Cardinality(S) \in Nat /\ \A s \in SUBSET S : Cardinality(s) <= Cardinality(S)
    BY <1>1, FS_Subset
  <1>6. PICK g \in [SUBSET S -> Int] : Upto(g, Cardinality(S))
    BY <1>4, <1>5
  <1>7. \A s \in SUBSET S : g[s] = Value(g, s)
    BY <1>5, <1>6
  <1>8. g = [s \in SUBSET S |-> Value(g, s)]
    BY <1>7
  <1> QED
    BY <1>8 DEF Multiplied

(* The common denominator of the precisions.                                 *)
LEMMA ScaleIsInt ==
  ASSUME ScoreConstants
  PROVE  G!Scale \in Int
  <1> DEFINE S == 1 .. N
             I(g) == g = [s \in SUBSET S |->
                           IF s = {} THEN 1
                           ELSE LET x == CHOOSE x \in s : TRUE
                                IN  [k \in S |-> k][x] * g[s \ {x}]]
  <1>1. IsFiniteSet(S) /\ S \subseteq Int
    BY FS_Interval DEF ScoreConstants
  <1>2. \A g : Multiplied(g, S) <=> I(g)
    <2> TAKE g
    <2>1. \A s \in SUBSET S : s # {} => [k \in S |-> k][Choice(s)] = Choice(s)
      BY ChoiceIs
    <2> HIDE DEF S
    <2>2. [s \in SUBSET S |-> IF s = {} THEN 1 ELSE Choice(s) * g[s \ {Choice(s)}]]
             = [s \in SUBSET S |-> IF s = {} THEN 1 ELSE [k \in S |-> k][Choice(s)] * g[s \ {Choice(s)}]]
      BY <2>1
    <2> QED
      BY <2>2 DEF Multiplied, Choice
  <1>3. G!Scale = (CHOOSE g : I(g))[S]
    BY DEF G!Scale, G!Rank, G!FoldFunction, G!FoldFunctionOnSet, G!MapThenFoldSet
  <1>4. \E g : Multiplied(g, S)
    <2> HIDE DEF S
    <2> QED
      BY <1>1, ProductExists
  <1> DEFINE g == CHOOSE g : I(g)
  <1>5. Multiplied(g, S)
    <2> HIDE DEF I
    <2> QED
      BY <1>2, <1>4
  <1> HIDE DEF g, I
  <1> DEFINE Good == {T \in SUBSET S : g[T] \in Int}
  <1>6. ASSUME NEW T \in SUBSET S, \A U \in SUBSET T : U # T => U \in Good PROVE T \in Good
    <2>1. g[T] = IF T = {} THEN 1 ELSE Choice(T) * g[T \ {Choice(T)}]
      BY <1>5 DEF Multiplied
    <2>2. CASE T # {}
      <3>1. Choice(T) \in T /\ T \ {Choice(T)} \in SUBSET T /\ T \ {Choice(T)} # T
        BY <2>2, ChoiceIs
      <3>2. g[T \ {Choice(T)}] \in Int
        BY <1>6, <3>1
      <3>3. Choice(T) \in Int
        BY <1>1, <3>1
      <3> QED
        BY <2>1, <2>2, <3>2, <3>3
    <2> QED
      BY <2>1, <2>2
  <1>7. S \in Good
    <2> HIDE DEF Good, S
    <2> QED
      BY <1>1, <1>6, SubsetInduction
  <1> QED
    BY <1>3, <1>7 DEF g

(* A bounded set of numbers has a greatest.                                  *)
LEMMA GreatestOf ==
  ASSUME NEW k \in Nat, NEW S, S \subseteq 0 .. k, S # {}
  PROVE  \E x \in S : \A w \in S : w <= x
  <1> DEFINE T == {k - z : z \in S}
  <1>1. T \subseteq Nat /\ T # {}
    <2>1. \A z \in S : k - z \in Nat
      OBVIOUS
    <2> QED
      BY <2>1
  <1>2. PICK m \in T : \A z \in T : m <= z
    BY <1>1, LeastExists
  <1>3. PICK x \in S : m = k - x
    OBVIOUS
  <1>4. \A z \in S : k - x <= k - z
    <2>1. \A z \in S : k - z \in T
      OBVIOUS
    <2> QED
      BY <1>2, <1>3, <2>1
  <1>5. ASSUME NEW z \in S PROVE z <= x
    <2>1. k - x <= k - z /\ z \in Int /\ x \in Int
      BY <1>4
    <2> QED
      BY <2>1
  <1> QED
    BY <1>5

(* Min and Max of the instance are the least and the greatest.               *)
LEMMA GMinMax ==
  ASSUME NEW S, S \subseteq Int
  PROVE  /\ \A m \in S : (\A z \in S : z <= m) => G!Max(S) = m
         /\ \A m \in S : (\A z \in S : m <= z) => G!Min(S) = m
  <1>1. ASSUME NEW m \in S, \A z \in S : z <= m PROVE G!Max(S) = m
    <2> DEFINE Top1(x) == x \in S /\ \A z \in S : x >= z
    <2>1. Top1(m) /\ \A x : Top1(x) => x = m
      <3>1. \A z \in S : z \in Int /\ z <= m
        BY <1>1
      <3>2. ASSUME NEW x, Top1(x) PROVE x = m
        <4>1. x >= m /\ x \in Int /\ m \in Int /\ x <= m
          BY <3>1, <3>2
        <4> QED
          BY <4>1
      <3>3. Top1(m)
        BY <3>1
      <3> QED
        BY <3>2, <3>3
    <2>2. G!Max(S) = CHOOSE x : Top1(x)
      BY Zenon DEF G!Max
    <2> HIDE DEF Top1
    <2> QED
      BY <2>1, <2>2
  <1>2. ASSUME NEW m \in S, \A z \in S : m <= z PROVE G!Min(S) = m
    <2> DEFINE Low(x) == x \in S /\ \A z \in S : x =< z
    <2>1. Low(m) /\ \A x : Low(x) => x = m
      <3>1. \A z \in S : z \in Int /\ m <= z
        BY <1>2
      <3>2. ASSUME NEW x, Low(x) PROVE x = m
        <4>1. x =< m /\ x \in Int /\ m \in Int /\ m <= x
          BY <3>1, <3>2
        <4> QED
          BY <4>1
      <3>3. Low(m)
        BY <3>1
      <3> QED
        BY <3>2, <3>3
    <2>2. G!Min(S) = CHOOSE x : Low(x)
      BY Zenon DEF G!Min
    <2> HIDE DEF Low
    <2> QED
      BY <2>1, <2>2
  <1> QED
    BY <1>1, <1>2

(* A sorted file is a permutation of the rows, from the highest forecast     *)
(* down.                                                                     *)
LEMMA OrderIs ==
  ASSUME ScoreConstants, RankedData, NEW o \in G!Orders
  PROVE  /\ \A i \in 1 .. N : o[i] \in 1 .. N /\ G!p[o[i]] \in Nat
         /\ \A i, j \in 1 .. N : o[i] = o[j] => i = j
         /\ \A r \in 1 .. N : \E i \in 1 .. N : o[i] = r
         /\ \A i, j \in 1 .. N : i <= j => G!p[o[j]] <= G!p[o[i]]
  <1>1. G!Rank = 1 .. N /\ \A r \in 1 .. N : G!p[r] \in Nat
    BY RankedRows
  <1>2. /\ o \in [1 .. N -> 1 .. N] /\ \A i, j \in 1 .. N : o[i] = o[j] => i = j
        /\ \A i, j \in 1 .. N : i < j => G!p[o[i]] >= G!p[o[j]]
    BY <1>1 DEF G!Orders, G!IsInjective
  <1>3. ASSUME NEW i \in 1 .. N, NEW j \in 1 .. N, i <= j PROVE G!p[o[j]] <= G!p[o[i]]
    <2>1. o[i] \in 1 .. N /\ o[j] \in 1 .. N
      BY <1>2
    <2>2. G!p[o[i]] \in Nat /\ G!p[o[j]] \in Nat
      BY <1>1, <2>1
    <2>3. i = j \/ i < j
      BY <1>3
    <2>4. CASE i < j
      <3>1. G!p[o[i]] >= G!p[o[j]]
        BY <1>2, <2>4
      <3> QED
        BY <2>2, <3>1
    <2> QED
      BY <2>2, <2>3, <2>4
  <1>4. \A r \in 1 .. N : \E i \in 1 .. N : o[i] = r
    <2> DEFINE S == 1 .. N
               T == {o[i] : i \in S}
    <2>1. IsFiniteSet(S) /\ T \in SUBSET S
      <3>1. IsFiniteSet(S)
        BY FS_Interval DEF ScoreConstants
      <3>2. \A i \in S : o[i] \in S
        BY <1>2
      <3> QED
        BY <3>1, <3>2
    <2>2. \A x \in S : o[x] \in T
      OBVIOUS
    <2>3. \A x, z \in S : o[x] = o[z] => x = z
      BY <1>2
    <2>4. \A t \in T : \E x \in S : o[x] = t
      OBVIOUS
    <2> HIDE DEF S, T
    <2>5. Cardinality(T) = Cardinality(S)
      BY <2>1, <2>2, <2>3, <2>4, SameCount
    <2>6. T = S
      BY <2>1, <2>5, FS_Subset
    <2> QED
      BY <2>4, <2>6 DEF S
  <1> QED
    BY <1>1, <1>2, <1>3, <1>4

(* The rows up to the last of a run of equal forecasts are those with at     *)
(* least that forecast.                                                      *)
LEMMA LastIs ==
  ASSUME ScoreConstants, RankedData, NEW o \in G!Orders, NEW i \in G!Last(o), NEW t, t = G!p[o[i]]
  PROVE  /\ i \in 1 .. N /\ t \in Nat /\ t \in G!Forecasts
         /\ \A k \in 1 .. N : k <= i <=> t <= G!p[o[k]]
         /\ \A k \in 1 .. N : i < k => G!p[o[k]] < t
         /\ Cardinality(G!AtLeast(t)) = i
         /\ G!Tp(o, i) = Cardinality(G!AtLeast(t) \cap G!Events)
  <1>1. /\ i \in 1 .. N /\ (i = N \/ G!p[o[i]] # G!p[o[i + 1]])
        /\ G!Rank = 1 .. N /\ N \in Nat
    BY RankedRows DEF G!Last, ScoreConstants
  <1>2. t \in Nat /\ t \in G!Forecasts
    BY <1>1, OrderIs DEF G!Forecasts
  <1>3. ASSUME NEW k \in 1 .. N, i < k PROVE G!p[o[k]] < t
    <2>1. i # N /\ i + 1 \in 1 .. N /\ i + 1 <= k /\ i <= i + 1
      BY <1>1, <1>3
    <2>2. G!p[o[i + 1]] <= G!p[o[i]] /\ G!p[o[k]] <= G!p[o[i + 1]]
      BY <1>1, <2>1, OrderIs
    <2>3. G!p[o[i + 1]] \in Nat /\ G!p[o[k]] \in Nat /\ G!p[o[i]] # G!p[o[i + 1]]
      BY <1>1, <2>1, OrderIs
    <2> QED
      BY <1>2, <2>2, <2>3
  <1>4. ASSUME NEW k \in 1 .. N PROVE k <= i <=> t <= G!p[o[k]]
    <2>1. k <= i => G!p[o[i]] <= G!p[o[k]]
      BY <1>1, OrderIs
    <2>2. G!p[o[k]] \in Nat
      BY OrderIs
    <2>3. k <= i \/ i < k
      BY <1>1
    <2>4. i < k => G!p[o[k]] < t
      BY <1>3
    <2> QED
      BY <1>1, <1>2, <2>1, <2>2, <2>3, <2>4
  <1> DEFINE S == 1 .. i
             T == G!AtLeast(t)
             U == {k \in S : data.event[o[k]]}
             W == T \cap G!Events
  <1>5. \A r \in G!Rank : r \in T <=> t <= G!p[r]
    <2>1. \A r \in G!Rank : G!p[r] \in Nat
      BY RankedRows
    <2> QED
      BY <1>2, <2>1 DEF G!AtLeast
  <1>6. /\ IsFiniteSet(S) /\ Cardinality(S) = i /\ S \subseteq 1 .. N
        /\ \A k \in S : k <= i /\ \A m \in 1 .. N : m <= i => m \in S
    <2>1. IsFiniteSet(S) /\ Cardinality(S) = i
      BY <1>1, FS_Interval
    <2>2. S \subseteq 1 .. N /\ \A k \in S : k <= i /\ \A m \in 1 .. N : m <= i => m \in S
      BY <1>1
    <2> QED
      BY <2>1, <2>2
  <1>7. \A k \in S : o[k] \in T
    BY <1>1, <1>4, <1>5, <1>6, OrderIs
  <1>8. \A j, k \in S : o[j] = o[k] => j = k
    BY <1>6, OrderIs
  <1>9. \A r \in T : \E k \in S : o[k] = r
    <2> TAKE r \in T
    <2>1. r \in 1 .. N /\ t <= G!p[r]
      BY <1>1, <1>5 DEF G!AtLeast
    <2>2. PICK k \in 1 .. N : o[k] = r
      BY <2>1, OrderIs
    <2>3. k <= i
      BY <1>4, <2>1, <2>2
    <2> QED
      BY <1>6, <2>2, <2>3
  <1>10. Cardinality(T) = i
    <2> HIDE DEF S, T
    <2>1. Cardinality(T) = Cardinality(S)
      BY <1>6, <1>7, <1>8, <1>9, SameCount
    <2> QED
      BY <1>6, <2>1
  <1>11. Cardinality(W) = Cardinality(U)
    <2>1. U \in SUBSET S
      OBVIOUS
    <2>2. IsFiniteSet(U)
      BY <1>6, <2>1, FS_Subset
    <2>3. \A r \in G!Rank : r \in G!Events <=> data.event[r]
      BY DEF G!Events
    <2>4. \A k \in U : o[k] \in W
      <3> TAKE k \in U
      <3>1. k \in S /\ data.event[o[k]] /\ o[k] \in T
        BY <1>7
      <3>2. o[k] \in G!Rank
        BY <1>1, <1>6, <3>1, OrderIs
      <3> QED
        BY <2>3, <3>1, <3>2
    <2>5. \A j, k \in U : o[j] = o[k] => j = k
      BY <1>8
    <2>6. \A r \in W : \E k \in U : o[k] = r
      <3> TAKE r \in W
      <3>1. PICK k \in S : o[k] = r
        BY <1>9
      <3>2. data.event[r]
        BY DEF G!Events
      <3> QED
        BY <3>1, <3>2
    <2> HIDE DEF U, W
    <2> QED
      BY <2>2, <2>4, <2>5, <2>6, SameCount
  <1>12. G!Tp(o, i) = Cardinality(U)
    BY GCount DEF G!Tp
  <1> QED
    BY <1>1, <1>2, <1>3, <1>4, <1>10, <1>11, <1>12

(* Every forecast that occurs has a last row.                                *)
LEMMA LastOf ==
  ASSUME ScoreConstants, RankedData, NEW o \in G!Orders, NEW t \in G!Forecasts
  PROVE  \E i \in G!Last(o) : G!p[o[i]] = t
  <1> DEFINE K == {k \in 1 .. N : G!p[o[k]] = t}
  <1>1. G!Rank = 1 .. N /\ N \in Nat
    BY RankedRows DEF ScoreConstants
  <1>2. PICK r \in 1 .. N : G!p[r] = t
    BY <1>1 DEF G!Forecasts
  <1>3. PICK k \in 1 .. N : o[k] = r
    BY OrderIs
  <1>4. K \subseteq 0 .. N /\ K # {}
    BY <1>1, <1>2, <1>3
  <1>5. PICK i \in K : \A w \in K : w <= i
    <2> HIDE DEF K
    <2> QED
      BY <1>1, <1>4, GreatestOf
  <1>6. i \in 1 .. N /\ G!p[o[i]] = t
    OBVIOUS
  <1>7. i = N \/ G!p[o[i]] # G!p[o[i + 1]]
    <2> SUFFICES ASSUME i # N, G!p[o[i + 1]] = t PROVE FALSE
      BY <1>6
    <2>1. i + 1 \in K
      BY <1>1, <1>6
    <2>2. i + 1 <= i
      BY <1>5, <2>1
    <2> QED
      BY <1>6, <2>2
  <1>8. i \in G!Last(o)
    BY <1>1, <1>6, <1>7 DEF G!Last
  <1> QED
    BY <1>6, <1>8

(* The point of the curve before a point.                                    *)
LEMMA BeforeIs ==
  ASSUME ScoreConstants, RankedData, NEW o \in G!Orders, NEW i \in G!Last(o), NEW j, j = G!Before(o, i)
  PROVE  /\ \A m \in G!Last(o) : m < i => m <= j
         /\ j = 0 \/ (j \in G!Last(o) /\ j < i)
  <1> DEFINE S == {0} \cup {m \in G!Last(o) : m < i}
  <1>1. G!Last(o) \subseteq 1 .. N /\ N \in Nat
    BY RankedRows DEF G!Last, ScoreConstants
  <1>2. S \subseteq 0 .. N /\ S # {}
    BY <1>1
  <1>3. PICK m \in S : \A z \in S : z <= m
    <2> HIDE DEF S
    <2> QED
      BY <1>1, <1>2, GreatestOf
  <1>4. S \subseteq Int
    BY <1>2
  <1>5. G!Max(S) = m
    <2> HIDE DEF S
    <2> QED
      BY <1>3, <1>4, GMinMax
  <1>6. j = m
    BY <1>5 DEF G!Before
  <1>7. \A k \in G!Last(o) : k < i => k <= m
    BY <1>3
  <1>8. m = 0 \/ (m \in G!Last(o) /\ m < i)
    BY <1>3 DEF S
  <1> HIDE DEF S
  <1> QED
    BY <1>6, <1>7, <1>8

(* The precision after the last row of a forecast is that of the rows with   *)
(* at least that forecast.                                                   *)
LEMMA PointIs ==
  ASSUME ScoreConstants, RankedData, NEW o \in G!Orders, NEW m \in G!Last(o), NEW u, u = G!p[o[m]]
  PROVE  G!Precision(o, m) = G!PrecisionAt(u) /\ G!PrecisionAt(u) \in Int
  <1>1. /\ m \in 1 .. N /\ Cardinality(G!AtLeast(u)) = m
        /\ G!Tp(o, m) = Cardinality(G!AtLeast(u) \cap G!Events)
    BY LastIs
  <1>2. Cardinality(G!AtLeast(u) \cap G!Events) \in Nat
    <2>1. G!AtLeast(u) \cap G!Events \in SUBSET G!Rank
      BY DEF G!AtLeast
    <2> QED
      BY <2>1, RankedRows
  <1>3. G!PrecisionAt(u) = (Cardinality(G!AtLeast(u) \cap G!Events) * G!Scale) \div Cardinality(G!AtLeast(u))
    BY GCount DEF G!PrecisionAt
  <1>4. G!Precision(o, m) = (G!Tp(o, m) * G!Scale) \div m
    BY DEF G!Precision
  <1>5. G!Scale \in Int
    BY ScaleIsInt
  <1>6. \A q \in Int, k \in 1 .. N : q \div k \in Int
    OBVIOUS
  <1>7. G!Tp(o, m) * G!Scale \in Int
    BY <1>1, <1>2, <1>5
  <1> QED
    BY <1>1, <1>3, <1>4, <1>6, <1>7

(* A point of the curve is that of its forecast.                             *)
LEMMA PointsMatch ==
  ASSUME ScoreConstants, RankedData, NEW o \in G!Orders, NEW i \in G!Last(o), NEW t, t = G!p[o[i]]
  PROVE  /\ G!Recall(o, i) = G!Gained(t) /\ G!Gained(t) \in Int
         /\ G!Precision(o, i) = G!PrecisionAt(t) /\ G!PrecisionAt(t) \in Int
         /\ G!PrecisionBefore(o, i) = G!PrecisionAt(G!Above(t)) /\ G!PrecisionAt(G!Above(t)) \in Int
  <1> DEFINE j == G!Before(o, i)
             higher == {u \in G!Forecasts : u > t}
             now == G!AtLeast(t) \cap G!Events
             mine == {r \in G!Events : G!p[r] = t}
  <1>1. /\ i \in 1 .. N /\ t \in Nat /\ t \in G!Forecasts /\ N \in Nat
        /\ \A k \in 1 .. N : i < k => G!p[o[k]] < t
        /\ G!Tp(o, i) = Cardinality(now)
    BY LastIs DEF ScoreConstants
  <1>2. /\ \A m \in G!Last(o) : m < i => m <= j
        /\ j = 0 \/ (j \in G!Last(o) /\ j < i)
    BY BeforeIs
  <1>3. /\ G!Rank = 1 .. N /\ G!Events \in SUBSET G!Rank
        /\ \A S \in SUBSET G!Rank : IsFiniteSet(S) /\ Cardinality(S) \in Nat
        /\ \A r \in G!Rank : G!p[r] \in Nat
    BY RankedRows
  <1>4. G!Forecasts \subseteq Nat
    BY <1>3 DEF G!Forecasts
  <1>5. \A v \in higher : \E m \in G!Last(o) : G!p[o[m]] = v /\ m < i
    <2> TAKE v \in higher
    <2>1. PICK m \in G!Last(o) : G!p[o[m]] = v
      BY LastOf
    <2>2. m \in 1 .. N /\ v \in Nat /\ v > t
      BY <1>4, <2>1, LastIs
    <2>3. i <= m => G!p[o[m]] <= G!p[o[i]]
      BY <1>1, <2>2, OrderIs
    <2> QED
      BY <1>1, <2>1, <2>2, <2>3
  <1>6. /\ mine \in SUBSET G!Rank /\ now \in SUBSET G!Rank
        /\ Cardinality(mine) \in Nat /\ Cardinality(now) \in Nat
        /\ IsFiniteSet(mine) /\ IsFiniteSet(now)
    <2>1. mine \in SUBSET G!Rank /\ now \in SUBSET G!Rank
      BY <1>3
    <2> HIDE DEF mine, now
    <2> QED
      BY <1>3, <2>1
  <1>7. G!Gained(t) = Cardinality(mine)
    BY GCount DEF G!Gained
  <1>8. \A S \in SUBSET G!Rank : G!Count(S) = Cardinality(S)
    BY GCount
  <1>9. ASSUME NEW m \in G!Last(o), NEW u, u = G!p[o[m]]
        PROVE  G!Precision(o, m) = G!PrecisionAt(u) /\ G!PrecisionAt(u) \in Int
    BY <1>9, PointIs
  <1>10. CASE j = 0
    <2>1. higher = {}
      <3> SUFFICES ASSUME NEW v \in higher PROVE FALSE
        OBVIOUS
      <3>1. PICK m \in G!Last(o) : m < i
        BY <1>5
      <3>2. m <= 0 /\ m \in 1 .. N
        BY <1>2, <1>10, <3>1, LastIs
      <3> QED
        BY <3>2
    <2>2. G!Above(t) = t
      BY <2>1 DEF G!Above
    <2>3. now = mine
      <3>1. ASSUME NEW r \in G!Rank PROVE G!p[r] >= t <=> G!p[r] = t
        <4>1. G!p[r] \in G!Forecasts /\ G!p[r] \in Nat
          BY <1>3 DEF G!Forecasts
        <4> QED
          BY <1>1, <2>1, <4>1
      <3> QED
        BY <1>3, <3>1 DEF G!AtLeast
    <2>4. G!Tp(o, 0) = 0
      <3>1. {k \in 1 .. 0 : data.event[o[k]]} = {}
        OBVIOUS
      <3> QED
        BY <3>1, GCount, FS_EmptySet DEF G!Tp
    <2>5. G!Recall(o, i) = G!Tp(o, i) - G!Tp(o, 0)
      BY <1>10 DEF G!Recall
    <2>6. G!PrecisionBefore(o, i) = G!Precision(o, i)
      BY <1>10 DEF G!PrecisionBefore
    <2>7. G!Precision(o, i) = G!PrecisionAt(t) /\ G!PrecisionAt(t) \in Int
      BY <1>9
    <2> HIDE DEF now, mine, j
    <2>8. G!Recall(o, i) = Cardinality(mine)
      BY <1>1, <1>6, <2>3, <2>4, <2>5
    <2> QED
      BY <1>6, <1>7, <2>2, <2>6, <2>7, <2>8
  <1>11. CASE j # 0
    <2>1. j \in G!Last(o) /\ j < i
      BY <1>2, <1>11
    <2> DEFINE u == G!p[o[j]]
               then == G!AtLeast(u) \cap G!Events
    <2>2. /\ j \in 1 .. N /\ u \in Nat /\ u \in G!Forecasts
          /\ \A k \in 1 .. N : j < k => G!p[o[k]] < u
          /\ G!Tp(o, j) = Cardinality(then)
      BY <2>1, LastIs
    <2>3. u > t
      BY <1>1, <2>1, <2>2
    <2>4. \A v \in higher : u <= v
      <3> TAKE v \in higher
      <3>1. PICK m \in G!Last(o) : G!p[o[m]] = v /\ m < i
        BY <1>5
      <3>2. m <= j /\ m \in 1 .. N
        BY <1>2, <3>1, LastIs
      <3> QED
        BY <2>2, <3>1, <3>2, OrderIs
    <2>5. G!Above(t) = u
      <3>1. u \in higher /\ higher \subseteq Int
        BY <1>4, <2>2, <2>3
      <3>2. G!Min(higher) = u
        <4> HIDE DEF higher, u
        <4> QED
          BY <2>4, <3>1, GMinMax
      <3> QED
        BY <3>1, <3>2 DEF G!Above
    <2>6. now = then \cup mine /\ then \cap mine = {}
      <3>1. ASSUME NEW r \in G!Rank
            PROVE  /\ G!p[r] >= t <=> (G!p[r] >= u \/ G!p[r] = t)
                   /\ ~(G!p[r] >= u /\ G!p[r] = t)
        <4>1. G!p[r] \in G!Forecasts /\ G!p[r] \in Nat
          BY <1>3 DEF G!Forecasts
        <4>2. G!p[r] > t => u <= G!p[r]
          BY <2>4, <4>1
        <4> HIDE DEF u
        <4> QED
          BY <1>1, <2>2, <2>3, <4>1, <4>2
      <3> HIDE DEF u
      <3> QED
        BY <1>3, <3>1 DEF G!AtLeast
    <2>7. then \in SUBSET G!Rank
      BY <1>3
    <2>8. IsFiniteSet(then) /\ Cardinality(then) \in Nat
      <3> HIDE DEF then
      <3> QED
        BY <1>3, <2>7
    <2>9. G!Recall(o, i) = G!Tp(o, i) - G!Tp(o, j)
      BY DEF G!Recall
    <2>10. G!PrecisionBefore(o, i) = G!Precision(o, j)
      BY <1>11 DEF G!PrecisionBefore
    <2>11. G!Precision(o, i) = G!PrecisionAt(t) /\ G!PrecisionAt(t) \in Int
      BY <1>9
    <2>12. G!Precision(o, j) = G!PrecisionAt(u) /\ G!PrecisionAt(u) \in Int
      BY <1>9, <2>1
    <2> HIDE DEF now, mine, then, j, u
    <2>13. Cardinality(now) = Cardinality(then) + Cardinality(mine) - Cardinality({})
      BY <1>6, <2>6, <2>8, FS_Union
    <2>14. G!Recall(o, i) = Cardinality(mine)
      BY <1>1, <1>6, <2>2, <2>8, <2>9, <2>13, FS_EmptySet
    <2> QED
      BY <1>6, <1>7, <2>5, <2>10, <2>11, <2>12, <2>14
  <1> QED
    BY <1>10, <1>11

(* The areas under the precision-recall curve are those of its points, in    *)
(* whatever order rows with equal forecasts come.                            *)
LEMMA CurveAreas ==
  ASSUME ScoreConstants, RankedData, NEW o \in G!Orders
  PROVE  /\ G!AveragePrecision(o) = G!SumFunction([t \in G!Forecasts |-> G!Gained(t) * G!PrecisionAt(t)])
         /\ G!Trapezoid2(o) = G!SumFunction([t \in G!Forecasts |->
                                  G!Gained(t) * (G!PrecisionAt(t) + G!PrecisionAt(G!Above(t)))])
  <1> DEFINE S == G!Last(o)
             T == G!Forecasts
             b == [i \in S |-> G!p[o[i]]]
             ap == [i \in S |-> G!Recall(o, i) * G!Precision(o, i)]
             tr == [i \in S |-> G!Recall(o, i) * (G!Precision(o, i) + G!PrecisionBefore(o, i))]
             apAt == [t \in T |-> G!Gained(t) * G!PrecisionAt(t)]
             trAt == [t \in T |-> G!Gained(t) * (G!PrecisionAt(t) + G!PrecisionAt(G!Above(t)))]
  <1>1. IsFiniteSet(S) /\ IsFiniteSet(T)
    <2>1. S \in SUBSET G!Rank
      BY DEF G!Last
    <2>2. T \in SUBSET (0 .. Grades) /\ IsFiniteSet(0 .. Grades)
      <3>1. \A r \in G!Rank : G!p[r] \in 0 .. Grades
        BY RankedRows DEF ScoreConstants
      <3> QED
        BY <3>1, FS_Interval DEF ScoreConstants, G!Forecasts
    <2> HIDE DEF S, T
    <2> QED
      BY <2>1, <2>2, RankedRows, FS_Subset
  <1>2. \A i \in S : b[i] \in T
    BY LastIs
  <1>3. \A i, k \in S : b[i] = b[k] => i = k
    <2> TAKE i, k \in S
    <2>1. Cardinality(G!AtLeast(b[i])) = i /\ Cardinality(G!AtLeast(b[k])) = k
      BY LastIs
    <2> QED
      BY <2>1
  <1>4. \A t \in T : \E i \in S : b[i] = t
    BY LastOf
  <1>5. \A i \in S : /\ ap[i] = apAt[b[i]] /\ apAt[b[i]] \in Int
                     /\ tr[i] = trAt[b[i]] /\ trAt[b[i]] \in Int
    <2> TAKE i \in S
    <2> DEFINE t == b[i]
    <2>1. /\ G!Recall(o, i) = G!Gained(t) /\ G!Gained(t) \in Int
          /\ G!Precision(o, i) = G!PrecisionAt(t) /\ G!PrecisionAt(t) \in Int
          /\ G!PrecisionBefore(o, i) = G!PrecisionAt(G!Above(t)) /\ G!PrecisionAt(G!Above(t)) \in Int
      BY PointsMatch
    <2>2. apAt[t] = G!Gained(t) * G!PrecisionAt(t)
          /\ trAt[t] = G!Gained(t) * (G!PrecisionAt(t) + G!PrecisionAt(G!Above(t)))
      BY <1>2
    <2>3. ap[i] = G!Recall(o, i) * G!Precision(o, i)
          /\ tr[i] = G!Recall(o, i) * (G!Precision(o, i) + G!PrecisionBefore(o, i))
      OBVIOUS
    <2> HIDE DEF t, ap, tr, apAt, trAt, b
    <2>4. /\ ap[i] = apAt[t] /\ apAt[t] \in Int /\ tr[i] = trAt[t] /\ trAt[t] \in Int
      BY <2>1, <2>2, <2>3
    <2> QED
      BY <2>4 DEF t
  <1>6. Ints(apAt, T) /\ Ints(trAt, T)
    BY <1>4, <1>5 DEF Ints
  <1>7. Ints(ap, S) /\ Ints(tr, S)
    BY <1>5 DEF Ints
  <1>8. DOMAIN ap = S /\ DOMAIN tr = S /\ DOMAIN apAt = T /\ DOMAIN trAt = T
    OBVIOUS
  <1>9. G!AveragePrecision(o) = G!SumFunction(ap) /\ G!Trapezoid2(o) = G!SumFunction(tr)
    BY DEF G!AveragePrecision, G!Trapezoid2
  <1> HIDE DEF S, T, ap, tr, apAt, trAt, b
  <1>10. SumOf(ap, S) = SumOf(apAt, T)
    <2>1. \A i \in S : b[i] \in T /\ ap[i] = apAt[b[i]]
      BY <1>2, <1>5
    <2> QED
      BY <1>1, <1>3, <1>4, <1>6, <2>1, SumMap
  <1>11. SumOf(tr, S) = SumOf(trAt, T)
    <2>1. \A i \in S : b[i] \in T /\ tr[i] = trAt[b[i]]
      BY <1>2, <1>5
    <2> QED
      BY <1>1, <1>3, <1>4, <1>6, <2>1, SumMap
  <1>12. /\ G!SumFunction(ap) = SumOf(ap, S) /\ G!SumFunction(tr) = SumOf(tr, S)
         /\ G!SumFunction(apAt) = SumOf(apAt, T) /\ G!SumFunction(trAt) = SumOf(trAt, T)
    BY <1>1, <1>6, <1>7, <1>8, FunctionSum
  <1>13. G!AveragePrecision(o) = G!SumFunction(apAt) /\ G!Trapezoid2(o) = G!SumFunction(trAt)
    BY <1>9, <1>10, <1>11, <1>12
  <1> QED
    BY <1>13 DEF apAt, trAt, T

(* Fractions with positive denominators.                                     *)
LEMMA FractionsOrder ==
  ASSUME NEW a \in Nat, NEW b \in Nat \ {0}, NEW c \in Nat, NEW d \in Nat \ {0},
         NEW e \in Nat, NEW f \in Nat \ {0}, a * d <= c * b, c * f <= e * d
  PROVE  a * f <= e * b
  <1>1. (a * d) * f <= (c * b) * f /\ (c * f) * b <= (e * d) * b
    <2>1. \A u, v \in Int, w \in Nat : u <= v => u * w <= v * w
      OBVIOUS
    <2>2. a * d \in Int /\ c * b \in Int /\ c * f \in Int /\ e * d \in Int
      OBVIOUS
    <2> QED
      BY <2>1, <2>2
  <1>2. (c * b) * f = (c * f) * b /\ (a * d) * f = (a * f) * d /\ (e * d) * b = (e * b) * d
    OBVIOUS
  <1>3. (a * f) * d <= (e * b) * d
    <2>1. (a * d) * f \in Int /\ (c * b) * f \in Int /\ (c * f) * b \in Int /\ (e * d) * b \in Int
      OBVIOUS
    <2> QED
      BY <1>1, <1>2, <2>1
  <1>4. \A u, v \in Int, w \in Nat \ {0} : u * w <= v * w => u <= v
    OBVIOUS
  <1>5. a * f \in Int /\ e * b \in Int
    OBVIOUS
  <1> QED
    BY <1>3, <1>4, <1>5

(* Of finitely many fractions one is the greatest.                           *)
LEMMA GreatestFraction ==
  ASSUME NEW S, IsFiniteSet(S), S # {}, NEW a, NEW d,
         \A x \in S : a[x] \in Nat /\ d[x] \in Nat \ {0}
  PROVE  \E x \in S : \A z \in S : a[z] * d[x] <= a[x] * d[z]
  <1> DEFINE Tops(T) == {x \in T : \A z \in T : a[z] * d[x] <= a[x] * d[z]}
             Good == {T \in SUBSET S : T # {} => Tops(T) # {}}
  <1>1. ASSUME NEW T \in SUBSET S, \A U \in SUBSET T : U # T => U \in Good PROVE T \in Good
    <2> SUFFICES ASSUME T # {} PROVE Tops(T) # {}
      OBVIOUS
    <2>1. PICK x : x \in T
      OBVIOUS
    <2> DEFINE R == T \ {x}
    <2>2. a[x] \in Nat /\ d[x] \in Nat \ {0}
      BY <2>1
    <2>3. CASE R = {}
      <3>1. T = {x}
        BY <2>1, <2>3
      <3>2. x \in Tops(T)
        BY <2>2, <3>1
      <3> QED
        BY <3>2
    <2>4. CASE R # {}
      <3>1. R \in SUBSET T /\ R # T
        BY <2>1
      <3>2. PICK w \in Tops(R) : TRUE
        BY <1>1, <2>4, <3>1
      <3>3. w \in R /\ \A z \in R : a[z] * d[w] <= a[w] * d[z]
        BY <3>2
      <3>4. a[w] \in Nat /\ d[w] \in Nat \ {0} /\ w \in T
        BY <3>3
      <3>5. a[x] * d[w] \in Int /\ a[w] * d[x] \in Int
        BY <2>2, <3>4
      <3>6. CASE a[x] * d[w] <= a[w] * d[x]
        <4>1. \A z \in T : z = x \/ z \in R
          OBVIOUS
        <4> HIDE DEF R
        <4>2. \A z \in T : a[z] * d[w] <= a[w] * d[z]
          BY <3>3, <3>6, <4>1
        <4>3. w \in Tops(T)
          BY <3>4, <4>2
        <4> QED
          BY <4>3
      <3>7. CASE a[w] * d[x] <= a[x] * d[w]
        <4>1. ASSUME NEW z \in T PROVE a[z] * d[x] <= a[x] * d[z]
          <5>1. a[z] \in Nat /\ d[z] \in Nat \ {0}
            OBVIOUS
          <5>2. CASE z = x
            BY <2>2, <5>2
          <5>3. CASE z \in R
            <6>1. a[z] * d[w] <= a[w] * d[z]
              BY <3>3, <5>3
            <6> QED
              BY <2>2, <3>4, <3>7, <5>1, <6>1, FractionsOrder
          <5> QED
            BY <5>2, <5>3
        <4>2. x \in Tops(T)
          BY <2>1, <4>1
        <4> QED
          BY <4>2
      <3> QED
        BY <3>5, <3>6, <3>7
    <2> QED
      BY <2>3, <2>4
  <1>2. S \in Good
    <2> HIDE DEF Good
    <2> QED
      BY <1>1, SubsetInduction
  <1>3. PICK x \in Tops(S) : TRUE
    BY <1>2
  <1> QED
    BY <1>3

(* The F1 of a bin is that of the rows at or above its lowest forecast, by   *)
(* counts and by precision and recall.                                       *)
LEMMA BinF1Is ==
  ASSUME ScoreConstants, RankedData, NEW b \in G!Bins
  PROVE  \E c \in Nat, k \in Nat \ {0}, u \in Nat, v \in Nat \ {0} :
            /\ G!BinF1(b) = <<2 * c, k>> /\ G!F1At(b) = <<u, v>> /\ u * k = (2 * c) * v
  <1> DEFINE pred == {r \in G!Rank : G!p[r] >= b}
             hits == pred \cap G!Events
             ev == G!Events
  <1>1. /\ \A S \in SUBSET G!Rank : IsFiniteSet(S) /\ G!Count(S) = Cardinality(S) /\ Cardinality(S) \in Nat
        /\ ev \in SUBSET G!Rank /\ \A r \in G!Rank : G!p[r] \in Nat
    BY RankedRows
  <1>2. PICK q \in G!Rank : b = 2 * (G!p[q] \div 2)
    BY DEF G!Bins, G!Bin
  <1>3. ASSUME NEW r \in G!Rank PROVE G!Bin(r) >= b <=> G!p[r] >= b
    <2>1. \A x, z \in Nat : 2 * (x \div 2) >= 2 * (z \div 2) <=> x >= 2 * (z \div 2)
      OBVIOUS
    <2> QED
      BY <1>1, <1>2, <2>1 DEF G!Bin
  <1>4. {r \in G!Rank : G!Bin(r) >= b} = pred
    BY <1>3
  <1>5. q \in pred
    <2>1. \A x \in Nat : x >= 2 * (x \div 2)
      OBVIOUS
    <2> QED
      BY <1>1, <1>2, <2>1
  <1>6. /\ pred \in SUBSET G!Rank /\ hits \in SUBSET G!Rank /\ hits \in SUBSET ev
        /\ pred # {}
    BY <1>1, <1>5
  <1>7. G!BinF1(b) = <<2 * G!Count(hits), G!Count(ev) + G!Count(pred)>>
    BY <1>4 DEF G!BinF1
  <1>8. G!F1At(b) = LET pr == <<G!Count(hits), G!Count(pred)>>
                        rc == IF ev = {} THEN <<0, 1>> ELSE <<G!Count(hits), G!Count(ev)>>
                        sum == pr[1] * rc[2] + rc[1] * pr[2]
                    IN  IF sum = 0 THEN <<0, 1>> ELSE <<2 * pr[1] * rc[1], sum>>
    BY <1>6 DEF G!F1At
  <1> HIDE DEF pred, hits, ev
  <1> DEFINE c == Cardinality(hits)
             m == Cardinality(pred)
             e == Cardinality(ev)
  <1>9. /\ c \in Nat /\ m \in Nat /\ e \in Nat /\ m # 0 /\ (e = 0 <=> ev = {}) /\ (e = 0 => c = 0)
        /\ G!Count(hits) = c /\ G!Count(pred) = m /\ G!Count(ev) = e
    <2>1. /\ IsFiniteSet(pred) /\ IsFiniteSet(ev) /\ IsFiniteSet(hits) /\ c \in Nat /\ m \in Nat /\ e \in Nat
          /\ G!Count(hits) = c /\ G!Count(pred) = m /\ G!Count(ev) = e
      BY <1>1, <1>6
    <2>2. m # 0 /\ (e = 0 <=> ev = {})
      BY <1>6, <2>1, FS_EmptySet
    <2>3. c <= e
      BY <1>6, <2>1, FS_Subset
    <2> QED
      BY <2>1, <2>2, <2>3
  <1> HIDE DEF c, m, e
  <1>10. G!BinF1(b) = <<2 * c, e + m>> /\ e + m \in Nat \ {0}
    BY <1>7, <1>9
  <1>11. CASE c = 0
    <2>1. G!F1At(b) = <<0, 1>>
      <3>1. CASE ev = {}
        BY <1>8, <1>9, <1>11, <3>1
      <3>2. CASE ev # {}
        BY <1>8, <1>9, <1>11, <3>2
      <3> QED
        BY <3>1, <3>2
    <2>2. 0 * (e + m) = (2 * c) * 1
      BY <1>9, <1>11
    <2> QED
      BY <1>9, <1>10, <2>1, <2>2
  <1>12. CASE c # 0
    <2> DEFINE v == c * e + c * m
    <2>1. ev # {} /\ e # 0
      BY <1>9, <1>12
    <2>2. v \in Nat \ {0}
      <3>1. \A x, z \in Nat \ {0} : x * z \in Nat \ {0}
        OBVIOUS
      <3>2. c * e \in Nat \ {0} /\ c * m \in Nat \ {0}
        BY <1>9, <1>12, <2>1, <3>1
      <3> QED
        BY <3>2
    <2>3. G!F1At(b) = <<2 * c * c, v>>
      BY <1>8, <1>9, <2>1, <2>2
    <2>4. (2 * c * c) * (e + m) = (2 * c) * v /\ 2 * c * c \in Nat
      BY <1>9
    <2> HIDE DEF v
    <2> QED
      BY <1>9, <1>10, <2>2, <2>3, <2>4
  <1> QED
    BY <1>11, <1>12

(* No bin has a larger F1 than the one that is chosen.                       *)
LEMMA CutIsBest ==
  ASSUME ScoreConstants, RankedData, NEW f, f = G!F1At(G!Cut), NEW b \in G!Bins
  PROVE  G!F1At(b)[1] * f[2] <= f[1] * G!F1At(b)[2]
  <1> DEFINE S == G!Bins
             a == [x \in S |-> G!BinF1(x)[1]]
             d == [x \in S |-> G!BinF1(x)[2]]
             Best == {x \in S : \A z \in S : G!BinF1(z)[1] * G!BinF1(x)[2] <= G!BinF1(x)[1] * G!BinF1(z)[2]}
  <1>1. S \subseteq 0 .. Grades /\ Grades \in Nat
    <2>1. \A x \in 0 .. Grades : 2 * (x \div 2) \in 0 .. Grades
      BY DEF ScoreConstants
    <2>2. \A r \in G!Rank : G!p[r] \in 0 .. Grades
      BY RankedRows DEF ScoreConstants
    <2> QED
      BY <2>1, <2>2 DEF G!Bins, G!Bin, ScoreConstants
  <1>2. IsFiniteSet(S) /\ S # {}
    <2>1. IsFiniteSet(0 .. Grades)
      BY <1>1, FS_Interval
    <2> HIDE DEF S
    <2>2. S \in SUBSET (0 .. Grades)
      BY <1>1
    <2>3. S # {}
      BY DEF S
    <2> QED
      BY <2>1, <2>2, <2>3, FS_Subset
  <1>3. \A x \in S : a[x] \in Nat /\ d[x] \in Nat \ {0}
    <2> TAKE x \in S
    <2>1. PICK c \in Nat, k \in Nat \ {0}, u \in Nat, v \in Nat \ {0} : G!BinF1(x) = <<2 * c, k>>
      BY BinF1Is
    <2>2. a[x] = 2 * c /\ d[x] = k
      BY <2>1
    <2> QED
      BY <2>2
  <1>4. PICK x \in S : \A z \in S : a[z] * d[x] <= a[x] * d[z]
    <2> HIDE DEF S, a, d
    <2> QED
      BY <1>2, <1>3, GreatestFraction
  <1>5. x \in Best
    BY <1>4
  <1>6. Best \subseteq 0 .. Grades /\ Best # {} /\ Best \subseteq Int
    <2>1. Best \subseteq S
      OBVIOUS
    <2> HIDE DEF S, Best
    <2>2. \A z \in 0 .. Grades : z \in Int
      OBVIOUS
    <2> QED
      BY <1>1, <1>5, <2>1, <2>2
  <1>7. PICK w \in Best : \A z \in Best : z <= w
    <2> HIDE DEF Best
    <2> QED
      BY <1>1, <1>6, GreatestOf
  <1>8. G!Max(Best) = w
    <2> HIDE DEF Best
    <2> QED
      BY <1>6, <1>7, GMinMax
  <1>9. G!Cut = w
    BY <1>8 DEF G!Cut
  <1>10. w \in S /\ G!BinF1(b)[1] * G!BinF1(w)[2] <= G!BinF1(w)[1] * G!BinF1(b)[2]
    BY <1>7
  <1>11. PICK c \in Nat, k \in Nat \ {0}, u \in Nat, v \in Nat \ {0} :
            G!BinF1(b) = <<2 * c, k>> /\ G!F1At(b) = <<u, v>> /\ u * k = (2 * c) * v
    BY BinF1Is
  <1>12. PICK c2 \in Nat, k2 \in Nat \ {0}, u2 \in Nat, v2 \in Nat \ {0} :
            G!BinF1(w) = <<2 * c2, k2>> /\ G!F1At(w) = <<u2, v2>> /\ u2 * k2 = (2 * c2) * v2
    BY <1>10, BinF1Is
  <1>13. (2 * c) * k2 <= (2 * c2) * k
    BY <1>10, <1>11, <1>12
  <1>14. u * v2 <= u2 * v
    <2>1. u * k <= (2 * c) * v /\ (2 * c2) * v2 <= u2 * k2
      BY <1>11, <1>12
    <2>2. 2 * c \in Nat /\ 2 * c2 \in Nat
      OBVIOUS
    <2>3. u * k2 <= (2 * c2) * v
      BY <1>13, <2>1, <2>2, FractionsOrder
    <2> QED
      BY <2>1, <2>2, <2>3, FractionsOrder
  <1> QED
    BY <1>9, <1>11, <1>12, <1>14

(* The sum of a constant.                                                    *)
LEMMA SumConstant ==
  ASSUME NEW S, IsFiniteSet(S), NEW k \in Int, NEW f, \A x \in S : f[x] = k
  PROVE  SumOf(f, S) = k * Cardinality(S)
  <1> DEFINE one == [x \in S |-> 1]
  <1>1. \A x \in S : one[x] = 1 /\ f[x] = k * one[x] + 0 * one[x]
    OBVIOUS
  <1>2. Ints(one, S)
    BY DEF Ints
  <1> HIDE DEF one
  <1>3. 0 \in Int
    OBVIOUS
  <1>4. SumOf(f, S) = k * SumOf(one, S) + 0 * SumOf(one, S)
    BY <1>1, <1>2, <1>3, SumLinear
  <1>5. SumOf(one, S) = Cardinality(S) /\ Cardinality(S) \in Nat
    BY <1>1, SumOnes, FS_CardinalityType
  <1> QED
    BY <1>4, <1>5

(* The Brier score of a constant is that of the rows of the resampled days.  *)
LEMMA DayBrier ==
  ASSUME ScoreConstants, RankedData, NEW c \in 0 .. 2, NEW day, NEW S, S = {r \in G!Rank : G!DayOf(r) = day}
  PROVE  G!SumFunction([r \in S |-> G!Square((IF data.event[r] THEN 2 ELSE 0) - c)])
            = (c * c) * Cardinality(S)
              + ((2 - c) * (2 - c) - c * c) * Cardinality({r \in G!Events : G!DayOf(r) = day})
  <1> DEFINE f == [r \in S |-> G!Square((IF data.event[r] THEN 2 ELSE 0) - c)]
             W == {r \in G!Events : G!DayOf(r) = day}
             R == S \ W
             h == (2 - c) * (2 - c)
             m == c * c
  <1>1. S \in SUBSET G!Rank /\ W \in SUBSET S /\ R \in SUBSET S /\ \A r \in S : r \in W <=> data.event[r]
    BY DEF G!Events
  <1>2. IsFiniteSet(S) /\ IsFiniteSet(W) /\ IsFiniteSet(R) /\ Cardinality(S) \in Nat
        /\ Cardinality(W) \in Nat /\ Cardinality(R) \in Nat
    <2>1. S \in SUBSET G!Rank /\ W \in SUBSET G!Rank /\ R \in SUBSET G!Rank
      BY <1>1
    <2> HIDE DEF W, R
    <2> QED
      BY <2>1, RankedRows
  <1>3. h \in Int /\ m \in Int
    OBVIOUS
  <1>4. \A r \in W : f[r] = h
    <2> TAKE r \in W
    <2>1. r \in S /\ data.event[r]
      BY <1>1
    <2> QED
      BY <2>1 DEF G!Square
  <1>5. \A r \in R : f[r] = m
    <2> TAKE r \in R
    <2>1. r \in S /\ ~data.event[r]
      BY <1>1
    <2>2. f[r] = (0 - c) * (0 - c)
      BY <2>1 DEF G!Square
    <2> QED
      BY <2>2
  <1>6. DOMAIN f = S /\ Ints(f, S)
    <2>1. \A r \in S : f[r] \in Int
      BY <1>1, <1>3, <1>4, <1>5
    <2>2. DOMAIN f = S
      OBVIOUS
    <2> HIDE DEF f
    <2> QED
      BY <2>1, <2>2 DEF Ints
  <1> HIDE DEF f, W, h, m
  <1>7. G!SumFunction(f) = SumOf(f, S) /\ SumOf(f, S) = SumOf(f, W) + SumOf(f, R)
    BY <1>1, <1>2, <1>6, FunctionSum, SumSplit
  <1> HIDE DEF R
  <1>8. SumOf(f, W) = h * Cardinality(W) /\ SumOf(f, R) = m * Cardinality(R)
    BY <1>2, <1>3, <1>4, <1>5, SumConstant
  <1>9. Cardinality(R) = Cardinality(S) - Cardinality(W)
    <2>1. S \cap W = W
      BY <1>1
    <2>2. Cardinality(S \ W) = Cardinality(S) - Cardinality(S \cap W)
      BY <1>2, FS_Difference
    <2> QED
      BY <2>1, <2>2 DEF R
  <1>10. h * Cardinality(W) + m * (Cardinality(S) - Cardinality(W)) = m * Cardinality(S) + (h - m) * Cardinality(W)
    <2>1. \A u, v, w, z \in Int : u * v + w * (z - v) = w * z + (u - w) * v
      OBVIOUS
    <2> QED
      BY <1>2, <1>3, <2>1
  <1>11. SumOf(f, S) = m * Cardinality(S) + (h - m) * Cardinality(W)
    BY <1>7, <1>8, <1>9, <1>10
  <1> QED
    BY <1>7, <1>11 DEF f, h, m, W

(* The Brier score from sums by day is that of the rows of the days drawn,   *)
(* each as often as it was drawn.                                            *)
LEMMA BrierOfDays ==
  ASSUME ScoreConstants, RankedData, NEW c \in 0 .. 2, NEW idx \in [G!TestDays -> G!TestDays]
  PROVE  G!ConstantBrier(G!Resampled(G!Rank, idx), G!Resampled(G!Events, idx), c, 2)
            = G!SumFunction([i \in G!TestDays |->
                 G!SumFunction([r \in {r \in G!Rank : G!DayOf(r) = idx[i]} |->
                                   G!Square((IF data.event[r] THEN 2 ELSE 0) - c)])])
  <1> DEFINE K == G!TestDays
             Day(i) == {r \in G!Rank : G!DayOf(r) = idx[i]}
             Wet1(i) == {r \in G!Events : G!DayOf(r) = idx[i]}
             all == [i \in K |-> G!Count(Day(i))]
             ev == [i \in K |-> G!Count(Wet1(i))]
             f == [i \in K |-> G!SumFunction([r \in Day(i) |-> G!Square((IF data.event[r] THEN 2 ELSE 0) - c)])]
             h == (2 - c) * (2 - c)
             m == c * c
  <1>1. IsFiniteSet(K)
    <2>1. IsFiniteSet(1 .. 2)
      BY FS_Interval, 1 \in Int, 2 \in Int
    <2> QED
      BY <2>1 DEF G!TestDays
  <1>2. h \in Int /\ m \in Int /\ h - m \in Int
    OBVIOUS
  <1>3. \A i \in K : all[i] = Cardinality(Day(i)) /\ ev[i] = Cardinality(Wet1(i))
                     /\ all[i] \in Int /\ ev[i] \in Int
    <2> TAKE i \in K
    <2>1. Day(i) \in SUBSET G!Rank /\ Wet1(i) \in SUBSET G!Rank
      BY RankedRows
    <2>2. all[i] = G!Count(Day(i)) /\ ev[i] = G!Count(Wet1(i))
      OBVIOUS
    <2> HIDE DEF Day, Wet1, all, ev
    <2> QED
      BY <2>1, <2>2, RankedRows
  <1>4. \A i \in K : f[i] = m * all[i] + (h - m) * ev[i]
    <2> TAKE i \in K
    <2>1. G!SumFunction([r \in Day(i) |-> G!Square((IF data.event[r] THEN 2 ELSE 0) - c)])
            = (c * c) * Cardinality(Day(i))
              + ((2 - c) * (2 - c) - c * c) * Cardinality(Wet1(i))
      BY DayBrier
    <2>2. f[i] = G!SumFunction([r \in Day(i) |-> G!Square((IF data.event[r] THEN 2 ELSE 0) - c)])
      OBVIOUS
    <2> HIDE DEF Day, Wet1, f, all, ev
    <2> QED
      BY <1>3, <2>1, <2>2
  <1>5. DOMAIN f = K /\ DOMAIN all = K /\ DOMAIN ev = K
    OBVIOUS
  <1>6. G!Resampled(G!Rank, idx) = G!SumFunction(all) /\ G!Resampled(G!Events, idx) = G!SumFunction(ev)
    BY DEF G!Resampled
  <1>7. G!SumFunction(f) = G!SumFunction([i \in G!TestDays |->
                 G!SumFunction([r \in {r \in G!Rank : G!DayOf(r) = idx[i]} |->
                                   G!Square((IF data.event[r] THEN 2 ELSE 0) - c)])])
    OBVIOUS
  <1> HIDE DEF f, all, ev, K, Day, Wet1
  <1>8. Ints(all, K) /\ Ints(ev, K) /\ Ints(f, K)
    <2>1. \A i \in K : all[i] \in Int /\ ev[i] \in Int
      BY <1>3
    <2>2. \A i \in K : m * all[i] + (h - m) * ev[i] \in Int
      <3> HIDE DEF m, h
      <3> QED
        BY <1>2, <2>1
    <2> HIDE DEF m, h
    <2> QED
      BY <1>4, <2>1, <2>2 DEF Ints
  <1> HIDE DEF m, h
  <1>9. SumOf(f, K) = m * SumOf(all, K) + (h - m) * SumOf(ev, K)
    BY <1>1, <1>2, <1>4, <1>8, SumLinear
  <1>10. /\ G!SumFunction(f) = SumOf(f, K) /\ G!SumFunction(all) = SumOf(all, K)
         /\ G!SumFunction(ev) = SumOf(ev, K) /\ SumOf(all, K) \in Int /\ SumOf(ev, K) \in Int
    BY <1>1, <1>5, <1>8, FunctionSum, SumType
  <1>11. G!ConstantBrier(SumOf(all, K), SumOf(ev, K), c, 2)
            = SumOf(ev, K) * h + (SumOf(all, K) - SumOf(ev, K)) * m
    BY DEF G!ConstantBrier, G!Square, h, m
  <1>12. \A u, v, w, z \in Int : v * w + (u - v) * z = z * u + (w - z) * v
    OBVIOUS
  <1> QED
    BY <1>2, <1>6, <1>7, <1>9, <1>10, <1>11, <1>12

(* What holds at 0 and of the next number holds up to any number.            *)
LEMMA StepUp ==
  ASSUME NEW k \in Nat, NEW S, 0 \in S, \A z \in 0 .. k : z \in S /\ z < k => z + 1 \in S
  PROVE  \A z \in 0 .. k : z \in S
  <1> DEFINE T == {z \in 0 .. k : \A x \in 0 .. z : x \in S}
  <1>1. 0 \in T
    BY SMT
  <1>2. \A z \in T : z < k => z + 1 \in T
    <2> TAKE z \in T
    <2> HAVE z < k
    <2>1. z \in 0 .. k /\ z \in S /\ z + 1 \in 0 .. k
      OBVIOUS
    <2>2. z + 1 \in S
      BY <2>1
    <2>3. \A x \in 0 .. (z + 1) : x \in 0 .. z \/ x = z + 1
      BY <2>1
    <2>4. \A x \in 0 .. (z + 1) : x \in S
      BY <2>2, <2>3
    <2> QED
      BY <2>1, <2>4
  <1>3. T \subseteq 0 .. k /\ T # {}
    BY <1>1
  <1> HIDE DEF T
  <1>4. PICK x \in T : \A w \in T : w <= x
    BY <1>3, GreatestOf
  <1>5. x = k
    BY <1>2, <1>3, <1>4
  <1> QED
    BY <1>4, <1>5 DEF T

(* A sum over 0 .. z + 1 is one over 0 .. z and one more value.              *)
LEMMA SumStep ==
  ASSUME NEW k \in Nat, NEW f, Ints(f, 0 .. k), NEW z \in 0 .. k
  PROVE  /\ IsFiniteSet(0 .. z) /\ Ints(f, 0 .. z) /\ SumOf(f, 0 .. z) \in Int
         /\ SumOf(f, 0 .. 0) = f[0]
         /\ z < k => SumOf(f, 0 .. (z + 1)) = SumOf(f, 0 .. z) + f[z + 1]
  <1>1. z \in Nat /\ 0 \in Int /\ z \in Int
    OBVIOUS
  <1>2. IsFiniteSet(0 .. z)
    BY <1>1, FS_Interval
  <1>3. 0 .. z \subseteq 0 .. k
    BY <1>1
  <1>4. Ints(f, 0 .. z)
    BY <1>3 DEF Ints
  <1>5. SumOf(f, 0 .. z) \in Int
    BY <1>2, <1>4, SumType
  <1>6. SumOf(f, 0 .. 0) = f[0]
    <2>1. 0 .. 0 = {0} /\ 0 \in 0 .. k
      BY SMT
    <2>2. f[0] \in Int
      BY <2>1 DEF Ints
    <2> QED
      BY <2>1, <2>2, SumSingle
  <1>7. ASSUME z < k PROVE SumOf(f, 0 .. (z + 1)) = SumOf(f, 0 .. z) + f[z + 1]
    <2>1. z + 1 \in 0 .. k /\ z + 1 \in Int /\ 0 .. (z + 1) \subseteq 0 .. k /\ z + 1 \in 0 .. (z + 1)
      BY <1>1, <1>7
    <2>2. IsFiniteSet(0 .. (z + 1)) /\ Ints(f, 0 .. (z + 1))
      BY <1>1, <2>1, FS_Interval DEF Ints
    <2>3. (0 .. (z + 1)) \ {z + 1} = 0 .. z
      BY <1>1
    <2>4. SumOf(f, 0 .. (z + 1)) = f[z + 1] + SumOf(f, (0 .. (z + 1)) \ {z + 1})
      BY <2>1, <2>2, SumTake
    <2>5. f[z + 1] \in Int
      BY <2>1 DEF Ints
    <2>6. SumOf(f, 0 .. (z + 1)) = f[z + 1] + SumOf(f, 0 .. z)
      BY <2>3, <2>4
    <2> QED
      BY <1>5, <2>5, <2>6
  <1> QED
    BY <1>2, <1>4, <1>5, <1>6, <1>7

(* Weights v on 0 .. k, their sums f, their moments m, and the terms q of    *)
(* the mean difference.                                                      *)
Levels(k, v, f, m, q) ==
    /\ Ints(v, 0 .. k)
    /\ \A z \in 0 .. k : f[z] = SumOf(v, 0 .. z)
    /\ \A x \in 0 .. k : m[x] = v[x] * x
    /\ \A x \in 0 .. k : q[x] = v[x] * x * (2 * f[x] - v[x])

(* The sums of a distribution function and of its square.                    *)
LEMMA Cumulative ==
  ASSUME NEW k \in Nat, NEW v, NEW f, NEW m, NEW q, Levels(k, v, f, m, q),
         NEW s, \A x \in 0 .. k : s[x] = f[x] * f[x]
  PROVE  /\ Ints(f, 0 .. k) /\ Ints(m, 0 .. k) /\ Ints(q, 0 .. k) /\ Ints(s, 0 .. k)
         /\ \A z \in 0 .. k :
               /\ SumOf(f, 0 .. z) = (z + 1) * f[z] - SumOf(m, 0 .. z)
               /\ SumOf(s, 0 .. z) = (z + 1) * (f[z] * f[z]) - SumOf(q, 0 .. z)
  <1>0. /\ Ints(v, 0 .. k)
        /\ \A z \in 0 .. k : f[z] = SumOf(v, 0 .. z)
        /\ \A x \in 0 .. k : m[x] = v[x] * x
        /\ \A x \in 0 .. k : q[x] = v[x] * x * (2 * f[x] - v[x])
    BY DEF Levels
  <1>1. \A z \in 0 .. k : v[z] \in Int /\ f[z] \in Int
    BY <1>0, SumStep DEF Ints
  <1>2. Ints(f, 0 .. k)
    BY <1>1 DEF Ints
  <1>3. Ints(m, 0 .. k)
    <2> SUFFICES ASSUME NEW x \in 0 .. k PROVE m[x] \in Int
      BY DEF Ints
    <2> QED
      BY <1>0, <1>1
  <1>4. Ints(q, 0 .. k)
    <2> SUFFICES ASSUME NEW x \in 0 .. k PROVE q[x] \in Int
      BY DEF Ints
    <2>1. v[x] * x \in Int /\ 2 * f[x] - v[x] \in Int
      BY <1>1
    <2> QED
      BY <1>0, <2>1
  <1>5. Ints(s, 0 .. k)
    <2> SUFFICES ASSUME NEW x \in 0 .. k PROVE s[x] \in Int
      BY DEF Ints
    <2> QED
      BY <1>1
  <1> DEFINE S == {z \in 0 .. k : /\ SumOf(f, 0 .. z) = (z + 1) * f[z] - SumOf(m, 0 .. z)
                                  /\ SumOf(s, 0 .. z) = (z + 1) * (f[z] * f[z]) - SumOf(q, 0 .. z)}
  <1>6. 0 \in S
    <2>1. 0 \in 0 .. k
      OBVIOUS
    <2>2. SumOf(f, 0 .. 0) = f[0] /\ SumOf(m, 0 .. 0) = m[0] /\ SumOf(s, 0 .. 0) = s[0]
          /\ SumOf(q, 0 .. 0) = q[0]
      BY <1>2, <1>3, <1>4, <1>5, <2>1, SumStep
    <2>3. m[0] = 0 /\ q[0] = 0 /\ s[0] = f[0] * f[0] /\ f[0] \in Int
      <3>1. v[0] \in Int /\ f[0] \in Int
        BY <1>1, <2>1
      <3>2. m[0] = v[0] * 0 /\ q[0] = v[0] * 0 * (2 * f[0] - v[0]) /\ s[0] = f[0] * f[0]
        BY <1>0, <2>1
      <3>3. v[0] * 0 = 0 /\ 0 * (2 * f[0] - v[0]) = 0
        BY <3>1
      <3> QED
        BY <3>1, <3>2, <3>3
    <2>4. (0 + 1) * f[0] - 0 = f[0] /\ (0 + 1) * (f[0] * f[0]) - 0 = f[0] * f[0]
      BY <2>3
    <2> QED
      BY <2>1, <2>2, <2>3, <2>4
  <1>7. \A z \in 0 .. k : z \in S /\ z < k => z + 1 \in S
    <2> TAKE z \in 0 .. k
    <2> HAVE z \in S /\ z < k
    <2> DEFINE u == z + 1
    <2>1. u \in 0 .. k /\ z \in Int
      OBVIOUS
    <2>2. /\ SumOf(f, 0 .. u) = SumOf(f, 0 .. z) + f[u] /\ SumOf(m, 0 .. u) = SumOf(m, 0 .. z) + m[u]
          /\ SumOf(s, 0 .. u) = SumOf(s, 0 .. z) + s[u] /\ SumOf(q, 0 .. u) = SumOf(q, 0 .. z) + q[u]
          /\ f[u] = f[z] + v[u]
          /\ SumOf(m, 0 .. z) \in Int /\ SumOf(q, 0 .. z) \in Int
      BY <1>0, <1>2, <1>3, <1>4, <1>5, <2>1, SumStep
    <2>3. /\ m[u] = v[u] * (z + 1) /\ q[u] = v[u] * (z + 1) * (2 * f[u] - v[u]) /\ s[u] = f[u] * f[u]
          /\ f[z] \in Int /\ v[u] \in Int
      BY <1>0, <1>1, <2>1
    <2>4. /\ SumOf(f, 0 .. z) = (z + 1) * f[z] - SumOf(m, 0 .. z)
          /\ SumOf(s, 0 .. z) = (z + 1) * (f[z] * f[z]) - SumOf(q, 0 .. z)
      OBVIOUS
    <2> DEFINE fz == f[z]
               vu == v[u]
               mz == SumOf(m, 0 .. z)
               qz == SumOf(q, 0 .. z)
    <2>5. z \in Int /\ fz \in Int /\ vu \in Int /\ mz \in Int /\ qz \in Int /\ f[u] = fz + vu
      BY <2>1, <2>2, <2>3
    <2>6. /\ SumOf(f, 0 .. u) = ((z + 1) * fz - mz) + (fz + vu)
          /\ SumOf(m, 0 .. u) = mz + vu * (z + 1)
          /\ SumOf(s, 0 .. u) = ((z + 1) * (fz * fz) - qz) + (fz + vu) * (fz + vu)
          /\ SumOf(q, 0 .. u) = qz + vu * (z + 1) * (2 * (fz + vu) - vu)
      BY <2>2, <2>3, <2>4
    <2> HIDE DEF S, fz, vu, mz, qz
    <2>7. SumOf(f, 0 .. u) = (u + 1) * f[u] - SumOf(m, 0 .. u)
      <3>1. ((z + 1) * fz - mz) + (fz + vu) = ((z + 1) + 1) * (fz + vu) - (mz + vu * (z + 1))
        BY <2>5
      <3> QED
        BY <2>5, <2>6, <3>1
    <2>8. SumOf(s, 0 .. u) = (u + 1) * (f[u] * f[u]) - SumOf(q, 0 .. u)
      <3>1. ((z + 1) * (fz * fz) - qz) + (fz + vu) * (fz + vu)
              = ((z + 1) + 1) * ((fz + vu) * (fz + vu)) - (qz + vu * (z + 1) * (2 * (fz + vu) - vu))
        BY <2>5
      <3> QED
        BY <2>5, <2>6, <3>1
    <2> QED
      BY <2>1, <2>7, <2>8 DEF S
  <1>8. \A z \in 0 .. k : z \in S
    <2> HIDE DEF S
    <2> QED
      BY <1>6, <1>7, StepUp
  <1> QED
    BY <1>2, <1>3, <1>4, <1>5, <1>8

(* The squared distances d of the sums f to a step at b of height e.         *)
Squared(k, f, b, e, d) ==
    \A x \in 0 .. k : d[x] = (f[x] - (IF x >= b THEN e ELSE 0)) * (f[x] - (IF x >= b THEN e ELSE 0))

(* The sum of the squared distances, from moments: the core of every closed  *)
(* form of the CRPS.                                                         *)
LEMMA SquaredDistance ==
  ASSUME NEW k \in Nat, NEW v, NEW f, NEW m, NEW q, Levels(k, v, f, m, q),
         NEW b \in 0 .. k, NEW e, e = f[k], NEW d, Squared(k, f, b, e, d)
  PROVE  /\ Ints(d, 0 .. k) /\ SumOf(m, 0 .. b) \in Int /\ SumOf(m, 0 .. k) \in Int /\ SumOf(q, 0 .. k) \in Int
         /\ f[b] \in Int /\ e \in Int
         /\ SumOf(d, 0 .. k) = 2 * e * b * f[b] - 2 * e * SumOf(m, 0 .. b) + 2 * e * SumOf(m, 0 .. k)
                               - e * e * b - SumOf(q, 0 .. k)
  <1> DEFINE s == [x \in 0 .. k |-> f[x] * f[x]]
             R == 0 .. k
             Lo == (0 .. b) \ {b}
             Hi == R \ Lo
  <1>1. \A x \in R : s[x] = f[x] * f[x]
    OBVIOUS
  <1> HIDE DEF s
  <1>2. /\ Ints(f, R) /\ Ints(m, R) /\ Ints(q, R) /\ Ints(s, R)
        /\ \A z \in R : /\ SumOf(f, 0 .. z) = (z + 1) * f[z] - SumOf(m, 0 .. z)
                        /\ SumOf(s, 0 .. z) = (z + 1) * (f[z] * f[z]) - SumOf(q, 0 .. z)
    BY <1>1, Cumulative
  <1>3. \A x \in R : f[x] \in Int /\ s[x] \in Int
    BY <1>2 DEF Ints
  <1>4. b \in R /\ k \in R /\ e \in Int /\ f[b] \in Int
    <2>1. b \in R /\ k \in R
      OBVIOUS
    <2> QED
      BY <1>3, <2>1
  <1>40. b \in Int /\ k \in Int
    OBVIOUS
  <1>5. /\ IsFiniteSet(R) /\ SumOf(m, 0 .. b) \in Int /\ SumOf(m, R) \in Int /\ SumOf(q, R) \in Int
        /\ SumOf(f, 0 .. b) \in Int /\ IsFiniteSet(0 .. b) /\ Ints(f, 0 .. b)
    BY <1>2, <1>4, SumStep
  <1>6. Lo \subseteq R /\ Hi \subseteq R /\ \A x \in R : x \in Hi <=> x >= b
    BY SMT
  <1>7. IsFiniteSet(Lo) /\ IsFiniteSet(Hi) /\ Cardinality(Hi) = k - b + 1
    <2>1. Hi = b .. k
      BY SMT
    <2>2. IsFiniteSet(b .. k) /\ Cardinality(b .. k) = k - b + 1
      <3>1. b \in Int /\ k \in Int /\ b <= k
        OBVIOUS
      <3> QED
        BY <3>1, FS_Interval
    <2>3. IsFiniteSet(Lo)
      BY <1>5, <1>6, FS_Subset
    <2> HIDE DEF Lo, Hi
    <2> QED
      BY <2>1, <2>2, <2>3
  <1>8. SumOf(f, Lo) = b * f[b] - SumOf(m, 0 .. b)
    <2>1. b \in 0 .. b
      OBVIOUS
    <2>2. SumOf(f, 0 .. b) = f[b] + SumOf(f, Lo)
      BY <1>5, <2>1, SumTake
    <2>3. Ints(f, Lo)
      BY <1>5 DEF Ints
    <2>4. SumOf(f, Lo) \in Int
      BY <1>7, <2>3, SumType
    <2>5. SumOf(f, 0 .. b) = (b + 1) * f[b] - SumOf(m, 0 .. b)
      BY <1>2, <1>4
    <2> DEFINE fb == f[b]
               lo == SumOf(f, Lo)
               mb == SumOf(m, 0 .. b)
    <2>6. fb \in Int /\ lo \in Int /\ mb \in Int /\ (b + 1) * fb - mb = fb + lo
      BY <1>4, <1>5, <2>2, <2>4, <2>5
    <2> HIDE DEF fb, lo, mb
    <2>7. (b + 1) * fb = b * fb + fb /\ b * fb \in Int
      BY <1>40, <2>6
    <2>8. lo = b * fb - mb
      BY <2>6, <2>7
    <2> QED
      BY <2>8 DEF fb, lo, mb
  <1> HIDE DEF Lo
  <1>9. /\ SumOf(f, R) = SumOf(f, Lo) + SumOf(f, Hi) /\ SumOf(f, Lo) \in Int /\ SumOf(f, Hi) \in Int
        /\ SumOf(s, R) = SumOf(s, Lo) + SumOf(s, Hi) /\ SumOf(s, Lo) \in Int /\ SumOf(s, Hi) \in Int
    <2>1. Ints(f, R) /\ Ints(s, R) /\ Lo \subseteq R /\ IsFiniteSet(R)
      BY <1>2, <1>5, <1>6
    <2> HIDE DEF R
    <2> QED
      BY <2>1, SumSplit
  <1>10. Ints(f, Hi) /\ Ints(s, Hi) /\ Ints(s, Lo)
    <2> HIDE DEF Hi
    <2> QED
      BY <1>3, <1>6 DEF Ints
  <1> HIDE DEF Hi
  <1>11. SumOf(d, Lo) = SumOf(s, Lo) /\ Ints(d, Lo)
    <2>1. \A x \in Lo : s[x] = d[x] /\ d[x] \in Int
      <3> TAKE x \in Lo
      <3>1. x \in R /\ ~(x >= b) /\ f[x] \in Int
        BY <1>3, <1>6 DEF Hi
      <3>2. d[x] = (f[x] - 0) * (f[x] - 0) /\ f[x] - 0 = f[x]
        BY <3>1 DEF Squared
      <3> QED
        BY <1>1, <1>3, <3>1, <3>2
    <2> QED
      BY <1>7, <1>10, <2>1, SumEqual DEF Ints
  <1>12. SumOf(d, Hi) = SumOf(s, Hi) - 2 * e * SumOf(f, Hi) + e * e * (k - b + 1) /\ Ints(d, Hi)
    <2> DEFINE one == [x \in Hi |-> 1]
               g == [x \in Hi |-> (-2 * e) * f[x] + (e * e) * one[x]]
    <2>1. \A x \in Hi : one[x] = 1 /\ g[x] = (-2 * e) * f[x] + (e * e) * one[x]
      OBVIOUS
    <2> HIDE DEF g, one
    <2> DEFINE e2 == -2 * e
               ee == e * e
    <2>2. e2 \in Int /\ ee \in Int /\ 1 \in Int
      <3>1. e \in Int
        BY <1>4
      <3> QED
        BY <3>1
    <2>3. Ints(one, Hi)
      BY <2>1 DEF Ints
    <2>20. \A x \in Hi : g[x] = e2 * f[x] + ee * one[x]
      BY <2>1
    <2> HIDE DEF e2, ee
    <2>4. SumOf(g, Hi) = e2 * SumOf(f, Hi) + ee * SumOf(one, Hi)
      BY <1>7, <1>10, <2>20, <2>2, <2>3, SumLinear
    <2>5. SumOf(one, Hi) = k - b + 1
      BY <1>7, <2>1, SumOnes
    <2>6. Ints(g, Hi)
      <3> SUFFICES ASSUME NEW x \in Hi PROVE g[x] \in Int
        BY DEF Ints
      <3>1. f[x] \in Int /\ one[x] \in Int /\ g[x] = e2 * f[x] + ee * one[x]
        BY <1>3, <1>6, <2>1, <2>20
      <3>2. e2 * f[x] \in Int /\ ee * one[x] \in Int
        BY <2>2, <3>1
      <3> QED
        BY <3>1, <3>2
    <2>7. \A x \in Hi : d[x] = 1 * s[x] + 1 * g[x] /\ d[x] \in Int
      <3> TAKE x \in Hi
      <3>1. x \in R /\ x >= b /\ f[x] \in Int /\ s[x] = f[x] * f[x] /\ one[x] = 1
        BY <1>1, <1>3, <1>6, <2>1
      <3>2. d[x] = (f[x] - e) * (f[x] - e)
        BY <3>1 DEF Squared
      <3>3. g[x] = (-2 * e) * f[x] + (e * e) * 1
        BY <2>1
      <3> DEFINE a == f[x]
      <3>4. a \in Int /\ e \in Int
        BY <1>4, <3>1
      <3>5. d[x] = (a - e) * (a - e) /\ s[x] = a * a /\ g[x] = (-2 * e) * a + (e * e) * 1
        BY <3>1, <3>2, <3>3
      <3> HIDE DEF a
      <3>6. (a - e) * (a - e) = 1 * (a * a) + 1 * ((-2 * e) * a + (e * e) * 1) /\ (a - e) * (a - e) \in Int
        BY <3>4
      <3> QED
        BY <3>5, <3>6
    <2>8. SumOf(d, Hi) = 1 * SumOf(s, Hi) + 1 * SumOf(g, Hi)
      BY <1>7, <1>10, <2>2, <2>6, <2>7, SumLinear
    <2> DEFINE fh == SumOf(f, Hi)
               sh == SumOf(s, Hi)
               u == k - b + 1
    <2>9. fh \in Int /\ sh \in Int /\ u \in Int /\ e \in Int
      BY <1>4, <1>9, <1>40
    <2>10. SumOf(d, Hi) = 1 * sh + 1 * ((-2 * e) * fh + (e * e) * u)
      BY <2>4, <2>5, <2>8 DEF e2, ee
    <2> HIDE DEF fh, sh, u
    <2>11. 1 * sh + 1 * ((-2 * e) * fh + (e * e) * u) = sh - 2 * e * fh + e * e * u
      BY <2>9
    <2>12. Ints(d, Hi)
      BY <2>7 DEF Ints
    <2> QED
      BY <2>10, <2>11, <2>12 DEF fh, sh, u
  <1>13. Ints(d, R) /\ SumOf(d, R) = SumOf(d, Lo) + SumOf(d, Hi)
    <2>1. \A x \in R : x \in Lo \/ x \in Hi
      BY DEF Hi
    <2>2. Ints(d, R)
      BY <1>11, <1>12, <2>1 DEF Ints
    <2>3. SumOf(d, R) = SumOf(d, Lo) + SumOf(d, R \ Lo)
      BY <1>5, <1>6, <2>2, SumSplit
    <2> QED
      BY <2>2, <2>3 DEF Hi
  <1>14. SumOf(s, R) = (k + 1) * (e * e) - SumOf(q, R) /\ SumOf(f, R) = (k + 1) * e - SumOf(m, R)
    BY <1>2, <1>4
  <1> DEFINE fr == SumOf(f, R)
             lo == SumOf(f, Lo)
             mk == SumOf(m, R)
             mb == SumOf(m, 0 .. b)
             fb == f[b]
             qk == SumOf(q, R)
             sl == SumOf(s, Lo)
             sh == SumOf(s, Hi)
             fh == SumOf(f, Hi)
  <1>15. /\ fr \in Int /\ lo \in Int /\ mk \in Int /\ mb \in Int /\ fb \in Int /\ qk \in Int
         /\ sl \in Int /\ sh \in Int /\ fh \in Int /\ e \in Int /\ b \in Int /\ k \in Int
    BY <1>4, <1>40, <1>5, <1>9
  <1>16. /\ sl + sh = (k + 1) * (e * e) - qk /\ fr = (k + 1) * e - mk /\ lo = b * fb - mb /\ fr = lo + fh
         /\ SumOf(d, R) = sl + (sh - 2 * e * fh + e * e * (k - b + 1))
    BY <1>8, <1>9, <1>11, <1>12, <1>13, <1>14
  <1> HIDE DEF fr, lo, mk, mb, fb, qk, sl, sh, fh
  <1>17. fh = (k + 1) * e - mk - (b * fb - mb)
    <2> DEFINE ke == (k + 1) * e
               bf == b * fb
    <2>1. ke \in Int /\ bf \in Int
      BY <1>15
    <2>2. fr = ke - mk /\ lo = bf - mb /\ fr = lo + fh
      BY <1>16
    <2> HIDE DEF ke, bf
    <2>3. fh = ke - mk - (bf - mb)
      BY <1>15, <2>1, <2>2
    <2> QED
      BY <2>3 DEF ke, bf
  <1>18. sl + sh = (k + 1) * (e * e) - qk
    BY <1>16
  <1>19. (sl + sh) - 2 * e * fh + e * e * (k - b + 1)
            = 2 * e * b * fb - 2 * e * mb + 2 * e * mk - e * e * b - qk
    <2> DEFINE t == sl + sh
               p1 == (k + 1) * (e * e)
               p2 == e * mk
               p3 == e * b * fb
               p4 == e * mb
               p5 == e * e * b
               left == 2 * e * fh
               right == e * e * (k - b + 1)
    <2>0. (sl + sh) - 2 * e * fh + e * e * (k - b + 1) = t - left + right
      OBVIOUS
    <2>1. p1 \in Int /\ p2 \in Int /\ p3 \in Int /\ p4 \in Int /\ p5 \in Int
      BY <1>15
    <2>2. t = p1 - qk
      BY <1>18
    <2>3. 2 * e * ((k + 1) * e - mk - (b * fb - mb)) = 2 * p1 - 2 * p2 - 2 * p3 + 2 * p4
      BY <1>15
    <2>4. left = 2 * p1 - 2 * p2 - 2 * p3 + 2 * p4
      BY <1>17, <2>3
    <2>5. right = p1 - p5
      BY <1>15
    <2>6. 2 * e * b * fb - 2 * e * mb + 2 * e * mk - e * e * b - qk = 2 * p3 - 2 * p4 + 2 * p2 - p5 - qk
      BY <1>15
    <2> HIDE DEF t, p1, p2, p3, p4, p5, left, right
    <2>7. t - left + right = 2 * p3 - 2 * p4 + 2 * p2 - p5 - qk
      BY <1>15, <2>1, <2>2, <2>4, <2>5
    <2>8. t - left + right = 2 * e * b * fb - 2 * e * mb + 2 * e * mk - e * e * b - qk
      BY <2>6, <2>7
    <2> QED
      BY <2>8, <2>0
  <1>20. sl + (sh - 2 * e * fh + e * e * (k - b + 1)) = (sl + sh) - 2 * e * fh + e * e * (k - b + 1)
    <2>1. 2 * e * fh \in Int /\ e * e * (k - b + 1) \in Int
      BY <1>15
    <2> QED
      BY <1>15, <2>1
  <1>21. SumOf(d, R) = 2 * e * b * fb - 2 * e * mb + 2 * e * mk - e * e * b - qk
    BY <1>16, <1>19, <1>20
  <1> QED
    BY <1>4, <1>5, <1>13, <1>21 DEF fr, lo, mk, mb, fb, qk, sl, sh, fh

(* The first odd numbers sum to a square.                                    *)
LEMMA SumOdds ==
  ASSUME NEW c \in Nat, NEW odd, \A i \in 0 .. c : odd[i] = 2 * i + 1
  PROVE  \A z \in 0 .. c : SumOf(odd, 0 .. z) = (z + 1) * (z + 1)
  <1> DEFINE S == {z \in 0 .. c : SumOf(odd, 0 .. z) = (z + 1) * (z + 1)}
  <1>1. Ints(odd, 0 .. c)
    <2> SUFFICES ASSUME NEW i \in 0 .. c PROVE odd[i] \in Int
      BY DEF Ints
    <2> QED
      OBVIOUS
  <1>2. 0 \in S
    <2>1. 0 \in 0 .. c
      OBVIOUS
    <2>2. SumOf(odd, 0 .. 0) = odd[0] /\ odd[0] = 2 * 0 + 1
      BY <1>1, <2>1, SumStep
    <2>3. 2 * 0 + 1 = (0 + 1) * (0 + 1)
      OBVIOUS
    <2> QED
      BY <2>1, <2>2, <2>3
  <1>3. \A z \in 0 .. c : z \in S /\ z < c => z + 1 \in S
    <2> TAKE z \in 0 .. c
    <2> HAVE z \in S /\ z < c
    <2> DEFINE w == z + 1
    <2>1. w \in 0 .. c /\ z \in Int
      OBVIOUS
    <2>2. SumOf(odd, 0 .. w) = SumOf(odd, 0 .. z) + odd[w]
      BY <1>1, SumStep
    <2>3. odd[w] = 2 * (z + 1) + 1 /\ SumOf(odd, 0 .. z) = (z + 1) * (z + 1)
      BY <2>1
    <2>4. (z + 1) * (z + 1) + (2 * (z + 1) + 1) = ((z + 1) + 1) * ((z + 1) + 1)
      BY <2>1
    <2>5. SumOf(odd, 0 .. w) = (w + 1) * (w + 1)
      BY <2>2, <2>3, <2>4
    <2> QED
      BY <2>1, <2>5
  <1> HIDE DEF S
  <1>4. \A z \in 0 .. c : z \in S
    BY <1>2, <1>3, StepUp
  <1> QED
    BY <1>4 DEF S

(* Sums over a run of indices.                                               *)
Constant(g, Dom, w) == \A i \in Dom : g[i] = w
OddTerms(r, Dom, x) == \A i \in Dom : r[i] = x * (2 * i + 1)

LEMMA RunSums ==
  ASSUME NEW a \in Nat, NEW b \in Nat, a <= b, NEW Dom, Dom = a .. (b - 1), NEW x \in Int, NEW w \in Int,
         NEW g, Constant(g, Dom, w), NEW r, OddTerms(r, Dom, x)
  PROVE  /\ IsFiniteSet(Dom) /\ Ints(g, Dom) /\ Ints(r, Dom)
         /\ SumOf(g, Dom) = w * (b - a) /\ SumOf(r, Dom) = x * (b * b - a * a)
  <1>1. IsFiniteSet(Dom) /\ Cardinality(Dom) = b - a
    <2>1. a \in Int /\ b - 1 \in Int
      OBVIOUS
    <2>2. IsFiniteSet(a .. (b - 1)) /\ Cardinality(a .. (b - 1)) = IF a > b - 1 THEN 0 ELSE (b - 1) - a + 1
      BY <2>1, FS_Interval
    <2>3. (IF a > b - 1 THEN 0 ELSE (b - 1) - a + 1) = b - a
      OBVIOUS
    <2> QED
      BY <2>2, <2>3
  <1>2. Ints(g, Dom) /\ Ints(r, Dom)
    <2>1. \A i \in Dom : x * (2 * i + 1) \in Int
      OBVIOUS
    <2> QED
      BY <2>1 DEF Ints, OddTerms, Constant
  <1>3. SumOf(g, Dom) = w * (b - a)
    <2>1. SumOf(g, Dom) = w * Cardinality(Dom)
      BY <1>1, SumConstant DEF Constant
    <2> QED
      BY <1>1, <2>1
  <1>4. CASE a = b
    <2>1. Dom = {}
      BY <1>4
    <2>2. SumOf(r, Dom) = 0
      BY <2>1, SumEmpty
    <2>3. x * (b * b - a * a) = 0
      BY <1>4
    <2> QED
      BY <1>1, <1>2, <1>3, <2>2, <2>3
  <1>5. CASE a < b
    <2> DEFINE c == b - 1
               odd == [i \in 0 .. c |-> 2 * i + 1]
    <2>1. c \in Nat /\ c \in 0 .. c /\ c + 1 = b /\ Dom \subseteq 0 .. c
      BY <1>5
    <2>2. \A i \in 0 .. c : odd[i] = 2 * i + 1
      OBVIOUS
    <2>3. Ints(odd, 0 .. c)
      BY <2>1 DEF Ints
    <2> HIDE DEF odd
    <2>4. SumOf(odd, 0 .. c) = b * b
      <3>1. \A z \in 0 .. c : SumOf(odd, 0 .. z) = (z + 1) * (z + 1)
        BY <2>1, <2>2, SumOdds
      <3> QED
        BY <2>1, <3>1
    <2>5. IsFiniteSet(0 .. c)
      <3>1. 0 \in Int /\ c \in Int
        BY <2>1
      <3> QED
        BY <3>1, FS_Interval
    <2>6. /\ SumOf(odd, 0 .. c) = SumOf(odd, Dom) + SumOf(odd, (0 .. c) \ Dom)
          /\ SumOf(odd, Dom) \in Int /\ SumOf(odd, (0 .. c) \ Dom) \in Int
      <3> DEFINE R == 0 .. c
      <3>1. IsFiniteSet(R) /\ Ints(odd, R) /\ Dom \subseteq R
        BY <2>1, <2>3, <2>5
      <3> HIDE DEF R
      <3>2. SumOf(odd, R) = SumOf(odd, Dom) + SumOf(odd, R \ Dom) /\ SumOf(odd, Dom) \in Int /\ SumOf(odd, R \ Dom) \in Int
        BY <3>1, SumSplit
      <3> QED
        BY <3>2 DEF R
    <2>7. SumOf(odd, (0 .. c) \ Dom) = a * a
      <3>1. CASE a = 0
        <4>1. (0 .. c) \ Dom = {}
          BY <3>1
        <4>2. SumOf(odd, (0 .. c) \ Dom) = 0
          BY <4>1, SumEmpty
        <4>3. a * a = 0
          BY <3>1
        <4> QED
          BY <4>2, <4>3
      <3>2. CASE a > 0
        <4>1. (0 .. c) \ Dom = 0 .. (a - 1) /\ a - 1 \in 0 .. c /\ (a - 1) + 1 = a
          BY <1>5, <3>2
        <4>2. \A z \in 0 .. c : SumOf(odd, 0 .. z) = (z + 1) * (z + 1)
          BY <2>1, <2>2, SumOdds
        <4> QED
          BY <4>1, <4>2
      <3> QED
        BY <3>1, <3>2
    <2>8. SumOf(r, Dom) = x * SumOf(odd, Dom)
      <3>1. \A i \in Dom : r[i] = x * odd[i] + 0 * odd[i]
        <4> TAKE i \in Dom
        <4>1. odd[i] = 2 * i + 1 /\ r[i] = x * (2 * i + 1)
          BY <2>1, <2>2 DEF OddTerms
        <4>2. i \in Int
          OBVIOUS
        <4>3. x * (2 * i + 1) = x * (2 * i + 1) + 0 * (2 * i + 1)
          BY <4>2
        <4> QED
          BY <4>1, <4>3
      <3>2. Ints(odd, Dom) /\ 0 \in Int
        BY <2>1, <2>3 DEF Ints
      <3>3. SumOf(r, Dom) = x * SumOf(odd, Dom) + 0 * SumOf(odd, Dom)
        BY <1>1, <3>1, <3>2, SumLinear, x \in Int
      <3>4. x * SumOf(odd, Dom) \in Int
        BY <2>6
      <3> QED
        BY <2>6, <3>3, <3>4
    <2>9. SumOf(odd, Dom) = b * b - a * a
      BY <2>4, <2>6, <2>7
    <2> QED
      BY <1>1, <1>2, <1>3, <2>8, <2>9
  <1> QED
    BY <1>4, <1>5

(* The sums of weights grow.                                                 *)
LEMMA SumsGrow ==
  ASSUME NEW k \in Nat, NEW v, NEW h, NEW m, NEW q, Levels(k, v, h, m, q), \A x \in 0 .. k : v[x] \in Nat
  PROVE  /\ h[0] = v[0]
         /\ \A z \in 0 .. k : /\ h[z] \in Int /\ (z < k => h[z + 1] = h[z] + v[z + 1])
                              /\ h[z] \in Nat /\ h[z] <= h[k]
                              /\ \A x \in 0 .. k : x <= z => h[x] <= h[z]
  <1>1. /\ Ints(v, 0 .. k)
        /\ \A z \in 0 .. k : h[z] = SumOf(v, 0 .. z)
        /\ \A x \in 0 .. k : v[x] \in Nat
    BY DEF Levels
  <1>3. h[0] = v[0] /\ \A z \in 0 .. k : h[z] \in Int /\ (z < k => h[z + 1] = h[z] + v[z + 1])
    <2>1. \A z \in 0 .. k : SumOf(v, 0 .. z) \in Int /\ SumOf(v, 0 .. 0) = v[0]
                            /\ (z < k => SumOf(v, 0 .. (z + 1)) = SumOf(v, 0 .. z) + v[z + 1])
      BY <1>1, SumStep
    <2>2. 0 \in 0 .. k /\ \A z \in 0 .. k : z < k => z + 1 \in 0 .. k
      OBVIOUS
    <2> QED
      BY <1>1, <2>1, <2>2
  <1>4. \A z \in 0 .. k : h[z] \in Nat
    <2> DEFINE T == {z \in 0 .. k : h[z] \in Nat}
    <2>1. 0 \in T
      BY <1>1, <1>3
    <2>2. \A z \in 0 .. k : z \in T /\ z < k => z + 1 \in T
      <3> TAKE z \in 0 .. k
      <3> HAVE z \in T /\ z < k
      <3>1. z + 1 \in 0 .. k /\ h[z + 1] = h[z] + v[z + 1] /\ h[z] \in Nat
        BY <1>3
      <3>2. v[z + 1] \in Nat
        BY <1>1, <3>1
      <3> QED
        BY <3>1, <3>2
    <2> HIDE DEF T
    <2>3. \A z \in 0 .. k : z \in T
      BY <2>1, <2>2, StepUp
    <2> QED
      BY <2>3 DEF T
  <1>5. \A z \in 0 .. k : h[z] <= h[k] /\ \A x \in 0 .. k : x <= z => h[x] <= h[z]
    <2> DEFINE T == {z \in 0 .. k : \A x \in 0 .. z : h[x] <= h[z]}
    <2>1. 0 \in T
      BY <1>4
    <2>2. \A z \in 0 .. k : z \in T /\ z < k => z + 1 \in T
      <3> TAKE z \in 0 .. k
      <3> HAVE z \in T /\ z < k
      <3>1. z + 1 \in 0 .. k /\ h[z + 1] = h[z] + v[z + 1] /\ v[z + 1] \in Nat /\ h[z] \in Nat
        BY <1>1, <1>3, <1>4
      <3>2. \A x \in 0 .. (z + 1) : x \in 0 .. z \/ x = z + 1
        OBVIOUS
      <3>3. \A x \in 0 .. (z + 1) : h[x] <= h[z + 1]
        <4> TAKE x \in 0 .. (z + 1)
        <4>1. CASE x \in 0 .. z
          <5>1. h[x] <= h[z] /\ x \in 0 .. k
            BY <4>1
          <5>2. h[x] \in Nat
            BY <1>4, <5>1
          <5> QED
            BY <3>1, <5>1, <5>2
        <4>2. CASE x = z + 1
          BY <1>4, <3>1, <4>2
        <4> QED
          BY <3>2, <4>1, <4>2
      <3> QED
        BY <3>1, <3>3
    <2> HIDE DEF T
    <2>3. \A z \in 0 .. k : z \in T
      BY <2>1, <2>2, StepUp
    <2>4. k \in 0 .. k /\ \A z \in 0 .. k : z \in 0 .. k /\ \A x \in 0 .. k : x <= z => x \in 0 .. z
      OBVIOUS
    <2> QED
      BY <2>3, <2>4 DEF T
  <1> QED
    BY <1>3, <1>4, <1>5

(* The quantiles u of weights v with the sums h.                             *)
Inverts(k, h, u) ==
    \A i \in 0 .. (h[k] - 1) : u[i] \in 0 .. k /\ \A z \in 0 .. k : u[i] <= z <=> i < h[z]

(* Terms over the quantiles, and the same over the amounts.                  *)
Summed(k, v, h, u, e, g, r, t) ==
    /\ \A x \in 0 .. k : v[x] \in Nat /\ e[x] \in Int /\ t[x] = v[x] * e[x]
    /\ \A i \in 0 .. (h[k] - 1) : g[i] = e[u[i]] /\ r[i] = u[i] * (2 * i + 1)

(* Sums over quantiles are sums over amounts.                                *)
LEMMA QuantileSums ==
  ASSUME NEW k \in Nat, NEW v, NEW h, NEW m, NEW q, Levels(k, v, h, m, q), NEW u, Inverts(k, h, u),
         NEW e, NEW g, NEW r, NEW t, Summed(k, v, h, u, e, g, r, t)
  PROVE  /\ h[k] \in Nat /\ Ints(g, 0 .. (h[k] - 1)) /\ Ints(r, 0 .. (h[k] - 1))
         /\ SumOf(g, 0 .. (h[k] - 1)) = SumOf(t, 0 .. k)
         /\ SumOf(r, 0 .. (h[k] - 1)) = SumOf(q, 0 .. k)
  <1> DEFINE Run(z) == 0 .. (h[z] - 1)
             S == {z \in 0 .. k : /\ h[z] \in Nat /\ h[z] <= h[k] /\ Ints(g, Run(z)) /\ Ints(r, Run(z))
                                  /\ SumOf(g, Run(z)) = SumOf(t, 0 .. z)
                                  /\ SumOf(r, Run(z)) = SumOf(q, 0 .. z)}
  <1>1. /\ Ints(v, 0 .. k)
        /\ \A z \in 0 .. k : h[z] = SumOf(v, 0 .. z)
        /\ \A x \in 0 .. k : q[x] = v[x] * x * (2 * h[x] - v[x])
        /\ \A x \in 0 .. k : v[x] \in Nat /\ e[x] \in Int /\ t[x] = v[x] * e[x]
    BY DEF Levels, Summed
  <1>2. Ints(t, 0 .. k) /\ Ints(q, 0 .. k)
    <2>1. \A x \in 0 .. k : t[x] \in Int
      BY <1>1
    <2>2. \A x \in 0 .. k : h[x] \in Int /\ v[x] \in Int
      BY <1>1, SumStep
    <2>3. \A x \in 0 .. k : q[x] \in Int
      <3> TAKE x \in 0 .. k
      <3>1. h[x] \in Int /\ v[x] \in Int /\ x \in Int
        BY <2>2
      <3>2. v[x] * x \in Int /\ 2 * h[x] - v[x] \in Int
        BY <3>1
      <3> QED
        BY <1>1, <3>2
    <2> QED
      BY <2>1, <2>3 DEF Ints
  <1>3. /\ h[0] = v[0]
        /\ \A z \in 0 .. k : h[z] \in Int /\ (z < k => h[z + 1] = h[z] + v[z + 1])
    BY <1>1, SumsGrow
  <1>4. \A z \in 0 .. k : h[z] \in Nat
    BY <1>1, SumsGrow
  <1>5. \A z \in 0 .. k : h[z] <= h[k] /\ \A x \in 0 .. k : x <= z => h[x] <= h[z]
    BY <1>1, SumsGrow
  <1>6. ASSUME NEW z \in 0 .. k, NEW a \in Nat, a <= h[z], h[z] - a = v[z],
               \A x \in 0 .. k : x < z => h[x] <= a
        PROVE  LET Dom == a .. (h[z] - 1)
               IN  /\ IsFiniteSet(Dom) /\ Ints(g, Dom) /\ Ints(r, Dom)
                   /\ SumOf(g, Dom) = t[z] /\ SumOf(r, Dom) = q[z]
    <2> DEFINE Dom == a .. (h[z] - 1)
               b == h[z]
    <2>1. b \in Nat /\ b <= h[k]
      BY <1>4, <1>5
    <2>2. \A i \in Dom : i \in 0 .. (h[k] - 1)
      BY <1>4, <2>1
    <2>3. \A i \in Dom : u[i] = z
      <3> TAKE i \in Dom
      <3>1. u[i] \in 0 .. k /\ \A x \in 0 .. k : u[i] <= x <=> i < h[x]
        BY <2>2 DEF Inverts
      <3>2. u[i] <= z
        BY <2>1, <3>1
      <3>3. ASSUME u[i] < z PROVE FALSE
        <4>1. h[u[i]] <= a
          BY <3>1, <3>3, <1>6
        <4>2. i < h[u[i]]
          BY <3>1
        <4>3. h[u[i]] \in Nat
          BY <1>4, <3>1
        <4> QED
          BY <4>1, <4>2, <4>3
      <3> QED
        BY <3>1, <3>2, <3>3
    <2>4. Constant(g, Dom, e[z])
      BY <2>2, <2>3 DEF Constant, Summed
    <2>40. OddTerms(r, Dom, z)
      BY <2>2, <2>3 DEF OddTerms, Summed
    <2>5. e[z] \in Int /\ z \in Int /\ v[z] \in Nat
      BY <1>1
    <2>6. Dom = a .. (b - 1)
      OBVIOUS
    <2> HIDE DEF Dom
    <2>7. a <= b
      BY <1>6
    <2>8. /\ IsFiniteSet(Dom) /\ Ints(g, Dom) /\ Ints(r, Dom)
          /\ SumOf(g, Dom) = e[z] * (b - a) /\ SumOf(r, Dom) = z * (b * b - a * a)
      <3> HIDE DEF b
      <3> QED
        BY <2>1, <2>4, <2>40, <2>5, <2>6, <2>7, RunSums
    <2>9. q[z] = v[z] * z * (2 * b - v[z]) /\ t[z] = v[z] * e[z] /\ b - a = v[z]
      BY <1>1, <1>6
    <2> DEFINE ez == e[z]
               vz == v[z]
    <2>10. ez \in Int /\ vz \in Int /\ b \in Int /\ z \in Int
      BY <2>1, <2>5
    <2>11. /\ SumOf(g, Dom) = ez * vz /\ t[z] = vz * ez
           /\ SumOf(r, Dom) = z * (b * b - (b - vz) * (b - vz)) /\ q[z] = vz * z * (2 * b - vz)
      <3>1. a = b - vz
        BY <1>6, <2>9, <2>10
      <3> QED
        BY <2>8, <2>9, <3>1
    <2> HIDE DEF ez, vz, b
    <2>12. ez * vz = vz * ez /\ z * (b * b - (b - vz) * (b - vz)) = vz * z * (2 * b - vz)
      BY <2>10
    <2>13. SumOf(g, Dom) = t[z] /\ SumOf(r, Dom) = q[z]
      BY <2>11, <2>12
    <2> QED
      BY <2>8, <2>13 DEF Dom, b
  <1>7. 0 \in S
    <2>1. 0 \in 0 .. k /\ 0 \in Nat
      OBVIOUS
    <2>2. 0 <= h[0] /\ h[0] - 0 = v[0] /\ h[0] \in Nat /\ h[0] <= h[k]
      BY <1>1, <1>3, <1>4, <1>5, <2>1
    <2>3. \A x \in 0 .. k : x < 0 => h[x] <= 0
      OBVIOUS
    <2>4. LET Dom == 0 .. (h[0] - 1)
          IN  /\ IsFiniteSet(Dom) /\ Ints(g, Dom) /\ Ints(r, Dom)
              /\ SumOf(g, Dom) = t[0] /\ SumOf(r, Dom) = q[0]
      BY <1>6, <2>1, <2>2, <2>3
    <2>5. SumOf(t, 0 .. 0) = t[0] /\ SumOf(q, 0 .. 0) = q[0]
      BY <1>2, <2>1, SumStep
    <2> QED
      BY <2>1, <2>2, <2>4, <2>5
  <1>8. \A z \in 0 .. k : z \in S /\ z < k => z + 1 \in S
    <2> TAKE z \in 0 .. k
    <2> HAVE z \in S /\ z < k
    <2> DEFINE w == z + 1
               a == h[z]
               b == h[w]
               Dom == a .. (b - 1)
    <2>1. w \in 0 .. k /\ a \in Nat /\ b \in Nat /\ b = a + v[w] /\ v[w] \in Nat /\ b <= h[k]
      BY <1>1, <1>3, <1>4, <1>5
    <2>2. a <= b /\ b - a = v[w]
      BY <2>1
    <2>3. \A x \in 0 .. k : x < w => h[x] <= a
      <3> TAKE x \in 0 .. k
      <3> HAVE x < w
      <3>1. x <= z
        OBVIOUS
      <3> QED
        BY <1>5, <3>1
    <2>4. /\ IsFiniteSet(Dom) /\ Ints(g, Dom) /\ Ints(r, Dom)
          /\ SumOf(g, Dom) = t[w] /\ SumOf(r, Dom) = q[w]
      BY <1>6, <2>1, <2>2, <2>3
    <2>5. /\ Run(w) = Run(z) \cup Dom /\ Run(z) \cap Dom = {}
      BY <2>1, <2>2
    <2>6. /\ Ints(g, Run(z)) /\ Ints(r, Run(z))
          /\ SumOf(g, Run(z)) = SumOf(t, 0 .. z) /\ SumOf(r, Run(z)) = SumOf(q, 0 .. z)
      OBVIOUS
    <2>7. IsFiniteSet(Run(z))
      <3>1. 0 \in Int /\ h[z] - 1 \in Int
        BY <2>1
      <3> QED
        BY <3>1, FS_Interval
    <2>8. /\ SumOf(t, 0 .. w) = SumOf(t, 0 .. z) + t[w] /\ SumOf(q, 0 .. w) = SumOf(q, 0 .. z) + q[w]
      BY <1>2, SumStep
    <2> HIDE DEF S, Run, Dom
    <2>9. SumOf(g, Run(w)) = SumOf(g, Run(z)) + SumOf(g, Dom) /\ SumOf(r, Run(w)) = SumOf(r, Run(z)) + SumOf(r, Dom)
      BY <2>4, <2>5, <2>6, <2>7, SumUnion
    <2>10. Ints(g, Run(w)) /\ Ints(r, Run(w))
      BY <2>4, <2>5, <2>6 DEF Ints
    <2> QED
      BY <2>1, <2>4, <2>6, <2>8, <2>9, <2>10 DEF S
  <1>9. k \in 0 .. k /\ \A z \in 0 .. k : z \in S
    <2> HIDE DEF S
    <2>1. \A z \in 0 .. k : z \in S
      BY <1>7, <1>8, StepUp
    <2> QED
      BY <2>1
  <1> QED
    BY <1>9

(* The distances to b, weighted.                                             *)
Distances(k, v, b, t) == \A x \in 0 .. k : t[x] = v[x] * G!Abs(x - b)

(* The sum of those distances, from moments.                                 *)
LEMMA AbsSums ==
  ASSUME NEW k \in Nat, NEW v, NEW h, NEW m, NEW q, Levels(k, v, h, m, q), NEW b \in 0 .. k,
         NEW t, Distances(k, v, b, t)
  PROVE  /\ Ints(t, 0 .. k)
         /\ SumOf(t, 0 .. k) = SumOf(m, 0 .. k) - b * h[k] + 2 * (b * h[b] - SumOf(m, 0 .. b))
  <1> DEFINE R == 0 .. k
             T == 0 .. b
             U == R \ T
             low == [x \in T |-> b * v[x] + (-1) * m[x]]
             high == [x \in U |-> (-b) * v[x] + 1 * m[x]]
  <1>1. /\ Ints(v, R) /\ h[k] = SumOf(v, R) /\ h[b] = SumOf(v, T) /\ \A x \in R : m[x] = v[x] * x
    <2>1. k \in R /\ b \in R
      OBVIOUS
    <2> QED
      BY <2>1 DEF Levels
  <1>2. \A x \in R : v[x] \in Int /\ m[x] \in Int /\ x \in Int
    BY <1>1 DEF Ints
  <1>3. IsFiniteSet(R) /\ IsFiniteSet(T) /\ IsFiniteSet(U) /\ T \subseteq R /\ U \subseteq R
    <2>1. T \subseteq R /\ U \subseteq R
      OBVIOUS
    <2>2. IsFiniteSet(R)
      <3>1. 0 \in Int /\ k \in Int
        OBVIOUS
      <3> QED
        BY <3>1, FS_Interval
    <2> HIDE DEF R, T, U
    <2> QED
      BY <2>1, <2>2, FS_Subset
  <1>4. \A x \in T : low[x] = b * v[x] + (-1) * m[x] /\ t[x] = low[x] /\ t[x] \in Int
    <2> TAKE x \in T
    <2>1. x \in R /\ x <= b /\ x \in Int /\ b \in Int
      OBVIOUS
    <2>2. G!Abs(x - b) = b - x
      BY <2>1 DEF G!Abs
    <2>3. t[x] = v[x] * (b - x) /\ m[x] = v[x] * x /\ v[x] \in Int
      BY <1>1, <1>2, <2>1, <2>2 DEF Distances
    <2>4. v[x] * (b - x) = b * v[x] + (-1) * (v[x] * x) /\ v[x] * (b - x) \in Int
      BY <2>1, <2>3
    <2> QED
      BY <2>3, <2>4
  <1>5. \A x \in U : high[x] = (-b) * v[x] + 1 * m[x] /\ t[x] = high[x] /\ t[x] \in Int
    <2> TAKE x \in U
    <2>1. x \in R /\ x > b /\ x \in Int /\ b \in Int
      OBVIOUS
    <2>2. G!Abs(x - b) = x - b
      BY <2>1 DEF G!Abs
    <2>3. t[x] = v[x] * (x - b) /\ m[x] = v[x] * x /\ v[x] \in Int
      BY <1>1, <1>2, <2>1, <2>2 DEF Distances
    <2>4. v[x] * (x - b) = (-b) * v[x] + 1 * (v[x] * x) /\ v[x] * (x - b) \in Int
      BY <2>1, <2>3
    <2> QED
      BY <2>3, <2>4
  <1>6. Ints(t, R)
    <2>1. \A x \in R : x \in T \/ x \in U
      OBVIOUS
    <2> QED
      BY <1>4, <1>5, <2>1 DEF Ints
  <1> HIDE DEF R, T, low, high
  <1>7. /\ Ints(v, T) /\ Ints(m, T) /\ Ints(v, U) /\ Ints(m, U) /\ Ints(m, R) /\ Ints(t, T) /\ Ints(t, U)
    <2> HIDE DEF U
    <2> QED
      BY <1>2, <1>3, <1>6 DEF Ints
  <1>8. /\ SumOf(t, R) = SumOf(t, T) + SumOf(t, U)
        /\ SumOf(v, R) = SumOf(v, T) + SumOf(v, U) /\ SumOf(v, T) \in Int /\ SumOf(v, U) \in Int
        /\ SumOf(m, R) = SumOf(m, T) + SumOf(m, U) /\ SumOf(m, T) \in Int /\ SumOf(m, U) \in Int
    BY <1>1, <1>3, <1>6, <1>7, SumSplit
  <1>9. -1 \in Int /\ 1 \in Int /\ -b \in Int /\ b \in Int
    OBVIOUS
  <1>10. SumOf(t, T) = b * SumOf(v, T) + (-1) * SumOf(m, T)
    <2>1. \A x \in T : t[x] = b * v[x] + (-1) * m[x]
      BY <1>4
    <2> QED
      BY <1>3, <1>7, <1>9, <2>1, SumLinear
  <1>11. SumOf(t, U) = (-b) * SumOf(v, U) + 1 * SumOf(m, U)
    <2>1. \A x \in U : t[x] = (-b) * v[x] + 1 * m[x]
      BY <1>5
    <2> HIDE DEF U
    <2> QED
      BY <1>3, <1>7, <1>9, <2>1, SumLinear
  <1> DEFINE vt == SumOf(v, T)
             vu == SumOf(v, U)
             mt == SumOf(m, T)
             mu == SumOf(m, U)
  <1>12. vt \in Int /\ vu \in Int /\ mt \in Int /\ mu \in Int /\ b \in Int
         /\ SumOf(t, R) = (b * vt + (-1) * mt) + ((-b) * vu + 1 * mu)
         /\ h[b] = vt /\ h[k] = vt + vu /\ SumOf(m, R) = mt + mu /\ SumOf(m, T) = mt
    BY <1>1, <1>8, <1>9, <1>10, <1>11
  <1> HIDE DEF vt, vu, mt, mu
  <1>13. (b * vt + (-1) * mt) + ((-b) * vu + 1 * mu) = ((mt + mu) - b * (vt + vu)) + 2 * (b * vt - mt)
    BY <1>12
  <1>14. SumOf(t, R) = SumOf(m, R) - b * h[k] + 2 * (b * h[b] - SumOf(m, T))
    BY <1>12, <1>13
  <1> QED
    BY <1>6, <1>14 DEF R, T

(* e is f on S, and 0 on the rest of T.                                      *)
Extended(f, S, e, T) ==
    S \subseteq T /\ (\A x \in S : f[x] = e[x]) /\ (\A x \in T \ S : e[x] = 0)

(* f and e have the same sum.                                                *)
LEMMA SumExtend ==
  ASSUME NEW T, IsFiniteSet(T), NEW S, NEW f, NEW e, Ints(e, T), Extended(f, S, e, T)
  PROVE  Ints(f, S) /\ IsFiniteSet(S) /\ SumOf(f, S) = SumOf(e, T)
  <1>1. IsFiniteSet(S) /\ IsFiniteSet(T \ S) /\ Ints(e, S) /\ Ints(f, S)
    BY FS_Subset DEF Ints, Extended
  <1>2. SumOf(e, T) = SumOf(e, S) + SumOf(e, T \ S) /\ SumOf(e, S) \in Int
    BY SumSplit DEF Extended
  <1>3. SumOf(e, T \ S) = 0
    BY <1>1, SumZero DEF Extended
  <1>4. SumOf(f, S) = SumOf(e, S)
    BY <1>1, SumEqual DEF Extended
  <1> QED
    BY <1>1, <1>2, <1>3, <1>4

(* What a report of a forecast distribution starts from.                     *)
DistData ==
    data \in {d \in [w : [G!Amounts -> 0 .. MaxWeight], y : {4 * k : k \in 0 .. V}] :
                 \E a \in G!Amounts \ {0} : d.w[a] > 0}

(* A point of the lattice, and an amount, which is 0 or odd.                 *)
IsFour(x) == \E k \in Nat : x = 4 * k
IsOddOr0(x) == x # 0 => \E k \in Int : x = 2 * k - 1

(* The amounts, their weights and the observation.                           *)
LEMMA DistributionIs ==
  ASSUME ScoreConstants, DistData
  PROVE  /\ G!Amounts \subseteq 0 .. (4 * V) /\ 0 \in G!Amounts /\ IsFiniteSet(G!Amounts)
         /\ G!y \in 0 .. (4 * V) /\ IsFour(G!y)
         /\ \A a \in G!Amounts : data.w[a] \in Nat /\ IsOddOr0(a)
         /\ G!Wet = G!Amounts \ {0}
  <1>1. V \in Nat /\ MaxWeight \in Nat
    BY DEF ScoreConstants
  <1>2. data \in [w : [G!Amounts -> 0 .. MaxWeight], y : {4 * k : k \in 0 .. V}]
    BY DEF DistData
  <1>3. data.w \in [G!Amounts -> 0 .. MaxWeight] /\ data.y \in {4 * k : k \in 0 .. V}
    BY <1>2
  <1>4. \A a \in G!Amounts : data.w[a] \in Nat
    BY <1>1, <1>3
  <1>5. PICK k \in 0 .. V : G!y = 4 * k
    BY <1>3 DEF G!y
  <1>6. \A a \in G!Amounts : a \in 0 .. (4 * V) /\ (a # 0 => \E m \in Int : a = 2 * m - 1)
    <2> TAKE a \in G!Amounts
    <2>1. a = 0 \/ \E m \in 1 .. V : a = 2 * m - 1
      BY DEF G!Amounts
    <2> QED
      BY <1>1, <2>1
  <1>7. G!Amounts \subseteq 0 .. (4 * V)
    BY <1>6
  <1>8. IsFiniteSet(G!Amounts)
    <2>1. 0 \in Int /\ 4 * V \in Int
      BY <1>1
    <2>2. IsFiniteSet(0 .. (4 * V))
      BY <2>1, FS_Interval
    <2> QED
      BY <1>7, <2>2, FS_Subset
  <1>9. k \in Nat /\ 4 * k \in 0 .. (4 * V)
    BY <1>1
  <1>10. IsFour(G!y) /\ \A a \in G!Amounts : IsOddOr0(a)
    BY <1>5, <1>6, <1>9 DEF IsFour, IsOddOr0
  <1>11. G!y \in 0 .. (4 * V) /\ 0 \in G!Amounts /\ G!Wet = G!Amounts \ {0}
    BY <1>5, <1>9 DEF G!Amounts, G!Wet
  <1> QED
    BY <1>4, <1>7, <1>8, <1>10, <1>11

(* The weight of a set of amounts.                                           *)
LEMMA WeightIs ==
  ASSUME ScoreConstants, DistData, NEW S \in SUBSET G!Amounts
  PROVE  /\ IsFiniteSet(S) /\ G!Weight(S) = SumOf(data.w, S) /\ G!Weight(S) \in Int
         /\ \A T \in SUBSET G!Amounts : S \cap T = {} => G!Weight(S \cup T) = G!Weight(S) + G!Weight(T)
  <1>1. ASSUME NEW T \in SUBSET G!Amounts
        PROVE  IsFiniteSet(T) /\ Ints(data.w, T) /\ G!Weight(T) = SumOf(data.w, T) /\ SumOf(data.w, T) \in Int
    <2> DEFINE f == [a \in T |-> data.w[a]]
    <2>1. IsFiniteSet(T)
      BY DistributionIs, FS_Subset
    <2>2. Ints(data.w, T) /\ \A a \in T : f[a] = data.w[a] /\ f[a] \in Int
      BY DistributionIs DEF Ints
    <2>3. DOMAIN f = T /\ Ints(f, T)
      BY <2>2 DEF Ints
    <2>4. G!Weight(T) = G!SumFunction(f)
      BY DEF G!Weight
    <2> HIDE DEF f
    <2>5. G!SumFunction(f) = SumOf(f, T) /\ SumOf(f, T) = SumOf(data.w, T) /\ SumOf(f, T) \in Int
      BY <2>1, <2>2, <2>3, FunctionSum, SumEqual, SumType
    <2> QED
      BY <2>1, <2>2, <2>4, <2>5
  <1>2. ASSUME NEW T \in SUBSET G!Amounts, S \cap T = {}
        PROVE  G!Weight(S \cup T) = G!Weight(S) + G!Weight(T)
    <2>1. S \cup T \in SUBSET G!Amounts
      OBVIOUS
    <2>2. SumOf(data.w, S \cup T) = SumOf(data.w, S) + SumOf(data.w, T)
      BY <1>1, <1>2, SumUnion
    <2> QED
      BY <1>1, <2>1, <2>2
  <1> QED
    BY <1>1, <1>2

(* Weights on 0 .. k, of all amounts and of the wet ones.                    *)
FullWeights(k) == [x \in 0 .. k |-> IF x \in G!Amounts THEN data.w[x] ELSE 0]
WetWeights(k) == [x \in 0 .. k |-> IF x \in G!Wet THEN data.w[x] ELSE 0]
Sums(k, v) == [z \in 0 .. k |-> SumOf(v, 0 .. z)]
Moments(k, v) == [x \in 0 .. k |-> v[x] * x]
Gaps(k, v) == [x \in 0 .. k |-> v[x] * x * (2 * Sums(k, v)[x] - v[x])]

(* Any weights have sums, moments and terms.                                 *)
LEMMA LevelsAre ==
  ASSUME NEW k \in Nat, NEW v, \A x \in 0 .. k : v[x] \in Nat
  PROVE  Levels(k, v, Sums(k, v), Moments(k, v), Gaps(k, v))
  <1>1. Ints(v, 0 .. k)
    BY DEF Ints
  <1> QED
    BY <1>1 DEF Levels, Sums, Moments, Gaps

(* Amounts and the observation are at most TopAmount.                        *)
TopAmount == G!Max(G!Amounts \cup {G!y})

LEMMA TopIs ==
  ASSUME ScoreConstants, DistData
  PROVE  TopAmount \in Nat /\ G!Amounts \subseteq 0 .. TopAmount /\ G!y \in 0 .. TopAmount
  <1> DEFINE S == G!Amounts \cup {G!y}
  <1>1. V \in Nat /\ 4 * V \in Nat
    BY DEF ScoreConstants
  <1>2. S \subseteq 0 .. (4 * V) /\ S # {} /\ S \subseteq Int
    <2>1. S \subseteq 0 .. (4 * V) /\ S # {}
      BY DistributionIs
    <2> QED
      BY <1>1, <2>1
  <1>3. TopAmount = G!Max(S)
    BY DEF TopAmount
  <1> HIDE DEF S
  <1>4. PICK x \in S : \A z \in S : z <= x
    BY <1>1, <1>2, GreatestOf
  <1>5. TopAmount = x
    BY <1>2, <1>3, <1>4, GMinMax
  <1> QED
    BY <1>1, <1>2, <1>4, <1>5 DEF S

(* The weights on 0 .. k are natural numbers.                                *)
LEMMA WeightsAre ==
  ASSUME ScoreConstants, DistData, NEW k, k = TopAmount
  PROVE  /\ k \in Nat
         /\ \A x \in 0 .. k : /\ FullWeights(k)[x] \in Nat /\ WetWeights(k)[x] \in Nat
                              /\ x # 0 => FullWeights(k)[x] = WetWeights(k)[x]
                              /\ x \notin G!Wet => WetWeights(k)[x] = 0
                              /\ Moments(k, FullWeights(k))[x] = Moments(k, WetWeights(k))[x]
  <1>1. k \in Nat /\ G!Wet = G!Amounts \ {0} /\ \A a \in G!Amounts : data.w[a] \in Nat
    BY TopIs, DistributionIs
  <1>2. ASSUME NEW x \in 0 .. k
        PROVE  /\ FullWeights(k)[x] \in Nat /\ WetWeights(k)[x] \in Nat
               /\ x # 0 => FullWeights(k)[x] = WetWeights(k)[x]
               /\ x \notin G!Wet => WetWeights(k)[x] = 0
    BY <1>1 DEF FullWeights, WetWeights
  <1>3. ASSUME NEW x \in 0 .. k
        PROVE  Moments(k, FullWeights(k))[x] = Moments(k, WetWeights(k))[x]
    <2>1. Moments(k, FullWeights(k))[x] = FullWeights(k)[x] * x /\ Moments(k, WetWeights(k))[x] = WetWeights(k)[x] * x
      BY DEF Moments
    <2>2. CASE x # 0
      BY <1>2, <2>1, <2>2
    <2>3. CASE x = 0
      <3>1. FullWeights(k)[x] * x = 0 /\ WetWeights(k)[x] * x = 0
        BY <1>2, <2>3
      <3> QED
        BY <2>1, <3>1
    <2> QED
      BY <2>2, <2>3
  <1> QED
    BY <1>1, <1>2, <1>3

(* Cumulative sums over the amounts are sums over 0 .. z.                    *)
LEMMA SumsAre ==
  ASSUME ScoreConstants, DistData, NEW k, k = TopAmount, NEW z \in 0 .. k
  PROVE  /\ G!Weight(G!UpTo(z)) = Sums(k, FullWeights(k))[z]
         /\ G!Weight(G!Wet \cap G!UpTo(z)) = Sums(k, WetWeights(k))[z]
         /\ G!Moment(G!UpTo(z)) = SumOf(Moments(k, FullWeights(k)), 0 .. z)
         /\ G!Moment(G!Wet \cap G!UpTo(z)) = SumOf(Moments(k, WetWeights(k)), 0 .. z)
  <1> DEFINE Z == 0 .. z
             full == FullWeights(k)
             some == WetWeights(k)
             mf == Moments(k, full)
             ms == Moments(k, some)
             S == G!UpTo(z)
             T == G!Wet \cap G!UpTo(z)
             gs == [a \in S |-> data.w[a] * a]
             gt == [a \in T |-> data.w[a] * a]
  <1>0. G!Wet = G!Amounts \ {0}
    BY DistributionIs
  <1>1. k \in Nat /\ G!Amounts \subseteq 0 .. k /\ \A a \in G!Amounts : data.w[a] \in Nat
        /\ G!Wet = G!Amounts \ {0}
    BY TopIs, DistributionIs
  <1>2. Z \subseteq 0 .. k /\ IsFiniteSet(Z)
    <2>1. 0 \in Int /\ z \in Int /\ Z \subseteq 0 .. k
      BY <1>1
    <2> QED
      BY <2>1, FS_Interval
  <1>3. /\ S \subseteq Z /\ T \subseteq Z /\ S \in SUBSET G!Amounts /\ T \in SUBSET G!Amounts
        /\ \A x \in Z : x \in S <=> x \in G!Amounts
        /\ \A x \in Z : x \in T <=> x \in G!Wet
    <2>1. \A a \in G!Amounts : a \in Nat /\ (a \in S <=> a <= z) /\ (a \in T <=> a \in G!Wet /\ a <= z)
      BY <1>1 DEF G!UpTo
    <2>2. \A x \in Z : x \in Nat /\ x <= z
      BY <1>1
    <2>3. S \subseteq G!Amounts /\ T \subseteq G!Amounts /\ G!Wet \subseteq G!Amounts
      <3>1. S \subseteq G!Amounts
        BY DEF G!UpTo
      <3>2. T \subseteq G!Wet
        OBVIOUS
      <3> HIDE DEF S, T, gs, gt, full, some, mf, ms
      <3> QED
        BY <1>0, <3>1, <3>2
    <2> HIDE DEF S, T, gs, gt, full, some, mf, ms
    <2>4. S \subseteq Z /\ T \subseteq Z
      BY <2>1, <2>3
    <2> QED
      BY <2>1, <2>2, <2>3, <2>4
  <1>4. /\ \A x \in S : data.w[x] = full[x] /\ gs[x] = mf[x]
        /\ \A x \in T : data.w[x] = some[x] /\ gt[x] = ms[x]
    <2>1. \A x \in S : x \in 0 .. k /\ x \in G!Amounts
      BY <1>2, <1>3
    <2>2. \A x \in T : x \in 0 .. k /\ x \in G!Wet
      BY <1>2, <1>3
    <2> QED
      BY <2>1, <2>2 DEF FullWeights, WetWeights, Moments
  <1>5. /\ \A x \in Z : full[x] \in Int /\ some[x] \in Int /\ mf[x] \in Int /\ ms[x] \in Int
        /\ \A x \in Z \ S : full[x] = 0 /\ mf[x] = 0
        /\ \A x \in Z \ T : some[x] = 0 /\ ms[x] = 0
    <2>1. ASSUME NEW x \in Z
          PROVE  /\ full[x] \in Int /\ some[x] \in Int /\ mf[x] = full[x] * x /\ ms[x] = some[x] * x /\ x \in Int
                 /\ x \notin S => full[x] = 0
                 /\ x \notin T => some[x] = 0
      <3>1. x \in 0 .. k /\ (x \in S <=> x \in G!Amounts) /\ (x \in T <=> x \in G!Wet)
        BY <1>2, <1>3
      <3>2. full[x] \in Nat /\ some[x] \in Nat
        BY <3>1, WeightsAre
      <3> QED
        BY <3>1, <3>2 DEF FullWeights, WetWeights, Moments
    <2> HIDE DEF full, some, mf, ms, S, T
    <2>2. \A x \in Z : mf[x] \in Int /\ ms[x] \in Int
      BY <2>1
    <2>3. \A x \in Z : 0 * x = 0
      OBVIOUS
    <2> QED
      BY <2>1, <2>2, <2>3
  <1>6. DOMAIN gs = S /\ DOMAIN gt = T
    OBVIOUS
  <1>7. /\ G!Weight(S) = SumOf(data.w, S) /\ G!Weight(T) = SumOf(data.w, T)
        /\ G!Moment(S) = G!SumFunction(gs) /\ G!Moment(T) = G!SumFunction(gt)
    BY <1>3, WeightIs DEF G!Moment
  <1>8. Sums(k, full)[z] = SumOf(full, Z) /\ Sums(k, some)[z] = SumOf(some, Z)
    BY DEF Sums
  <1> HIDE DEF Z, full, some, mf, ms, S, T, gs, gt
  <1>9. Ints(full, Z) /\ Ints(some, Z) /\ Ints(mf, Z) /\ Ints(ms, Z)
    BY <1>5 DEF Ints
  <1>13. /\ Extended(data.w, S, full, Z) /\ Extended(data.w, T, some, Z)
         /\ Extended(gs, S, mf, Z) /\ Extended(gt, T, ms, Z)
    BY <1>3, <1>4, <1>5 DEF Extended
  <1>10. SumOf(data.w, S) = SumOf(full, Z) /\ SumOf(data.w, T) = SumOf(some, Z)
    BY <1>2, <1>13, <1>9, SumExtend
  <1>11. /\ SumOf(gs, S) = SumOf(mf, Z) /\ Ints(gs, S) /\ IsFiniteSet(S)
         /\ SumOf(gt, T) = SumOf(ms, Z) /\ Ints(gt, T) /\ IsFiniteSet(T)
    BY <1>2, <1>13, <1>9, SumExtend
  <1>12. G!SumFunction(gs) = SumOf(gs, S) /\ G!SumFunction(gt) = SumOf(gt, T)
    BY <1>6, <1>11, FunctionSum
  <1> QED
    BY <1>7, <1>8, <1>10, <1>11, <1>12 DEF Z, full, some, mf, ms, S, T

(* Levels of both weights, up to TopAmount.                                  *)
LEMMA LevelsOf ==
  ASSUME ScoreConstants, DistData, NEW k, k = TopAmount, NEW v, v \in {FullWeights(k), WetWeights(k)}
  PROVE  /\ Levels(k, v, Sums(k, v), Moments(k, v), Gaps(k, v))
         /\ \A x \in 0 .. k : v[x] \in Nat
         /\ Ints(Moments(k, v), 0 .. k) /\ Ints(Gaps(k, v), 0 .. k)
  <1>1. k \in Nat /\ \A x \in 0 .. k : v[x] \in Nat
    BY WeightsAre
  <1>2. Levels(k, v, Sums(k, v), Moments(k, v), Gaps(k, v))
    BY <1>1, LevelsAre
  <1> DEFINE s == [x \in 0 .. k |-> Sums(k, v)[x] * Sums(k, v)[x]]
  <1>3. \A x \in 0 .. k : s[x] = Sums(k, v)[x] * Sums(k, v)[x]
    OBVIOUS
  <1> HIDE DEF s
  <1>4. Ints(Moments(k, v), 0 .. k) /\ Ints(Gaps(k, v), 0 .. k)
    BY <1>1, <1>2, <1>3, Cumulative
  <1> QED
    BY <1>1, <1>2, <1>4

(* Dry rows have no moment.                                                  *)
LEMMA SameMoments ==
  ASSUME ScoreConstants, DistData, NEW k, k = TopAmount, NEW z \in 0 .. k
  PROVE  /\ SumOf(Moments(k, FullWeights(k)), 0 .. z) = SumOf(Moments(k, WetWeights(k)), 0 .. z)
         /\ SumOf(Moments(k, FullWeights(k)), 0 .. z) \in Int
  <1>1. k \in Nat /\ Ints(Moments(k, FullWeights(k)), 0 .. k)
    BY WeightsAre, LevelsOf
  <1>2. /\ IsFiniteSet(0 .. z) /\ Ints(Moments(k, FullWeights(k)), 0 .. z)
        /\ SumOf(Moments(k, FullWeights(k)), 0 .. z) \in Int
    BY <1>1, SumStep
  <1>3. \A x \in 0 .. z : Moments(k, FullWeights(k))[x] = Moments(k, WetWeights(k))[x]
    <2>1. \A x \in 0 .. z : x \in 0 .. k
      BY <1>1
    <2> QED
      BY <2>1, WeightsAre
  <1> QED
    BY <1>2, <1>3, SumEqual

(* The totals, and the two distribution functions: one is the other plus the *)
(* dry rows.                                                                 *)
LEMMA TotalsAre ==
  ASSUME ScoreConstants, DistData, NEW k, k = TopAmount
  PROVE  /\ G!n = Sums(k, FullWeights(k))[k] /\ G!W = Sums(k, WetWeights(k))[k]
         /\ G!M = SumOf(Moments(k, FullWeights(k)), 0 .. k)
         /\ G!n \in Int /\ G!W \in Int
         /\ \A z \in 0 .. k : Sums(k, FullWeights(k))[z] = Sums(k, WetWeights(k))[z] + (G!n - G!W)
         /\ \A z \in 0 .. k : Sums(k, FullWeights(k))[z] \in Int /\ Sums(k, WetWeights(k))[z] \in Int
  <1>1. k \in Nat /\ k \in 0 .. k /\ G!Amounts \subseteq 0 .. k /\ G!Wet = G!Amounts \ {0} /\ 0 \in G!Amounts
    BY TopIs, DistributionIs
  <1>2. \A a \in G!Amounts : a \in Nat /\ a <= k
    BY <1>1
  <1>3. G!UpTo(k) = G!Amounts /\ G!Wet \cap G!UpTo(k) = G!Wet
    BY <1>1, <1>2 DEF G!UpTo
  <1>4. G!n = Sums(k, FullWeights(k))[k] /\ G!W = Sums(k, WetWeights(k))[k]
        /\ G!M = SumOf(Moments(k, FullWeights(k)), 0 .. k)
    <2>1. /\ G!Weight(G!UpTo(k)) = Sums(k, FullWeights(k))[k]
          /\ G!Weight(G!Wet \cap G!UpTo(k)) = Sums(k, WetWeights(k))[k]
          /\ G!Moment(G!Wet \cap G!UpTo(k)) = SumOf(Moments(k, FullWeights(k)), 0 .. k)
      BY <1>1, SumsAre, SameMoments
    <2>2. G!n = G!Weight(G!Amounts) /\ G!W = G!Weight(G!Wet) /\ G!M = G!Moment(G!Wet)
      BY DEF G!n, G!W, G!M
    <2> QED
      BY <1>3, <2>1, <2>2
  <1>5. ASSUME NEW z \in 0 .. k
        PROVE  /\ Sums(k, FullWeights(k))[z] = G!Weight({0}) + Sums(k, WetWeights(k))[z]
               /\ Sums(k, FullWeights(k))[z] \in Int /\ Sums(k, WetWeights(k))[z] \in Int
    <2> DEFINE T == G!Wet \cap G!UpTo(z)
    <2>1. G!UpTo(z) = {0} \cup T /\ {0} \cap T = {} /\ {0} \in SUBSET G!Amounts /\ T \in SUBSET G!Amounts
      <3>1. 0 <= z
        OBVIOUS
      <3> QED
        BY <1>1, <3>1 DEF G!UpTo
    <2>2. G!Weight(G!UpTo(z)) = G!Weight({0}) + G!Weight(T) /\ G!Weight(T) \in Int /\ G!Weight({0}) \in Int
      <3> HIDE DEF T
      <3> QED
        BY <2>1, WeightIs
    <2>3. G!Weight(G!UpTo(z)) = Sums(k, FullWeights(k))[z] /\ G!Weight(T) = Sums(k, WetWeights(k))[z]
      BY SumsAre
    <2> HIDE DEF T
    <2> QED
      BY <2>2, <2>3
  <1>6. G!Weight({0}) \in Int
    <2>1. {0} \in SUBSET G!Amounts
      BY <1>1
    <2> QED
      BY <2>1, WeightIs
  <1>7. G!n = G!Weight({0}) + G!W /\ G!n \in Int /\ G!W \in Int
    BY <1>1, <1>4, <1>5
  <1>8. G!Weight({0}) = G!n - G!W
    BY <1>6, <1>7
  <1>9. ASSUME NEW z \in 0 .. k
        PROVE  Sums(k, FullWeights(k))[z] = Sums(k, WetWeights(k))[z] + (G!n - G!W)
    <2>1. /\ Sums(k, FullWeights(k))[z] = G!Weight({0}) + Sums(k, WetWeights(k))[z]
          /\ Sums(k, WetWeights(k))[z] \in Int
      BY <1>5
    <2> QED
      BY <1>6, <1>8, <2>1
  <1> QED
    BY <1>4, <1>5, <1>7, <1>9

(* The mean differences of the two distributions.                            *)
LEMMA GapsDiffer ==
  ASSUME ScoreConstants, DistData, NEW k, k = TopAmount
  PROVE  /\ SumOf(Gaps(k, FullWeights(k)), 0 .. k)
              = SumOf(Gaps(k, WetWeights(k)), 0 .. k) + 2 * (G!n - G!W) * G!M
         /\ SumOf(Gaps(k, WetWeights(k)), 0 .. k) \in Int /\ G!M \in Int
  <1> DEFINE R == 0 .. k
             full == FullWeights(k)
             some == WetWeights(k)
             m == Moments(k, some)
             b == 2 * (G!n - G!W)
  <1>1. k \in Nat /\ k \in R /\ IsFiniteSet(R) /\ 1 \in Int
    <2>1. k \in Nat /\ 0 \in Int /\ k \in Int
      BY WeightsAre
    <2> QED
      BY <2>1, FS_Interval
  <1>2. b \in Int /\ G!n \in Int /\ G!W \in Int
    BY TotalsAre
  <1>3. /\ Ints(Gaps(k, full), R) /\ Ints(Gaps(k, some), R) /\ Ints(m, R)
        /\ \A x \in R : full[x] \in Nat /\ some[x] \in Nat
    BY LevelsOf
  <1>4. \A x \in R : Gaps(k, full)[x] = 1 * Gaps(k, some)[x] + b * m[x]
    <2> TAKE x \in R
    <2> DEFINE f == Sums(k, full)[x]
               h == Sums(k, some)[x]
               v == some[x]
               dry == G!n - G!W
    <2>1. /\ Gaps(k, full)[x] = full[x] * x * (2 * f - full[x])
          /\ Gaps(k, some)[x] = v * x * (2 * h - v) /\ m[x] = v * x
      BY DEF Gaps, Moments
    <2>2. f = h + dry /\ h \in Int /\ dry \in Int /\ v \in Int /\ full[x] \in Int /\ x \in Int /\ b = 2 * dry
      BY <1>1, <1>3, TotalsAre
    <2>3. CASE x # 0
      <3>1. full[x] = v
        BY <2>3, WeightsAre
      <3>2. Gaps(k, full)[x] = v * x * (2 * (h + dry) - v)
        BY <2>1, <2>2, <3>1
      <3> HIDE DEF f, h, v, dry, b
      <3>3. v * x * (2 * (h + dry) - v) = 1 * (v * x * (2 * h - v)) + (2 * dry) * (v * x)
        BY <2>2
      <3> QED
        BY <2>1, <2>2, <3>2, <3>3
    <2>4. CASE x = 0
      <3> HIDE DEF f, h, v, dry, b
      <3>1. v * x = 0 /\ full[x] * x = 0
        BY <2>2, <2>4
      <3>2. 0 * (2 * f - full[x]) = 0 /\ 0 * (2 * h - v) = 0 /\ 1 * 0 + (2 * dry) * 0 = 0
        BY <2>2
      <3> QED
        BY <2>1, <2>2, <3>1, <3>2
    <2> QED
      BY <2>3, <2>4
  <1> HIDE DEF b, R, m, full, some
  <1>5. SumOf(Gaps(k, full), R) = 1 * SumOf(Gaps(k, some), R) + b * SumOf(m, R)
    <2> DEFINE gf == Gaps(k, full)
               gs == Gaps(k, some)
    <2>1. Ints(gs, R) /\ Ints(m, R) /\ \A x \in R : gf[x] = 1 * gs[x] + b * m[x]
      BY <1>3, <1>4
    <2>2. IsFiniteSet(R) /\ 1 \in Int /\ b \in Int
      BY <1>1, <1>2
    <2> HIDE DEF gf, gs
    <2>3. SumOf(gf, R) = 1 * SumOf(gs, R) + b * SumOf(m, R)
      BY <2>1, <2>2, SumLinear
    <2> QED
      BY <2>3 DEF gf, gs
  <1>6. SumOf(Gaps(k, some), R) \in Int /\ SumOf(m, R) \in Int
    BY <1>1, <1>3, SumType
  <1>7. SumOf(m, R) = G!M
    BY <1>1, TotalsAre, SameMoments DEF m, R, full, some
  <1>8. 1 * SumOf(Gaps(k, some), R) = SumOf(Gaps(k, some), R)
    BY <1>6
  <1> QED
    BY <1>5, <1>6, <1>7, <1>8 DEF b, R, full, some

(* The quantiles at the midpoints of the grid invert the distribution of the *)
(* wet amounts.                                                              *)
LEMMA QuantilesInvert ==
  ASSUME ScoreConstants, DistData, NEW k, k = TopAmount, NEW h, h = Sums(k, WetWeights(k)),
         NEW u, \A i \in G!Grid : u[i] = G!Quantile(i)
  PROVE  G!Grid = 0 .. (h[k] - 1) /\ Inverts(k, h, u)
  <1>1. k \in Nat /\ k \in 0 .. k /\ G!Wet \subseteq 0 .. k /\ G!W = h[k]
    <2>1. k \in Nat /\ G!Amounts \subseteq 0 .. k /\ G!Wet = G!Amounts \ {0}
      BY TopIs, DistributionIs
    <2>2. G!W = h[k]
      BY TotalsAre
    <2> QED
      BY <2>1, <2>2
  <1>2. G!Grid = 0 .. (h[k] - 1)
    BY <1>1 DEF G!Grid
  <1> DEFINE v == WetWeights(k)
  <1>3. Levels(k, v, h, Moments(k, v), Gaps(k, v)) /\ \A x \in 0 .. k : v[x] \in Nat
    BY LevelsOf
  <1>4. /\ h[0] = v[0]
        /\ \A z \in 0 .. k : h[z] \in Nat /\ (z < k => h[z + 1] = h[z] + v[z + 1])
        /\ \A z \in 0 .. k : \A x \in 0 .. k : x <= z => h[x] <= h[z]
    BY <1>1, <1>3, SumsGrow
  <1>5. v[0] = 0 /\ \A x \in 0 .. k : x \notin G!Wet => v[x] = 0
    <2>1. 0 \in 0 .. k /\ 0 \notin G!Wet
      BY <1>1, DistributionIs
    <2> QED
      BY <2>1, WeightsAre
  <1>6. \A a \in G!Wet : G!Weight(G!Wet \cap G!UpTo(a)) = h[a]
    BY <1>1, SumsAre
  <1> HIDE DEF v
  <1>7. ASSUME NEW i \in 0 .. (h[k] - 1)
        PROVE  u[i] \in 0 .. k /\ \A z \in 0 .. k : u[i] <= z <=> i < h[z]
    <2> DEFINE S == {z \in 0 .. k : i < h[z]}
               T == {a \in G!Wet : G!Weight(G!Wet \cap G!UpTo(a)) > i}
    <2>1. i \in Nat /\ k \in S /\ S \subseteq Nat
      BY <1>1, <1>4
    <2>2. PICK x \in S : \A z \in S : x <= z
      <3> HIDE DEF S
      <3> QED
        BY <2>1, LeastExists
    <2>3. x \in 0 .. k /\ i < h[x] /\ h[x] \in Nat
      BY <1>4
    <2>4. x \in G!Wet
      <3> SUFFICES ASSUME x \notin G!Wet PROVE FALSE
        OBVIOUS
      <3>1. v[x] = 0
        BY <1>5, <2>3
      <3>2. x # 0
        BY <1>4, <1>5, <2>1, <2>3
      <3>3. x - 1 \in 0 .. k /\ x - 1 < k /\ (x - 1) + 1 = x
        BY <1>1, <2>3, <3>2
      <3>4. h[x] = h[x - 1] + v[x] /\ h[x - 1] \in Nat
        BY <1>4, <3>3
      <3>5. h[x] = h[x - 1]
        BY <3>1, <3>4
      <3>6. x - 1 \in S
        BY <2>3, <3>3, <3>5
      <3>7. x <= x - 1
        BY <2>2, <3>6
      <3> QED
        BY <2>3, <3>7
    <2>5. x \in T /\ T \subseteq Int /\ \A a \in T : x <= a
      <3>1. \A a \in T : a \in 0 .. k /\ h[a] > i /\ h[a] \in Nat
        BY <1>1, <1>4, <1>6
      <3>2. \A a \in T : a \in S
        BY <2>1, <3>1
      <3>3. x \in T
        BY <1>6, <2>1, <2>3, <2>4
      <3> HIDE DEF S, T
      <3> QED
        BY <2>2, <3>1, <3>2, <3>3
    <2>6. u[i] = G!Min(T)
      BY <1>2 DEF G!Quantile
    <2> HIDE DEF T
    <2>7. u[i] = x
      BY <2>5, <2>6, GMinMax
    <2>8. ASSUME NEW z \in 0 .. k PROVE x <= z <=> i < h[z]
      <3>1. ASSUME x <= z PROVE i < h[z]
        <4>1. h[x] <= h[z] /\ h[z] \in Nat
          BY <1>4, <2>3, <3>1
        <4> QED
          BY <2>1, <2>3, <4>1
      <3>2. ASSUME i < h[z] PROVE x <= z
        BY <2>2, <3>2
      <3> QED
        BY <3>1, <3>2
    <2> QED
      BY <2>3, <2>7, <2>8
  <1> QED
    BY <1>2, <1>7 DEF Inverts

(* What score_rows() gets from the quantiles is what dists.py gets from the  *)
(* partial moments, and Gini's mean difference.                              *)
LEMMA FromQuantilesIs ==
  ASSUME ScoreConstants, DistData, NEW k, k = TopAmount
  PROVE  /\ G!FromQuantiles = G!FromMoments /\ G!FromMoments \in Int
         /\ G!FromMoments = G!M - G!y * G!W
                            + 2 * (G!y * Sums(k, WetWeights(k))[G!y]
                                   - SumOf(Moments(k, FullWeights(k)), 0 .. G!y))
         /\ G!Gini = 2 * (SumOf(Gaps(k, WetWeights(k)), 0 .. k) - G!W * G!M)
  <1> DEFINE v == WetWeights(k)
             h == Sums(k, v)
             m == Moments(k, v)
             q == Gaps(k, v)
             I == G!Grid
             R == 0 .. k
             u == [i \in I |-> G!Quantile(i)]
             e == [x \in R |-> G!Abs(x - G!y)]
             id == [x \in R |-> x]
             g == [i \in I |-> G!Abs(G!Quantile(i) - G!y)]
             r == [i \in I |-> u[i] * (2 * i + 1)]
             t == [x \in R |-> v[x] * e[x]]
             d == [i \in I |-> G!Quantile(i) * (2 * i + 1 - G!W)]
  <1>1. k \in Nat /\ k \in R /\ G!y \in R /\ G!y \in Int
    BY TopIs
  <1>2. Levels(k, v, h, m, q) /\ (\A x \in R : v[x] \in Nat) /\ Ints(m, R) /\ Ints(q, R)
    BY LevelsOf
  <1>3. \A i \in I : u[i] = G!Quantile(i)
    OBVIOUS
  <1>4. I = 0 .. (h[k] - 1) /\ Inverts(k, h, u)
    <2> HIDE DEF u, v, I
    <2> QED
      BY <1>3, QuantilesInvert DEF v, I
  <1>5. G!W = h[k] /\ G!W \in Int /\ G!M = SumOf(m, R) /\ G!M \in Int /\ h[G!y] \in Int
    BY <1>1, TotalsAre, SameMoments
  <1>6. \A i \in I : u[i] \in R
    BY <1>4 DEF Inverts
  <1>7. Summed(k, v, h, u, e, g, r, t)
    <2>1. \A x \in R : e[x] \in Int
      BY <1>1 DEF G!Abs
    <2>2. \A i \in I : g[i] = e[u[i]] /\ r[i] = u[i] * (2 * i + 1)
      BY <1>6
    <2>3. \A x \in R : t[x] = v[x] * e[x]
      OBVIOUS
    <2> HIDE DEF v, h, e, g, r, t, u
    <2> QED
      BY <1>2, <1>4, <2>1, <2>2, <2>3 DEF Summed
  <1>8. Summed(k, v, h, u, id, u, r, m)
    <2>1. \A x \in R : id[x] \in Int /\ id[x] = x /\ m[x] = v[x] * id[x]
      BY <1>1 DEF Moments
    <2>2. \A i \in I : u[i] = id[u[i]] /\ r[i] = u[i] * (2 * i + 1)
      BY <1>6
    <2> HIDE DEF v, h, id, r, u, m
    <2> QED
      BY <1>2, <1>4, <2>1, <2>2 DEF Summed
  <1>9. \A x \in R : t[x] = v[x] * G!Abs(x - G!y)
    OBVIOUS
  <1>10. G!FromQuantiles = G!SumFunction(g) /\ DOMAIN g = I
    BY DEF G!FromQuantiles
  <1>11. G!Gini = 2 * G!SumFunction(d) /\ DOMAIN d = I
    BY DEF G!Gini
  <1>12. \A i \in I : d[i] = 1 * r[i] + (-G!W) * u[i]
    <2> TAKE i \in I
    <2>1. i \in Int /\ u[i] \in Int
      BY <1>4, <1>6
    <2>2. d[i] = u[i] * (2 * i + 1 - G!W) /\ r[i] = u[i] * (2 * i + 1)
      BY <1>3
    <2> DEFINE x == u[i]
    <2>3. x \in Int /\ d[i] = x * (2 * i + 1 - G!W) /\ r[i] = x * (2 * i + 1)
      BY <2>1, <2>2
    <2> HIDE DEF x, d, r
    <2>4. x * (2 * i + 1 - G!W) = 1 * (x * (2 * i + 1)) + (-G!W) * x
      BY <1>5, <2>1, <2>3
    <2> QED
      BY <2>3, <2>4 DEF x
  <1>13. IsFiniteSet(I)
    <2>1. 0 \in Int /\ h[k] - 1 \in Int
      BY <1>5
    <2> QED
      BY <1>4, <2>1, FS_Interval
  <1> HIDE DEF v, h, m, q, I, u, e, id, g, r, t, d
  <1>14. Ints(g, I) /\ Ints(r, I) /\ SumOf(g, I) = SumOf(t, R) /\ SumOf(r, I) = SumOf(q, R)
    BY <1>1, <1>2, <1>4, <1>7, QuantileSums
  <1>15. Ints(u, I) /\ SumOf(u, I) = SumOf(m, R)
    BY <1>1, <1>2, <1>4, <1>8, QuantileSums
  <1>16. /\ Ints(t, R)
         /\ SumOf(t, R) = SumOf(m, R) - G!y * h[k] + 2 * (G!y * h[G!y] - SumOf(m, 0 .. G!y))
    <2> DEFINE b == G!y
    <2>1. b \in 0 .. k /\ Distances(k, v, b, t)
      BY <1>1, <1>9 DEF Distances
    <2> HIDE DEF b
    <2>2. /\ Ints(t, 0 .. k)
          /\ SumOf(t, 0 .. k) = SumOf(m, 0 .. k) - b * h[k] + 2 * (b * h[b] - SumOf(m, 0 .. b))
      BY <1>1, <1>2, <2>1, AbsSums
    <2> QED
      BY <2>2 DEF b
  <1>17. SumOf(m, 0 .. G!y) = SumOf(Moments(k, FullWeights(k)), 0 .. G!y)
    BY <1>1, SameMoments DEF m, v
  <1>18. G!FromMoments = SumOf(t, R)
    <2>1. G!Weight(G!Wet \cap G!UpTo(G!y)) = h[G!y] /\ G!Moment(G!Wet \cap G!UpTo(G!y)) = SumOf(m, 0 .. G!y)
      BY <1>1, SumsAre DEF h, m, v
    <2>2. G!FromMoments = G!M - G!y * G!W + 2 * (G!y * h[G!y] - SumOf(m, 0 .. G!y))
      BY <2>1 DEF G!FromMoments
    <2> QED
      BY <1>5, <1>16, <2>2
  <1>19. G!FromQuantiles = SumOf(t, R) /\ SumOf(t, R) \in Int
    <2>1. IsFiniteSet(R)
      <3>1. 0 \in Int /\ k \in Int
        BY <1>1
      <3> QED
        BY <3>1, FS_Interval
    <2>2. SumOf(t, R) \in Int
      <3> HIDE DEF R
      <3> QED
        BY <1>16, <2>1, SumType DEF R
    <2> QED
      BY <1>10, <1>13, <1>14, <2>2, FunctionSum
  <1>20. G!SumFunction(d) = 1 * SumOf(q, R) + (-G!W) * SumOf(m, R) /\ SumOf(q, R) \in Int
    <2> DEFINE b == -G!W
    <2>1. b \in Int /\ 1 \in Int /\ \A i \in I : d[i] = 1 * r[i] + b * u[i]
      BY <1>5, <1>12
    <2> HIDE DEF b
    <2>2. SumOf(d, I) = 1 * SumOf(r, I) + b * SumOf(u, I)
      BY <1>13, <1>14, <1>15, <2>1, SumLinear
    <2>3. Ints(d, I)
      <3> SUFFICES ASSUME NEW i \in I PROVE d[i] \in Int
        BY DEF Ints
      <3>1. r[i] \in Int /\ u[i] \in Int
        BY <1>14, <1>15 DEF Ints
      <3>2. 1 * r[i] \in Int /\ b * u[i] \in Int
        BY <2>1, <3>1
      <3> QED
        BY <2>1, <3>2
    <2>4. SumOf(r, I) \in Int
      BY <1>13, <1>14, SumType
    <2> QED
      BY <1>11, <1>13, <1>14, <1>15, <2>2, <2>3, <2>4, FunctionSum DEF b
  <1>21. G!Gini = 2 * (SumOf(q, R) - G!W * G!M)
    <2> DEFINE s == SumOf(q, R)
    <2>1. s \in Int /\ G!Gini = 2 * (1 * s + (-G!W) * G!M)
      BY <1>5, <1>11, <1>20
    <2> HIDE DEF s
    <2>2. 2 * (1 * s + (-G!W) * G!M) = 2 * (s - G!W * G!M)
      BY <1>5, <2>1
    <2> QED
      BY <2>1, <2>2 DEF s
  <1> QED
    BY <1>5, <1>16, <1>17, <1>18, <1>19, <1>21 DEF v, h, q, R

(* The CRPS, from its definition, in the totals of the distribution.         *)
LEMMA DistanceIs ==
  ASSUME ScoreConstants, DistData, NEW k, k = TopAmount
  PROVE  /\ G!Distance = 2 * G!n * G!y * Sums(k, FullWeights(k))[G!y]
                         - 2 * G!n * SumOf(Moments(k, FullWeights(k)), 0 .. G!y)
                         + 2 * G!n * G!M - G!n * G!n * G!y - SumOf(Gaps(k, FullWeights(k)), 0 .. k)
         /\ SumOf(Gaps(k, FullWeights(k)), 0 .. k) \in Int
         /\ SumOf(Moments(k, FullWeights(k)), 0 .. G!y) \in Int
  <1> DEFINE v == FullWeights(k)
             f == Sums(k, v)
             m == Moments(k, v)
             q == Gaps(k, v)
             b == G!y
             e == G!n
             R == 0 .. k
             d == [x \in R |-> G!Square(G!Weight(G!UpTo(x)) - (IF x >= G!y THEN G!n ELSE 0))]
  <1>1. k \in Nat /\ k \in R /\ b \in R
    BY TopIs
  <1>2. Levels(k, v, f, m, q)
    BY LevelsOf
  <1>3. e = f[k] /\ G!M = SumOf(m, R)
    BY <1>1, TotalsAre
  <1>4. Squared(k, f, b, e, d)
    <2> SUFFICES ASSUME NEW x \in 0 .. k
                 PROVE  d[x] = (f[x] - (IF x >= b THEN e ELSE 0)) * (f[x] - (IF x >= b THEN e ELSE 0))
      BY Zenon DEF Squared
    <2>1. G!Weight(G!UpTo(x)) = f[x]
      BY SumsAre
    <2> QED
      BY <2>1 DEF G!Square
  <1>5. G!Distance = G!SumFunction(d) /\ DOMAIN d = R
    BY DEF G!Distance, TopAmount
  <1> HIDE DEF v, f, m, q, b, e, d
  <1>6. /\ Ints(d, 0 .. k) /\ SumOf(m, 0 .. b) \in Int /\ SumOf(q, 0 .. k) \in Int
        /\ SumOf(d, 0 .. k) = 2 * e * b * f[b] - 2 * e * SumOf(m, 0 .. b) + 2 * e * SumOf(m, 0 .. k)
                               - e * e * b - SumOf(q, 0 .. k)
    BY <1>1, <1>2, <1>3, <1>4, SquaredDistance
  <1>7. IsFiniteSet(R)
    <2>1. 0 \in Int /\ k \in Int
      BY <1>1
    <2> QED
      BY <2>1, FS_Interval
  <1>8. G!SumFunction(d) = SumOf(d, R)
    BY <1>5, <1>6, <1>7, FunctionSum
  <1>9. G!Distance = 2 * e * b * f[b] - 2 * e * SumOf(m, 0 .. b) + 2 * e * G!M - e * e * b - SumOf(q, 0 .. k)
    BY <1>3, <1>5, <1>6, <1>8
  <1> QED
    BY <1>6, <1>9 DEF v, f, m, q, b, e

(* What climatology_crps() computes, in the same totals.                     *)
LEMMA ClimatologyIs ==
  ASSUME ScoreConstants, DistData, NEW k, k = TopAmount, NEW t, t = Sums(k, FullWeights(k))[G!y],
         NEW s, s = SumOf(Moments(k, FullWeights(k)), 0 .. G!y)
  PROVE  G!Climatology = 2 * G!n * (G!y * t - s + (G!M - s) - G!y * (G!n - t))
                         - 2 * (SumOf(Gaps(k, FullWeights(k)), 0 .. k) - G!n * G!M)
  <1> DEFINE v == FullWeights(k)
             f == Sums(k, v)
             m == Moments(k, v)
             q == Gaps(k, v)
             R == 0 .. k
             b == -G!n
             S == G!Amounts
             c == [a \in S |-> data.w[a] * a * (2 * G!Weight(G!UpTo(a)) - data.w[a] - G!n)]
             ce == [x \in R |-> 1 * q[x] + b * m[x]]
  <1>1. k \in Nat /\ k \in R /\ G!y \in R /\ S \subseteq R
    BY TopIs
  <1>2. /\ \A x \in R : v[x] \in Nat /\ q[x] \in Int /\ m[x] \in Int /\ f[x] \in Int
        /\ Ints(q, R) /\ Ints(m, R)
    BY LevelsOf, TotalsAre DEF Ints
  <1>3. G!n \in Int /\ b \in Int /\ G!M \in Int /\ G!M = SumOf(m, R) /\ SumOf(q, R) \in Int /\ 1 \in Int
    <2>1. G!n \in Int /\ G!M \in Int /\ G!M = SumOf(m, R)
      BY TotalsAre, GapsDiffer
    <2>2. SumOf(q, R) \in Int
      BY DistanceIs
    <2> QED
      BY <2>1, <2>2
  <1>4. Extended(c, S, ce, R) /\ Ints(ce, R)
    <2>1. ASSUME NEW x \in R PROVE ce[x] \in Int
      BY <1>2, <1>3
    <2>2. ASSUME NEW x \in S PROVE c[x] = ce[x]
      <3> DEFINE g == data.w[x]
                 h == f[x]
      <3>1. x \in R /\ x \in Int /\ G!Weight(G!UpTo(x)) = h
        <4>1. x \in R /\ x \in Int /\ x \in 0 .. k
          BY <1>1
        <4>2. G!Weight(G!UpTo(x)) = Sums(k, FullWeights(k))[x]
          BY <4>1, SumsAre
        <4> QED
          BY <4>1, <4>2
      <3>2. v[x] = g /\ g \in Nat /\ h \in Int
        BY <1>2, <3>1 DEF FullWeights
      <3>3. q[x] = g * x * (2 * h - g) /\ m[x] = g * x
        BY <3>1, <3>2 DEF Gaps, Moments
      <3>4. c[x] = g * x * (2 * h - g - G!n)
        BY <3>1
      <3>5. ce[x] = 1 * (g * x * (2 * h - g)) + (-G!n) * (g * x)
        BY <3>1, <3>3
      <3> HIDE DEF g, h, c, ce
      <3>6. g * x * (2 * h - g - G!n) = 1 * (g * x * (2 * h - g)) + (-G!n) * (g * x)
        BY <1>3, <3>1, <3>2
      <3> QED
        BY <3>4, <3>5, <3>6
    <2>3. ASSUME NEW x \in R, x \notin S PROVE ce[x] = 0
      <3>1. v[x] = 0
        BY <2>3 DEF FullWeights
      <3>2. q[x] = 0 * x * (2 * f[x] - 0) /\ m[x] = 0 * x
        BY <3>1 DEF Gaps, Moments
      <3>3. x \in Int /\ f[x] \in Int
        BY <1>1, <1>2
      <3>4. q[x] = 0 /\ m[x] = 0
        BY <3>2, <3>3
      <3>5. 1 * 0 + b * 0 = 0
        BY <1>3
      <3> QED
        BY <3>4, <3>5
    <2> HIDE DEF c, ce
    <2> QED
      BY <1>1, <2>1, <2>2, <2>3 DEF Extended, Ints
  <1>5. \A x \in R : ce[x] = 1 * q[x] + b * m[x]
    OBVIOUS
  <1>6. DOMAIN c = S
    OBVIOUS
  <1>7. G!Climatology = 2 * G!n * (G!y * t - s + (G!M - s) - G!y * (G!n - t)) - 2 * G!SumFunction(c)
    <2>1. G!Weight(G!UpTo(G!y)) = t /\ G!Moment(G!UpTo(G!y)) = s
      BY <1>1, SumsAre
    <2> QED
      BY <2>1 DEF G!Climatology
  <1>8. IsFiniteSet(R)
    <2>1. 0 \in Int /\ k \in Int
      BY <1>1
    <2> QED
      BY <2>1, FS_Interval
  <1> HIDE DEF v, f, m, q, R, b, S, c, ce
  <1>9. SumOf(ce, R) = 1 * SumOf(q, R) + b * SumOf(m, R)
    BY <1>2, <1>3, <1>5, <1>8, SumLinear
  <1>10. Ints(c, S) /\ IsFiniteSet(S) /\ SumOf(c, S) = SumOf(ce, R)
    BY <1>4, <1>8, SumExtend
  <1>11. G!SumFunction(c) = SumOf(c, S)
    BY <1>6, <1>10, FunctionSum
  <1> DEFINE sq == SumOf(q, R)
             mk == G!M
             nn == G!n
  <1>12. G!SumFunction(c) = 1 * sq + (-nn) * mk /\ sq \in Int /\ mk \in Int /\ nn \in Int
    BY <1>3, <1>9, <1>10, <1>11 DEF b
  <1>13. 1 * sq + (-nn) * mk = sq - nn * mk
    <2> HIDE DEF sq, nn, mk
    <2> QED
      BY <1>12
  <1>14. G!SumFunction(c) = SumOf(q, R) - G!n * G!M
    BY <1>12, <1>13
  <1> QED
    BY <1>7, <1>14 DEF q, v, R

(* The closed forms of the CRPS agree with its definition.                   *)
LEMMA CrpsIs ==
  ASSUME ScoreConstants, DistData
  PROVE  /\ G!Climatology = 2 * G!Distance
         /\ G!Mixture(G!FromMoments, G!Gini) = 2 * G!Distance
         /\ G!Mixture(G!FromQuantiles, G!Gini) = 2 * G!Distance
  <1> DEFINE k == TopAmount
             n1 == G!n
             w1 == G!W
             m1 == G!M
             b == G!y
             f == Sums(k, FullWeights(k))[b]
             h == Sums(k, WetWeights(k))[b]
             s == SumOf(Moments(k, FullWeights(k)), 0 .. b)
             qf == SumOf(Gaps(k, FullWeights(k)), 0 .. k)
             qw == SumOf(Gaps(k, WetWeights(k)), 0 .. k)
             mo == G!FromMoments
             gi == G!Gini
             cl == G!Climatology
             di == G!Distance
  <1>1. /\ n1 \in Int /\ w1 \in Int /\ m1 \in Int /\ b \in Int /\ f \in Int /\ h \in Int /\ s \in Int
        /\ qf \in Int /\ qw \in Int
    <2>1. k \in Nat /\ b \in 0 .. k
      BY TopIs
    <2>2. n1 \in Int /\ w1 \in Int
      BY TotalsAre
    <2>3. f \in Int /\ h \in Int
      BY <2>1, TotalsAre
    <2>4. qw \in Int /\ m1 \in Int
      BY GapsDiffer
    <2>5. s \in Int /\ qf \in Int
      BY DistanceIs
    <2> QED
      BY <2>1, <2>2, <2>3, <2>4, <2>5
  <1>2. f = h + (n1 - w1)
    <2>1. b \in 0 .. k
      BY TopIs
    <2> QED
      BY <2>1, TotalsAre
  <1>3. qf = qw + 2 * (n1 - w1) * m1
    BY GapsDiffer
  <1>4. di = 2 * n1 * b * f - 2 * n1 * s + 2 * n1 * m1 - n1 * n1 * b - qf
    BY DistanceIs
  <1>5. cl = 2 * n1 * (b * f - s + (m1 - s) - b * (n1 - f)) - 2 * (qf - n1 * m1)
    BY ClimatologyIs
  <1>6. G!FromQuantiles = mo /\ mo = m1 - b * w1 + 2 * (b * h - s) /\ gi = 2 * (qw - w1 * m1)
    BY FromQuantilesIs
  <1>7. G!Mixture(mo, gi) = 2 * n1 * (n1 - w1) * b + 2 * n1 * mo - 2 * (n1 - w1) * m1 - gi
    BY DEF G!Mixture
  <1> HIDE DEF k, n1, w1, m1, b, f, h, s, qf, qw, mo, gi, cl, di
  <1>8. cl = 2 * di
    <2>1. 2 * n1 * (b * f - s + (m1 - s) - b * (n1 - f)) - 2 * (qf - n1 * m1)
            = 2 * (2 * n1 * b * f - 2 * n1 * s + 2 * n1 * m1 - n1 * n1 * b - qf)
      BY <1>1
    <2> QED
      BY <1>4, <1>5, <2>1
  <1>9. G!Mixture(mo, gi) = 2 * di
    <2> DEFINE right == 2 * (2 * n1 * b * (h + (n1 - w1)) - 2 * n1 * s + 2 * n1 * m1 - n1 * n1 * b
                             - (qw + 2 * (n1 - w1) * m1))
               left == 2 * n1 * (n1 - w1) * b + 2 * n1 * (m1 - b * w1 + 2 * (b * h - s))
                       - 2 * (n1 - w1) * m1 - 2 * (qw - w1 * m1)
    <2>1. left = right
      BY <1>1
    <2>2. G!Mixture(mo, gi) = left
      BY <1>6, <1>7
    <2>3. 2 * di = right
      BY <1>2, <1>3, <1>4
    <2> QED
      BY <2>1, <2>2, <2>3
  <1> QED
    BY <1>6, <1>8, <1>9 DEF cl, di, mo, gi

(* An observation is a multiple of four, a wet amount is odd: no amount is   *)
(* on the edge of the cell.                                                  *)
LEMMA NoneOnEdge ==
  ASSUME ScoreConstants, DistData, NEW a \in G!Amounts
  PROVE  /\ a \in Nat /\ G!y \in Nat /\ (G!y = 0 \/ G!y >= 4)
         /\ a <= G!y + 2 <=> a < G!y + 2
         /\ G!y # 0 => (a <= G!y - 2 <=> a < G!y - 2)
         /\ a \in G!Wet <=> a # 0
         /\ (G!y = 0 /\ a # 0 /\ a <= 2) => a < 2
  <1>1. a \in Nat /\ G!y \in Nat /\ IsFour(G!y) /\ IsOddOr0(a) /\ (a \in G!Wet <=> a # 0)
    <2>1. G!Amounts \subseteq 0 .. (4 * V) /\ G!y \in 0 .. (4 * V) /\ IsFour(G!y) /\ IsOddOr0(a)
          /\ G!Wet = G!Amounts \ {0}
      BY DistributionIs
    <2> QED
      BY <2>1
  <1>2. PICK m \in Nat : G!y = 4 * m
    BY <1>1 DEF IsFour
  <1>3. a # 0 => \E j \in Int : a = 2 * j - 1
    BY <1>1 DEF IsOddOr0
  <1> QED
    BY <1>1, <1>2, <1>3

(* The likelihood of a cell is the weight in it and the width of its PIT     *)
(* interval, and exceedances are the weights above.                          *)
LEMMA CellsAre ==
  ASSUME ScoreConstants, DistData
  PROVE  /\ G!Lattice = G!Weight({a \in G!Amounts : G!Abs(a - G!y) < 2})
         /\ G!PitLo = G!Weight({a \in G!Amounts : a < G!y - 2})
         /\ G!PitHi = G!Weight({a \in G!Amounts : a < G!y + 2})
         /\ G!PitHi - G!PitLo = G!Lattice
         /\ \A r \in {0, 2, 4, 6} : G!Exceedance(r) = G!Weight({a \in G!Amounts : a > r})
  <1> DEFINE X(z) == G!Wet \cap G!UpTo(z)
             Cell == {a \in G!Amounts : G!Abs(a - G!y) < 2}
             Below == {a \in G!Amounts : a < G!y - 2}
             Under == {a \in G!Amounts : a < G!y + 2}
  <1>1. /\ G!Wet = G!Amounts \ {0} /\ 0 \in G!Amounts /\ G!y \in Nat /\ (G!y = 0 \/ G!y >= 4)
        /\ \A a \in G!Amounts : a \in Nat
    BY DistributionIs, NoneOnEdge
  <1>2. \A z : /\ X(z) \in SUBSET G!Amounts /\ 0 \notin X(z)
               /\ \A a \in G!Amounts : a \in X(z) <=> a # 0 /\ a <= z
    BY <1>1 DEF G!UpTo
  <1>3. \A z : G!Cdf(z) = G!Weight(X(z)) /\ G!Weight(X(z)) \in Int
    <2> TAKE z
    <2> HIDE DEF X
    <2>1. G!Weight(X(z)) \in Int
      BY <1>2, WeightIs
    <2> QED
      BY <2>1 DEF G!Cdf, X
  <1>4. /\ {0} \in SUBSET G!Amounts /\ G!Wet \in SUBSET G!Amounts /\ {0} \cup G!Wet = G!Amounts
        /\ {0} \cap G!Wet = {}
    BY <1>1
  <1>5. /\ G!n = G!Weight({0}) + G!W /\ G!Weight({0}) \in Int /\ G!W \in Int
        /\ G!n - G!W = G!Weight({0})
    <2>1. G!Weight({0} \cup G!Wet) = G!Weight({0}) + G!Weight(G!Wet) /\ G!Weight({0}) \in Int /\ G!Weight(G!Wet) \in Int
      BY <1>4, WeightIs
    <2>2. G!n = G!Weight(G!Amounts) /\ G!W = G!Weight(G!Wet)
      BY DEF G!n, G!W
    <2>3. G!Weight({0} \cup G!Wet) = G!Weight(G!Amounts)
      BY <1>4
    <2>4. /\ G!n = G!Weight({0}) + G!W /\ G!Weight({0}) \in Int /\ G!W \in Int
      BY <2>1, <2>2, <2>3
    <2> DEFINE whole == G!n
               dry == G!Weight({0})
               wets == G!W
    <2>5. whole = dry + wets /\ dry \in Int /\ wets \in Int
      BY <2>4
    <2> HIDE DEF whole, dry, wets
    <2>6. whole - wets = dry
      BY <2>5
    <2> QED
      BY <2>4, <2>6 DEF whole, dry, wets
  <1>6. G!PitHi = G!Weight(Under) /\ G!PitHi = G!Weight({0}) + G!Cdf(G!Hi)
    <2>1. G!Hi = G!y + 2
      BY DEF G!Hi
    <2>2. Under = {0} \cup X(G!Hi) /\ {0} \cap X(G!Hi) = {}
      <3>1. \A a \in G!Amounts : a \in Under <=> a = 0 \/ a \in X(G!Hi)
        <4> TAKE a \in G!Amounts
        <4>1. a \in Under <=> a < G!y + 2
          OBVIOUS
        <4>2. a \in X(G!Hi) <=> a # 0 /\ a <= G!y + 2
          BY <1>2, <2>1
        <4>3. a <= G!y + 2 <=> a < G!y + 2
          BY NoneOnEdge
        <4> QED
          BY <1>1, <4>1, <4>2, <4>3
      <3> HIDE DEF X
      <3> QED
        BY <1>1, <1>2, <3>1
    <2>3. G!Weight({0} \cup X(G!Hi)) = G!Weight({0}) + G!Weight(X(G!Hi))
      <3> HIDE DEF X
      <3> QED
        BY <1>2, <1>4, <2>2, WeightIs
    <2>4. G!PitHi = G!Weight({0}) + G!Cdf(G!Hi)
      BY <1>5 DEF G!PitHi
    <2> QED
      BY <1>3, <2>2, <2>3, <2>4
  <1>7. ASSUME G!y = 0
       PROVE  /\ G!Lattice = G!Weight(Cell) /\ G!PitLo = G!Weight(Below) /\ G!PitHi - G!PitLo = G!Lattice
    <2>1. Below = {} /\ G!PitLo = 0
      BY <1>1, <1>7 DEF G!PitLo
    <2>2. G!Weight({}) = 0
      <3>1. {} \in SUBSET G!Amounts /\ {} \cup {} = {} /\ {} \cap {} = {}
        OBVIOUS
      <3> DEFINE none == G!Weight({})
      <3>2. G!Weight({} \cup {}) = G!Weight({}) + G!Weight({}) /\ G!Weight({}) \in Int
        BY <3>1, WeightIs
      <3>3. none = none + none /\ none \in Int
        BY <3>1, <3>2
      <3> HIDE DEF none
      <3>4. none = 0
        BY <3>3
      <3> QED
        BY <3>4 DEF none
    <2>3. G!Lattice = G!Weight({0}) + G!Cdf(G!Hi)
      BY <1>5, <1>7 DEF G!Lattice
    <2>4. Cell = Under
      <3>1. \A a \in G!Amounts : G!Abs(a - G!y) < 2 <=> a < G!y + 2
        BY <1>1, <1>7 DEF G!Abs
      <3> QED
        BY <3>1
    <2>5. G!Lattice = G!PitHi
      BY <1>6, <2>3
    <2>6. G!PitHi - 0 = G!PitHi
      BY <1>3, <1>5, <1>6
    <2> QED
      BY <1>6, <2>1, <2>2, <2>4, <2>5, <2>6
  <1>8. ASSUME G!y # 0
       PROVE  /\ G!Lattice = G!Weight(Cell) /\ G!PitLo = G!Weight(Below) /\ G!PitHi - G!PitLo = G!Lattice
    <2>1. G!Hi = G!y + 2 /\ G!Lo = G!y - 2 /\ G!y >= 4
      BY <1>1, <1>8 DEF G!Hi, G!Lo
    <2>2. G!PitLo = G!Weight({0}) + G!Cdf(G!Lo)
      BY <1>5, <1>8 DEF G!PitLo
    <2>3. Below = {0} \cup X(G!Lo) /\ {0} \cap X(G!Lo) = {}
      <3>1. \A a \in G!Amounts : a \in Below <=> a = 0 \/ a \in X(G!Lo)
        <4> TAKE a \in G!Amounts
        <4>1. a \in Below <=> a < G!y - 2
          OBVIOUS
        <4>2. a \in X(G!Lo) <=> a # 0 /\ a <= G!y - 2
          BY <1>2, <2>1
        <4>3. a <= G!y - 2 <=> a < G!y - 2
          BY <1>8, NoneOnEdge
        <4> QED
          BY <1>1, <2>1, <4>1, <4>2, <4>3
      <3> HIDE DEF X
      <3> QED
        BY <1>1, <1>2, <3>1
    <2>4. G!Weight(Below) = G!Weight({0}) + G!Weight(X(G!Lo))
      <3> HIDE DEF X
      <3> QED
        BY <1>2, <1>4, <2>3, WeightIs
    <2>5. X(G!Hi) = X(G!Lo) \cup Cell /\ X(G!Lo) \cap Cell = {} /\ Cell \in SUBSET G!Amounts
      <3>1. \A a \in G!Amounts : /\ a \in X(G!Hi) <=> a \in X(G!Lo) \/ a \in Cell
                                 /\ ~(a \in X(G!Lo) /\ a \in Cell)
        <4> TAKE a \in G!Amounts
        <4>1. /\ a \in X(G!Lo) <=> a # 0 /\ a <= G!y - 2
              /\ a \in X(G!Hi) <=> a # 0 /\ a <= G!y + 2
          BY <1>2, <2>1
        <4>2. (a <= G!y - 2 <=> a < G!y - 2) /\ (a <= G!y + 2 <=> a < G!y + 2)
          BY <1>8, NoneOnEdge
        <4>3. a \in Cell <=> G!y - 2 < a /\ a < G!y + 2
          BY <1>1 DEF G!Abs
        <4> HIDE DEF X, Cell
        <4> QED
          BY <1>1, <2>1, <4>1, <4>2, <4>3
      <3>2. Cell \in SUBSET G!Amounts
        OBVIOUS
      <3> HIDE DEF X, Cell
      <3> QED
        BY <1>2, <3>1, <3>2
    <2> DEFINE lo == G!Cdf(G!Lo)
               hi == G!Cdf(G!Hi)
               cell == G!Weight(Cell)
               dry == G!Weight({0})
               all == G!W
    <2>6. hi = lo + cell /\ lo \in Int /\ hi \in Int /\ cell \in Int /\ dry \in Int /\ all \in Int
      <3> HIDE DEF X, Cell
      <3>1. G!Weight(X(G!Lo) \cup Cell) = G!Weight(X(G!Lo)) + G!Weight(Cell) /\ G!Weight(Cell) \in Int
        BY <1>2, <2>5, WeightIs
      <3> QED
        BY <1>3, <1>5, <2>5, <3>1
    <2>7. G!Lattice = IF 2 * hi < all THEN hi - lo ELSE (all - lo) - (all - hi)
      BY <1>8 DEF G!Lattice, G!Sf
    <2>8. G!PitLo = dry + lo /\ G!PitHi = dry + hi /\ G!Weight(Below) = dry + lo
      BY <1>3, <1>6, <2>2, <2>4
    <2> HIDE DEF lo, hi, cell, dry, all, Cell, Below
    <2>9. G!Lattice = cell /\ G!PitHi - G!PitLo = cell /\ G!PitLo = G!Weight(Below)
      BY <2>6, <2>7, <2>8
    <2> QED
      BY <1>6, <2>9 DEF cell, Cell, Below
  <1>9. ASSUME NEW r \in {0, 2, 4, 6}
        PROVE  G!Exceedance(r) = G!Weight({a \in G!Amounts : a > r})
    <2> DEFINE Over1 == {a \in G!Amounts : a > r}
    <2>1. \A a \in G!Amounts : a \in Over1 <=> a > r
      OBVIOUS
    <2>2. r \in Nat /\ Over1 \in SUBSET G!Amounts
      OBVIOUS
    <2> HIDE DEF Over1, X
    <2>3. CASE r = 0
      <3>1. Over1 = G!Wet
        BY <1>1, <2>1, <2>2, <2>3
      <3> QED
        BY <2>3, <3>1 DEF G!Exceedance, G!W, Over1
    <2>4. CASE r # 0
      <3>1. G!Wet = X(r) \cup Over1 /\ X(r) \cap Over1 = {}
        BY <1>1, <1>2, <2>1, <2>2
      <3>2. G!Weight(G!Wet) = G!Weight(X(r)) + G!Weight(Over1) /\ G!Weight(Over1) \in Int
        BY <1>2, <2>2, <3>1, WeightIs
      <3>3. G!Exceedance(r) = G!W - G!Cdf(r)
        BY <2>4 DEF G!Exceedance, G!Sf
      <3>4. G!W = G!Weight(G!Wet)
        BY DEF G!W
      <3>5. G!Cdf(r) = G!Weight(X(r)) /\ G!Weight(X(r)) \in Int
        BY <1>3
      <3>6. G!Exceedance(r) = G!Weight(Over1)
        BY <3>2, <3>3, <3>4, <3>5
      <3> QED
        BY <3>6 DEF Over1
    <2> QED
      BY <2>3, <2>4
  <1> HIDE DEF X, Cell, Below, Under
  <1>10. /\ G!Lattice = G!Weight(Cell) /\ G!PitLo = G!Weight(Below) /\ G!PitHi - G!PitLo = G!Lattice
    BY <1>7, <1>8 DEF Cell, Below
  <1> QED
    BY <1>6, <1>9, <1>10 DEF Cell, Below, Under

-----------------------------------------------------------------------------
(* The reports of ranked rows and of a distribution.                         *)
RankReport(o, idx) ==
    [auc2 |-> G!Auc2, trapezoid2 |-> G!Trapezoid2(o),
     ap |-> G!AveragePrecision(o), cut |-> G!Cut, f1 |-> G!F1At(G!Cut), idx |-> idx,
     brier |-> [c \in 0 .. 2 |->
        G!ConstantBrier(G!Resampled(G!Rank, idx), G!Resampled(G!Events, idx), c, 2)]]

GradeReport ==
    [climatology |-> G!Climatology,
     crps |-> {G!Mixture(G!FromMoments, G!Gini), G!Mixture(G!FromQuantiles, G!Gini)},
     lattice |-> G!Lattice, pit |-> <<G!PitLo, G!PitHi>>,
     above |-> [r \in {0, 2, 4, 6} |-> G!Exceedance(r)]]

(* A report is made from rows or a distribution that do not change.          *)
ScoreInv ==
    \/ RankedData /\ (\/ scores = G!Pending
                      \/ \E o \in G!Orders, idx \in [G!TestDays -> G!TestDays] : scores = RankReport(o, idx))
    \/ DistData /\ (scores = G!Pending \/ scores = GradeReport)

(* Rows have forecasts, a distribution has none.                             *)
LEMMA WhichData ==
  /\ RankedData => G!Ranked
  /\ DistData => ~G!Ranked
  <1>1. ASSUME RankedData PROVE G!Ranked
    <2>1. DOMAIN data = {"p", "event"}
      BY <1>1 DEF RankedData
    <2> QED
      BY <2>1 DEF G!Ranked
  <1>2. ASSUME DistData PROVE ~G!Ranked
    <2>1. DOMAIN data = {"w", "y"}
      BY <1>2 DEF DistData
    <2> QED
      BY <2>1 DEF G!Ranked
  <1> QED
    BY <1>1, <1>2

(* A report of ranked rows holds what it should.                             *)
LEMMA RanksMatch ==
  ASSUME ScoreConstants, RankedData, NEW o \in G!Orders, NEW idx \in [G!TestDays -> G!TestDays],
         scores = RankReport(o, idx)
  PROVE  G!RanksAreExact
  <1>1. /\ scores.auc2 = G!Auc2 /\ scores.ap = G!AveragePrecision(o) /\ scores.trapezoid2 = G!Trapezoid2(o)
        /\ scores.f1 = G!F1At(G!Cut) /\ scores.idx = idx
        /\ \A c \in 0 .. 2 : scores.brier[c] =
              G!ConstantBrier(G!Resampled(G!Rank, idx), G!Resampled(G!Events, idx), c, 2)
    BY DEF RankReport
  <1>2. scores.auc2 = 2 * G!Count(G!Pairs) - G!Count(G!Ties)
    BY <1>1, AucCountsPairs
  <1>3. /\ scores.ap = G!SumFunction([t \in G!Forecasts |-> G!Gained(t) * G!PrecisionAt(t)])
        /\ scores.trapezoid2 =
              G!SumFunction([t \in G!Forecasts |-> G!Gained(t) * (G!PrecisionAt(t) + G!PrecisionAt(G!Above(t)))])
    BY <1>1, CurveAreas
  <1>4. G!F1Best
    <2>1. ASSUME NEW b \in G!Bins
          PROVE  G!F1At(b)[1] * scores.f1[2] <= scores.f1[1] * G!F1At(b)[2]
      BY <1>1, CutIsBest
    <2> QED
      BY <2>1 DEF G!F1Best
  <1>5. \A c \in 0 .. 2 :
           scores.brier[c] =
              G!SumFunction([i \in G!TestDays |->
                 G!SumFunction([r \in {r \in G!Rank : G!DayOf(r) = scores.idx[i]} |->
                                 G!Square((IF data.event[r] THEN 2 ELSE 0) - c)])])
    BY <1>1, BrierOfDays
  <1> QED
    BY <1>2, <1>3, <1>4, <1>5 DEF G!RanksAreExact

(* So does one of a distribution.                                            *)
LEMMA GradesMatch ==
  ASSUME ScoreConstants, DistData, scores = GradeReport
  PROVE  G!GradesAreExact
  <1>1. /\ scores.climatology = G!Climatology
        /\ scores.crps = {G!Mixture(G!FromMoments, G!Gini), G!Mixture(G!FromQuantiles, G!Gini)}
        /\ scores.lattice = G!Lattice /\ scores.pit = <<G!PitLo, G!PitHi>>
        /\ scores.above = [r \in {0, 2, 4, 6} |-> G!Exceedance(r)]
    BY DEF GradeReport
  <1>2. scores.climatology = 2 * G!Distance /\ scores.crps = {2 * G!Distance}
    BY <1>1, CrpsIs
  <1>3. /\ scores.lattice = G!Weight({a \in G!Amounts : G!Abs(a - G!y) < 2})
        /\ scores.pit = <<G!Weight({a \in G!Amounts : a < G!y - 2}), G!Weight({a \in G!Amounts : a < G!y + 2})>>
    BY <1>1, CellsAre
  <1>4. scores.pit[2] - scores.pit[1] = scores.lattice
    BY <1>1, CellsAre
  <1>5. \A r \in DOMAIN scores.above : scores.above[r] = G!Weight({a \in G!Amounts : a > r})
    BY <1>1, CellsAre
  <1> QED
    BY <1>2, <1>3, <1>4, <1>5 DEF G!GradesAreExact

LEMMA ScoresMatch ==
  ASSUME ScoreConstants, ScoreInv
  PROVE  G!ScoresAreExact
  <1> SUFFICES ASSUME scores # G!Pending
               PROVE  IF G!Ranked THEN G!RanksAreExact ELSE G!GradesAreExact
    BY DEF G!ScoresAreExact
  <1>1. CASE RankedData /\ \E o \in G!Orders, idx \in [G!TestDays -> G!TestDays] : scores = RankReport(o, idx)
    BY <1>1, WhichData, RanksMatch
  <1>2. CASE DistData /\ scores = GradeReport
    BY <1>2, WhichData, GradesMatch
  <1> QED
    BY <1>1, <1>2 DEF ScoreInv

LEMMA ScoreStart ==
  ASSUME G!Init
  PROVE  ScoreInv
  BY DEF G!Init, ScoreInv, RankedData, DistData, G!Rank

LEMMA ScoreStep ==
  ASSUME ScoreInv, G!Next \/ UNCHANGED scoreVars
  PROVE  ScoreInv'
  <1>1. data' = data
    BY DEF G!Next, G!RankRows, G!Grade, scoreVars
  <1>2. (RankedData' <=> RankedData) /\ (DistData' <=> DistData)
    BY <1>1 DEF RankedData, DistData, G!Amounts
  <1>3. G!Pending' = G!Pending /\ [G!TestDays -> G!TestDays]' = [G!TestDays -> G!TestDays]
    BY DEF G!Pending, G!TestDays
  <1>4. /\ G!p' = G!p /\ G!Events' = G!Events /\ G!Orders' = G!Orders /\ G!Rank' = G!Rank
    BY <1>1 DEF G!p, G!Events, G!Orders, G!Rank, G!IsInjective
  <1>5. ASSUME NEW o, NEW idx PROVE RankReport(o, idx)' = RankReport(o, idx)
    <2>1. G!Auc2' = G!Auc2
      BY <1>1, <1>4 DEF G!Auc2, G!Rank2, G!Count, G!Cardinality, G!SumFunction, G!SumFunctionOnSet,
         G!FoldFunctionOnSet, G!MapThenFoldSet
    <2>2. G!Scale' = G!Scale
      BY <1>4 DEF G!Scale, G!FoldFunction, G!FoldFunctionOnSet, G!MapThenFoldSet
    <2>3. G!Last(o)' = G!Last(o)
      BY <1>4 DEF G!Last
    <2>4. ASSUME NEW i
          PROVE  /\ G!Precision(o, i)' = G!Precision(o, i) /\ G!Recall(o, i)' = G!Recall(o, i)
                 /\ G!PrecisionBefore(o, i)' = G!PrecisionBefore(o, i)
      BY <1>1, <2>2, <2>3 DEF G!Precision, G!Recall, G!PrecisionBefore, G!Before, G!Tp, G!Count, G!Cardinality, G!Max
    <2>5. G!Trapezoid2(o)' = G!Trapezoid2(o)
      <3> DEFINE area == [i \in G!Last(o) |-> G!Recall(o, i) * (G!Precision(o, i) + G!PrecisionBefore(o, i))]
      <3>1. area' = area
        BY <2>3, <2>4
      <3>2. G!Trapezoid2(o) = G!SumFunction(area) /\ G!Trapezoid2(o)' = G!SumFunction(area)'
        BY DEF G!Trapezoid2
      <3> HIDE DEF area
      <3>3. G!SumFunction(area)' = G!SumFunction(area)
        BY <3>1 DEF G!SumFunction, G!SumFunctionOnSet, G!FoldFunctionOnSet, G!MapThenFoldSet
      <3> QED
        BY <3>2, <3>3
    <2>6. G!AveragePrecision(o)' = G!AveragePrecision(o)
      <3> DEFINE area == [i \in G!Last(o) |-> G!Recall(o, i) * G!Precision(o, i)]
      <3>1. area' = area
        BY <2>3, <2>4
      <3>2. G!AveragePrecision(o) = G!SumFunction(area) /\ G!AveragePrecision(o)' = G!SumFunction(area)'
        BY DEF G!AveragePrecision
      <3> HIDE DEF area
      <3>3. G!SumFunction(area)' = G!SumFunction(area)
        BY <3>1 DEF G!SumFunction, G!SumFunctionOnSet, G!FoldFunctionOnSet, G!MapThenFoldSet
      <3> QED
        BY <3>2, <3>3
    <2>7. G!Cut' = G!Cut
      BY <1>4 DEF G!Cut, G!Bins, G!Bin, G!BinF1, G!Count, G!Cardinality, G!Max
    <2>8. G!F1At(G!Cut)' = G!F1At(G!Cut)
      BY <1>4, <2>7 DEF G!F1At, G!Count, G!Cardinality
    <2>9. /\ G!Resampled(G!Rank, idx)' = G!Resampled(G!Rank, idx)
          /\ G!Resampled(G!Events, idx)' = G!Resampled(G!Events, idx)
      BY <1>4 DEF G!Resampled, G!TestDays, G!DayOf, G!Count, G!Cardinality, G!SumFunction,
         G!SumFunctionOnSet, G!FoldFunctionOnSet, G!MapThenFoldSet
    <2> QED
      BY <2>1, <2>5, <2>6, <2>7, <2>8, <2>9 DEF RankReport, G!ConstantBrier, G!Square
  <1>6. GradeReport' = GradeReport
    <2>1. G!y' = G!y /\ G!Amounts' = G!Amounts
      BY <1>1 DEF G!y, G!Amounts
    <2>2. /\ G!Wet' = G!Wet /\ \A x : G!UpTo(x)' = G!UpTo(x)
      BY <2>1 DEF G!Wet, G!UpTo
    <2>3. /\ \A S : G!Weight(S)' = G!Weight(S)
          /\ \A S : G!Moment(S)' = G!Moment(S)
      BY <1>1 DEF G!Weight, G!Moment, G!SumFunction, G!SumFunctionOnSet, G!FoldFunctionOnSet, G!MapThenFoldSet
    <2>4. G!n' = G!n /\ G!W' = G!W /\ G!M' = G!M
      BY <2>1, <2>2, <2>3 DEF G!n, G!W, G!M
    <2>5. G!Climatology' = G!Climatology
      <3> DEFINE gap == [a \in G!Amounts |-> data.w[a] * a * (2 * G!Weight(G!UpTo(a)) - data.w[a] - G!n)]
      <3>1. gap' = gap
        BY <1>1, <2>1, <2>2, <2>3, <2>4
      <3>2. G!Weight(G!UpTo(G!y))' = G!Weight(G!UpTo(G!y)) /\ G!Moment(G!UpTo(G!y))' = G!Moment(G!UpTo(G!y))
        BY <2>1, <2>2, <2>3
      <3> HIDE DEF gap
      <3>3. G!SumFunction(gap)' = G!SumFunction(gap)
        BY <3>1 DEF G!SumFunction, G!SumFunctionOnSet, G!FoldFunctionOnSet, G!MapThenFoldSet
      <3> QED
        BY <2>1, <2>4, <3>2, <3>3 DEF G!Climatology, gap
    <2>6. G!FromMoments' = G!FromMoments
      BY <2>1, <2>2, <2>3, <2>4 DEF G!FromMoments
    <2>7. G!Grid' = G!Grid /\ \A i : G!Quantile(i)' = G!Quantile(i)
      BY <2>2, <2>3, <2>4 DEF G!Grid, G!Quantile, G!Min
    <2>8. G!FromQuantiles' = G!FromQuantiles /\ G!Gini' = G!Gini
      <3> DEFINE dev == [i \in G!Grid |-> G!Abs(G!Quantile(i) - G!y)]
                 gap == [i \in G!Grid |-> G!Quantile(i) * (2 * i + 1 - G!W)]
      <3>1. dev' = dev
        BY <2>1, <2>7 DEF G!Abs
      <3>2. gap' = gap
        BY <2>4, <2>7
      <3> HIDE DEF dev, gap
      <3>3. G!SumFunction(dev)' = G!SumFunction(dev)
        BY <3>1 DEF G!SumFunction, G!SumFunctionOnSet, G!FoldFunctionOnSet, G!MapThenFoldSet
      <3>4. G!SumFunction(gap)' = G!SumFunction(gap)
        BY <3>2 DEF G!SumFunction, G!SumFunctionOnSet, G!FoldFunctionOnSet, G!MapThenFoldSet
      <3> QED
        BY <3>3, <3>4 DEF G!FromQuantiles, G!Gini, dev, gap
    <2>9. /\ G!Mixture(G!FromMoments, G!Gini)' = G!Mixture(G!FromMoments, G!Gini)
          /\ G!Mixture(G!FromQuantiles, G!Gini)' = G!Mixture(G!FromQuantiles, G!Gini)
      BY <2>1, <2>4, <2>6, <2>8 DEF G!Mixture
    <2>10. /\ \A z : G!Cdf(z)' = G!Cdf(z)
           /\ \A z : G!Sf(z)' = G!Sf(z)
           /\ G!Lo' = G!Lo /\ G!Hi' = G!Hi
      BY <2>1, <2>2, <2>3, <2>4 DEF G!Cdf, G!Sf, G!Lo, G!Hi
    <2>11. /\ G!Lattice' = G!Lattice /\ G!PitLo' = G!PitLo /\ G!PitHi' = G!PitHi
           /\ \A r : G!Exceedance(r)' = G!Exceedance(r)
      BY <2>1, <2>4, <2>10 DEF G!Lattice, G!PitLo, G!PitHi, G!Exceedance
    <2> QED
      BY <2>5, <2>9, <2>11 DEF GradeReport
  <1>7. CASE scores' = scores
    BY <1>2, <1>3, <1>4, <1>5, <1>6, <1>7 DEF ScoreInv
  <1>8. CASE G!RankRows
    <2>1. PICK o \in G!Orders, idx \in [G!TestDays -> G!TestDays] : scores' = RankReport(o, idx)
      BY <1>8 DEF G!RankRows, RankReport
    <2>2. RankedData
      BY <1>8, WhichData DEF G!RankRows, ScoreInv
    <2> QED
      BY <1>2, <1>3, <1>4, <1>5, <2>1, <2>2 DEF ScoreInv
  <1>9. CASE G!Grade
    <2>1. scores' = GradeReport
      BY <1>9 DEF G!Grade, GradeReport
    <2>2. DistData
      BY <1>9, WhichData DEF G!Grade, ScoreInv
    <2> QED
      BY <1>2, <1>6, <2>1, <2>2 DEF ScoreInv
  <1> QED
    BY <1>7, <1>8, <1>9 DEF G!Next, scoreVars

(* The scores of the rainfall forecasts are what their names promise.        *)
LEMMA ScoresExact ==
  ASSUME ScoreConstants
  PROVE  JobSpec => [](job = "scores" => G!ScoresAreExact)
  <1>1. JobInit => (job = "scores" => ScoreInv)
    BY ScoreStart, JobStarts
  <1>2. (job = "scores" => ScoreInv) /\ [JobNext]_jobVars => (job = "scores" => ScoreInv)'
    BY ScoreStep, JobSteps
  <1>3. (job = "scores" => ScoreInv) => (job = "scores" => G!ScoresAreExact)
    BY ScoresMatch
  <1> QED
    BY <1>1, <1>2, <1>3, PTL DEF JobSpec

(* Every number the evaluation reports is the one its name promises: the     *)
(* chances above an edge (SurvivalExact), the areas under the curves and the *)
(* cut of the best F1 whatever the order of rows with equal forecasts, the   *)
(* Brier score of resampled days, the CRPS in all its closed forms, and the  *)
(* likelihood of a cell with its PIT interval; whatever the rows, the        *)
(* forecasts, the weights of the amounts and the observation (amount_models, *)
(* evaluate.py, dists.py, ziln.py, bootstrap_amount_models.py).              *)
THEOREM ForecastsExact ==
  ASSUME AmountConstants, ScoreConstants
  PROVE  JobSpec => []ForecastsAreExact
  <1>1. (job = "amounts" => A!SurvivalIsShare) /\ (job = "scores" => G!ScoresAreExact)
           <=> ForecastsAreExact
    BY DEF ForecastsAreExact
  <1> QED
    BY <1>1, SurvivalExact, ScoresExact, PTL
=============================================================================
