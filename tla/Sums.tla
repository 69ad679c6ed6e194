-------------------------------- MODULE Sums --------------------------------
(* Sums of functions over finite sets, without induction: the sum is the     *)
(* number of elements of a disjoint union, which is shown to satisfy the     *)
(* equation that defines SumFunction recursively.                            *)
EXTENDS Integers, Functions, FiniteSetTheorems, TLAPS

(* A recursive definition over the subsets of a finite D says nothing until  *)
(* a function that satisfies it is exhibited: the number of elements in the  *)
(* union is one, and no other differs from it on a least set.                *)
LEMMA SumCounts ==
  ASSUME NEW D, IsFiniteSet(D), NEW U, IsFiniteSet(U), NEW G \in [D -> SUBSET U],
         \A i, j \in D : i # j => G[i] \cap G[j] = {},
         NEW d, DOMAIN d = D, \A i \in D : d[i] = Cardinality(G[i])
  PROVE  SumFunction(d) = Cardinality(UNION {G[i] : i \in D})
  <1> DEFINE all(s) == UNION {G[i] : i \in s}
             pick(s) == CHOOSE x \in s : TRUE
             step(f, s) == IF s = {} THEN 0 ELSE d[pick(s)] + f[s \ {pick(s)}]
             iter == CHOOSE f : f = [s \in SUBSET D |-> step(f, s)]
             g == [s \in SUBSET D |-> Cardinality(all(s))]
  <1>1. SumFunction(d) = iter[D]
    BY DEF SumFunction, SumFunctionOnSet, FoldFunctionOnSet, MapThenFoldSet
  <1>2. ASSUME NEW s \in SUBSET D, s # {}
        PROVE  pick(s) \in s /\ g[s] = d[pick(s)] + g[s \ {pick(s)}]
    <2> DEFINE x == pick(s)
    <2>1. x \in s
      BY <1>2
    <2> HIDE DEF x
    <2>2. /\ all(s) = G[x] \cup all(s \ {x})
          /\ G[x] \cap all(s \ {x}) = {}
      BY <2>1
    <2>3. all(s \ {x}) \in SUBSET U /\ G[x] \in SUBSET U
      BY <2>1
    <2>4. IsFiniteSet(all(s \ {x})) /\ IsFiniteSet(G[x])
      <3> HIDE DEF all
      <3> QED BY <2>3, FS_Subset
    <2>5. Cardinality(all(s)) = Cardinality(G[x]) + Cardinality(all(s \ {x}))
      <3> DEFINE A == G[x]
                 B == all(s \ {x})
      <3>1. IsFiniteSet(A) /\ IsFiniteSet(B) /\ all(s) = A \cup B /\ A \cap B = {}
        BY <2>2, <2>4
      <3> HIDE DEF A, B, all
      <3>2. Cardinality(A \cup B) = Cardinality(A) + Cardinality(B) - Cardinality(A \cap B)
        BY <3>1, FS_Union
      <3>3. Cardinality(A) \in Nat /\ Cardinality(B) \in Nat
        BY <3>1, FS_CardinalityType
      <3>4. Cardinality(A \cap B) = 0
        BY <3>1, FS_EmptySet
      <3>5. Cardinality(all(s)) = Cardinality(A) + Cardinality(B)
        BY <3>1, <3>2, <3>3, <3>4
      <3> QED BY <3>5 DEF A, B
    <2>6. d[x] = Cardinality(G[x])
      BY <2>1
    <2>7. g[s] = Cardinality(all(s)) /\ g[s \ {x}] = Cardinality(all(s \ {x}))
      <3> HIDE DEF all
      <3> QED OBVIOUS
    <2> HIDE DEF g, all
    <2> QED BY <2>1, <2>5, <2>6, <2>7 DEF x
  <1>3. g[{}] = 0
    <2>1. all({}) = {}
      OBVIOUS
    <2> HIDE DEF all
    <2> QED BY <2>1, FS_EmptySet
  <1> HIDE DEF pick
  <1>4. g = [s \in SUBSET D |-> step(g, s)]
    <2>1. \A s \in SUBSET D : g[s] = step(g, s)
      BY <1>2, <1>3
    <2>2. g = [s \in SUBSET D |-> g[s]]
      OBVIOUS
    <2> HIDE DEF g
    <2> QED BY <2>1, <2>2
  <1> HIDE DEF g
  <1>5. iter = [s \in SUBSET D |-> step(iter, s)]
    BY <1>4
  <1> HIDE DEF iter
  <1>6. \A s \in SUBSET D : iter[s] = g[s]
    <2> DEFINE T == {s \in SUBSET D : iter[s] # g[s]}
               R == StrictSubsetOrdering(D)
    <2>1. IsWellFoundedOn(R, SUBSET D)
      <3>1. FiniteSubsetsOf(D) = SUBSET D
        BY FS_FiniteSubsetsOfFinite
      <3>2. IsWellFoundedOn(StrictSubsetOrdering(D), FiniteSubsetsOf(D))
        BY FS_StrictSubsetOrderingWellFounded
      <3> QED BY <3>1, <3>2
    <2>2. ASSUME T # {} PROVE FALSE
      <3>1. T \subseteq SUBSET D
        OBVIOUS
      <3>2. \E s \in T : \A r \in T : ~ (<<r, s>> \in R)
        <4> HIDE DEF T, R
        <4> QED BY <2>1, <2>2, <3>1, WFMin
      <3>3. PICK s \in T : \A r \in T : ~ (<<r, s>> \in R)
        BY <3>2
      <3>4. s # {}
        BY <1>3, <1>5
      <3>5. pick(s) \in s
        BY <1>2, <3>4
      <3> DEFINE r == s \ {pick(s)}
      <3>6. <<r, s>> \in R
        BY <3>5 DEF StrictSubsetOrdering
      <3>7. iter[r] = g[r]
        BY <3>3, <3>6
      <3>8. iter[s] = d[pick(s)] + iter[r]
        BY <1>5, <3>4
      <3>9. g[s] = d[pick(s)] + g[r]
        BY <1>2, <3>4
      <3> QED BY <3>7, <3>8, <3>9
    <2> QED BY <2>2
  <1>7. iter[D] = g[D] /\ g[D] = Cardinality(all(D))
    <2>1. D \in SUBSET D
      OBVIOUS
    <2> HIDE DEF all
    <2> QED BY <1>6, <2>1 DEF g
  <1> QED BY <1>1, <1>7 DEF iter, pick

\* What the summand d[i] stands for: as many elements, marked with i.
Marked(d, i) == {i} \X (1..d[i])

LEMMA MarkedCount ==
  ASSUME NEW D, IsFiniteSet(D), NEW d \in [D -> Nat]
  PROVE  /\ IsFiniteSet(UNION {Marked(d, i) : i \in D})
         /\ SumFunction(d) = Cardinality(UNION {Marked(d, i) : i \in D})
  <1> DEFINE G == [i \in D |-> Marked(d, i)]
             all == UNION {G[i] : i \in D}
  <1>1. ASSUME NEW i \in D
        PROVE  IsFiniteSet(Marked(d, i)) /\ Cardinality(Marked(d, i)) = d[i]
    <2>1. d[i] \in Nat
      OBVIOUS
    <2>2. IsFiniteSet({i}) /\ Cardinality({i}) = 1
      BY FS_Singleton
    <2>3. IsFiniteSet(1..d[i]) /\ Cardinality(1..d[i]) = d[i]
      BY <2>1, FS_Interval
    <2>4. /\ IsFiniteSet({i} \X (1..d[i]))
          /\ Cardinality({i} \X (1..d[i])) = Cardinality({i}) * Cardinality(1..d[i])
      BY <2>2, <2>3, FS_Product
    <2> QED BY <2>1, <2>2, <2>3, <2>4 DEF Marked
  <1>2. IsFiniteSet(all)
    <2> DEFINE S == {G[i] : i \in D}
    <2>1. IsFiniteSet(S)
      <3>1. G \in Surjection(D, S)
        BY DEF Surjection
      <3> HIDE DEF G, S
      <3> QED BY <3>1, FS_Surjection
    <2>2. \A T \in S : IsFiniteSet(T)
      BY <1>1
    <2> HIDE DEF S
    <2>3. IsFiniteSet(UNION S)
      BY <2>1, <2>2, FS_UNION
    <2> QED BY <2>3 DEF S
  <1>3. G \in [D -> SUBSET all]
    OBVIOUS
  <1>4. \A i, j \in D : i # j => G[i] \cap G[j] = {}
    BY DEF Marked
  <1>5. \A i \in D : d[i] = Cardinality(G[i])
    BY <1>1
  <1>6. all = UNION {Marked(d, i) : i \in D}
    OBVIOUS
  <1> HIDE DEF G, all
  <1>7. SumFunction(d) = Cardinality(UNION {G[i] : i \in D})
    BY <1>2, <1>3, <1>4, <1>5, SumCounts
  <1> QED BY <1>2, <1>6, <1>7 DEF all

\* The sum of numbers is a number.
LEMMA SumType ==
  ASSUME NEW D, IsFiniteSet(D), NEW d \in [D -> Nat]
  PROVE  SumFunction(d) \in Nat
  BY MarkedCount, FS_CardinalityType

\* No summand larger, no larger sum.
LEMMA SumMonotone ==
  ASSUME NEW D, IsFiniteSet(D), NEW d \in [D -> Nat], NEW e \in [D -> Nat],
         \A i \in D : d[i] <= e[i]
  PROVE  SumFunction(d) <= SumFunction(e)
  <1> DEFINE A == UNION {Marked(d, i) : i \in D}
             B == UNION {Marked(e, i) : i \in D}
  <1>1. \A i \in D : Marked(d, i) \subseteq Marked(e, i)
    BY DEF Marked
  <1>2. A \in SUBSET B
    BY <1>1
  <1>3. IsFiniteSet(B) /\ SumFunction(d) = Cardinality(A) /\ SumFunction(e) = Cardinality(B)
    BY MarkedCount
  <1> HIDE DEF A, B
  <1> QED BY <1>2, <1>3, FS_Subset
=============================================================================
