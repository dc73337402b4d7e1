-------------------------------- MODULE Sums --------------------------------
(* What proofs need to know of MapThenSumSet over a finite set, and that every
   set of numbers has a least one.  The library defines the sum by recursion on
   subsets; each fact is shown by taking a smallest subset for which it fails.   *)
EXTENDS Integers, FiniteSetsExt, FiniteSetTheorems, WellFoundedInduction, TLAPS

\* The sum of the weights of a set.
Total(w, S) == MapThenSumSet(LAMBDA x : w[x], S)

\* By well-foundedness of the order of the natural numbers.
LEMMA LeastNumber ==
    ASSUME NEW T, T \subseteq Nat, T # {}
    PROVE  \E x \in T : \A y \in T : x <= y
  <1>1. IsWellFoundedOn(OpToRel(<, Nat), Nat)
    BY NatLessThanWellFounded
  <1>2. PICK x \in T : \A y \in T : ~ (<<y, x>> \in OpToRel(<, Nat))
    BY <1>1, WFMin, Zenon
  <1>3. \A y \in T : ~(y < x)
    BY <1>2 DEF OpToRel
  <1> QED BY <1>3

\* Of some finite sets one has the fewest elements.
LEMMA SmallestSet ==
    ASSUME NEW C, C # {}, \A T \in C : IsFiniteSet(T)
    PROVE  \E T \in C : \A U \in C : Cardinality(T) <= Cardinality(U)
  <1> DEFINE N == {Cardinality(T) : T \in C}
  <1>1. N \subseteq Nat /\ N # {}
    BY FS_CardinalityType
  <1>2. PICK n \in N : \A m \in N : n <= m
    <2> HIDE DEF N
    <2> QED BY <1>1, LeastNumber
  <1> QED BY <1>2

-----------------------------------------------------------------------------
\* The element the library takes first, and the equation it defines the sum by.
Pick(T) == CHOOSE x \in T : TRUE
After(T) == T \ {Pick(T)}
IsSum(f, w, D) == f = [T \in D |-> IF T = {} THEN 0 ELSE w[Pick(T)] + f[After(T)]]

\* What is left without it is smaller.
LEMMA PickFacts ==
    ASSUME NEW T, T # {}, IsFiniteSet(T)
    PROVE  /\ Pick(T) \in T /\ After(T) \subseteq T /\ IsFiniteSet(After(T))
           /\ Cardinality(T) \in Nat /\ Cardinality(After(T)) = Cardinality(T) - 1
  <1>1. Pick(T) \in T
    BY DEF Pick
  <1> QED BY <1>1, FS_RemoveElement, FS_CardinalityType DEF After

\* The library's sum is the function it chooses for that equation.
LEMMA TotalIsFold ==
    ASSUME NEW w, NEW S PROVE Total(w, S) = (CHOOSE f : IsSum(f, w, SUBSET S))[S]
  BY DEF Total, MapThenSumSet, MapThenFoldSet, IsSum, Pick, After

-----------------------------------------------------------------------------
\* The subsets with at most n elements.
UpTo(S, n) == {T \in SUBSET S : Cardinality(T) <= n}

\* The equation has a solution on the subsets of up to n elements, for each n.
LEMMA SumUpTo ==
    ASSUME NEW S, IsFiniteSet(S), NEW w
    PROVE  \A n \in Nat : \E f : IsSum(f, w, UpTo(S, n))
  <1> DEFINE Bad == {n \in Nat : ~ \E f : IsSum(f, w, UpTo(S, n))}
  <1>1. SUFFICES ASSUME Bad # {} PROVE FALSE
    OBVIOUS
  <1>2. PICK n \in Bad : \A m \in Bad : n <= m
    <2>1. Bad \subseteq Nat
      OBVIOUS
    <2> HIDE DEF Bad
    <2> QED BY <1>1, <2>1, LeastNumber
  <1>3. n \in Nat /\ ~ \E f : IsSum(f, w, UpTo(S, n))
    BY <1>2
  <1>4. \A T \in SUBSET S : IsFiniteSet(T) /\ Cardinality(T) \in Nat
    BY FS_Subset, FS_CardinalityType
  <1>5. CASE n = 0
    <2>1. UpTo(S, 0) = {{}}
      BY <1>4, FS_EmptySet DEF UpTo
    <2>2. IsSum([T \in {{}} |-> 0], w, {{}})
      BY DEF IsSum
    <2> QED BY <1>3, <1>5, <2>1, <2>2
  <1>6. CASE n # 0
    <2>1. n - 1 \in Nat /\ n - 1 \notin Bad
      BY <1>2, <1>3, <1>6
    <2>2. PICK f : IsSum(f, w, UpTo(S, n - 1))
      BY <2>1
    <2> DEFINE Val(h, T) == IF T = {} THEN 0 ELSE w[Pick(T)] + h[After(T)]
               g == [T \in UpTo(S, n) |-> Val(f, T)]
    <2>3. \A T \in UpTo(S, n) : T # {} => After(T) \in UpTo(S, n - 1) /\ After(T) \in UpTo(S, n)
      BY <1>3, <1>4, PickFacts DEF UpTo
    <2>4. \A T \in UpTo(S, n - 1) : T \in UpTo(S, n) /\ f[T] = Val(f, T)
      <3>1. UpTo(S, n - 1) \subseteq UpTo(S, n)
        BY <1>3, <1>4 DEF UpTo
      <3> QED BY <2>2, <3>1 DEF IsSum
    <2>5. \A T \in UpTo(S, n - 1) : g[T] = f[T]
      BY <2>4
    <2>6. \A T \in UpTo(S, n) : Val(f, T) = Val(g, T)
      <3> HIDE DEF g
      <3> QED BY <2>3, <2>5
    <2>7. g = [T \in UpTo(S, n) |-> Val(g, T)]
      <3> DEFINE h == [T \in UpTo(S, n) |-> Val(g, T)]
      <3>1. DOMAIN g = UpTo(S, n) /\ DOMAIN h = UpTo(S, n) /\ \A T \in UpTo(S, n) : g[T] = h[T]
        BY <2>6
      <3>2. g = [T \in DOMAIN g |-> g[T]] /\ h = [T \in DOMAIN h |-> h[T]]
        OBVIOUS
      <3> HIDE DEF g, h
      <3>3. g = h
        BY <3>1, <3>2
      <3> QED BY <3>3 DEF h
    <2>8. IsSum(g, w, UpTo(S, n))
      BY <2>7 DEF IsSum
    <2> QED BY <1>3, <2>8
  <1> QED BY <1>5, <1>6

\* So it has one on all subsets, which is the one the library chooses.
LEMMA SumExists ==
    ASSUME NEW S, IsFiniteSet(S), NEW w
    PROVE  \E f : IsSum(f, w, SUBSET S) /\ Total(w, S) = f[S]
  <1>1. Cardinality(S) \in Nat /\ UpTo(S, Cardinality(S)) = SUBSET S
    BY FS_Subset, FS_CardinalityType DEF UpTo
  <1>2. \E f : IsSum(f, w, SUBSET S)
    <2>1. \E f : IsSum(f, w, UpTo(S, Cardinality(S)))
      BY <1>1, SumUpTo
    <2> QED BY <1>1, <2>1
  <1> DEFINE c == CHOOSE f : IsSum(f, w, SUBSET S)
  <1>3. IsSum(c, w, SUBSET S)
    BY <1>2
  <1> QED BY <1>3, TotalIsFold

\* Solutions agree where both are defined.
LEMMA SumIsUnique ==
    ASSUME NEW S, IsFiniteSet(S), NEW w, NEW f, IsSum(f, w, SUBSET S)
    PROVE  \A T \in SUBSET S : \A g : IsSum(g, w, SUBSET T) => \A U \in SUBSET T : f[U] = g[U]
  <1> SUFFICES ASSUME NEW T \in SUBSET S, NEW g, IsSum(g, w, SUBSET T)
               PROVE  \A U \in SUBSET T : f[U] = g[U]
    OBVIOUS
  <1> DEFINE Bad == {U \in SUBSET T : f[U] # g[U]}
  <1>1. SUFFICES ASSUME Bad # {} PROVE FALSE
    OBVIOUS
  <1>2. \A U \in SUBSET T : IsFiniteSet(U) /\ Cardinality(U) \in Nat
    BY FS_Subset, FS_CardinalityType
  <1>3. PICK U \in Bad : \A V \in Bad : Cardinality(U) <= Cardinality(V)
    <2>1. \A V \in Bad : IsFiniteSet(V)
      BY <1>2
    <2> HIDE DEF Bad
    <2> QED BY <1>1, <2>1, SmallestSet
  <1>4. U \in SUBSET T /\ U \in SUBSET S /\ f[U] # g[U]
    BY <1>3
  <1>5. /\ f[U] = IF U = {} THEN 0 ELSE w[Pick(U)] + f[After(U)]
        /\ g[U] = IF U = {} THEN 0 ELSE w[Pick(U)] + g[After(U)]
    BY <1>4 DEF IsSum
  <1>6. U # {} /\ f[After(U)] # g[After(U)]
    BY <1>4, <1>5
  <1>7. After(U) \in SUBSET T /\ Cardinality(U) \in Nat /\ Cardinality(After(U)) = Cardinality(U) - 1
    BY <1>2, <1>4, <1>6, PickFacts
  <1>8. After(U) \in Bad
    BY <1>6, <1>7
  <1> QED BY <1>3, <1>7, <1>8

\* The same for the whole of the smaller set.
LEMMA SumsAgree ==
    ASSUME NEW S, IsFiniteSet(S), NEW w, NEW f, IsSum(f, w, SUBSET S),
           NEW T \in SUBSET S, NEW g, IsSum(g, w, SUBSET T)
    PROVE  f[T] = g[T]
  BY SumIsUnique

-----------------------------------------------------------------------------
\* The sum over no element.
LEMMA TotalOfNone ==
    ASSUME NEW w PROVE Total(w, {}) = 0
  <1>1. PICK f : IsSum(f, w, SUBSET {}) /\ Total(w, {}) = f[{}]
    BY SumExists, FS_EmptySet
  <1> QED BY <1>1 DEF IsSum

\* The total by the element the library takes first.
LEMMA TotalByPick ==
    ASSUME NEW S, IsFiniteSet(S), S # {}, NEW w
    PROVE  Total(w, S) = w[Pick(S)] + Total(w, After(S))
  <1>1. PICK f : IsSum(f, w, SUBSET S) /\ Total(w, S) = f[S]
    BY SumExists
  <1>2. After(S) \in SUBSET S /\ IsFiniteSet(After(S))
    BY PickFacts
  <1>3. PICK g : IsSum(g, w, SUBSET After(S)) /\ Total(w, After(S)) = g[After(S)]
    BY <1>2, SumExists
  <1>4. ASSUME NEW T \in SUBSET S, NEW h, IsSum(h, w, SUBSET T) PROVE f[T] = h[T]
    BY <1>1, <1>4, SumsAgree
  <1>5. f[After(S)] = g[After(S)]
    BY <1>2, <1>3, <1>4
  <1>6. f[S] = w[Pick(S)] + f[After(S)]
    BY <1>1 DEF IsSum
  <1> QED BY <1>1, <1>3, <1>5, <1>6

\* The total of natural weights is a natural number.
LEMMA TotalIsNat ==
    ASSUME NEW D, NEW w \in [D -> Nat], NEW S \in SUBSET D, IsFiniteSet(S)
    PROVE  Total(w, S) \in Nat
  <1> DEFINE Bad == {T \in SUBSET S : Total(w, T) \notin Nat}
  <1>1. SUFFICES ASSUME Bad # {} PROVE FALSE
    OBVIOUS
  <1>2. \A T \in SUBSET S : IsFiniteSet(T) /\ Cardinality(T) \in Nat
    BY FS_Subset, FS_CardinalityType
  <1>3. PICK T \in Bad : \A V \in Bad : Cardinality(T) <= Cardinality(V)
    <2>1. \A V \in Bad : IsFiniteSet(V)
      BY <1>2
    <2> HIDE DEF Bad
    <2> QED BY <1>1, <2>1, SmallestSet
  <1>4. T \in SUBSET S /\ Total(w, T) \notin Nat
    BY <1>3
  <1>5. T # {}
    BY <1>4, TotalOfNone
  <1>6. /\ Pick(T) \in T /\ After(T) \in SUBSET S
        /\ Cardinality(T) \in Nat /\ Cardinality(After(T)) = Cardinality(T) - 1
    BY <1>2, <1>4, <1>5, PickFacts
  <1>7. After(T) \notin Bad
    BY <1>3, <1>6
  <1>8. Total(w, After(T)) \in Nat /\ w[Pick(T)] \in Nat
    BY <1>4, <1>6, <1>7
  <1>9. Total(w, T) = w[Pick(T)] + Total(w, After(T))
    BY <1>2, <1>4, <1>5, TotalByPick
  <1> QED BY <1>4, <1>8, <1>9

\* The total by any element: two elements can be taken in either order.
LEMMA TotalByElement ==
    ASSUME NEW D, NEW w \in [D -> Nat], NEW S \in SUBSET D, IsFiniteSet(S), NEW x \in S
    PROVE  Total(w, S) = w[x] + Total(w, S \ {x})
  <1> DEFINE Bad == {T \in SUBSET S : \E y \in T : Total(w, T) # w[y] + Total(w, T \ {y})}
  <1>1. SUFFICES ASSUME Bad # {} PROVE FALSE
    OBVIOUS
  <1>2. \A T \in SUBSET S : IsFiniteSet(T) /\ Cardinality(T) \in Nat /\ Total(w, T) \in Nat
    BY FS_Subset, FS_CardinalityType, TotalIsNat
  <1>3. PICK T \in Bad : \A V \in Bad : Cardinality(T) <= Cardinality(V)
    <2>1. \A V \in Bad : IsFiniteSet(V)
      BY <1>2
    <2> HIDE DEF Bad
    <2> QED BY <1>1, <2>1, SmallestSet
  <1>4. PICK y \in T : Total(w, T) # w[y] + Total(w, T \ {y})
    BY <1>3
  <1>5. T \in SUBSET S /\ T # {} /\ IsFiniteSet(T)
    BY <1>2, <1>3
  <1> DEFINE p == Pick(T)
  <1>6. p \in T /\ Total(w, T) = w[p] + Total(w, T \ {p})
    BY <1>5, PickFacts, TotalByPick DEF After
  <1>7. p # y
    BY <1>4, <1>6
  <1>8. ASSUME NEW z \in T PROVE T \ {z} \in SUBSET S /\ T \ {z} \notin Bad
    <2>1. Cardinality(T \ {z}) = Cardinality(T) - 1
      BY <1>5, FS_RemoveElement
    <2>2. ~(Cardinality(T) <= Cardinality(T \ {z}))
      BY <2>1, <1>2, <1>5
    <2> QED BY <1>3, <1>5, <2>2
  <1> DEFINE rest == (T \ {p}) \ {y}
  <1>9. Total(w, T \ {p}) = w[y] + Total(w, rest)
    BY <1>6, <1>7, <1>8
  <1>10. Total(w, T \ {y}) = w[p] + Total(w, rest)
    <2>1. rest = (T \ {y}) \ {p}
      OBVIOUS
    <2> QED BY <2>1, <1>4, <1>6, <1>7, <1>8
  <1>11. w[p] \in Nat /\ w[y] \in Nat /\ Total(w, rest) \in Nat
    BY <1>2, <1>5, <1>6
  <1> HIDE DEF p, rest
  <1> QED BY <1>4, <1>6, <1>9, <1>10, <1>11

\* The sum over one element.
LEMMA TotalOfOne ==
    ASSUME NEW x, NEW w, w[x] \in Nat PROVE Total(w, {x}) = w[x]
  <1>1. IsFiniteSet({x}) /\ {x} # {}
    BY FS_Singleton
  <1>2. Pick({x}) = x /\ After({x}) = {}
    BY DEF Pick, After
  <1>3. Total(w, {x}) = w[Pick({x})] + Total(w, After({x}))
    BY <1>1, TotalByPick
  <1>4. Total(w, {x}) = w[x] + 0
    BY <1>2, <1>3, TotalOfNone
  <1> QED BY <1>4

\* A part weighs no more than the whole.
LEMMA TotalOfPart ==
    ASSUME NEW D, NEW w \in [D -> Nat], NEW S \in SUBSET D, IsFiniteSet(S), NEW P \in SUBSET S
    PROVE  Total(w, P) <= Total(w, S)
  <1> DEFINE Bad == {T \in SUBSET S : P \subseteq T /\ ~(Total(w, P) <= Total(w, T))}
  <1>1. SUFFICES ASSUME Bad # {} PROVE FALSE
    OBVIOUS
  <1>2. \A T \in SUBSET S : IsFiniteSet(T) /\ Cardinality(T) \in Nat /\ Total(w, T) \in Nat
    BY FS_Subset, FS_CardinalityType, TotalIsNat
  <1>3. PICK T \in Bad : \A V \in Bad : Cardinality(T) <= Cardinality(V)
    <2>1. \A V \in Bad : IsFiniteSet(V)
      BY <1>2
    <2> HIDE DEF Bad
    <2> QED BY <1>1, <2>1, SmallestSet
  <1>4. T \in SUBSET S /\ P \subseteq T /\ ~(Total(w, P) <= Total(w, T)) /\ IsFiniteSet(T)
    BY <1>2, <1>3
  <1>5. PICK x \in T : x \notin P
    BY <1>2, <1>4
  <1>6. Total(w, T) = w[x] + Total(w, T \ {x}) /\ w[x] \in Nat
    BY <1>4, TotalByElement
  <1>7. Cardinality(T \ {x}) = Cardinality(T) - 1
    BY <1>4, FS_RemoveElement
  <1>8. T \ {x} \in SUBSET S /\ P \subseteq T \ {x} /\ ~(Total(w, P) <= Total(w, T \ {x}))
    BY <1>2, <1>4, <1>5, <1>6
  <1> QED BY <1>2, <1>3, <1>4, <1>7, <1>8
=============================================================================
