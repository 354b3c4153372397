------------------------------- MODULE Facts -------------------------------
(***************************************************************************)
(* What the proofs need of numbers and finite sets and the library does    *)
(* not say in a form the provers can use.  Induction is by a least         *)
(* counterexample: the library's induction theorems take the property as   *)
(* an operator, which cannot be instantiated here, and WFMin a set.        *)
(***************************************************************************)
EXTENDS Naturals, FiniteSets, FiniteSetsExt, FiniteSetTheorems, WellFoundedInduction, TLAPS

LEMMA Least ==
  ASSUME NEW S \in SUBSET Nat, S # {}
  PROVE  \E n \in S : \A m \in S : n <= m
<1>1. \E x \in S : \A y \in S : <<y, x>> \notin OpToRel(<, Nat)
  BY NatLessThanWellFounded, WFMin, Zenon
<1>2. PICK x \in S : \A y \in S : <<y, x>> \notin OpToRel(<, Nat)
  BY <1>1, Zenon
<1>3. \A y \in S : ~(y < x)
  BY <1>2, Zenon DEF OpToRel
<1> QED
  BY <1>3

LEMMA MinIs ==
  ASSUME NEW S \in SUBSET Nat, S # {}
  PROVE  Min(S) \in S /\ \A m \in S : Min(S) <= m
BY Least DEF Min

LEMMA MaxIs ==
  ASSUME NEW n \in Nat, NEW S \in SUBSET (1..n), S # {}
  PROVE  Max(S) \in S /\ \A m \in S : m <= Max(S)
<1> DEFINE Left == {n - m : m \in S}
<1>1. \A m \in S : m \in Int /\ m <= n /\ n - m \in Nat
  OBVIOUS
<1>2. Left \in SUBSET Nat /\ Left # {}
  BY <1>1
<1>3. PICK k \in Left : \A j \in Left : k <= j
  <2> HIDE DEF Left
  <2> QED
    BY <1>2, Least
<1>4. PICK m \in S : k = n - m
  BY <1>3
<1>5. \A j \in S : j <= m
  <2> TAKE j \in S
  <2>1. n - j \in Left
    OBVIOUS
  <2>2. n - m <= n - j
    BY <1>3, <1>4, <2>1
  <2> QED
    BY <1>1, <2>2
<1>6. \E x \in S : \A y \in S : x >= y
  BY <1>1, <1>5
<1> QED
  BY <1>1, <1>6 DEF Max

\* A sum of noughts and ones is how many ones there are.
LEMMA CountBySum ==
  ASSUME NEW S, IsFiniteSet(S), NEW f, \A x \in S : f[x] \in {0, 1}
  PROVE  MapThenSumSet(LAMBDA x : f[x], S) = Cardinality({x \in S : f[x] = 1})
<1> DEFINE one(t) == CHOOSE x \in t : TRUE
           sums(h) == [t \in SUBSET S |-> IF t = {} THEN 0 ELSE f[one(t)] + h[t \ {one(t)}]]
           ones(t) == {x \in t : f[x] = 1}
           g == [t \in SUBSET S |-> Cardinality(ones(t))]
           h == CHOOSE it : it = sums(it)
<1>1. MapThenSumSet(LAMBDA x : f[x], S) = h[S]
  BY DEF MapThenSumSet, MapThenFoldSet
<1>2. \A t \in SUBSET S : IsFiniteSet(t) /\ IsFiniteSet(ones(t)) /\ Cardinality(t) \in Nat
                          /\ Cardinality(ones(t)) \in Nat
  <2> TAKE t \in SUBSET S
  <2>1. IsFiniteSet(t)
    BY FS_Subset
  <2>2. ones(t) \in SUBSET t
    OBVIOUS
  <2>3. IsFiniteSet(ones(t))
    BY <2>1, <2>2, FS_Subset
  <2> QED
    BY <2>1, <2>3, FS_CardinalityType
<1>3. ASSUME NEW t \in SUBSET S, t # {}
      PROVE  /\ one(t) \in t /\ t \ {one(t)} \in SUBSET S
             /\ Cardinality(t \ {one(t)}) = Cardinality(t) - 1
             /\ Cardinality(ones(t)) = f[one(t)] + Cardinality(ones(t \ {one(t)}))
  <2>1. one(t) \in t
    BY <1>3
  <2>2. Cardinality(t \ {one(t)}) = Cardinality(t) - 1
    BY <1>2, <2>1, FS_RemoveElement
  <2>3. ones(t \ {one(t)}) = ones(t) \ {one(t)}
    OBVIOUS
  <2>4. Cardinality(ones(t) \ {one(t)}) =
          IF one(t) \in ones(t) THEN Cardinality(ones(t)) - 1 ELSE Cardinality(ones(t))
    BY <1>2, FS_RemoveElement
  <2>5. one(t) \in ones(t) <=> f[one(t)] = 1
    BY <2>1
  <2>6. f[one(t)] \in {0, 1} /\ Cardinality(ones(t)) \in Nat
    BY <1>2, <2>1
  <2> HIDE DEF ones, one
  <2>7. Cardinality(ones(t)) = f[one(t)] + Cardinality(ones(t \ {one(t)}))
    BY <2>3, <2>4, <2>5, <2>6
  <2> QED
    BY <2>1, <2>2, <2>7
<1>4. g = sums(g)
  <2>1. ASSUME NEW t \in SUBSET S PROVE g[t] = sums(g)[t]
    <3>1. CASE t = {}
      <4>1. ones(t) = {}
        BY <3>1
      <4>2. Cardinality(ones(t)) = 0
        BY <4>1, FS_EmptySet
      <4> QED
        BY <3>1, <4>2
    <3>2. CASE t # {}
      <4>1. t \ {one(t)} \in SUBSET S /\ Cardinality(ones(t)) = f[one(t)] + Cardinality(ones(t \ {one(t)}))
        BY <1>3, <3>2
      <4> HIDE DEF ones, one
      <4> QED
        BY <3>2, <4>1
    <3> QED
      BY <3>1, <3>2
  <2> HIDE DEF ones, one
  <2> QED
    BY <2>1
<1>5. h = sums(h)
  <2> HIDE DEF g, sums
  <2> QED
    BY <1>4
<1>6. \A t \in SUBSET S : h[t] = Cardinality(ones(t))
  <2> DEFINE Wrong == {t \in SUBSET S : h[t] # Cardinality(ones(t))}
             Sizes == {Cardinality(t) : t \in Wrong}
  <2> SUFFICES ASSUME Wrong # {} PROVE FALSE
    OBVIOUS
  <2>1. Sizes \in SUBSET Nat /\ Sizes # {}
    BY <1>2
  <2>2. PICK n \in Sizes : \A m \in Sizes : n <= m
    BY <2>1, Least
  <2>3. PICK t \in Wrong : Cardinality(t) = n
    OBVIOUS
  <2>4. h[t] = sums(h)[t]
    BY <1>5
  <2>5. CASE t = {}
    <3>1. ones(t) = {}
      BY <2>5
    <3>2. Cardinality(ones(t)) = 0
      BY <3>1, FS_EmptySet
    <3>3. h[t] = 0
      BY <2>4, <2>5
    <3> QED
      BY <2>3, <3>2, <3>3
  <2>6. CASE t # {}
    <3>1. /\ t \ {one(t)} \in SUBSET S
          /\ Cardinality(t \ {one(t)}) = Cardinality(t) - 1
          /\ Cardinality(ones(t)) = f[one(t)] + Cardinality(ones(t \ {one(t)}))
      BY <1>3, <2>3, <2>6
    <3>2. h[t] = f[one(t)] + h[t \ {one(t)}]
      BY <2>3, <2>4, <2>6
    <3>3. Cardinality(t) \in Nat
      BY <1>2, <2>3
    <3>4. t \ {one(t)} \notin Wrong
      <4>1. t \ {one(t)} \in Wrong => Cardinality(t \ {one(t)}) \in Sizes
        OBVIOUS
      <4> HIDE DEF Sizes, Wrong, one, ones, h
      <4>2. Cardinality(t) \in Sizes => Cardinality(t) <= Cardinality(t) - 1 \/ t \ {one(t)} \notin Wrong
        BY <2>2, <2>3, <3>1, <4>1
      <4> QED
        BY <2>2, <2>3, <3>3, <4>2
    <3>5. h[t] # Cardinality(ones(t)) /\ h[t \ {one(t)}] = Cardinality(ones(t \ {one(t)}))
      BY <2>3, <3>1, <3>4
    <3> HIDE DEF h, ones, one
    <3> QED
      BY <3>1, <3>2, <3>5
  <2> QED
    BY <2>5, <2>6
<1> QED
  BY <1>1, <1>6

\* In a finite set that is totally ordered by `before`, how many are before each says
\* where it is: these numbers are distinct, go with the order and leave no gap.
LEMMA RankIs ==
  ASSUME NEW S, IsFiniteSet(S), NEW before,
         \A p \in S : <<p, p>> \notin before,
         \A p, q \in S : p # q => <<p, q>> \in before \/ <<q, p>> \in before,
         \A p, q, r \in S : <<p, q>> \in before /\ <<q, r>> \in before => <<p, r>> \in before,
         NEW rank, rank = [p \in S |-> Cardinality({q \in S : <<q, p>> \in before}) + 1]
  PROVE  /\ rank \in Injection(S, 1..Cardinality(S))
         /\ rank \in Surjection(S, 1..Cardinality(S))
         /\ \A p, q \in S : <<p, q>> \in before <=> rank[p] < rank[q]
<1> DEFINE below(p) == {q \in S : <<q, p>> \in before}
           n == Cardinality(S)
<1>1. n \in Nat
  BY FS_CardinalityType
<1>2. \A p \in S : /\ below(p) \in SUBSET S /\ IsFiniteSet(below(p)) /\ Cardinality(below(p)) \in Nat
                   /\ rank[p] = Cardinality(below(p)) + 1
  <2> TAKE p \in S
  <2>1. below(p) \in SUBSET S
    OBVIOUS
  <2>2. IsFiniteSet(below(p))
    BY <2>1, FS_Subset
  <2> QED
    BY <2>1, <2>2, FS_CardinalityType
<1>3. \A p \in S : rank[p] \in 1..n
  <2> TAKE p \in S
  <2>1. below(p) # S
    OBVIOUS
  <2>2. Cardinality(below(p)) <= n /\ Cardinality(below(p)) # n
    BY <1>2, <2>1, FS_Subset
  <2> HIDE DEF below, n
  <2> QED
    BY <1>1, <1>2, <2>2
<1>4. ASSUME NEW p \in S, NEW q \in S, <<p, q>> \in before PROVE rank[p] < rank[q]
  <2>1. p \in below(q) /\ p \notin below(p)
    BY <1>4
  <2>4. \A x \in below(p) : x \in below(q)
    BY <1>4
  <2>5. below(p) \in SUBSET below(q) /\ p \in below(q) /\ p \notin below(p)
    <3> HIDE DEF below
    <3> QED
      BY <2>1, <2>4
  <2>2. Cardinality(below(p)) <= Cardinality(below(q)) /\ Cardinality(below(p)) # Cardinality(below(q))
    BY <1>2, <2>5, FS_Subset
  <2> HIDE DEF below
  <2> QED
    BY <1>2, <2>2
<1>5. \A p, q \in S : <<p, q>> \in before <=> rank[p] < rank[q]
  <2> TAKE p \in S
  <2> TAKE q \in S
  <2>1. rank[p] \in Nat /\ rank[q] \in Nat
    BY <1>1, <1>3
  <2>2. CASE <<p, q>> \in before
    BY <1>4, <2>2
  <2>3. CASE <<q, p>> \in before
    <3>1. rank[q] < rank[p]
      BY <1>4, <2>3
    <3>2. <<p, q>> \notin before
      BY <2>3
    <3> QED
      BY <2>1, <3>1, <3>2
  <2>4. CASE p = q
    BY <2>1, <2>4
  <2> QED
    BY <2>2, <2>3, <2>4
<1>6. rank \in Injection(S, 1..n)
  <2>1. rank \in [S -> 1..n]
    BY <1>3
  <2>2. \A p, q \in S : rank[p] = rank[q] => p = q
    <3> TAKE p \in S
    <3> TAKE q \in S
    <3>1. rank[p] \in Nat /\ rank[q] \in Nat
      BY <1>1, <1>3
    <3>2. ~(<<p, q>> \in before) /\ ~(<<q, p>> \in before) => p = q
      OBVIOUS
    <3>3. rank[p] = rank[q] => ~(<<p, q>> \in before) /\ ~(<<q, p>> \in before)
      BY <1>5, <3>1
    <3> QED
      BY <3>2, <3>3
  <2> HIDE DEF n
  <2> QED
    BY <2>1, <2>2 DEF Injection, IsInjective
<1>7. IsFiniteSet(1..n) /\ Cardinality(1..n) = n
  BY <1>1, FS_Interval
<1>8. rank \in Surjection(S, 1..n)
  BY <1>6, <1>7, FS_Injection
<1> QED
  BY <1>5, <1>6, <1>8

\* A fold over a finite sequence is what its recursion says: something satisfies it.  The
\* recursion is the library's, over the sets of places, the last place first.
Folds(w, n, base, step) ==
  \A t \in SUBSET (1..n) : w[t] = IF t = {} THEN base ELSE step[<<w[t \ {Max(t)}], Max(t)>>]

LEMMA FoldExists ==
  ASSUME NEW n \in Nat, NEW A, NEW base \in A, NEW step \in [A \X (1..n) -> A]
  PROVE  \E w \in [SUBSET (1..n) -> A] : Folds(w, n, base, step)
<1> DEFINE Upto(w, m) ==
             \A t \in SUBSET (1..n) :
               Cardinality(t) <= m =>
                 w[t] = IF t = {} THEN base ELSE step[<<w[t \ {Max(t)}], Max(t)>>]
           Failing == {m \in Nat : ~\E w \in [SUBSET (1..n) -> A] : Upto(w, m)}
<1>1. IsFiniteSet(1..n) /\ Cardinality(1..n) = n
  BY FS_Interval
<1>2. \A t \in SUBSET (1..n) : IsFiniteSet(t) /\ Cardinality(t) \in Nat /\ Cardinality(t) <= n
  <2> TAKE t \in SUBSET (1..n)
  <2>1. IsFiniteSet(t) /\ Cardinality(t) <= Cardinality(1..n)
    BY <1>1, FS_Subset
  <2> QED
    BY <1>1, <2>1, FS_CardinalityType
<1>3. ASSUME NEW t \in SUBSET (1..n), t # {}
      PROVE  /\ Max(t) \in t /\ Max(t) \in 1..n /\ t \ {Max(t)} \in SUBSET (1..n)
             /\ Cardinality(t \ {Max(t)}) = Cardinality(t) - 1
  <2>1. Max(t) \in t
    BY <1>3, MaxIs
  <2>2. Cardinality(t \ {Max(t)}) = Cardinality(t) - 1
    BY <1>2, <2>1, FS_RemoveElement
  <2> QED
    BY <2>1, <2>2
<1>4. /\ Failing \in SUBSET Nat
      /\ \A m \in Nat : m \notin Failing <=> \E w \in [SUBSET (1..n) -> A] : Upto(w, m)
  OBVIOUS
<1>5. Failing = {}
  <2> HIDE DEF Failing
  <2> SUFFICES ASSUME Failing # {} PROVE FALSE
    OBVIOUS
  <2>1. PICK m \in Failing : \A k \in Failing : m <= k
    BY <1>4, Least
  <2>2. m # 0
    <3> DEFINE w == [t \in SUBSET (1..n) |-> base]
    <3>1. \A t \in SUBSET (1..n) : Cardinality(t) <= 0 => t = {}
      BY <1>2, FS_EmptySet
    <3>2. w \in [SUBSET (1..n) -> A] /\ Upto(w, 0)
      BY <3>1
    <3> HIDE DEF w, Upto
    <3>3. 0 \notin Failing
      BY <1>4, <3>2
    <3> QED
      BY <3>3
  <2>3. m - 1 \in Nat /\ m - 1 \notin Failing
    <3>1. m \in Nat
      BY <1>4, <2>1
    <3>2. m - 1 \in Nat /\ ~(m <= m - 1)
      BY <2>2, <3>1
    <3> QED
      BY <2>1, <3>2
  <2>4. PICK w \in [SUBSET (1..n) -> A] : Upto(w, m - 1)
    BY <1>4, <2>3
  <2> DEFINE next == [t \in SUBSET (1..n) |->
                        IF t = {} THEN base ELSE step[<<w[t \ {Max(t)}], Max(t)>>]]
  <2>5. next \in [SUBSET (1..n) -> A]
    BY <1>3
  <2>6. \A u \in SUBSET (1..n) : Cardinality(u) <= m - 1 => next[u] = w[u]
    BY <2>4
  <2>7. ASSUME NEW t \in SUBSET (1..n), Cardinality(t) <= m
        PROVE  next[t] = IF t = {} THEN base ELSE step[<<next[t \ {Max(t)}], Max(t)>>]
    <3>1. CASE t = {}
      BY <3>1
    <3>2. CASE t # {}
      <4>1. t \ {Max(t)} \in SUBSET (1..n) /\ Cardinality(t \ {Max(t)}) = Cardinality(t) - 1
            /\ Cardinality(t) \in Nat
        BY <1>2, <1>3, <3>2
      <4>2. Cardinality(t \ {Max(t)}) <= m - 1
        BY <1>4, <2>1, <2>7, <4>1
      <4>3. next[t \ {Max(t)}] = w[t \ {Max(t)}]
        BY <2>6, <4>1, <4>2
      <4>4. next[t] = step[<<w[t \ {Max(t)}], Max(t)>>]
        BY <3>2
      <4> HIDE DEF next
      <4> QED
        BY <3>2, <4>3, <4>4
    <3> QED
      BY <3>1, <3>2
  <2> HIDE DEF next
  <2>8. Upto(next, m)
    BY <2>7
  <2> HIDE DEF Upto
  <2> QED
    BY <1>4, <2>1, <2>5, <2>8
<1>6. PICK w \in [SUBSET (1..n) -> A] : Upto(w, n)
  <2> HIDE DEF Failing, Upto
  <2> QED
    BY <1>4, <1>5
<1> QED
  BY <1>2, <1>6 DEF Folds
=============================================================================
