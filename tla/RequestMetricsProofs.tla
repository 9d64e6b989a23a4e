------------------------ MODULE RequestMetricsProofs ------------------------
(***************************************************************************)
(* Proofs about RequestMetrics, for any requests, rows, workers, batches   *)
(* and faults.                                                             *)
(***************************************************************************)
EXTENDS RequestMetrics, FiniteSetTheorems, SequenceTheorems, WellFoundedInduction, TLAPS

-----------------------------------------------------------------------------
(* Sums over finite sets.                                                   *)

LEMMA LeastNumber ==
    ASSUME NEW T \in SUBSET Nat, T # {}
    PROVE  \E n \in T : \A m \in T : n <= m
<1>. DEFINE Less == OpToRel(<, Nat)
<1>1. IsWellFoundedOn(Less, Nat)
    BY NatLessThanWellFounded
<1>2. \A m, n \in Nat : m < n => <<m, n>> \in Less
  <2>1. Less = {ss \in Nat \X Nat : ss[1] < ss[2]}
      BY DEF OpToRel
  <2>. QED
      BY <2>1
<1>. HIDE DEF Less
<1>3. \E n \in T : \A m \in T : ~(<<m, n>> \in Less)
    BY <1>1, WFMin
<1>4. \A m, n \in T : ~(m < n) => n <= m
    OBVIOUS
<1>. QED
    BY <1>2, <1>3, <1>4

\* Induction over the subsets of a finite set, for the set Q of good ones.
LEMMA SubsetInduction ==
    ASSUME NEW S, IsFiniteSet(S), NEW Q,
           \A T \in SUBSET S : (\A U \in SUBSET T : U # T => U \in Q) => T \in Q
    PROVE  \A T \in SUBSET S : T \in Q
<1>. DEFINE Bad == {Cardinality(T) : T \in {U \in SUBSET S : U \notin Q}}
<1>1. \A T \in SUBSET S : IsFiniteSet(T) /\ Cardinality(T) \in Nat
    BY FS_Subset, FS_CardinalityType
<1>2. Bad \in SUBSET Nat
    BY <1>1
<1>3. ASSUME NEW V \in SUBSET S, V \notin Q PROVE FALSE
  <2>1. Bad # {}
      BY <1>3
  <2>2. PICK n \in Bad : \A m \in Bad : n <= m
      BY <1>2, <2>1, LeastNumber
  <2>3. PICK T \in SUBSET S : T \notin Q /\ n = Cardinality(T)
      BY <2>2
  <2>4. ASSUME NEW U \in SUBSET T, U # T PROVE U \in Q
    <3>1. Cardinality(U) < Cardinality(T)
      <4>1. IsFiniteSet(T) /\ Cardinality(T) \in Nat /\ Cardinality(U) \in Nat
          BY <1>1
      <4>2. Cardinality(U) <= Cardinality(T) /\ Cardinality(U) # Cardinality(T)
          BY <2>4, <4>1, FS_Subset
      <4>. QED
          BY <4>1, <4>2
    <3>2. U \in SUBSET S
        OBVIOUS
    <3>3. U \notin Q => Cardinality(T) <= Cardinality(U)
        BY <2>2, <2>3, <3>2
    <3>. QED
        BY <1>1, <3>1, <3>2, <3>3
  <2>. QED
      BY <2>3, <2>4
<1>. QED
    BY <1>3

\* The order in which SumFunctionOnSet takes the elements of a set.
Pick(s) == CHOOSE x \in s : TRUE

Sum(g, S) == SumFunctionOnSet(g, S)

\* h[s] is the sum of g over s, element by element, for the subsets s of S.
IsSum(h, g, S) ==
    h = [s \in SUBSET S |-> IF s = {} THEN 0 ELSE g[Pick(s)] + h[s \ {Pick(s)}]]

\* Such a function exists: the recursion of SumFunctionOnSet is well founded.
LEMMA SumExists ==
    ASSUME NEW S, IsFiniteSet(S), NEW g, \A x \in S : g[x] \in Nat
    PROVE  \E h \in [SUBSET S -> Nat] : IsSum(h, g, S)
<1>. DEFINE Small(n) == {s \in SUBSET S : Cardinality(s) <= n}
            Good(n) == \E h \in [Small(n) -> Nat] : \A s \in Small(n) :
                          h[s] = IF s = {} THEN 0 ELSE g[Pick(s)] + h[s \ {Pick(s)}]
<1>1. \A s \in SUBSET S : IsFiniteSet(s) /\ Cardinality(s) \in Nat
    BY FS_Subset, FS_CardinalityType
<1>2. ASSUME NEW s \in SUBSET S, s # {}
      PROVE  /\ Pick(s) \in s /\ s \ {Pick(s)} \in SUBSET S
             /\ Cardinality(s \ {Pick(s)}) = Cardinality(s) - 1
  <2>1. Pick(s) \in s
      BY <1>2 DEF Pick
  <2>. QED
      BY <1>1, <2>1, FS_RemoveElement
<1>3. Good(0)
  <2>1. \A s \in Small(0) : s = {}
      BY <1>1, FS_EmptySet
  <2>2. [s \in Small(0) |-> 0] \in [Small(0) -> Nat]
      OBVIOUS
  <2>. QED
      BY <2>1, <2>2
<1>4. ASSUME NEW n \in Nat, Good(n) PROVE Good(n + 1)
  <2>1. PICK h \in [Small(n) -> Nat] : \A s \in Small(n) :
                 h[s] = IF s = {} THEN 0 ELSE g[Pick(s)] + h[s \ {Pick(s)}]
      BY <1>4
  <2>. DEFINE k == [s \in Small(n + 1) |->
                       IF s = {} THEN 0 ELSE g[Pick(s)] + h[s \ {Pick(s)}]]
  <2>2. ASSUME NEW s \in Small(n + 1), s # {} PROVE s \ {Pick(s)} \in Small(n)
      BY <1>1, <1>2, <2>2
  <2>3. ASSUME NEW s \in Small(n + 1), s # {} PROVE g[Pick(s)] \in Nat
      BY <1>2, <2>3
  <2>4. k \in [Small(n + 1) -> Nat]
      BY <2>2, <2>3
  <2>5. Small(n) \subseteq Small(n + 1)
      BY <1>1
  <2>6. \A s \in Small(n) : k[s] = h[s]
      BY <2>1, <2>5
  <2>7. \A s \in Small(n + 1) :
            k[s] = IF s = {} THEN 0 ELSE g[Pick(s)] + k[s \ {Pick(s)}]
      BY <2>2, <2>6
  <2>. QED
      BY <2>4, <2>7
<1>5. \A n \in Nat : Good(n)
  <2>. DEFINE Bad == {n \in Nat : ~Good(n)}
  <2>. SUFFICES Bad = {}
      OBVIOUS
  <2>. HIDE DEF Good
  <2>1. ASSUME Bad # {} PROVE FALSE
    <3>1. PICK n \in Bad : \A m \in Bad : n <= m
        BY <2>1, LeastNumber
    <3>2. n # 0
        BY <1>3
    <3>3. n - 1 \in Nat /\ n - 1 \notin Bad
        BY <3>1, <3>2
    <3>4. Good((n - 1) + 1)
        BY <1>4, <3>3
    <3>5. (n - 1) + 1 = n
        OBVIOUS
    <3>. QED
        BY <3>4, <3>5
  <2>. QED
      BY <2>1
<1>6. Small(Cardinality(S)) = SUBSET S
    BY <1>1, FS_Subset
<1>7. Good(Cardinality(S))
    BY <1>1, <1>5
<1>. QED
    BY <1>6, <1>7 DEF IsSum

LEMMA SumIter ==
    ASSUME NEW S, NEW g, \E h : IsSum(h, g, S)
    PROVE  \E h : IsSum(h, g, S) /\ Sum(g, S) = h[S]
<1>. DEFINE i == CHOOSE i : IsSum(i, g, S)
<1>1. IsSum(i, g, S)
    BY Zenon
<1>2. Sum(g, S) = i[S]
    BY DEF Sum, SumFunctionOnSet, FoldFunctionOnSet, MapThenFoldSet, IsSum, Pick
<1>. QED
    BY <1>1, <1>2

\* Sum as a recursion over the subsets of a finite set.
LEMMA SumRecursion ==
    ASSUME NEW S, IsFiniteSet(S), NEW g, \A x \in S : g[x] \in Nat
    PROVE  \A T \in SUBSET S :
              /\ Sum(g, T) \in Nat
              /\ Sum(g, T) = IF T = {} THEN 0 ELSE g[Pick(T)] + Sum(g, T \ {Pick(T)})
<1>1. PICK h \in [SUBSET S -> Nat] : IsSum(h, g, S)
    BY SumExists
<1>2. ASSUME NEW T \in SUBSET S PROVE Sum(g, T) = h[T]
  <2>1. IsFiniteSet(T)
      BY FS_Subset
  <2>2. \E i \in [SUBSET T -> Nat] : IsSum(i, g, T)
      BY <2>1, SumExists
  <2>3. PICK i : IsSum(i, g, T) /\ Sum(g, T) = i[T]
      BY <2>2, SumIter
  <2>. DEFINE Q == {s \in SUBSET T : i[s] = h[s]}
  <2>4. ASSUME NEW s \in SUBSET T, \A u \in SUBSET s : u # s => u \in Q PROVE s \in Q
    <3>1. CASE s = {}
        BY <1>1, <2>3, <3>1 DEF IsSum
    <3>2. CASE s # {}
      <4>1. Pick(s) \in s
          BY <3>2 DEF Pick
      <4>2. s \ {Pick(s)} \in Q
          BY <2>4, <4>1
      <4>3. i[s] = g[Pick(s)] + i[s \ {Pick(s)}]
          BY <2>3, <3>2 DEF IsSum
      <4>4. h[s] = g[Pick(s)] + h[s \ {Pick(s)}]
          BY <1>1, <3>2 DEF IsSum
      <4>. QED
          BY <4>2, <4>3, <4>4
    <3>. QED
        BY <3>1, <3>2
  <2>. HIDE DEF Q
  <2>5. T \in Q
      BY <2>1, <2>4, SubsetInduction
  <2>. QED
      BY <2>3, <2>5 DEF Q
<1>3. \A T \in SUBSET S : h[T] = IF T = {} THEN 0 ELSE g[Pick(T)] + h[T \ {Pick(T)}]
    BY <1>1 DEF IsSum
<1>4. \A T \in SUBSET S : T \ {Pick(T)} \in SUBSET S
    OBVIOUS
<1>. QED
    BY <1>2, <1>3, <1>4

\* The elements may be taken in any order.
LEMMA SumElement ==
    ASSUME NEW S, IsFiniteSet(S), NEW g, \A x \in S : g[x] \in Nat, NEW e \in S
    PROVE  Sum(g, S) = g[e] + Sum(g, S \ {e})
<1>. DEFINE Q == {T \in SUBSET S : \A x \in T : Sum(g, T) = g[x] + Sum(g, T \ {x})}
<1>1. \A T \in SUBSET S :
          /\ Sum(g, T) \in Nat
          /\ T # {} => Sum(g, T) = g[Pick(T)] + Sum(g, T \ {Pick(T)})
    BY SumRecursion
<1>2. ASSUME NEW T \in SUBSET S, \A U \in SUBSET T : U # T => U \in Q,
             NEW x \in T
      PROVE  Sum(g, T) = g[x] + Sum(g, T \ {x})
  <2>. DEFINE c == Pick(T)
  <2>1. c \in T
      BY DEF Pick
  <2>2. Sum(g, T) = g[c] + Sum(g, T \ {c})
      BY <1>1
  <2>. HIDE DEF c
  <2>3. CASE x = c
      BY <2>2, <2>3
  <2>4. CASE x # c
    <3>1. T \ {c} \in Q /\ T \ {x} \in Q
        BY <1>2, <2>1
    <3>2. Sum(g, T \ {c}) = g[x] + Sum(g, (T \ {c}) \ {x})
        BY <2>4, <3>1
    <3>3. Sum(g, T \ {x}) = g[c] + Sum(g, (T \ {x}) \ {c})
        BY <2>1, <2>4, <3>1
    <3>4. (T \ {x}) \ {c} = (T \ {c}) \ {x} /\ (T \ {c}) \ {x} \in SUBSET S
        OBVIOUS
    <3>5. g[x] \in Nat /\ g[c] \in Nat /\ Sum(g, (T \ {c}) \ {x}) \in Nat
        BY <1>1, <2>1, <3>4
    <3>. QED
        BY <2>2, <3>2, <3>3, <3>4, <3>5
  <2>. QED
      BY <2>3, <2>4
<1>3. \A T \in SUBSET S : (\A U \in SUBSET T : U # T => U \in Q) => T \in Q
    BY <1>2
<1>. HIDE DEF Q
<1>4. S \in Q
    BY <1>3, SubsetInduction
<1>. QED
    BY <1>4 DEF Q

\* Where g is f and one more on B, their sums differ by the size of B.
LEMMA SumCount ==
    ASSUME NEW S, IsFiniteSet(S), NEW f, \A x \in S : f[x] \in Nat, NEW B \in SUBSET S,
           NEW g, \A x \in S : g[x] = IF x \in B THEN f[x] + 1 ELSE f[x]
    PROVE  Sum(g, S) = Sum(f, S) + Cardinality(B)
<1>. DEFINE Q == {T \in SUBSET S : Sum(g, T) = Sum(f, T) + Cardinality(B \cap T)}
<1>1. \A x \in S : g[x] \in Nat
    OBVIOUS
<1>2. \A T \in SUBSET S : /\ IsFiniteSet(T) /\ Sum(f, T) \in Nat /\ Sum(g, T) \in Nat
                          /\ IsFiniteSet(B \cap T) /\ Cardinality(B \cap T) \in Nat
  <2>1. \A T \in SUBSET S : B \cap T \in SUBSET S
      OBVIOUS
  <2>. QED
      BY <1>1, <2>1, SumRecursion, FS_Subset, FS_CardinalityType
<1>3. ASSUME NEW T \in SUBSET S, \A U \in SUBSET T : U # T => U \in Q
      PROVE  T \in Q
  <2>1. CASE T = {}
    <3>1. Sum(f, {}) = 0 /\ Sum(g, {}) = 0 /\ B \cap {} = {} /\ Cardinality({}) = 0
        BY <1>1, SumRecursion, FS_EmptySet
    <3>. QED
        BY <2>1, <3>1
  <2>2. CASE T # {}
    <3>1. PICK x \in T : TRUE
        BY <2>2
    <3>2. Sum(g, T \ {x}) = Sum(f, T \ {x}) + Cardinality(B \cap (T \ {x}))
        BY <1>3, <3>1
    <3>3. Sum(f, T) = f[x] + Sum(f, T \ {x}) /\ Sum(g, T) = g[x] + Sum(g, T \ {x})
        BY <1>1, <1>2, SumElement
    <3>4. Cardinality(B \cap T) = (IF x \in B THEN 1 ELSE 0) + Cardinality(B \cap (T \ {x}))
      <4>1. CASE x \in B
        <5>1. B \cap (T \ {x}) = (B \cap T) \ {x} /\ x \in B \cap T
            BY <4>1
        <5>2. Cardinality((B \cap T) \ {x}) = Cardinality(B \cap T) - 1
            BY <1>2, <5>1, FS_RemoveElement
        <5>3. Cardinality(B \cap T) \in Nat
            BY <1>2
        <5>4. Cardinality(B \cap T) = 1 + Cardinality(B \cap (T \ {x}))
            BY <5>1, <5>2, <5>3
        <5>. QED
            BY <4>1, <5>4
      <4>2. CASE x \notin B
        <5>1. B \cap (T \ {x}) = B \cap T
            BY <4>2
        <5>. QED
            BY <1>2, <4>2, <5>1
      <4>. QED
          BY <4>1, <4>2
    <3>5. /\ f[x] \in Nat /\ g[x] = IF x \in B THEN f[x] + 1 ELSE f[x]
          /\ Cardinality(B \cap (T \ {x})) \in Nat /\ Sum(f, T \ {x}) \in Nat
          /\ Sum(g, T \ {x}) \in Nat
        BY <1>2
    <3>6. Sum(g, T) = Sum(f, T) + Cardinality(B \cap T)
        BY <3>2, <3>3, <3>4, <3>5
    <3>. QED
        BY <3>6
  <2>. QED
      BY <2>1, <2>2
<1>. HIDE DEF Q
<1>4. S \in Q
    BY <1>3, SubsetInduction
<1>5. B \cap S = B
    OBVIOUS
<1>. QED
    BY <1>4, <1>5 DEF Q

\* Equal functions have equal sums.
LEMMA SumEqual ==
    ASSUME NEW S, IsFiniteSet(S), NEW f, \A x \in S : f[x] \in Nat,
           NEW g, \A x \in S : g[x] = f[x]
    PROVE  Sum(g, S) = Sum(f, S)
<1>1. Sum(g, S) = Sum(f, S) + Cardinality({})
    BY SumCount
<1>2. Sum(f, S) \in Nat
    BY SumRecursion
<1>. QED
    BY <1>1, <1>2, FS_EmptySet

\* Elements that count for nothing may be left out.
LEMMA SumExtend ==
    ASSUME NEW S, IsFiniteSet(S), NEW f, \A x \in S : f[x] \in Nat, NEW R \in SUBSET S,
           \A x \in S \ R : f[x] = 0
    PROVE  Sum(f, S) = Sum(f, R)
<1>. DEFINE Q == {T \in SUBSET S : Sum(f, T) = Sum(f, T \cap R)}
<1>2. \A T \in SUBSET S : IsFiniteSet(T) /\ Sum(f, T) \in Nat
    BY SumRecursion, FS_Subset
<1>3. ASSUME NEW T \in SUBSET S, \A U \in SUBSET T : U # T => U \in Q
      PROVE  T \in Q
  <2>1. CASE T \subseteq R
    <3>1. T \cap R = T
        BY <2>1
    <3>. QED
        BY <3>1
  <2>2. CASE ~(T \subseteq R)
    <3>1. PICK x \in T : x \notin R
        BY <2>2
    <3>2. Sum(f, T \ {x}) = Sum(f, (T \ {x}) \cap R)
        BY <1>3, <3>1
    <3>3. (T \ {x}) \cap R = T \cap R
        BY <3>1
    <3>4. Sum(f, T) = f[x] + Sum(f, T \ {x})
        BY <1>2, SumElement
    <3>5. f[x] = 0 /\ Sum(f, T \ {x}) \in Nat
        BY <1>2, <3>1
    <3>6. Sum(f, T) = Sum(f, T \ {x})
        BY <3>4, <3>5
    <3>7. Sum(f, T) = Sum(f, T \cap R)
        BY <3>2, <3>3, <3>6
    <3>. QED
        BY <3>7
  <2>. QED
      BY <2>1, <2>2
<1>. HIDE DEF Q
<1>4. S \in Q
    BY <1>3, SubsetInduction
<1>5. S \cap R = R
    OBVIOUS
<1>. QED
    BY <1>4, <1>5 DEF Q

\* A sum of ones counts.
LEMMA SumOnes ==
    ASSUME NEW S, IsFiniteSet(S), NEW g, \A x \in S : g[x] = 1
    PROVE  Sum(g, S) = Cardinality(S)
<1>. DEFINE z == [x \in S |-> 0]
<1>1. \A x \in S : z[x] \in Nat /\ z[x] = 0 /\ g[x] = IF x \in S THEN z[x] + 1 ELSE z[x]
    OBVIOUS
<1>. HIDE DEF z
<1>2. Sum(g, S) = Sum(z, S) + Cardinality(S)
    BY <1>1, SumCount
<1>3. Sum(z, S) = Sum(z, {})
    BY <1>1, SumExtend
<1>5. Sum(z, {}) = 0
    BY <1>1, SumRecursion
<1>4. Cardinality(S) \in Nat
    BY FS_CardinalityType
<1>. QED
    BY <1>2, <1>3, <1>4, <1>5

LEMMA DisjointUnion ==
    ASSUME NEW S, IsFiniteSet(S), NEW T, IsFiniteSet(T), S \cap T = {}
    PROVE  Cardinality(S \cup T) = Cardinality(S) + Cardinality(T)
<1>1. Cardinality(S \cup T) = Cardinality(S) + Cardinality(T) - Cardinality(S \cap T)
    BY FS_Union
<1>2. Cardinality(S) \in Nat /\ Cardinality(T) \in Nat /\ Cardinality(S \cap T) = 0
    BY FS_CardinalityType, FS_EmptySet
<1>. QED
    BY <1>1, <1>2

\* g[k] is the size of the part of D that h maps to k.
PartSizes(g, K, D, h) ==
    /\ \A i \in D : h[i] \in K
    /\ \A k \in K : g[k] = Cardinality({i \in D : h[i] = k})

\* A set is as large as its parts together.
LEMMA SumParts ==
    ASSUME NEW K, IsFiniteSet(K), NEW D, IsFiniteSet(D), NEW h, NEW g, PartSizes(g, K, D, h)
    PROVE  Sum(g, K) = Cardinality(D)
<1>. DEFINE Part(T) == {i \in D : h[i] \in T}
            Q == {T \in SUBSET K : Sum(g, T) = Cardinality(Part(T))}
<1>1. \A T : IsFiniteSet(Part(T)) /\ Cardinality(Part(T)) \in Nat
  <2>1. \A T : Part(T) \in SUBSET D
      OBVIOUS
  <2>. QED
      BY <2>1, FS_Subset, FS_CardinalityType
<1>2. \A k \in K : g[k] \in Nat /\ g[k] = Cardinality(Part({k}))
  <2>1. \A k : Part({k}) = {i \in D : h[i] = k}
      OBVIOUS
  <2>2. \A k \in K : g[k] = Cardinality(Part({k}))
      BY <2>1 DEF PartSizes
  <2>. QED
      BY <1>1, <2>2
<1>3. \A T \in SUBSET K : IsFiniteSet(T) /\ Sum(g, T) \in Nat
    BY <1>2, SumRecursion, FS_Subset
<1>4. ASSUME NEW T \in SUBSET K, \A U \in SUBSET T : U # T => U \in Q
      PROVE  T \in Q
  <2>1. CASE T = {}
    <3>1. Sum(g, {}) = 0 /\ Part({}) = {} /\ Cardinality({}) = 0
        BY <1>2, SumRecursion, FS_EmptySet
    <3>. QED
        BY <2>1, <3>1
  <2>2. CASE T # {}
    <3>1. PICK k \in T : TRUE
        BY <2>2
    <3>2. Sum(g, T \ {k}) = Cardinality(Part(T \ {k}))
        BY <1>4, <3>1
    <3>3. Sum(g, T) = g[k] + Sum(g, T \ {k})
        BY <1>2, <1>3, SumElement
    <3>4. Part(T) = Part({k}) \cup Part(T \ {k}) /\ Part({k}) \cap Part(T \ {k}) = {}
        BY <3>1
    <3>. HIDE DEF Part
    <3>5. /\ IsFiniteSet(Part({k})) /\ Cardinality(Part({k})) \in Nat
          /\ IsFiniteSet(Part(T \ {k})) /\ Cardinality(Part(T \ {k})) \in Nat
        BY <1>1
    <3>7. Cardinality(Part(T)) = Cardinality(Part({k})) + Cardinality(Part(T \ {k}))
        BY <3>4, <3>5, DisjointUnion
    <3>8. g[k] = Cardinality(Part({k}))
        BY <1>2
    <3>6. Sum(g, T) = Cardinality(Part(T))
        BY <3>2, <3>3, <3>7, <3>8
    <3>. QED
        BY <3>6
  <2>. QED
      BY <2>1, <2>2
<1>. HIDE DEF Q
<1>5. K \in Q
    BY <1>4, SubsetInduction
<1>6. Part(K) = D
    BY DEF PartSizes
<1>. QED
    BY <1>5, <1>6 DEF Q

-----------------------------------------------------------------------------
(* The invariants.                                                          *)

EventRecords == [status : {0} \cup StatusCodes, latency : Nat, limited : BOOLEAN]

GatewayTypes ==
    /\ up \in BOOLEAN
    /\ pc \in [Requests -> {"new", "dropped", "forwarded", "done"}]
    /\ event \in [Requests -> EventRecords]
    /\ task \in [Requests -> {"none", "running", "returned", "failed", "cancelled"}]
    /\ wire \subseteq Requests /\ stream \in Seq(Requests)
    /\ requestsTotal \in [StatusClasses -> Nat] /\ rateLimitHits \in Nat /\ emitFailures \in Nat
    /\ faults \in Nat

\* An event is made when its request is done with, and is in the stream, may still
\* get there, or is accounted for by how its task ended.
Accounted(r) ==
    /\ pc[r] = "done" <=> task[r] # "none"
    /\ task[r] # "none" => event[r].status \in StatusCodes
    /\ task[r] = "running" => r \in wire
    /\ task[r] = "returned" => Contains(stream, r)
    /\ r \in wire \/ Contains(stream, r) => task[r] # "none"
    /\ r \in wire => ~Contains(stream, r)
    /\ up => task[r] # "cancelled"

EventInv == (\A r \in Requests : Accounted(r)) /\ IsInjective(stream)

Failed == {r \in Requests : task[r] = "failed"}
OfClass(c) == {r \in Requests : task[r] # "none" /\ event[r].status \div 100 = c}
Blocked == {r \in Requests : task[r] # "none" /\ event[r].limited}

\* What the counters count.
CounterInv ==
    /\ emitFailures = Cardinality(Failed)
    /\ \A c \in StatusClasses : requestsTotal[c] = Cardinality(OfClass(c))
    /\ rateLimitHits = Cardinality(Blocked)

\* The batches are parts of what was delivered, of one worker each.
BatchInv ==
    /\ delivered \in 0..Len(stream)
    /\ counted \in [1..delivered -> Nat]
    /\ batch \in [Workers -> Seq(1..delivered)]
    /\ step \in [Workers -> {"read", "write", "ack"}]
    /\ upserted \in [Workers -> Nat]
    /\ \A w \in Workers : IsInjective(batch[w]) /\ (step[w] = "read" => batch[w] = <<>>)
    /\ \A v, w \in Workers : v # w => \A i \in 1..delivered :
          ~(Contains(batch[v], i) /\ Contains(batch[w], i))

Columns == {"total", "blocked", "s2xx", "s4xx", "s5xx"}
InColumn(c, e) ==
    \/ c = "total"
    \/ c = "blocked" /\ e.limited
    \/ c = "s2xx" /\ e.status \in 200..299
    \/ c = "s4xx" /\ e.status \in 400..499
    \/ c = "s5xx" /\ e.status >= 500

\* The entries that a column of a row is about.
Mine(k, c) == {i \in 1..delivered : KeyOf[stream[i]] = k /\ InColumn(c, event[stream[i]])}

TableInv ==
    /\ DOMAIN table = Keys
    /\ \A k \in Keys, c \in Columns : table[k][c] = Sum(counted, Mine(k, c))

\* Without faults an entry is counted once, when its batch is committed.
OnceInv ==
    faults = 0 =>
        \A i \in 1..delivered :
            counted[i] = IF \E w \in Workers : step[w] = "write" /\ Contains(batch[w], i)
                           THEN 0 ELSE 1

-----------------------------------------------------------------------------
(* The gateway: what becomes of an event, and what the counters say of it.  *)

\* One element more at the end of a sequence.
LEMMA AppendFacts ==
    ASSUME NEW S, NEW q \in Seq(S), NEW x \in S
    PROVE  /\ Append(q, x) \in Seq(S) /\ Len(Append(q, x)) = Len(q) + 1
           /\ \A y : Contains(Append(q, x), y) <=> Contains(q, y) \/ y = x
           /\ \A i \in 1..Len(q) : Append(q, x)[i] = q[i]
           /\ IsInjective(q) /\ ~Contains(q, x) => IsInjective(Append(q, x))
<1>. DEFINE a == Append(q, x)
<1>1. /\ a \in Seq(S) /\ Len(a) = Len(q) + 1 /\ Len(q) \in Nat
      /\ DOMAIN a = 1..(Len(q) + 1) /\ DOMAIN q = 1..Len(q)
      /\ \A i \in 1..Len(q) : a[i] = q[i]
      /\ a[Len(q) + 1] = x
    OBVIOUS
<1>. HIDE DEF a
<1>2. \A i \in 1..(Len(q) + 1) : i \in 1..Len(q) \/ i = Len(q) + 1
    BY <1>1
<1>6. \A i \in 1..Len(q) : i \in 1..(Len(q) + 1)
    BY <1>1
<1>7. Len(q) + 1 \in 1..(Len(q) + 1)
    BY <1>1
<1>3. \A y : Contains(a, y) <=> Contains(q, y) \/ y = x
    BY <1>1, <1>2, <1>6, <1>7, Zenon DEF Contains
<1>4. IsInjective(q) /\ ~Contains(q, x) => IsInjective(a)
    BY <1>1, <1>2, Zenon DEF IsInjective, Contains
<1>. QED
    BY <1>1, <1>3, <1>4 DEF a

\* A counter of several, incremented.
LEMMA Incremented ==
    ASSUME NEW S, NEW f \in [S -> Nat], NEW x \in S, NEW g, g = [f EXCEPT ![x] = f[x] + 1]
    PROVE  /\ g \in [S -> Nat]
           /\ \A y \in S : g[y] = IF y = x THEN f[y] + 1 ELSE f[y]
OBVIOUS

GatewayInv == GatewayTypes /\ EventInv /\ CounterInv

LEMMA GatewayStart == Init => GatewayInv
<1>. SUFFICES ASSUME Init PROVE GatewayInv
    OBVIOUS
<1>1. /\ up = TRUE /\ wire = {} /\ stream = <<>> /\ faults = 0
      /\ pc = [r \in Requests |-> "new"] /\ task = [r \in Requests |-> "none"]
      /\ event = [r \in Requests |-> NoEvent]
      /\ requestsTotal = [class \in StatusClasses |-> 0] /\ rateLimitHits = 0 /\ emitFailures = 0
    BY DEF Init, GatewayInit
<1>2. GatewayTypes
  <2>1. NoEvent \in EventRecords
      BY DEF NoEvent, EventRecords
  <2>2. event \in [Requests -> EventRecords]
      BY <1>1, <2>1
  <2>3. requestsTotal \in [StatusClasses -> Nat]
      BY <1>1
  <2>4. /\ pc \in [Requests -> {"new", "dropped", "forwarded", "done"}]
        /\ task \in [Requests -> {"none", "running", "returned", "failed", "cancelled"}]
      BY <1>1
  <2>. QED
      BY <1>1, <2>2, <2>3, <2>4 DEF GatewayTypes
<1>3. EventInv
    BY <1>1 DEF EventInv, Accounted, Contains, IsInjective
<1>4. CounterInv
  <2>1. Failed = {} /\ Blocked = {} /\ \A c \in StatusClasses : OfClass(c) = {}
      BY <1>1 DEF Failed, Blocked, OfClass
  <2>2. Cardinality({}) = 0 /\ \A c \in StatusClasses : requestsTotal[c] = 0
      BY <1>1, FS_EmptySet
  <2>. QED
      BY <1>1, <2>1, <2>2 DEF CounterInv
<1>. QED
    BY <1>2, <1>3, <1>4 DEF GatewayInv

\* The sets that the counters count.
LEMMA CountersFinite ==
    /\ IsFiniteSet(Failed) /\ IsFiniteSet(Blocked) /\ IsFiniteSet(Made)
    /\ \A c : IsFiniteSet(OfClass(c))
<1>1. /\ Failed \in SUBSET Requests /\ Blocked \in SUBSET Requests /\ Made \in SUBSET Requests
      /\ \A c : OfClass(c) \in SUBSET Requests
    BY DEF Failed, Blocked, Made, OfClass
<1>. QED
    BY <1>1, GatewayAssumption, FS_Subset

\* A step that makes no event and ends no task.
LEMMA GatewayFrame ==
    ASSUME GatewayInv, UNCHANGED <<up, event, task, wire, stream, counters>>, faults' \in Nat,
           \/ UNCHANGED pc
           \/ \E r \in Requests, there \in {"dropped", "forwarded"} :
                 pc[r] \in {"new", "forwarded"} /\ pc' = [pc EXCEPT ![r] = there]
    PROVE  GatewayInv'
<1>1. GatewayTypes'
  <2>1. pc' \in [Requests -> {"new", "dropped", "forwarded", "done"}]
    <3>1. pc \in [Requests -> {"new", "dropped", "forwarded", "done"}]
        BY DEF GatewayInv, GatewayTypes
    <3>. QED
        BY <3>1
  <2>2. /\ up' = up /\ event' = event /\ task' = task /\ wire' = wire /\ stream' = stream
        /\ requestsTotal' = requestsTotal /\ rateLimitHits' = rateLimitHits
        /\ emitFailures' = emitFailures
      BY DEF counters
  <2>3. GatewayTypes
      BY DEF GatewayInv
  <2>4. /\ up' \in BOOLEAN
        /\ event' \in [Requests -> EventRecords]
        /\ task' \in [Requests -> {"none", "running", "returned", "failed", "cancelled"}]
        /\ wire' \subseteq Requests /\ stream' \in Seq(Requests)
      BY <2>2, <2>3 DEF GatewayTypes
  <2>5. requestsTotal' \in [StatusClasses -> Nat] /\ rateLimitHits' \in Nat /\ emitFailures' \in Nat
      BY <2>2, <2>3 DEF GatewayTypes
  <2>. QED
      BY <2>1, <2>4, <2>5, Zenon DEF GatewayTypes
<1>2. \A r \in Requests : pc'[r] = "done" <=> pc[r] = "done"
  <2>1. pc \in [Requests -> {"new", "dropped", "forwarded", "done"}]
      BY DEF GatewayInv, GatewayTypes
  <2>. QED
      BY <2>1
<1>3. EventInv'
  <2>1. EventInv /\ UNCHANGED <<up, event, task, wire, stream>>
      BY DEF GatewayInv
  <2>2. ASSUME NEW q \in Requests
        PROVE  Accounted(q)'
    <3>1. Accounted(q) /\ (pc'[q] = "done" <=> pc[q] = "done")
        BY <1>2, <2>1 DEF EventInv
    <3>. QED
        BY <2>1, <3>1 DEF Accounted
  <2>3. IsInjective(stream')
      BY <2>1 DEF EventInv
  <2>. QED
      BY <2>2, <2>3, Zenon DEF EventInv
<1>4. Failed' = Failed /\ Blocked' = Blocked /\ \A c \in StatusClasses : OfClass(c)' = OfClass(c)
    BY DEF Failed, Blocked, OfClass
<1>5. CounterInv'
    BY <1>4 DEF GatewayInv, CounterInv, counters
<1>. QED
    BY <1>1, <1>3, <1>5 DEF GatewayInv

\* emit_event and the counters of one request.
LEMMA GatewayMakes ==
    ASSUME GatewayInv, NEW r \in Requests, NEW status \in StatusCodes, NEW latency \in Nat,
           NEW limited \in BOOLEAN, pc[r] # "done", pc' = [pc EXCEPT ![r] = "done"],
           EmitEvent(r, status, latency, limited), CountRequest(status),
           rateLimitHits' = IF limited THEN rateLimitHits + 1 ELSE rateLimitHits,
           UNCHANGED <<up, stream, emitFailures, faults>>
    PROVE  GatewayInv'
<1>. DEFINE e == [status |-> status, latency |-> latency, limited |-> limited]
            class == status \div 100
<1>0. GatewayTypes /\ EventInv /\ CounterInv
    BY DEF GatewayInv
<1>1. /\ event' = [event EXCEPT ![r] = e] /\ task' = [task EXCEPT ![r] = "running"]
      /\ wire' = wire \cup {r} /\ requestsTotal' = [requestsTotal EXCEPT ![class] = @ + 1]
    BY DEF EmitEvent, CountRequest
<1>2. /\ e \in EventRecords
      /\ e.status = status /\ e.limited = limited
    BY DEF EventRecords
<1>3. class \in StatusClasses
    BY DEF StatusCodes, StatusClasses
<1>. HIDE DEF e
<1>4. task[r] = "none" /\ r \notin wire /\ ~Contains(stream, r)
    BY <1>0 DEF EventInv, Accounted
<1>5. /\ \A q \in Requests : task'[q] = IF q = r THEN "running" ELSE task[q]
      /\ \A q \in Requests : event'[q] = IF q = r THEN e ELSE event[q]
      /\ \A q \in Requests : pc'[q] = IF q = r THEN "done" ELSE pc[q]
    BY <1>0, <1>1 DEF GatewayTypes
<1>. HIDE DEF class
<1>6. /\ requestsTotal' \in [StatusClasses -> Nat]
      /\ \A c \in StatusClasses : requestsTotal'[c] =
                             IF c = class THEN requestsTotal[c] + 1 ELSE requestsTotal[c]
  <2>1. requestsTotal' = [requestsTotal EXCEPT ![class] = requestsTotal[class] + 1]
      BY <1>1
  <2>2. requestsTotal \in [StatusClasses -> Nat]
      BY <1>0 DEF GatewayTypes
  <2>. QED
      BY <1>3, <2>1, <2>2, Incremented
<1>7. GatewayTypes'
  <2>1. event' \in [Requests -> EventRecords]
      BY <1>0, <1>1, <1>2 DEF GatewayTypes
  <2>2. /\ task' \in [Requests -> {"none", "running", "returned", "failed", "cancelled"}]
        /\ pc' \in [Requests -> {"new", "dropped", "forwarded", "done"}]
      BY <1>0, <1>1 DEF GatewayTypes
  <2>3. rateLimitHits' \in Nat
      BY <1>0 DEF GatewayTypes
  <2>4. /\ up' \in BOOLEAN /\ stream' \in Seq(Requests) /\ emitFailures' \in Nat
        /\ faults' \in Nat
      BY <1>0, <1>1 DEF GatewayTypes
  <2>5. wire' \subseteq Requests
      BY <1>0, <1>1 DEF GatewayTypes
  <2>6. requestsTotal' \in [StatusClasses -> Nat]
      BY <1>6
  <2>. QED
      BY <2>1, <2>2, <2>3, <2>4, <2>5, <2>6, Zenon DEF GatewayTypes
<1>8. EventInv'
  <2>1. event'[r].status \in StatusCodes
      BY <1>2, <1>5
  <2>2. \A q \in Requests : q # r =>
            task'[q] = task[q] /\ event'[q] = event[q] /\ (q \in wire' <=> q \in wire)
      BY <1>1, <1>5
  <2>3. task'[r] = "running" /\ r \in wire' /\ pc'[r] = "done"
      BY <1>1, <1>5
  <2>4. ASSUME NEW q \in Requests
        PROVE  Accounted(q)'
    <3>0. Accounted(q)
        BY <1>0 DEF EventInv
    <3>1. CASE q = r
        BY <1>4, <1>5, <2>1, <2>3, <3>0, <3>1 DEF Accounted
    <3>2. CASE q # r
        BY <1>5, <2>2, <3>0, <3>2 DEF Accounted
    <3>. QED
        BY <3>1, <3>2
  <2>5. IsInjective(stream')
      BY <1>0 DEF EventInv, Accounted
  <2>. QED
      BY <2>4, <2>5, Zenon DEF EventInv
<1>9. CounterInv'
  <2>1. Failed' = Failed
      BY <1>4, <1>5 DEF Failed
  <2>2. /\ r \notin Blocked /\ Blocked' = IF limited THEN Blocked \cup {r} ELSE Blocked
      BY <1>2, <1>4, <1>5 DEF Blocked
  <2>3. \A c \in StatusClasses : /\ r \notin OfClass(c)
                        /\ OfClass(c)' = IF c = class THEN OfClass(c) \cup {r} ELSE OfClass(c)
      BY <1>2, <1>4, <1>5 DEF OfClass, class
  <2>4. Cardinality(Blocked \cup {r}) = Cardinality(Blocked) + 1
      BY <2>2, CountersFinite, FS_AddElement
  <2>5. \A c \in StatusClasses : Cardinality(OfClass(c) \cup {r}) = Cardinality(OfClass(c)) + 1
      BY <2>3, CountersFinite, FS_AddElement
  <2>6. \A c \in StatusClasses : requestsTotal'[c] = Cardinality(OfClass(c)')
    <3>1. SUFFICES ASSUME NEW c \in StatusClasses PROVE requestsTotal'[c] = Cardinality(OfClass(c)')
        OBVIOUS
    <3>2. requestsTotal[c] = Cardinality(OfClass(c))
        BY <1>0 DEF CounterInv
    <3>3. requestsTotal'[c] = IF c = class THEN requestsTotal[c] + 1 ELSE requestsTotal[c]
        BY <1>6
    <3>4. CASE c = class
        BY <2>3, <2>5, <3>2, <3>3, <3>4
    <3>5. CASE c # class
        BY <2>3, <3>2, <3>3, <3>5
    <3>. QED
        BY <3>4, <3>5
  <2>7. rateLimitHits' = Cardinality(Blocked')
      BY <1>0, <2>2, <2>4 DEF CounterInv
  <2>. QED
      BY <1>0, <2>1, <2>6, <2>7 DEF CounterInv
<1>. QED
    BY <1>7, <1>8, <1>9 DEF GatewayInv

\* A step of tasks that are running, which leaves the events as they are.
LEMMA TasksEnd ==
    ASSUME GatewayInv, UNCHANGED <<event, requestsTotal, rateLimitHits>>,
           DOMAIN task' = Requests,
           \A r \in Requests : task'[r] # task[r] => task[r] = "running" /\ task'[r] # "none",
           emitFailures' = Cardinality(Failed')
    PROVE  CounterInv'
<1>1. \A r \in Requests : task'[r] = "none" <=> task[r] = "none"
    OBVIOUS
<1>2. Blocked' = Blocked /\ \A c \in StatusClasses : OfClass(c)' = OfClass(c)
    BY <1>1 DEF Blocked, OfClass
<1>. QED
    BY <1>2 DEF GatewayInv, CounterInv

LEMMA GatewayXadd ==
    ASSUME GatewayInv, NEW r \in Requests, Xadd(r)
    PROVE  GatewayInv'
<1>0. GatewayTypes /\ EventInv /\ CounterInv
    BY DEF GatewayInv
<1>1. /\ r \in wire /\ wire' = wire \ {r} /\ stream' = Append(stream, r)
      /\ UNCHANGED <<up, pc, event, requestsTotal, rateLimitHits, emitFailures, faults>>
    BY DEF Xadd, counters
<1>2. /\ task' \in [Requests -> {"none", "running", "returned", "failed", "cancelled"}]
      /\ \A q \in Requests : task'[q] = IF q = r /\ task[r] = "running" THEN "returned"
                                        ELSE task[q]
    BY <1>0 DEF Xadd, GatewayTypes
<1>3. /\ stream' \in Seq(Requests)
      /\ \A y : Contains(stream', y) <=> Contains(stream, y) \/ y = r
      /\ IsInjective(stream) /\ ~Contains(stream, r) => IsInjective(stream')
    BY <1>0, <1>1, AppendFacts DEF GatewayTypes
<1>4. GatewayTypes'
    BY <1>0, <1>1, <1>2, <1>3 DEF GatewayTypes
<1>5. EventInv'
  <2>1. ~Contains(stream, r) /\ task[r] # "none"
      BY <1>0, <1>1 DEF EventInv, Accounted
  <2>2. ASSUME NEW q \in Requests
        PROVE  Accounted(q)'
    <3>0. Accounted(q)
        BY <1>0 DEF EventInv
    <3>1. CASE q = r
      <4>1. /\ q \notin wire' /\ Contains(stream', q) /\ pc'[q] = pc[q] /\ event'[q] = event[q]
            /\ up' = up /\ task'[q] = IF task[q] = "running" THEN "returned" ELSE task[q]
          BY <1>1, <1>2, <1>3, <3>1
      <4>2. task[q] # "none"
          BY <2>1, <3>1
      <4>3. /\ task'[q] # "none" /\ task'[q] # "running"
            /\ task'[q] = "cancelled" => task[q] = "cancelled"
          BY <4>1, <4>2
      <4>. QED
          BY <3>0, <4>1, <4>2, <4>3 DEF Accounted
    <3>2. CASE q # r
      <4>1. /\ q \in wire' <=> q \in wire
            /\ Contains(stream', q) <=> Contains(stream, q)
            /\ pc'[q] = pc[q] /\ event'[q] = event[q] /\ up' = up /\ task'[q] = task[q]
          BY <1>1, <1>2, <1>3, <3>2
      <4>. QED
          BY <3>0, <4>1 DEF Accounted
    <3>. QED
        BY <3>1, <3>2
  <2>3. IsInjective(stream')
      BY <1>0, <1>3, <2>1 DEF EventInv, Accounted
  <2>. QED
      BY <2>2, <2>3, Zenon DEF EventInv
<1>6. CounterInv'
  <2>1. Failed' = Failed
      BY <1>2 DEF Failed
  <2>. QED
      BY <1>0, <1>1, <1>2, <2>1, TasksEnd DEF CounterInv
<1>. QED
    BY <1>4, <1>5, <1>6 DEF GatewayInv

LEMMA GatewayTaskFails ==
    ASSUME GatewayInv, NEW r \in Requests, TaskFails(r)
    PROVE  GatewayInv'
<1>0. GatewayTypes /\ EventInv /\ CounterInv
    BY DEF GatewayInv
<1>1. /\ task[r] = "running" /\ wire' \in {wire, wire \ {r}} /\ faults' = faults + 1
      /\ emitFailures' = emitFailures + 1
      /\ UNCHANGED <<up, pc, event, stream, requestsTotal, rateLimitHits>>
    BY DEF TaskFails
<1>2. /\ task' \in [Requests -> {"none", "running", "returned", "failed", "cancelled"}]
      /\ \A q \in Requests : task'[q] = IF q = r THEN "failed" ELSE task[q]
    BY <1>0 DEF TaskFails, GatewayTypes
<1>3. GatewayTypes'
    BY <1>0, <1>1, <1>2 DEF GatewayTypes
<1>4. EventInv'
  <2>1. ASSUME NEW q \in Requests
        PROVE  Accounted(q)'
    <3>1. Accounted(q)
        BY <1>0 DEF EventInv
    <3>2. /\ q \in wire' => q \in wire
          /\ q # r /\ q \in wire => q \in wire'
          /\ UNCHANGED <<up, pc, event, stream>>
        BY <1>1
    <3>3. CASE q = r
      <4>1. task[q] = "running" /\ task'[q] = "failed"
          BY <1>1, <1>2, <3>3
      <4>. QED
          BY <3>1, <3>2, <4>1 DEF Accounted
    <3>4. CASE q # r
      <4>1. task'[q] = task[q]
          BY <1>2, <3>4
      <4>. QED
          BY <3>1, <3>2, <3>4, <4>1 DEF Accounted
    <3>. QED
        BY <3>3, <3>4
  <2>2. IsInjective(stream')
      BY <1>0, <1>1 DEF EventInv
  <2>. QED
      BY <2>1, <2>2, Zenon DEF EventInv
<1>5. CounterInv'
  <2>1. r \notin Failed /\ Failed' = Failed \cup {r}
      BY <1>1, <1>2 DEF Failed
  <2>2. Cardinality(Failed \cup {r}) = Cardinality(Failed) + 1
      BY <2>1, CountersFinite, FS_AddElement
  <2>. QED
      BY <1>0, <1>1, <1>2, <2>1, <2>2, TasksEnd DEF CounterInv
<1>. QED
    BY <1>3, <1>4, <1>5 DEF GatewayInv

LEMMA GatewayStop ==
    ASSUME GatewayInv, Stop
    PROVE  GatewayInv'
<1>0. GatewayTypes /\ EventInv /\ CounterInv
    BY DEF GatewayInv
<1>1. /\ up' = FALSE /\ wire' \subseteq wire /\ faults' = faults + 1
      /\ UNCHANGED <<pc, event, stream, requestsTotal, rateLimitHits, emitFailures>>
    BY DEF Stop, counters
<1>2. /\ task' \in [Requests -> {"none", "running", "returned", "failed", "cancelled"}]
      /\ \A q \in Requests : task'[q] = IF task[q] = "running" THEN "cancelled" ELSE task[q]
    BY <1>0 DEF Stop, GatewayTypes
<1>3. GatewayTypes'
  <2>1. up' \in BOOLEAN /\ wire' \subseteq Requests
      BY <1>0, <1>1 DEF GatewayTypes
  <2>2. faults' \in Nat
      BY <1>0, <1>1 DEF GatewayTypes
  <2>. QED
      BY <1>0, <1>1, <1>2, <2>1, <2>2 DEF GatewayTypes
<1>4. EventInv'
  <2>1. ASSUME NEW q \in Requests
        PROVE  Accounted(q)'
    <3>1. Accounted(q)
        BY <1>0 DEF EventInv
    <3>2. /\ q \in wire' => q \in wire
          /\ up' = FALSE /\ UNCHANGED <<pc, event, stream>>
        BY <1>1
    <3>3. CASE task[q] = "running"
      <4>1. task'[q] = "cancelled"
          BY <1>2, <3>3
      <4>. QED
          BY <3>1, <3>2, <3>3, <4>1 DEF Accounted
    <3>4. CASE task[q] # "running"
      <4>1. task'[q] = task[q]
          BY <1>2, <3>4
      <4>. QED
          BY <3>1, <3>2, <3>4, <4>1 DEF Accounted
    <3>. QED
        BY <3>3, <3>4
  <2>2. IsInjective(stream')
      BY <1>0, <1>1 DEF EventInv
  <2>. QED
      BY <2>1, <2>2, Zenon DEF EventInv
<1>5. CounterInv'
  <2>1. Failed' = Failed
      BY <1>2 DEF Failed
  <2>. QED
      BY <1>0, <1>1, <1>2, <2>1, TasksEnd DEF CounterInv
<1>. QED
    BY <1>3, <1>4, <1>5 DEF GatewayInv

LEMMA GatewayStep == GatewayInv /\ [Next]_vars => GatewayInv'
<1>. SUFFICES ASSUME GatewayInv, [Next]_vars PROVE GatewayInv'
    OBVIOUS
<1>0. faults \in Nat
    BY DEF GatewayInv, GatewayTypes
<1>1. ASSUME NEW r \in Requests, Refuse(r) \/ Forward(r) \/ UpstreamError(r)
      PROVE  GatewayInv'
    BY <1>0, <1>1, GatewayFrame DEF Refuse, Forward, UpstreamError, Arrives, counters
<1>2. ASSUME NEW r \in Requests, Block(r) PROVE GatewayInv'
  <2>. DEFINE status == 429
              latency == 0
              limited == TRUE
  <2>1. /\ pc[r] # "done" /\ pc' = [pc EXCEPT ![r] = "done"]
        /\ EmitEvent(r, status, latency, limited) /\ CountRequest(status)
        /\ UNCHANGED <<up, stream, emitFailures, faults>>
      BY <1>2 DEF Block, Arrives
  <2>2. rateLimitHits' = IF limited THEN rateLimitHits + 1 ELSE rateLimitHits
      BY <1>2 DEF Block
  <2>3. status \in StatusCodes /\ latency \in Nat /\ limited \in BOOLEAN
      BY DEF StatusCodes
  <2>. HIDE DEF status, latency, limited
  <2>. QED
      BY <2>1, <2>2, <2>3, GatewayMakes, Zenon
<1>3. ASSUME NEW r \in Requests, NEW answer \in Answers[r], Answer(r, answer[1], answer[2])
      PROVE  GatewayInv'
  <2>1. /\ pc[r] # "done" /\ pc' = [pc EXCEPT ![r] = "done"]
        /\ EmitEvent(r, answer[1], answer[2], FALSE) /\ CountRequest(answer[1])
        /\ rateLimitHits' = IF FALSE THEN rateLimitHits + 1 ELSE rateLimitHits
        /\ UNCHANGED <<up, stream, emitFailures, faults>>
      BY <1>3 DEF Answer
  <2>2. answer[1] \in StatusCodes /\ answer[2] \in Nat /\ FALSE \in BOOLEAN
    <3>1. answer \in StatusCodes \X Nat
        BY <1>3, GatewayAssumption
    <3>. QED
        BY <3>1
  <2>. QED
      BY <2>1, <2>2, GatewayMakes
<1>4. ASSUME NEW w \in Workers,
             Read(w) \/ UpsertRow(w) \/ Commit(w) \/ Ack(w) \/ Abort(w) \/ Crash(w)
      PROVE  GatewayInv'
    BY <1>0, <1>4, GatewayFrame DEF Read, UpsertRow, Commit, Ack, Abort, Crash, gateway
<1>5. CASE UNCHANGED vars
    BY <1>0, <1>5, GatewayFrame DEF vars, gateway
<1>6. CASE GatewayNext
    BY <1>1, <1>2, <1>3, <1>6, GatewayXadd, GatewayTaskFails, GatewayStop DEF GatewayNext
<1>. QED
    BY <1>4, <1>5, <1>6 DEF Next

LEMMA GatewayInvariant == Spec => []GatewayInv
BY GatewayStart, GatewayStep, PTL DEF Spec

\* The counters of some status classes add up to the events of these classes.
LEMMA ClassesAddUp ==
    ASSUME GatewayInv, NEW K \in SUBSET StatusClasses
    PROVE  Sum(requestsTotal, K) = Cardinality({r \in Made : event[r].status \div 100 \in K})
<1>. DEFINE h == [r \in Requests |-> event[r].status \div 100]
            D == {r \in Made : event[r].status \div 100 \in K}
<1>1. \A r \in Made : r \in Requests /\ h[r] = event[r].status \div 100
    BY DEF Made
<1>. HIDE DEF h
<1>2. \A r \in D : r \in Made /\ h[r] \in K
    BY <1>1
<1>3. \A c \in K : OfClass(c) = {r \in D : h[r] = c}
    BY <1>1 DEF OfClass, Made
<1>4. \A c \in K : requestsTotal[c] = Cardinality({r \in D : h[r] = c})
  <2>1. \A c \in K : requestsTotal[c] = Cardinality(OfClass(c))
      BY DEF GatewayInv, CounterInv
  <2>. QED
      BY <1>3, <2>1
<1>5. IsFiniteSet(D)
  <2>1. IsFiniteSet(Made) /\ D \in SUBSET Made
      BY CountersFinite
  <2>. QED
      BY <2>1, FS_Subset
<1>6. IsFiniteSet(K)
  <2>1. 1 \in Int /\ 9 \in Int
      OBVIOUS
  <2>2. IsFiniteSet(StatusClasses)
      BY <2>1, FS_Interval, Zenon DEF StatusClasses
  <2>. QED
      BY <2>2, FS_Subset
<1>. HIDE DEF D
<1>7. PartSizes(requestsTotal, K, D, h)
    BY <1>2, <1>4 DEF PartSizes
<1>8. Sum(requestsTotal, K) = Cardinality(D)
    BY <1>5, <1>6, <1>7, SumParts, Zenon
<1>. QED
    BY <1>8 DEF D

\* The status of an event has three digits.
LEMMA StatusOfMade ==
    ASSUME GatewayInv, NEW r \in Made
    PROVE  r \in Requests /\ event[r].status \in StatusCodes
<1>1. \A q \in Requests : Accounted(q)
    BY DEF GatewayInv, EventInv
<1>. QED
    BY <1>1 DEF Accounted, Made

\* The counters of requests add up to the events that were made.
LEMMA RequestsAddUp ==
    ASSUME GatewayInv
    PROVE  SumFunction(requestsTotal) = Cardinality(Made)
<1>1. \A status \in StatusCodes : status \div 100 \in StatusClasses
    BY DEF StatusCodes, StatusClasses
<1>2. ASSUME NEW r \in Made PROVE event[r].status \div 100 \in StatusClasses
  <2>. DEFINE status == event[r].status
  <2>1. status \in StatusCodes
      BY StatusOfMade
  <2>. HIDE DEF status
  <2>2. status \div 100 \in StatusClasses
      BY <1>1, <2>1
  <2>. QED
      BY <2>2 DEF status
<1>3. DOMAIN requestsTotal = StatusClasses
    BY DEF GatewayInv, GatewayTypes
<1>4. Sum(requestsTotal, StatusClasses)
         = Cardinality({r \in Made : event[r].status \div 100 \in StatusClasses})
    BY ClassesAddUp
<1>5. {r \in Made : event[r].status \div 100 \in StatusClasses} = Made
    BY <1>2
<1>. QED
    BY <1>3, <1>4, <1>5 DEF Sum, SumFunction

\* An event that was made is in the stream once, may still get there, or its loss
\* shows in EVENT_EMIT_FAILURES, unless the process has stopped: the promise of
\* emit_event and _on_task_done, NoInvisibleDrop.
THEOREM NoInvisibleDropCorrect == Spec => []NoInvisibleDrop
<1>1. GatewayInv => NoInvisibleDrop
  <2>. SUFFICES ASSUME GatewayInv PROVE NoInvisibleDrop
      OBVIOUS
  <2>. DEFINE missing == {r \in Made \ wire : ~Contains(stream, r)}
  <2>1. IsInjective(stream)
      BY DEF GatewayInv, EventInv, Accounted
  <2>2. {r \in missing : task[r] # "cancelled"} \in SUBSET Failed
      BY DEF GatewayInv, GatewayTypes, EventInv, Accounted, Made, Failed
  <2>3. up => missing \in SUBSET Failed
      BY DEF GatewayInv, GatewayTypes, EventInv, Accounted, Made, Failed
  <2>. HIDE DEF missing
  <2>4. Cardinality({r \in missing : task[r] # "cancelled"}) <= emitFailures
      BY <2>2, CountersFinite, FS_Subset DEF GatewayInv, CounterInv
  <2>5. up => Cardinality(missing) <= emitFailures
      BY <2>3, CountersFinite, FS_Subset DEF GatewayInv, CounterInv
  <2>. QED
      BY <2>1, <2>4, <2>5, RequestsAddUp DEF NoInvisibleDrop, missing
<1>. QED
    BY <1>1, GatewayInvariant, PTL

-----------------------------------------------------------------------------
(* What a batch says of a row.                                              *)

\* A number of a batch's events is named by the rows: each event's key is one
\* of them.
LEMMA RowKeysCover ==
    ASSUME NEW S, NEW events \in Seq(S), NEW m \in DOMAIN events
    PROVE  \E n \in 1..Len(RowKeys(events)) : RowKeys(events)[n] = events[m].key
<1>. DEFINE F == Firsts(events)
            Upto(i) == {j \in F : j <= i}
            Same == {j \in DOMAIN events : events[j].key = events[m].key}
<1>1. DOMAIN events = 1..Len(events) /\ Len(events) \in Nat
    BY LenProperties
<1>2. F \in SUBSET (1..Len(events)) /\ F \subseteq Nat /\ IsFiniteSet(F)
  <2>1. F \in SUBSET (1..Len(events)) /\ F \subseteq Nat
      BY <1>1 DEF Firsts
  <2>2. IsFiniteSet(1..Len(events))
    <3>1. 1 \in Int /\ Len(events) \in Int
        BY <1>1
    <3>. QED
        BY <3>1, FS_Interval, Zenon
  <2>. HIDE DEF F
  <2>. QED
      BY <2>1, <2>2, FS_Subset
<1>3. PICK f \in F : events[f].key = events[m].key
  <2>1. Same \in SUBSET Nat /\ Same # {}
      BY <1>1
  <2>2. PICK f \in Same : \A j \in Same : f <= j
      BY <2>1, LeastNumber
  <2>3. \A j \in 1..(f - 1) : events[j].key # events[f].key
      BY <1>1, <2>2
  <2>. QED
      BY <2>2, <2>3 DEF Firsts
<1>. HIDE DEF F
<1>4. \A i \in F : /\ Upto(i) \in SUBSET F /\ IsFiniteSet(Upto(i))
                   /\ Cardinality(Upto(i)) \in Nat
                   /\ Cardinality(Upto(i)) <= Cardinality(F)
  <2>1. \A i \in F : Upto(i) \in SUBSET F
      OBVIOUS
  <2>. HIDE DEF Upto
  <2>. QED
      BY <1>2, <2>1, FS_Subset, FS_CardinalityType
<1>5. ASSUME NEW g \in F, Cardinality(Upto(g)) = Cardinality(Upto(f)) PROVE g = f
  <2>1. \A i, j \in F : i \in Nat /\ j \in Nat /\ (i < j \/ j < i \/ i = j)
      BY <1>2
  <2>2. ASSUME NEW i \in F, NEW j \in F, i < j
        PROVE  Cardinality(Upto(i)) # Cardinality(Upto(j))
    <3>1. Upto(i) \in SUBSET Upto(j) /\ j \in Upto(j) /\ j \notin Upto(i)
        BY <2>1, <2>2
    <3>. HIDE DEF Upto
    <3>. QED
        BY <1>4, <3>1, FS_Subset
  <2>. HIDE DEF Upto
  <2>. QED
      BY <1>5, <2>1, <2>2
<1>. DEFINE n == Cardinality(Upto(f))
<1>6. n \in 1..Cardinality(F)
  <2>1. f \in Upto(f)
      BY <1>2
  <2>. HIDE DEF Upto
  <2>2. Cardinality(Upto(f)) # 0
      BY <1>4, <2>1, FS_EmptySet
  <2>3. Cardinality(F) \in Nat
      BY <1>2, FS_CardinalityType
  <2>. QED
      BY <1>4, <2>2, <2>3
<1>7. (CHOOSE i \in F : Cardinality(Upto(i)) = n) = f
  <2>1. \E i \in F : Cardinality(Upto(i)) = n
      BY <1>3
  <2>. DEFINE g == CHOOSE i \in F : Cardinality(Upto(i)) = n
  <2>2. g \in F /\ Cardinality(Upto(g)) = n
      BY <2>1, Zenon
  <2>. HIDE DEF g, Upto
  <2>3. g = f
      BY <1>5, <2>2
  <2>. QED
      BY <2>3 DEF g, Upto
<1>8. RowKeys(events) =
          [a \in 1..Cardinality(F) |->
              events[CHOOSE i \in F : Cardinality(Upto(i)) = a].key]
    BY DEF RowKeys, F
<1>9. Len(RowKeys(events)) = Cardinality(F)
  <2>1. Cardinality(F) \in Nat
      BY <1>2, FS_CardinalityType
  <2>. QED
      BY <1>8, <2>1
<1>10. RowKeys(events)[n] = events[CHOOSE i \in F : Cardinality(Upto(i)) = n].key
    BY <1>6, <1>8
<1>. HIDE DEF n
<1>11. RowKeys(events)[n] = events[m].key
    BY <1>3, <1>7, <1>10
<1>. QED
    BY <1>6, <1>9, <1>11

\* The records of a stream entry, as aggregate_by_bucket gets them.
Event == [key : Keys, status : StatusCodes, latency : Nat, limited : BOOLEAN]

\* The events of a batch that a column of a row is about.
Matching(events, k, c) ==
    {j \in DOMAIN events : events[j].key = k /\ InColumn(c, events[j])}

\* A row counts the events of its key: each column those of its test.
LEMMA RowColumn ==
    ASSUME NEW events \in Seq(Event), NEW k, NEW c \in Columns
    PROVE  AggregatedRow(events, k)[c] = Cardinality(Matching(events, k, c))
<1>. DEFINE mine == {j \in DOMAIN events : events[j].key = k}
<1>1. \A j \in DOMAIN events : events[j].status \in StatusCodes /\ events[j].limited \in BOOLEAN
  <2>0. DOMAIN events = 1..Len(events) /\ events \in [1..Len(events) -> Event]
      BY LenProperties, Zenon
  <2>1. \A j \in DOMAIN events : events[j] \in Event
      BY <2>0
  <2>2. \A e \in Event : e.status \in StatusCodes /\ e.limited \in BOOLEAN
      BY DEF Event
  <2>. QED
      BY <2>1, <2>2, Zenon
<1>2. /\ AggregatedRow(events, k)["total"] = Cardinality(mine)
      /\ AggregatedRow(events, k)["s2xx"] =
            Cardinality({i \in mine : 200 <= events[i].status /\ events[i].status < 300})
      /\ AggregatedRow(events, k)["s4xx"] =
            Cardinality({i \in mine : 400 <= events[i].status /\ events[i].status < 500})
      /\ AggregatedRow(events, k)["s5xx"] = Cardinality({i \in mine : events[i].status >= 500})
      /\ AggregatedRow(events, k)["blocked"] = Cardinality({i \in mine : events[i].limited})
    BY DEF AggregatedRow
<1>3. CASE c = "total"
  <2>1. Matching(events, k, c) = mine
      BY <1>3 DEF Matching, InColumn
  <2>. QED
      BY <1>2, <1>3, <2>1
<1>4. CASE c = "blocked"
  <2>1. Matching(events, k, c) = {i \in mine : events[i].limited}
      BY <1>4 DEF Matching, InColumn
  <2>. QED
      BY <1>2, <1>4, <2>1
<1>5. CASE c = "s2xx"
  <2>1. \A j \in DOMAIN events :
           InColumn(c, events[j]) <=> (200 <= events[j].status /\ events[j].status < 300)
    <3>1. SUFFICES ASSUME NEW j \in DOMAIN events
                   PROVE  InColumn(c, events[j]) <=>
                             (200 <= events[j].status /\ events[j].status < 300)
        OBVIOUS
    <3>. DEFINE status == events[j].status
    <3>2. status \in StatusCodes /\ (InColumn(c, events[j]) <=> status \in 200..299)
        BY <1>1, <1>5 DEF InColumn
    <3>. HIDE DEF status
    <3>3. InColumn(c, events[j]) <=> (200 <= status /\ status < 300)
        BY <3>2 DEF StatusCodes
    <3>. QED
        BY <3>3 DEF status
  <2>2. Matching(events, k, c) = {i \in mine : 200 <= events[i].status /\ events[i].status < 300}
      BY <2>1, Zenon DEF Matching
  <2>. QED
      BY <1>2, <1>5, <2>2
<1>6. CASE c = "s4xx"
  <2>1. \A j \in DOMAIN events :
           InColumn(c, events[j]) <=> (400 <= events[j].status /\ events[j].status < 500)
    <3>1. SUFFICES ASSUME NEW j \in DOMAIN events
                   PROVE  InColumn(c, events[j]) <=>
                             (400 <= events[j].status /\ events[j].status < 500)
        OBVIOUS
    <3>. DEFINE status == events[j].status
    <3>2. status \in StatusCodes /\ (InColumn(c, events[j]) <=> status \in 400..499)
        BY <1>1, <1>6 DEF InColumn
    <3>. HIDE DEF status
    <3>3. InColumn(c, events[j]) <=> (400 <= status /\ status < 500)
        BY <3>2 DEF StatusCodes
    <3>. QED
        BY <3>3 DEF status
  <2>2. Matching(events, k, c) = {i \in mine : 400 <= events[i].status /\ events[i].status < 500}
      BY <2>1, Zenon DEF Matching
  <2>. QED
      BY <1>2, <1>6, <2>2
<1>7. CASE c = "s5xx"
  <2>1. \A j \in DOMAIN events :
           InColumn(c, events[j]) <=> (events[j].status >= 500)
    <3>1. SUFFICES ASSUME NEW j \in DOMAIN events
                   PROVE  InColumn(c, events[j]) <=> (events[j].status >= 500)
        OBVIOUS
    <3>. DEFINE status == events[j].status
    <3>2. status \in StatusCodes /\ (InColumn(c, events[j]) <=> (status >= 500))
        BY <1>1, <1>7 DEF InColumn
    <3>. HIDE DEF status
    <3>3. InColumn(c, events[j]) <=> (status >= 500)
        BY <3>2
    <3>. QED
        BY <3>3 DEF status
  <2>2. Matching(events, k, c) = {i \in mine : events[i].status >= 500}
      BY <2>1, Zenon DEF Matching
  <2>. QED
      BY <1>2, <1>7, <2>2
<1>. QED
    BY <1>3, <1>4, <1>5, <1>6, <1>7 DEF Columns

\* The entries of worker w's batch.
Batch(w) == {i \in 1..delivered : Contains(batch[w], i)}

\* What a worker reads of an entry is what the gateway made of its request.
LEMMA EventsType ==
    ASSUME GatewayInv, BatchInv, NEW w \in Workers
    PROVE  /\ Events(w) \in Seq(Event) /\ DOMAIN Events(w) = DOMAIN batch[w]
           /\ \A j \in DOMAIN batch[w] : batch[w][j] \in 1..delivered
           /\ \A j \in DOMAIN batch[w], c \in Columns :
                 /\ Events(w)[j].key = KeyOf[stream[batch[w][j]]]
                 /\ InColumn(c, Events(w)[j]) <=> InColumn(c, event[stream[batch[w][j]]])
<1>1. /\ batch[w] \in Seq(1..delivered) /\ delivered \in 0..Len(stream)
      /\ stream \in Seq(Requests) /\ Len(stream) \in Nat /\ DOMAIN stream = 1..Len(stream)
    BY LenProperties DEF GatewayInv, GatewayTypes, BatchInv
<1>2. /\ Len(batch[w]) \in Nat /\ DOMAIN batch[w] = 1..Len(batch[w])
      /\ \A j \in DOMAIN batch[w] : batch[w][j] \in 1..delivered
    BY <1>1, LenProperties
<1>3. \A i \in 1..delivered : stream[i] \in Requests /\ event[stream[i]].status \in StatusCodes
  <2>1. \A i \in 1..delivered : i \in 1..Len(stream)
      BY <1>1
  <2>2. \A i \in 1..delivered : stream[i] \in Requests /\ Contains(stream, stream[i])
      BY <1>1, <2>1 DEF Contains
  <2>3. \A r \in Requests : Contains(stream, r) => event[r].status \in StatusCodes
    <3>1. \A r \in Requests : /\ task[r] # "none" => event[r].status \in StatusCodes
                              /\ Contains(stream, r) => task[r] # "none"
        BY Zenon DEF GatewayInv, EventInv, Accounted
    <3>. QED
        BY <3>1, Zenon
  <2>. QED
      BY <2>2, <2>3, Zenon
<1>4. ASSUME NEW i \in 1..delivered
      PROVE  /\ EventOf(i) \in Event /\ EventOf(i).key = KeyOf[stream[i]]
             /\ \A c \in Columns : InColumn(c, EventOf(i)) <=> InColumn(c, event[stream[i]])
  <2>1. /\ stream[i] \in Requests /\ KeyOf[stream[i]] \in Keys
        /\ event[stream[i]] \in EventRecords
        /\ event[stream[i]].status \in StatusCodes
    <3>1. stream[i] \in Requests /\ event[stream[i]].status \in StatusCodes
        BY <1>3
    <3>2. KeyOf \in [Requests -> Keys]
        BY GatewayAssumption
    <3>3. event \in [Requests -> EventRecords]
        BY DEF GatewayInv, GatewayTypes
    <3>4. KeyOf[stream[i]] \in Keys
        BY <3>1, <3>2
    <3>5. event[stream[i]] \in EventRecords
      <4>. DEFINE E == EventRecords
      <4>. HIDE DEF E
      <4>1. event \in [Requests -> E]
          BY <3>3 DEF E
      <4>2. event[stream[i]] \in E
          BY <3>1, <4>1
      <4>. QED
          BY <4>2 DEF E
    <3>. QED
        BY <3>1, <3>4, <3>5
  <2>2. /\ EventOf(i) \in Event /\ EventOf(i).key = KeyOf[stream[i]]
        /\ EventOf(i).status = event[stream[i]].status
        /\ EventOf(i).limited = event[stream[i]].limited
      BY <2>1 DEF EventOf, Event, EventRecords
  <2>. QED
      BY <2>2 DEF InColumn
<1>5. Events(w) = [j \in 1..Len(batch[w]) |-> EventOf(batch[w][j])]
    BY <1>2 DEF Events
<1>6. \A j \in DOMAIN batch[w] : Events(w)[j] = EventOf(batch[w][j])
    BY <1>2, <1>5
<1>7. Events(w) \in Seq(Event) /\ DOMAIN Events(w) = DOMAIN batch[w]
  <2>1. \A j \in 1..Len(batch[w]) : EventOf(batch[w][j]) \in Event
      BY <1>2, <1>4
  <2>. QED
      BY <1>2, <1>5, <2>1
<1>. QED
    BY <1>2, <1>4, <1>6, <1>7

\* A row of a batch counts the batch's entries of its key.
LEMMA BatchColumn ==
    ASSUME GatewayInv, BatchInv, NEW w \in Workers, NEW k \in Keys, NEW c \in Columns
    PROVE  AggregatedRow(Events(w), k)[c] = Cardinality(Mine(k, c) \cap Batch(w))
<1>. DEFINE J == Matching(Events(w), k, c)
            T == Mine(k, c) \cap Batch(w)
            b == [j \in J |-> batch[w][j]]
<1>1. AggregatedRow(Events(w), k)[c] = Cardinality(J)
  <2>1. Events(w) \in Seq(Event)
      BY EventsType, Zenon
  <2>. QED
      BY <2>1, RowColumn, Zenon
<1>2. \A j \in DOMAIN batch[w] :
         /\ batch[w][j] \in 1..delivered
         /\ j \in J <=> /\ KeyOf[stream[batch[w][j]]] = k
                        /\ InColumn(c, event[stream[batch[w][j]]])
  <2>1. /\ DOMAIN Events(w) = DOMAIN batch[w]
        /\ \A j \in DOMAIN batch[w] : batch[w][j] \in 1..delivered
        /\ \A j \in DOMAIN batch[w] :
              /\ Events(w)[j].key = KeyOf[stream[batch[w][j]]]
              /\ InColumn(c, Events(w)[j]) <=> InColumn(c, event[stream[batch[w][j]]])
      BY EventsType, Zenon
  <2>. QED
      BY <2>1, Zenon DEF Matching
<1>3. J \in SUBSET DOMAIN batch[w]
  <2>1. DOMAIN Events(w) = DOMAIN batch[w]
      BY EventsType, Zenon
  <2>. QED
      BY <2>1, Zenon DEF Matching
<1>. HIDE DEF J
<1>4. DOMAIN batch[w] = 1..Len(batch[w]) /\ Len(batch[w]) \in Nat /\ IsInjective(batch[w])
    BY LenProperties DEF BatchInv
<1>5. b \in [J -> T]
  <2>1. ASSUME NEW j \in J PROVE batch[w][j] \in T
    <3>1. j \in DOMAIN batch[w] /\ Contains(batch[w], batch[w][j])
      <4>1. j \in DOMAIN batch[w] /\ j \in 1..Len(batch[w])
          BY <1>3, <1>4
      <4>. QED
          BY <4>1, Zenon DEF Contains
    <3>. QED
        BY <1>2, <3>1 DEF Mine, Batch
  <2>. QED
      BY <2>1
<1>6. IsInjective(b)
    BY <1>3, <1>4 DEF IsInjective
<1>7. \A i \in T : \E j \in J : b[j] = i
  <2>1. ASSUME NEW i \in T PROVE \E j \in J : b[j] = i
    <3>1. PICK j \in DOMAIN batch[w] : batch[w][j] = i
        BY DEF Batch, Contains
    <3>2. KeyOf[stream[i]] = k /\ InColumn(c, event[stream[i]])
        BY DEF Mine
    <3>. QED
        BY <1>2, <3>1, <3>2
  <2>. QED
      BY <2>1
<1>8. IsFiniteSet(J)
  <2>1. IsFiniteSet(1..Len(batch[w]))
    <3>1. 1 \in Int /\ Len(batch[w]) \in Int
        BY <1>4
    <3>. QED
        BY <3>1, FS_Interval, Zenon
  <2>. QED
      BY <1>3, <1>4, <2>1, FS_Subset
<1>. HIDE DEF T, b
<1>9. ExistsBijection(J, T)
    BY <1>5, <1>6, <1>7 DEF ExistsBijection, Bijection, Injection, Surjection, IsInjective
<1>10. Cardinality(T) = Cardinality(J)
    BY <1>8, <1>9, FS_Bijection
<1>. QED
    BY <1>1, <1>10 DEF T

-----------------------------------------------------------------------------
(* The batches and the table.                                               *)

LEMMA SeqDomain ==
    ASSUME NEW S, NEW q \in Seq(S)
    PROVE  DOMAIN q = 1..Len(q) /\ Len(q) \in Nat /\ \A j \in 1..Len(q) : q[j] \in S
BY LenProperties

\* The stream only grows, and the event of an entry in it never changes.
LEMMA EntriesKept ==
    ASSUME GatewayInv, GatewayInv', [Next]_vars
    PROVE  /\ Len(stream) \in Nat /\ Len(stream') \in Nat /\ Len(stream) <= Len(stream')
           /\ \A i \in 1..Len(stream) :
                 /\ stream[i] \in Requests /\ stream'[i] = stream[i]
                 /\ event'[stream[i]] = event[stream[i]]
<1>1. /\ stream \in Seq(Requests) /\ stream' \in Seq(Requests)
      /\ event \in [Requests -> EventRecords]
    BY DEF GatewayInv, GatewayTypes
<1>2. /\ Len(stream) \in Nat /\ Len(stream') \in Nat
      /\ \A i \in 1..Len(stream) : stream[i] \in Requests /\ Contains(stream, stream[i])
    BY <1>1, SeqDomain DEF Contains
<1>3. \A r \in Requests : Contains(stream, r) => task[r] # "none" /\ pc[r] = "done"
    BY DEF GatewayInv, EventInv, Accounted
<1>4. CASE UNCHANGED <<stream, event>>
    BY <1>2, <1>4
<1>5. ASSUME NEW r \in Requests, pc[r] # "done", stream' = stream,
             \E e : event' = [event EXCEPT ![r] = e]
      PROVE  \A i \in 1..Len(stream) : /\ stream'[i] = stream[i]
                                       /\ event'[stream[i]] = event[stream[i]]
  <2>1. \A i \in 1..Len(stream) : stream[i] # r
      BY <1>2, <1>3, <1>5
  <2>. QED
      BY <1>1, <1>2, <1>5, <2>1
<1>6. ASSUME NEW r \in Requests, stream' = Append(stream, r), event' = event
      PROVE  /\ Len(stream) <= Len(stream')
             /\ \A i \in 1..Len(stream) : stream'[i] = stream[i]
    BY <1>1, <1>2, <1>6, AppendFacts
<1>7. ASSUME NEW r \in Requests,
             \/ Refuse(r) \/ Block(r) \/ Forward(r) \/ UpstreamError(r)
             \/ \E answer \in Answers[r] : Answer(r, answer[1], answer[2])
             \/ Xadd(r) \/ TaskFails(r)
      PROVE  /\ Len(stream) <= Len(stream')
             /\ \A i \in 1..Len(stream) : /\ stream'[i] = stream[i]
                                          /\ event'[stream[i]] = event[stream[i]]
  <2>1. CASE Refuse(r) \/ Forward(r) \/ UpstreamError(r) \/ TaskFails(r)
      BY <1>2, <2>1 DEF Refuse, Forward, UpstreamError, TaskFails
  <2>2. CASE Block(r)
    <3>1. /\ pc[r] # "done" /\ stream' = stream
          /\ event' = [event EXCEPT ![r] = [status |-> 429, latency |-> 0, limited |-> TRUE]]
        BY <2>2 DEF Block, Arrives, EmitEvent
    <3>2. \E e : event' = [event EXCEPT ![r] = e]
        BY <3>1, Zenon
    <3>3. pc[r] # "done" /\ stream' = stream
        BY <3>1
    <3>4. \A i \in 1..Len(stream) : /\ stream'[i] = stream[i]
                                    /\ event'[stream[i]] = event[stream[i]]
        BY <1>5, <3>2, <3>3, Zenon
    <3>. QED
        BY <1>2, <3>3, <3>4
  <2>3. CASE \E answer \in Answers[r] : Answer(r, answer[1], answer[2])
    <3>1. PICK answer \in Answers[r] : Answer(r, answer[1], answer[2])
        BY <2>3
    <3>2. /\ pc[r] # "done" /\ stream' = stream
          /\ event' = [event EXCEPT ![r] =
                [status |-> answer[1], latency |-> answer[2], limited |-> FALSE]]
        BY <3>1 DEF Answer, EmitEvent
    <3>3. \E e : event' = [event EXCEPT ![r] = e]
        BY <3>2, Zenon
    <3>4. pc[r] # "done" /\ stream' = stream
        BY <3>2
    <3>5. \A i \in 1..Len(stream) : /\ stream'[i] = stream[i]
                                    /\ event'[stream[i]] = event[stream[i]]
        BY <1>5, <3>3, <3>4, Zenon
    <3>. QED
        BY <1>2, <3>4, <3>5
  <2>4. CASE Xadd(r)
    <3>1. stream' = Append(stream, r) /\ event' = event
        BY <2>4 DEF Xadd
    <3>. QED
        BY <1>6, <3>1
  <2>. QED
      BY <1>7, <2>1, <2>2, <2>3, <2>4
<1>8. CASE Stop
    BY <1>4, <1>8 DEF Stop
<1>9. ASSUME NEW w \in Workers,
             Read(w) \/ UpsertRow(w) \/ Commit(w) \/ Ack(w) \/ Abort(w) \/ Crash(w)
      PROVE  UNCHANGED <<stream, event>>
    BY <1>9 DEF Read, UpsertRow, Commit, Ack, Abort, Crash, gateway
<1>10. CASE UNCHANGED vars
    BY <1>4, <1>10 DEF vars, gateway
<1>. QED
    BY <1>2, <1>4, <1>7, <1>8, <1>9, <1>10 DEF Next, GatewayNext

LEMMA BatchStart == Init => BatchInv
<1>1. SUFFICES ASSUME Init PROVE BatchInv
    OBVIOUS
<1>2. /\ delivered = 0 /\ stream = <<>> /\ counted = <<>>
      /\ batch = [w \in Workers |-> <<>>] /\ step = [w \in Workers |-> "read"]
      /\ upserted = [w \in Workers |-> 0]
    BY <1>1 DEF Init, GatewayInit
<1>3. counted \in [1..0 -> Nat] /\ <<>> \in Seq(1..0) /\ IsInjective(<<>>) /\ Len(<<>>) = 0
    BY <1>2 DEF IsInjective
<1>4. \A i \in 1..0 : FALSE
    OBVIOUS
<1>. QED
    BY <1>2, <1>3, <1>4 DEF BatchInv

LEMMA BatchStep == GatewayInv /\ GatewayInv' /\ BatchInv /\ [Next]_vars => BatchInv'
<1>1. SUFFICES ASSUME GatewayInv, GatewayInv', BatchInv, [Next]_vars PROVE BatchInv'
    OBVIOUS
<1>2. /\ delivered \in 0..Len(stream) /\ counted \in [1..delivered -> Nat]
      /\ batch \in [Workers -> Seq(1..delivered)]
      /\ step \in [Workers -> {"read", "write", "ack"}] /\ upserted \in [Workers -> Nat]
      /\ Len(stream) \in Nat /\ Len(stream') \in Nat /\ Len(stream) <= Len(stream')
      /\ delivered \in Nat
    BY <1>1, EntriesKept DEF BatchInv
<1>3. CASE UNCHANGED analytics
    BY <1>1, <1>2, <1>3 DEF BatchInv, analytics
<1>4. ASSUME NEW w \in Workers, Read(w) PROVE BatchInv'
  <2>1. PICK n \in 1..BATCH_SIZE :
           /\ delivered + n <= Len(stream) /\ delivered' = delivered + n
           /\ batch' = [batch EXCEPT ![w] = [i \in 1..n |-> delivered + i]]
      BY <1>4 DEF Read
  <2>2. n \in Nat /\ delivered' \in 0..Len(stream') /\ delivered' \in Nat
    <3>1. stream' = stream
        BY <1>4 DEF Read, gateway
    <3>. QED
        BY <1>2, <2>1, <3>1, MetricsAssumption
  <2>. DEFINE new == [i \in 1..n |-> delivered + i]
  <2>3. /\ new \in Seq(1..delivered') /\ IsInjective(new)
        /\ \A i : Contains(new, i) => i \in Nat /\ i > delivered
      BY <1>2, <2>1, <2>2 DEF IsInjective, Contains
  <2>4. \A v \in Workers : batch[v] \in Seq(1..delivered')
    <3>1. \A i \in 1..delivered : i \in 1..delivered'
        BY <1>2, <2>1, <2>2
    <3>2. 1..delivered \subseteq 1..delivered'
        BY <3>1
    <3>. QED
        BY <1>2, <3>2, SeqMonotonic
  <2>5. \A v \in Workers : batch'[v] = IF v = w THEN new ELSE batch[v]
      BY <1>2, <2>1
  <2>. HIDE DEF new
  <2>6. batch' \in [Workers -> Seq(1..delivered')]
    <3>1. batch' = [v \in Workers |-> batch'[v]]
        BY <1>2, <2>1
    <3>. QED
        BY <2>3, <2>4, <2>5, <3>1
  <2>7. counted' \in [1..delivered' -> Nat]
    <3>1. counted' = [i \in 1..delivered' |-> IF i <= delivered THEN counted[i] ELSE 0]
        BY <1>4 DEF Read
    <3>2. \A i \in 1..delivered' : i <= delivered => counted[i] \in Nat
        BY <1>2, <2>2
    <3>. QED
        BY <3>1, <3>2
  <2>8. /\ step' \in [Workers -> {"read", "write", "ack"}] /\ upserted' \in [Workers -> Nat]
        /\ \A v \in Workers : step'[v] = IF v = w THEN "write" ELSE step[v]
      BY <1>2, <1>4 DEF Read
  <2>9. \A v \in Workers : IsInjective(batch'[v]) /\ (step'[v] = "read" => batch'[v] = <<>>)
      BY <1>1, <2>3, <2>5, <2>8 DEF BatchInv
  <2>10. ASSUME NEW u \in Workers, NEW v \in Workers, u # v, NEW i \in 1..delivered'
         PROVE  ~(Contains(batch'[u], i) /\ Contains(batch'[v], i))
    <3>1. \A x \in Workers : Contains(batch[x], i) => i \in 1..delivered
      <4>1. SUFFICES ASSUME NEW x \in Workers, Contains(batch[x], i) PROVE i \in 1..delivered
          OBVIOUS
      <4>2. batch[x] \in Seq(1..delivered)
          BY <1>2
      <4>3. PICK j \in DOMAIN batch[x] : batch[x][j] = i
          BY <4>1 DEF Contains
      <4>. QED
          BY <4>2, <4>3, SeqDomain
    <3>2. CASE u # w /\ v # w
        BY <1>1, <2>5, <2>10, <3>1, <3>2 DEF BatchInv
    <3>3. CASE u = w \/ v = w
        BY <1>2, <2>3, <2>5, <2>10, <3>1, <3>3
    <3>. QED
        BY <3>2, <3>3
  <2>. QED
      BY <2>2, <2>6, <2>7, <2>8, <2>9, <2>10 DEF BatchInv
<1>5. ASSUME NEW w \in Workers, UNCHANGED <<delivered, batch>>,
             counted' \in [1..delivered -> Nat], upserted' \in [Workers -> Nat],
             step' \in [Workers -> {"read", "write", "ack"}],
             \A v \in Workers : step'[v] = "read" => step[v] = "read"
      PROVE  BatchInv'
  <2>1. delivered' \in 0..Len(stream')
      BY <1>2, <1>5
  <2>2. counted' \in [1..delivered' -> Nat] /\ batch' \in [Workers -> Seq(1..delivered')]
      BY <1>2, <1>5
  <2>3. \A v \in Workers : IsInjective(batch'[v]) /\ (step'[v] = "read" => batch'[v] = <<>>)
      BY <1>1, <1>5 DEF BatchInv
  <2>4. \A u, v \in Workers : u # v => \A i \in 1..delivered' :
           ~(Contains(batch'[u], i) /\ Contains(batch'[v], i))
      BY <1>1, <1>5 DEF BatchInv
  <2>. QED
      BY <1>5, <2>1, <2>2, <2>3, <2>4, Zenon DEF BatchInv
<1>6. ASSUME NEW w \in Workers, UpsertRow(w) PROVE BatchInv'
  <2>1. upserted' \in [Workers -> Nat]
    <3>1. upserted[w] + 1 \in Nat
        BY <1>2
    <3>. QED
        BY <1>2, <1>6, <3>1 DEF UpsertRow
  <2>. QED
      BY <1>2, <1>5, <1>6, <2>1 DEF UpsertRow
<1>7. ASSUME NEW w \in Workers, Commit(w) PROVE BatchInv'
  <2>1. counted' \in [1..delivered -> Nat]
    <3>1. counted' = [i \in 1..delivered |->
                         IF Contains(batch[w], i) THEN counted[i] + 1 ELSE counted[i]]
        BY <1>2, <1>7 DEF Commit
    <3>2. \A i \in 1..delivered : counted[i] \in Nat /\ counted[i] + 1 \in Nat
        BY <1>2
    <3>. QED
        BY <3>1, <3>2
  <2>2. /\ step' \in [Workers -> {"read", "write", "ack"}] /\ upserted' \in [Workers -> Nat]
        /\ \A v \in Workers : step'[v] = "read" => step[v] = "read"
      BY <1>2, <1>7 DEF Commit
  <2>. QED
      BY <1>5, <1>7, <2>1, <2>2 DEF Commit
<1>8. ASSUME NEW w \in Workers, Ack(w) PROVE BatchInv'
  <2>1. /\ batch' = [batch EXCEPT ![w] = <<>>] /\ step' = [step EXCEPT ![w] = "read"]
        /\ UNCHANGED <<delivered, stream, upserted, counted>>
      BY <1>8 DEF Ack, gateway
  <2>2. /\ <<>> \in Seq(1..delivered) /\ IsInjective(<<>>) /\ \A i : ~Contains(<<>>, i)
      BY DEF IsInjective, Contains
  <2>3. /\ batch' \in [Workers -> Seq(1..delivered)]
        /\ \A v \in Workers : batch'[v] = IF v = w THEN <<>> ELSE batch[v]
        /\ step' \in [Workers -> {"read", "write", "ack"}]
        /\ \A v \in Workers : v # w => step'[v] = step[v]
      BY <1>2, <2>1, <2>2
  <2>4. \A v \in Workers : IsInjective(batch'[v]) /\ (step'[v] = "read" => batch'[v] = <<>>)
      BY <1>1, <2>2, <2>3 DEF BatchInv
  <2>5. \A u, v \in Workers : u # v => \A i \in 1..delivered :
           ~(Contains(batch'[u], i) /\ Contains(batch'[v], i))
      BY <1>1, <2>2, <2>3 DEF BatchInv
  <2>. QED
      BY <1>2, <2>1, <2>3, <2>4, <2>5 DEF BatchInv
<1>9. ASSUME NEW w \in Workers, Abort(w) PROVE BatchInv'
    BY <1>2, <1>5, <1>9 DEF Abort
<1>10. ASSUME NEW w \in Workers, Crash(w) PROVE BatchInv'
  <2>1. /\ step' \in [Workers -> {"read", "write", "ack"}] /\ upserted' \in [Workers -> Nat]
        /\ \A v \in Workers : step'[v] = "read" => step[v] = "read"
      BY <1>2, <1>10 DEF Crash
  <2>. QED
      BY <1>2, <1>5, <1>10, <2>1 DEF Crash
<1>. QED
    BY <1>1, <1>3, <1>4, <1>6, <1>7, <1>8, <1>9, <1>10 DEF Next, vars

\* The entries of a column are finitely many, and each has been counted some number
\* of times.
LEMMA MineFacts ==
    ASSUME BatchInv, NEW k, NEW c
    PROVE  /\ Mine(k, c) \in SUBSET (1..delivered) /\ IsFiniteSet(Mine(k, c))
           /\ \A i \in Mine(k, c) : counted[i] \in Nat
<1>1. delivered \in Int /\ 1 \in Int /\ counted \in [1..delivered -> Nat]
    BY DEF BatchInv
<1>2. IsFiniteSet(1..delivered)
    BY <1>1, FS_Interval, Zenon
<1>3. Mine(k, c) \in SUBSET (1..delivered)
    BY DEF Mine
<1>. QED
    BY <1>1, <1>2, <1>3, FS_Subset

\* A batch that has no row of a key has no entry of it.
LEMMA NoRowNoEntry ==
    ASSUME GatewayInv, BatchInv, NEW w \in Workers, NEW k \in Keys, NEW c \in Columns,
           ~\E n \in 1..Len(Rows(w)) : Rows(w)[n] = k
    PROVE  Mine(k, c) \cap Batch(w) = {}
<1>1. SUFFICES ASSUME NEW i \in Mine(k, c) \cap Batch(w) PROVE FALSE
    OBVIOUS
<1>2. PICK j \in DOMAIN batch[w] : batch[w][j] = i
    BY DEF Batch, Contains
<1>3. /\ Events(w) \in Seq(Event) /\ j \in DOMAIN Events(w)
      /\ Events(w)[j].key = KeyOf[stream[i]]
  <2>1. /\ Events(w) \in Seq(Event) /\ DOMAIN Events(w) = DOMAIN batch[w]
        /\ \A m \in DOMAIN batch[w], d \in Columns : Events(w)[m].key = KeyOf[stream[batch[w][m]]]
      BY EventsType, Zenon
  <2>. QED
      BY <1>2, <2>1
<1>4. KeyOf[stream[i]] = k
    BY DEF Mine
<1>5. \E n \in 1..Len(RowKeys(Events(w))) : RowKeys(Events(w))[n] = Events(w)[j].key
    BY <1>3, RowKeysCover, Zenon
<1>. QED
    BY <1>3, <1>4, <1>5 DEF Rows

LEMMA TableStart == Init => TableInv
<1>1. SUFFICES ASSUME Init PROVE TableInv
    OBVIOUS
<1>2. table = [k \in Keys |-> NoRow] /\ delivered = 0
    BY <1>1 DEF Init
<1>3. \A k \in Keys, c \in Columns : table[k][c] = 0
    BY <1>2 DEF NoRow, Columns
<1>4. \A k \in Keys, c \in Columns : Mine(k, c) = {}
    BY <1>2 DEF Mine
<1>5. Sum(counted, {}) = 0
    BY SumRecursion, FS_EmptySet
<1>. QED
    BY <1>2, <1>3, <1>4, <1>5 DEF TableInv

LEMMA TableCommit ==
    ASSUME GatewayInv, BatchInv, TableInv, NEW w \in Workers, Commit(w)
    PROVE  TableInv'
<1>1. /\ table' = Merged(w, Len(Rows(w)))
      /\ counted' = [i \in DOMAIN counted |->
                       IF Contains(batch[w], i) THEN counted[i] + 1 ELSE counted[i]]
      /\ UNCHANGED <<delivered, stream, event>>
    BY DEF Commit, gateway
<1>2. DOMAIN table' = Keys
    BY <1>1 DEF Merged
<1>3. ASSUME NEW k \in Keys, NEW c \in Columns
      PROVE  table'[k][c] = Sum(counted', Mine(k, c))
  <2>. DEFINE S == Mine(k, c)
              B == Mine(k, c) \cap Batch(w)
  <2>1. /\ S \in SUBSET (1..delivered) /\ IsFiniteSet(S) /\ \A i \in S : counted[i] \in Nat
        /\ B \in SUBSET S
      BY MineFacts
  <2>2. \A i \in S : counted'[i] = IF i \in B THEN counted[i] + 1 ELSE counted[i]
    <3>1. DOMAIN counted = 1..delivered
        BY DEF BatchInv
    <3>. QED
        BY <1>1, <2>1, <3>1 DEF Batch
  <2>3. table[k][c] = Sum(counted, S)
      BY DEF TableInv
  <2>4. Sum(counted, S) \in Nat
      BY <2>1, SumRecursion
  <2>5. CASE \E n \in 1..Len(Rows(w)) : Rows(w)[n] = k
    <3>1. table'[k] = Upsert(table[k], AggregatedRow(Events(w), k))
        BY <1>1, <2>5 DEF Merged
    <3>2. c \in DOMAIN NoRow
        BY DEF Columns, NoRow
    <3>3. table'[k][c] = table[k][c] + AggregatedRow(Events(w), k)[c]
        BY <3>1, <3>2 DEF Upsert
    <3>4. AggregatedRow(Events(w), k)[c] = Cardinality(B)
        BY BatchColumn, Zenon
    <3>. HIDE DEF S, B
    <3>5. Sum(counted', S) = Sum(counted, S) + Cardinality(B)
        BY <2>1, <2>2, SumCount
    <3>6. table'[k][c] = Sum(counted', S)
        BY <2>3, <3>3, <3>4, <3>5
    <3>. QED
        BY <3>6 DEF S
  <2>6. CASE ~\E n \in 1..Len(Rows(w)) : Rows(w)[n] = k
    <3>1. table'[k] = table[k]
        BY <1>1, <2>6 DEF Merged
    <3>2. B = {}
        BY <2>6, NoRowNoEntry, Zenon
    <3>. HIDE DEF S, B
    <3>3. Sum(counted', S) = Sum(counted, S)
        BY <2>1, <2>2, <3>2, SumEqual
    <3>4. table'[k][c] = Sum(counted', S)
        BY <2>3, <3>1, <3>3
    <3>. QED
        BY <3>4 DEF S
  <2>. QED
      BY <2>5, <2>6
<1>4. \A k \in Keys, c \in Columns : Mine(k, c)' = Mine(k, c)
    BY <1>1 DEF Mine
<1>. QED
    BY <1>2, <1>3, <1>4 DEF TableInv

LEMMA TableRead ==
    ASSUME GatewayInv, BatchInv, BatchInv', TableInv, NEW w \in Workers, Read(w)
    PROVE  TableInv'
<1>1. /\ UNCHANGED <<table, stream, event>> /\ delivered \in Nat /\ delivered' \in Nat
      /\ delivered <= delivered'
      /\ counted' = [i \in 1..delivered' |-> IF i <= delivered THEN counted[i] ELSE 0]
  <2>1. /\ UNCHANGED <<table, stream, event>>
        /\ counted' = [i \in 1..delivered' |-> IF i <= delivered THEN counted[i] ELSE 0]
        /\ \E n \in 1..BATCH_SIZE : delivered' = delivered + n
      BY DEF Read, gateway
  <2>2. stream \in Seq(Requests) /\ Len(stream) \in Nat /\ delivered \in Nat
      BY SeqDomain DEF GatewayInv, GatewayTypes, BatchInv
  <2>. QED
      BY <2>1, <2>2, MetricsAssumption
<1>2. ASSUME NEW k \in Keys, NEW c \in Columns
      PROVE  table'[k][c] = Sum(counted', Mine(k, c)')
  <2>. DEFINE S == Mine(k, c)'
              R == Mine(k, c)
  <2>1. S \in SUBSET (1..delivered') /\ IsFiniteSet(S)
    <3>1. delivered' \in Int /\ 1 \in Int
        BY <1>1
    <3>2. IsFiniteSet(1..delivered')
        BY <3>1, FS_Interval, Zenon
    <3>3. S \in SUBSET (1..delivered')
        BY DEF Mine
    <3>. QED
        BY <3>2, <3>3, FS_Subset
  <2>2. R \in SUBSET S /\ \A i \in S : i <= delivered => i \in R
      BY <1>1 DEF Mine
  <2>3. IsFiniteSet(R) /\ \A i \in R : i \in 1..delivered /\ counted[i] \in Nat
      BY MineFacts
  <2>4. \A i \in S : counted'[i] = IF i \in R THEN counted[i] ELSE 0
    <3>1. \A i \in S : i \in 1..delivered' /\ (i <= delivered <=> i \in R)
        BY <1>1, <2>1, <2>2, <2>3
    <3>. QED
        BY <1>1, <3>1
  <2>5. table'[k][c] = Sum(counted, R)
      BY <1>1 DEF TableInv
  <2>. HIDE DEF S, R
  <2>6. Sum(counted', S) = Sum(counted', R)
    <3>1. /\ \A i \in S : counted'[i] \in Nat
          /\ \A i \in S \ R : counted'[i] = 0
        BY <2>3, <2>4
    <3>. QED
        BY <2>1, <2>2, <3>1, SumExtend
  <2>7. Sum(counted', R) = Sum(counted, R)
    <3>1. \A i \in R : counted'[i] = counted[i]
        BY <2>2, <2>4
    <3>. QED
        BY <2>3, <3>1, SumEqual
  <2>8. table'[k][c] = Sum(counted', S)
      BY <2>5, <2>6, <2>7
  <2>. QED
      BY <2>8 DEF S
<1>3. DOMAIN table' = Keys
    BY <1>1 DEF TableInv
<1>. QED
    BY <1>2, <1>3 DEF TableInv

LEMMA TableStep ==
    GatewayInv /\ GatewayInv' /\ BatchInv /\ BatchInv' /\ TableInv /\ [Next]_vars => TableInv'
<1>1. SUFFICES ASSUME GatewayInv, GatewayInv', BatchInv, BatchInv', TableInv, [Next]_vars
               PROVE  TableInv'
    OBVIOUS
<1>2. ASSUME UNCHANGED <<delivered, table, counted>> PROVE TableInv'
  <2>1. \A i \in 1..delivered : i \in 1..Len(stream)
    <3>1. delivered \in 0..Len(stream) /\ Len(stream) \in Nat
        BY <1>1, EntriesKept DEF BatchInv
    <3>. QED
        BY <3>1
  <2>2. \A i \in 1..delivered : stream'[i] = stream[i] /\ event'[stream[i]] = event[stream[i]]
      BY <1>1, <2>1, EntriesKept
  <2>3. \A k \in Keys, c \in Columns : Mine(k, c)' = Mine(k, c)
      BY <1>2, <2>2 DEF Mine
  <2>. QED
      BY <1>1, <1>2, <2>3 DEF TableInv
<1>3. CASE UNCHANGED analytics
    BY <1>2, <1>3 DEF analytics
<1>4. ASSUME NEW w \in Workers,
             Read(w) \/ UpsertRow(w) \/ Commit(w) \/ Ack(w) \/ Abort(w) \/ Crash(w)
      PROVE  TableInv'
  <2>1. CASE UpsertRow(w) \/ Ack(w) \/ Abort(w) \/ Crash(w)
      BY <1>2, <2>1 DEF UpsertRow, Ack, Abort, Crash
  <2>. QED
      BY <1>1, <1>4, <2>1, TableRead, TableCommit
<1>. QED
    BY <1>1, <1>3, <1>4 DEF Next, vars

-----------------------------------------------------------------------------
(* Counted once, where nothing but deadlocks goes wrong.                    *)

\* Some transaction has yet to count entry i.
Pending(i) == \E w \in Workers : step[w] = "write" /\ Contains(batch[w], i)

LEMMA OnceStart == Init => OnceInv
<1>1. Init => delivered = 0
    BY DEF Init
<1>2. \A i \in 1..0 : FALSE
    OBVIOUS
<1>. QED
    BY <1>1, <1>2 DEF OnceInv

LEMMA FaultsGrow ==
    ASSUME GatewayInv, [Next]_vars, faults' = 0
    PROVE  faults = 0
<1>1. faults \in Nat
    BY DEF GatewayInv, GatewayTypes
<1>2. ASSUME NEW w \in Workers,
             Read(w) \/ UpsertRow(w) \/ Commit(w) \/ Ack(w) \/ Abort(w) \/ Crash(w)
      PROVE  faults' = faults \/ faults' = faults + 1
    BY <1>2 DEF Read, UpsertRow, Commit, Ack, Abort, Crash
<1>3. ASSUME GatewayNext PROVE faults' = faults \/ faults' = faults + 1
    BY <1>3 DEF GatewayNext, Refuse, Block, Forward, UpstreamError, Answer, Xadd, TaskFails, Stop
<1>4. ASSUME UNCHANGED vars PROVE faults' = faults
    BY <1>4 DEF vars
<1>. QED
    BY <1>1, <1>2, <1>3, <1>4 DEF Next

LEMMA OnceRead ==
    ASSUME GatewayInv, BatchInv, OnceInv, faults = 0, NEW w \in Workers, Read(w),
           NEW i \in 1..delivered'
    PROVE  counted'[i] = IF Pending(i)' THEN 0 ELSE 1
<1>1. PICK n \in 1..BATCH_SIZE :
         /\ delivered' = delivered + n
         /\ batch' = [batch EXCEPT ![w] = [j \in 1..n |-> delivered + j]]
    BY DEF Read
<1>2. /\ step[w] = "read" /\ step' = [step EXCEPT ![w] = "write"]
      /\ counted' = [j \in 1..delivered' |-> IF j <= delivered THEN counted[j] ELSE 0]
    BY DEF Read
<1>3. /\ delivered \in Nat /\ n \in Nat /\ i \in Nat /\ delivered' \in Nat
      /\ batch \in [Workers -> Seq(1..delivered)]
      /\ step \in [Workers -> {"read", "write", "ack"}]
  <2>1. /\ delivered \in 0..Len(stream) /\ stream \in Seq(Requests)
        /\ batch \in [Workers -> Seq(1..delivered)]
        /\ step \in [Workers -> {"read", "write", "ack"}]
      BY DEF GatewayInv, GatewayTypes, BatchInv
  <2>2. delivered \in Nat
      BY <2>1, SeqDomain
  <2>3. n \in Nat /\ BATCH_SIZE \in Nat
      BY <1>1, MetricsAssumption
  <2>. QED
      BY <1>1, <2>1, <2>2, <2>3
<1>. DEFINE new == [j \in 1..n |-> delivered + j]
<1>4. Contains(new, i) <=> i > delivered
  <2>1. ASSUME i > delivered PROVE Contains(new, i)
    <3>1. i - delivered \in 1..n /\ delivered + (i - delivered) = i
        BY <1>1, <1>3, <2>1
    <3>2. new[i - delivered] = i
        BY <3>1
    <3>3. DOMAIN new = 1..n
        OBVIOUS
    <3>. HIDE DEF new
    <3>. QED
        BY <3>1, <3>2, <3>3 DEF Contains
  <2>2. ASSUME Contains(new, i) PROVE i > delivered
      BY <1>3, <2>2 DEF Contains
  <2>. QED
      BY <2>1, <2>2
<1>5. /\ batch'[w] = new /\ step'[w] = "write"
      /\ \A v \in Workers : v # w => batch'[v] = batch[v] /\ step'[v] = step[v]
    BY <1>1, <1>2, <1>3
<1>. HIDE DEF new
<1>6. CASE i <= delivered
  <2>1. i \in 1..delivered /\ ~(i > delivered) /\ counted'[i] = counted[i]
      BY <1>2, <1>3, <1>6
  <2>2. Pending(i)' <=> Pending(i)
      BY <1>2, <1>4, <1>5, <2>1 DEF Pending
  <2>3. counted[i] = IF Pending(i) THEN 0 ELSE 1
      BY <2>1 DEF OnceInv, Pending
  <2>. QED
      BY <2>1, <2>2, <2>3
<1>7. CASE i > delivered
  <2>1. counted'[i] = 0
      BY <1>2, <1>3, <1>7
  <2>2. Pending(i)'
      BY <1>4, <1>5, <1>7 DEF Pending
  <2>. QED
      BY <2>1, <2>2
<1>. QED
    BY <1>3, <1>6, <1>7

LEMMA OnceCommit ==
    ASSUME BatchInv, OnceInv, faults = 0, NEW w \in Workers, Commit(w), NEW i \in 1..delivered
    PROVE  counted'[i] = IF Pending(i)' THEN 0 ELSE 1
<1>1. /\ step[w] = "write" /\ step' = [step EXCEPT ![w] = "ack"] /\ batch' = batch
      /\ counted' = [j \in DOMAIN counted |->
                       IF Contains(batch[w], j) THEN counted[j] + 1 ELSE counted[j]]
    BY DEF Commit
<1>2. /\ DOMAIN counted = 1..delivered /\ step \in [Workers -> {"read", "write", "ack"}]
      /\ \A v \in Workers : v # w => ~(Contains(batch[v], i) /\ Contains(batch[w], i))
    BY DEF BatchInv
<1>3. step'[w] = "ack" /\ \A v \in Workers : v # w => step'[v] = step[v]
    BY <1>1, <1>2
<1>4. counted'[i] = IF Contains(batch[w], i) THEN counted[i] + 1 ELSE counted[i]
    BY <1>1, <1>2
<1>5. counted[i] = IF Pending(i) THEN 0 ELSE 1
    BY DEF OnceInv, Pending
<1>6. CASE Contains(batch[w], i)
  <2>1. Pending(i) /\ ~Pending(i)'
      BY <1>1, <1>2, <1>3, <1>6 DEF Pending
  <2>. QED
      BY <1>4, <1>5, <1>6, <2>1
<1>7. CASE ~Contains(batch[w], i)
  <2>1. Pending(i)' <=> Pending(i)
      BY <1>1, <1>3, <1>7 DEF Pending
  <2>. QED
      BY <1>4, <1>5, <1>7, <2>1
<1>. QED
    BY <1>6, <1>7

LEMMA OnceStep == GatewayInv /\ BatchInv /\ OnceInv /\ [Next]_vars => OnceInv'
<1>1. SUFFICES ASSUME GatewayInv, BatchInv, OnceInv, [Next]_vars, faults' = 0,
                      NEW i \in 1..delivered'
               PROVE  counted'[i] = IF Pending(i)' THEN 0 ELSE 1
    BY DEF OnceInv, Pending
<1>2. faults = 0
    BY <1>1, FaultsGrow
<1>3. ASSUME UNCHANGED <<delivered, counted>>, Pending(i)' <=> Pending(i)
      PROVE  counted'[i] = IF Pending(i)' THEN 0 ELSE 1
  <2>1. counted[i] = IF Pending(i) THEN 0 ELSE 1
      BY <1>1, <1>2, <1>3 DEF OnceInv, Pending
  <2>. QED
      BY <1>3, <2>1
<1>4. CASE UNCHANGED analytics
    BY <1>3, <1>4 DEF analytics, Pending
<1>5. ASSUME NEW w \in Workers,
             Read(w) \/ UpsertRow(w) \/ Commit(w) \/ Ack(w) \/ Abort(w) \/ Crash(w)
      PROVE  counted'[i] = IF Pending(i)' THEN 0 ELSE 1
  <2>1. CASE Read(w)
      BY <1>1, <1>2, <2>1, OnceRead
  <2>2. CASE Commit(w)
    <3>1. delivered' = delivered
        BY <2>2 DEF Commit
    <3>. QED
        BY <1>1, <1>2, <2>2, <3>1, OnceCommit
  <2>3. CASE UpsertRow(w) \/ Abort(w)
      BY <1>3, <2>3 DEF UpsertRow, Abort, Pending
  <2>4. CASE Ack(w)
    <3>1. /\ step[w] = "ack" /\ step' = [step EXCEPT ![w] = "read"]
          /\ batch' = [batch EXCEPT ![w] = <<>>] /\ UNCHANGED <<delivered, counted>>
        BY <2>4 DEF Ack
    <3>2. /\ step'[w] = "read"
          /\ \A v \in Workers : v # w => step'[v] = step[v] /\ batch'[v] = batch[v]
        BY <1>1, <3>1 DEF BatchInv
    <3>3. Pending(i)' <=> Pending(i)
        BY <3>1, <3>2 DEF Pending
    <3>. QED
        BY <1>3, <3>1, <3>3
  <2>5. CASE Crash(w)
    <3>1. faults' = faults + 1
        BY <2>5 DEF Crash
    <3>. QED
        BY <1>1, <1>2, <3>1
  <2>. QED
      BY <1>5, <2>1, <2>2, <2>3, <2>4, <2>5
<1>. QED
    BY <1>1, <1>4, <1>5 DEF Next, vars

\* The whole inductive invariant.
MetricsInv == GatewayInv /\ BatchInv /\ TableInv /\ OnceInv

LEMMA MetricsInvariant == Spec => []MetricsInv
<1>1. Init => MetricsInv
    BY GatewayStart, BatchStart, TableStart, OnceStart DEF MetricsInv
<1>2. MetricsInv /\ [Next]_vars => MetricsInv'
    BY GatewayStep, BatchStep, TableStep, OnceStep DEF MetricsInv
<1>. QED
    BY <1>1, <1>2, PTL DEF Spec

\* TableExact: each row of request_metrics is the sum over the events of its key,
\* each as often as a flush_batch transaction that included it committed.
THEOREM TableExactCorrect == Spec => []TableExact
<1>1. MetricsInv => TableExact
  <2>1. SUFFICES ASSUME MetricsInv, NEW k \in Keys
                 PROVE  LET mine == {i \in 1..delivered : KeyOf[stream[i]] = k}
                        IN  /\ table[k].total = Sum(counted, {i \in mine : TRUE})
                            /\ table[k].blocked =
                                  Sum(counted, {i \in mine : event[stream[i]].limited})
                            /\ table[k].s2xx =
                                  Sum(counted, {i \in mine : event[stream[i]].status \in 200..299})
                            /\ table[k].s4xx =
                                  Sum(counted, {i \in mine : event[stream[i]].status \in 400..499})
                            /\ table[k].s5xx =
                                  Sum(counted, {i \in mine : event[stream[i]].status >= 500})
      BY DEF TableExact, Sum
  <2>. DEFINE mine == {i \in 1..delivered : KeyOf[stream[i]] = k}
  <2>2. /\ Mine(k, "total") = {i \in mine : TRUE}
        /\ Mine(k, "blocked") = {i \in mine : event[stream[i]].limited}
        /\ Mine(k, "s2xx") = {i \in mine : event[stream[i]].status \in 200..299}
        /\ Mine(k, "s4xx") = {i \in mine : event[stream[i]].status \in 400..499}
        /\ Mine(k, "s5xx") = {i \in mine : event[stream[i]].status >= 500}
      BY DEF Mine, InColumn
  <2>3. \A c \in {"total", "blocked", "s2xx", "s4xx", "s5xx"} :
           table[k][c] = Sum(counted, Mine(k, c))
      BY <2>1 DEF MetricsInv, TableInv, Columns
  <2>. QED
      BY <2>2, <2>3
<1>. QED
    BY <1>1, MetricsInvariant, PTL

\* The events of a column that were made.
MadeIn(c) == {r \in Made : InColumn(c, event[r])}

\* Once everything is flushed, a column of the table counts the events that were made.
LEMMA SettledColumn ==
    ASSUME MetricsInv, Settled, NEW c \in Columns
    PROVE  SumFunction([k \in Keys |-> table[k][c]]) = Cardinality(MadeIn(c))
<1>. DEFINE D == {i \in 1..delivered : InColumn(c, event[stream[i]])}
            h == [i \in D |-> KeyOf[stream[i]]]
            g == [k \in Keys |-> table[k][c]]
            b == [i \in D |-> stream[i]]
<1>1. /\ stream \in Seq(Requests) /\ delivered = Len(stream) /\ DOMAIN stream = 1..delivered
      /\ delivered \in Nat /\ IsInjective(stream)
      /\ \A i \in 1..delivered : stream[i] \in Requests /\ Contains(stream, stream[i])
  <2>1. stream \in Seq(Requests) /\ delivered = Len(stream) /\ IsInjective(stream)
      BY DEF MetricsInv, GatewayInv, GatewayTypes, EventInv, Settled
  <2>. QED
      BY <2>1, SeqDomain DEF Contains
<1>2. \A i \in 1..delivered : counted[i] = 1
  <2>1. \A i \in 1..delivered : ~Pending(i)
      BY DEF Settled, Pending
  <2>. QED
      BY <2>1 DEF MetricsInv, OnceInv, Settled, Pending
<1>3. \A r \in Requests : r \in Made <=> Contains(stream, r)
    BY DEF MetricsInv, GatewayInv, EventInv, Accounted, Settled, Made
<1>4. IsFiniteSet(D)
  <2>1. 1 \in Int /\ delivered \in Int
      BY <1>1
  <2>2. IsFiniteSet(1..delivered)
      BY <2>1, FS_Interval, Zenon
  <2>. QED
      BY <2>2, FS_Subset
<1>5. \A k \in Keys : g[k] = Cardinality({i \in D : h[i] = k})
  <2>1. SUFFICES ASSUME NEW k \in Keys PROVE g[k] = Cardinality({i \in D : h[i] = k})
      OBVIOUS
  <2>2. g[k] = Sum(counted, Mine(k, c))
      BY DEF MetricsInv, TableInv
  <2>3. Sum(counted, Mine(k, c)) = Cardinality(Mine(k, c))
    <3>1. IsFiniteSet(Mine(k, c)) /\ \A i \in Mine(k, c) : counted[i] = 1
        BY <1>2, MineFacts DEF MetricsInv
    <3>. QED
        BY <3>1, SumOnes
  <2>4. Mine(k, c) = {i \in D : h[i] = k}
      BY DEF Mine
  <2>. QED
      BY <2>2, <2>3, <2>4
<1>6. \A i \in D : h[i] \in Keys
    BY <1>1, GatewayAssumption
<1>7. b \in [D -> MadeIn(c)]
    BY <1>1, <1>3 DEF MadeIn
<1>8. IsInjective(b)
    BY <1>1 DEF IsInjective
<1>9. \A r \in MadeIn(c) : \E i \in D : b[i] = r
    BY <1>1, <1>3 DEF MadeIn, Made, Contains
<1>10. SumFunction(g) = Sum(g, Keys)
    BY DEF SumFunction, Sum
<1>. HIDE DEF D, h, g, b
<1>11. Sum(g, Keys) = Cardinality(D)
  <2>1. PartSizes(g, Keys, D, h)
      BY <1>5, <1>6 DEF PartSizes
  <2>2. IsFiniteSet(Keys)
      BY GatewayAssumption
  <2>. QED
      BY <1>4, <2>1, <2>2, SumParts, Zenon
<1>12. Cardinality(MadeIn(c)) = Cardinality(D)
  <2>1. ExistsBijection(D, MadeIn(c))
      BY <1>7, <1>8, <1>9 DEF ExistsBijection, Bijection, Injection, Surjection, IsInjective
  <2>. QED
      BY <1>4, <2>1, FS_Bijection
<1>. QED
    BY <1>10, <1>11, <1>12 DEF g

\* SourcesAgree: once every batch is flushed, and if nothing but deadlocks went wrong,
\* the columns of request_metrics and the counters of /metrics say the same, whatever
\* the upstream answers: status_5xx is the sum of the classes "5xx" to "9xx".
THEOREM SourcesAgreeCorrect == Spec => []SourcesAgree
<1>1. MetricsInv => SourcesAgree
  <2>1. SUFFICES ASSUME MetricsInv, Settled
                 PROVE  LET Column(column) == SumFunction([k \in Keys |-> table[k][column]])
                        IN  /\ Column("total") = SumFunction(requestsTotal)
                            /\ Column("s2xx") = requestsTotal[2]
                            /\ Column("s4xx") = requestsTotal[4]
                            /\ Column("s5xx") = Sum(requestsTotal, 5..9)
                            /\ Column("blocked") = rateLimitHits
      BY DEF SourcesAgree, Sum
  <2>. DEFINE Column(column) == SumFunction([k \in Keys |-> table[k][column]])
              High == 5..9
  <2>2. \A c \in Columns : Column(c) = Cardinality(MadeIn(c))
      BY <2>1, SettledColumn
  <2>3. /\ "total" \in Columns /\ "s2xx" \in Columns /\ "s4xx" \in Columns
        /\ "s5xx" \in Columns /\ "blocked" \in Columns
      BY DEF Columns
  <2>4. \A r \in Made : r \in Requests /\ task[r] # "none" /\ event[r].status \in StatusCodes
    <3>1. GatewayInv /\ \A r \in Made : task[r] # "none"
        BY <2>1 DEF MetricsInv, Made
    <3>. QED
        BY <3>1, StatusOfMade
  <2>5. /\ \A s \in StatusCodes : s \in 200..299 <=> s \div 100 = 2
        /\ \A s \in StatusCodes : s \in 400..499 <=> s \div 100 = 4
        /\ \A s \in StatusCodes : s >= 500 <=> s \div 100 \in High
    <3>1. \A s \in StatusCodes : s \in 200..299 <=> s \div 100 = 2
        BY DEF StatusCodes
    <3>2. \A s \in StatusCodes : s \in 400..499 <=> s \div 100 = 4
        BY DEF StatusCodes
    <3>3. \A s \in StatusCodes : s >= 500 <=> s \div 100 \in High
        BY DEF StatusCodes
    <3>. QED
        BY <3>1, <3>2, <3>3
  <2>6. MadeIn("total") = Made /\ MadeIn("blocked") = Blocked
      BY DEF MadeIn, InColumn, Made, Blocked
  <2>7. /\ MadeIn("s2xx") = OfClass(2) /\ MadeIn("s4xx") = OfClass(4)
        /\ MadeIn("s5xx") = {r \in Made : event[r].status \div 100 \in High}
    <3>1. /\ MadeIn("s2xx") = {r \in Made : event[r].status \in 200..299}
          /\ MadeIn("s4xx") = {r \in Made : event[r].status \in 400..499}
          /\ MadeIn("s5xx") = {r \in Made : event[r].status >= 500}
        BY DEF MadeIn, InColumn
    <3>2. \A d : OfClass(d) = {r \in Made : event[r].status \div 100 = d}
        BY DEF OfClass, Made
    <3>3. ASSUME NEW r \in Made
          PROVE  /\ event[r].status \in 200..299 <=> event[r].status \div 100 = 2
                 /\ event[r].status \in 400..499 <=> event[r].status \div 100 = 4
                 /\ event[r].status >= 500 <=> event[r].status \div 100 \in High
      <4>. DEFINE s == event[r].status
      <4>1. s \in StatusCodes
          BY <2>4
      <4>. HIDE DEF s
      <4>2. s \in 200..299 <=> s \div 100 = 2
          BY <2>5, <4>1
      <4>3. s \in 400..499 <=> s \div 100 = 4
          BY <2>5, <4>1
      <4>4. s >= 500 <=> s \div 100 \in High
          BY <2>5, <4>1
      <4>. QED
          BY <4>2, <4>3, <4>4 DEF s
    <3>4. OfClass(2) = {r \in Made : event[r].status \in 200..299}
        BY <3>2, <3>3
    <3>5. OfClass(4) = {r \in Made : event[r].status \in 400..499}
        BY <3>2, <3>3
    <3>6. {r \in Made : event[r].status \div 100 \in High} = {r \in Made : event[r].status >= 500}
        BY <3>3
    <3>. QED
        BY <3>1, <3>4, <3>5, <3>6
  <2>. HIDE DEF Column, High
  <2>8. /\ requestsTotal[2] = Cardinality(OfClass(2)) /\ requestsTotal[4] = Cardinality(OfClass(4))
        /\ rateLimitHits = Cardinality(Blocked)
      BY <2>1 DEF MetricsInv, GatewayInv, CounterInv, StatusClasses
  <2>9. /\ SumFunction(requestsTotal) = Cardinality(Made)
        /\ Sum(requestsTotal, High) = Cardinality({r \in Made : event[r].status \div 100 \in High})
    <3>1. GatewayInv /\ High \in SUBSET StatusClasses
        BY <2>1 DEF MetricsInv, StatusClasses, High
    <3>. QED
        BY <3>1, RequestsAddUp, ClassesAddUp
  <2>10. /\ Column("total") = SumFunction(requestsTotal)
         /\ Column("s2xx") = requestsTotal[2] /\ Column("s4xx") = requestsTotal[4]
         /\ Column("s5xx") = Sum(requestsTotal, High) /\ Column("blocked") = rateLimitHits
      BY <2>2, <2>3, <2>6, <2>7, <2>8, <2>9
  <2>. QED
      BY <2>10 DEF Column, High
<1>. QED
    BY <1>1, MetricsInvariant, PTL

-----------------------------------------------------------------------------
(* Percentiles.                                                             *)

\* f lists the elements of I in the order of what lat says of them.
Orders(f, I, lat) ==
    /\ f \in Bijection(1..Cardinality(I), I)
    /\ \A a, b \in 1..Cardinality(I) : a < b => lat[f[a]] <= lat[f[b]]

\* The least sample first, then the others in their order.
LEMMA OrdersExtend ==
    ASSUME NEW T, IsFiniteSet(T), NEW m \in T, NEW lat,
           \A i \in T : lat[i] \in Nat /\ lat[m] <= lat[i],
           NEW g, Orders(g, T \ {m}, lat)
    PROVE  \E f : Orders(f, T, lat)
<1>. DEFINE n == Cardinality(T)
            U == T \ {m}
            f == [a \in 1..n |-> IF a = 1 THEN m ELSE g[a - 1]]
<1>1. n \in Nat /\ IsFiniteSet(U) /\ Cardinality(U) = n - 1 /\ n >= 1
    BY FS_RemoveElement, FS_CardinalityType, FS_EmptySet
<1>2. /\ g \in [1..(n - 1) -> U]
      /\ \A a, b \in 1..(n - 1) : g[a] = g[b] => a = b
      /\ \A i \in U : \E a \in 1..(n - 1) : g[a] = i
      /\ \A a, b \in 1..(n - 1) : a < b => lat[g[a]] <= lat[g[b]]
    BY <1>1 DEF Orders, Bijection, Injection, Surjection, IsInjective
<1>. HIDE DEF n, U
<1>3. \A a \in 1..n : a # 1 => a - 1 \in 1..(n - 1) /\ g[a - 1] \in U
    BY <1>1, <1>2
<1>4. \A i \in U : i \in T /\ i # m
    BY DEF U
<1>5. f \in [1..n -> T]
    BY <1>3, <1>4
<1>6. f[1] = m /\ \A a \in 1..n : a # 1 => f[a] = g[a - 1]
    BY <1>1
<1>. HIDE DEF f
<1>7. IsInjective(f)
  <2>1. SUFFICES ASSUME NEW a \in 1..n, NEW b \in 1..n, f[a] = f[b] PROVE a = b
      BY <1>5 DEF IsInjective
  <2>2. CASE a = 1 \/ b = 1
      BY <1>3, <1>4, <1>6, <2>1, <2>2
  <2>3. CASE a # 1 /\ b # 1
    <3>1. a - 1 = b - 1
        BY <1>2, <1>3, <1>6, <2>1, <2>3
    <3>. QED
        BY <1>1, <3>1
  <2>. QED
      BY <2>2, <2>3
<1>8. \A i \in T : \E a \in 1..n : f[a] = i
  <2>1. SUFFICES ASSUME NEW i \in T PROVE \E a \in 1..n : f[a] = i
      OBVIOUS
  <2>2. CASE i = m
      BY <1>1, <1>6, <2>2
  <2>3. CASE i # m
    <3>1. PICK a \in 1..(n - 1) : g[a] = i
        BY <1>2, <2>3 DEF U
    <3>2. a + 1 \in 1..n /\ a + 1 # 1 /\ (a + 1) - 1 = a
        BY <1>1
    <3>3. f[a + 1] = i
        BY <1>6, <3>1, <3>2
    <3>. QED
        BY <3>2, <3>3
  <2>. QED
      BY <2>2, <2>3
<1>9. \A a, b \in 1..n : a < b => lat[f[a]] <= lat[f[b]]
  <2>1. SUFFICES ASSUME NEW a \in 1..n, NEW b \in 1..n, a < b PROVE lat[f[a]] <= lat[f[b]]
      OBVIOUS
  <2>2. b # 1
      BY <1>1, <2>1
  <2>3. CASE a = 1
      BY <1>5, <1>6, <2>3
  <2>4. CASE a # 1
    <3>1. /\ a - 1 \in 1..(n - 1) /\ b - 1 \in 1..(n - 1) /\ a - 1 < b - 1
          /\ f[a] = g[a - 1] /\ f[b] = g[b - 1]
        BY <1>1, <1>3, <1>6, <2>1, <2>2, <2>4
    <3>. QED
        BY <1>2, <3>1
  <2>. QED
      BY <2>3, <2>4
<1>10. Orders(f, T, lat)
    BY <1>5, <1>7, <1>8, <1>9 DEF Orders, Bijection, Injection, Surjection, n
<1>. QED
    BY <1>10

\* Finitely many samples can be sorted.
LEMMA OrdersExist ==
    ASSUME NEW I, IsFiniteSet(I), NEW lat, \A i \in I : lat[i] \in Nat
    PROVE  \E f : Orders(f, I, lat)
<1>. DEFINE Q == {T \in SUBSET I : \E f : Orders(f, T, lat)}
<1>1. ASSUME NEW T \in SUBSET I, \A U \in SUBSET T : U # T => U \in Q
      PROVE  T \in Q
  <2>1. IsFiniteSet(T)
      BY FS_Subset
  <2>2. CASE T = {}
    <3>1. Cardinality({}) = 0
        BY FS_EmptySet
    <3>2. \A a \in 1..0 : FALSE
        OBVIOUS
    <3>3. Orders(<<>>, {}, lat)
        BY <3>1, <3>2 DEF Orders, Bijection, Injection, Surjection, IsInjective
    <3>. QED
        BY <2>2, <3>3
  <2>3. CASE T # {}
    <3>. DEFINE L == {lat[i] : i \in T}
    <3>1. L \in SUBSET Nat /\ L # {}
        BY <2>3
    <3>2. PICK x \in L : \A y \in L : x <= y
        BY <3>1, LeastNumber
    <3>3. PICK m \in T : lat[m] = x
        BY <3>2
    <3>4. \A i \in T : lat[i] \in Nat /\ lat[m] <= lat[i]
        BY <3>2, <3>3
    <3>5. T \ {m} \in Q
        BY <1>1
    <3>6. PICK g : Orders(g, T \ {m}, lat)
        BY <3>5
    <3>7. \E f : Orders(f, T, lat)
        BY <2>1, <3>4, <3>6, OrdersExtend, Zenon
    <3>. QED
        BY <3>7
  <2>. QED
      BY <2>2, <2>3
<1>. HIDE DEF Q
<1>2. \A T \in SUBSET I : T \in Q
    BY <1>1, SubsetInduction
<1>3. I \in Q
    BY <1>2
<1>. QED
    BY <1>3 DEF Q

\* The nearest rank is the least number that makes the share.
LEMMA RankFacts ==
    ASSUME NEW n \in Nat \ {0}
    PROVE  /\ Rank(P50, n) \in 1..n /\ Rank(P99, n) \in 1..n /\ Rank(P50, n) <= Rank(P99, n)
           /\ \A p \in {P50, P99} : /\ Rank(p, n) * p[2] >= p[1] * n
                                    /\ (Rank(p, n) - 1) * p[2] < p[1] * n
<1>1. P50[1] = 50 /\ P50[2] = 100 /\ P99[1] = 99 /\ P99[2] = 100
    BY DEF P50, P99
<1>2. Rank(P50, n) = (50 * n + 99) \div 100 /\ Rank(P99, n) = (99 * n + 99) \div 100
    BY <1>1 DEF Rank
<1>3. /\ (50 * n + 99) \div 100 \in 1..n /\ (99 * n + 99) \div 100 \in 1..n
      /\ (50 * n + 99) \div 100 <= (99 * n + 99) \div 100
    OBVIOUS
<1>4. /\ ((50 * n + 99) \div 100) * 100 >= 50 * n
      /\ ((50 * n + 99) \div 100 - 1) * 100 < 50 * n
      /\ ((99 * n + 99) \div 100) * 100 >= 99 * n
      /\ ((99 * n + 99) \div 100 - 1) * 100 < 99 * n
    OBVIOUS
<1>. QED
    BY <1>1, <1>2, <1>3, <1>4

\* The first r of a list without repetitions are r elements.
LEMMA PrefixSize ==
    ASSUME NEW n \in Nat, NEW I, NEW f \in Bijection(1..n, I), NEW r \in 0..n
    PROVE  Cardinality({f[a] : a \in 1..r}) = r
<1>. DEFINE A == {f[a] : a \in 1..r}
            g == [a \in 1..r |-> f[a]]
<1>1. \A a, b \in 1..n : f[a] = f[b] => a = b
    BY DEF Bijection, Injection, IsInjective
<1>2. \A a \in 1..r : a \in 1..n
    OBVIOUS
<1>3. g \in Bijection(1..r, A)
    BY <1>1, <1>2 DEF Bijection, Injection, Surjection, IsInjective
<1>4. r \in Nat
    OBVIOUS
<1>. HIDE DEF A, g
<1>5. ExistsBijection(1..r, A)
    BY <1>3 DEF ExistsBijection
<1>6. Cardinality(A) = r
    BY <1>4, <1>5, FS_CountingElements
<1>. QED
    BY <1>6 DEF A

\* s is the list of samples that f orders.
Sorted(s, f, I, lat) ==
    /\ IsFiniteSet(I) /\ \A i \in I : lat[i] \in Nat
    /\ Orders(f, I, lat)
    /\ s = [a \in 1..Cardinality(I) |-> lat[f[a]]]

\* percentile(lat, p) on a sorted list is a percentile of the samples.
LEMMA PercentileCorrect ==
    ASSUME NEW s, NEW f, NEW I, NEW lat, Sorted(s, f, I, lat), DOMAIN lat = I, I # {},
           NEW p \in {P50, P99}
    PROVE  IsPercentile(lat, p, Percentile(s, p))
<1>. DEFINE n == Cardinality(I)
            r == Rank(p, n)
            v == lat[f[r]]
            AtMost(x) == {i \in I : lat[i] <= x}
<1>1. n \in Nat \ {0}
    BY FS_CardinalityType, FS_EmptySet DEF Sorted
<1>2. /\ \A a \in 1..n : f[a] \in I
      /\ \A i \in I : \E a \in 1..n : f[a] = i
      /\ \A a, b \in 1..n : a < b => lat[f[a]] <= lat[f[b]]
      /\ \A i \in I : lat[i] \in Nat
      /\ f \in Bijection(1..n, I)
    BY DEF Sorted, Orders, Bijection, Injection, Surjection
<1>3. Len(s) = n /\ \A a \in 1..n : s[a] = lat[f[a]]
    BY <1>1 DEF Sorted
<1>. HIDE DEF n
<1>4. r \in 1..n /\ r * p[2] >= p[1] * n /\ (r - 1) * p[2] < p[1] * n
    BY <1>1, RankFacts
<1>5. Percentile(s, p) = v
    BY <1>3, <1>4 DEF Percentile
<1>6. p[1] \in Nat /\ p[2] = 100
    BY DEF P50, P99
<1>. HIDE DEF r
<1>7. \A x : IsFiniteSet(AtMost(x)) /\ Cardinality(AtMost(x)) \in Nat
  <2>1. \A x : AtMost(x) \in SUBSET I
      OBVIOUS
  <2>2. IsFiniteSet(I)
      BY DEF Sorted
  <2>. HIDE DEF AtMost
  <2>. QED
      BY <2>1, <2>2, FS_Subset, FS_CardinalityType
<1>8. Cardinality(AtMost(v)) >= r
  <2>1. Cardinality({f[a] : a \in 1..r}) = r
    <3>1. r \in 0..n /\ n \in Nat
        BY <1>1, <1>4
    <3>. QED
        BY <1>2, <3>1, PrefixSize
  <2>2. {f[a] : a \in 1..r} \in SUBSET AtMost(v)
    <3>1. SUFFICES ASSUME NEW a \in 1..r PROVE f[a] \in I /\ lat[f[a]] <= lat[f[r]]
        OBVIOUS
    <3>2. a \in 1..n /\ (a < r \/ a = r)
        BY <1>1, <1>4
    <3>3. lat[f[r]] \in Nat
        BY <1>2, <1>4
    <3>. QED
        BY <1>2, <1>4, <3>2, <3>3
  <2>. HIDE DEF AtMost, v
  <2>. QED
      BY <1>7, <2>1, <2>2, FS_Subset
<1>9. ASSUME NEW i \in I, lat[i] < v PROVE Cardinality(AtMost(lat[i])) <= r - 1
  <2>1. Cardinality({f[a] : a \in 1..(r - 1)}) = r - 1
    <3>1. r - 1 \in 0..n /\ n \in Nat
        BY <1>1, <1>4
    <3>. QED
        BY <1>2, <3>1, PrefixSize
  <2>2. AtMost(lat[i]) \in SUBSET {f[a] : a \in 1..(r - 1)}
    <3>1. SUFFICES ASSUME NEW j \in I, lat[j] <= lat[i] PROVE \E a \in 1..(r - 1) : f[a] = j
        OBVIOUS
    <3>2. PICK a \in 1..n : f[a] = j
        BY <1>2
    <3>3. lat[j] \in Nat /\ lat[i] \in Nat /\ lat[f[r]] \in Nat
        BY <1>2, <1>4
    <3>4. ~(r < a) /\ r # a
        BY <1>2, <1>4, <1>9, <3>1, <3>2, <3>3
    <3>5. a \in 1..(r - 1)
        BY <1>1, <1>4, <3>4
    <3>. QED
        BY <3>2, <3>5
  <2>3. IsFiniteSet({f[a] : a \in 1..(r - 1)})
    <3>1. {f[a] : a \in 1..(r - 1)} \in SUBSET I
        BY <1>1, <1>2, <1>4
    <3>2. IsFiniteSet(I)
        BY DEF Sorted
    <3>. QED
        BY <3>1, <3>2, FS_Subset
  <2>. HIDE DEF AtMost
  <2>. QED
      BY <2>1, <2>2, <2>3, FS_Subset
<1>10. v \in Range(lat)
  <2>1. f[r] \in DOMAIN lat
      BY <1>2, <1>4
  <2>. QED
      BY <2>1 DEF Range
<1>. HIDE DEF v
<1>11. Cardinality(AtMost(v)) * p[2] >= p[1] * n
  <2>. HIDE DEF AtMost
  <2>. QED
      BY <1>1, <1>4, <1>6, <1>7, <1>8
<1>12. \A i \in I : lat[i] < v => ~(Cardinality(AtMost(lat[i])) * p[2] >= p[1] * n)
  <2>1. SUFFICES ASSUME NEW i \in I, lat[i] < v
                 PROVE  ~(Cardinality(AtMost(lat[i])) * p[2] >= p[1] * n)
      OBVIOUS
  <2>2. Cardinality(AtMost(lat[i])) <= r - 1
      BY <1>9, <2>1
  <2>. HIDE DEF AtMost
  <2>. QED
      BY <1>1, <1>4, <1>6, <1>7, <2>2
<1>. QED
    BY <1>5, <1>10, <1>11, <1>12 DEF IsPercentile, n

\* The samples of a row of a batch.
RowSamples(events, k) == [i \in Unblocked(events, k) |-> events[i].latency]

LEMMA LatenciesSorted ==
    ASSUME NEW events \in Seq(Event), NEW k
    PROVE  \E f : Sorted(Latencies(events, k), f, Unblocked(events, k), RowSamples(events, k))
<1>. DEFINE I == Unblocked(events, k)
            lat == RowSamples(events, k)
            ranks == 1..Cardinality(I)
            Order(f) == \A a, b \in ranks : a < b => events[f[a]].latency <= events[f[b]].latency
            order == CHOOSE f \in Bijection(ranks, I) : Order(f)
<1>1. IsFiniteSet(I) /\ I \in SUBSET DOMAIN events
  <2>1. /\ 1 \in Int /\ Len(events) \in Int /\ DOMAIN events = 1..Len(events)
      BY LenProperties
  <2>2. IsFiniteSet(1..Len(events))
      BY <2>1, FS_Interval, Zenon
  <2>3. I \in SUBSET DOMAIN events
      BY DEF Unblocked
  <2>. QED
      BY <2>1, <2>2, <2>3, FS_Subset
<1>2. \A i \in I : lat[i] = events[i].latency /\ lat[i] \in Nat
  <2>1. \A i \in DOMAIN events : events[i] \in Event
      BY LenProperties
  <2>2. \A e \in Event : e.latency \in Nat
      BY DEF Event
  <2>3. \A i \in I : lat[i] = events[i].latency
      BY DEF RowSamples
  <2>. QED
      BY <1>1, <2>1, <2>2, <2>3
<1>. HIDE DEF I, lat
<1>3. \A f \in Bijection(ranks, I) : \A a \in ranks : f[a] \in I
    BY DEF Bijection, Injection
<1>4. \A f : Orders(f, I, lat) <=> f \in Bijection(ranks, I) /\ Order(f)
  <2>1. SUFFICES ASSUME NEW f, f \in Bijection(ranks, I)
                 PROVE  (\A a, b \in ranks : a < b => lat[f[a]] <= lat[f[b]]) <=> Order(f)
      BY DEF Orders
  <2>2. \A a \in ranks : lat[f[a]] = events[f[a]].latency
      BY <1>2, <1>3, <2>1
  <2>. QED
      BY <2>2
<1>5. \E f \in Bijection(ranks, I) : Order(f)
  <2>1. \E f : Orders(f, I, lat)
      BY <1>1, <1>2, OrdersExist
  <2>. QED
      BY <1>4, <2>1
<1>6. order \in Bijection(ranks, I) /\ Order(order)
    BY <1>5, Zenon
<1>7. Orders(order, I, lat)
    BY <1>4, <1>6, Zenon
<1>8. Latencies(events, k) = [a \in ranks |-> events[order[a]].latency]
    BY DEF Latencies, I
<1>. HIDE DEF order
<1>9. Latencies(events, k) = [a \in ranks |-> lat[order[a]]]
  <2>1. \A a \in ranks : lat[order[a]] = events[order[a]].latency
      BY <1>2, <1>3, <1>6
  <2>. QED
      BY <1>8, <2>1
<1>10. Sorted(Latencies(events, k), order, I, lat)
    BY <1>1, <1>2, <1>7, <1>9 DEF Sorted
<1>. QED
    BY <1>10 DEF I, lat

\* A row's percentile is weighted with the number of its samples.
LEMMA WeightedPercentileIs ==
    ASSUME NEW events \in Seq(Event), NEW k, NEW p \in {P50, P99}
    PROVE  /\ Unblocked(events, k) = {} => WeightedPercentile(events, k, p) = 0
           /\ Unblocked(events, k) # {} =>
                 /\ IsPercentile(RowSamples(events, k), p, Percentile(Latencies(events, k), p))
                 /\ WeightedPercentile(events, k, p) =
                       Percentile(Latencies(events, k), p) * Cardinality(Unblocked(events, k))
<1>. DEFINE I == Unblocked(events, k)
            lat == RowSamples(events, k)
            s == Latencies(events, k)
<1>1. PICK f : Sorted(s, f, I, lat)
    BY LatenciesSorted
<1>2. DOMAIN lat = I
    BY DEF RowSamples
<1>3. WeightedPercentile(events, k, p) = IF s = <<>> THEN 0 ELSE Percentile(s, p) * Len(s)
    BY DEF WeightedPercentile
<1>. HIDE DEF I, lat, s
<1>4. Cardinality(I) \in Nat /\ Len(s) = Cardinality(I) /\ s \in Seq(Nat)
  <2>1. IsFiniteSet(I) /\ \A a \in 1..Cardinality(I) : lat[f[a]] \in Nat
      BY <1>1 DEF Sorted, Orders, Bijection, Injection
  <2>2. Cardinality(I) \in Nat
      BY <2>1, FS_CardinalityType
  <2>3. s = [a \in 1..Cardinality(I) |-> lat[f[a]]]
      BY <1>1 DEF Sorted
  <2>. QED
      BY <2>1, <2>2, <2>3
<1>5. s = <<>> <=> I = {}
  <2>1. Cardinality(I) = 0 <=> I = {}
      BY <1>1, FS_EmptySet DEF Sorted
  <2>. QED
      BY <1>4, <2>1
<1>6. I # {} => IsPercentile(lat, p, Percentile(s, p))
    BY <1>1, <1>2, PercentileCorrect, Zenon
<1>. QED
    BY <1>3, <1>4, <1>5, <1>6 DEF I, lat, s

\* The requests of a row that were not blocked.
LEMMA RowUnblocked ==
    ASSUME NEW events \in Seq(Event), NEW k
    PROVE  /\ Cardinality(Unblocked(events, k)) \in Nat
           /\ AggregatedRow(events, k).total - AggregatedRow(events, k).blocked =
                 Cardinality(Unblocked(events, k))
<1>. DEFINE I == Unblocked(events, k)
            B == Matching(events, k, "blocked")
            A == Matching(events, k, "total")
<1>1. A = I \cup B /\ I \cap B = {} /\ A \in SUBSET DOMAIN events
    BY DEF Unblocked, Matching, InColumn
<1>2. "total" \in Columns /\ "blocked" \in Columns
    BY DEF Columns
<1>3. /\ AggregatedRow(events, k)["total"] = Cardinality(A)
      /\ AggregatedRow(events, k)["blocked"] = Cardinality(B)
    BY <1>2, RowColumn, Zenon
<1>4. IsFiniteSet(DOMAIN events)
  <2>1. 1 \in Int /\ Len(events) \in Int /\ DOMAIN events = 1..Len(events)
      BY LenProperties
  <2>. QED
      BY <2>1, FS_Interval, Zenon
<1>. HIDE DEF I, B, A
<1>5. IsFiniteSet(I) /\ IsFiniteSet(B)
  <2>1. I \in SUBSET DOMAIN events /\ B \in SUBSET DOMAIN events
      BY <1>1
  <2>. QED
      BY <1>4, <2>1, FS_Subset
<1>6. Cardinality(A) = Cardinality(I) + Cardinality(B)
    BY <1>1, <1>5, DisjointUnion
<1>7. Cardinality(I) \in Nat /\ Cardinality(B) \in Nat
    BY <1>5, FS_CardinalityType
<1>8. Cardinality(A) - Cardinality(B) = Cardinality(I)
    BY <1>6, <1>7
<1>. QED
    BY <1>3, <1>7, <1>8 DEF I

\* BatchPercentiles: what a batch says of each of its rows is a percentile, by the nearest
\* rank, of the latencies of the row's requests that were not blocked.
THEOREM BatchPercentilesCorrect == Spec => []BatchPercentiles
<1>1. MetricsInv => BatchPercentiles
  <2>1. ASSUME NEW n \in Nat, n > 0, NEW v \in Nat PROVE (v * n) \div n = v
      BY <2>1
  <2>2. ASSUME MetricsInv, NEW w \in Workers, NEW k
        PROVE  LET row == AggregatedRow(Events(w), k)
                   n == row.total - row.blocked
               IN  n > 0 => /\ IsPercentile(RowSamples(Events(w), k), P50, row.p50 \div n)
                            /\ IsPercentile(RowSamples(Events(w), k), P99, row.p99 \div n)
    <3>. DEFINE ev == Events(w)
                row == AggregatedRow(ev, k)
                n == row.total - row.blocked
                I == Unblocked(ev, k)
                v(p) == Percentile(Latencies(ev, k), p)
    <3>1. ev \in Seq(Event)
        BY <2>2, EventsType, Zenon DEF MetricsInv
    <3>. HIDE DEF ev
    <3>2. row.p50 = WeightedPercentile(ev, k, P50) /\ row.p99 = WeightedPercentile(ev, k, P99)
        BY DEF AggregatedRow
    <3>3. n = Cardinality(I) /\ n \in Nat
        BY <3>1, RowUnblocked, Zenon
    <3>4. n > 0 => I # {}
        BY <3>3, FS_EmptySet
    <3>5. ASSUME n > 0, NEW p \in {P50, P99}
          PROVE  /\ IsPercentile(RowSamples(ev, k), p, v(p)) /\ v(p) \in Nat
                 /\ WeightedPercentile(ev, k, p) = v(p) * n
      <4>1. /\ IsPercentile(RowSamples(ev, k), p, v(p))
            /\ WeightedPercentile(ev, k, p) = v(p) * Cardinality(I)
          BY <3>1, <3>4, <3>5, WeightedPercentileIs, Zenon
      <4>2. v(p) \in Range(RowSamples(ev, k))
          BY <4>1 DEF IsPercentile
      <4>3. \A i \in I : ev[i].latency \in Nat
        <5>1. I \in SUBSET DOMAIN ev
            BY DEF Unblocked
        <5>2. \A i \in DOMAIN ev : ev[i] \in Event
            BY <3>1, LenProperties
        <5>3. \A e \in Event : e.latency \in Nat
            BY DEF Event
        <5>. QED
            BY <5>1, <5>2, <5>3
      <4>4. v(p) \in Nat
          BY <4>2, <4>3 DEF Range, RowSamples
      <4>. QED
          BY <3>3, <4>1, <4>4
    <3>. HIDE DEF n, v, I, row
    <3>6. ASSUME n > 0
          PROVE  /\ IsPercentile(RowSamples(ev, k), P50, row.p50 \div n)
                 /\ IsPercentile(RowSamples(ev, k), P99, row.p99 \div n)
      <4>1. /\ IsPercentile(RowSamples(ev, k), P50, v(P50)) /\ v(P50) \in Nat
            /\ row.p50 = v(P50) * n
          BY <3>2, <3>5, <3>6
      <4>2. /\ IsPercentile(RowSamples(ev, k), P99, v(P99)) /\ v(P99) \in Nat
            /\ row.p99 = v(P99) * n
          BY <3>2, <3>5, <3>6
      <4>3. row.p50 \div n = v(P50) /\ row.p99 \div n = v(P99)
          BY <2>1, <3>3, <3>6, <4>1, <4>2
      <4>. QED
          BY <4>1, <4>2, <4>3
    <3>. QED
        BY <3>6 DEF n, row, ev
  <2>. QED
      BY <2>2 DEF BatchPercentiles, RowSamples, Unblocked
<1>. QED
    BY <1>1, MetricsInvariant, PTL

-----------------------------------------------------------------------------
(* The percentiles of the table.                                            *)

\* n samples out of S weigh a at their p50 and b at their p99.
Between(S, n, a, b) ==
    /\ n \in Nat /\ a \in Nat /\ b \in Nat /\ a <= b
    /\ \A lo \in Nat : (\A x \in S : lo <= x) => lo * n <= a
    /\ \A hi \in Nat : (\A x \in S : x <= hi) => b <= hi * n

\* The latencies a row of the table is made of.
Samples(k) ==
    {event[stream[i]].latency : i \in {j \in 1..delivered : /\ counted[j] > 0
                                                            /\ KeyOf[stream[j]] = k
                                                            /\ ~event[stream[j]].limited}}

RangeInv ==
    \A k \in Keys :
        Between(Samples(k), table[k].total - table[k].blocked, table[k].p50, table[k].p99)

LEMMA ProductOrder ==
    ASSUME NEW a \in Nat, NEW b \in Nat, NEW n \in Nat, a <= b
    PROVE  a * n \in Nat /\ a * n <= b * n
OBVIOUS

LEMMA BetweenAdd ==
    ASSUME NEW S, NEW n, NEW a, NEW b, Between(S, n, a, b),
           NEW T, NEW m, NEW c, NEW d, Between(T, m, c, d),
           NEW U, S \subseteq U, T \subseteq U
    PROVE  Between(U, n + m, a + c, b + d)
<1>1. /\ n \in Nat /\ a \in Nat /\ b \in Nat /\ a <= b
      /\ m \in Nat /\ c \in Nat /\ d \in Nat /\ c <= d
    BY DEF Between
<1>2. n + m \in Nat /\ a + c \in Nat /\ b + d \in Nat /\ a + c <= b + d
    BY <1>1
<1>3. ASSUME NEW h \in Nat PROVE /\ h * (n + m) = h * n + h * m
                                 /\ h * n \in Nat /\ h * m \in Nat
    BY <1>1
<1>4. ASSUME NEW lo \in Nat, \A x \in U : lo <= x PROVE lo * (n + m) <= a + c
  <2>1. lo * n <= a /\ lo * m <= c
      BY <1>4 DEF Between
  <2>. QED
      BY <1>1, <1>3, <2>1
<1>5. ASSUME NEW hi \in Nat, \A x \in U : x <= hi PROVE b + d <= hi * (n + m)
  <2>1. b <= hi * n /\ d <= hi * m
      BY <1>5 DEF Between
  <2>. QED
      BY <1>1, <1>3, <2>1
<1>. QED
    BY <1>2, <1>4, <1>5 DEF Between

LEMMA BetweenWider ==
    ASSUME NEW S, NEW n, NEW a, NEW b, Between(S, n, a, b), NEW U, S \subseteq U
    PROVE  Between(U, n, a, b)
BY DEF Between

\* A row of a batch lies between the samples of the row.
LEMMA RowBetween ==
    ASSUME NEW events \in Seq(Event), NEW k
    PROVE  Between({events[i].latency : i \in Unblocked(events, k)},
                   AggregatedRow(events, k).total - AggregatedRow(events, k).blocked,
                   AggregatedRow(events, k).p50, AggregatedRow(events, k).p99)
<1>. DEFINE I == Unblocked(events, k)
            S == {events[i].latency : i \in I}
            n == Cardinality(I)
            lat == Latencies(events, k)
            row == AggregatedRow(events, k)
<1>1. row.p50 = WeightedPercentile(events, k, P50) /\ row.p99 = WeightedPercentile(events, k, P99)
    BY DEF AggregatedRow
<1>2. row.total - row.blocked = n /\ n \in Nat
    BY RowUnblocked, Zenon
<1>3. CASE I = {}
  <2>1. n = 0
      BY <1>3, FS_EmptySet
  <2>2. row.p50 = 0 /\ row.p99 = 0
      BY <1>1, <1>3, WeightedPercentileIs
  <2>. HIDE DEF row, n, S
  <2>3. Between(S, 0, 0, 0)
      BY DEF Between
  <2>4. Between(S, row.total - row.blocked, row.p50, row.p99)
      BY <1>2, <2>1, <2>2, <2>3
  <2>. QED
      BY <2>4 DEF S, row
<1>4. CASE I # {}
  <2>. DEFINE v == Percentile(lat, P50)
              u == Percentile(lat, P99)
  <2>1. row.p50 = v * n /\ row.p99 = u * n
    <3>1. P50 \in {P50, P99} /\ P99 \in {P50, P99}
        OBVIOUS
    <3>. QED
        BY <1>1, <1>4, <3>1, WeightedPercentileIs, Zenon
  <2>2. PICK f : Sorted(lat, f, I, RowSamples(events, k))
      BY LatenciesSorted
  <2>3. n # 0
      BY <1>2, <1>4, <2>2, FS_EmptySet DEF Sorted
  <2>4. /\ \A a \in 1..n : lat[a] = RowSamples(events, k)[f[a]] /\ f[a] \in I
        /\ \A i \in I : RowSamples(events, k)[i] \in Nat
        /\ \A a, b \in 1..n : a < b => lat[a] <= lat[b]
        /\ Len(lat) = n
      BY <1>2, <2>2 DEF Sorted, Orders, Bijection, Injection
  <2>5. \A a \in 1..n : lat[a] \in Nat /\ lat[a] \in S
      BY <2>4 DEF RowSamples
  <2>6. v = lat[Rank(P50, n)] /\ u = lat[Rank(P99, n)]
      BY <2>4 DEF Percentile
  <2>7. /\ Rank(P50, n) \in 1..n /\ Rank(P99, n) \in 1..n /\ Rank(P50, n) <= Rank(P99, n)
      BY <1>2, <2>3, RankFacts
  <2>. HIDE DEF S, n, I, lat, v, u, row
  <2>8. v \in S /\ u \in S /\ v \in Nat /\ u \in Nat /\ v <= u
    <3>1. Rank(P50, n) < Rank(P99, n) \/ Rank(P50, n) = Rank(P99, n)
        BY <1>2, <2>7
    <3>. QED
        BY <2>4, <2>5, <2>6, <2>7, <3>1
  <2>9. Between(S, n, v * n, u * n)
    <3>1. v * n \in Nat /\ u * n \in Nat /\ v * n <= u * n
        BY <1>2, <2>8, ProductOrder
    <3>2. \A lo \in Nat : lo <= v => lo * n <= v * n
        BY <1>2, <2>8, ProductOrder
    <3>3. \A hi \in Nat : u <= hi => u * n <= hi * n
        BY <1>2, <2>8, ProductOrder
    <3>. QED
        BY <1>2, <2>8, <3>1, <3>2, <3>3 DEF Between
  <2>10. Between(S, row.total - row.blocked, row.p50, row.p99)
      BY <1>2, <2>1, <2>9
  <2>. QED
      BY <2>10 DEF S, I, row
<1>. QED
    BY <1>3, <1>4

LEMMA RangeStart == Init => RangeInv
<1>1. SUFFICES ASSUME Init, NEW k \in Keys
               PROVE  Between(Samples(k), table[k].total - table[k].blocked,
                              table[k].p50, table[k].p99)
    BY DEF RangeInv
<1>2. /\ table[k].total - table[k].blocked = 0 /\ table[k].p50 = 0 /\ table[k].p99 = 0
    BY <1>1 DEF Init, NoRow
<1>3. Between(Samples(k), 0, 0, 0)
    BY DEF Between
<1>. QED
    BY <1>2, <1>3

\* A step that takes no sample away and leaves the table alone.
LEMMA RangeKept ==
    ASSUME RangeInv, table' = table, \A k \in Keys : Samples(k) \subseteq Samples(k)'
    PROVE  RangeInv'
<1>1. SUFFICES ASSUME NEW k \in Keys
               PROVE  Between(Samples(k)', table[k].total - table[k].blocked,
                              table[k].p50, table[k].p99)
    BY DEF RangeInv
<1>2. Between(Samples(k), table[k].total - table[k].blocked, table[k].p50, table[k].p99)
    BY DEF RangeInv
<1>. QED
    BY <1>2, BetweenWider, Zenon

\* No step takes a sample away.
LEMMA SamplesGrow ==
    ASSUME GatewayInv, GatewayInv', BatchInv, BatchInv', [Next]_vars,
           delivered' \in Nat, delivered <= delivered',
           \A i \in 1..delivered : counted[i] > 0 => counted'[i] > 0,
           NEW k \in Keys
    PROVE  Samples(k) \subseteq Samples(k)'
<1>1. delivered \in Nat /\ \A i \in 1..delivered : i \in 1..Len(stream) /\ i \in 1..delivered'
  <2>1. delivered \in 0..Len(stream) /\ Len(stream) \in Nat
      BY EntriesKept DEF BatchInv
  <2>. QED
      BY <2>1
<1>2. \A i \in 1..delivered : stream'[i] = stream[i] /\ event'[stream[i]] = event[stream[i]]
    BY <1>1, EntriesKept
<1>. QED
    BY <1>1, <1>2 DEF Samples

LEMMA RangeCommit ==
    ASSUME GatewayInv, BatchInv, TableInv, RangeInv, NEW w \in Workers, Commit(w),
           \A k \in Keys : Samples(k) \subseteq Samples(k)'
    PROVE  RangeInv'
<1>1. SUFFICES ASSUME NEW k \in Keys
               PROVE  Between(Samples(k)', table'[k].total - table'[k].blocked,
                              table'[k].p50, table'[k].p99)
    BY DEF RangeInv
<1>. DEFINE ev == Events(w)
            row == AggregatedRow(ev, k)
            old == table[k]
            new == table'[k]
            own == {ev[i].latency : i \in Unblocked(ev, k)}
<1>2. Between(Samples(k), old.total - old.blocked, old.p50, old.p99)
    BY DEF RangeInv
<1>3. CASE new = old
  <2>1. Samples(k) \subseteq Samples(k)'
      OBVIOUS
  <2>2. Between(Samples(k)', old.total - old.blocked, old.p50, old.p99)
      BY <1>2, <2>1, BetweenWider, Zenon
  <2>. HIDE DEF old, new
  <2>3. Between(Samples(k)', new.total - new.blocked, new.p50, new.p99)
      BY <1>3, <2>2
  <2>. QED
      BY <2>3 DEF new
<1>4. CASE new = Upsert(old, row)
  <2>1. /\ new.total = old.total + row.total /\ new.blocked = old.blocked + row.blocked
        /\ new.p50 = old.p50 + row.p50 /\ new.p99 = old.p99 + row.p99
    <3>. HIDE DEF old, new, row
    <3>. QED
        BY <1>4 DEF Upsert, NoRow
  <2>2. ev \in Seq(Event)
      BY EventsType, Zenon
  <2>3. Between(own, row.total - row.blocked, row.p50, row.p99)
    <3>. HIDE DEF ev
    <3>. QED
        BY <2>2, RowBetween, Zenon
  <2>4. own \subseteq Samples(k)'
    <3>1. SUFFICES ASSUME NEW j \in Unblocked(ev, k) PROVE ev[j].latency \in Samples(k)'
        OBVIOUS
    <3>. DEFINE i == batch[w][j]
    <3>2. j \in DOMAIN ev /\ ev[j].key = k /\ ~ev[j].limited
        BY DEF Unblocked
    <3>3. j \in DOMAIN batch[w] /\ ev[j] = EventOf(i)
        BY <3>2 DEF Events
    <3>4. i \in 1..delivered /\ Contains(batch[w], i)
      <4>1. batch[w] \in Seq(1..delivered)
          BY DEF BatchInv
      <4>. QED
          BY <3>3, <4>1, SeqDomain DEF Contains
    <3>5. /\ ev[j].key = KeyOf[stream[i]] /\ ev[j].limited = event[stream[i]].limited
          /\ ev[j].latency = event[stream[i]].latency
        BY <3>3 DEF EventOf
    <3>6. counted'[i] > 0
      <4>1. counted[i] \in Nat /\ DOMAIN counted = 1..delivered
          BY <3>4 DEF BatchInv
      <4>2. counted'[i] = counted[i] + 1
          BY <3>4, <4>1 DEF Commit
      <4>. QED
          BY <4>1, <4>2
    <3>7. delivered' = delivered /\ stream' = stream /\ event' = event
        BY DEF Commit, gateway
    <3>. HIDE DEF i, ev
    <3>. QED
        BY <3>2, <3>4, <3>5, <3>6, <3>7 DEF Samples
  <2>5. /\ old.total \in Nat /\ old.blocked \in Nat
    <3>1. "total" \in Columns /\ "blocked" \in Columns
        BY DEF Columns
    <3>2. /\ old["total"] = Sum(counted, Mine(k, "total"))
          /\ old["blocked"] = Sum(counted, Mine(k, "blocked"))
        BY <3>1 DEF TableInv
    <3>3. \A c : Sum(counted, Mine(k, c)) \in Nat
        BY MineFacts, SumRecursion
    <3>. QED
        BY <3>2, <3>3
  <2>6. row.total \in Nat /\ row.blocked \in Nat
    <3>1. "total" \in Columns /\ "blocked" \in Columns
        BY DEF Columns
    <3>2. /\ row["total"] = Cardinality(Mine(k, "total") \cap Batch(w))
          /\ row["blocked"] = Cardinality(Mine(k, "blocked") \cap Batch(w))
        BY <3>1, BatchColumn, Zenon
    <3>3. \A c : IsFiniteSet(Mine(k, c) \cap Batch(w))
      <4>1. \A c : IsFiniteSet(Mine(k, c)) /\ Mine(k, c) \cap Batch(w) \in SUBSET Mine(k, c)
          BY MineFacts
      <4>. QED
          BY <4>1, FS_Subset
    <3>. HIDE DEF row
    <3>. QED
        BY <3>2, <3>3, FS_CardinalityType
  <2>. HIDE DEF own, old, new, row
  <2>7. Between(Samples(k)', (old.total - old.blocked) + (row.total - row.blocked),
                old.p50 + row.p50, old.p99 + row.p99)
      BY <1>2, <2>3, <2>4, BetweenAdd, Zenon
  <2>8. new.total - new.blocked = (old.total - old.blocked) + (row.total - row.blocked)
      BY <2>1, <2>5, <2>6
  <2>9. Between(Samples(k)', new.total - new.blocked, new.p50, new.p99)
      BY <2>1, <2>7, <2>8
  <2>. QED
      BY <2>9 DEF new
<1>5. new = old \/ new = Upsert(old, row)
    BY DEF Commit, Merged
<1>. QED
    BY <1>3, <1>4, <1>5

LEMMA RangeStep == MetricsInv /\ MetricsInv' /\ RangeInv /\ [Next]_vars => RangeInv'
<1>1. SUFFICES ASSUME MetricsInv, MetricsInv', RangeInv, [Next]_vars PROVE RangeInv'
    OBVIOUS
<1>2. /\ GatewayInv /\ GatewayInv' /\ BatchInv /\ BatchInv' /\ TableInv
    BY <1>1 DEF MetricsInv
<1>3. /\ delivered \in Nat /\ delivered' \in Nat /\ counted \in [1..delivered -> Nat]
  <2>1. /\ delivered \in 0..Len(stream) /\ delivered' \in 0..Len(stream')
        /\ Len(stream) \in Nat /\ Len(stream') \in Nat
      BY <1>1, <1>2, EntriesKept DEF BatchInv
  <2>. QED
      BY <1>2, <2>1 DEF BatchInv
<1>4. ASSUME delivered <= delivered',
             \A i \in 1..delivered : counted[i] > 0 => counted'[i] > 0
      PROVE  \A k \in Keys : Samples(k) \subseteq Samples(k)'
    BY <1>1, <1>2, <1>3, <1>4, SamplesGrow
<1>5. ASSUME UNCHANGED <<delivered, table, counted>> PROVE RangeInv'
    BY <1>1, <1>3, <1>4, <1>5, RangeKept
<1>6. CASE UNCHANGED analytics
    BY <1>5, <1>6 DEF analytics
<1>7. ASSUME NEW w \in Workers,
             Read(w) \/ UpsertRow(w) \/ Commit(w) \/ Ack(w) \/ Abort(w) \/ Crash(w)
      PROVE  RangeInv'
  <2>1. CASE UpsertRow(w) \/ Ack(w) \/ Abort(w) \/ Crash(w)
      BY <1>5, <2>1 DEF UpsertRow, Ack, Abort, Crash
  <2>2. CASE Read(w)
    <3>1. /\ table' = table /\ \E n \in 1..BATCH_SIZE : delivered' = delivered + n
          /\ counted' = [i \in 1..delivered' |-> IF i <= delivered THEN counted[i] ELSE 0]
        BY <2>2 DEF Read
    <3>2. delivered <= delivered'
        BY <1>3, <3>1, MetricsAssumption
    <3>3. \A i \in 1..delivered : i \in 1..delivered' /\ i <= delivered
        BY <1>3, <3>2
    <3>4. \A i \in 1..delivered : counted[i] > 0 => counted'[i] > 0
        BY <3>1, <3>3
    <3>. QED
        BY <1>1, <1>4, <3>1, <3>2, <3>4, RangeKept
  <2>3. CASE Commit(w)
    <3>1. /\ delivered' = delivered
          /\ counted' = [i \in DOMAIN counted |->
                           IF Contains(batch[w], i) THEN counted[i] + 1 ELSE counted[i]]
        BY <2>3 DEF Commit
    <3>2. \A i \in 1..delivered : counted[i] > 0 => counted'[i] > 0
        BY <1>3, <3>1
    <3>. QED
        BY <1>1, <1>2, <1>3, <1>4, <2>3, <3>1, <3>2, RangeCommit
  <2>. QED
      BY <1>7, <2>1, <2>2, <2>3
<1>. QED
    BY <1>1, <1>6, <1>7 DEF Next, vars

\* A finite set of numbers has a greatest one.
LEMMA GreatestNumber ==
    ASSUME NEW S \in SUBSET Nat, IsFiniteSet(S), S # {}
    PROVE  \E x \in S : \A y \in S : x >= y
<1>. DEFINE Q == {T \in SUBSET S : T = {} \/ \E x \in T : \A y \in T : x >= y}
<1>1. ASSUME NEW T \in SUBSET S, \A U \in SUBSET T : U # T => U \in Q
      PROVE  T \in Q
  <2>1. CASE T = {}
      BY <2>1
  <2>2. CASE T # {}
    <3>1. PICK e \in T : TRUE
        BY <2>2
    <3>2. T \ {e} \in Q
        BY <1>1
    <3>3. CASE T \ {e} = {}
      <4>1. \A y \in T : e >= y
          BY <3>3
      <4>. QED
          BY <4>1
    <3>4. CASE \E x \in T \ {e} : \A y \in T \ {e} : x >= y
      <4>1. PICK x \in T \ {e} : \A y \in T \ {e} : x >= y
          BY <3>4
      <4>2. x \in Nat /\ e \in Nat /\ \A y \in T : y \in Nat
          OBVIOUS
      <4>3. (\A y \in T : x >= y) \/ (\A y \in T : e >= y)
          BY <4>1, <4>2
      <4>. QED
          BY <4>3
    <3>. QED
        BY <3>2, <3>3, <3>4
  <2>. QED
      BY <2>1, <2>2
<1>. HIDE DEF Q
<1>2. \A T \in SUBSET S : T \in Q
    BY <1>1, SubsetInduction
<1>3. S \in Q
    BY <1>2
<1>. QED
    BY <1>3 DEF Q

\* PercentilesInRange: however often rows were merged, p50 is no greater than p99 and both
\* lie between the latencies of the unblocked requests of the row.
THEOREM PercentilesInRangeCorrect == Spec => []PercentilesInRange
<1>1. Init => RangeInv
    BY RangeStart
<1>2. MetricsInv /\ RangeInv => PercentilesInRange
  <2>1. SUFFICES ASSUME MetricsInv, RangeInv, NEW k \in Keys
                 PROVE  LET samples == Samples(k)
                            n == table[k].total - table[k].blocked
                        IN  IF samples = {} THEN table[k].p50 = 0 /\ table[k].p99 = 0
                            ELSE /\ Min(samples) * n <= table[k].p50
                                 /\ table[k].p50 <= table[k].p99
                                 /\ table[k].p99 <= Max(samples) * n
      BY DEF PercentilesInRange, Samples
  <2>. DEFINE S == Samples(k)
              n == table[k].total - table[k].blocked
              a == table[k].p50
              b == table[k].p99
  <2>2. Between(S, n, a, b)
      BY <2>1 DEF RangeInv
  <2>3. S \in SUBSET Nat /\ IsFiniteSet(S)
    <3>. DEFINE J == {j \in 1..delivered : /\ counted[j] > 0 /\ KeyOf[stream[j]] = k
                                           /\ ~event[stream[j]].limited}
                f == [i \in J |-> event[stream[i]].latency]
    <3>1. S = {event[stream[i]].latency : i \in J}
        BY DEF Samples
    <3>2. delivered \in 0..Len(stream) /\ Len(stream) \in Nat /\ stream \in Seq(Requests)
        BY <2>1, SeqDomain DEF MetricsInv, GatewayInv, GatewayTypes, BatchInv
    <3>3. \A i \in 1..delivered : event[stream[i]].latency \in Nat
      <4>1. \A i \in 1..delivered : stream[i] \in Requests
          BY <3>2, SeqDomain
      <4>2. \A r \in Requests : event[r].latency \in Nat
          BY <2>1 DEF MetricsInv, GatewayInv, GatewayTypes, EventRecords
      <4>. QED
          BY <4>1, <4>2
    <3>4. IsFiniteSet(J)
      <4>1. 1 \in Int /\ delivered \in Int
          BY <3>2
      <4>2. IsFiniteSet(1..delivered)
          BY <4>1, FS_Interval, Zenon
      <4>. QED
          BY <4>2, FS_Subset
    <3>5. f \in Surjection(J, S)
        BY <3>1 DEF Surjection
    <3>6. S \in SUBSET Nat
        BY <3>1, <3>3
    <3>. HIDE DEF J, f, S
    <3>. QED
        BY <3>4, <3>5, <3>6, FS_Surjection
  <2>. HIDE DEF S, n, a, b
  <2>4. CASE S = {}
    <3>1. b <= 0 * n
        BY <2>2, <2>4 DEF Between
    <3>2. a = 0 /\ b = 0
        BY <2>2, <3>1 DEF Between
    <3>. QED
        BY <2>4, <3>2 DEF S, n, a, b
  <2>5. CASE S # {}
    <3>1. Min(S) \in S /\ \A x \in S : Min(S) <= x
      <4>1. \E x \in S : \A y \in S : x <= y
          BY <2>3, <2>5, LeastNumber
      <4>. QED
          BY <4>1, Zenon DEF Min
    <3>2. Max(S) \in S /\ \A x \in S : Max(S) >= x
      <4>1. \E x \in S : \A y \in S : x >= y
          BY <2>3, <2>5, GreatestNumber
      <4>. QED
          BY <4>1, Zenon DEF Max
    <3>3. Min(S) * n <= a /\ a <= b
        BY <2>2, <2>3, <3>1 DEF Between
    <3>4. \A x \in S : x <= Max(S)
        BY <2>3, <3>2
    <3>5. b <= Max(S) * n
        BY <2>2, <2>3, <3>2, <3>4 DEF Between
    <3>. QED
        BY <2>5, <3>3, <3>5 DEF S, n, a, b
  <2>. QED
      BY <2>4, <2>5
<1>. QED
    BY <1>1, <1>2, RangeStep, MetricsInvariant, PTL DEF Spec

=============================================================================
