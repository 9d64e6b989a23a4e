------------------------ MODULE AlertConsumerProofs ------------------------
(***************************************************************************)
(* Proofs about AlertConsumer, for any entries, endpoints, sources, window *)
(* lengths and crashes.                                                    *)
(***************************************************************************)
EXTENDS AlertConsumer, FiniteSetTheorems, WellFoundedInduction, TLAPS

-----------------------------------------------------------------------------
(* Numbers.                                                                 *)

LEMMA LeastNumber ==
    ASSUME NEW T \in SUBSET Nat, T # {}
    PROVE  \E n \in T : \A m \in T : n <= m
<1>. DEFINE Less == OpToRel(<, Nat)
<1>1. IsWellFoundedOn(Less, Nat)
    BY NatLessThanWellFounded
<1>2. \A m, n \in Nat : m < n => <<m, n>> \in Less
  <2>1. Less = {ss \in Nat \X Nat : ss[1] < ss[2]}
      BY DEF OpToRel
  <2>. QED
      BY <2>1
<1>. HIDE DEF Less
<1>3. \E n \in T : \A m \in T : ~(<<m, n>> \in Less)
    BY <1>1, WFMin
<1>4. \A m, n \in T : ~(m < n) => n <= m
    OBVIOUS
<1>. QED
    BY <1>2, <1>3, <1>4

\* Minimum and maximum of a bounded set of numbers.
LEMMA MinType ==
    ASSUME NEW T \in SUBSET Nat, T # {}
    PROVE  Min(T) \in T /\ \A m \in T : Min(T) <= m
    BY LeastNumber DEF Min

LEMMA MaxType ==
    ASSUME NEW n \in Nat, NEW T \in SUBSET (0..n), T # {}
    PROVE  Max(T) \in T /\ \A m \in T : Max(T) >= m
<1>. DEFINE U == {n - m : m \in T}
<1>1. U \in SUBSET Nat /\ U # {}
  <2>1. \A m \in T : n - m \in Nat
      OBVIOUS
  <2>. QED
      BY <2>1
<1>2. PICK u \in U : \A v \in U : u <= v
    BY <1>1, LeastNumber
<1>3. PICK m \in T : u = n - m
    OBVIOUS
<1>4. \A k \in T : n - m <= n - k
    BY <1>2, <1>3
<1>5. \A k \in T : m >= k
    BY <1>4
<1>. QED
    BY <1>3, <1>5 DEF Max

\* Division: seconds follow instants.
LEMMA DivBounds ==
    ASSUME NEW a \in Nat, NEW d \in Nat \ {0}
    PROVE  /\ a \div d \in Nat
           /\ (a \div d) * d <= a /\ a < (a \div d) * d + d
    OBVIOUS

LEMMA ProductOrder ==
    ASSUME NEW a \in Nat, NEW b \in Nat, NEW d \in Nat \ {0}, a + 1 <= b
    PROVE  a * d + d <= b * d
<1>1. a * d + d = (a + 1) * d
    OBVIOUS
<1>2. PICK c \in Nat : b = (a + 1) + c
    BY Z3
<1>3. b * d = (a + 1) * d + c * d
    BY <1>2
<1>4. c * d \in Nat /\ (a + 1) * d \in Nat
    OBVIOUS
<1>. QED
    BY <1>1, <1>3, <1>4

LEMMA DivMonotone ==
    ASSUME NEW a \in Nat, NEW b \in Nat, NEW d \in Nat \ {0}, a <= b
    PROVE  a \div d <= b \div d
<1>. DEFINE q == a \div d
            r == b \div d
<1>1. q \in Nat /\ r \in Nat /\ q * d <= a /\ b < r * d + d
    BY DivBounds
<1>2. r + 1 <= q => r * d + d <= q * d
    BY <1>1, ProductOrder
<1>3. q * d \in Nat /\ r * d \in Nat
    BY <1>1
<1>. HIDE DEF q, r
<1>4. ~(r + 1 <= q)
    BY <1>1, <1>2, <1>3
<1>5. q <= r
    BY <1>1, <1>4
<1>. QED
    BY <1>5 DEF q, r

LEMMA DivStep ==
    ASSUME NEW a \in Nat, NEW d \in Nat \ {0}
    PROVE  (a + 1) \div d \in {a \div d, (a \div d) + 1}
<1>. DEFINE q == a \div d
            r == (a + 1) \div d
<1>1. q \in Nat /\ r \in Nat /\ r * d <= a + 1 /\ a < q * d + d
    BY DivBounds
<1>2. q <= r
    BY DivMonotone
<1>3. (q + 1) + 1 <= r => (q + 1) * d + d <= r * d
    BY <1>1, ProductOrder
<1>4. q * d \in Nat /\ r * d \in Nat /\ (q + 1) * d = q * d + d
    BY <1>1
<1>. HIDE DEF q, r
<1>5. ~((q + 1) + 1 <= r)
    BY <1>1, <1>3, <1>4
<1>6. r \in {q, q + 1}
    BY <1>1, <1>2, <1>5
<1>. QED
    BY <1>6 DEF q, r

-----------------------------------------------------------------------------
(* Sums over finite sets.                                                   *)

\* Induction over the subsets of a finite set, for the set Q of good ones.
LEMMA SubsetInduction ==
    ASSUME NEW S, IsFiniteSet(S), NEW Q,
           \A T \in SUBSET S : (\A U \in SUBSET T : U # T => U \in Q) => T \in Q
    PROVE  \A T \in SUBSET S : T \in Q
<1>. DEFINE Bad == {Cardinality(T) : T \in {U \in SUBSET S : U \notin Q}}
<1>1. \A T \in SUBSET S : IsFiniteSet(T) /\ Cardinality(T) \in Nat
    BY FS_Subset, FS_CardinalityType
<1>2. Bad \in SUBSET Nat
    BY <1>1
<1>3. ASSUME NEW V \in SUBSET S, V \notin Q PROVE FALSE
  <2>1. Bad # {}
      BY <1>3
  <2>2. PICK n \in Bad : \A m \in Bad : n <= m
      BY <1>2, <2>1, LeastNumber
  <2>3. PICK T \in SUBSET S : T \notin Q /\ n = Cardinality(T)
      BY <2>2
  <2>4. ASSUME NEW U \in SUBSET T, U # T PROVE U \in Q
    <3>1. Cardinality(U) < Cardinality(T)
      <4>1. IsFiniteSet(T) /\ Cardinality(T) \in Nat /\ Cardinality(U) \in Nat
          BY <1>1
      <4>2. Cardinality(U) <= Cardinality(T) /\ Cardinality(U) # Cardinality(T)
          BY <2>4, <4>1, FS_Subset
      <4>. QED
          BY <4>1, <4>2
    <3>2. U \in SUBSET S
        OBVIOUS
    <3>3. U \notin Q => Cardinality(T) <= Cardinality(U)
        BY <2>2, <2>3, <3>2
    <3>. QED
        BY <1>1, <3>1, <3>2, <3>3
  <2>. QED
      BY <2>3, <2>4
<1>. QED
    BY <1>3

\* The order in which MapThenSumSet takes the elements of a set.
Pick(s) == CHOOSE x \in s : TRUE

Sum(g, S) == MapThenSumSet(LAMBDA b : g[b], S)

\* h[s] is the sum of g over s, element by element, for the subsets s of S.
IsSum(h, g, S) ==
    h = [s \in SUBSET S |-> IF s = {} THEN 0 ELSE g[Pick(s)] + h[s \ {Pick(s)}]]

\* Such a function exists: the recursion of MapThenSumSet is well founded.
LEMMA SumExists ==
    ASSUME NEW S, IsFiniteSet(S), NEW g, \A x \in S : g[x] \in Nat
    PROVE  \E h \in [SUBSET S -> Nat] : IsSum(h, g, S)
<1>. DEFINE Small(n) == {s \in SUBSET S : Cardinality(s) <= n}
            Good(n) == \E h \in [Small(n) -> Nat] : \A s \in Small(n) :
                          h[s] = IF s = {} THEN 0 ELSE g[Pick(s)] + h[s \ {Pick(s)}]
<1>1. \A s \in SUBSET S : IsFiniteSet(s) /\ Cardinality(s) \in Nat
    BY FS_Subset, FS_CardinalityType
<1>2. ASSUME NEW s \in SUBSET S, s # {}
      PROVE  /\ Pick(s) \in s /\ s \ {Pick(s)} \in SUBSET S
             /\ Cardinality(s \ {Pick(s)}) = Cardinality(s) - 1
  <2>1. Pick(s) \in s
      BY <1>2 DEF Pick
  <2>. QED
      BY <1>1, <2>1, FS_RemoveElement
<1>3. Good(0)
  <2>1. \A s \in Small(0) : s = {}
      BY <1>1, FS_EmptySet
  <2>2. [s \in Small(0) |-> 0] \in [Small(0) -> Nat]
      OBVIOUS
  <2>. QED
      BY <2>1, <2>2
<1>4. ASSUME NEW n \in Nat, Good(n) PROVE Good(n + 1)
  <2>1. PICK h \in [Small(n) -> Nat] : \A s \in Small(n) :
                 h[s] = IF s = {} THEN 0 ELSE g[Pick(s)] + h[s \ {Pick(s)}]
      BY <1>4
  <2>. DEFINE k == [s \in Small(n + 1) |->
                       IF s = {} THEN 0 ELSE g[Pick(s)] + h[s \ {Pick(s)}]]
  <2>2. ASSUME NEW s \in Small(n + 1), s # {} PROVE s \ {Pick(s)} \in Small(n)
      BY <1>1, <1>2, <2>2
  <2>3. ASSUME NEW s \in Small(n + 1), s # {} PROVE g[Pick(s)] \in Nat
      BY <1>2, <2>3
  <2>4. k \in [Small(n + 1) -> Nat]
      BY <2>2, <2>3
  <2>5. Small(n) \subseteq Small(n + 1)
      BY <1>1
  <2>6. \A s \in Small(n) : k[s] = h[s]
      BY <2>1, <2>5
  <2>7. \A s \in Small(n + 1) :
            k[s] = IF s = {} THEN 0 ELSE g[Pick(s)] + k[s \ {Pick(s)}]
      BY <2>2, <2>6
  <2>. QED
      BY <2>4, <2>7
<1>5. \A n \in Nat : Good(n)
  <2>. DEFINE Bad == {n \in Nat : ~Good(n)}
  <2>. SUFFICES Bad = {}
      OBVIOUS
  <2>. HIDE DEF Good
  <2>1. ASSUME Bad # {} PROVE FALSE
    <3>1. PICK n \in Bad : \A m \in Bad : n <= m
        BY <2>1, LeastNumber
    <3>2. n # 0
        BY <1>3
    <3>3. n - 1 \in Nat /\ n - 1 \notin Bad
        BY <3>1, <3>2
    <3>4. Good((n - 1) + 1)
        BY <1>4, <3>3
    <3>5. (n - 1) + 1 = n
        OBVIOUS
    <3>. QED
        BY <3>4, <3>5
  <2>. QED
      BY <2>1
<1>6. Small(Cardinality(S)) = SUBSET S
    BY <1>1, FS_Subset
<1>7. Good(Cardinality(S))
    BY <1>1, <1>5
<1>. QED
    BY <1>6, <1>7 DEF IsSum

LEMMA SumIter ==
    ASSUME NEW S, NEW g, \E h : IsSum(h, g, S)
    PROVE  \E h : IsSum(h, g, S) /\ Sum(g, S) = h[S]
<1>. DEFINE i == CHOOSE i : IsSum(i, g, S)
<1>1. IsSum(i, g, S)
    BY Zenon
<1>2. Sum(g, S) = i[S]
    BY DEF Sum, MapThenSumSet, MapThenFoldSet, IsSum, Pick
<1>. QED
    BY <1>1, <1>2

\* Sum as a recursion over the subsets of a finite set.
LEMMA SumRecursion ==
    ASSUME NEW S, IsFiniteSet(S), NEW g, \A x \in S : g[x] \in Nat
    PROVE  \A T \in SUBSET S :
              /\ Sum(g, T) \in Nat
              /\ Sum(g, T) = IF T = {} THEN 0 ELSE g[Pick(T)] + Sum(g, T \ {Pick(T)})
<1>1. PICK h \in [SUBSET S -> Nat] : IsSum(h, g, S)
    BY SumExists
<1>2. ASSUME NEW T \in SUBSET S PROVE Sum(g, T) = h[T]
  <2>1. IsFiniteSet(T)
      BY FS_Subset
  <2>2. \E i \in [SUBSET T -> Nat] : IsSum(i, g, T)
      BY <2>1, SumExists
  <2>3. PICK i : IsSum(i, g, T) /\ Sum(g, T) = i[T]
      BY <2>2, SumIter
  <2>. DEFINE Q == {s \in SUBSET T : i[s] = h[s]}
  <2>4. ASSUME NEW s \in SUBSET T, \A u \in SUBSET s : u # s => u \in Q PROVE s \in Q
    <3>1. CASE s = {}
        BY <1>1, <2>3, <3>1 DEF IsSum
    <3>2. CASE s # {}
      <4>1. Pick(s) \in s
          BY <3>2 DEF Pick
      <4>2. s \ {Pick(s)} \in Q
          BY <2>4, <4>1
      <4>3. i[s] = g[Pick(s)] + i[s \ {Pick(s)}]
          BY <2>3, <3>2 DEF IsSum
      <4>4. h[s] = g[Pick(s)] + h[s \ {Pick(s)}]
          BY <1>1, <3>2 DEF IsSum
      <4>. QED
          BY <4>2, <4>3, <4>4
    <3>. QED
        BY <3>1, <3>2
  <2>. HIDE DEF Q
  <2>5. T \in Q
      BY <2>1, <2>4, SubsetInduction
  <2>. QED
      BY <2>3, <2>5 DEF Q
<1>3. \A T \in SUBSET S : h[T] = IF T = {} THEN 0 ELSE g[Pick(T)] + h[T \ {Pick(T)}]
    BY <1>1 DEF IsSum
<1>4. \A T \in SUBSET S : T \ {Pick(T)} \in SUBSET S
    OBVIOUS
<1>. QED
    BY <1>2, <1>3, <1>4

\* The elements may be taken in any order.
LEMMA SumElement ==
    ASSUME NEW S, IsFiniteSet(S), NEW g, \A x \in S : g[x] \in Nat, NEW e \in S
    PROVE  Sum(g, S) = g[e] + Sum(g, S \ {e})
<1>. DEFINE Q == {T \in SUBSET S : \A x \in T : Sum(g, T) = g[x] + Sum(g, T \ {x})}
<1>1. \A T \in SUBSET S :
          /\ Sum(g, T) \in Nat
          /\ T # {} => Sum(g, T) = g[Pick(T)] + Sum(g, T \ {Pick(T)})
    BY SumRecursion
<1>2. ASSUME NEW T \in SUBSET S, \A U \in SUBSET T : U # T => U \in Q,
             NEW x \in T
      PROVE  Sum(g, T) = g[x] + Sum(g, T \ {x})
  <2>. DEFINE c == Pick(T)
  <2>1. c \in T
      BY DEF Pick
  <2>2. Sum(g, T) = g[c] + Sum(g, T \ {c})
      BY <1>1
  <2>. HIDE DEF c
  <2>3. CASE x = c
      BY <2>2, <2>3
  <2>4. CASE x # c
    <3>1. T \ {c} \in Q /\ T \ {x} \in Q
        BY <1>2, <2>1
    <3>2. Sum(g, T \ {c}) = g[x] + Sum(g, (T \ {c}) \ {x})
        BY <2>4, <3>1
    <3>3. Sum(g, T \ {x}) = g[c] + Sum(g, (T \ {x}) \ {c})
        BY <2>1, <2>4, <3>1
    <3>4. (T \ {x}) \ {c} = (T \ {c}) \ {x} /\ (T \ {c}) \ {x} \in SUBSET S
        OBVIOUS
    <3>5. g[x] \in Nat /\ g[c] \in Nat /\ Sum(g, (T \ {c}) \ {x}) \in Nat
        BY <1>1, <2>1, <3>4
    <3>. QED
        BY <2>2, <3>2, <3>3, <3>4, <3>5
  <2>. QED
      BY <2>3, <2>4
<1>3. \A T \in SUBSET S : (\A U \in SUBSET T : U # T => U \in Q) => T \in Q
    BY <1>2
<1>. HIDE DEF Q
<1>4. S \in Q
    BY <1>3, SubsetInduction
<1>. QED
    BY <1>4 DEF Q

\* What is summed in two parts: f over C, and what is left of f without C.
LEMMA SumSplit ==
    ASSUME NEW S, IsFiniteSet(S), NEW f, \A x \in S : f[x] \in Nat,
           NEW C \in SUBSET S, NEW g, \A x \in S : g[x] = IF x \in C THEN 0 ELSE f[x]
    PROVE  Sum(f, C) + Sum(g, S) = Sum(f, S)
<1>. DEFINE Q == {T \in SUBSET S : Sum(f, C \cap T) + Sum(g, T) = Sum(f, T)}
<1>1. \A x \in S : g[x] \in Nat
    OBVIOUS
<1>2. \A T \in SUBSET S : IsFiniteSet(T) /\ Sum(f, T) \in Nat /\ Sum(g, T) \in Nat
    BY <1>1, SumRecursion, FS_Subset
<1>3. ASSUME NEW T \in SUBSET S, \A U \in SUBSET T : U # T => U \in Q
      PROVE  T \in Q
  <2>1. CASE T = {}
    <3>1. Sum(f, {}) = 0 /\ Sum(g, {}) = 0 /\ C \cap {} = {}
        BY <1>1, SumRecursion
    <3>. QED
        BY <2>1, <3>1
  <2>2. CASE T # {}
    <3>1. PICK x \in T : TRUE
        BY <2>2
    <3>2. Sum(f, C \cap (T \ {x})) + Sum(g, T \ {x}) = Sum(f, T \ {x})
        BY <1>3, <3>1
    <3>3. Sum(f, T) = f[x] + Sum(f, T \ {x}) /\ Sum(g, T) = g[x] + Sum(g, T \ {x})
        BY <1>1, <1>2, SumElement
    <3>4. Sum(f, C \cap T) = (IF x \in C THEN f[x] ELSE 0) + Sum(f, C \cap (T \ {x}))
      <4>1. C \cap T \in SUBSET S /\ C \cap (T \ {x}) \in SUBSET S
          OBVIOUS
      <4>2. CASE x \in C
        <5>1. C \cap (T \ {x}) = (C \cap T) \ {x}
            OBVIOUS
        <5>. QED
            BY <1>2, <4>1, <4>2, <5>1, SumElement
      <4>3. CASE x \notin C
        <5>1. C \cap (T \ {x}) = C \cap T
            BY <4>3
        <5>. QED
            BY <1>2, <4>1, <4>3, <5>1
      <4>. QED
          BY <4>2, <4>3
    <3>5. /\ f[x] \in Nat /\ g[x] = IF x \in C THEN 0 ELSE f[x]
          /\ Sum(f, C \cap (T \ {x})) \in Nat /\ Sum(f, T \ {x}) \in Nat
          /\ Sum(g, T \ {x}) \in Nat
        BY <1>2
    <3>6. Sum(f, C \cap T) + Sum(g, T) = Sum(f, T)
        BY <3>2, <3>3, <3>4, <3>5
    <3>. QED
        BY <3>6
  <2>. QED
      BY <2>1, <2>2
<1>. HIDE DEF Q
<1>4. S \in Q
    BY <1>3, SubsetInduction
<1>5. C \cap S = C
    OBVIOUS
<1>. QED
    BY <1>4, <1>5 DEF Q

\* Equal functions have equal sums, and one of zeros the sum 0.
LEMMA SumEqual ==
    ASSUME NEW S, IsFiniteSet(S), NEW f, \A x \in S : f[x] \in Nat,
           NEW g, \A x \in S : g[x] = f[x]
    PROVE  Sum(f, S) = Sum(g, S)
<1>1. Sum(f, {}) + Sum(g, S) = Sum(f, S)
    BY SumSplit
<1>2. Sum(f, {}) = 0 /\ Sum(g, S) \in Nat
    BY SumRecursion
<1>. QED
    BY <1>1, <1>2

LEMMA SumZero ==
    ASSUME NEW S, IsFiniteSet(S), NEW g, \A x \in S : g[x] = 0
    PROVE  Sum(g, S) = 0
<1>1. \A x \in S : g[x] \in Nat
    OBVIOUS
<1>2. Sum(g, S) + Sum(g, S) = Sum(g, S)
    BY <1>1, SumSplit
<1>3. Sum(g, S) \in Nat
    BY <1>1, SumRecursion
<1>4. \A n \in Nat : n + n = n => n = 0
    OBVIOUS
<1>. QED
    BY <1>2, <1>3, <1>4

\* One more at one place is one more in sum.
LEMMA SumIncrement ==
    ASSUME NEW S, IsFiniteSet(S), NEW f, \A x \in S : f[x] \in Nat, NEW e \in S,
           NEW g, \A x \in S : g[x] = IF x = e THEN f[x] + 1 ELSE f[x]
    PROVE  Sum(g, S) = Sum(f, S) + 1
<1>1. IsFiniteSet(S \ {e})
    BY FS_RemoveElement
<1>2. Sum(f, S \ {e}) = Sum(g, S \ {e})
    BY <1>1, SumEqual
<1>3. Sum(f, S) = f[e] + Sum(f, S \ {e})
    BY SumElement
<1>4. Sum(g, S) = g[e] + Sum(g, S \ {e})
    BY SumElement
<1>5. Sum(f, S \ {e}) \in Nat
    BY <1>1, SumRecursion
<1>. QED
    BY <1>2, <1>3, <1>4, <1>5

-----------------------------------------------------------------------------
(* The operators of the model.                                              *)

LEMMA Bounds ==
    /\ READ_COUNT \in Nat \ {0} /\ SECOND \in Nat \ {0} /\ STREAM_MAXLEN \in Nat \ {0}
    /\ DEDUP_WINDOW \in Nat /\ SWEEP_EVERY \in Nat /\ MIN_SAMPLES \in Nat
    /\ BASELINE_TTL \in Nat /\ EVICT_EVERY \in Nat
    /\ MaxEntries \in Nat /\ MaxTime \in Nat /\ MaxCrashes \in Nat
<1>1. \A x \in {READ_COUNT, SECOND, STREAM_MAXLEN} : x \in Nat \ {0}
    BY BoundsAssumption
<1>2. \A x \in {DEDUP_WINDOW, SWEEP_EVERY, MIN_SAMPLES} : x \in Nat
    BY BoundsAssumption
<1>3. \A x \in {BASELINE_TTL, EVICT_EVERY, MaxEntries, MaxTime, MaxCrashes} : x \in Nat
    BY BoundsAssumption
<1>. QED
    BY <1>1, <1>2, <1>3

\* FirstN answers with an initial part of S, and with all of a set of few.
LEMMA FirstNType ==
    ASSUME NEW S, IsFiniteSet(S), S \subseteq Nat, NEW n \in Nat
    PROVE  /\ FirstN(S, n) \subseteq S
           /\ \A e \in FirstN(S, n), x \in S : x <= e => x \in FirstN(S, n)
<1>1. FirstN(S, n) \subseteq S
    BY DEF FirstN
<1>2. ASSUME NEW e \in FirstN(S, n), NEW x \in S, x <= e PROVE x \in FirstN(S, n)
  <2>. DEFINE Upto(z) == {y \in S : y <= z}
  <2>0. e \in Nat /\ x \in Nat /\ S \subseteq Nat
      BY <1>1
  <2>1. Upto(x) \subseteq Upto(e) /\ Upto(e) \subseteq S
    <3>1. \A y \in Nat : y <= x => y <= e
        BY <1>2, <2>0
    <3>. QED
        BY <2>0, <3>1
  <2>2. IsFiniteSet(Upto(e)) /\ IsFiniteSet(Upto(x))
      BY <2>1, FS_Subset
  <2>3. Cardinality(Upto(x)) <= Cardinality(Upto(e))
      BY <2>1, <2>2, FS_Subset
  <2>4. Cardinality(Upto(e)) <= n
      BY DEF FirstN
  <2>5. Cardinality(Upto(x)) \in Nat /\ Cardinality(Upto(e)) \in Nat
      BY <2>2, FS_CardinalityType
  <2>6. Cardinality(Upto(x)) <= n
      BY <2>3, <2>4, <2>5
  <2>. QED
      BY <2>6 DEF FirstN
<1>. QED
    BY <1>1, <1>2

\* The entries that an XREADGROUP > answers with: the next ones that are not
\* trimmed, without a gap.
LEMMA NewMessagesType ==
    ASSUME TypeOK
    PROVE  /\ NewMessages \subseteq 1..added
           /\ \A e \in NewMessages : e > lastDelivered
           /\ NewMessages # {} =>
                 /\ Max(NewMessages) \in NewMessages
                 /\ \A e \in 1..Max(NewMessages) :
                       e <= lastDelivered \/ e <= trimmed \/ e \in NewMessages
                 /\ \A e \in NewMessages : e <= Max(NewMessages)
<1>. DEFINE S == {e \in 1..added : e > lastDelivered /\ e > trimmed}
<1>1. added \in Nat /\ lastDelivered \in Nat /\ trimmed \in Nat /\ READ_COUNT \in Nat
    BY Bounds DEF TypeOK
<1>2. S \subseteq 1..added /\ S \subseteq Nat /\ IsFiniteSet(S)
  <2>1. S \in SUBSET (1..added) /\ S \subseteq Nat
      BY <1>1
  <2>2. IsFiniteSet(1..added)
      BY <1>1, FS_Interval
  <2>. QED
      BY <2>1, <2>2, FS_Subset
<1>3. NewMessages = FirstN(S, READ_COUNT)
    BY DEF NewMessages
<1>4. /\ NewMessages \subseteq S
      /\ \A e \in NewMessages, x \in S : x <= e => x \in NewMessages
    BY <1>1, <1>2, <1>3, FirstNType
<1>5. ASSUME NewMessages # {}
      PROVE  /\ Max(NewMessages) \in NewMessages
             /\ \A e \in NewMessages : e <= Max(NewMessages)
  <2>1. NewMessages \in SUBSET (0..added)
      BY <1>1, <1>2, <1>4
  <2>2. Max(NewMessages) \in NewMessages /\ \A m \in NewMessages : Max(NewMessages) >= m
      BY <1>1, <1>5, <2>1, MaxType
  <2>. QED
      BY <1>1, <2>1, <2>2
<1>6. ASSUME NewMessages # {}, NEW e \in 1..Max(NewMessages)
      PROVE  e <= lastDelivered \/ e <= trimmed \/ e \in NewMessages
  <2>1. Max(NewMessages) \in NewMessages /\ Max(NewMessages) \in 1..added
      BY <1>4, <1>5, <1>6
  <2>2. e \in 1..added /\ e <= Max(NewMessages)
      BY <1>1, <1>6, <2>1
  <2>3. e \in S => e \in NewMessages
      BY <1>4, <2>1, <2>2
  <2>. QED
      BY <1>1, <2>2, <2>3
<1>. QED
    BY <1>4, <1>5, <1>6

\* Sec is monotone.
LEMMA SecType ==
    ASSUME NEW t \in 0..MaxTime
    PROVE  Sec(t) \in Nat /\ Sec(t) \in Seconds
<1>1. Sec(t) \in Nat /\ Sec(MaxTime) \in Nat
    BY Bounds, DivBounds DEF Sec
<1>2. Sec(t) <= Sec(MaxTime)
    BY Bounds, DivMonotone DEF Sec
<1>. QED
    BY <1>1, <1>2 DEF Seconds

LEMMA BucketsFinite == IsFiniteSet(Seconds \X Endpoints)
<1>1. Sec(MaxTime) \in Nat
    BY Bounds, SecType
<1>2. IsFiniteSet(Seconds)
    BY <1>1, FS_Interval DEF Seconds
<1>. QED
    BY <1>2, ContentsAssumption, FS_Product

\* What the snapshots count is a sum over the buckets.
LEMMA RequestsSum == \A B : Requests(B) = Sum(buckets, B)
BY DEF Requests, Sum

-----------------------------------------------------------------------------
(* The deduplication window.                                                *)

\* What should_publish does when it answers yes, and when it answers no.
Opened(k, e, published) ==
    /\ pc' = published
    /\ alert' = [key |-> k, entry |-> e, at |-> now, life |-> life]
    /\ k \in DOMAIN recent => now - recent[k].first > DEDUP_WINDOW
    /\ k \in DOMAIN recent'
    /\ recent'[k] = [first |-> now, count |-> 1]

Suppressed(k, suppressed) ==
    /\ pc' = suppressed
    /\ UNCHANGED alert
    /\ k \in DOMAIN recent /\ k \in DOMAIN recent'
    /\ now - recent[k].first <= DEDUP_WINDOW
    /\ recent'[k] = [first |-> recent[k].first, count |-> recent[k].count + 1]

\* What happens to the other keys.
OthersKept(k) ==
    /\ DOMAIN recent' \subseteq DOMAIN recent \cup {k}
    /\ \A j \in DOMAIN recent' \ {k} : recent'[j] = recent[j]
    /\ \A j \in DOMAIN recent \ DOMAIN recent' : now - recent[j].first > DEDUP_WINDOW

LEMMA SweptType ==
    ASSUME TypeOK
    PROVE  /\ DOMAIN Swept \subseteq DOMAIN recent
           /\ \A j \in DOMAIN Swept : Swept[j] = recent[j]
           /\ \A j \in DOMAIN recent \ DOMAIN Swept : now - recent[j].first > DEDUP_WINDOW
           /\ Swept = [j \in DOMAIN Swept |-> Swept[j]]
<1>1. \A j \in DOMAIN recent : recent[j].first \in Nat
    BY DEF TypeOK
<1>2. now \in Nat /\ DEDUP_WINDOW \in Nat
    BY Bounds DEF TypeOK
<1>3. CASE now - lastSweep < SWEEP_EVERY
    BY <1>3 DEF Swept, TypeOK
<1>4. CASE ~(now - lastSweep < SWEEP_EVERY)
    BY <1>1, <1>2, <1>4 DEF Swept
<1>. QED
    BY <1>3, <1>4

LEMMA ShouldPublishCases ==
    ASSUME TypeOK, NEW k, NEW e, NEW published, NEW suppressed,
           ShouldPublish(k, e, published, suppressed)
    PROVE  /\ Opened(k, e, published) \/ Suppressed(k, suppressed)
           /\ OthersKept(k)
<1>1. \A j \in DOMAIN recent : /\ recent[j].first \in Nat
                               /\ recent[j] \in [first : 0..now, count : Nat \ {0}]
    BY DEF TypeOK
<1>2. now \in Nat /\ DEDUP_WINDOW \in Nat
    BY Bounds DEF TypeOK
<1>3. CASE FreshWindow(k)
  <2>1. /\ recent' = [j \in DOMAIN Swept \cup {k} |->
                        IF j = k THEN [first |-> now, count |-> 1] ELSE Swept[j]]
        /\ alert' = [key |-> k, entry |-> e, at |-> now, life |-> life]
        /\ pc' = published
      BY <1>3 DEF ShouldPublish
  <2>2. k \in DOMAIN recent => now - recent[k].first > DEDUP_WINDOW
      BY <1>3, SweptType DEF FreshWindow
  <2>3. Opened(k, e, published)
      BY <2>1, <2>2 DEF Opened
  <2>4. OthersKept(k)
      BY <2>1, SweptType DEF OthersKept
  <2>. QED
      BY <2>3, <2>4
<1>4. CASE ~FreshWindow(k)
  <2>1. /\ recent' = [Swept EXCEPT ![k] = Counted(k)]
        /\ pc' = suppressed
        /\ UNCHANGED alert
      BY <1>4 DEF ShouldPublish
  <2>2. k \in DOMAIN Swept /\ ~(now - recent[k].first > DEDUP_WINDOW)
      BY <1>4, SweptType DEF FreshWindow
  <2>3. k \in DOMAIN recent
      BY <2>2, SweptType
  <2>4. Counted(k) = [first |-> recent[k].first, count |-> recent[k].count + 1]
      BY <1>1, <2>3 DEF Counted
  <2>5. /\ DOMAIN recent' = DOMAIN Swept
        /\ recent'[k] = Counted(k)
        /\ \A j \in DOMAIN Swept \ {k} : recent'[j] = Swept[j]
      BY <2>1, <2>2, SweptType
  <2>6. now - recent[k].first <= DEDUP_WINDOW
      BY <1>1, <1>2, <2>2, <2>3
  <2>7. Suppressed(k, suppressed)
      BY <2>1, <2>2, <2>3, <2>4, <2>5, <2>6 DEF Suppressed
  <2>8. OthersKept(k)
      BY <2>5, SweptType DEF OthersKept
  <2>. QED
      BY <2>7, <2>8
<1>. QED
    BY <1>3, <1>4

-----------------------------------------------------------------------------
(* Type correctness.                                                        *)

\* The parts of TypeOK.
StreamTypes ==
    /\ now \in 0..MaxTime
    /\ added \in 0..MaxEntries /\ trimmed \in 0..added
    /\ content \in [Entries -> Contents]
    /\ groupExists \in BOOLEAN
    /\ lastDelivered \in 0..added
    /\ pel \subseteq 1..lastDelivered

WorkTypes ==
    /\ pc \in Locations
    /\ batch \subseteq Entries /\ ackIds \subseteq Entries
    /\ event \in 0..MaxEntries
    /\ todo \in Seq(Rules)
    /\ alert \in Alerts \cup {NoAlert}

DedupTypes ==
    /\ DOMAIN recent \subseteq Keys
    /\ recent \in [DOMAIN recent -> [first : 0..now, count : Nat \ {0}]]
    /\ lastSweep \in Int

ScoreTypes ==
    /\ buckets \in [Seconds \X Endpoints -> Nat]
    /\ ticks \subseteq [sec : Seconds, endpoint : Endpoints, rps : Nat]
    /\ total \in Nat
    /\ DOMAIN baselines \subseteq Endpoints
    /\ baselines \in [DOMAIN baselines -> [samples : Nat \ {0}, seen : 0..now]]
    /\ lastEvict \in 0..now

HistoryTypes ==
    /\ born \in 0..now
    /\ life \in 0..(MaxCrashes + 1)
    /\ alerts \subseteq Alerts
    /\ scanned \subseteq Entries /\ lost \subseteq Entries
    /\ recorded \in Nat /\ shown \in Nat

LEMMA TypeParts ==
    TypeOK <=> StreamTypes /\ WorkTypes /\ DedupTypes /\ ScoreTypes /\ HistoryTypes
<1>1. {lastEvict, born} \subseteq 0..now <=> lastEvict \in 0..now /\ born \in 0..now
    OBVIOUS
<1>. QED
    BY <1>1, Zenon DEF TypeOK, StreamTypes, WorkTypes, DedupTypes, ScoreTypes, HistoryTypes

\* The process is starting, or it scores the samples of a tick.
Starting == pc \in {"down", "drop", "dropAck"}
Scoring == pc \in {"score", "snapshot"} \/ (pc = "publish" /\ event = 0)

\* What the program holds where: while it starts, between batches, inside
\* process_message, and outside of score_baselines.
LocStart ==
    /\ pc = "down" => life <= MaxCrashes /\ DOMAIN recent = {}
    /\ Starting =>
          /\ batch = {} /\ event = 0 /\ DOMAIN baselines = {}
          /\ \A b \in Seconds \X Endpoints : buckets[b] = 0

LocBatch ==
    Scoring \/ pc \in {"down", "drop", "read", "tick"} => batch = {} /\ ackIds = {}

LocEvent ==
    /\ pc = "match" => event # 0
    /\ event # 0 => pc \in {"match", "publish"}
    /\ pc = "publish" => alert \in Alerts

LocTick ==
    /\ Scoring \/ (ticks = {} /\ total = 0)
    /\ pc = "snapshot" => ticks = {}

LocInv == LocStart /\ LocBatch /\ LocEvent /\ LocTick

TypeInv == TypeOK /\ LocInv

LEMMA TypeInit == Init => TypeInv
<1>. SUFFICES ASSUME Init PROVE TypeInv
    OBVIOUS
<1>. USE Bounds
<1>1. StreamTypes
  <2>. DEFINE c == CHOOSE d \in Contents : TRUE
  <2>1. c \in Contents
      BY ContentsAssumption
  <2>2. content = [e \in Entries |-> c]
      BY DEF Init
  <2>. HIDE DEF c
  <2>3. content \in [Entries -> Contents]
      BY <2>1, <2>2
  <2>4. /\ now = 0 /\ added = 0 /\ trimmed = 0 /\ groupExists = FALSE
        /\ lastDelivered = 0 /\ pel = {}
      BY DEF Init
  <2>5. now \in 0..MaxTime /\ added \in 0..MaxEntries
      BY <2>4
  <2>6. trimmed \in 0..added /\ lastDelivered \in 0..added
      BY <2>4
  <2>7. pel \subseteq 1..lastDelivered /\ groupExists \in BOOLEAN
      BY <2>4
  <2>. QED
      BY <2>3, <2>5, <2>6, <2>7, Zenon DEF StreamTypes
<1>2. WorkTypes
    BY DEF Init, WorkTypes, Locations
<1>3. DedupTypes
    BY DEF Init, DedupTypes, Empty
<1>4. ScoreTypes
    BY DEF Init, ScoreTypes, Empty
<1>5. HistoryTypes
    BY DEF Init, HistoryTypes
<1>6. LocInv
    BY DEF Init, LocInv, LocStart, LocBatch, LocEvent, LocTick, Starting, Scoring, Empty
<1>. QED
    BY <1>1, <1>2, <1>3, <1>4, <1>5, <1>6, TypeParts DEF TypeInv

\* The keys of _recent and what is alerted under them.
LEMMA AlertType ==
    ASSUME TypeInv, NEW k \in Keys, NEW e \in 0..MaxEntries
    PROVE  [key |-> k, entry |-> e, at |-> now, life |-> life] \in Alerts
<1>1. now \in 0..MaxTime /\ life \in 0..(MaxCrashes + 1)
    BY DEF TypeInv, TypeOK
<1>. QED
    BY <1>1 DEF Alerts

\* should_publish keeps the types of _recent and of the alert.
LEMMA ShouldPublishType ==
    ASSUME TypeInv, NEW k \in Keys, NEW e \in 0..MaxEntries,
           NEW published, NEW suppressed,
           ShouldPublish(k, e, published, suppressed), UNCHANGED now
    PROVE  /\ DedupTypes'
           /\ alert' \in Alerts \cup {NoAlert}
           /\ \/ pc' = published /\ alert' \in Alerts
              \/ pc' = suppressed
<1>1. /\ Opened(k, e, published) \/ Suppressed(k, suppressed)
      /\ OthersKept(k)
    BY ShouldPublishCases DEF TypeInv
<1>2. /\ now \in Nat /\ lastSweep \in Int /\ DOMAIN recent \subseteq Keys
      /\ \A j \in DOMAIN recent : recent[j] \in [first : 0..now, count : Nat \ {0}]
    BY DEF TypeInv, TypeOK
<1>3. lastSweep' \in Int
    BY <1>2 DEF ShouldPublish
<1>4. DOMAIN recent' \subseteq Keys
    BY <1>1, <1>2 DEF OthersKept
<1>5. recent'[k] \in [first : 0..now, count : Nat \ {0}]
  <2>1. CASE Opened(k, e, published)
      BY <1>2, <2>1 DEF Opened
  <2>2. CASE Suppressed(k, suppressed)
      BY <1>2, <2>2 DEF Suppressed
  <2>. QED
      BY <1>1, <2>1, <2>2
<1>6. \A j \in DOMAIN recent' : recent'[j] \in [first : 0..now, count : Nat \ {0}]
    BY <1>1, <1>2, <1>5 DEF OthersKept
<1>7. recent' = [j \in DOMAIN recent' |-> recent'[j]]
  <2>1. CASE FreshWindow(k)
      BY <2>1 DEF ShouldPublish
  <2>2. CASE ~FreshWindow(k)
    <3>1. recent' = [Swept EXCEPT ![k] = Counted(k)]
        BY <2>2 DEF ShouldPublish
    <3>. QED
        BY <3>1
  <2>. QED
      BY <2>1, <2>2
<1>8. DedupTypes'
    BY <1>3, <1>4, <1>6, <1>7 DEF DedupTypes
<1>9. /\ alert' \in Alerts \cup {NoAlert}
      /\ (pc' = published /\ alert' \in Alerts) \/ pc' = suppressed
    BY <1>1, AlertType DEF Opened, Suppressed, TypeInv, TypeOK
<1>. QED
    BY <1>8, <1>9

\* The parts of TypeInv, and what they say of the numbers.
LEMMA Types ==
    ASSUME TypeInv
    PROVE  /\ StreamTypes /\ WorkTypes /\ DedupTypes /\ ScoreTypes /\ HistoryTypes
           /\ LocStart /\ LocBatch /\ LocEvent /\ LocTick
BY TypeParts DEF TypeInv, LocInv

\* The same of the next state.
LEMMA NextTypes ==
    ASSUME StreamTypes', WorkTypes', DedupTypes', ScoreTypes', HistoryTypes',
           LocStart', LocBatch', LocEvent', LocTick'
    PROVE  TypeInv'
<1>1. {lastEvict', born'} \subseteq 0..now'
    BY DEF ScoreTypes, HistoryTypes
<1>2. TypeOK'
    BY <1>1, Zenon DEF TypeOK, StreamTypes, WorkTypes, DedupTypes, ScoreTypes, HistoryTypes
<1>. QED
    BY <1>2 DEF TypeInv, LocInv

LEMMA Numbers ==
    ASSUME StreamTypes
    PROVE  /\ now \in Nat /\ now <= MaxTime
           /\ added \in Nat /\ added <= MaxEntries
           /\ trimmed \in Nat /\ trimmed <= added
           /\ lastDelivered \in Nat /\ lastDelivered <= added
           /\ 1..lastDelivered \subseteq Entries /\ pel \subseteq Entries
           /\ MaxEntries \in Nat /\ MaxTime \in Nat
BY Bounds DEF StreamTypes, Entries

\* One lemma per action.
LEMMA TickType ==
    ASSUME TypeInv, Tick
    PROVE  TypeInv'
<1>0. /\ StreamTypes /\ WorkTypes /\ DedupTypes /\ ScoreTypes /\ HistoryTypes
      /\ LocStart /\ LocBatch /\ LocEvent /\ LocTick
    BY Types
<1>a. now' \in 0..MaxTime
    BY <1>0, Numbers DEF Tick
<1>b. 0..now \subseteq 0..now'
    BY <1>0, Numbers DEF Tick
<1>1. StreamTypes'
    BY <1>0, <1>a, <1>b DEF Tick, StreamTypes, stream, group
<1>2. WorkTypes'
    BY <1>0 DEF Tick, WorkTypes, work
<1>3. DedupTypes'
    BY <1>0, <1>b DEF Tick, DedupTypes, dedup
<1>4. ScoreTypes'
    BY <1>0, <1>b DEF Tick, ScoreTypes, scoring
<1>5. HistoryTypes'
    BY <1>0, <1>b DEF Tick, HistoryTypes, history
<1>6. LocStart'
    BY <1>0 DEF Tick, LocStart, work, dedup, scoring, history, Starting
<1>7. LocBatch'
    BY <1>0 DEF Tick, LocBatch, work, Starting, Scoring
<1>8. LocEvent'
    BY <1>0 DEF Tick, LocEvent, work
<1>9. LocTick'
    BY <1>0 DEF Tick, LocTick, work, scoring, Scoring
<1>. QED
    BY <1>1, <1>2, <1>3, <1>4, <1>5, <1>6, <1>7, <1>8, <1>9, NextTypes

LEMMA EmitType ==
    ASSUME TypeInv, NEW c \in Contents, Emit(c)
    PROVE  TypeInv'
<1>0. /\ StreamTypes /\ WorkTypes /\ DedupTypes /\ ScoreTypes /\ HistoryTypes
      /\ LocStart /\ LocBatch /\ LocEvent /\ LocTick
    BY Types
<1>1. StreamTypes'
  <2>1. /\ added' \in 0..MaxEntries /\ trimmed' \in 0..added'
        /\ lastDelivered \in 0..added'
      BY <1>0, Numbers DEF Emit, TrimPoints, StreamTypes
  <2>2. content' \in [Entries -> Contents]
      BY <1>0 DEF Emit, StreamTypes
  <2>. QED
      BY <1>0, <2>1, <2>2 DEF Emit, StreamTypes, group
<1>2. WorkTypes'
    BY <1>0 DEF Emit, WorkTypes, work
<1>3. DedupTypes'
    BY <1>0 DEF Emit, DedupTypes, dedup
<1>4. ScoreTypes'
    BY <1>0 DEF Emit, ScoreTypes, scoring
<1>5. HistoryTypes'
    BY <1>0 DEF Emit, HistoryTypes, history
<1>6. LocStart'
    BY <1>0 DEF Emit, LocStart, work, dedup, scoring, history, Starting
<1>7. LocBatch'
    BY <1>0 DEF Emit, LocBatch, work, Starting, Scoring
<1>8. LocEvent'
    BY <1>0 DEF Emit, LocEvent, work
<1>9. LocTick'
    BY <1>0 DEF Emit, LocTick, work, scoring, Scoring
<1>. QED
    BY <1>1, <1>2, <1>3, <1>4, <1>5, <1>6, <1>7, <1>8, <1>9, NextTypes

LEMMA StartType ==
    ASSUME TypeInv, Start
    PROVE  TypeInv'
<1>0. /\ StreamTypes /\ WorkTypes /\ DedupTypes /\ ScoreTypes /\ HistoryTypes
      /\ LocStart /\ LocBatch /\ LocEvent /\ LocTick
    BY Types
<1>1. StreamTypes'
    BY <1>0 DEF Start, StreamTypes, stream, group, EnsureConsumerGroup
<1>2. WorkTypes'
    BY <1>0 DEF Start, WorkTypes, work, Locations
<1>3. DedupTypes'
    BY <1>0 DEF Start, DedupTypes, dedup
<1>4. ScoreTypes'
    BY <1>0 DEF Start, ScoreTypes, scoring
<1>5. HistoryTypes'
    BY <1>0, Bounds DEF Start, HistoryTypes, history, LocStart
<1>6. LocStart'
    BY <1>0 DEF Start, LocStart, work, dedup, scoring, history, Starting
<1>7. LocBatch'
    BY <1>0 DEF Start, LocBatch, work, Starting, Scoring
<1>8. LocEvent'
    BY <1>0 DEF Start, LocEvent, work, LocStart, Starting
<1>9. LocTick'
    BY <1>0 DEF Start, LocTick, work, scoring, Scoring, Starting
<1>. QED
    BY <1>1, <1>2, <1>3, <1>4, <1>5, <1>6, <1>7, <1>8, <1>9, NextTypes

LEMMA CrashType ==
    ASSUME TypeInv, Crash
    PROVE  TypeInv'
<1>0. /\ StreamTypes /\ WorkTypes /\ DedupTypes /\ ScoreTypes /\ HistoryTypes
      /\ LocStart /\ LocBatch /\ LocEvent /\ LocTick
    BY Types
<1>1. StreamTypes'
    BY <1>0 DEF Crash, StreamTypes, stream, group
<1>2. WorkTypes'
  <2>1. /\ pc' = "down" /\ batch' = {} /\ ackIds' = {} /\ event' = 0
        /\ todo' = <<>> /\ alert' = NoAlert
      BY DEF Crash
  <2>. QED
      BY <2>1, Bounds DEF WorkTypes, Locations
<1>3. DedupTypes'
    BY <1>0, Bounds DEF Crash, DedupTypes, dedup, Empty
<1>4. ScoreTypes'
    BY <1>0, Numbers DEF Crash, ScoreTypes, scoring, Empty
<1>5. HistoryTypes'
    BY <1>0, Numbers DEF Crash, HistoryTypes, history, WorkTypes
<1>6. LocStart'
    BY <1>0 DEF Crash, LocStart, work, dedup, scoring, history, Starting, Empty
<1>7. LocBatch'
    BY <1>0 DEF Crash, LocBatch, work, Starting, Scoring
<1>8. LocEvent'
    BY <1>0 DEF Crash, LocEvent, work
<1>9. LocTick'
    BY <1>0 DEF Crash, LocTick, work, scoring, Scoring
<1>. QED
    BY <1>1, <1>2, <1>3, <1>4, <1>5, <1>6, <1>7, <1>8, <1>9, NextTypes

LEMMA DropOwnPendingType ==
    ASSUME TypeInv, DropOwnPending
    PROVE  TypeInv'
<1>0. /\ StreamTypes /\ WorkTypes /\ DedupTypes /\ ScoreTypes /\ HistoryTypes
      /\ LocStart /\ LocBatch /\ LocEvent /\ LocTick
    BY Types
<1>1. StreamTypes'
    BY <1>0 DEF DropOwnPending, StreamTypes, stream, group
<1>2. WorkTypes'
    BY <1>0, Numbers DEF DropOwnPending, WorkTypes, work, FirstN, Locations
<1>3. DedupTypes'
    BY <1>0 DEF DropOwnPending, DedupTypes, dedup
<1>4. ScoreTypes'
    BY <1>0, Numbers DEF DropOwnPending, ScoreTypes, scoring
<1>5. HistoryTypes'
    BY <1>0, Numbers DEF DropOwnPending, HistoryTypes, history
<1>6. LocStart'
    BY <1>0 DEF DropOwnPending, LocStart, work, dedup, scoring, history, Starting
<1>7. LocBatch'
    BY <1>0 DEF DropOwnPending, LocBatch, work, Starting, Scoring, LocStart, FirstN
<1>8. LocEvent'
    BY <1>0 DEF DropOwnPending, LocEvent, work, LocStart, Starting
<1>9. LocTick'
    BY <1>0 DEF DropOwnPending, LocTick, work, scoring, Scoring
<1>. QED
    BY <1>1, <1>2, <1>3, <1>4, <1>5, <1>6, <1>7, <1>8, <1>9, NextTypes

LEMMA DropAckType ==
    ASSUME TypeInv, DropAck
    PROVE  TypeInv'
<1>0. /\ StreamTypes /\ WorkTypes /\ DedupTypes /\ ScoreTypes /\ HistoryTypes
      /\ LocStart /\ LocBatch /\ LocEvent /\ LocTick
    BY Types
<1>1. StreamTypes'
    BY <1>0 DEF DropAck, StreamTypes, stream, group
<1>2. WorkTypes'
    BY <1>0 DEF DropAck, WorkTypes, work, Locations
<1>3. DedupTypes'
    BY <1>0 DEF DropAck, DedupTypes, dedup
<1>4. ScoreTypes'
    BY <1>0 DEF DropAck, ScoreTypes, scoring
<1>5. HistoryTypes'
    BY <1>0 DEF DropAck, HistoryTypes, history
<1>6. LocStart'
    BY <1>0 DEF DropAck, LocStart, work, dedup, scoring, history, Starting
<1>7. LocBatch'
    BY <1>0 DEF DropAck, LocBatch, work, Starting, Scoring, LocStart
<1>8. LocEvent'
    BY <1>0 DEF DropAck, LocEvent, work, LocStart, Starting
<1>9. LocTick'
    BY <1>0 DEF DropAck, LocTick, work, scoring, Scoring
<1>. QED
    BY <1>1, <1>2, <1>3, <1>4, <1>5, <1>6, <1>7, <1>8, <1>9, NextTypes

LEMMA ReadType ==
    ASSUME TypeInv, Read
    PROVE  TypeInv'
<1>0. /\ StreamTypes /\ WorkTypes /\ DedupTypes /\ ScoreTypes /\ HistoryTypes
      /\ LocStart /\ LocBatch /\ LocEvent /\ LocTick
    BY Types
<1>a. /\ NewMessages \subseteq 1..added
      /\ \A e \in NewMessages : e > lastDelivered
      /\ NewMessages # {} => /\ Max(NewMessages) \in NewMessages
                             /\ \A e \in NewMessages : e <= Max(NewMessages)
    BY NewMessagesType DEF TypeInv
<1>1. StreamTypes'
  <2>1. NewMessages # {} => Max(NewMessages) \in 1..added /\ Max(NewMessages) > lastDelivered
      BY <1>a
  <2>2. lastDelivered' \in 0..added /\ lastDelivered <= lastDelivered'
      BY <1>0, <2>1, Numbers DEF Read
  <2>3. NewMessages \subseteq 1..lastDelivered'
      BY <1>0, <1>a, <2>1, Numbers DEF Read
  <2>4. 1..lastDelivered \subseteq 1..lastDelivered'
      BY <1>0, <2>2, Numbers
  <2>. QED
      BY <1>0, <2>2, <2>3, <2>4 DEF Read, StreamTypes, stream
<1>2. WorkTypes'
    BY <1>0, <1>a, Numbers DEF Read, WorkTypes, work, Locations, Entries
<1>3. DedupTypes'
    BY <1>0 DEF Read, DedupTypes, dedup
<1>4. ScoreTypes'
    BY <1>0 DEF Read, ScoreTypes, scoring
<1>5. HistoryTypes'
    BY <1>0 DEF Read, HistoryTypes, history
<1>6. LocStart'
    BY <1>0 DEF Read, LocStart, work, dedup, scoring, history, Starting, LocEvent
<1>7. LocBatch'
    BY <1>0 DEF Read, LocBatch, work, Starting, Scoring, LocEvent
<1>8. LocEvent'
    BY <1>0 DEF Read, LocEvent, work
<1>9. LocTick'
    BY <1>0 DEF Read, LocTick, work, scoring, Scoring, LocEvent
<1>. QED
    BY <1>1, <1>2, <1>3, <1>4, <1>5, <1>6, <1>7, <1>8, <1>9, NextTypes

LEMMA ScanType ==
    ASSUME TypeInv, Scan
    PROVE  TypeInv'
<1>0. /\ StreamTypes /\ WorkTypes /\ DedupTypes /\ ScoreTypes /\ HistoryTypes
      /\ LocStart /\ LocBatch /\ LocEvent /\ LocTick
    BY Types
<1>a. batch # {} => Min(batch) \in batch
  <2>1. batch \in SUBSET (0..MaxEntries)
      BY <1>0 DEF WorkTypes, Entries
  <2>. QED
      BY <2>1, Bounds, MinType
<1>1. StreamTypes'
    BY <1>0 DEF Scan, StreamTypes, stream, group
<1>2. WorkTypes'
  <2>. DEFINE e == Min(batch)
  <2>1. /\ e \in Entries
        /\ batch' = batch \ {e} /\ ackIds' = ackIds \cup {e} /\ alert' = alert
        /\ \/ event' = e /\ todo' = content[e].rules /\ pc' = "match"
           \/ UNCHANGED <<event, todo, pc>>
      BY <1>0, <1>a DEF Scan, WorkTypes
  <2>. HIDE DEF e
  <2>2. content[e].rules \in Seq(Rules) /\ e \in 0..MaxEntries
      BY <1>0, <2>1, ContentsAssumption DEF StreamTypes, Entries
  <2>. QED
      BY <1>0, <2>1, <2>2 DEF WorkTypes, Locations
<1>3. DedupTypes'
    BY <1>0 DEF Scan, DedupTypes, dedup
<1>4. ScoreTypes'
    BY <1>0 DEF Scan, ScoreTypes, scoring
<1>5. HistoryTypes'
    BY <1>0, <1>a DEF Scan, HistoryTypes, history, WorkTypes
<1>6. LocStart'
    BY <1>0 DEF Scan, LocStart, work, dedup, scoring, history, Starting
<1>7. LocBatch'
    BY <1>0 DEF Scan, LocBatch, work, Starting, Scoring, LocEvent
<1>8. LocEvent'
  <2>1. batch # {} => Min(batch) # 0
      BY <1>0, <1>a DEF WorkTypes, Entries
  <2>. QED
      BY <1>0, <2>1 DEF Scan, LocEvent
<1>9. LocTick'
    BY <1>0 DEF Scan, LocTick, work, scoring, Scoring, LocEvent
<1>. QED
    BY <1>1, <1>2, <1>3, <1>4, <1>5, <1>6, <1>7, <1>8, <1>9, NextTypes

LEMMA MatchType ==
    ASSUME TypeInv, Match
    PROVE  TypeInv'
<1>0. /\ StreamTypes /\ WorkTypes /\ DedupTypes /\ ScoreTypes /\ HistoryTypes
      /\ LocStart /\ LocBatch /\ LocEvent /\ LocTick
    BY Types
<1>. DEFINE k == <<Head(todo), content[event].source>>
<1>a. k \in Keys /\ event \in 0..MaxEntries
  <2>1. Head(todo) \in Rules
      BY <1>0 DEF Match, WorkTypes
  <2>2. event \in Entries
      BY <1>0 DEF Match, WorkTypes, LocEvent, Entries
  <2>3. content[event].source \in Sources
      BY <1>0, <2>2, ContentsAssumption DEF StreamTypes
  <2>. QED
      BY <2>1, <2>2, <2>3 DEF Keys, Entries
<1>b. /\ DedupTypes' /\ alert' \in Alerts \cup {NoAlert}
      /\ (pc' = "publish" /\ alert' \in Alerts) \/ pc' = "match"
  <2>1. ShouldPublish(k, event, "publish", "match") /\ UNCHANGED now
      BY DEF Match
  <2>. HIDE DEF k
  <2>. QED
      BY <1>a, <2>1, ShouldPublishType
<1>1. StreamTypes'
    BY <1>0 DEF Match, StreamTypes, stream, group
<1>2. WorkTypes'
  <2>1. todo' \in Seq(Rules)
      BY <1>0 DEF Match, WorkTypes
  <2>. QED
      BY <1>0, <1>b, <2>1 DEF Match, WorkTypes, Locations
<1>3. DedupTypes'
    BY <1>b
<1>4. ScoreTypes'
    BY <1>0 DEF Match, ScoreTypes, scoring
<1>5. HistoryTypes'
    BY <1>0 DEF Match, HistoryTypes, history
<1>6. LocStart'
    BY <1>0, <1>b DEF Match, LocStart, work, dedup, scoring, history, Starting
<1>7. LocBatch'
    BY <1>0, <1>b DEF Match, LocBatch, work, Starting, Scoring, LocEvent
<1>8. LocEvent'
    BY <1>0, <1>b DEF Match, LocEvent, work
<1>9. LocTick'
    BY <1>0, <1>b DEF Match, LocTick, work, scoring, Scoring, LocEvent
<1>. QED
    BY <1>1, <1>2, <1>3, <1>4, <1>5, <1>6, <1>7, <1>8, <1>9, NextTypes

LEMMA PublishType ==
    ASSUME TypeInv, Publish
    PROVE  TypeInv'
<1>0. /\ StreamTypes /\ WorkTypes /\ DedupTypes /\ ScoreTypes /\ HistoryTypes
      /\ LocStart /\ LocBatch /\ LocEvent /\ LocTick
    BY Types
<1>1. StreamTypes'
    BY <1>0 DEF Publish, StreamTypes, stream, group
<1>2. WorkTypes'
    BY <1>0 DEF Publish, WorkTypes, work, Locations
<1>3. DedupTypes'
    BY <1>0 DEF Publish, DedupTypes, dedup
<1>4. ScoreTypes'
    BY <1>0 DEF Publish, ScoreTypes, scoring
<1>5. HistoryTypes'
    BY <1>0 DEF Publish, HistoryTypes, history, LocEvent
<1>6. LocStart'
    BY <1>0 DEF Publish, LocStart, work, dedup, scoring, history, Starting
<1>7. LocBatch'
    BY <1>0 DEF Publish, LocBatch, work, Starting, Scoring
<1>8. LocEvent'
    BY <1>0 DEF Publish, LocEvent, work
<1>9. LocTick'
    BY <1>0 DEF Publish, LocTick, work, scoring, Scoring
<1>. QED
    BY <1>1, <1>2, <1>3, <1>4, <1>5, <1>6, <1>7, <1>8, <1>9, NextTypes

\* The bucket that record counts in.
LEMMA RecordBucket ==
    ASSUME TypeInv, Record
    PROVE  <<Sec(now), content[event].endpoint>> \in Seconds \X Endpoints
<1>1. StreamTypes /\ WorkTypes /\ LocEvent
    BY Types
<1>2. event \in Entries
    BY <1>1 DEF Record, WorkTypes, LocEvent, Entries
<1>3. content[event].endpoint \in Endpoints
    BY <1>1, <1>2, ContentsAssumption DEF StreamTypes
<1>4. Sec(now) \in Seconds
    BY <1>1, SecType DEF StreamTypes
<1>. QED
    BY <1>3, <1>4

LEMMA Incremented ==
    ASSUME NEW D, NEW f \in [D -> Nat], NEW e \in D
    PROVE  [f EXCEPT ![e] = @ + 1] \in [D -> Nat]
<1>1. f[e] + 1 \in Nat
    OBVIOUS
<1>. QED
    BY <1>1

LEMMA RecordType ==
    ASSUME TypeInv, Record
    PROVE  TypeInv'
<1>0. /\ StreamTypes /\ WorkTypes /\ DedupTypes /\ ScoreTypes /\ HistoryTypes
      /\ LocStart /\ LocBatch /\ LocEvent /\ LocTick
    BY Types
<1>1. StreamTypes'
    BY <1>0 DEF Record, StreamTypes, stream, group
<1>2. WorkTypes'
  <2>1. pc' = "scan" /\ event' = 0 /\ UNCHANGED <<batch, ackIds, todo, alert>>
      BY DEF Record
  <2>. QED
      BY <1>0, <2>1, Bounds DEF WorkTypes, Locations
<1>3. DedupTypes'
    BY <1>0 DEF Record, DedupTypes, dedup
<1>4. ScoreTypes'
  <2>. DEFINE b == <<Sec(now), content[event].endpoint>>
  <2>1. buckets \in [Seconds \X Endpoints -> Nat]
      BY <1>0 DEF ScoreTypes
  <2>2. buckets' = [buckets EXCEPT ![b] = @ + 1]
      BY DEF Record
  <2>3. b \in Seconds \X Endpoints
      BY RecordBucket
  <2>. HIDE DEF b
  <2>4. buckets' \in [Seconds \X Endpoints -> Nat]
      BY <2>1, <2>2, <2>3, Incremented
  <2>. QED
      BY <1>0, <2>4 DEF Record, ScoreTypes, scoring
<1>5. HistoryTypes'
    BY <1>0 DEF Record, HistoryTypes, history
<1>6. LocStart'
    BY <1>0 DEF Record, LocStart, work, dedup, scoring, history, Starting
<1>7. LocBatch'
    BY <1>0 DEF Record, LocBatch, work, Starting, Scoring
<1>8. LocEvent'
    BY <1>0 DEF Record, LocEvent, work
<1>9. LocTick'
    BY <1>0 DEF Record, LocTick, work, scoring, Scoring, LocEvent
<1>. QED
    BY <1>1, <1>2, <1>3, <1>4, <1>5, <1>6, <1>7, <1>8, <1>9, NextTypes

LEMMA AckType ==
    ASSUME TypeInv, Ack
    PROVE  TypeInv'
<1>0. /\ StreamTypes /\ WorkTypes /\ DedupTypes /\ ScoreTypes /\ HistoryTypes
      /\ LocStart /\ LocBatch /\ LocEvent /\ LocTick
    BY Types
<1>1. StreamTypes'
    BY <1>0 DEF Ack, StreamTypes, stream, group
<1>2. WorkTypes'
    BY <1>0 DEF Ack, WorkTypes, work, Locations
<1>3. DedupTypes'
    BY <1>0 DEF Ack, DedupTypes, dedup
<1>4. ScoreTypes'
    BY <1>0 DEF Ack, ScoreTypes, scoring
<1>5. HistoryTypes'
    BY <1>0 DEF Ack, HistoryTypes, history
<1>6. LocStart'
    BY <1>0 DEF Ack, LocStart, work, dedup, scoring, history, Starting
<1>7. LocBatch'
    BY <1>0 DEF Ack, LocBatch, work, Starting, Scoring, LocEvent
<1>8. LocEvent'
    BY <1>0 DEF Ack, LocEvent, work
<1>9. LocTick'
    BY <1>0 DEF Ack, LocTick, work, scoring, Scoring, LocEvent
<1>. QED
    BY <1>1, <1>2, <1>3, <1>4, <1>5, <1>6, <1>7, <1>8, <1>9, NextTypes

LEMMA TickWindowType ==
    ASSUME TypeInv, TickWindow
    PROVE  TypeInv'
<1>0. /\ StreamTypes /\ WorkTypes /\ DedupTypes /\ ScoreTypes /\ HistoryTypes
      /\ LocStart /\ LocBatch /\ LocEvent /\ LocTick
    BY Types
<1>1. StreamTypes'
    BY <1>0 DEF TickWindow, StreamTypes, stream, group
<1>2. WorkTypes'
    BY <1>0 DEF TickWindow, WorkTypes, work, Locations
<1>3. DedupTypes'
    BY <1>0 DEF TickWindow, DedupTypes, dedup
<1>4. ScoreTypes'
  <2>1. ticks' \subseteq [sec : Seconds, endpoint : Endpoints, rps : Nat]
      BY <1>0 DEF TickWindow, ScoreTypes, Completed
  <2>2. total' \in Nat
    <3>1. Completed \subseteq Seconds \X Endpoints
        BY DEF Completed
    <3>2. IsFiniteSet(Completed)
        BY <3>1, BucketsFinite, FS_Subset
    <3>3. \A b \in Completed : buckets[b] \in Nat
        BY <1>0, <3>1 DEF ScoreTypes
    <3>4. total' = Sum(buckets, Completed)
        BY RequestsSum DEF TickWindow
    <3>. QED
        BY <3>2, <3>3, <3>4, SumRecursion
  <2>3. buckets' \in [Seconds \X Endpoints -> Nat]
      BY <1>0 DEF TickWindow, ScoreTypes, LeftAfterTick
  <2>. QED
      BY <1>0, <2>1, <2>2, <2>3 DEF TickWindow, ScoreTypes
<1>5. HistoryTypes'
    BY <1>0 DEF TickWindow, HistoryTypes, history
<1>6. LocStart'
    BY <1>0 DEF TickWindow, LocStart, work, dedup, scoring, history, Starting
<1>7. LocBatch'
    BY <1>0 DEF TickWindow, LocBatch, work, Starting, Scoring
<1>8. LocEvent'
    BY <1>0 DEF TickWindow, LocEvent, work
<1>9. LocTick'
    BY <1>0 DEF TickWindow, LocTick, work, scoring, Scoring
<1>. QED
    BY <1>1, <1>2, <1>3, <1>4, <1>5, <1>6, <1>7, <1>8, <1>9, NextTypes

LEMMA ScoreType ==
    ASSUME TypeInv, NEW s \in ticks, Score(s)
    PROVE  TypeInv'
<1>0. /\ StreamTypes /\ WorkTypes /\ DedupTypes /\ ScoreTypes /\ HistoryTypes
      /\ LocStart /\ LocBatch /\ LocEvent /\ LocTick
    BY Types
<1>. DEFINE k == <<"BEHAVIORAL_ANOMALY", s.endpoint>>
<1>a. k \in Keys /\ 0 \in 0..MaxEntries
  <2>1. s.endpoint \in Endpoints
      BY <1>0 DEF ScoreTypes
  <2>. QED
      BY <2>1, Bounds DEF Keys
<1>b. /\ DedupTypes' /\ alert' \in Alerts \cup {NoAlert}
      /\ (pc' = "publish" /\ alert' \in Alerts) \/ pc' = "score"
  <2>1. CASE UNCHANGED <<pc, alert, dedup>>
      BY <1>0, <2>1 DEF Score, DedupTypes, WorkTypes, dedup
  <2>2. CASE ShouldPublish(k, 0, "publish", "score")
    <3>1. UNCHANGED now
        BY DEF Score
    <3>. HIDE DEF k
    <3>. QED
        BY <1>a, <2>2, <3>1, ShouldPublishType
  <2>. QED
      BY <2>1, <2>2 DEF Score
<1>1. StreamTypes'
    BY <1>0 DEF Score, StreamTypes, stream, group
<1>2. WorkTypes'
    BY <1>0, <1>b DEF Score, WorkTypes, work, Locations
<1>3. DedupTypes'
    BY <1>b
<1>4. ScoreTypes'
  <2>1. Sampled(s.endpoint) \in [samples : Nat \ {0}, seen : 0..now]
      BY <1>0, Numbers DEF Sampled, ScoreTypes
  <2>2. s.endpoint \in Endpoints
      BY <1>0 DEF ScoreTypes
  <2>3. /\ ticks' = ticks \ {s}
        /\ baselines' = [p \in DOMAIN baselines \cup {s.endpoint} |->
                           IF p = s.endpoint THEN Sampled(p) ELSE baselines[p]]
        /\ UNCHANGED <<now, buckets, total, lastEvict>>
      BY DEF Score
  <2>. HIDE DEF Sampled
  <2>4. /\ DOMAIN baselines' \subseteq Endpoints
        /\ baselines' \in [DOMAIN baselines' -> [samples : Nat \ {0}, seen : 0..now]]
      BY <1>0, <2>1, <2>2, <2>3 DEF ScoreTypes
  <2>. QED
      BY <1>0, <2>3, <2>4 DEF ScoreTypes
<1>5. HistoryTypes'
    BY <1>0 DEF Score, HistoryTypes, history
<1>6. LocStart'
    BY <1>0, <1>b DEF Score, LocStart, work, dedup, scoring, history, Starting
<1>7. LocBatch'
    BY <1>0, <1>b DEF Score, LocBatch, work, Starting, Scoring
<1>8. LocEvent'
    BY <1>0, <1>b DEF Score, LocEvent, work
<1>9. LocTick'
    BY <1>0, <1>b DEF Score, LocTick, work, scoring, Scoring, LocEvent
<1>. QED
    BY <1>1, <1>2, <1>3, <1>4, <1>5, <1>6, <1>7, <1>8, <1>9, NextTypes

LEMMA ScoreDoneType ==
    ASSUME TypeInv, ScoreDone
    PROVE  TypeInv'
<1>0. /\ StreamTypes /\ WorkTypes /\ DedupTypes /\ ScoreTypes /\ HistoryTypes
      /\ LocStart /\ LocBatch /\ LocEvent /\ LocTick
    BY Types
<1>1. StreamTypes'
    BY <1>0 DEF ScoreDone, StreamTypes, stream, group
<1>2. WorkTypes'
    BY <1>0 DEF ScoreDone, WorkTypes, work, Locations
<1>3. DedupTypes'
    BY <1>0 DEF ScoreDone, DedupTypes, dedup
<1>4. ScoreTypes'
    BY <1>0 DEF ScoreDone, ScoreTypes, scoring
<1>5. HistoryTypes'
    BY <1>0 DEF ScoreDone, HistoryTypes, history
<1>6. LocStart'
    BY <1>0 DEF ScoreDone, LocStart, work, dedup, scoring, history, Starting
<1>7. LocBatch'
    BY <1>0 DEF ScoreDone, LocBatch, work, Starting, Scoring
<1>8. LocEvent'
    BY <1>0 DEF ScoreDone, LocEvent, work
<1>9. LocTick'
    BY <1>0 DEF ScoreDone, LocTick, work, scoring, Scoring
<1>. QED
    BY <1>1, <1>2, <1>3, <1>4, <1>5, <1>6, <1>7, <1>8, <1>9, NextTypes

LEMMA PublishMetricSnapshotType ==
    ASSUME TypeInv, PublishMetricSnapshot
    PROVE  TypeInv'
<1>0. /\ StreamTypes /\ WorkTypes /\ DedupTypes /\ ScoreTypes /\ HistoryTypes
      /\ LocStart /\ LocBatch /\ LocEvent /\ LocTick
    BY Types
<1>1. StreamTypes'
    BY <1>0 DEF PublishMetricSnapshot, StreamTypes, stream, group
<1>2. WorkTypes'
    BY <1>0 DEF PublishMetricSnapshot, WorkTypes, work, Locations
<1>3. DedupTypes'
    BY <1>0 DEF PublishMetricSnapshot, DedupTypes, dedup
<1>4. ScoreTypes'
  <2>1. /\ DOMAIN Kept \subseteq Endpoints
        /\ Kept \in [DOMAIN Kept -> [samples : Nat \ {0}, seen : 0..now]]
    <3>1. DOMAIN Kept \subseteq DOMAIN baselines
        BY DEF Kept
    <3>2. \A p \in DOMAIN Kept : Kept[p] = baselines[p]
        BY DEF Kept
    <3>3. Kept = [p \in DOMAIN Kept |-> Kept[p]]
        BY <1>0 DEF Kept, ScoreTypes
    <3>. QED
        BY <1>0, <3>1, <3>2, <3>3 DEF ScoreTypes
  <2>2. lastEvict' \in 0..now
      BY <1>0, Numbers DEF PublishMetricSnapshot, ScoreTypes
  <2>. QED
      BY <1>0, <2>1, <2>2 DEF PublishMetricSnapshot, ScoreTypes
<1>5. HistoryTypes'
    BY <1>0 DEF PublishMetricSnapshot, HistoryTypes, history, ScoreTypes
<1>6. LocStart'
    BY <1>0 DEF PublishMetricSnapshot, LocStart, work, dedup, scoring, history,
       Starting
<1>7. LocBatch'
    BY <1>0 DEF PublishMetricSnapshot, LocBatch, work, Starting, Scoring
<1>8. LocEvent'
    BY <1>0 DEF PublishMetricSnapshot, LocEvent, work
<1>9. LocTick'
    BY <1>0 DEF PublishMetricSnapshot, LocTick, work, scoring, Scoring, LocEvent
<1>. QED
    BY <1>1, <1>2, <1>3, <1>4, <1>5, <1>6, <1>7, <1>8, <1>9, NextTypes

\* The strengthened type invariant is inductive.
LEMMA TypeStep == TypeInv /\ [Next]_vars => TypeInv'
<1>. SUFFICES ASSUME TypeInv, [Next]_vars PROVE TypeInv'
    OBVIOUS
<1>1. CASE UNCHANGED vars
  <2>0. StreamTypes /\ WorkTypes /\ DedupTypes /\ ScoreTypes /\ HistoryTypes /\ LocInv
      BY Types DEF LocInv
  <2>1. StreamTypes' /\ WorkTypes'
      BY <1>1, <2>0 DEF vars, stream, group, work, StreamTypes, WorkTypes
  <2>2. DedupTypes' /\ ScoreTypes' /\ HistoryTypes'
      BY <1>1, <2>0 DEF vars, dedup, scoring, history, DedupTypes, ScoreTypes, HistoryTypes
  <2>3. LocInv'
      BY <1>1, <2>0 DEF vars, work, dedup, scoring, history, LocInv, LocStart, LocBatch,
                        LocEvent, LocTick, Starting, Scoring
  <2>. QED
      BY <2>1, <2>2, <2>3, NextTypes DEF LocInv
<1>. QED
    BY <1>1, TickType, EmitType, StartType, CrashType, DropOwnPendingType, DropAckType,
       ReadType, ScanType, MatchType, PublishType, RecordType, AckType, TickWindowType,
       ScoreType, ScoreDoneType, PublishMetricSnapshotType DEF Next

\* The stream, the consumer's memory and the histories keep their types, and in
\* each location the worker holds just what run has left it with: TypeOK.
THEOREM TypeCorrect == Spec => []TypeOK
<1>1. Spec => []TypeInv
    BY TypeInit, TypeStep, PTL DEF Spec
<1>2. TypeInv => TypeOK
    BY DEF TypeInv
<1>. QED
    BY <1>1, <1>2, PTL

-----------------------------------------------------------------------------
(* The group: what is pending, and what is delivered and never looked at.   *)

\* Nothing is looked at before it is delivered, or twice.
ScanOnce ==
    /\ scanned \subseteq 1..lastDelivered /\ batch \subseteq 1..lastDelivered
    /\ batch \cap scanned = {}

StreamInv == NoBacklog /\ MissedOnlyByCrash /\ ScanOnce

LEMMA StreamInit == Init => StreamInv
BY DEF Init, StreamInv, NoBacklog, MissedOnlyByCrash, ScanOnce

\* A step that leaves the delivered entries and the pending ones alone.
LEMMA StreamFrame ==
    ASSUME StreamInv, Starting' \/ ~Starting,
           UNCHANGED <<trimmed, lastDelivered, pel, batch, ackIds, scanned, lost>>
    PROVE  StreamInv'
<1>1. NoBacklog'
    BY DEF StreamInv, NoBacklog, Starting
<1>2. MissedOnlyByCrash' /\ ScanOnce'
    BY DEF StreamInv, MissedOnlyByCrash, ScanOnce
<1>. QED
    BY <1>1, <1>2 DEF StreamInv

LEMMA StreamEmit ==
    ASSUME TypeInv, StreamInv, NEW c \in Contents, Emit(c)
    PROVE  StreamInv'
<1>1. StreamTypes
    BY Types
<1>2. trimmed' \in Nat /\ trimmed <= trimmed'
    BY <1>1, Numbers DEF Emit, TrimPoints
<1>3. UNCHANGED <<pc, lastDelivered, pel, batch, ackIds, scanned, lost>>
    BY DEF Emit, group, work, history
<1>4. NoBacklog' /\ ScanOnce'
    BY <1>3 DEF StreamInv, NoBacklog, ScanOnce
<1>5. \A e \in 1..lastDelivered : e <= trimmed => e <= trimmed'
    BY <1>1, <1>2, Numbers
<1>6. MissedOnlyByCrash'
    BY <1>3, <1>5 DEF StreamInv, MissedOnlyByCrash
<1>. QED
    BY <1>4, <1>6 DEF StreamInv

LEMMA StreamCrash ==
    ASSUME TypeInv, StreamInv, Crash
    PROVE  StreamInv'
BY DEF Crash, stream, group, StreamInv, NoBacklog, MissedOnlyByCrash, ScanOnce

\* The start ends with an empty PEL.
LEMMA StreamDrop ==
    ASSUME TypeInv, StreamInv, DropOwnPending \/ DropAck
    PROVE  StreamInv'
<1>0. LocStart
    BY Types
<1>1. CASE DropOwnPending
  <2>1. UNCHANGED <<trimmed, lastDelivered, pel, batch, scanned, lost>>
      BY <1>1 DEF DropOwnPending, stream, group
  <2>2. MissedOnlyByCrash' /\ ScanOnce'
      BY <2>1 DEF StreamInv, MissedOnlyByCrash, ScanOnce
  <2>3. NoBacklog'
      BY <1>0, <1>1, <2>1 DEF DropOwnPending, NoBacklog, FirstN, LocStart, Starting
  <2>. QED
      BY <2>2, <2>3 DEF StreamInv
<1>2. CASE DropAck
  <2>1. UNCHANGED <<trimmed, lastDelivered, batch, scanned, lost>> /\ pc' = "drop"
      BY <1>2 DEF DropAck, stream, history
  <2>2. NoBacklog' /\ MissedOnlyByCrash' /\ ScanOnce'
      BY <2>1 DEF StreamInv, NoBacklog, MissedOnlyByCrash, ScanOnce
  <2>. QED
      BY <2>2 DEF StreamInv
<1>. QED
    BY <1>1, <1>2

\* An XREADGROUP > leaves no gap behind the last delivered id.
LEMMA StreamRead ==
    ASSUME TypeInv, StreamInv, Read
    PROVE  StreamInv'
<1>0. StreamTypes /\ LocBatch
    BY Types
<1>1. batch = {} /\ ackIds = {}
    BY <1>0 DEF Read, LocBatch
<1>2. /\ NewMessages \subseteq 1..added
      /\ \A e \in NewMessages : e > lastDelivered
      /\ NewMessages # {} =>
            /\ Max(NewMessages) \in NewMessages
            /\ \A e \in 1..Max(NewMessages) :
                  e <= lastDelivered \/ e <= trimmed \/ e \in NewMessages
            /\ \A e \in NewMessages : e <= Max(NewMessages)
    BY NewMessagesType DEF TypeInv
<1>3. /\ batch' = NewMessages /\ pel' = pel \cup NewMessages
      /\ UNCHANGED <<trimmed, ackIds, scanned, lost>>
      /\ pc' \in {"scan", "tick"} /\ pc = "read"
      /\ NewMessages # {} => lastDelivered' = Max(NewMessages)
      /\ NewMessages = {} => lastDelivered' = lastDelivered
    BY DEF Read, stream, history
<1>4. NoBacklog'
    BY <1>1, <1>3 DEF StreamInv, NoBacklog
<1>5. lastDelivered \in Nat /\ lastDelivered' \in Nat /\ lastDelivered <= lastDelivered'
  <2>1. lastDelivered \in Nat /\ added \in Nat
      BY <1>0, Numbers
  <2>2. CASE NewMessages = {}
      BY <1>3, <2>1, <2>2
  <2>3. CASE NewMessages # {}
    <3>1. Max(NewMessages) \in 1..added /\ Max(NewMessages) > lastDelivered
        BY <1>2, <2>3
    <3>. QED
        BY <1>3, <2>1, <2>3, <3>1
  <2>. QED
      BY <2>2, <2>3
<1>6. ScanOnce'
  <2>1. NewMessages \subseteq 1..lastDelivered'
      BY <1>2, <1>3, <1>5
  <2>2. 1..lastDelivered \subseteq 1..lastDelivered'
      BY <1>5
  <2>3. NewMessages \cap scanned = {}
      BY <1>2, <1>5 DEF StreamInv, ScanOnce
  <2>. QED
      BY <1>3, <2>1, <2>2, <2>3 DEF StreamInv, ScanOnce
<1>7. MissedOnlyByCrash'
  <2>1. SUFFICES ASSUME NEW e \in 1..lastDelivered'
                 PROVE  e \in scanned \cup NewMessages \cup lost \/ e <= trimmed
      BY <1>3 DEF MissedOnlyByCrash
  <2>2. e <= lastDelivered \/ e <= trimmed \/ e \in NewMessages
      BY <1>2, <1>3, <1>5
  <2>3. CASE e <= lastDelivered
    <3>1. e \in 1..lastDelivered
        BY <1>5, <2>3
    <3>. QED
        BY <1>1, <3>1 DEF StreamInv, MissedOnlyByCrash
  <2>. QED
      BY <2>2, <2>3
<1>. QED
    BY <1>4, <1>6, <1>7 DEF StreamInv

LEMMA StreamScan ==
    ASSUME TypeInv, StreamInv, Scan
    PROVE  StreamInv'
<1>0. WorkTypes
    BY Types
<1>. DEFINE e == Min(batch)
<1>1. e \in batch
  <2>1. batch \in SUBSET (0..MaxEntries) /\ batch # {}
      BY <1>0 DEF Scan, WorkTypes, Entries
  <2>. QED
      BY <2>1, Bounds, MinType
<1>2. /\ batch' = batch \ {e} /\ ackIds' = ackIds \cup {e} /\ scanned' = scanned \cup {e}
      /\ UNCHANGED <<trimmed, lastDelivered, pel, lost>>
      /\ pc = "scan"
    BY DEF Scan, stream, group
<1>. HIDE DEF e
<1>3. NoBacklog'
    BY <1>1, <1>2 DEF StreamInv, NoBacklog
<1>4. MissedOnlyByCrash' /\ ScanOnce'
    BY <1>1, <1>2 DEF StreamInv, MissedOnlyByCrash, ScanOnce
<1>. QED
    BY <1>3, <1>4 DEF StreamInv

LEMMA StreamAck ==
    ASSUME TypeInv, StreamInv, Ack
    PROVE  StreamInv'
<1>1. /\ batch = {} /\ pel' = pel \ ackIds /\ ackIds' = {} /\ pc = "scan"
      /\ UNCHANGED <<trimmed, lastDelivered, batch, scanned, lost>>
    BY DEF Ack, stream, history
<1>2. NoBacklog'
    BY <1>1 DEF StreamInv, NoBacklog
<1>3. MissedOnlyByCrash' /\ ScanOnce'
    BY <1>1 DEF StreamInv, MissedOnlyByCrash, ScanOnce
<1>. QED
    BY <1>2, <1>3 DEF StreamInv

LEMMA StreamStep == TypeInv /\ StreamInv /\ [Next]_vars => StreamInv'
<1>. SUFFICES ASSUME TypeInv, StreamInv, [Next]_vars PROVE StreamInv'
    OBVIOUS
<1>1. CASE Tick \/ UNCHANGED vars
    BY <1>1, StreamFrame DEF Tick, vars, stream, group, work, history, Starting
<1>2. CASE Start
    BY <1>2, StreamFrame DEF Start, EnsureConsumerGroup, stream, work, Starting
<1>3. CASE Match
    BY <1>3, StreamFrame DEF Match, stream, group, history, Starting
<1>4. CASE Publish \/ Record
    BY <1>4, StreamFrame DEF Publish, Record, stream, group, Starting
<1>5. CASE TickWindow \/ ScoreDone \/ PublishMetricSnapshot
    BY <1>5, StreamFrame DEF TickWindow, ScoreDone, PublishMetricSnapshot, stream, group,
                             work, history, Starting
<1>6. CASE \E s \in ticks : Score(s)
    BY <1>6, StreamFrame DEF Score, stream, group, history, Starting
<1>. QED
    BY <1>1, <1>2, <1>3, <1>4, <1>5, <1>6, StreamEmit, StreamCrash, StreamDrop, StreamRead,
       StreamScan, StreamAck DEF Next

LEMMA StreamInvariant == Spec => [](TypeInv /\ StreamInv)
BY TypeInit, TypeStep, StreamInit, StreamStep, PTL DEF Spec

\* The XACK at the end of a batch covers all that the batch delivered, matched or
\* not, and drop_own_pending leaves nothing behind: NoBacklog.
THEOREM NoBacklogCorrect == Spec => []NoBacklog
<1>1. StreamInv => NoBacklog
    BY DEF StreamInv
<1>. QED
    BY <1>1, StreamInvariant, PTL

\* Whatever is trimmed, appended or acknowledged meanwhile, run and
\* drop_own_pending miss only what was in memory when the process died.
THEOREM MissedOnlyByCrashCorrect == Spec => []MissedOnlyByCrash
<1>1. StreamInv => MissedOnlyByCrash
    BY DEF StreamInv
<1>. QED
    BY <1>1, StreamInvariant, PTL

-----------------------------------------------------------------------------
(* An event raises an alert at most once.                                   *)

\* The event that process_message is at is scanned, its rules that are left are
\* distinct, and none of them has raised its alert yet.
EventInv ==
    event # 0 =>
        /\ event \in scanned
        /\ \A i, j \in DOMAIN todo : todo[i] = todo[j] => i = j
        /\ \A a \in alerts, i \in DOMAIN todo :
              a.entry = event => a.key # <<todo[i], content[event].source>>

\* The alert at hand is the event's, and of a rule that is done with.
PublishInv ==
    pc = "publish" =>
        /\ alert.entry = event
        /\ event # 0 =>
              /\ \A i \in DOMAIN todo : alert.key # <<todo[i], content[event].source>>
              /\ \A a \in alerts : a.entry = event => a.key # alert.key

OnceInv ==
    /\ \A a \in alerts : a.entry # 0 => a.entry \in scanned
    /\ EventInv /\ PublishInv /\ NoDoubleAlert

LEMMA OnceInit == Init => OnceInv
BY DEF Init, OnceInv, EventInv, PublishInv, NoDoubleAlert

LEMMA OnceFrame ==
    ASSUME OnceInv, pc' # "publish" \/ UNCHANGED <<pc, alert>>,
           UNCHANGED <<content, event, todo, alerts, scanned>>
    PROVE  OnceInv'
<1>1. EventInv' /\ NoDoubleAlert'
    BY DEF OnceInv, EventInv, NoDoubleAlert
<1>2. PublishInv'
    BY DEF OnceInv, PublishInv
<1>. QED
    BY <1>1, <1>2 DEF OnceInv

\* The id of a new entry is none that was scanned.
LEMMA OnceEmit ==
    ASSUME TypeInv, StreamInv, OnceInv, NEW c \in Contents, Emit(c)
    PROVE  OnceInv'
<1>1. StreamTypes
    BY Types
<1>2. /\ content' = [content EXCEPT ![added + 1] = c]
      /\ UNCHANGED <<pc, event, todo, alert, alerts, scanned>>
    BY DEF Emit, work, history
<1>3. \A e \in scanned : e # added + 1
    BY <1>1, Numbers DEF StreamInv, ScanOnce
<1>4. event # 0 => content'[event] = content[event]
  <2>1. event # 0 => event # added + 1
      BY <1>3 DEF OnceInv, EventInv
  <2>. QED
      BY <1>1, <1>2, <2>1 DEF StreamTypes
<1>5. EventInv' /\ NoDoubleAlert'
    BY <1>2, <1>4 DEF OnceInv, EventInv, NoDoubleAlert
<1>6. PublishInv'
    BY <1>2, <1>4 DEF OnceInv, PublishInv
<1>. QED
    BY <1>2, <1>5, <1>6 DEF OnceInv

\* Outside process_message there is no event.
LEMMA OnceIdle ==
    ASSUME OnceInv, event' = 0, UNCHANGED <<alerts, scanned>>,
           pc' = "publish" => alert'.entry = 0
    PROVE  OnceInv'
<1>1. EventInv' /\ PublishInv' /\ NoDoubleAlert'
    BY DEF OnceInv, EventInv, PublishInv, NoDoubleAlert
<1>. QED
    BY <1>1 DEF OnceInv

\* The next event was not scanned, so that it has raised nothing.
LEMMA OnceScan ==
    ASSUME TypeInv, StreamInv, OnceInv, Scan
    PROVE  OnceInv'
<1>0. StreamTypes /\ WorkTypes
    BY Types
<1>. DEFINE e == Min(batch)
<1>1. e \in batch
  <2>1. batch \in SUBSET (0..MaxEntries) /\ batch # {}
      BY <1>0 DEF Scan, WorkTypes, Entries
  <2>. QED
      BY <2>1, Bounds, MinType
<1>2. /\ scanned' = scanned \cup {e} /\ UNCHANGED <<content, alerts>>
      /\ pc' # "publish"
      /\ \/ event' = e /\ todo' = content[e].rules
         \/ UNCHANGED <<event, todo>>
    BY DEF Scan, stream
<1>. HIDE DEF e
<1>3. e \in Entries /\ e \notin scanned
    BY <1>0, <1>1 DEF WorkTypes, StreamInv, ScanOnce
<1>4. \A a \in alerts : a.entry # e
    BY <1>3 DEF OnceInv, Entries
<1>5. EventInv'
  <2>1. CASE event' = e /\ todo' = content[e].rules
    <3>1. \A i, j \in DOMAIN content[e].rules :
              content[e].rules[i] = content[e].rules[j] => i = j
        BY <1>0, <1>3, ContentsAssumption DEF StreamTypes
    <3>. QED
        BY <1>2, <1>4, <2>1, <3>1 DEF EventInv
  <2>2. CASE UNCHANGED <<event, todo>>
      BY <1>2, <2>2 DEF OnceInv, EventInv
  <2>. QED
      BY <1>2, <2>1, <2>2
<1>6. PublishInv' /\ NoDoubleAlert'
    BY <1>2 DEF OnceInv, PublishInv, NoDoubleAlert
<1>. QED
    BY <1>2, <1>5, <1>6 DEF OnceInv

LEMMA OnceMatch ==
    ASSUME TypeInv, StreamInv, OnceInv, Match
    PROVE  OnceInv'
<1>0. WorkTypes /\ LocEvent
    BY Types
<1>. DEFINE k == <<Head(todo), content[event].source>>
<1>1. event # 0 /\ todo \in Seq(Rules) /\ todo # <<>>
    BY <1>0 DEF Match, WorkTypes, LocEvent
<1>2. /\ todo' = Tail(todo) /\ UNCHANGED <<content, event, alerts, scanned>>
      /\ ShouldPublish(k, event, "publish", "match")
    BY DEF Match, stream, history
<1>3. \/ Opened(k, event, "publish")
      \/ Suppressed(k, "match")
    BY <1>2, ShouldPublishCases DEF TypeInv
<1>4. /\ 1 \in DOMAIN todo /\ Head(todo) = todo[1]
      /\ \A i \in DOMAIN todo' : i + 1 \in DOMAIN todo /\ todo'[i] = todo[i + 1]
      /\ \A i \in DOMAIN todo' : i \in Nat /\ i # 0
    BY <1>1, <1>2
<1>5. EventInv'
  <2>1. \A i, j \in DOMAIN todo' : todo'[i] = todo'[j] => i = j
    <3>1. SUFFICES ASSUME NEW i \in DOMAIN todo', NEW j \in DOMAIN todo', todo'[i] = todo'[j]
                   PROVE  i = j
        OBVIOUS
    <3>2. i + 1 = j + 1
        BY <1>1, <1>4, <3>1 DEF OnceInv, EventInv
    <3>. QED
        BY <1>4, <3>2
  <2>2. \A a \in alerts, i \in DOMAIN todo' :
            a.entry = event => a.key # <<todo'[i], content[event].source>>
      BY <1>1, <1>4 DEF OnceInv, EventInv
  <2>. QED
      BY <1>1, <1>2, <2>1, <2>2 DEF OnceInv, EventInv
<1>6. PublishInv'
  <2>1. CASE Suppressed(k, "match")
      BY <2>1 DEF Suppressed, PublishInv
  <2>2. CASE Opened(k, event, "publish")
    <3>1. alert'.entry = event /\ alert'.key = k
        BY <2>2 DEF Opened
    <3>2. \A i \in DOMAIN todo' : todo'[i] # Head(todo)
        BY <1>1, <1>4 DEF OnceInv, EventInv
    <3>3. \A i \in DOMAIN todo' : k # <<todo'[i], content[event].source>>
        BY <3>2
    <3>4. \A a \in alerts : a.entry = event => a.key # k
        BY <1>1, <1>4 DEF OnceInv, EventInv
    <3>. HIDE DEF k
    <3>. QED
        BY <1>2, <3>1, <3>3, <3>4 DEF PublishInv
  <2>. QED
      BY <1>3, <2>1, <2>2
<1>7. NoDoubleAlert'
    BY <1>2 DEF OnceInv, NoDoubleAlert
<1>. QED
    BY <1>2, <1>5, <1>6, <1>7 DEF OnceInv

LEMMA OncePublish ==
    ASSUME TypeInv, StreamInv, OnceInv, Publish
    PROVE  OnceInv'
<1>1. /\ pc = "publish" /\ pc' # "publish" /\ alerts' = alerts \cup {alert}
      /\ UNCHANGED <<content, event, todo, scanned>>
    BY DEF Publish, stream
<1>2. /\ alert.entry = event
      /\ event # 0 =>
            /\ event \in scanned
            /\ \A i \in DOMAIN todo : alert.key # <<todo[i], content[event].source>>
            /\ \A a \in alerts : a.entry = event => a.key # alert.key
    BY <1>1 DEF OnceInv, PublishInv, EventInv
<1>3. EventInv' /\ PublishInv'
    BY <1>1, <1>2 DEF OnceInv, EventInv, PublishInv
<1>4. NoDoubleAlert'
    BY <1>1, <1>2 DEF OnceInv, NoDoubleAlert
<1>. QED
    BY <1>1, <1>2, <1>3, <1>4 DEF OnceInv

LEMMA OnceScore ==
    ASSUME TypeInv, OnceInv, NEW s \in ticks, Score(s)
    PROVE  OnceInv'
<1>. DEFINE k == <<"BEHAVIORAL_ANOMALY", s.endpoint>>
<1>1. event = 0 /\ UNCHANGED <<event, alerts, scanned>>
    BY Types DEF LocEvent, Score, history
<1>2. CASE UNCHANGED <<pc, alert, dedup>>
    BY <1>1, <1>2, OnceIdle DEF Score
<1>3. CASE ShouldPublish(k, 0, "publish", "score")
  <2>1. Opened(k, 0, "publish") \/ Suppressed(k, "score")
      BY <1>3, ShouldPublishCases DEF TypeInv
  <2>2. pc' = "publish" => alert'.entry = 0
      BY <2>1 DEF Opened, Suppressed
  <2>. QED
      BY <1>1, <2>2, OnceIdle
<1>. QED
    BY <1>2, <1>3 DEF Score

LEMMA OnceStep == TypeInv /\ StreamInv /\ OnceInv /\ [Next]_vars => OnceInv'
<1>. SUFFICES ASSUME TypeInv, StreamInv, OnceInv, [Next]_vars PROVE OnceInv'
    OBVIOUS
<1>1. CASE Tick \/ UNCHANGED vars
    BY <1>1, OnceFrame DEF Tick, vars, stream, work, history
<1>2. CASE Start \/ DropOwnPending \/ DropAck
    BY <1>2, OnceFrame DEF Start, DropOwnPending, DropAck, stream, work, history
<1>3. CASE Crash
    BY <1>3, OnceIdle DEF Crash
<1>4. CASE Read \/ Ack
    BY <1>4, OnceFrame DEF Read, Ack, stream, history
<1>5. CASE Record
    BY <1>5, OnceIdle DEF Record
<1>6. CASE TickWindow \/ ScoreDone \/ PublishMetricSnapshot
    BY <1>6, OnceFrame DEF TickWindow, ScoreDone, PublishMetricSnapshot, stream, work, history
<1>. QED
    BY <1>1, <1>2, <1>3, <1>4, <1>5, <1>6, OnceEmit, OnceScan, OnceMatch, OncePublish,
       OnceScore DEF Next

\* Entries that a dead run has read are dropped and not scanned again, and each
\* rule of process_message is handled once: no event alerts twice.
THEOREM NoDoubleAlertCorrect == Spec => []NoDoubleAlert
<1>1. Spec => []OnceInv
    BY StreamInvariant, OnceInit, OnceStep, PTL DEF Spec
<1>2. OnceInv => NoDoubleAlert
    BY DEF OnceInv
<1>. QED
    BY <1>1, <1>2, PTL

-----------------------------------------------------------------------------
(* The window between two alerts.                                           *)

\* While an alert of this incarnation is within its window, _recent has its key;
\* and what _recent has began with an alert, published or at hand.
RemembersInv ==
    pc # "down" =>
        \A a \in alerts : a.life = life =>
            \/ a.key \in DOMAIN recent /\ a.at <= recent[a.key].first
            \/ now - a.at > DEDUP_WINDOW

BeganInv ==
    \A k \in DOMAIN recent :
        \/ \E a \in alerts : a.life = life /\ a.key = k /\ a.at = recent[k].first
        \/ pc = "publish" /\ alert.key = k

\* The alert at hand has opened its window, and the last one is over.
OpeningInv ==
    pc = "publish" =>
        /\ alert.life = life
        /\ alert.key \in DOMAIN recent /\ recent[alert.key].first = alert.at
        /\ \A a \in alerts : a.life = life /\ a.key = alert.key =>
               alert.at - a.at > DEDUP_WINDOW

WindowInv ==
    /\ \A a \in alerts : a.life <= life
    /\ RemembersInv /\ BeganInv /\ OpeningInv /\ DedupSpacing

LEMMA WindowInit == Init => WindowInv
BY DEF Init, WindowInv, RemembersInv, BeganInv, OpeningInv, DedupSpacing, Empty

LEMMA WindowFrame ==
    ASSUME WindowInv, UNCHANGED <<now, recent, life, alerts>>,
           pc = "down" => pc' = "down",
           IF pc = "publish" THEN UNCHANGED <<pc, alert>> ELSE pc' # "publish"
    PROVE  WindowInv'
<1>1. RemembersInv' /\ DedupSpacing'
    BY DEF WindowInv, RemembersInv, DedupSpacing
<1>2. BeganInv' /\ OpeningInv'
    BY DEF WindowInv, BeganInv, OpeningInv
<1>. QED
    BY <1>1, <1>2 DEF WindowInv

\* The numbers of the window.
LEMMA WindowTypes ==
    ASSUME TypeInv
    PROVE  /\ now \in Nat /\ life \in Nat /\ DEDUP_WINDOW \in Nat
           /\ \A a \in alerts : a.at \in Nat /\ a.life \in Nat
           /\ \A j \in DOMAIN recent : /\ recent[j].first \in Nat /\ recent[j].first <= now
                                      /\ recent[j].count \in Nat \ {0}
<1>1. StreamTypes /\ DedupTypes /\ HistoryTypes
    BY Types
<1>2. now \in Nat /\ DEDUP_WINDOW \in Nat
    BY <1>1, Bounds, Numbers
<1>3. life \in Nat
    BY <1>1, Bounds DEF HistoryTypes
<1>4. \A a \in alerts : a.at \in Nat /\ a.life \in Nat
    BY <1>1, Bounds DEF HistoryTypes, Alerts
<1>5. \A j \in DOMAIN recent : /\ recent[j].first \in 0..now
                               /\ recent[j].count \in Nat \ {0}
    BY <1>1 DEF DedupTypes
<1>. QED
    BY <1>2, <1>3, <1>4, <1>5

\* As time goes by.
LEMMA WindowTick ==
    ASSUME TypeInv, WindowInv, Tick
    PROVE  WindowInv'
<1>1. now' = now + 1 /\ UNCHANGED <<pc, alert, recent, life, alerts>>
    BY DEF Tick, work, dedup, history
<1>2. \A a \in alerts : now - a.at > DEDUP_WINDOW => now' - a.at > DEDUP_WINDOW
    BY <1>1, WindowTypes
<1>3. RemembersInv'
    BY <1>1, <1>2 DEF WindowInv, RemembersInv
<1>4. BeganInv' /\ OpeningInv' /\ DedupSpacing'
    BY <1>1 DEF WindowInv, BeganInv, OpeningInv, DedupSpacing
<1>. QED
    BY <1>1, <1>3, <1>4 DEF WindowInv

\* A new incarnation has no alerts and remembers none.
LEMMA WindowStart ==
    ASSUME TypeInv, WindowInv, Start
    PROVE  WindowInv'
<1>1. /\ pc = "down" /\ pc' = "drop" /\ life' = life + 1
      /\ UNCHANGED <<recent, alerts>>
    BY DEF Start, dedup
<1>2. DOMAIN recent = {}
    BY <1>1, Types DEF LocStart
<1>3. \A a \in alerts : a.life <= life' /\ a.life # life'
  <2>1. \A a \in alerts : a.life \in Nat /\ a.life <= life
      BY WindowTypes DEF WindowInv
  <2>2. life \in Nat
      BY WindowTypes
  <2>. QED
      BY <1>1, <2>1, <2>2
<1>4. RemembersInv' /\ BeganInv' /\ OpeningInv'
    BY <1>1, <1>2, <1>3 DEF RemembersInv, BeganInv, OpeningInv
<1>5. DedupSpacing'
    BY <1>1 DEF WindowInv, DedupSpacing
<1>. QED
    BY <1>1, <1>3, <1>4, <1>5 DEF WindowInv

LEMMA WindowCrash ==
    ASSUME WindowInv, Crash
    PROVE  WindowInv'
<1>1. pc' = "down" /\ recent' = Empty /\ UNCHANGED <<life, alerts>>
    BY DEF Crash
<1>2. RemembersInv' /\ BeganInv' /\ OpeningInv'
    BY <1>1 DEF RemembersInv, BeganInv, OpeningInv, Empty
<1>3. DedupSpacing'
    BY <1>1 DEF WindowInv, DedupSpacing
<1>. QED
    BY <1>1, <1>2, <1>3 DEF WindowInv

\* should_publish: a window begins only after the last one, and what the sweep
\* forgets is over.
LEMMA WindowDecide ==
    ASSUME TypeInv, WindowInv, NEW k, NEW e, NEW suppressed,
           suppressed \in {"match", "score"}, pc \in {"match", "score"},
           ShouldPublish(k, e, "publish", suppressed), UNCHANGED <<now, life, alerts>>
    PROVE  WindowInv'
<1>1. /\ Opened(k, e, "publish") \/ Suppressed(k, suppressed)
      /\ OthersKept(k)
    BY ShouldPublishCases DEF TypeInv
<1>2. /\ now \in Nat /\ DEDUP_WINDOW \in Nat
      /\ \A a \in alerts : a.at \in Nat
      /\ \A j \in DOMAIN recent : recent[j].first \in Nat /\ recent[j].first <= now
    BY WindowTypes
<1>3. \A a \in alerts : a.life = life =>
          \/ a.key \in DOMAIN recent /\ a.at <= recent[a.key].first
          \/ now - a.at > DEDUP_WINDOW
    BY DEF WindowInv, RemembersInv
<1>4. k \in DOMAIN recent' /\ recent'[k].first \in Nat
    BY <1>1, <1>2 DEF Opened, Suppressed
<1>5. k \in DOMAIN recent => recent[k].first <= recent'[k].first
    BY <1>1, <1>2 DEF Opened, Suppressed
<1>6. RemembersInv'
  <2>1. SUFFICES ASSUME NEW a \in alerts, a.life = life
                 PROVE  \/ a.key \in DOMAIN recent' /\ a.at <= recent'[a.key].first
                        \/ now - a.at > DEDUP_WINDOW
      BY DEF RemembersInv
  <2>2. CASE a.key \notin DOMAIN recent
      BY <1>3, <2>1, <2>2
  <2>3. CASE a.key \in DOMAIN recent /\ a.key = k
      BY <1>2, <1>3, <1>4, <1>5, <2>1, <2>3
  <2>4. CASE a.key \in DOMAIN recent /\ a.key # k
    <3>1. \/ a.key \in DOMAIN recent' /\ recent'[a.key] = recent[a.key]
          \/ now - recent[a.key].first > DEDUP_WINDOW
        BY <1>1, <2>4 DEF OthersKept
    <3>2. a.at <= recent[a.key].first \/ now - a.at > DEDUP_WINDOW
        BY <1>3, <2>1
    <3>. QED
        BY <1>2, <2>4, <3>1, <3>2
  <2>. QED
      BY <2>2, <2>3, <2>4
<1>7. \A j \in DOMAIN recent :
          \E a \in alerts : a.life = life /\ a.key = j /\ a.at = recent[j].first
    BY DEF WindowInv, BeganInv
<1>8. BeganInv'
  <2>1. SUFFICES ASSUME NEW j \in DOMAIN recent'
                 PROVE  \/ \E a \in alerts :
                              a.life = life /\ a.key = j /\ a.at = recent'[j].first
                        \/ pc' = "publish" /\ alert'.key = j
      BY DEF BeganInv
  <2>2. CASE j # k
    <3>1. j \in DOMAIN recent /\ recent'[j] = recent[j]
        BY <1>1, <2>2 DEF OthersKept
    <3>. QED
        BY <1>7, <3>1
  <2>3. CASE j = k /\ Opened(k, e, "publish")
      BY <2>3 DEF Opened
  <2>4. CASE j = k /\ Suppressed(k, suppressed)
    <3>1. j \in DOMAIN recent /\ recent'[j].first = recent[j].first
        BY <2>4 DEF Suppressed
    <3>. QED
        BY <1>7, <3>1
  <2>. QED
      BY <1>1, <2>2, <2>3, <2>4
<1>9. OpeningInv'
  <2>1. CASE Suppressed(k, suppressed)
      BY <2>1 DEF Suppressed, OpeningInv
  <2>2. CASE Opened(k, e, "publish")
    <3>1. /\ alert'.life = life /\ alert'.key = k /\ alert'.at = now
          /\ recent'[k].first = now
        BY <2>2 DEF Opened
    <3>2. \A a \in alerts : a.life = life /\ a.key = k => now - a.at > DEDUP_WINDOW
      <4>1. SUFFICES ASSUME NEW a \in alerts, a.life = life, a.key = k
                     PROVE  now - a.at > DEDUP_WINDOW
          OBVIOUS
      <4>2. k \in DOMAIN recent => now - recent[k].first > DEDUP_WINDOW
          BY <2>2 DEF Opened
      <4>. QED
          BY <1>2, <1>3, <4>1, <4>2
    <3>. QED
        BY <1>4, <3>1, <3>2 DEF OpeningInv
  <2>. QED
      BY <1>1, <2>1, <2>2
<1>10. DedupSpacing'
    BY DEF WindowInv, DedupSpacing
<1>. QED
    BY <1>6, <1>8, <1>9, <1>10 DEF WindowInv

LEMMA WindowPublish ==
    ASSUME TypeInv, WindowInv, Publish
    PROVE  WindowInv'
<1>1. /\ pc = "publish" /\ pc' \in {"match", "score"} /\ alerts' = alerts \cup {alert}
      /\ UNCHANGED <<now, recent, life>>
    BY DEF Publish, dedup
<1>2. /\ alert.life = life
      /\ alert.key \in DOMAIN recent /\ recent[alert.key].first = alert.at
      /\ \A a \in alerts : a.life = life /\ a.key = alert.key =>
             alert.at - a.at > DEDUP_WINDOW
    BY <1>1 DEF WindowInv, OpeningInv
<1>3. alert.at \in Nat
    BY <1>2, WindowTypes
<1>4. RemembersInv'
    BY <1>1, <1>2, <1>3 DEF WindowInv, RemembersInv
<1>5. BeganInv'
    BY <1>1, <1>2 DEF WindowInv, BeganInv
<1>6. OpeningInv'
    BY <1>1 DEF OpeningInv
<1>7. DedupSpacing'
    BY <1>1, <1>2 DEF WindowInv, DedupSpacing
<1>8. \A a \in alerts' : a.life <= life
    BY <1>1, <1>2, WindowTypes DEF WindowInv
<1>. QED
    BY <1>1, <1>4, <1>5, <1>6, <1>7, <1>8 DEF WindowInv

\* The steps that ask should_publish.
Decides ==
    \E k \in Keys, e \in 0..MaxEntries, suppressed \in {"match", "score"} :
        /\ pc \in {"match", "score"}
        /\ ShouldPublish(k, e, "publish", suppressed)
        /\ UNCHANGED <<now, life, alerts>>

LEMMA MatchDecides ==
    ASSUME TypeInv, Match
    PROVE  Decides
<1>0. StreamTypes /\ WorkTypes /\ LocEvent
    BY Types
<1>1. Head(todo) \in Rules
    BY <1>0 DEF Match, WorkTypes
<1>2. event \in Entries /\ event \in 0..MaxEntries
    BY <1>0 DEF Match, WorkTypes, LocEvent, Entries
<1>3. content[event].source \in Sources
    BY <1>0, <1>2, ContentsAssumption DEF StreamTypes
<1>. DEFINE k == <<Head(todo), content[event].source>>
<1>4. k \in Keys
    BY <1>1, <1>3 DEF Keys
<1>5. ShouldPublish(k, event, "publish", "match") /\ pc = "match"
    BY DEF Match
<1>6. UNCHANGED <<now, life, alerts>>
    BY DEF Match, history
<1>. HIDE DEF k
<1>. QED
    BY <1>2, <1>4, <1>5, <1>6 DEF Decides

LEMMA ScoreDecides ==
    ASSUME TypeInv, NEW s \in ticks, Score(s)
    PROVE  Decides \/ UNCHANGED <<pc, alert, dedup>>
<1>0. ScoreTypes
    BY Types
<1>. DEFINE k == <<"BEHAVIORAL_ANOMALY", s.endpoint>>
<1>1. s.endpoint \in Endpoints
    BY <1>0 DEF ScoreTypes
<1>2. k \in Keys /\ 0 \in 0..MaxEntries
    BY <1>1, Bounds DEF Keys
<1>3. pc = "score" /\ UNCHANGED <<now, life, alerts>>
    BY DEF Score, history
<1>4. UNCHANGED <<pc, alert, dedup>> \/ ShouldPublish(k, 0, "publish", "score")
    BY DEF Score
<1>. HIDE DEF k
<1>. QED
    BY <1>2, <1>3, <1>4 DEF Decides

\* Every other step leaves _recent as it is, or dies.
LEMMA DecidesCases ==
    ASSUME TypeInv, [Next]_vars
    PROVE  Decides \/ Crash \/ UNCHANGED recent
<1>2. CASE \E s \in ticks : Score(s)
    BY <1>2, ScoreDecides DEF dedup
<1>3. CASE Tick \/ Start \/ DropOwnPending \/ DropAck \/ UNCHANGED vars
    BY <1>3 DEF Tick, Start, DropOwnPending, DropAck, vars, dedup
<1>4. CASE \E c \in Contents : Emit(c)
    BY <1>4 DEF Emit, dedup
<1>5. CASE Read \/ Scan \/ Publish \/ Record \/ Ack
    BY <1>5 DEF Read, Scan, Publish, Record, Ack, dedup
<1>6. CASE TickWindow \/ ScoreDone \/ PublishMetricSnapshot
    BY <1>6 DEF TickWindow, ScoreDone, PublishMetricSnapshot, dedup
<1>. QED
    BY <1>2, <1>3, <1>4, <1>5, <1>6, MatchDecides DEF Next

LEMMA WindowStep == TypeInv /\ WindowInv /\ [Next]_vars => WindowInv'
<1>. SUFFICES ASSUME TypeInv, WindowInv, [Next]_vars PROVE WindowInv'
    OBVIOUS
<1>1. CASE Decides
    BY <1>1, WindowDecide DEF Decides
<1>2. CASE DropOwnPending \/ DropAck \/ UNCHANGED vars
    BY <1>2, WindowFrame DEF DropOwnPending, DropAck, vars, work, dedup, history
<1>3. CASE \E c \in Contents : Emit(c)
    BY <1>3, WindowFrame DEF Emit, work, dedup, history
<1>4. CASE Read \/ Scan \/ Record \/ Ack
    BY <1>4, WindowFrame DEF Read, Scan, Record, Ack, dedup, history
<1>5. CASE TickWindow \/ ScoreDone \/ PublishMetricSnapshot
    BY <1>5, WindowFrame DEF TickWindow, ScoreDone, PublishMetricSnapshot, work, dedup, history
<1>6. ASSUME NEW s \in ticks, Score(s), ~Decides PROVE WindowInv'
  <2>1. UNCHANGED <<pc, alert, dedup>>
      BY <1>6, ScoreDecides
  <2>2. UNCHANGED <<now, pc, alert, recent, life, alerts>>
      BY <1>6, <2>1 DEF Score, dedup, history
  <2>3. pc = "score"
      BY <1>6 DEF Score
  <2>. QED
      BY <2>2, <2>3, WindowFrame
<1>7. CASE Match
    BY <1>1, <1>7, MatchDecides
<1>. QED
    BY <1>1, <1>2, <1>3, <1>4, <1>5, <1>6, <1>7, WindowTick, WindowStart, WindowCrash,
       WindowPublish DEF Next

LEMMA WindowInvariant == Spec => [](TypeInv /\ WindowInv)
BY TypeInit, TypeStep, WindowInit, WindowStep, PTL DEF Spec

\* However the sweeps fall, should_publish opens no window of a key before the
\* last one is over: DedupSpacing.
THEOREM DedupSpacingCorrect == Spec => []DedupSpacing
<1>1. WindowInv => DedupSpacing
    BY DEF WindowInv
<1>. QED
    BY <1>1, WindowInvariant, PTL

\* An occurrence is counted and not published only when an alert with its key
\* was published in the window that is still open: SuppressionJustified.
THEOREM SuppressionJustifiedCorrect == Spec => SuppressionJustified
<1>1. ASSUME TypeInv, WindowInv, [Next]_vars,
             NEW k \in DOMAIN recent \cap DOMAIN recent', recent'[k].count > recent[k].count
      PROVE  \E a \in alerts : a.life = life /\ a.key = k /\ now - a.at <= DEDUP_WINDOW
  <2>0. recent[k].count \in Nat \ {0} /\ recent[k].first \in Nat /\ now \in Nat
      BY <1>1, WindowTypes
  <2>1. CASE UNCHANGED recent \/ Crash
      BY <1>1, <2>0, <2>1 DEF Crash, Empty
  <2>2. CASE Decides
    <3>1. PICK j \in Keys, e \in 0..MaxEntries, suppressed \in {"match", "score"} :
              /\ pc \in {"match", "score"}
              /\ ShouldPublish(j, e, "publish", suppressed)
        BY <2>2 DEF Decides
    <3>2. /\ Opened(j, e, "publish") \/ Suppressed(j, suppressed)
          /\ OthersKept(j)
        BY <1>1, <3>1, ShouldPublishCases DEF TypeInv
    <3>3. k = j
        BY <1>1, <2>0, <3>2 DEF OthersKept
    <3>4. Suppressed(k, suppressed)
        BY <1>1, <2>0, <3>2, <3>3 DEF Opened
    <3>5. now - recent[k].first <= DEDUP_WINDOW
        BY <3>4 DEF Suppressed
    <3>6. \E a \in alerts : a.life = life /\ a.key = k /\ a.at = recent[k].first
        BY <1>1, <3>1 DEF WindowInv, BeganInv
    <3>. QED
        BY <3>5, <3>6
  <2>. QED
      BY <1>1, <2>1, <2>2, DecidesCases
<1>2. TypeInv /\ WindowInv /\ [Next]_vars =>
          [\A k \in DOMAIN recent \cap DOMAIN recent' :
              recent'[k].count > recent[k].count =>
                  \E a \in alerts : /\ a.life = life /\ a.key = k
                                   /\ now - a.at <= DEDUP_WINDOW]_vars
    BY <1>1
<1>. QED
    BY <1>2, WindowInvariant, PTL DEF Spec, SuppressionJustified

-----------------------------------------------------------------------------
(* Every request that is recorded is shown once.                            *)

All == Seconds \X Endpoints

LEMMA AddUpNow == SnapshotsAddUp <=> shown + total + Sum(buckets, All) = recorded
BY RequestsSum DEF SnapshotsAddUp, All

LEMMA AddUpNext ==
    ASSUME shown' + total' + Sum(buckets', All) = recorded'
    PROVE  SnapshotsAddUp'
BY Zenon DEF SnapshotsAddUp, Requests, Sum, All, MapThenSumSet, MapThenFoldSet

\* The sums at hand are numbers.
LEMMA SumTypes ==
    ASSUME TypeInv
    PROVE  /\ shown \in Nat /\ total \in Nat /\ recorded \in Nat
           /\ IsFiniteSet(All) /\ \A b \in All : buckets[b] \in Nat
           /\ \A B \in SUBSET All : Sum(buckets, B) \in Nat
<1>1. ScoreTypes /\ HistoryTypes
    BY Types
<1>2. IsFiniteSet(All) /\ \A b \in All : buckets[b] \in Nat
    BY <1>1, BucketsFinite DEF All, ScoreTypes
<1>3. \A B \in SUBSET All : Sum(buckets, B) \in Nat
    BY <1>2, SumRecursion
<1>. QED
    BY <1>1, <1>2, <1>3 DEF ScoreTypes, HistoryTypes

LEMMA AddUpInit == Init => SnapshotsAddUp
<1>. SUFFICES ASSUME Init PROVE SnapshotsAddUp
    OBVIOUS
<1>1. IsFiniteSet(All) /\ \A b \in All : buckets[b] = 0
    BY BucketsFinite DEF Init, All
<1>2. Sum(buckets, All) = 0
    BY <1>1, SumZero
<1>. QED
    BY <1>2, AddUpNow DEF Init

LEMMA AddUpCrash ==
    ASSUME Crash
    PROVE  SnapshotsAddUp'
<1>1. IsFiniteSet(All) /\ \A b \in All : buckets'[b] = 0
    BY BucketsFinite DEF Crash, All
<1>2. Sum(buckets', All) = 0
    BY <1>1, SumZero
<1>3. shown' = 0 /\ total' = 0 /\ recorded' = 0
    BY DEF Crash
<1>. QED
    BY <1>2, <1>3, AddUpNext

LEMMA AddUpRecord ==
    ASSUME TypeInv, SnapshotsAddUp, Record
    PROVE  SnapshotsAddUp'
<1>. DEFINE e == <<Sec(now), content[event].endpoint>>
<1>1. e \in All
    BY RecordBucket DEF All
<1>2. /\ buckets' = [buckets EXCEPT ![e] = @ + 1] /\ recorded' = recorded + 1
      /\ UNCHANGED <<shown, total>>
    BY DEF Record, scoring
<1>. HIDE DEF e
<1>3. \A b \in All : buckets'[b] = IF b = e THEN buckets[b] + 1 ELSE buckets[b]
  <2>1. All \subseteq DOMAIN buckets
      BY Types DEF ScoreTypes, All
  <2>. QED
      BY <1>2, <2>1
<1>4. Sum(buckets', All) = Sum(buckets, All) + 1
    BY <1>1, <1>3, SumTypes, SumIncrement
<1>5. shown + total + Sum(buckets, All) = recorded
    BY AddUpNow
<1>6. Sum(buckets, All) \in Nat /\ shown \in Nat /\ total \in Nat
    BY SumTypes
<1>7. shown' + total' + Sum(buckets', All) = recorded'
    BY <1>2, <1>4, <1>5, <1>6
<1>. QED
    BY <1>7, AddUpNext

\* tick moves what it pops into the total of the snapshot.
LEMMA AddUpTickWindow ==
    ASSUME TypeInv, SnapshotsAddUp, TickWindow
    PROVE  SnapshotsAddUp'
<1>1. /\ total' = Sum(buckets, Completed) /\ buckets' = LeftAfterTick
      /\ UNCHANGED <<shown, recorded>>
    BY RequestsSum DEF TickWindow, history
<1>2. Completed \in SUBSET All
    BY DEF Completed, All
<1>3. \A b \in All : buckets'[b] = IF b \in Completed THEN 0 ELSE buckets[b]
  <2>1. All \subseteq DOMAIN buckets
      BY Types DEF ScoreTypes, All
  <2>. QED
      BY <1>1, <2>1 DEF LeftAfterTick
<1>4. Sum(buckets, Completed) + Sum(buckets', All) = Sum(buckets, All)
    BY <1>2, <1>3, SumTypes, SumSplit
<1>5. total = 0
    BY Types DEF TickWindow, LocTick, Scoring
<1>6. shown + total + Sum(buckets, All) = recorded
    BY AddUpNow
<1>7. /\ Sum(buckets, All) \in Nat /\ Sum(buckets, Completed) \in Nat
      /\ shown \in Nat /\ recorded \in Nat
    BY <1>2, SumTypes
<1>8. Sum(buckets', All) \in Nat
  <2>1. \A b \in All : buckets'[b] \in Nat
      BY <1>3, SumTypes
  <2>. QED
      BY <2>1, SumTypes, SumRecursion
<1>9. shown' + total' + Sum(buckets', All) = recorded'
    BY <1>1, <1>4, <1>5, <1>6, <1>7, <1>8
<1>. QED
    BY <1>9, AddUpNext

LEMMA AddUpSnapshot ==
    ASSUME TypeInv, SnapshotsAddUp, PublishMetricSnapshot
    PROVE  SnapshotsAddUp'
<1>1. /\ shown' = shown + total /\ total' = 0
      /\ UNCHANGED <<buckets, recorded>>
    BY DEF PublishMetricSnapshot
<1>2. shown + total + Sum(buckets, All) = recorded
    BY AddUpNow
<1>3. Sum(buckets, All) \in Nat /\ shown \in Nat /\ total \in Nat
    BY SumTypes
<1>4. shown' + total' + Sum(buckets', All) = recorded'
    BY <1>1, <1>2, <1>3
<1>. QED
    BY <1>4, AddUpNext

LEMMA AddUpFrame ==
    ASSUME SnapshotsAddUp, UNCHANGED <<buckets, shown, total, recorded>>
    PROVE  SnapshotsAddUp'
BY AddUpNow, AddUpNext

LEMMA AddUpStep == TypeInv /\ SnapshotsAddUp /\ [Next]_vars => SnapshotsAddUp'
<1>. SUFFICES ASSUME TypeInv, SnapshotsAddUp, [Next]_vars PROVE SnapshotsAddUp'
    OBVIOUS
<1>1. CASE Tick \/ Start \/ DropOwnPending \/ DropAck \/ UNCHANGED vars
    BY <1>1, AddUpFrame DEF Tick, Start, DropOwnPending, DropAck, vars, scoring, history
<1>2. CASE \E c \in Contents : Emit(c)
    BY <1>2, AddUpFrame DEF Emit, scoring, history
<1>3. CASE Read \/ Scan \/ Match \/ Publish \/ Ack \/ ScoreDone
    BY <1>3, AddUpFrame DEF Read, Scan, Match, Publish, Ack, ScoreDone, scoring, history
<1>4. CASE \E s \in ticks : Score(s)
    BY <1>4, AddUpFrame DEF Score, history
<1>. QED
    BY <1>1, <1>2, <1>3, <1>4, AddUpCrash, AddUpRecord, AddUpTickWindow, AddUpSnapshot
       DEF Next

\* Between record, tick and publish_metric_snapshot no request of this
\* incarnation is dropped or counted twice: SnapshotsAddUp.
THEOREM SnapshotsAddUpCorrect == Spec => []SnapshotsAddUp
<1>1. Spec => []TypeInv
    BY TypeInit, TypeStep, PTL DEF Spec
<1>. QED
    BY <1>1, AddUpInit, AddUpStep, PTL DEF Spec

-----------------------------------------------------------------------------
(* A baseline has at most one sample for each second.                       *)

\* The samples of p: those it has, those that wait to be scored, and the
\* completed seconds that the next tick makes one of.
Samples(p) == IF p \in DOMAIN baselines THEN baselines[p].samples ELSE 0
Waiting(p) == {s \in ticks : s.endpoint = p}
Due(p) == {i \in 0..(Sec(now) - 1) : buckets[<<i, p>>] > 0}

SampleInv ==
    ~Starting =>
        /\ IsFiniteSet(ticks)
        /\ \A p \in Endpoints :
              Samples(p) + Cardinality(Waiting(p)) + Cardinality(Due(p))
                  <= Sec(now) - Sec(born)

LEMMA SampleInit == Init => SampleInv
BY DEF Init, SampleInv, Starting

\* The numbers of the count.
LEMMA SampleTypes ==
    ASSUME TypeInv
    PROVE  /\ Sec(now) \in Nat /\ Sec(born) \in Nat
           /\ \A p : IsFiniteSet(Due(p)) /\ Cardinality(Due(p)) \in Nat
           /\ \A p : Samples(p) \in Nat
           /\ IsFiniteSet(ticks) =>
                 \A p : IsFiniteSet(Waiting(p)) /\ Cardinality(Waiting(p)) \in Nat
<1>1. StreamTypes /\ ScoreTypes /\ HistoryTypes
    BY Types
<1>2. now \in 0..MaxTime /\ born \in 0..MaxTime
    BY <1>1, Numbers DEF StreamTypes, HistoryTypes
<1>3. Sec(now) \in Nat /\ Sec(born) \in Nat
    BY <1>2, SecType
<1>4. ASSUME NEW p PROVE IsFiniteSet(Due(p)) /\ Cardinality(Due(p)) \in Nat
  <2>1. IsFiniteSet(0..(Sec(now) - 1))
      BY <1>3, FS_Interval
  <2>2. Due(p) \in SUBSET (0..(Sec(now) - 1))
      BY DEF Due
  <2>. QED
      BY <2>1, <2>2, FS_Subset, FS_CardinalityType
<1>5. \A p : Samples(p) \in Nat
    BY <1>1 DEF ScoreTypes, Samples
<1>6. ASSUME IsFiniteSet(ticks), NEW p
      PROVE  IsFiniteSet(Waiting(p)) /\ Cardinality(Waiting(p)) \in Nat
  <2>1. Waiting(p) \in SUBSET ticks
      BY DEF Waiting
  <2>. QED
      BY <1>6, <2>1, FS_Subset, FS_CardinalityType
<1>. QED
    BY <1>3, <1>4, <1>5, <1>6

\* The completed seconds have their buckets.
LEMMA DuePast ==
    ASSUME TypeInv
    PROVE  \A i \in 0..(Sec(now) - 1) : i \in Seconds
<1>1. Sec(now) \in Nat /\ Sec(now) \in Seconds /\ Sec(MaxTime) \in Nat
    BY Types, Bounds, SecType DEF StreamTypes
<1>. QED
    BY <1>1 DEF Seconds

LEMMA SampleFrame ==
    ASSUME SampleInv, UNCHANGED <<now, buckets, ticks, baselines, born>>,
           Starting => Starting'
    PROVE  SampleInv'
BY DEF SampleInv, Samples, Waiting, Due

\* With one more second at most one more second is completed.
LEMMA SampleTick ==
    ASSUME TypeInv, SampleInv, Tick
    PROVE  SampleInv'
<1>1. now' = now + 1 /\ UNCHANGED <<pc, buckets, ticks, baselines, born>>
    BY DEF Tick, scoring, history
<1>2. now \in Nat /\ SECOND \in Nat \ {0}
    BY Types, Numbers, Bounds
<1>3. Sec(now') \in {Sec(now), Sec(now) + 1}
    BY <1>1, <1>2, DivStep DEF Sec
<1>4. ASSUME ~Starting, NEW p \in Endpoints
      PROVE  Samples(p)' + Cardinality(Waiting(p)') + Cardinality(Due(p)')
                 <= Sec(now') - Sec(born)
  <2>1. Samples(p)' = Samples(p) /\ Waiting(p)' = Waiting(p)
      BY <1>1 DEF Samples, Waiting
  <2>2. /\ Samples(p) + Cardinality(Waiting(p)) + Cardinality(Due(p)) <= Sec(now) - Sec(born)
        /\ IsFiniteSet(ticks)
      BY <1>4 DEF SampleInv
  <2>3. /\ Sec(now) \in Nat /\ Sec(born) \in Nat
        /\ IsFiniteSet(Due(p)) /\ Cardinality(Due(p)) \in Nat
        /\ Samples(p) \in Nat /\ Cardinality(Waiting(p)) \in Nat
      BY <2>2, SampleTypes
  <2>4. CASE Sec(now') = Sec(now)
    <3>1. Due(p)' = Due(p)
        BY <1>1, <2>4 DEF Due
    <3>. QED
        BY <2>1, <2>2, <2>4, <3>1
  <2>5. CASE Sec(now') = Sec(now) + 1
    <3>1. Due(p)' \in SUBSET (Due(p) \cup {Sec(now)})
      <4>1. \A i \in 0..(Sec(now') - 1) : i = Sec(now) \/ i \in 0..(Sec(now) - 1)
          BY <2>3, <2>5
      <4>. QED
          BY <1>1, <4>1 DEF Due
    <3>2. /\ IsFiniteSet(Due(p) \cup {Sec(now)})
          /\ Cardinality(Due(p) \cup {Sec(now)}) <= Cardinality(Due(p)) + 1
      <4>1. /\ IsFiniteSet(Due(p) \cup {Sec(now)})
            /\ \/ Cardinality(Due(p) \cup {Sec(now)}) = Cardinality(Due(p))
               \/ Cardinality(Due(p) \cup {Sec(now)}) = Cardinality(Due(p)) + 1
          BY <2>3, FS_AddElement
      <4>. QED
          BY <2>3, <4>1
    <3>3. /\ Cardinality(Due(p)') <= Cardinality(Due(p) \cup {Sec(now)})
          /\ Cardinality(Due(p)') \in Nat /\ Cardinality(Due(p) \cup {Sec(now)}) \in Nat
        BY <3>1, <3>2, FS_Subset, FS_CardinalityType
    <3>4. Cardinality(Due(p)') <= Cardinality(Due(p)) + 1
        BY <2>3, <3>2, <3>3
    <3>. QED
        BY <2>1, <2>2, <2>3, <2>5, <3>3, <3>4
  <2>. QED
      BY <1>3, <2>4, <2>5
<1>. QED
    BY <1>1, <1>4 DEF SampleInv, Starting

\* run begins to count with nothing.
LEMMA SampleDrop ==
    ASSUME TypeInv, SampleInv, DropOwnPending
    PROVE  SampleInv'
<1>0. LocStart /\ LocTick /\ ScoreTypes /\ Sec(now) \in Nat
    BY Types, SampleTypes
<1>1. CASE pel # {}
    BY <1>1, SampleFrame DEF DropOwnPending, Starting
<1>2. CASE pel = {}
  <2>1. /\ pc = "drop" /\ born' = now
        /\ UNCHANGED <<now, buckets, ticks, baselines>>
      BY <1>2 DEF DropOwnPending
  <2>2. /\ DOMAIN baselines = {} /\ ticks = {}
        /\ \A b \in Seconds \X Endpoints : buckets[b] = 0
      BY <1>0, <2>1 DEF LocStart, LocTick, Starting, Scoring
  <2>3. ASSUME NEW p \in Endpoints
        PROVE  Samples(p)' + Cardinality(Waiting(p)') + Cardinality(Due(p)')
                   <= Sec(now)' - Sec(born)'
    <3>1. Samples(p)' = 0 /\ Waiting(p)' = {}
        BY <2>1, <2>2 DEF Samples, Waiting
    <3>2. \A i \in 0..(Sec(now) - 1) : ~(buckets[<<i, p>>] > 0)
      <4>1. \A i \in 0..(Sec(now) - 1) : i \in Seconds
          BY DuePast
      <4>. QED
          BY <2>2, <4>1
    <3>3. Due(p)' = {}
        BY <2>1, <3>2 DEF Due
    <3>4. Sec(now)' - Sec(born)' = 0
        BY <1>0, <2>1 DEF Sec
    <3>. QED
        BY <3>1, <3>3, <3>4, FS_EmptySet
  <2>4. IsFiniteSet(ticks')
      BY <2>1, <2>2, FS_EmptySet
  <2>. QED
      BY <2>3, <2>4 DEF SampleInv
<1>. QED
    BY <1>1, <1>2

\* The request that is recorded counts for the second that is running.
LEMMA SampleRecord ==
    ASSUME TypeInv, SampleInv, Record
    PROVE  SampleInv'
<1>. DEFINE e == <<Sec(now), content[event].endpoint>>
<1>1. /\ buckets' = [buckets EXCEPT ![e] = @ + 1] /\ ~Starting
      /\ UNCHANGED <<now, ticks, baselines, born>>
    BY DEF Record, scoring, Starting
<1>2. ASSUME NEW p \in Endpoints PROVE Due(p)' = Due(p)
  <2>1. \A i \in 0..(Sec(now) - 1) : <<i, p>> # e
      BY SampleTypes
  <2>2. \A i \in 0..(Sec(now) - 1) : <<i, p>> \in DOMAIN buckets
    <3>1. \A i \in 0..(Sec(now) - 1) : i \in Seconds
        BY DuePast
    <3>2. DOMAIN buckets = Seconds \X Endpoints
        BY Types DEF ScoreTypes
    <3>. QED
        BY <3>1, <3>2
  <2>. HIDE DEF e
  <2>3. \A i \in 0..(Sec(now) - 1) : buckets'[<<i, p>>] = buckets[<<i, p>>]
      BY <1>1, <2>1, <2>2
  <2>. QED
      BY <1>1, <2>3 DEF Due
<1>3. \A p : Samples(p)' = Samples(p) /\ Waiting(p)' = Waiting(p)
    BY <1>1 DEF Samples, Waiting
<1>. QED
    BY <1>1, <1>2, <1>3 DEF SampleInv

\* Each completed second yields one sample.
LEMMA SampleTickWindow ==
    ASSUME TypeInv, SampleInv, TickWindow
    PROVE  SampleInv'
<1>0. ScoreTypes /\ LocTick /\ Sec(now) \in Nat
    BY Types, SampleTypes
<1>1. /\ ticks' = {[sec |-> b[1], endpoint |-> b[2], rps |-> buckets[b]] : b \in Completed}
      /\ buckets' = LeftAfterTick /\ pc = "tick"
      /\ UNCHANGED <<now, baselines, born>>
    BY DEF TickWindow, history
<1>2. ticks = {} /\ ~Starting
    BY <1>0, <1>1 DEF LocTick, Scoring, Starting
<1>3. IsFiniteSet(ticks')
  <2>. DEFINE F == [b \in Completed |-> [sec |-> b[1], endpoint |-> b[2], rps |-> buckets[b]]]
  <2>1. Completed \in SUBSET (Seconds \X Endpoints)
      BY DEF Completed
  <2>2. IsFiniteSet(Completed)
      BY <2>1, BucketsFinite, FS_Subset
  <2>3. F \in Surjection(Completed, ticks')
      BY <1>1 DEF Surjection
  <2>. QED
      BY <2>2, <2>3, FS_Surjection
<1>4. ASSUME NEW p \in Endpoints
      PROVE  Samples(p)' + Cardinality(Waiting(p)') + Cardinality(Due(p)')
                 <= Sec(now)' - Sec(born)'
  <2>1. Samples(p)' = Samples(p) /\ Sec(now)' = Sec(now) /\ Sec(born)' = Sec(born)
      BY <1>1 DEF Samples, Sec
  <2>2. Waiting(p) = {} /\ Cardinality(Waiting(p)) = 0
      BY <1>2, FS_EmptySet DEF Waiting
  <2>3. \A i \in 0..(Sec(now) - 1) : <<i, p>> \in Seconds \X Endpoints
      BY DuePast
  <2>4. Due(p)' = {}
    <3>1. \A i \in 0..(Sec(now) - 1) : ~(buckets'[<<i, p>>] > 0)
      <4>1. SUFFICES ASSUME NEW i \in 0..(Sec(now) - 1)
                     PROVE  ~(buckets'[<<i, p>>] > 0)
          OBVIOUS
      <4>. DEFINE b == <<i, p>>
      <4>2. b \in Seconds \X Endpoints /\ b[1] < Sec(now)
          BY <1>0, <2>3
      <4>3. b \in DOMAIN buckets
          BY <1>0, <4>2 DEF ScoreTypes
      <4>4. b \in Completed <=> buckets[b] > 0
          BY <4>2 DEF Completed
      <4>. HIDE DEF b
      <4>5. buckets'[b] = IF b \in Completed THEN 0 ELSE buckets[b]
          BY <1>1, <4>3 DEF LeftAfterTick
      <4>6. ~(buckets'[b] > 0)
          BY <4>4, <4>5
      <4>. QED
          BY <4>6 DEF b
    <3>. QED
        BY <1>1, <2>1, <3>1 DEF Due
  <2>5. Cardinality(Waiting(p)') <= Cardinality(Due(p))
    <3>. DEFINE G == [i \in Due(p) |-> [sec |-> i, endpoint |-> p, rps |-> buckets[<<i, p>>]]]
    <3>1. ASSUME NEW s \in Waiting(p)' PROVE \E i \in Due(p) : G[i] = s
      <4>1. PICK b \in Completed : s = [sec |-> b[1], endpoint |-> b[2], rps |-> buckets[b]]
          BY <1>1 DEF Waiting
      <4>2. s.endpoint = p
          BY DEF Waiting
      <4>3. b = <<b[1], p>> /\ b[1] \in Nat /\ b[1] < Sec(now) /\ buckets[b] > 0
        <5>1. \A i \in Seconds : i \in Nat
            BY Bounds, SecType DEF Seconds
        <5>2. b \in Seconds \X Endpoints /\ b[1] < Sec(now) /\ buckets[b] > 0
            BY DEF Completed
        <5>3. b[2] = p
            BY <4>1, <4>2
        <5>4. b = <<b[1], b[2]>> /\ b[1] \in Seconds
            BY <5>2
        <5>. QED
            BY <5>1, <5>2, <5>3, <5>4
      <4>4. b[1] \in Due(p)
          BY <1>0, <4>3 DEF Due
      <4>. QED
          BY <4>1, <4>3, <4>4
    <3>2. ASSUME NEW i \in Due(p) PROVE G[i] \in Waiting(p)'
      <4>. DEFINE b == <<i, p>>
      <4>1. b \in Seconds \X Endpoints /\ b[1] < Sec(now) /\ buckets[b] > 0
          BY <1>0, <2>3 DEF Due
      <4>2. b \in Completed
          BY <4>1 DEF Completed
      <4>3. G[i] = [sec |-> b[1], endpoint |-> b[2], rps |-> buckets[b]]
          OBVIOUS
      <4>. QED
          BY <1>1, <4>2, <4>3 DEF Waiting
    <3>3. G \in Surjection(Due(p), Waiting(p)')
        BY <3>1, <3>2 DEF Surjection
    <3>. QED
        BY <3>3, SampleTypes, FS_Surjection
  <2>6. Samples(p) + Cardinality(Waiting(p)) + Cardinality(Due(p)) <= Sec(now) - Sec(born)
      BY <1>2 DEF SampleInv
  <2>7. IsFiniteSet(Waiting(p)')
    <3>1. Waiting(p)' \in SUBSET ticks'
        BY DEF Waiting
    <3>. QED
        BY <1>3, <3>1, FS_Subset
  <2>8. Cardinality(Waiting(p)') \in Nat
      BY <2>7, FS_CardinalityType
  <2>9. /\ Samples(p) \in Nat /\ Cardinality(Due(p)) \in Nat /\ Sec(born) \in Nat
        /\ Cardinality({}) = 0
      BY SampleTypes, FS_EmptySet
  <2>. QED
      BY <1>0, <2>1, <2>2, <2>4, <2>5, <2>6, <2>8, <2>9
<1>. QED
    BY <1>3, <1>4 DEF SampleInv

\* A sample that was waiting is one that the baseline has.
LEMMA SampleScore ==
    ASSUME TypeInv, SampleInv, NEW s \in ticks, Score(s)
    PROVE  SampleInv'
<1>1. /\ pc = "score" /\ ticks' = ticks \ {s}
      /\ baselines' = [p \in DOMAIN baselines \cup {s.endpoint} |->
                         IF p = s.endpoint THEN Sampled(p) ELSE baselines[p]]
      /\ UNCHANGED <<now, buckets, born>>
    BY DEF Score, history
<1>2. ~Starting /\ IsFiniteSet(ticks)
    BY <1>1 DEF Starting, SampleInv
<1>3. ASSUME NEW p \in Endpoints
      PROVE  Samples(p)' + Cardinality(Waiting(p)') + Cardinality(Due(p)')
                 <= Sec(now)' - Sec(born)'
  <2>1. Due(p)' = Due(p) /\ Sec(now)' = Sec(now) /\ Sec(born)' = Sec(born)
      BY <1>1 DEF Due, Sec
  <2>2. Samples(p) + Cardinality(Waiting(p)) + Cardinality(Due(p)) <= Sec(now) - Sec(born)
      BY <1>2 DEF SampleInv
  <2>3. /\ Samples(p) \in Nat /\ Cardinality(Due(p)) \in Nat
        /\ IsFiniteSet(Waiting(p)) /\ Cardinality(Waiting(p)) \in Nat
        /\ Sec(now) \in Nat /\ Sec(born) \in Nat
      BY <1>2, SampleTypes
  <2>4. CASE p = s.endpoint
    <3>1. Samples(p)' = Samples(p) + 1
        BY <1>1, <2>4 DEF Samples, Sampled
    <3>2. Waiting(p)' = Waiting(p) \ {s} /\ s \in Waiting(p)
        BY <1>1, <2>4 DEF Waiting
    <3>3. Cardinality(Waiting(p)') = Cardinality(Waiting(p)) - 1
        BY <2>3, <3>2, FS_RemoveElement
    <3>. QED
        BY <2>1, <2>2, <2>3, <3>1, <3>3
  <2>5. CASE p # s.endpoint
    <3>1. Samples(p)' = Samples(p) /\ Waiting(p)' = Waiting(p)
        BY <1>1, <2>5 DEF Samples, Waiting
    <3>. QED
        BY <2>1, <2>2, <3>1
  <2>. QED
      BY <2>4, <2>5
<1>4. IsFiniteSet(ticks')
    BY <1>1, <1>2, FS_RemoveElement
<1>. QED
    BY <1>3, <1>4 DEF SampleInv

\* An eviction forgets samples.
LEMMA SampleSnapshot ==
    ASSUME TypeInv, SampleInv, PublishMetricSnapshot
    PROVE  SampleInv'
<1>1. pc = "snapshot" /\ baselines' = Kept /\ UNCHANGED <<now, buckets, ticks, born>>
    BY DEF PublishMetricSnapshot
<1>2. ~Starting
    BY <1>1 DEF Starting
<1>3. ASSUME NEW p \in Endpoints
      PROVE  Samples(p)' + Cardinality(Waiting(p)') + Cardinality(Due(p)')
                 <= Sec(now)' - Sec(born)'
  <2>1. /\ Due(p)' = Due(p) /\ Waiting(p)' = Waiting(p)
        /\ Sec(now)' = Sec(now) /\ Sec(born)' = Sec(born)
      BY <1>1 DEF Due, Waiting, Sec
  <2>2. Samples(p)' \in {0, Samples(p)}
      BY <1>1 DEF Samples, Kept
  <2>3. /\ Samples(p) + Cardinality(Waiting(p)) + Cardinality(Due(p)) <= Sec(now) - Sec(born)
        /\ IsFiniteSet(ticks)
      BY <1>2 DEF SampleInv
  <2>4. /\ Samples(p) \in Nat /\ Cardinality(Due(p)) \in Nat
        /\ Cardinality(Waiting(p)) \in Nat /\ Sec(now) \in Nat /\ Sec(born) \in Nat
      BY <2>3, SampleTypes
  <2>. QED
      BY <2>1, <2>2, <2>3, <2>4
<1>. QED
    BY <1>1, <1>2, <1>3 DEF SampleInv

LEMMA SampleStep == TypeInv /\ SampleInv /\ [Next]_vars => SampleInv'
<1>. SUFFICES ASSUME TypeInv, SampleInv, [Next]_vars PROVE SampleInv'
    OBVIOUS
<1>1. CASE UNCHANGED vars
    BY <1>1, SampleFrame DEF vars, scoring, history, Starting
<1>2. CASE Start \/ DropAck
    BY <1>2, SampleFrame DEF Start, DropAck, scoring, history, Starting
<1>3. CASE Crash
    BY <1>3 DEF Crash, SampleInv, Starting
<1>4. CASE \E c \in Contents : Emit(c)
    BY <1>4, SampleFrame DEF Emit, scoring, history, Starting
<1>5. CASE Read \/ Scan \/ Match \/ Publish \/ Ack \/ ScoreDone
    BY <1>5, SampleFrame DEF Read, Scan, Match, Publish, Ack, ScoreDone, scoring, history,
                             Starting
<1>. QED
    BY <1>1, <1>2, <1>3, <1>4, <1>5, SampleTick, SampleDrop, SampleRecord, SampleTickWindow,
       SampleScore, SampleSnapshot DEF Next

\* However fast the loop of run turns, score_rps sees at most one sample of an
\* endpoint for each completed second since the start: OneSamplePerSecond.
THEOREM OneSamplePerSecondCorrect == Spec => []OneSamplePerSecond
<1>1. Spec => [](TypeInv /\ SampleInv)
    BY TypeInit, TypeStep, SampleInit, SampleStep, PTL DEF Spec
<1>2. TypeInv /\ SampleInv => OneSamplePerSecond
  <2>1. SUFFICES ASSUME TypeInv, SampleInv, NEW p \in DOMAIN baselines
                 PROVE  baselines[p].samples + Cardinality({s \in ticks : s.endpoint = p})
                            <= Sec(now) - Sec(born)
      BY DEF OneSamplePerSecond
  <2>2. ~Starting /\ p \in Endpoints
      BY <2>1, Types DEF LocStart, ScoreTypes
  <2>3. /\ Samples(p) + Cardinality(Waiting(p)) + Cardinality(Due(p)) <= Sec(now) - Sec(born)
        /\ IsFiniteSet(ticks)
      BY <2>1, <2>2 DEF SampleInv
  <2>4. /\ Samples(p) \in Nat /\ Cardinality(Due(p)) \in Nat
        /\ Cardinality(Waiting(p)) \in Nat /\ Sec(now) \in Nat /\ Sec(born) \in Nat
      BY <2>1, <2>3, SampleTypes
  <2>5. Samples(p) + Cardinality(Waiting(p)) <= Sec(now) - Sec(born)
      BY <2>3, <2>4
  <2>. QED
      BY <2>5 DEF Samples, Waiting
<1>. QED
    BY <1>1, <1>2, PTL

=============================================================================
