------------------------- MODULE RateLimiterProofs -------------------------
(***************************************************************************)
(* Proofs about RateLimiter, for any finite set of requests, any replicas, *)
(* clocks, limits, window and delay.                                       *)
(***************************************************************************)
EXTENDS RateLimiter, FiniteSetTheorems, TLAPS

-----------------------------------------------------------------------------
(* Type correctness.                                                        *)

LEMMA TypeInit == Init => TypeOK
<1>. SUFFICES ASSUME Init PROVE TypeOK
    OBVIOUS
<1>. USE ConstantsAssumption DEF Init
<1>1. /\ now \in 0..MaxTime /\ expireAt \in Nat
      /\ log \subseteq Requests /\ sent \subseteq Requests
    OBVIOUS
<1>2. cached \in BOOLEAN /\ known \in [Replicas -> BOOLEAN]
    BY Zenon
<1>3. pc \in [Requests -> {"new"} \cup Waiting \cup Outcomes]
    OBVIOUS
<1>4. home \in [Requests -> Replicas] /\ lim \in [Requests -> 0..MaxLimit]
    OBVIOUS
<1>5. /\ called \in [Requests -> Nat] /\ ran \in [Requests -> Nat]
      /\ decided \in [Requests -> Nat]
      /\ verdict \in [Requests -> {"none", "allowed", "blocked"}]
    OBVIOUS
<1>6. bucket \in [Replicas -> SUBSET Requests] /\ lastSeen \in [Replicas -> Nat \cup {-1}]
    OBVIOUS
<1>. QED
    BY <1>1, <1>2, <1>3, <1>4, <1>5, <1>6 DEF TypeOK

\* The fallback keeps the types of what it changes.
LEMMA OnRedisErrorType ==
    ASSUME TypeOK, NEW r \in Requests, OnRedisError(r)
    PROVE  /\ pc' \in [Requests -> {"new"} \cup Waiting \cup Outcomes]
           /\ bucket' \in [Replicas -> SUBSET Requests]
           /\ lastSeen' \in [Replicas -> Nat \cup {-1}]
           /\ decided' \in [Requests -> Nat]
<1>1. CASE InMemoryCheck(r)
  <2>1. home[r] \in Replicas /\ Fresh(home[r]) \subseteq Requests
      BY DEF TypeOK, Fresh
  <2>2. now \in Nat
      BY ConstantsAssumption DEF TypeOK
  <2>3. \E b \in BOOLEAN :
          /\ bucket' = [bucket EXCEPT ![home[r]] = IF b THEN Fresh(home[r]) \cup {r}
                                                   ELSE Fresh(home[r])]
          /\ pc' = [pc EXCEPT ![r] = IF b THEN "fallback_allowed" ELSE "fallback_blocked"]
    <3>. DEFINE admit == Cardinality(Fresh(home[r])) < lim[r] * FALLBACK_MULTIPLIER
    <3>1. /\ bucket' = [bucket EXCEPT ![home[r]] = IF admit THEN Fresh(home[r]) \cup {r}
                                                   ELSE Fresh(home[r])]
          /\ pc' = [pc EXCEPT ![r] = IF admit THEN "fallback_allowed" ELSE "fallback_blocked"]
        BY <1>1 DEF InMemoryCheck
    <3>. QED
        BY <3>1
  <2>4. /\ lastSeen' = [lastSeen EXCEPT ![home[r]] = now]
        /\ decided' = [decided EXCEPT ![r] = now]
      BY <1>1 DEF InMemoryCheck
  <2>5. /\ bucket' \in [Replicas -> SUBSET Requests]
        /\ pc' \in [Requests -> {"new"} \cup Waiting \cup Outcomes]
    <3>1. PICK b \in BOOLEAN :
            /\ bucket' = [bucket EXCEPT ![home[r]] = IF b THEN Fresh(home[r]) \cup {r}
                                                     ELSE Fresh(home[r])]
            /\ pc' = [pc EXCEPT ![r] = IF b THEN "fallback_allowed" ELSE "fallback_blocked"]
        BY <2>3
    <3>2. CASE b
        BY <2>1, <3>1, <3>2 DEF TypeOK, Outcomes
    <3>3. CASE ~b
        BY <2>1, <3>1, <3>3 DEF TypeOK, Outcomes
    <3>. QED
        BY <3>2, <3>3
  <2>6. lastSeen' \in [Replicas -> Nat \cup {-1}] /\ decided' \in [Requests -> Nat]
      BY <2>1, <2>2, <2>4 DEF TypeOK
  <2>. QED
      BY <2>5, <2>6
<1>2. CASE pc' = [pc EXCEPT ![r] = "unavailable"] /\ UNCHANGED fallback
    BY <1>2 DEF TypeOK, fallback, Outcomes
<1>. QED
    BY <1>1, <1>2 DEF OnRedisError

LEMMA TypeStep == TypeOK /\ [Next]_vars => TypeOK'
<1>. SUFFICES ASSUME TypeOK, [Next]_vars PROVE TypeOK'
    OBVIOUS
<1>. USE ConstantsAssumption
<1>1. CASE Tick
    BY <1>1 DEF Tick, TypeOK, redis, call, answer, fallback
<1>2. CASE ScriptFlush \/ RedisRestart
    BY <1>2 DEF ScriptFlush, RedisRestart, TypeOK, call, answer, fallback
<1>3. ASSUME NEW r \in Requests, Call(r) PROVE TypeOK'
    BY <1>3 DEF Call, TypeOK, redis, answer, fallback, Waiting, Evaluating, Loading
<1>4. ASSUME NEW r \in Requests, LoadScript(r) PROVE TypeOK'
    BY <1>4 DEF LoadScript, TypeOK, call, answer, fallback, Waiting, Evaluating
<1>5. ASSUME NEW r \in Requests, RunScript(r) PROVE TypeOK'
  <2>1. InWindow(r) \subseteq Requests
      BY DEF InWindow, LiveLog, TypeOK
  <2>2. /\ log' \subseteq Requests /\ expireAt' \in Nat
        /\ verdict' \in [Requests -> {"none", "allowed", "blocked"}]
      BY <1>5, <2>1 DEF RunScript, LogOfRejected, TypeOK
  <2>3. sent' \subseteq Requests /\ ran' \in [Requests -> Nat]
      BY <1>5 DEF RunScript, TypeOK
  <2>. QED
      BY <1>5, <2>2, <2>3 DEF RunScript, TypeOK, call, fallback
<1>6. ASSUME NEW r \in Requests, NoScript(r) PROVE TypeOK'
  <2>1. \/ pc' \in {pc, [pc EXCEPT ![r] = "reload"]} /\ UNCHANGED fallback
        \/ OnRedisError(r)
      BY <1>6 DEF NoScript
  <2>2. /\ pc' \in [Requests -> {"new"} \cup Waiting \cup Outcomes]
        /\ bucket' \in [Replicas -> SUBSET Requests]
        /\ lastSeen' \in [Replicas -> Nat \cup {-1}]
        /\ decided' \in [Requests -> Nat]
      BY <2>1, OnRedisErrorType DEF TypeOK, fallback, Waiting, Loading
  <2>3. UNCHANGED <<now, redis, known, call, answer>> /\ sent' \subseteq sent
      BY <1>6 DEF NoScript
  <2>. QED
      BY <2>2, <2>3 DEF TypeOK, redis, call, answer
<1>7. ASSUME NEW r \in Requests, Receive(r) PROVE TypeOK'
    BY <1>7 DEF Receive, TypeOK, redis, call, answer, fallback, Outcomes
<1>8. ASSUME NEW r \in Requests, GiveUp(r) PROVE TypeOK'
  <2>1. OnRedisError(r) /\ UNCHANGED <<now, redis, sent, known, call, answer>>
      BY <1>8 DEF GiveUp
  <2>. QED
      BY <2>1, OnRedisErrorType DEF TypeOK, redis, call, answer
<1>9. CASE UNCHANGED vars
    BY <1>9 DEF TypeOK, vars, redis, call, answer, fallback
<1>. QED
    BY <1>1, <1>2, <1>3, <1>4, <1>5, <1>6, <1>7, <1>8, <1>9 DEF Next

\* Every variable keeps its type: no call ends with an answer that is none.
THEOREM TypeCorrect == Spec => []TypeOK
<1>. QED
    BY TypeInit, TypeStep, PTL DEF Spec

-----------------------------------------------------------------------------
(* The sliding window.                                                      *)

\* Where a call is in time: a waiting one is not older than Delay, and the
\* script runs for it at most once.
TimeInv ==
    \A r \in Requests :
        /\ called[r] <= now
        /\ pc[r] \in Waiting => now <= called[r] + Delay
        /\ pc[r] \in {"new"} \cup Loading => r \notin sent /\ verdict[r] = "none"
        /\ r \in sent => verdict[r] = "none"
        /\ verdict[r] # "none" => called[r] <= ran[r] /\ ran[r] <= now
        /\ pc[r] \in {"allowed", "blocked"} => verdict[r] = pc[r]
        /\ verdict[r] # "none" /\ pc[r] \in Evaluating \cup {"allowed", "blocked"}
               => ran[r] <= called[r] + Delay

\* The log holds calls that the script let through, no more than the limit.
LogInv ==
    /\ \A r \in log : verdict[r] = "allowed"
    /\ Cardinality(log) <= MaxLimit

\* A call let through within the guaranteed interval is still in the log.
RetainInv ==
    \A r \in Requests : Granted(r) /\ ran[r] > now - Guaranteed =>
        r \in log /\ expireAt >= ran[r] + WINDOW

WindowInv ==
    \A t \in Int : Cardinality(GrantedIn(t - Guaranteed, t)) <= MaxLimit

\* The calls let through in the stretched window before r was blocked.
Before(r) ==
    {x \in Requests : /\ verdict[x] = "allowed"
                      /\ ran[r] - (WINDOW + Delay + 2 * Skew) < ran[x]
                      /\ ran[x] <= ran[r]}

BlockInv ==
    \A r \in Requests :
        verdict[r] = "blocked" /\ ran[r] <= called[r] + Delay
            => Cardinality(Before(r)) >= lim[r]

SafeInv == TypeOK /\ TimeInv /\ LogInv /\ RetainInv /\ WindowInv /\ BlockInv

\* A set of requests is finite, and no larger than a set that contains it.
LEMMA RequestsFinite ==
    ASSUME NEW S \in SUBSET Requests, NEW T \in SUBSET S
    PROVE  /\ IsFiniteSet(S) /\ Cardinality(S) \in Nat
           /\ Cardinality(T) \in Nat /\ Cardinality(T) <= Cardinality(S)
<1>1. IsFiniteSet(S)
    BY ConstantsAssumption, FS_Subset
<1>2. IsFiniteSet(T) /\ Cardinality(T) <= Cardinality(S)
    BY <1>1, FS_Subset
<1>. QED
    BY <1>1, <1>2, FS_CardinalityType

LEMMA SafeInit == Init => SafeInv
<1>. SUFFICES ASSUME Init PROVE SafeInv
    OBVIOUS
<1>. USE ConstantsAssumption
<1>1. TypeOK
    BY TypeInit
<1>2. \A r \in Requests : verdict[r] = "none" /\ ~Granted(r)
    BY DEF Init, Granted
<1>3. TimeInv /\ RetainInv /\ BlockInv
    BY <1>2 DEF Init, TimeInv, RetainInv, BlockInv, Waiting, Loading, Evaluating
<1>4. LogInv
    BY FS_EmptySet DEF Init, LogInv
<1>5. WindowInv
  <2>. SUFFICES ASSUME NEW t \in Int
                PROVE  Cardinality(GrantedIn(t - Guaranteed, t)) <= MaxLimit
      BY DEF WindowInv
  <2>1. GrantedIn(t - Guaranteed, t) = {}
      BY <1>2 DEF GrantedIn
  <2>2. Cardinality(GrantedIn(t - Guaranteed, t)) = 0
      BY <2>1, FS_EmptySet, Zenon
  <2>. QED
      BY <2>2, SMT
<1>. QED
    BY <1>1, <1>3, <1>4, <1>5 DEF SafeInv

\* A step that runs no script keeps what is said about the log.
LEMMA FrameStep ==
    ASSUME SafeInv, TypeOK', UNCHANGED <<log, expireAt, verdict, ran, lim>>,
           now <= now',
           \A r \in Requests : Granted(r)' => Granted(r),
           \A r \in Requests : verdict[r] = "blocked" => called'[r] = called[r]
    PROVE  LogInv' /\ RetainInv' /\ WindowInv' /\ BlockInv'
<1>. USE ConstantsAssumption
<1>1. LogInv'
    BY DEF SafeInv, LogInv
<1>2. RetainInv'
  <2>1. \A r \in Requests : ran[r] > now' - Guaranteed => ran[r] > now - Guaranteed
      BY DEF SafeInv, TypeOK, Guaranteed
  <2>. QED
      BY <2>1 DEF SafeInv, RetainInv, Guaranteed
<1>3. WindowInv'
  <2>. SUFFICES ASSUME NEW t \in Int
                PROVE  Cardinality(GrantedIn(t - Guaranteed, t)') <= MaxLimit
      BY DEF WindowInv
  <2>1. GrantedIn(t - Guaranteed, t)' \subseteq GrantedIn(t - Guaranteed, t)
      BY DEF GrantedIn, Guaranteed
  <2>2. GrantedIn(t - Guaranteed, t) \subseteq Requests
      BY DEF GrantedIn
  <2>3. Cardinality(GrantedIn(t - Guaranteed, t)) <= MaxLimit
      BY DEF SafeInv, WindowInv
  <2>. HIDE DEF GrantedIn
  <2>. QED
      BY <2>1, <2>2, <2>3, RequestsFinite
<1>4. BlockInv'
  <2>1. \A r \in Requests : Before(r)' = Before(r)
      BY DEF Before
  <2>. QED
      BY <2>1 DEF SafeInv, BlockInv
<1>. QED
    BY <1>1, <1>2, <1>3, <1>4

\* What the script finds and leaves in the log when it runs for r.
LEMMA ScriptFacts ==
    ASSUME SafeInv, NEW r \in Requests, r \in sent
    PROVE  /\ InWindow(r) \subseteq log /\ InWindow(r) \subseteq Requests
           /\ \A x \in Requests : Granted(x) /\ ran[x] > now - Guaranteed => x \in InWindow(r)
           /\ now <= called[r] + Delay =>
                \A x \in InWindow(r) : /\ now - (WINDOW + Delay + 2 * Skew) < ran[x]
                                       /\ ran[x] <= now
<1>. USE ConstantsAssumption
<1>1. InWindow(r) \subseteq log /\ log \subseteq Requests
    BY DEF InWindow, LiveLog, SafeInv, TypeOK
<1>2. \A x \in Requests : /\ called[x] \in Nat /\ ran[x] \in Nat
                          /\ Offset[home[x]] \in Int
                          /\ -Skew <= Offset[home[x]] /\ Offset[home[x]] <= Skew
    BY DEF SafeInv, TypeOK
<1>3. now \in Nat /\ expireAt \in Nat /\ called[r] <= now
    BY DEF SafeInv, TypeOK, TimeInv
<1>4. ASSUME NEW x \in Requests, Granted(x), ran[x] > now - Guaranteed
      PROVE  x \in InWindow(r)
  <2>1. x \in log /\ expireAt >= ran[x] + WINDOW
      BY <1>4 DEF SafeInv, RetainInv
  <2>2. x \in LiveLog
      BY <1>2, <1>3, <1>4, <2>1 DEF LiveLog, Guaranteed
  <2>3. ran[x] <= called[x] + Delay
      BY <1>4 DEF SafeInv, TimeInv, Granted
  <2>4. called[x] + Offset[home[x]] > called[r] + Offset[home[r]] - WINDOW
      BY <1>2, <1>3, <1>4, <2>3 DEF Guaranteed
  <2>5. Score(x) > Score(r) - WINDOW
      BY <1>2, <2>4 DEF Score, Clock
  <2>. QED
      BY <2>2, <2>5, Zenon DEF InWindow
<1>5. ASSUME now <= called[r] + Delay, NEW x \in InWindow(r)
      PROVE  now - (WINDOW + Delay + 2 * Skew) < ran[x] /\ ran[x] <= now
  <2>1. x \in Requests /\ verdict[x] = "allowed"
      BY <1>1, <1>5 DEF SafeInv, LogInv
  <2>2. called[x] <= ran[x] /\ ran[x] <= now
      BY <2>1 DEF SafeInv, TimeInv
  <2>3. called[x] + Offset[home[x]] > called[r] + Offset[home[r]] - WINDOW
    <3>1. Score(x) > Score(r) - WINDOW
        BY <1>5, Zenon DEF InWindow
    <3>. QED
        BY <1>2, <2>1, <3>1 DEF Score, Clock
  <2>. QED
      BY <1>2, <1>3, <1>5, <2>1, <2>2, <2>3
<1>. QED
    BY <1>1, <1>4, <1>5

\* What a run of the script changes.
LEMMA ScriptEffect ==
    ASSUME TypeOK, NEW r \in Requests, RunScript(r)
    PROVE  /\ r \in sent /\ sent' = sent \ {r}
           /\ ran'[r] = now
           /\ \A x \in Requests \ {r} : ran'[x] = ran[x] /\ verdict'[x] = verdict[x]
           /\ UNCHANGED <<now, pc, home, lim, called, cached, known, bucket, lastSeen, decided>>
           /\ \/ /\ Cardinality(InWindow(r)) < lim[r]
                 /\ log' = InWindow(r) \cup {r}
                 /\ expireAt' = now + WINDOW
                 /\ verdict'[r] = "allowed"
              \/ /\ ~(Cardinality(InWindow(r)) < lim[r])
                 /\ log' = InWindow(r)
                 /\ expireAt' = expireAt
                 /\ verdict'[r] = "blocked"
<1>1. /\ r \in sent /\ sent' = sent \ {r}
      /\ ran'[r] = now
      /\ \A x \in Requests \ {r} : ran'[x] = ran[x]
      /\ UNCHANGED <<now, pc, home, lim, called, cached, known, bucket, lastSeen, decided>>
    BY DEF RunScript, TypeOK, call, fallback
<1>2. CASE Cardinality(InWindow(r)) < lim[r]
  <2>1. /\ log' = InWindow(r) \cup {r}
        /\ expireAt' = now + WINDOW
        /\ verdict' = [verdict EXCEPT ![r] = "allowed"]
      BY <1>2 DEF RunScript
  <2>. QED
      BY <1>1, <1>2, <2>1 DEF TypeOK
<1>3. CASE ~(Cardinality(InWindow(r)) < lim[r])
  <2>1. /\ log' = InWindow(r)
        /\ expireAt' = expireAt
        /\ verdict' = [verdict EXCEPT ![r] = "blocked"]
      BY <1>3 DEF RunScript, LogOfRejected
  <2>. QED
      BY <1>1, <1>3, <2>1 DEF TypeOK
<1>. QED
    BY <1>2, <1>3

\* A run of the script keeps the invariant: what it retains of the log are all
\* the calls that count, so that its answer is right.
LEMMA ScriptStep ==
    ASSUME SafeInv, TypeOK', NEW r \in Requests, RunScript(r)
    PROVE  TimeInv' /\ LogInv' /\ RetainInv' /\ WindowInv' /\ BlockInv'
<1>. USE ConstantsAssumption
<1>. DEFINE G == InWindow(r)
            Allowed == /\ Cardinality(G) < lim[r]
                       /\ log' = G \cup {r}
                       /\ expireAt' = now + WINDOW
                       /\ verdict'[r] = "allowed"
            Blocked == /\ ~(Cardinality(G) < lim[r])
                       /\ log' = G
                       /\ expireAt' = expireAt
                       /\ verdict'[r] = "blocked"
<1>1. /\ r \in sent /\ sent' = sent \ {r}
      /\ ran'[r] = now
      /\ \A x \in Requests \ {r} : ran'[x] = ran[x] /\ verdict'[x] = verdict[x]
      /\ UNCHANGED <<now, pc, home, lim, called>>
      /\ Allowed \/ Blocked
    BY ScriptEffect DEF SafeInv
<1>2. /\ G \subseteq log /\ G \subseteq Requests
      /\ \A x \in Requests : Granted(x) /\ ran[x] > now - Guaranteed => x \in G
      /\ now <= called[r] + Delay =>
           \A x \in G : now - (WINDOW + Delay + 2 * Skew) < ran[x] /\ ran[x] <= now
    BY <1>1, ScriptFacts
<1>3. /\ now \in Nat /\ lim[r] \in Nat /\ lim[r] <= MaxLimit /\ expireAt \in Nat
      /\ \A x \in Requests : ran[x] \in Nat /\ called[x] \in Nat
      /\ Guaranteed \in Int
    BY DEF SafeInv, TypeOK, Guaranteed
<1>. HIDE DEF G
<1>4. /\ IsFiniteSet(G) /\ Cardinality(G) \in Nat /\ Cardinality(G) <= Cardinality(log)
      /\ Cardinality(log) <= MaxLimit /\ Cardinality(log) \in Nat
    BY <1>2, RequestsFinite DEF SafeInv, LogInv, TypeOK
<1>5. verdict[r] = "none" /\ called[r] <= now /\ r \notin G
    BY <1>1, <1>2 DEF SafeInv, TimeInv, LogInv
<1>6. TimeInv'
  <2>1. pc[r] \notin {"new"} \cup Loading
      BY <1>1 DEF SafeInv, TimeInv
  <2>2. pc[r] \notin {"allowed", "blocked"}
      BY <1>5 DEF SafeInv, TimeInv
  <2>3. pc[r] \in Waiting => now <= called[r] + Delay
      BY DEF SafeInv, TimeInv
  <2>4. ASSUME NEW x \in Requests
        PROVE  /\ called[x]' <= now'
               /\ pc[x]' \in Waiting => now' <= called[x]' + Delay
               /\ pc[x]' \in {"new"} \cup Loading => x \notin sent' /\ verdict[x]' = "none"
               /\ x \in sent' => verdict[x]' = "none"
               /\ verdict[x]' # "none" => called[x]' <= ran[x]' /\ ran[x]' <= now'
               /\ pc[x]' \in {"allowed", "blocked"} => verdict[x]' = pc[x]'
               /\ verdict[x]' # "none" /\ pc[x]' \in Evaluating \cup {"allowed", "blocked"}
                     => ran[x]' <= called[x]' + Delay
    <3>1. CASE x = r
        BY <1>1, <1>3, <1>5, <2>1, <2>2, <2>3, <3>1 DEF Waiting
    <3>2. CASE x # r
        BY <1>1, <3>2 DEF SafeInv, TimeInv
    <3>. QED
        BY <3>1, <3>2
  <2>. QED
      BY <2>4 DEF TimeInv
<1>7. LogInv'
  <2>1. \A x \in log' : verdict'[x] = "allowed"
      BY <1>1, <1>2, <1>5 DEF SafeInv, LogInv
  <2>2. CASE Allowed
    <3>1. Cardinality(G \cup {r}) = Cardinality(G) + 1
        BY <1>4, <1>5, FS_AddElement
    <3>2. Cardinality(G) + 1 <= MaxLimit
        BY <1>3, <1>4, <2>2
    <3>. QED
        BY <2>1, <2>2, <3>1, <3>2 DEF LogInv
  <2>3. CASE Blocked
      BY <1>4, <2>1, <2>3 DEF LogInv
  <2>. QED
      BY <1>1, <2>2, <2>3
<1>8. RetainInv'
  <2>1. ASSUME NEW x \in Requests, Granted(x)', ran'[x] > now - Guaranteed
        PROVE  x \in log' /\ expireAt' >= ran'[x] + WINDOW
    <3>1. CASE x = r
        BY <1>1, <1>3, <2>1, <3>1 DEF Granted
    <3>2. CASE x # r
      <4>1. Granted(x) /\ ran'[x] = ran[x]
          BY <1>1, <2>1, <3>2 DEF Granted
      <4>2. x \in G /\ expireAt >= ran[x] + WINDOW
          BY <1>2, <2>1, <4>1 DEF SafeInv, RetainInv
      <4>3. ran[x] <= now
          BY <4>1 DEF Granted, SafeInv, TimeInv
      <4>. QED
          BY <1>1, <1>3, <4>1, <4>2, <4>3
    <3>. QED
        BY <3>1, <3>2
  <2>. QED
      BY <1>1, <2>1 DEF RetainInv, Guaranteed
<1>9. WindowInv'
  <2>. SUFFICES ASSUME NEW t \in Int
                PROVE  Cardinality(GrantedIn(t - Guaranteed, t)') <= MaxLimit
      BY DEF WindowInv
  <2>. DEFINE A == GrantedIn(t - Guaranteed, t)
              B == GrantedIn(t - Guaranteed, t)'
  <2>1. /\ \A x \in Requests : x \in A <=> Granted(x) /\ t - Guaranteed < ran[x] /\ ran[x] <= t
        /\ \A x \in Requests : x \in B <=> Granted(x)' /\ t - Guaranteed < ran'[x] /\ ran'[x] <= t
        /\ A \subseteq Requests /\ B \subseteq Requests
      BY DEF GrantedIn, Guaranteed
  <2>2. Cardinality(A) <= MaxLimit
      BY DEF SafeInv, WindowInv
  <2>. HIDE DEF A, B
  <2>3. \A x \in Requests \ {r} : Granted(x)' => Granted(x) /\ ran'[x] = ran[x]
      BY <1>1 DEF Granted
  <2>4. CASE r \notin B
    <3>1. B \subseteq A
        BY <2>1, <2>3, <2>4
    <3>. QED
        BY <2>1, <2>2, <3>1, RequestsFinite DEF B
  <2>5. CASE r \in B
    <3>1. Allowed
        BY <1>1, <2>1, <2>5 DEF Granted
    <3>2. now <= t
        BY <1>1, <2>1, <2>5
    <3>3. B \subseteq log'
      <4>. SUFFICES ASSUME NEW x \in B, x # r PROVE x \in G
          BY <3>1
      <4>1. x \in Requests /\ Granted(x) /\ t - Guaranteed < ran[x]
          BY <2>1, <2>3
      <4>2. ran[x] > now - Guaranteed
          BY <1>3, <3>2, <4>1
      <4>. QED
          BY <1>2, <4>1, <4>2
    <3>4. log' \subseteq Requests
        BY DEF TypeOK
    <3>. QED
        BY <1>7, <3>3, <3>4, RequestsFinite DEF LogInv, B
  <2>. QED
      BY <2>4, <2>5
<1>10. BlockInv'
  <2>1. ASSUME NEW x \in Requests, verdict'[x] = "blocked", ran'[x] <= called[x] + Delay
        PROVE  Cardinality(Before(x)') >= lim[x]
    <3>1. Before(x)' \subseteq Requests
        BY DEF Before
    <3>2. \E S \in SUBSET Before(x)' : Cardinality(S) >= lim[x]
      <4>1. CASE x = r
        <5>1. Blocked
            BY <1>1, <2>1, <4>1
        <5>2. G \subseteq Before(x)'
          <6>. SUFFICES ASSUME NEW y \in G PROVE y \in Before(x)'
              OBVIOUS
          <6>1. y \in Requests /\ y # r /\ verdict'[y] = "allowed" /\ ran'[y] = ran[y]
              BY <1>1, <1>2, <1>5 DEF SafeInv, LogInv
          <6>2. now - (WINDOW + Delay + 2 * Skew) < ran[y] /\ ran[y] <= now
              BY <1>1, <1>2, <2>1, <4>1
          <6>. QED
              BY <1>1, <4>1, <6>1, <6>2 DEF Before
        <5>3. Cardinality(G) >= lim[x]
            BY <1>3, <1>4, <4>1, <5>1
        <5>. QED
            BY <5>2, <5>3
      <4>2. CASE x # r
        <5>1. verdict[x] = "blocked" /\ ran'[x] = ran[x]
            BY <1>1, <2>1, <4>2
        <5>2. Cardinality(Before(x)) >= lim[x]
            BY <2>1, <5>1 DEF SafeInv, BlockInv
        <5>3. Before(x) \subseteq Before(x)'
          <6>. SUFFICES ASSUME NEW y \in Before(x) PROVE y \in Before(x)'
              OBVIOUS
          <6>1. /\ y \in Requests /\ verdict[y] = "allowed"
                /\ ran[x] - (WINDOW + Delay + 2 * Skew) < ran[y] /\ ran[y] <= ran[x]
              BY DEF Before
          <6>2. verdict'[y] = "allowed" /\ ran'[y] = ran[y]
              BY <1>1, <1>5, <6>1
          <6>. QED
              BY <5>1, <6>1, <6>2 DEF Before
        <5>. QED
            BY <5>2, <5>3
      <4>. QED
          BY <4>1, <4>2
    <3>3. PICK S \in SUBSET Before(x)' : Cardinality(S) >= lim[x]
        BY <3>2
    <3>4. lim[x] \in Nat
        BY DEF SafeInv, TypeOK
    <3>. QED
        BY <3>1, <3>3, <3>4, RequestsFinite
  <2>. QED
      BY <1>1, <2>1 DEF BlockInv
<1>. QED
    BY <1>6, <1>7, <1>8, <1>9, <1>10

\* The handler of RedisError ends a call.
LEMMA OnRedisErrorFacts ==
    ASSUME TypeOK, NEW r \in Requests, OnRedisError(r)
    PROVE  /\ pc'[r] \in {"fallback_allowed", "fallback_blocked", "unavailable"}
           /\ \A x \in Requests \ {r} : pc'[x] = pc[x]
<1>1. \E v \in {"fallback_allowed", "fallback_blocked", "unavailable"} :
        pc' = [pc EXCEPT ![r] = v]
    BY DEF OnRedisError, InMemoryCheck
<1>. QED
    BY <1>1 DEF TypeOK

LEMMA SafeStep == SafeInv /\ [Next]_vars => SafeInv'
<1>. SUFFICES ASSUME SafeInv, [Next]_vars PROVE SafeInv'
    OBVIOUS
<1>. USE ConstantsAssumption
<1>1. TypeOK'
    BY TypeStep DEF SafeInv
<1>2. /\ now \in Nat
      /\ \A x \in Requests : called[x] \in Nat /\ ran[x] \in Nat
    BY DEF SafeInv, TypeOK
<1>. DEFINE Quiet == /\ UNCHANGED <<log, expireAt, verdict, ran, lim>>
                     /\ now <= now'
                     /\ \A x \in Requests : Granted(x)' => Granted(x)
                     /\ \A x \in Requests : verdict[x] = "blocked" => called'[x] = called[x]
<1>3. TimeInv' /\ Quiet => SafeInv'
    BY <1>1, FrameStep DEF SafeInv
<1>4. CASE Tick
  <2>1. UNCHANGED <<redis, sent, known, pc, call, answer, fallback>> /\ now' = now + 1
      BY <1>4 DEF Tick
  <2>2. \A x \in Requests : pc[x] \in Waiting => now < called[x] + Delay
      BY <1>4 DEF Tick
  <2>3. TimeInv'
      BY <1>2, <2>1, <2>2 DEF SafeInv, TimeInv, call, answer
  <2>4. Quiet
      BY <1>2, <2>1 DEF Granted, redis, call, answer
  <2>. QED
      BY <1>3, <2>3, <2>4
<1>5. CASE ScriptFlush \/ RedisRestart
  <2>1. /\ UNCHANGED <<now, log, expireAt, known, pc, call, answer, fallback>>
        /\ sent' \subseteq sent
      BY <1>5 DEF ScriptFlush, RedisRestart
  <2>2. TimeInv'
      BY <2>1 DEF SafeInv, TimeInv, call, answer
  <2>3. Quiet
      BY <1>2, <2>1 DEF Granted, call, answer
  <2>. QED
      BY <1>3, <2>2, <2>3
<1>6. ASSUME NEW r \in Requests, Call(r) PROVE SafeInv'
  <2>1. /\ pc[r] = "new" /\ pc'[r] \in {"eval", "load"}
        /\ pc'[r] = "load" => sent' = sent
        /\ sent' \in {sent, sent \cup {r}}
        /\ called'[r] = now
        /\ \A x \in Requests \ {r} : pc'[x] = pc[x] /\ called'[x] = called[x]
        /\ UNCHANGED <<now, log, expireAt, verdict, ran, lim>>
      BY <1>6 DEF Call, SafeInv, TypeOK, redis, answer
  <2>2. verdict[r] = "none" /\ r \notin sent
      BY <2>1 DEF SafeInv, TimeInv
  <2>3. TimeInv'
      BY <1>2, <2>1, <2>2 DEF SafeInv, TimeInv, Waiting, Loading, Evaluating
  <2>4. Quiet
      BY <1>2, <2>1, <2>2 DEF Granted
  <2>. QED
      BY <1>3, <2>3, <2>4
<1>7. ASSUME NEW r \in Requests, LoadScript(r) PROVE SafeInv'
  <2>1. /\ pc[r] \in Loading /\ pc'[r] \in Evaluating
        /\ sent' = sent \cup {r}
        /\ \A x \in Requests \ {r} : pc'[x] = pc[x]
        /\ UNCHANGED <<now, log, expireAt, verdict, ran, lim, called>>
      BY <1>7 DEF LoadScript, SafeInv, TypeOK, call, answer, Evaluating
  <2>2. verdict[r] = "none"
      BY <2>1 DEF SafeInv, TimeInv
  <2>3. TimeInv'
      BY <1>2, <2>1, <2>2 DEF SafeInv, TimeInv, Waiting, Loading, Evaluating
  <2>4. Quiet
      BY <1>2, <2>1, <2>2 DEF Granted
  <2>. QED
      BY <1>3, <2>3, <2>4
<1>8. ASSUME NEW r \in Requests, RunScript(r) PROVE SafeInv'
    BY <1>1, <1>8, ScriptStep DEF SafeInv
<1>9. ASSUME NEW r \in Requests, NoScript(r) PROVE SafeInv'
  <2>1. /\ r \in sent /\ sent' = sent \ {r}
        /\ UNCHANGED <<now, log, expireAt, verdict, ran, lim, called>>
      BY <1>9 DEF NoScript, redis, call, answer
  <2>2. /\ \A x \in Requests \ {r} : pc'[x] = pc[x]
        /\ pc'[r] \in {pc[r], "reload", "fallback_allowed", "fallback_blocked", "unavailable"}
        /\ pc'[r] = "reload" => pc[r] \in {"eval", "reload"}
    <3>1. CASE pc[r] = "eval" /\ pc' = [pc EXCEPT ![r] = "reload"]
        BY <3>1 DEF SafeInv, TypeOK
    <3>2. CASE OnRedisError(r)
        BY <3>2, OnRedisErrorFacts DEF SafeInv
    <3>3. CASE UNCHANGED pc
        BY <3>3
    <3>. QED
        BY <1>9, <3>1, <3>2, <3>3 DEF NoScript
  <2>3. verdict[r] = "none"
      BY <2>1 DEF SafeInv, TimeInv
  <2>4. TimeInv'
    <3>1. ASSUME NEW x \in Requests
          PROVE  /\ called[x]' <= now'
                 /\ pc[x]' \in Waiting => now' <= called[x]' + Delay
                 /\ pc[x]' \in {"new"} \cup Loading => x \notin sent' /\ verdict[x]' = "none"
                 /\ x \in sent' => verdict[x]' = "none"
                 /\ verdict[x]' # "none" => called[x]' <= ran[x]' /\ ran[x]' <= now'
                 /\ pc[x]' \in {"allowed", "blocked"} => verdict[x]' = pc[x]'
                 /\ verdict[x]' # "none" /\ pc[x]' \in Evaluating \cup {"allowed", "blocked"}
                       => ran[x]' <= called[x]' + Delay
      <4>1. CASE x = r
          BY <1>2, <2>1, <2>2, <2>3, <4>1 DEF SafeInv, TimeInv, Waiting, Loading, Evaluating
      <4>2. CASE x # r
          BY <1>2, <2>1, <2>2, <4>2 DEF SafeInv, TimeInv
      <4>. QED
          BY <4>1, <4>2
    <3>. QED
        BY <3>1 DEF TimeInv
  <2>5. Quiet
    <3>1. \A x \in Requests : Granted(x)' => Granted(x)
      <4>. SUFFICES ASSUME NEW x \in Requests, Granted(x)' PROVE Granted(x)
          OBVIOUS
      <4>1. x # r /\ pc'[x] = pc[x]
          BY <2>1, <2>2, <2>3 DEF Granted
      <4>. QED
          BY <2>1, <4>1 DEF Granted
    <3>. QED
        BY <1>2, <2>1, <3>1
  <2>. QED
      BY <1>3, <2>4, <2>5
<1>10. ASSUME NEW r \in Requests, Receive(r) PROVE SafeInv'
  <2>1. /\ pc[r] \in Evaluating /\ verdict[r] # "none" /\ pc'[r] = verdict[r]
        /\ \A x \in Requests \ {r} : pc'[x] = pc[x]
        /\ UNCHANGED <<now, log, expireAt, verdict, ran, lim, called, sent>>
      BY <1>10 DEF Receive, SafeInv, TypeOK, redis, call, answer
  <2>2. verdict[r] \in {"allowed", "blocked"}
      BY <2>1 DEF SafeInv, TypeOK
  <2>3. TimeInv'
      BY <1>2, <2>1, <2>2 DEF SafeInv, TimeInv, Waiting, Loading, Evaluating
  <2>4. Quiet
      BY <1>2, <2>1, <2>2 DEF Granted
  <2>. QED
      BY <1>3, <2>3, <2>4
<1>11. ASSUME NEW r \in Requests, GiveUp(r) PROVE SafeInv'
  <2>1. /\ \A x \in Requests \ {r} : pc'[x] = pc[x]
        /\ pc'[r] \in {"fallback_allowed", "fallback_blocked", "unavailable"}
        /\ UNCHANGED <<now, log, expireAt, verdict, ran, lim, called, sent>>
      BY <1>11, OnRedisErrorFacts DEF GiveUp, SafeInv, redis, call, answer
  <2>2. TimeInv'
      BY <1>2, <2>1 DEF SafeInv, TimeInv, Waiting, Loading, Evaluating
  <2>3. Quiet
    <3>1. \A x \in Requests : Granted(x)' => Granted(x)
      <4>. SUFFICES ASSUME NEW x \in Requests, Granted(x)' PROVE Granted(x)
          OBVIOUS
      <4>1. x # r /\ pc'[x] = pc[x]
          BY <2>1 DEF Granted, Evaluating
      <4>. QED
          BY <2>1, <4>1 DEF Granted
    <3>2. UNCHANGED <<log, expireAt, verdict, ran, lim, called, now>>
        BY <2>1
    <3>. QED
        BY <1>2, <3>1, <3>2
  <2>. QED
      BY <1>3, <2>2, <2>3
<1>12. CASE UNCHANGED vars
  <2>1. /\ UNCHANGED <<now, log, expireAt, verdict, ran, lim, called, sent, pc>>
      BY <1>12 DEF vars, redis, call, answer
  <2>2. TimeInv'
      BY <2>1 DEF SafeInv, TimeInv
  <2>3. Quiet
      BY <1>2, <2>1 DEF Granted
  <2>. QED
      BY <1>3, <2>2, <2>3
<1>. QED
    BY <1>4, <1>5, <1>6, <1>7, <1>8, <1>9, <1>10, <1>11, <1>12 DEF Next

LEMMA SafeCorrect == Spec => []SafeInv
<1>. QED
    BY SafeInit, SafeStep, PTL DEF Spec

\* Over any interval of the guaranteed length no more calls are let through
\* than the limit, for any number of replicas, requests and skew.
THEOREM SlidingWindowCorrect == Spec => []SlidingWindow
<1>1. SafeInv => SlidingWindow
    BY ConstantsAssumption DEF SafeInv, WindowInv, SlidingWindow
<1>. QED
    BY <1>1, SafeCorrect, PTL

\* A call is blocked only for as many calls as its limit in the window before.
THEOREM NoFalseBlockCorrect == Spec => []NoFalseBlock
<1>1. SafeInv => NoFalseBlock
  <2>. SUFFICES ASSUME SafeInv, NEW r \in Requests, pc[r] = "blocked"
                PROVE  Cardinality(Before(r)) >= lim[r]
      BY DEF NoFalseBlock, Before
  <2>1. verdict[r] = "blocked" /\ ran[r] <= called[r] + Delay
      BY DEF SafeInv, TimeInv
  <2>. QED
      BY <2>1 DEF SafeInv, BlockInv
<1>. QED
    BY <1>1, SafeCorrect, PTL

-----------------------------------------------------------------------------
(* The fallback limiter.                                                    *)

Ceiling == MaxLimit * FALLBACK_MULTIPLIER

\* A call that a replica let through within the last window is in its bucket:
\* the key was not idle for long enough to be evicted since.
BucketInv ==
    /\ \A p \in Replicas : lastSeen[p] <= now /\ Cardinality(bucket[p]) <= Ceiling
    /\ \A r \in Requests : pc[r] = "fallback_allowed" =>
          /\ decided[r] <= lastSeen[home[r]]
          /\ decided[r] > now - WINDOW => r \in bucket[home[r]]

CeilingInv ==
    \A p \in Replicas, t \in Int : Cardinality(FallbackIn(p, t - WINDOW, t)) <= Ceiling

FallInv == TypeOK /\ BucketInv /\ CeilingInv

\* No policy multiplies to more than the ceiling.
LEMMA CeilingFacts ==
    /\ Ceiling \in Nat
    /\ \A n \in 0..MaxLimit : n * FALLBACK_MULTIPLIER <= Ceiling
                              /\ n * FALLBACK_MULTIPLIER \in Nat
<1>1. ASSUME NEW m \in Nat, NEW k \in Nat, NEW n \in 0..m
      PROVE  n * k <= m * k /\ n * k \in Nat /\ m * k \in Nat
  <2>1. PICK d \in Nat : m = n + d
    <3>1. m - n \in Nat /\ m = n + (m - n)
        OBVIOUS
    <3>. QED
        BY <3>1
  <2>2. m * k = n * k + d * k
      BY <2>1
  <2>3. n * k \in Nat /\ d * k \in Nat
      OBVIOUS
  <2>. QED
      BY <2>2, <2>3
<1>. QED
    BY <1>1, ConstantsAssumption DEF Ceiling

LEMMA FallInit == Init => FallInv
<1>. SUFFICES ASSUME Init PROVE FallInv
    OBVIOUS
<1>. USE ConstantsAssumption
<1>1. TypeOK
    BY TypeInit
<1>2. Cardinality({}) = 0
    BY FS_EmptySet
<1>3. \A r \in Requests : pc[r] # "fallback_allowed"
    BY DEF Init
<1>4. BucketInv
    BY <1>2, <1>3, CeilingFacts DEF Init, BucketInv
<1>5. CeilingInv
  <2>. SUFFICES ASSUME NEW p \in Replicas, NEW t \in Int
                PROVE  Cardinality(FallbackIn(p, t - WINDOW, t)) <= Ceiling
      BY DEF CeilingInv
  <2>1. FallbackIn(p, t - WINDOW, t) = {}
      BY <1>3 DEF FallbackIn
  <2>2. Cardinality(FallbackIn(p, t - WINDOW, t)) = 0
      BY <1>2, <2>1, Zenon
  <2>. QED
      BY <2>2, CeilingFacts, SMT
<1>. QED
    BY <1>1, <1>4, <1>5 DEF FallInv

\* The types of the fallback's state, as arithmetic needs them.
LEMMA FallTypes ==
    ASSUME TypeOK
    PROVE  /\ now \in Int
           /\ \A r \in Requests : decided[r] \in Int /\ home[r] \in Replicas
           /\ \A r \in Requests : lim[r] \in 0..MaxLimit
           /\ \A p \in Replicas : lastSeen[p] \in Int /\ bucket[p] \subseteq Requests
<1>1. now \in Int
    BY ConstantsAssumption DEF TypeOK
<1>2. \A r \in Requests : decided[r] \in Int /\ home[r] \in Replicas
    BY DEF TypeOK
<1>3. \A r \in Requests : lim[r] \in 0..MaxLimit
    BY DEF TypeOK
<1>4. \A p \in Replicas : lastSeen[p] \in Int
    BY DEF TypeOK
<1>5. \A p \in Replicas : bucket[p] \subseteq Requests
    BY DEF TypeOK
<1>. QED
    BY <1>1, <1>2, <1>3, <1>4, <1>5

\* A step that decides no call in memory keeps the invariant.
LEMMA FallFrame ==
    ASSUME FallInv, TypeOK', UNCHANGED <<bucket, lastSeen, decided, home>>, now <= now',
           \A r \in Requests : pc'[r] = "fallback_allowed" => pc[r] = "fallback_allowed"
    PROVE  FallInv'
<1>. USE ConstantsAssumption
<1>1. /\ now \in Int
      /\ \A r \in Requests : decided[r] \in Int /\ home[r] \in Replicas
      /\ \A p \in Replicas : lastSeen[p] \in Int
    BY FallTypes DEF FallInv
<1>4. now' \in Int
    BY DEF TypeOK
<1>2. BucketInv'
    BY <1>1, <1>4, CeilingFacts DEF FallInv, BucketInv, Ceiling
<1>3. CeilingInv'
  <2>. SUFFICES ASSUME NEW p \in Replicas, NEW t \in Int
                PROVE  Cardinality(FallbackIn(p, t - WINDOW, t)') <= Ceiling
      BY DEF CeilingInv, Ceiling
  <2>1. FallbackIn(p, t - WINDOW, t)' \subseteq FallbackIn(p, t - WINDOW, t)
      BY DEF FallbackIn
  <2>2. FallbackIn(p, t - WINDOW, t) \subseteq Requests
      BY DEF FallbackIn
  <2>3. Cardinality(FallbackIn(p, t - WINDOW, t)) <= Ceiling
      BY DEF FallInv, CeilingInv
  <2>. HIDE DEF FallbackIn
  <2>. QED
      BY <2>1, <2>2, <2>3, CeilingFacts, RequestsFinite
<1>. QED
    BY <1>2, <1>3 DEF FallInv

\* What in_memory_check changes.
LEMMA InMemoryEffect ==
    ASSUME TypeOK, NEW r \in Requests, InMemoryCheck(r)
    PROVE  /\ lastSeen'[home[r]] = now
           /\ decided'[r] = now
           /\ \A x \in Requests \ {r} : decided'[x] = decided[x] /\ pc'[x] = pc[x]
           /\ \A q \in Replicas \ {home[r]} : lastSeen'[q] = lastSeen[q] /\ bucket'[q] = bucket[q]
           /\ \/ /\ Cardinality(Fresh(home[r])) < lim[r] * FALLBACK_MULTIPLIER
                 /\ bucket'[home[r]] = Fresh(home[r]) \cup {r}
                 /\ pc'[r] = "fallback_allowed"
              \/ /\ bucket'[home[r]] = Fresh(home[r])
                 /\ pc'[r] = "fallback_blocked"
<1>. DEFINE admit == Cardinality(Fresh(home[r])) < lim[r] * FALLBACK_MULTIPLIER
<1>1. /\ lastSeen' = [lastSeen EXCEPT ![home[r]] = now]
      /\ decided' = [decided EXCEPT ![r] = now]
      /\ bucket' = [bucket EXCEPT ![home[r]] = IF admit THEN Fresh(home[r]) \cup {r}
                                               ELSE Fresh(home[r])]
      /\ pc' = [pc EXCEPT ![r] = IF admit THEN "fallback_allowed" ELSE "fallback_blocked"]
    BY DEF InMemoryCheck
<1>. HIDE DEF admit
<1>2. /\ lastSeen'[home[r]] = now
      /\ decided'[r] = now
      /\ \A x \in Requests \ {r} : decided'[x] = decided[x] /\ pc'[x] = pc[x]
      /\ \A q \in Replicas \ {home[r]} : lastSeen'[q] = lastSeen[q] /\ bucket'[q] = bucket[q]
    BY <1>1 DEF TypeOK
<1>3. \/ admit /\ bucket'[home[r]] = Fresh(home[r]) \cup {r} /\ pc'[r] = "fallback_allowed"
      \/ bucket'[home[r]] = Fresh(home[r]) /\ pc'[r] = "fallback_blocked"
  <2>1. CASE admit
      BY <1>1, <2>1 DEF TypeOK
  <2>2. CASE ~admit
      BY <1>1, <2>2 DEF TypeOK
  <2>. QED
      BY <2>1, <2>2
<1>. QED
    BY <1>2, <1>3 DEF admit

\* The decision of in_memory_check keeps the invariant when a key is evicted
\* no sooner than its window ends.
LEMMA FallCheck ==
    ASSUME FallInv, TypeOK', NEW r \in Requests, InMemoryCheck(r), WINDOW <= EVICT_IDLE,
           pc[r] # "fallback_allowed", UNCHANGED <<now, home>>
    PROVE  FallInv'
<1>. USE ConstantsAssumption
<1>. DEFINE p == home[r]
            F == Fresh(home[r])
<1>1. /\ lastSeen'[p] = now /\ decided'[r] = now
      /\ \A x \in Requests \ {r} : decided'[x] = decided[x] /\ pc'[x] = pc[x]
      /\ \A q \in Replicas \ {p} : lastSeen'[q] = lastSeen[q] /\ bucket'[q] = bucket[q]
      /\ \/ /\ Cardinality(F) < lim[r] * FALLBACK_MULTIPLIER
            /\ bucket'[p] = F \cup {r}
            /\ pc'[r] = "fallback_allowed"
         \/ bucket'[p] = F /\ pc'[r] = "fallback_blocked"
    BY InMemoryEffect DEF FallInv
<1>2. /\ now \in Int /\ p \in Replicas /\ lim[r] \in 0..MaxLimit
      /\ \A x \in Requests : decided[x] \in Int /\ home[x] \in Replicas
      /\ \A q \in Replicas : /\ lastSeen[q] \in Int /\ bucket[q] \subseteq Requests
                             /\ bucket'[q] \subseteq Requests
  <2>1. \A q \in Replicas : bucket'[q] \subseteq Requests
      BY DEF TypeOK
  <2>. QED
      BY <2>1, FallTypes DEF FallInv
<1>3. F \subseteq bucket[p] /\ F \subseteq Requests
    BY <1>2 DEF Fresh
<1>4. \A x \in Requests : /\ pc[x] = "fallback_allowed" /\ home[x] = p
                          /\ decided[x] > now - WINDOW
                          => x \in F
  <2>. SUFFICES ASSUME NEW x \in Requests, pc[x] = "fallback_allowed", home[x] = p,
                       decided[x] > now - WINDOW
                PROVE  x \in F
      OBVIOUS
  <2>1. x \in bucket[p] /\ decided[x] <= lastSeen[p]
      BY DEF FallInv, BucketInv
  <2>2. now - lastSeen[p] <= EVICT_IDLE
      BY <1>2, <2>1
  <2>. QED
      BY <2>1, <2>2 DEF Fresh
<1>. HIDE DEF F
<1>5. Cardinality(bucket'[p]) <= Ceiling
  <2>1. IsFiniteSet(F) /\ Cardinality(F) \in Nat
      BY <1>3, RequestsFinite
  <2>2. Cardinality(F) <= Ceiling
    <3>1. Cardinality(bucket[p]) <= Ceiling
        BY <1>2 DEF FallInv, BucketInv
    <3>2. Cardinality(F) <= Cardinality(bucket[p]) /\ Cardinality(bucket[p]) \in Nat
        BY <1>2, <1>3, RequestsFinite
    <3>. QED
        BY <2>1, <3>1, <3>2, CeilingFacts
  <2>3. ASSUME Cardinality(F) < lim[r] * FALLBACK_MULTIPLIER
        PROVE  Cardinality(F \cup {r}) <= Ceiling
    <3>1. Cardinality(F \cup {r}) \in {Cardinality(F), Cardinality(F) + 1}
        BY <2>1, FS_AddElement
    <3>2. lim[r] * FALLBACK_MULTIPLIER <= Ceiling /\ lim[r] * FALLBACK_MULTIPLIER \in Nat
        BY <1>2, CeilingFacts
    <3>. DEFINE k == lim[r] * FALLBACK_MULTIPLIER
    <3>. HIDE DEF k
    <3>3. Cardinality(F) < k /\ k <= Ceiling /\ k \in Nat
        BY <2>3, <3>2 DEF k
    <3>. QED
        BY <2>1, <2>2, <3>1, <3>3, CeilingFacts
  <2>. QED
      BY <1>1, <2>2, <2>3
<1>6. BucketInv'
  <2>1. \A q \in Replicas : lastSeen'[q] <= now' /\ Cardinality(bucket'[q]) <= Ceiling
      BY <1>1, <1>2, <1>5 DEF FallInv, BucketInv
  <2>2. ASSUME NEW x \in Requests, pc'[x] = "fallback_allowed"
        PROVE  /\ decided'[x] <= lastSeen'[home[x]]
               /\ decided'[x] > now - WINDOW => x \in bucket'[home[x]]
    <3>1. CASE x = r
        BY <1>1, <1>2, <2>2, <3>1
    <3>2. CASE x # r
      <4>1. /\ pc[x] = "fallback_allowed" /\ decided'[x] = decided[x]
            /\ decided[x] <= lastSeen[home[x]] /\ lastSeen[home[x]] <= now
            /\ decided[x] > now - WINDOW => x \in bucket[home[x]]
          BY <1>1, <1>2, <2>2, <3>2 DEF FallInv, BucketInv
      <4>2. CASE home[x] = p
          BY <1>1, <1>2, <1>4, <4>1, <4>2
      <4>3. CASE home[x] # p
          BY <1>1, <1>2, <4>1, <4>3
      <4>. QED
          BY <4>2, <4>3
    <3>. QED
        BY <3>1, <3>2
  <2>. QED
      BY <2>1, <2>2 DEF BucketInv, Ceiling
<1>7. CeilingInv'
  <2>. SUFFICES ASSUME NEW q \in Replicas, NEW t \in Int
                PROVE  Cardinality(FallbackIn(q, t - WINDOW, t)') <= Ceiling
      BY DEF CeilingInv, Ceiling
  <2>. DEFINE A == FallbackIn(q, t - WINDOW, t)
              B == FallbackIn(q, t - WINDOW, t)'
  <2>1. /\ A \subseteq Requests /\ B \subseteq Requests
        /\ \A x \in Requests : x \in A <=> /\ pc[x] = "fallback_allowed" /\ home[x] = q
                                           /\ t - WINDOW < decided[x] /\ decided[x] <= t
        /\ \A x \in Requests : x \in B <=> /\ pc'[x] = "fallback_allowed" /\ home[x] = q
                                           /\ t - WINDOW < decided'[x] /\ decided'[x] <= t
      BY DEF FallbackIn
  <2>2. Cardinality(A) <= Ceiling
      BY DEF FallInv, CeilingInv
  <2>. HIDE DEF A, B
  <2>3. CASE r \notin B
    <3>1. B \subseteq A
        BY <1>1, <2>1, <2>3
    <3>2. Cardinality(B) <= Cardinality(A) /\ Cardinality(A) \in Nat /\ Cardinality(B) \in Nat
        BY <2>1, <3>1, RequestsFinite
    <3>. QED
        BY <2>2, <3>2, CeilingFacts DEF B
  <2>4. CASE r \in B
    <3>1. now <= t /\ q = p /\ bucket'[p] = F \cup {r}
        BY <1>1, <2>1, <2>4
    <3>2. B \subseteq bucket'[p]
      <4>. SUFFICES ASSUME NEW x \in B, x # r PROVE x \in F
          BY <3>1
      <4>1. /\ x \in Requests /\ pc[x] = "fallback_allowed" /\ home[x] = p
            /\ t - WINDOW < decided[x]
          BY <1>1, <2>1, <3>1
      <4>2. decided[x] > now - WINDOW
          BY <1>2, <3>1, <4>1
      <4>. QED
          BY <1>4, <4>1, <4>2
    <3>3. /\ Cardinality(B) <= Cardinality(bucket'[p])
          /\ Cardinality(B) \in Nat /\ Cardinality(bucket'[p]) \in Nat
        BY <1>2, <3>2, RequestsFinite
    <3>. QED
        BY <1>5, <3>3, CeilingFacts DEF B
  <2>. QED
      BY <2>3, <2>4
<1>. QED
    BY <1>6, <1>7 DEF FallInv

\* The handler of RedisError keeps the invariant.
LEMMA FallError ==
    ASSUME FallInv, TypeOK', NEW r \in Requests, OnRedisError(r), WINDOW <= EVICT_IDLE,
           pc[r] \in Waiting, UNCHANGED <<now, home>>
    PROVE  FallInv'
<1>1. pc[r] # "fallback_allowed"
    BY DEF Waiting, Loading, Evaluating
<1>2. CASE InMemoryCheck(r)
    BY <1>1, <1>2, FallCheck
<1>3. CASE pc' = [pc EXCEPT ![r] = "unavailable"] /\ UNCHANGED fallback
  <2>1. /\ UNCHANGED <<bucket, lastSeen, decided, home>> /\ now <= now'
        /\ \A x \in Requests : pc'[x] = "fallback_allowed" => pc[x] = "fallback_allowed"
      BY <1>3, ConstantsAssumption DEF FallInv, TypeOK, fallback
  <2>. QED
      BY <2>1, FallFrame
<1>. QED
    BY <1>2, <1>3 DEF OnRedisError

LEMMA FallStep ==
    ASSUME WINDOW <= EVICT_IDLE
    PROVE  FallInv /\ [Next]_vars => FallInv'
<1>. SUFFICES ASSUME FallInv, [Next]_vars PROVE FallInv'
    OBVIOUS
<1>1. TypeOK'
    BY TypeStep DEF FallInv
<1>2. now \in Nat
    BY ConstantsAssumption DEF FallInv, TypeOK
<1>. DEFINE Quiet == /\ UNCHANGED <<bucket, lastSeen, decided, home>> /\ now <= now'
                     /\ \A x \in Requests :
                            pc'[x] = "fallback_allowed" => pc[x] = "fallback_allowed"
<1>3. Quiet => FallInv'
    BY <1>1, FallFrame
<1>4. CASE Tick \/ ScriptFlush \/ RedisRestart \/ UNCHANGED vars
  <2>1. UNCHANGED <<pc, fallback, call>> /\ now' \in {now, now + 1}
      BY <1>4 DEF Tick, ScriptFlush, RedisRestart, vars
  <2>2. Quiet
      BY <1>2, <2>1 DEF fallback, call
  <2>. QED
      BY <1>3, <2>2
<1>5. ASSUME NEW r \in Requests, Call(r) \/ LoadScript(r) \/ RunScript(r) PROVE FallInv'
  <2>1. /\ UNCHANGED <<fallback, home, now>>
        /\ \/ UNCHANGED pc
           \/ \E v \in {"eval", "load", "retry"} : pc' = [pc EXCEPT ![r] = v]
      BY <1>5 DEF Call, LoadScript, RunScript, call
  <2>2. Quiet
      BY <1>2, <2>1 DEF fallback, FallInv, TypeOK
  <2>. QED
      BY <1>3, <2>2
<1>6. ASSUME NEW r \in Requests, NoScript(r) PROVE FallInv'
  <2>1. UNCHANGED <<home, now>>
      BY <1>6 DEF NoScript, call
  <2>2. CASE pc[r] = "retry" /\ OnRedisError(r)
      BY <1>1, <2>1, <2>2, FallError DEF Waiting, Evaluating
  <2>3. CASE pc' \in {pc, [pc EXCEPT ![r] = "reload"]} /\ UNCHANGED fallback
    <3>1. Quiet
        BY <1>2, <2>1, <2>3 DEF fallback, FallInv, TypeOK
    <3>. QED
        BY <1>3, <3>1
  <2>. QED
      BY <1>6, <2>2, <2>3 DEF NoScript
<1>7. ASSUME NEW r \in Requests, Receive(r) PROVE FallInv'
  <2>1. /\ UNCHANGED <<fallback, home, now>> /\ pc' = [pc EXCEPT ![r] = verdict[r]]
        /\ verdict[r] \in {"none", "allowed", "blocked"}
      BY <1>7 DEF Receive, call, FallInv, TypeOK
  <2>2. Quiet
      BY <1>2, <2>1 DEF fallback, FallInv, TypeOK
  <2>. QED
      BY <1>3, <2>2
<1>8. ASSUME NEW r \in Requests, GiveUp(r) PROVE FallInv'
  <2>1. pc[r] \in Waiting /\ OnRedisError(r) /\ UNCHANGED <<home, now>>
      BY <1>8 DEF GiveUp, call
  <2>. QED
      BY <1>1, <2>1, FallError
<1>. QED
    BY <1>4, <1>5, <1>6, <1>7, <1>8 DEF Next

\* While Redis is away a replica lets through at most the ceiling per window,
\* for any number of requests and any limits.
THEOREM FallbackCeilingCorrect == Spec => []FallbackCeiling
<1>1. CASE WINDOW <= EVICT_IDLE
  <2>1. FallInv /\ [Next]_vars => FallInv'
      BY <1>1, FallStep
  <2>2. FallInv => FallbackCeiling
      BY <1>1, ConstantsAssumption DEF FallInv, CeilingInv, FallbackCeiling, Ceiling
  <2>. QED
      BY <2>1, <2>2, FallInit, PTL DEF Spec
<1>2. CASE ~(WINDOW <= EVICT_IDLE)
  <2>1. FallbackCeiling
      BY <1>2 DEF FallbackCeiling
  <2>. QED
      BY <2>1, PTL
<1>. QED
    BY <1>1, <1>2

=============================================================================
