---------------------------- MODULE RateLimiter ----------------------------
(***************************************************************************)
(* Rate limiting of one (tenant, route) key: the calls of                  *)
(* enforce_rate_limit on several gateway replicas, the sliding-window      *)
(* script they run in Redis, and the in-memory limiter each replica falls  *)
(* back to when Redis does not answer.                                     *)
(*                                                                         *)
(* A request is one call that found a policy.  The sorted set of the key   *)
(* is the set log of requests; the score of a request is what its          *)
(* replica's clock showed when check_rate_limit read it, which is before   *)
(* the round trips to Redis.  Redis data survives a restart (appendonly),  *)
(* its script cache does not.                                              *)
(***************************************************************************)
EXTENDS Integers, FiniteSets

CONSTANTS
    Requests,            \* the calls of enforce_rate_limit
    Replicas,            \* the gateway replicas
    Offset,              \* Offset[p]: replica p's clock minus true time
    Skew,                \* bound on the offsets
    Limits,              \* the rate_limit_rps values in force
    MaxLimit,            \* the largest of them
    WINDOW,              \* rate_limit_window_s
    Delay,               \* longest that a call waits for Redis: the socket timeouts
    FAIL_OPEN,           \* settings.rate_limit_fail_open
    FALLBACK_MULTIPLIER,
    EVICT_IDLE,          \* _EVICT_IDLE_S
    MaxTime              \* bound: the last instant

ASSUME ConstantsAssumption ==
    /\ IsFiniteSet(Requests)
    /\ Skew \in Nat
    /\ Offset \in [Replicas -> Int]
    /\ \A p \in Replicas : -Skew <= Offset[p] /\ Offset[p] <= Skew
    /\ MaxLimit \in Nat
    /\ Limits \subseteq 0..MaxLimit
    /\ WINDOW \in Nat
    /\ Delay \in Nat
    /\ FAIL_OPEN \in BOOLEAN
    /\ FALLBACK_MULTIPLIER \in Nat
    /\ EVICT_IDLE \in Nat
    /\ MaxTime \in Nat

VARIABLES
    now,        \* true time
    log,        \* members of the key's sorted set
    expireAt,   \* when the key expires
    cached,     \* does Redis have the script in its cache?
    sent,       \* requests whose EVALSHA Redis has not executed yet
    known,      \* known[p]: is replica p's _script_sha set?
    pc,         \* where each request is
    home,       \* the replica that serves it
    lim,        \* the limit of its policy
    called,     \* when it read the clock
    verdict,    \* the script's answer to it
    ran,        \* when the script ran for it
    bucket,     \* bucket[p]: requests in replica p's _buckets[key]
    lastSeen,   \* lastSeen[p]: _last_seen[key], -1 when absent
    decided     \* when in_memory_check ran for it

redis == <<log, expireAt, cached>>
call == <<home, lim, called>>
answer == <<verdict, ran>>
fallback == <<bucket, lastSeen, decided>>
vars == <<now, redis, sent, known, pc, call, answer, fallback>>

\* Waiting for SCRIPT LOAD or for EVALSHA, the first time or after NOSCRIPT.
Loading == {"load", "reload"}
Evaluating == {"eval", "retry"}
Waiting == Loading \cup Evaluating
Outcomes == {"allowed", "blocked", "fallback_allowed", "fallback_blocked", "unavailable"}

Clock(p, t) == t + Offset[p]
Score(r) == Clock(home[r], called[r])

TypeOK ==
    /\ now \in 0..MaxTime
    /\ log \subseteq Requests
    /\ expireAt \in Nat
    /\ cached \in BOOLEAN
    /\ sent \subseteq Requests
    /\ known \in [Replicas -> BOOLEAN]
    /\ pc \in [Requests -> {"new"} \cup Waiting \cup Outcomes]
    /\ home \in [Requests -> Replicas]
    /\ lim \in [Requests -> 0..MaxLimit]
    /\ called \in [Requests -> Nat]
    /\ verdict \in [Requests -> {"none", "allowed", "blocked"}]
    /\ ran \in [Requests -> Nat]
    /\ bucket \in [Replicas -> SUBSET Requests]
    /\ lastSeen \in [Replicas -> Nat \cup {-1}]
    /\ decided \in [Requests -> Nat]

Init ==
    /\ now = 0
    /\ log = {} /\ expireAt = 0
    /\ cached = FALSE /\ sent = {}
    /\ known = [p \in Replicas |-> FALSE]
    /\ pc = [r \in Requests |-> "new"]
    /\ home \in [Requests -> Replicas]
    /\ lim \in [Requests -> Limits]
    /\ called = [r \in Requests |-> 0]
    /\ verdict = [r \in Requests |-> "none"]
    /\ ran = [r \in Requests |-> 0]
    /\ bucket = [p \in Replicas |-> {}]
    /\ lastSeen = [p \in Replicas |-> -1]
    /\ decided = [r \in Requests |-> 0]

-----------------------------------------------------------------------------
(* Time and Redis.                                                          *)

\* A call that has waited Delay must hear from Redis or give up.
Tick ==
    /\ now < MaxTime
    /\ \A r \in Requests : pc[r] \in Waiting => now < called[r] + Delay
    /\ now' = now + 1
    /\ UNCHANGED <<redis, sent, known, pc, call, answer, fallback>>

ScriptFlush ==
    /\ cached
    /\ cached' = FALSE
    /\ UNCHANGED <<now, log, expireAt, sent, known, pc, call, answer, fallback>>

\* A restart also loses the commands that were not executed.
RedisRestart ==
    /\ cached' = FALSE
    /\ sent' = {}
    /\ UNCHANGED <<now, log, expireAt, known, pc, call, answer, fallback>>

\* The members of the key that Redis has not expired.
LiveLog == IF now >= expireAt THEN {} ELSE log

\* Mutant: the window is passed in seconds where the script expects ms.
InWindowSeconds(r) == {x \in LiveLog : Score(x) > Score(r) - 1}

\* Mutant: no ZREMRANGEBYSCORE, only the expiry of the key.
InWindowUnpurged(r) == LiveLog

\* What ZREMRANGEBYSCORE keeps.
InWindow(r) == {x \in LiveLog : Score(x) > Score(r) - WINDOW}

\* A rejected call leaves no trace in the log.
LogOfRejected(r) == InWindow(r)

\* sliding_window.lua, one atomic step whenever Redis gets to it, be it after
\* the caller has given up.
RunScript(r) ==
    /\ r \in sent
    /\ cached
    /\ sent' = sent \ {r}
    /\ ran' = [ran EXCEPT ![r] = now]
    /\ IF Cardinality(InWindow(r)) < lim[r]
         THEN /\ log' = InWindow(r) \cup {r}
              /\ expireAt' = now + WINDOW
              /\ verdict' = [verdict EXCEPT ![r] = "allowed"]
         ELSE /\ log' = LogOfRejected(r)
              /\ verdict' = [verdict EXCEPT ![r] = "blocked"]
              /\ UNCHANGED expireAt
    /\ UNCHANGED <<now, cached, known, pc, call, fallback>>

-----------------------------------------------------------------------------
(* in_memory_check and the handler of RedisError.                           *)

\* Mutant: a key is evicted as soon as it is idle.
FreshEvictedEarly(p) ==
    {x \in bucket[p] : /\ now - lastSeen[p] <= 0
                       /\ decided[x] > now - WINDOW}

\* _evict_stale, then the times of the key that are within the window.
Fresh(p) ==
    {x \in bucket[p] : /\ now - lastSeen[p] <= EVICT_IDLE
                       /\ decided[x] > now - WINDOW}

InMemoryCheck(r) ==
    LET p == home[r]
        admit == Cardinality(Fresh(p)) < lim[r] * FALLBACK_MULTIPLIER
    IN  /\ lastSeen' = [lastSeen EXCEPT ![p] = now]
        /\ bucket' = [bucket EXCEPT ![p] = IF admit THEN Fresh(p) \cup {r} ELSE Fresh(p)]
        /\ decided' = [decided EXCEPT ![r] = now]
        /\ pc' = [pc EXCEPT ![r] = IF admit THEN "fallback_allowed" ELSE "fallback_blocked"]

\* except RedisError: fail open or fail closed.
OnRedisError(r) ==
    \/ /\ FAIL_OPEN
       /\ InMemoryCheck(r)
    \/ /\ ~FAIL_OPEN
       /\ pc' = [pc EXCEPT ![r] = "unavailable"]
       /\ UNCHANGED fallback

-----------------------------------------------------------------------------
(* check_rate_limit.                                                        *)

\* The clock is read first; the script is loaded if this replica never did.
Call(r) ==
    /\ pc[r] = "new"
    /\ called' = [called EXCEPT ![r] = now]
    /\ IF known[home[r]]
         THEN pc' = [pc EXCEPT ![r] = "eval"] /\ sent' = sent \cup {r}
         ELSE pc' = [pc EXCEPT ![r] = "load"] /\ UNCHANGED sent
    /\ UNCHANGED <<now, redis, known, home, lim, answer, fallback>>

LoadScript(r) ==
    /\ pc[r] \in Loading
    /\ cached' = TRUE
    /\ known' = [known EXCEPT ![home[r]] = TRUE]
    /\ pc' = [pc EXCEPT ![r] = IF pc[r] = "load" THEN "eval" ELSE "retry"]
    /\ sent' = sent \cup {r}
    /\ UNCHANGED <<now, log, expireAt, call, answer, fallback>>

\* NOSCRIPT: reload and retry once; the second time it is a RedisError.
NoScript(r) ==
    /\ r \in sent
    /\ ~cached
    /\ sent' = sent \ {r}
    /\ \/ /\ pc[r] = "eval"
          /\ pc' = [pc EXCEPT ![r] = "reload"]
          /\ UNCHANGED fallback
       \/ pc[r] = "retry" /\ OnRedisError(r)
       \/ pc[r] \notin Evaluating /\ UNCHANGED <<pc, fallback>>
    /\ UNCHANGED <<now, redis, known, call, answer>>

\* Mutant: the answer is used before it has arrived.
ReceiveEarly(r) ==
    /\ pc[r] \in Evaluating
    /\ pc' = [pc EXCEPT ![r] = verdict[r]]
    /\ UNCHANGED <<now, redis, sent, known, call, answer, fallback>>

Receive(r) ==
    /\ pc[r] \in Evaluating
    /\ verdict[r] # "none"
    /\ pc' = [pc EXCEPT ![r] = verdict[r]]
    /\ UNCHANGED <<now, redis, sent, known, call, answer, fallback>>

\* No connection, or no answer within the socket timeout.  What was sent may
\* still be executed.
GiveUp(r) ==
    /\ pc[r] \in Waiting
    /\ OnRedisError(r)
    /\ UNCHANGED <<now, redis, sent, known, call, answer>>

Next ==
    \/ Tick
    \/ ScriptFlush
    \/ RedisRestart
    \/ \E r \in Requests :
        \/ Call(r) \/ LoadScript(r) \/ RunScript(r)
        \/ NoScript(r) \/ Receive(r) \/ GiveUp(r)

Spec == Init /\ [][Next]_vars

-----------------------------------------------------------------------------
(* Properties.                                                              *)

\* Requests that the script let through, or will when its answer arrives.
Granted(r) == verdict[r] = "allowed" /\ pc[r] \in Evaluating \cup {"allowed"}

\* The interval over which the limit holds in true time: a score may be off by
\* the skew of two clocks and older than the script's run by the delay.
Guaranteed == WINDOW - Delay - 2 * Skew

GrantedIn(from, to) == {r \in Requests : Granted(r) /\ from < ran[r] /\ ran[r] <= to}

\* The limiter never over-admits in any interval of that length, whatever the
\* order in which the scripts of delayed calls run, across clocks, expiry of
\* the key, NOSCRIPT retries and scripts whose callers gave up.
SlidingWindow ==
    \A t \in 0..MaxTime :
        Cardinality(GrantedIn(t - Guaranteed, t)) <= MaxLimit

\* A call is blocked only when as many calls as its limit were let through
\* in the stretched window before it: rejected calls use up nothing, and no
\* skewed or late score locks the key for longer.
NoFalseBlock ==
    \A r \in Requests : pc[r] = "blocked" =>
        Cardinality({x \in Requests :
                        /\ verdict[x] = "allowed"
                        /\ ran[r] - (WINDOW + Delay + 2 * Skew) < ran[x]
                        /\ ran[x] <= ran[r]}) >= lim[r]

FallbackIn(p, from, to) ==
    {r \in Requests : /\ pc[r] = "fallback_allowed" /\ home[r] = p
                      /\ from < decided[r] /\ decided[r] <= to}

\* While Redis is away each replica lets through at most ten times the limit
\* per window, provided that eviction waits for at least a window.
FallbackCeiling ==
    WINDOW <= EVICT_IDLE =>
        \A p \in Replicas, t \in 0..MaxTime :
            Cardinality(FallbackIn(p, t - WINDOW, t)) <= MaxLimit * FALLBACK_MULTIPLIER

=============================================================================
