-------------------------- MODULE ReadThroughCache --------------------------
(***************************************************************************)
(* The Redis-cached, Postgres-backed lookups of the gateway: get_policy    *)
(* and get_tenant, which share their control flow and differ in the TTL.   *)
(*                                                                         *)
(* One database row answers the lookups of every key in Known (the literal *)
(* routes a policy's pattern matches, or the one API key of a tenant).     *)
(* Its value is its version, which goes up with every committed change.    *)
(* Every await of a lookup is a step boundary, so the row may change, and  *)
(* cache entries may go, between the SELECT and the SET.                   *)
(***************************************************************************)
EXTENDS Integers

CONSTANTS
    Keys,        \* the cache keys that are asked for
    Known,       \* those the row answers; the others have no row
    Slots,       \* request tasks: each serves one lookup after the other
    TTL,         \* CACHE_TTL_S
    Delay,       \* longest from the SELECT to the execution of its SET
    MaxVersion,  \* bound: the last version of the row
    MaxTime      \* bound: the last instant

ASSUME ConstantsAssumption ==
    /\ Known \subseteq Keys
    /\ TTL \in Nat \ {0}
    /\ Delay \in Nat
    /\ MaxVersion \in Nat \ {0}
    /\ MaxTime \in Nat

VARIABLES
    now,        \* the time
    version,    \* the committed version of the row
    since,      \* since[v]: when version v was committed
    cached,     \* cached[k]: the version cached under k, 0 for none
    expires,    \* expires[k]: when that entry expires
    pc,         \* where each lookup is
    key,        \* the key it looks up
    got,        \* the version it returned or will return, 0 for none
    at,         \* when that answer was read, from Redis or from Postgres
    late        \* SETs whose callers gave up, that Redis will still execute

row == <<version, since>>
entries == <<cached, expires>>
lookup == <<pc, key, got, at>>
vars == <<now, row, entries, lookup, late>>

Versions == 1..MaxVersion
LateSets == [key : Keys, ver : Versions, at : Nat]

TypeOK ==
    /\ now \in 0..MaxTime
    /\ version \in Versions
    /\ since \in [Versions -> Nat]
    /\ cached \in [Keys -> 0..version]
    /\ expires \in [Keys -> Nat]
    /\ pc \in [Slots -> {"idle", "fetch", "store"}]
    /\ key \in [Slots -> Keys]
    /\ got \in [Slots -> 0..version]
    /\ at \in [Slots -> Nat]
    /\ late \subseteq LateSets

Init ==
    /\ now = 0
    /\ version = 1
    /\ since = [v \in Versions |-> 0]
    /\ cached = [k \in Keys |-> 0]
    /\ expires = [k \in Keys |-> 0]
    /\ pc = [r \in Slots |-> "idle"]
    /\ key \in [Slots -> Keys]
    /\ got = [r \in Slots |-> 0]
    /\ at = [r \in Slots |-> 0]
    /\ late = {}

-----------------------------------------------------------------------------
(* Time, the row, and what others do to the cache.                          *)

\* What was read from Postgres reaches Redis within Delay, or never.
Tick ==
    /\ now < MaxTime
    /\ \A r \in Slots : pc[r] = "store" => now < at[r] + Delay
    /\ \A l \in late : now < l.at + Delay
    /\ now' = now + 1
    /\ UNCHANGED <<row, entries, lookup, late>>

\* A transaction that changes the row commits.
Commit ==
    /\ version < MaxVersion
    /\ version' = version + 1
    /\ since' = [since EXCEPT ![version + 1] = now]
    /\ UNCHANGED <<now, entries, lookup, late>>

\* DEL of some keys.
Evict(S) ==
    /\ cached' = [k \in Keys |-> IF k \in S THEN 0 ELSE cached[k]]
    /\ UNCHANGED <<now, row, expires, lookup, late>>

-----------------------------------------------------------------------------
(* get_policy and get_tenant.                                               *)

Live(k) == cached[k] # 0 /\ now < expires[k]

\* Mutant: a hit extends the life of the entry.
HitExtending(r, k) ==
    /\ pc[r] = "idle"
    /\ Live(k)
    /\ key' = [key EXCEPT ![r] = k]
    /\ got' = [got EXCEPT ![r] = cached[k]]
    /\ at' = [at EXCEPT ![r] = now]
    /\ expires' = [expires EXCEPT ![k] = now + TTL]
    /\ UNCHANGED <<now, row, cached, pc, late>>

\* The GET finds the key: its value is the answer.
Hit(r, k) ==
    /\ pc[r] = "idle"
    /\ Live(k)
    /\ key' = [key EXCEPT ![r] = k]
    /\ got' = [got EXCEPT ![r] = cached[k]]
    /\ at' = [at EXCEPT ![r] = now]
    /\ UNCHANGED <<now, row, entries, pc, late>>

\* The GET finds nothing, or fails with a RedisError whatever is cached.
Miss(r, k) ==
    /\ pc[r] = "idle"
    /\ key' = [key EXCEPT ![r] = k]
    /\ pc' = [pc EXCEPT ![r] = "fetch"]
    /\ got' = [got EXCEPT ![r] = 0]
    /\ UNCHANGED <<now, row, entries, at, late>>

\* Mutant: the absence of a row is cached too.
FetchCachingNone(r) ==
    /\ pc[r] = "fetch"
    /\ got' = [got EXCEPT ![r] = IF key[r] \in Known THEN version ELSE 0]
    /\ at' = [at EXCEPT ![r] = now]
    /\ pc' = [pc EXCEPT ![r] = "store"]
    /\ UNCHANGED <<now, row, entries, key, late>>

\* The SELECT.  No row: None, or a 401, without caching it.
Fetch(r) ==
    /\ pc[r] = "fetch"
    /\ got' = [got EXCEPT ![r] = IF key[r] \in Known THEN version ELSE 0]
    /\ at' = [at EXCEPT ![r] = now]
    /\ pc' = [pc EXCEPT ![r] = IF key[r] \in Known THEN "store" ELSE "idle"]
    /\ UNCHANGED <<now, row, entries, key, late>>

\* A database error fails the request.
FetchFails(r) ==
    /\ pc[r] = "fetch"
    /\ pc' = [pc EXCEPT ![r] = "idle"]
    /\ UNCHANGED <<now, row, entries, key, got, at, late>>

\* SET ... EX as Redis executes it.
Put(k, v) ==
    /\ cached' = [cached EXCEPT ![k] = v]
    /\ expires' = [expires EXCEPT ![k] = now + TTL]

Store(r) ==
    /\ pc[r] = "store"
    /\ Put(key[r], got[r])
    /\ pc' = [pc EXCEPT ![r] = "idle"]
    /\ UNCHANGED <<now, row, key, got, at, late>>

\* The SET fails; the caller ignores that, but after a timeout the command may
\* still be on its way.
StoreFails(r) ==
    /\ pc[r] = "store"
    /\ pc' = [pc EXCEPT ![r] = "idle"]
    /\ \/ UNCHANGED late
       \/ late' = late \cup {[key |-> key[r], ver |-> got[r], at |-> at[r]]}
    /\ UNCHANGED <<now, row, entries, key, got, at>>

StoreLate(l) ==
    /\ l \in late
    /\ Put(l.key, l.ver)
    /\ late' = late \ {l}
    /\ UNCHANGED <<now, row, lookup>>

Read(r) ==
    \/ \E k \in Keys : Hit(r, k) \/ Miss(r, k)
    \/ Fetch(r) \/ FetchFails(r)
    \/ Store(r) \/ StoreFails(r)

Next ==
    \/ Tick
    \/ Commit
    \/ \E S \in SUBSET Keys : Evict(S)
    \/ \E r \in Slots : Read(r)
    \/ \E l \in late : StoreLate(l)

Spec == Init /\ [][Next]_vars

-----------------------------------------------------------------------------
(* Properties.                                                              *)

\* The answer of a lookup was superseded less than the TTL plus the Delay
\* before it was read: neither a read between SELECT and SET, nor a SET that
\* outlives its caller, nor any number of hits keeps an old value for longer.
StalenessBound ==
    \A r \in Slots : got[r] \in 1..(version - 1) =>
        at[r] < since[got[r] + 1] + TTL + Delay

=============================================================================
