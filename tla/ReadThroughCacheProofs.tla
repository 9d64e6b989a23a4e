----------------------- MODULE ReadThroughCacheProofs -----------------------
(***************************************************************************)
(* Proofs about ReadThroughCache, for any keys, lookups, TTL and delay.    *)
(***************************************************************************)
EXTENDS ReadThroughCache, TLAPS

-----------------------------------------------------------------------------
(* Type correctness.                                                        *)

LEMMA TypeInit == Init => TypeOK
<1>. SUFFICES ASSUME Init PROVE TypeOK
    OBVIOUS
<1>. QED
    BY ConstantsAssumption DEF Init, TypeOK, Versions, LateSets

\* A slot that is about to store has something to store.
Answered == \A r \in Slots : pc[r] = "store" => got[r] # 0

TypeInv == TypeOK /\ Answered /\ \A l \in late : l.ver <= version

\* SET keeps the types of the entries.
LEMMA PutType ==
    ASSUME TypeOK, NEW k \in Keys, NEW v \in 1..version, Put(k, v)
    PROVE  cached' \in [Keys -> 0..version] /\ expires' \in [Keys -> Nat]
<1>1. now + TTL \in Nat
    BY ConstantsAssumption DEF TypeOK
<1>. QED
    BY <1>1 DEF Put, TypeOK

LEMMA TypeStep == TypeInv /\ [Next]_vars => TypeInv'
<1>. SUFFICES ASSUME TypeInv, [Next]_vars PROVE TypeInv'
    OBVIOUS
<1>. USE ConstantsAssumption DEF TypeInv, Answered
<1>0. now \in Nat
    BY DEF TypeOK
<1>1. CASE Tick
    BY <1>1 DEF Tick, TypeOK, row, entries, lookup
<1>2. CASE Commit
  <2>1. version' \in Versions /\ version <= version'
      BY <1>2 DEF Commit, TypeOK, Versions
  <2>2. since' \in [Versions -> Nat]
      BY <1>0, <1>2 DEF Commit, TypeOK
  <2>3. UNCHANGED <<now, cached, expires, pc, key, got, at, late>>
      BY <1>2 DEF Commit, entries, lookup
  <2>4. cached \in [Keys -> 0..version'] /\ got \in [Slots -> 0..version']
      BY <2>1 DEF TypeOK, Versions
  <2>5. \A l \in late : l.ver <= version'
      BY <2>1 DEF TypeOK, Versions, LateSets
  <2>. QED
      BY <2>1, <2>2, <2>3, <2>4, <2>5 DEF TypeOK
<1>3. ASSUME NEW S \in SUBSET Keys, Evict(S) PROVE TypeInv'
    BY <1>3 DEF Evict, TypeOK, row, lookup, Versions
<1>4. ASSUME NEW r \in Slots, NEW k \in Keys, Hit(r, k) \/ Miss(r, k) PROVE TypeInv'
  <2>1. CASE Hit(r, k)
      BY <1>0, <2>1 DEF Hit, TypeOK, row, entries, Versions
  <2>2. CASE Miss(r, k)
      BY <1>0, <2>2 DEF Miss, TypeOK, row, entries, Versions
  <2>. QED
      BY <1>4, <2>1, <2>2
<1>5. ASSUME NEW r \in Slots, Fetch(r) PROVE TypeInv'
  <2>1. UNCHANGED <<now, version, since, cached, expires, key, late>>
      BY <1>5 DEF Fetch, row, entries
  <2>2. got' \in [Slots -> 0..version] /\ at' \in [Slots -> Nat]
      BY <1>5 DEF Fetch, TypeOK, Versions
  <2>3. pc' \in [Slots -> {"idle", "fetch", "store"}]
      BY <1>5 DEF Fetch, TypeOK
  <2>4. Answered'
      BY <1>5, <2>2, <2>3 DEF Fetch, TypeOK, Versions
  <2>. QED
      BY <2>1, <2>2, <2>3, <2>4 DEF TypeOK
<1>6. ASSUME NEW r \in Slots, FetchFails(r) PROVE TypeInv'
    BY <1>6 DEF FetchFails, TypeOK, row, entries
<1>7. ASSUME NEW r \in Slots, Store(r) PROVE TypeInv'
  <2>1. got[r] \in 1..version /\ key[r] \in Keys
      BY <1>7 DEF Store, TypeOK, Versions
  <2>2. cached' \in [Keys -> 0..version] /\ expires' \in [Keys -> Nat]
      BY <1>7, <2>1, PutType DEF Store
  <2>. QED
      BY <1>7, <2>2 DEF Store, TypeOK, row
<1>8. ASSUME NEW r \in Slots, StoreFails(r) PROVE TypeInv'
  <2>1. [key |-> key[r], ver |-> got[r], at |-> at[r]] \in LateSets /\ got[r] <= version
      BY <1>8 DEF StoreFails, TypeOK, LateSets, Versions
  <2>2. late' \subseteq LateSets /\ \A l \in late' : l.ver <= version
      BY <1>8, <2>1 DEF StoreFails, TypeOK
  <2>. QED
      BY <1>8, <2>2 DEF StoreFails, TypeOK, row, entries
<1>9. ASSUME NEW l \in late, StoreLate(l) PROVE TypeInv'
  <2>1. l.ver \in 1..version /\ l.key \in Keys
      BY DEF TypeOK, LateSets, Versions
  <2>2. cached' \in [Keys -> 0..version] /\ expires' \in [Keys -> Nat]
      BY <1>9, <2>1, PutType DEF StoreLate
  <2>. QED
      BY <1>9, <2>2 DEF StoreLate, TypeOK, row, lookup
<1>10. CASE UNCHANGED vars
    BY <1>10 DEF TypeOK, vars, row, entries, lookup
<1>. QED
    BY <1>1, <1>2, <1>3, <1>4, <1>5, <1>6, <1>7, <1>8, <1>9, <1>10 DEF Next, Read

\* Every variable keeps its type: nothing is cached but committed versions,
\* and never the absence of a row.
THEOREM TypeCorrect == Spec => []TypeOK
<1>1. Init => TypeInv
    BY TypeInit DEF Init, TypeInv, Answered
<1>2. TypeInv => TypeOK
    BY DEF TypeInv
<1>. QED
    BY <1>1, <1>2, TypeStep, PTL DEF Spec

-----------------------------------------------------------------------------
(* Staleness.                                                               *)

\* An answer v that was read from Postgres at time t is stored in time, and
\* was current when it was read.
Current(v, t) == v < version => t <= since[v + 1]
InTime(t) == t <= now /\ now <= t + Delay

\* What is on its way to the cache.
SourceInv ==
    /\ \A r \in Slots : at[r] <= now
    /\ \A r \in Slots : pc[r] = "store" => InTime(at[r]) /\ Current(got[r], at[r])
    /\ \A l \in late : InTime(l.at) /\ Current(l.ver, l.at)

\* What is in the cache: an outdated entry expires in time.
EntryInv ==
    \A k \in Keys :
        /\ expires[k] <= now + TTL
        /\ cached[k] \in 1..(version - 1) =>
              expires[k] <= since[cached[k] + 1] + TTL + Delay

StaleInv == TypeInv /\ SourceInv /\ EntryInv /\ StalenessBound

\* The types, as arithmetic needs them.
LEMMA Types ==
    ASSUME TypeInv
    PROVE  /\ now \in Nat /\ version \in Nat \ {0} /\ version <= MaxVersion
           /\ \A v \in 1..MaxVersion : since[v] \in Nat
           /\ \A k \in Keys : cached[k] \in 0..version /\ expires[k] \in Nat
           /\ \A r \in Slots : got[r] \in 0..version /\ at[r] \in Nat /\ key[r] \in Keys
           /\ \A l \in late : l.ver \in 1..version /\ l.at \in Nat /\ l.key \in Keys
<1>. USE ConstantsAssumption
<1>1. now \in Nat /\ version \in Nat \ {0} /\ version <= MaxVersion
    BY DEF TypeInv, TypeOK, Versions
<1>2. \A v \in 1..MaxVersion : since[v] \in Nat
    BY DEF TypeInv, TypeOK, Versions
<1>3. \A k \in Keys : cached[k] \in 0..version /\ expires[k] \in Nat
    BY DEF TypeInv, TypeOK
<1>4. \A r \in Slots : got[r] \in 0..version /\ at[r] \in Nat /\ key[r] \in Keys
    BY DEF TypeInv, TypeOK
<1>5. \A l \in late : l.ver \in 1..version /\ l.at \in Nat /\ l.key \in Keys
    BY DEF TypeInv, TypeOK, LateSets, Versions
<1>. QED
    BY <1>1, <1>2, <1>3, <1>4, <1>5

LEMMA StaleInit == Init => StaleInv
<1>. SUFFICES ASSUME Init PROVE StaleInv
    OBVIOUS
<1>1. TypeInv
    BY TypeInit DEF Init, TypeInv, Answered
<1>2. SourceInv
    BY ConstantsAssumption DEF Init, SourceInv
<1>3. EntryInv /\ StalenessBound
    BY ConstantsAssumption DEF Init, EntryInv, StalenessBound
<1>. QED
    BY <1>1, <1>2, <1>3 DEF StaleInv

\* A SET of what was read in time keeps the entries in order.
LEMMA PutStep ==
    ASSUME StaleInv, NEW k \in Keys, NEW v \in 1..version, NEW t \in Nat,
           InTime(t), Current(v, t), Put(k, v), UNCHANGED <<now, row>>
    PROVE  EntryInv'
<1>. USE ConstantsAssumption
<1>1. /\ now \in Nat /\ version \in Nat \ {0} /\ version <= MaxVersion
      /\ \A u \in 1..MaxVersion : since[u] \in Nat
    BY Types DEF StaleInv
<1>2. /\ cached'[k] = v /\ expires'[k] = now + TTL
      /\ \A j \in Keys \ {k} : cached'[j] = cached[j] /\ expires'[j] = expires[j]
    BY DEF Put, StaleInv, TypeInv, TypeOK
<1>3. v < version => now + TTL <= since[v + 1] + TTL + Delay
  <2>. SUFFICES ASSUME v < version PROVE now + TTL <= since[v + 1] + TTL + Delay
      OBVIOUS
  <2>1. since[v + 1] \in Nat /\ t <= since[v + 1] /\ now <= t + Delay
      BY <1>1 DEF Current, InTime
  <2>. QED
      BY <1>1, <2>1
<1>4. ASSUME NEW j \in Keys
      PROVE  /\ expires'[j] <= now + TTL
             /\ cached'[j] \in 1..(version - 1) =>
                   expires'[j] <= since[cached'[j] + 1] + TTL + Delay
  <2>1. CASE j = k
      BY <1>1, <1>2, <1>3, <2>1
  <2>2. CASE j # k
      BY <1>2, <2>2 DEF StaleInv, EntryInv
  <2>. QED
      BY <2>1, <2>2
<1>. QED
    BY <1>4 DEF EntryInv, row

LEMMA StaleStep == StaleInv /\ [Next]_vars => StaleInv'
<1>. SUFFICES ASSUME StaleInv, [Next]_vars PROVE StaleInv'
    OBVIOUS
<1>. USE ConstantsAssumption
<1>1. TypeInv'
    BY TypeStep DEF StaleInv
<1>2. /\ now \in Nat /\ version \in Nat \ {0} /\ version <= MaxVersion
      /\ \A v \in 1..MaxVersion : since[v] \in Nat
      /\ \A k \in Keys : cached[k] \in 0..version /\ expires[k] \in Nat
      /\ \A r \in Slots : got[r] \in 0..version /\ at[r] \in Nat /\ key[r] \in Keys
      /\ \A l \in late : l.ver \in 1..version /\ l.at \in Nat /\ l.key \in Keys
    BY Types DEF StaleInv
<1>3. CASE Tick
  <2>1. /\ now' = now + 1
        /\ UNCHANGED <<version, since, cached, expires, pc, key, got, at, late>>
        /\ \A r \in Slots : pc[r] = "store" => now < at[r] + Delay
        /\ \A l \in late : now < l.at + Delay
      BY <1>3 DEF Tick, row, entries, lookup
  <2>2. SourceInv'
      BY <1>2, <2>1 DEF StaleInv, SourceInv, InTime, Current
  <2>3. EntryInv'
      BY <1>2, <2>1 DEF StaleInv, EntryInv
  <2>4. StalenessBound'
      BY <2>1 DEF StaleInv, StalenessBound
  <2>. QED
      BY <1>1, <2>2, <2>3, <2>4 DEF StaleInv
<1>4. CASE Commit
  <2>1. /\ version' = version + 1 /\ version < MaxVersion
        /\ UNCHANGED <<now, cached, expires, pc, key, got, at, late>>
      BY <1>4 DEF Commit, entries, lookup
  <2>2. /\ since'[version + 1] = now
        /\ \A v \in 1..version : since'[v] = since[v]
      BY <1>2, <1>4 DEF Commit, StaleInv, TypeInv, TypeOK, Versions
  <2>3. ASSUME NEW v \in 1..version
        PROVE  /\ v < version => since'[v + 1] = since[v + 1]
               /\ v = version => since'[v + 1] = now
      BY <1>2, <2>2
  <2>4. \A v \in 1..version, t \in Nat : t <= now /\ Current(v, t) => Current(v, t)'
      BY <1>2, <2>1, <2>3 DEF Current
  <2>5. SourceInv'
    <3>1. \A r \in Slots : pc[r] = "store" => got[r] \in 1..version
        BY <1>2 DEF StaleInv, TypeInv, Answered
    <3>. QED
        BY <1>2, <2>1, <2>4, <3>1 DEF StaleInv, SourceInv, InTime
  <2>6. EntryInv'
    <3>. SUFFICES ASSUME NEW k \in Keys
                  PROVE  /\ expires[k] <= now + TTL
                         /\ cached[k] \in 1..version =>
                               expires[k] <= since'[cached[k] + 1] + TTL + Delay
        BY <1>2, <2>1 DEF EntryInv
    <3>1. /\ expires[k] <= now + TTL
          /\ cached[k] \in 1..(version - 1) =>
                expires[k] <= since[cached[k] + 1] + TTL + Delay
        BY DEF StaleInv, EntryInv
    <3>2. CASE cached[k] \in 1..(version - 1)
        BY <1>2, <2>3, <3>1, <3>2
    <3>3. CASE cached[k] = version
        BY <1>2, <2>3, <3>1, <3>3
    <3>. QED
        BY <1>2, <3>1, <3>2, <3>3
  <2>7. StalenessBound'
    <3>. SUFFICES ASSUME NEW r \in Slots, got[r] \in 1..version
                  PROVE  at[r] < since'[got[r] + 1] + TTL + Delay
        BY <1>2, <2>1 DEF StalenessBound
    <3>1. CASE got[r] < version
      <4>1. got[r] \in 1..(version - 1)
          BY <1>2, <3>1
      <4>2. at[r] < since[got[r] + 1] + TTL + Delay
          BY <4>1 DEF StaleInv, StalenessBound
      <4>. QED
          BY <2>3, <3>1, <4>2
    <3>2. CASE got[r] = version
        BY <1>2, <2>3, <3>2 DEF StaleInv, SourceInv
    <3>. QED
        BY <1>2, <3>1, <3>2
  <2>. QED
      BY <1>1, <2>5, <2>6, <2>7 DEF StaleInv
<1>5. ASSUME NEW S \in SUBSET Keys, Evict(S) PROVE StaleInv'
  <2>1. /\ UNCHANGED <<now, version, since, expires, pc, key, got, at, late>>
        /\ \A k \in Keys : cached'[k] \in {0, cached[k]}
      BY <1>5 DEF Evict, row, lookup
  <2>2. SourceInv' /\ StalenessBound'
      BY <2>1 DEF StaleInv, SourceInv, StalenessBound, InTime, Current
  <2>3. EntryInv'
      BY <1>2, <2>1 DEF StaleInv, EntryInv
  <2>. QED
      BY <1>1, <2>2, <2>3 DEF StaleInv
<1>6. ASSUME NEW r \in Slots, NEW k \in Keys, Hit(r, k) PROVE StaleInv'
  <2>1. /\ UNCHANGED <<now, version, since, cached, expires, pc, late>>
        /\ pc[r] = "idle" /\ cached[k] # 0 /\ now < expires[k]
        /\ got'[r] = cached[k] /\ at'[r] = now
        /\ \A s \in Slots \ {r} : got'[s] = got[s] /\ at'[s] = at[s]
      BY <1>6 DEF Hit, Live, row, entries, StaleInv, TypeInv, TypeOK
  <2>2. SourceInv'
      BY <1>2, <2>1 DEF StaleInv, SourceInv, InTime, Current
  <2>3. EntryInv'
      BY <2>1 DEF StaleInv, EntryInv
  <2>4. StalenessBound'
    <3>1. cached[k] \in 1..(version - 1) => now < since[cached[k] + 1] + TTL + Delay
        BY <1>2, <2>1 DEF StaleInv, EntryInv
    <3>. QED
        BY <2>1, <3>1 DEF StaleInv, StalenessBound
  <2>. QED
      BY <1>1, <2>2, <2>3, <2>4 DEF StaleInv
<1>7. ASSUME NEW r \in Slots, NEW k \in Keys, Miss(r, k) PROVE StaleInv'
  <2>1. /\ UNCHANGED <<now, version, since, cached, expires, at, late>>
        /\ pc'[r] = "fetch" /\ got'[r] = 0
        /\ \A s \in Slots \ {r} : got'[s] = got[s] /\ pc'[s] = pc[s]
      BY <1>7 DEF Miss, row, entries, StaleInv, TypeInv, TypeOK
  <2>2. SourceInv'
      BY <1>2, <2>1 DEF StaleInv, SourceInv, InTime, Current
  <2>3. EntryInv'
      BY <2>1 DEF StaleInv, EntryInv
  <2>4. StalenessBound'
      BY <1>2, <2>1 DEF StaleInv, StalenessBound
  <2>. QED
      BY <1>1, <2>2, <2>3, <2>4 DEF StaleInv
<1>8. ASSUME NEW r \in Slots, Fetch(r) PROVE StaleInv'
  <2>1. /\ UNCHANGED <<now, version, since, cached, expires, late>>
        /\ got'[r] \in {0, version} /\ at'[r] = now
        /\ pc'[r] = "store" => got'[r] = version
        /\ \A s \in Slots \ {r} : got'[s] = got[s] /\ pc'[s] = pc[s] /\ at'[s] = at[s]
      BY <1>8 DEF Fetch, row, entries, StaleInv, TypeInv, TypeOK
  <2>2. SourceInv'
      BY <1>2, <2>1 DEF StaleInv, SourceInv, InTime, Current
  <2>3. EntryInv'
      BY <2>1 DEF StaleInv, EntryInv
  <2>4. StalenessBound'
      BY <1>2, <2>1 DEF StaleInv, StalenessBound
  <2>. QED
      BY <1>1, <2>2, <2>3, <2>4 DEF StaleInv
<1>9. ASSUME NEW r \in Slots, FetchFails(r) PROVE StaleInv'
  <2>1. /\ UNCHANGED <<now, version, since, cached, expires, got, at, late>>
        /\ pc'[r] = "idle"
        /\ \A s \in Slots \ {r} : pc'[s] = pc[s]
      BY <1>9 DEF FetchFails, row, entries, StaleInv, TypeInv, TypeOK
  <2>2. SourceInv'
      BY <2>1 DEF StaleInv, SourceInv, InTime, Current
  <2>3. EntryInv' /\ StalenessBound'
      BY <2>1 DEF StaleInv, EntryInv, StalenessBound
  <2>. QED
      BY <1>1, <2>2, <2>3 DEF StaleInv
<1>10. ASSUME NEW r \in Slots, Store(r) PROVE StaleInv'
  <2>1. /\ UNCHANGED <<now, version, since, got, at, late>>
        /\ pc[r] = "store" /\ pc'[r] = "idle"
        /\ \A s \in Slots \ {r} : pc'[s] = pc[s]
        /\ Put(key[r], got[r])
      BY <1>10 DEF Store, row, StaleInv, TypeInv, TypeOK
  <2>2. /\ got[r] \in 1..version /\ key[r] \in Keys /\ at[r] \in Nat
        /\ InTime(at[r]) /\ Current(got[r], at[r])
      BY <1>2, <2>1 DEF StaleInv, TypeInv, Answered, SourceInv
  <2>3. EntryInv'
      BY <2>1, <2>2, PutStep DEF row
  <2>4. SourceInv'
      BY <2>1 DEF StaleInv, SourceInv, InTime, Current
  <2>5. StalenessBound'
      BY <2>1 DEF StaleInv, StalenessBound
  <2>. QED
      BY <1>1, <2>3, <2>4, <2>5 DEF StaleInv
<1>11. ASSUME NEW r \in Slots, StoreFails(r) PROVE StaleInv'
  <2>1. /\ UNCHANGED <<now, version, since, cached, expires, got, at>>
        /\ pc[r] = "store" /\ pc'[r] = "idle"
        /\ \A s \in Slots \ {r} : pc'[s] = pc[s]
        /\ late' \subseteq late \cup {[key |-> key[r], ver |-> got[r], at |-> at[r]]}
      BY <1>11 DEF StoreFails, row, entries, StaleInv, TypeInv, TypeOK
  <2>2. InTime(at[r]) /\ Current(got[r], at[r])
      BY <2>1 DEF StaleInv, SourceInv
  <2>3. \A l \in late' : InTime(l.at) /\ Current(l.ver, l.at)
      BY <2>1, <2>2 DEF StaleInv, SourceInv
  <2>4. SourceInv'
      BY <2>1, <2>3 DEF StaleInv, SourceInv, InTime, Current
  <2>5. EntryInv' /\ StalenessBound'
      BY <2>1 DEF StaleInv, EntryInv, StalenessBound
  <2>. QED
      BY <1>1, <2>4, <2>5 DEF StaleInv
<1>12. ASSUME NEW l \in late, StoreLate(l) PROVE StaleInv'
  <2>1. /\ UNCHANGED <<now, version, since, got, at, pc>>
        /\ late' \subseteq late
        /\ Put(l.key, l.ver)
      BY <1>12 DEF StoreLate, row, lookup
  <2>2. /\ l.ver \in 1..version /\ l.key \in Keys /\ l.at \in Nat
        /\ InTime(l.at) /\ Current(l.ver, l.at)
      BY <1>2 DEF StaleInv, SourceInv
  <2>3. EntryInv'
      BY <2>1, <2>2, PutStep DEF row
  <2>4. SourceInv'
      BY <2>1 DEF StaleInv, SourceInv, InTime, Current
  <2>5. StalenessBound'
      BY <2>1 DEF StaleInv, StalenessBound
  <2>. QED
      BY <1>1, <2>3, <2>4, <2>5 DEF StaleInv
<1>13. CASE UNCHANGED vars
  <2>1. UNCHANGED <<now, version, since, cached, expires, pc, key, got, at, late>>
      BY <1>13 DEF vars, row, entries, lookup
  <2>2. SourceInv'
      BY <2>1 DEF StaleInv, SourceInv, InTime, Current
  <2>3. EntryInv' /\ StalenessBound'
      BY <2>1 DEF StaleInv, EntryInv, StalenessBound
  <2>. QED
      BY <1>1, <2>2, <2>3 DEF StaleInv
<1>. QED
    BY <1>3, <1>4, <1>5, <1>6, <1>7, <1>8, <1>9, <1>10, <1>11, <1>12, <1>13 DEF Next, Read

\* No lookup answers with a value that was outdated for the TTL plus the time
\* a SELECT takes to reach the cache, for any number of lookups and changes.
THEOREM StalenessCorrect == Spec => []StalenessBound
<1>1. StaleInv => StalenessBound
    BY DEF StaleInv
<1>. QED
    BY <1>1, StaleInit, StaleStep, PTL DEF Spec

=============================================================================
