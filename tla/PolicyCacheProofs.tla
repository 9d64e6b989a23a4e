------------------------- MODULE PolicyCacheProofs -------------------------
(***************************************************************************)
(* Proofs about PolicyCache, for any number of updates, replicas, keys and *)
(* lookups: hot reload implements the read-through cache, keeps its bound  *)
(* on staleness, loses no update and invalidates what it announces.        *)
(***************************************************************************)
EXTENDS PolicyCache, TLAPS

\* What is proved of the read-through cache.
CP == INSTANCE ReadThroughCacheProofs

-----------------------------------------------------------------------------
(* Refinement.                                                              *)

\* A SCAN returns keys of the cache.
FoundInv == found \in [Replicas -> SUBSET Keys]

LEMMA FoundStep == FoundInv /\ [Next]_vars => FoundInv'
<1>. SUFFICES ASSUME FoundInv, [Next]_vars PROVE FoundInv'
    OBVIOUS
<1>. USE DEF FoundInv
<1>1. CASE UNCHANGED found
    BY <1>1
<1>2. ASSUME NEW p \in Replicas, EndScan(p) PROVE FoundInv'
    BY <1>2 DEF EndScan
<1>3. ASSUME NEW p \in Replicas, HandleUpdate(p) PROVE FoundInv'
    BY <1>3 DEF HandleUpdate
<1>4. ASSUME NEW p \in Replicas, NEW k \in Keys, ScanKey(p, k) PROVE FoundInv'
  <2>1. \E S \in SUBSET Keys : found' = [found EXCEPT ![p] = S]
    <3>1. found[p] \subseteq Keys /\ found[p] \cup {k} \subseteq Keys
        OBVIOUS
    <3>2. CASE Cache!Live(k)
        BY <1>4, <3>1, <3>2 DEF ScanKey
    <3>3. CASE ~Cache!Live(k)
        BY <1>4, <3>1, <3>3 DEF ScanKey
    <3>. QED
        BY <3>2, <3>3
  <2>. QED
      BY <2>1
<1>5. ASSUME NEW a \in Admins,
             \/ Request(a) \/ UpdateRow(a) \/ Conflict(a) \/ NotFound(a)
             \/ Commit(a) \/ Rollback(a) \/ Publish(a)
      PROVE  UNCHANGED found
    BY <1>5 DEF Request, UpdateRow, Conflict, NotFound, Commit, Rollback, Publish, scan
<1>6. ASSUME Lookups \/ (\E kind \in Junk : SendJunk(kind)) \/ UNCHANGED vars
      PROVE  UNCHANGED found
    BY <1>6 DEF Lookups, SendJunk, scan, vars
<1>7. ASSUME NEW p \in Replicas, Subscribe(p) \/ HandleJunk(p) PROVE UNCHANGED found
    BY <1>7 DEF Subscribe, HandleJunk, scan
<1>8. ASSUME NEW p \in Replicas, Drop(p) \/ DeleteFound(p) PROVE EndScan(p)
    BY <1>8 DEF Drop, DeleteFound, HandledBy
<1>. QED
    BY <1>1, <1>2, <1>3, <1>4, <1>5, <1>6, <1>7, <1>8 DEF Next

\* Every step of hot reload is a step of the read-through cache or leaves it
\* alone.
LEMMA CacheStep == FoundInv /\ [Next]_vars => [Cache!Next]_(Cache!vars)
<1>. SUFFICES ASSUME FoundInv, [Next]_vars PROVE Cache!Next \/ UNCHANGED Cache!vars
    OBVIOUS
<1>1. ASSUME UNCHANGED store PROVE UNCHANGED Cache!vars
    BY <1>1 DEF store, Cache!vars, Cache!row, Cache!entries, Cache!lookup
<1>2. CASE Lookups
    BY <1>2 DEF Lookups, Cache!Next
<1>3. ASSUME NEW a \in Admins, Commit(a) PROVE Cache!Next
    BY <1>3 DEF Commit, Cache!Next
<1>4. ASSUME NEW p \in Replicas, DeleteFound(p) PROVE Cache!Next
  <2>1. found[p] \in SUBSET Keys
      BY DEF FoundInv
  <2>2. Cache!Evict(found[p])
      BY <1>4 DEF DeleteFound
  <2>. QED
      BY <2>1, <2>2 DEF Cache!Next
<1>5. ASSUME NEW a \in Admins,
             \/ Request(a) \/ UpdateRow(a) \/ Conflict(a) \/ NotFound(a)
             \/ Rollback(a) \/ Publish(a)
      PROVE  UNCHANGED store
    BY <1>5 DEF Request, UpdateRow, Conflict, NotFound, Rollback, Publish
<1>6. ASSUME (\E kind \in Junk : SendJunk(kind)) \/ UNCHANGED vars
      PROVE  UNCHANGED store
    BY <1>6 DEF SendJunk, vars
<1>7. ASSUME NEW p \in Replicas,
             \/ Subscribe(p) \/ Drop(p) \/ HandleUpdate(p) \/ HandleJunk(p)
             \/ \E k \in Keys : ScanKey(p, k)
      PROVE  UNCHANGED store
    BY <1>7 DEF Subscribe, Drop, HandleUpdate, HandleJunk, ScanKey
<1>. QED
    BY <1>1, <1>2, <1>3, <1>4, <1>5, <1>6, <1>7 DEF Next

\* Hot reload implements the read-through cache.
THEOREM HotReloadImplementsCache == Spec => ImplementsCache
<1>1. Init => FoundInv
    BY DEF Init, FoundInv
<1>2. Init => Cache!Init
    BY DEF Init
<1>. QED
    BY <1>1, <1>2, FoundStep, CacheStep, PTL DEF Spec, ImplementsCache, Cache!Spec

-----------------------------------------------------------------------------
(* What is proved of the read-through cache holds here.                     *)

LEMMA SameStep == [Cache!Next]_(Cache!vars) => [CP!Next]_(CP!vars)
<1>1. CP!Next <=> Cache!Next
    BY Zenon DEF
        Cache!Next, Cache!Tick, Cache!Commit, Cache!Evict, Cache!Read, Cache!Hit,
        Cache!Miss, Cache!Fetch, Cache!FetchFails, Cache!Store, Cache!StoreFails,
        Cache!StoreLate, Cache!Put, Cache!Live, Cache!row, Cache!entries, Cache!lookup,
        CP!Next, CP!Tick, CP!Commit, CP!Evict, CP!Read, CP!Hit,
        CP!Miss, CP!Fetch, CP!FetchFails, CP!Store, CP!StoreFails,
        CP!StoreLate, CP!Put, CP!Live, CP!row, CP!entries, CP!lookup
<1>2. CP!vars = Cache!vars /\ (CP!vars)' = (Cache!vars)'
    BY DEF CP!vars, CP!row, CP!entries, CP!lookup,
           Cache!vars, Cache!row, Cache!entries, Cache!lookup
<1>. QED
    BY <1>1, <1>2

LEMMA SameInit == Cache!Init => CP!Init
    BY DEF CP!Init, Cache!Init, CP!Versions, Cache!Versions

\* Whatever announcements are lost, late, doubled or malformed, no lookup
\* answers with a policy that was outdated for CACHE_TTL_S plus the time a
\* SELECT takes to reach the cache.
THEOREM HotReloadStaleness == Spec => []Cache!StalenessBound
<1>1. Cache!Init => CP!StaleInv
    BY CacheAssumption, SameInit, CP!StaleInit
<1>2. CP!StaleInv /\ [Cache!Next]_(Cache!vars) => CP!StaleInv'
    BY CacheAssumption, SameStep, CP!StaleStep
<1>3. CP!StaleInv => Cache!StalenessBound
    BY DEF CP!StaleInv, CP!StalenessBound, Cache!StalenessBound
<1>. QED
    BY <1>1, <1>2, <1>3, HotReloadImplementsCache, PTL DEF ImplementsCache, Cache!Spec

-----------------------------------------------------------------------------
(* Type correctness.                                                        *)

\* An update that holds the lock is of the current version; one that is about
\* to announce has made a later one.
UpdateInv ==
    \A a \in Admins :
        /\ apc[a] = "commit" => expected[a] = version /\ version < MaxVersion
        /\ apc[a] = "publish" => expected[a] < version

TypeInv == TypeOK /\ CP!TypeInv /\ UpdateInv

LEMMA TypeInit == Init => TypeInv
<1>. SUFFICES ASSUME Init PROVE TypeInv
    OBVIOUS
<1>. USE CacheAssumption, HotReloadAssumption
<1>1. CP!TypeInv
    BY SameInit, CP!TypeInit DEF Init, CP!Init, CP!TypeInv, CP!Answered
<1>2. Cache!TypeOK
    BY <1>1 DEF CP!TypeInv, CP!TypeOK, Cache!TypeOK, CP!Versions, Cache!Versions,
                CP!LateSets, Cache!LateSets
<1>3. /\ lock \in Admins \cup {None}
      /\ apc \in [Admins -> {"idle", "update", "commit", "publish"}]
      /\ \A a \in Admins : apc[a] = "commit" <=> lock = a
      /\ expected \in [Admins -> 1..MaxVersion]
      /\ basedOn \in [1..MaxVersion -> 0..MaxVersion]
    BY DEF Init
<1>4. inbox \in [Replicas -> Seq(Messages)]
  <2>1. <<>> \in Seq(Messages)
      OBVIOUS
  <2>. QED
      BY <2>1, Zenon DEF Init
<1>5. /\ listener \in [Replicas -> {"down", "listening", "scan", "dead"}]
      /\ handling \in [Replicas -> 0..MaxVersion]
      /\ toScan \in [Replicas -> SUBSET Keys]
      /\ found \in [Replicas -> SUBSET Keys]
      /\ seen \in [Replicas -> 0..MaxVersion]
      /\ junk \in 0..MaxJunk
    BY DEF Init
<1>6. UpdateInv
    BY DEF Init, UpdateInv
<1>. QED
    BY <1>1, <1>2, <1>3, <1>4, <1>5, <1>6 DEF TypeInv, TypeOK

\* The lookups, the row and the cache keep their types in every step.
LEMMA CacheTypeStep ==
    ASSUME TypeInv, [Next]_vars
    PROVE  CP!TypeInv' /\ Cache!TypeOK'
<1>1. FoundInv
    BY DEF TypeInv, TypeOK, FoundInv
<1>2. CP!TypeInv'
    BY <1>1, CacheStep, SameStep, CacheAssumption, CP!TypeStep DEF TypeInv
<1>. QED
    BY <1>2 DEF CP!TypeInv, CP!TypeOK, Cache!TypeOK, CP!Versions, Cache!Versions,
                CP!LateSets, Cache!LateSets

\* The versions are numbers.
LEMMA VersionType ==
    ASSUME TypeInv
    PROVE  version \in 1..MaxVersion /\ MaxVersion \in Nat /\ version \in Nat
    BY CacheAssumption DEF TypeInv, CP!TypeInv, CP!TypeOK, CP!Versions

LEMMA DeliverType ==
    ASSUME TypeInv, NEW m \in Messages, Deliver(m)
    PROVE  inbox' \in [Replicas -> Seq(Messages)]
<1>1. \A p \in Replicas : inbox[p] \in Seq(Messages) /\ Append(inbox[p], m) \in Seq(Messages)
    BY DEF TypeInv, TypeOK
<1>. QED
    BY <1>1 DEF Deliver

\* An update that is answered holds no lock.
LEMMA AnsweredType ==
    ASSUME TypeInv, NEW a \in Admins, Answered(a),
           lock' = IF lock = a THEN None ELSE lock, UNCHANGED version
    PROVE  /\ lock' \in Admins \cup {None}
           /\ apc' \in [Admins -> {"idle", "update", "commit", "publish"}]
           /\ \A b \in Admins : apc'[b] = "commit" <=> lock' = b
           /\ expected' \in [Admins -> 1..MaxVersion]
           /\ UpdateInv'
<1>1. 1 \in 1..MaxVersion
    BY VersionType
<1>2. /\ lock' \in Admins \cup {None}
      /\ apc' \in [Admins -> {"idle", "update", "commit", "publish"}]
      /\ expected' \in [Admins -> 1..MaxVersion]
    BY <1>1 DEF Answered, TypeInv, TypeOK
<1>3. /\ apc'[a] = "idle"
      /\ \A b \in Admins \ {a} : apc'[b] = apc[b] /\ expected'[b] = expected[b]
    BY DEF Answered, TypeInv, TypeOK
<1>4. \A b \in Admins : apc'[b] = "commit" <=> lock' = b
    BY <1>3, HotReloadAssumption DEF TypeInv, TypeOK
<1>5. UpdateInv'
    BY <1>3 DEF TypeInv, UpdateInv
<1>. QED
    BY <1>2, <1>4, <1>5

\* The parts of TypeOK that are not the cache's.
UpdateTypes ==
    /\ lock \in Admins \cup {None}
    /\ apc \in [Admins -> {"idle", "update", "commit", "publish"}]
    /\ \A a \in Admins : apc[a] = "commit" <=> lock = a
    /\ expected \in [Admins -> 1..MaxVersion]
    /\ basedOn \in [1..MaxVersion -> 0..MaxVersion]

ListenerTypes ==
    /\ listener \in [Replicas -> {"down", "listening", "scan", "dead"}]
    /\ inbox \in [Replicas -> Seq(Messages)]
    /\ handling \in [Replicas -> 0..MaxVersion]
    /\ toScan \in [Replicas -> SUBSET Keys]
    /\ found \in [Replicas -> SUBSET Keys]
    /\ seen \in [Replicas -> 0..MaxVersion]
    /\ junk \in 0..MaxJunk

\* A step of an update keeps the types of the updates and their invariant.
LEMMA UpdateTypeStep ==
    ASSUME TypeInv, NEW a \in Admins,
           \/ Request(a) \/ UpdateRow(a) \/ Conflict(a) \/ NotFound(a)
           \/ Commit(a) \/ Rollback(a) \/ Publish(a)
    PROVE  UpdateTypes' /\ UpdateInv'
<1>. USE VersionType DEF UpdateTypes
<1>1. CASE Request(a)
  <2>1. PICK v \in 1..version : expected' = [expected EXCEPT ![a] = v]
      BY <1>1 DEF Request
  <2>2. /\ apc' = [apc EXCEPT ![a] = "update"] /\ apc[a] = "idle"
        /\ UNCHANGED <<lock, basedOn, version>>
      BY <1>1 DEF Request, store
  <2>3. UpdateTypes'
      BY <2>1, <2>2 DEF TypeInv, TypeOK
  <2>4. /\ apc'[a] = "update"
        /\ \A b \in Admins \ {a} : apc'[b] = apc[b] /\ expected'[b] = expected[b]
      BY <2>1, <2>2 DEF TypeInv, TypeOK
  <2>5. UpdateInv'
      BY <2>2, <2>4 DEF TypeInv, UpdateInv
  <2>. QED
      BY <2>3, <2>5
<1>2. CASE UpdateRow(a)
  <2>1. /\ apc[a] = "update" /\ lock = None /\ expected[a] = version
        /\ version < MaxVersion
        /\ lock' = a /\ apc' = [apc EXCEPT ![a] = "commit"]
        /\ UNCHANGED <<expected, basedOn, version>>
      BY <1>2 DEF UpdateRow, store
  <2>2. /\ apc'[a] = "commit"
        /\ \A b \in Admins \ {a} : apc'[b] = apc[b]
      BY <2>1 DEF TypeInv, TypeOK
  <2>3. \A b \in Admins \ {a} : apc[b] # "commit"
      BY <2>1, HotReloadAssumption DEF TypeInv, TypeOK
  <2>4. UpdateTypes'
      BY <2>1, <2>2, <2>3 DEF TypeInv, TypeOK
  <2>5. UpdateInv'
      BY <2>1, <2>2 DEF TypeInv, UpdateInv
  <2>. QED
      BY <2>4, <2>5
<1>3. CASE Conflict(a) \/ NotFound(a) \/ Rollback(a) \/ Publish(a)
  <2>1. Answered(a) /\ UNCHANGED <<basedOn, version>>
      BY <1>3 DEF Conflict, NotFound, Rollback, Publish, store
  <2>2. lock' = IF lock = a THEN None ELSE lock
      BY <1>3 DEF Conflict, NotFound, Rollback, Publish, TypeInv, TypeOK
  <2>. QED
      BY <2>1, <2>2, AnsweredType DEF TypeInv, TypeOK
<1>4. CASE Commit(a)
  <2>1. /\ apc[a] = "commit" /\ lock' = None /\ version' = version + 1
        /\ basedOn' = [basedOn EXCEPT ![version + 1] = expected[a]]
        /\ apc' = [apc EXCEPT ![a] = "publish"]
        /\ UNCHANGED expected
      BY <1>4 DEF Commit, Cache!Commit
  <2>2. /\ apc'[a] = "publish"
        /\ \A b \in Admins \ {a} : apc'[b] = apc[b] /\ apc[b] # "commit"
      BY <2>1 DEF TypeInv, TypeOK
  <2>3. expected[a] \in 0..MaxVersion
      BY DEF TypeInv, TypeOK
  <2>4. UpdateTypes'
      BY <2>1, <2>2, <2>3, HotReloadAssumption DEF TypeInv, TypeOK
  <2>5. \A b \in Admins : expected[b] \in Nat
      BY DEF TypeInv, TypeOK
  <2>6. UpdateInv'
      BY <2>1, <2>2, <2>5 DEF TypeInv, UpdateInv
  <2>. QED
      BY <2>4, <2>6
<1>. QED
    BY <1>1, <1>2, <1>3, <1>4

\* What an announcement says.
LEMMA UpdateMessage ==
    ASSUME TypeInv, NEW a \in Admins, apc[a] = "publish"
    PROVE  /\ Update(expected[a] + 1) \in Messages
           /\ Update(expected[a] + 1).ver = expected[a] + 1
           /\ expected[a] + 1 \in 0..version
<1>1. expected[a] \in 1..MaxVersion /\ expected[a] < version
    BY DEF TypeInv, TypeOK, UpdateInv
<1>2. expected[a] + 1 \in 0..version /\ expected[a] + 1 \in 0..MaxVersion
    BY <1>1, VersionType
<1>. QED
    BY <1>2 DEF Update, Messages

\* The end of a scan keeps the types of its locals.
LEMMA EndScanType ==
    ASSUME TypeInv, NEW p \in Replicas, EndScan(p)
    PROVE  /\ handling' \in [Replicas -> 0..MaxVersion]
           /\ toScan' \in [Replicas -> SUBSET Keys]
           /\ found' \in [Replicas -> SUBSET Keys]
    BY VersionType DEF TypeInv, TypeOK, EndScan

\* The message at the head of a connection, and those behind it.
LEMMA InboxType ==
    ASSUME TypeInv, NEW p \in Replicas, inbox[p] # <<>>
    PROVE  /\ Head(inbox[p]) \in Messages /\ Tail(inbox[p]) \in Seq(Messages)
           /\ Head(inbox[p]).ver \in 0..MaxVersion
<1>1. inbox[p] \in Seq(Messages)
    BY DEF TypeInv, TypeOK
<1>2. Head(inbox[p]) \in Messages /\ Tail(inbox[p]) \in Seq(Messages)
    BY <1>1
<1>. QED
    BY <1>2 DEF Messages

\* A step of a listener keeps the types of the listeners.
LEMMA ListenerTypeStep ==
    ASSUME TypeInv, NEW p \in Replicas,
           \/ Subscribe(p) \/ Drop(p) \/ HandleUpdate(p) \/ HandleJunk(p)
           \/ \E k \in Keys : ScanKey(p, k)
           \/ DeleteFound(p)
    PROVE  ListenerTypes'
<1>. USE DEF ListenerTypes
<1>1. CASE Subscribe(p)
    BY <1>1 DEF Subscribe, scan, TypeInv, TypeOK
<1>2. CASE Drop(p)
  <2>1. /\ EndScan(p) /\ UNCHANGED <<seen, junk>>
        /\ listener' = [listener EXCEPT ![p] = "down"]
        /\ inbox' = [inbox EXCEPT ![p] = <<>>]
      BY <1>2 DEF Drop
  <2>2. <<>> \in Seq(Messages)
      OBVIOUS
  <2>3. inbox' \in [Replicas -> Seq(Messages)]
      BY <2>1, <2>2 DEF TypeInv, TypeOK
  <2>. QED
      BY <2>1, <2>3, EndScanType DEF TypeInv, TypeOK
<1>3. CASE HandleUpdate(p)
  <2>1. /\ inbox[p] # <<>> /\ UNCHANGED <<seen, junk>>
        /\ listener' = [listener EXCEPT ![p] = "scan"]
        /\ handling' = [handling EXCEPT ![p] = Head(inbox[p]).ver]
        /\ toScan' = [toScan EXCEPT ![p] = Keys]
        /\ found' = [found EXCEPT ![p] = {}]
        /\ inbox' = [inbox EXCEPT ![p] = Tail(inbox[p])]
      BY <1>3 DEF HandleUpdate
  <2>2. inbox' \in [Replicas -> Seq(Messages)]
      BY <2>1, InboxType DEF TypeInv, TypeOK
  <2>3. handling' \in [Replicas -> 0..MaxVersion]
      BY <2>1, InboxType DEF TypeInv, TypeOK
  <2>. QED
      BY <2>1, <2>2, <2>3 DEF TypeInv, TypeOK
<1>4. CASE HandleJunk(p)
  <2>1. /\ inbox[p] # <<>> /\ UNCHANGED <<handling, toScan, found, seen, junk>>
        /\ \E l \in {"dead", "listening"} : listener' = [listener EXCEPT ![p] = l]
        /\ inbox' = [inbox EXCEPT ![p] = Tail(inbox[p])]
      BY <1>4, Zenon DEF HandleJunk, scan
  <2>2. inbox' \in [Replicas -> Seq(Messages)]
      BY <2>1, InboxType DEF TypeInv, TypeOK
  <2>. QED
      BY <2>1, <2>2 DEF TypeInv, TypeOK
<1>5. ASSUME NEW k \in Keys, ScanKey(p, k) PROVE ListenerTypes'
  <2>1. /\ UNCHANGED <<listener, inbox, handling, seen, junk>>
        /\ toScan' = [toScan EXCEPT ![p] = toScan[p] \ {k}]
      BY <1>5 DEF ScanKey
  <2>2. FoundInv'
      BY <1>5, FoundStep DEF Next, TypeInv, TypeOK, FoundInv
  <2>. QED
      BY <2>1, <2>2 DEF FoundInv, TypeInv, TypeOK
<1>6. CASE DeleteFound(p)
  <2>1. /\ EndScan(p) /\ UNCHANGED <<inbox, junk>>
        /\ listener' = [listener EXCEPT ![p] = "listening"]
        /\ seen' = [seen EXCEPT ![p] = IF handling[p] > seen[p] THEN handling[p] ELSE seen[p]]
      BY <1>6 DEF DeleteFound, HandledBy
  <2>2. seen' \in [Replicas -> 0..MaxVersion]
      BY <2>1 DEF TypeInv, TypeOK
  <2>. QED
      BY <2>1, <2>2, EndScanType DEF TypeInv, TypeOK
<1>. QED
    BY <1>1, <1>2, <1>3, <1>4, <1>5, <1>6

\* What the other steps leave alone.
LEMMA UpdateFrame ==
    ASSUME [Next]_vars
    PROVE  \/ UNCHANGED <<lock, apc, expected, basedOn>>
           \/ \E a \in Admins :
                \/ Request(a) \/ UpdateRow(a) \/ Conflict(a) \/ NotFound(a)
                \/ Commit(a) \/ Rollback(a) \/ Publish(a)
<1>1. ASSUME Lookups \/ (\E kind \in Junk : SendJunk(kind)) \/ UNCHANGED vars
      PROVE  UNCHANGED <<lock, apc, expected, basedOn>>
    BY <1>1 DEF Lookups, SendJunk, vars, update
<1>2. ASSUME NEW p \in Replicas,
             \/ Subscribe(p) \/ Drop(p) \/ HandleUpdate(p) \/ HandleJunk(p)
             \/ \E k \in Keys : ScanKey(p, k)
             \/ DeleteFound(p)
      PROVE  UNCHANGED <<lock, apc, expected, basedOn>>
    BY <1>2 DEF Subscribe, Drop, HandleUpdate, HandleJunk, ScanKey, DeleteFound, HandledBy,
                update
<1>. QED
    BY <1>1, <1>2 DEF Next

LEMMA ListenerFrame ==
    ASSUME [Next]_vars
    PROVE  \/ UNCHANGED <<listener, inbox, handling, toScan, found, seen, junk>>
           \/ \E a \in Admins : Publish(a)
           \/ \E kind \in Junk : SendJunk(kind)
           \/ \E p \in Replicas :
                \/ Subscribe(p) \/ Drop(p) \/ HandleUpdate(p) \/ HandleJunk(p)
                \/ \E k \in Keys : ScanKey(p, k)
                \/ DeleteFound(p)
<1>1. ASSUME Lookups \/ UNCHANGED vars
      PROVE  UNCHANGED <<listener, inbox, handling, toScan, found, seen, junk>>
    BY <1>1 DEF Lookups, vars, scan
<1>2. ASSUME NEW a \in Admins,
             \/ Request(a) \/ UpdateRow(a) \/ Conflict(a) \/ NotFound(a)
             \/ Commit(a) \/ Rollback(a)
      PROVE  UNCHANGED <<listener, inbox, handling, toScan, found, seen, junk>>
    BY <1>2 DEF Request, UpdateRow, Conflict, NotFound, Commit, Rollback, scan
<1>. QED
    BY <1>1, <1>2 DEF Next

\* Only a commit changes the version.
LEMMA VersionStep ==
    ASSUME TypeInv, [Next]_vars
    PROVE  \/ UNCHANGED <<version, since>>
           \/ \E a \in Admins : Commit(a)
<1>1. ASSUME NEW a \in Admins,
             \/ Request(a) \/ UpdateRow(a) \/ Conflict(a) \/ NotFound(a)
             \/ Rollback(a) \/ Publish(a)
      PROVE  UNCHANGED <<version, since>>
    BY <1>1 DEF Request, UpdateRow, Conflict, NotFound, Rollback, Publish, store
<1>2. ASSUME Lookups PROVE UNCHANGED <<version, since>>
    BY <1>2 DEF Lookups, Cache!Tick, Cache!Read, Cache!Hit, Cache!Miss, Cache!Fetch,
                Cache!FetchFails, Cache!Store, Cache!StoreFails, Cache!StoreLate, Cache!row
<1>3. ASSUME (\E kind \in Junk : SendJunk(kind)) \/ UNCHANGED vars
      PROVE  UNCHANGED <<version, since>>
    BY <1>3 DEF SendJunk, store, vars
<1>4. ASSUME NEW p \in Replicas,
             \/ Subscribe(p) \/ Drop(p) \/ HandleUpdate(p) \/ HandleJunk(p)
             \/ \E k \in Keys : ScanKey(p, k)
             \/ DeleteFound(p)
      PROVE  UNCHANGED <<version, since>>
    BY <1>4 DEF Subscribe, Drop, HandleUpdate, HandleJunk, ScanKey, DeleteFound, store,
                Cache!Evict, Cache!row
<1>. QED
    BY <1>1, <1>2, <1>3, <1>4 DEF Next

LEMMA TypeStep == TypeInv /\ [Next]_vars => TypeInv'
<1>. SUFFICES ASSUME TypeInv, [Next]_vars PROVE TypeInv'
    OBVIOUS
<1>1. CP!TypeInv' /\ Cache!TypeOK'
    BY CacheTypeStep
<1>2. UpdateTypes' /\ UpdateInv'
  <2>1. CASE \E a \in Admins :
                \/ Request(a) \/ UpdateRow(a) \/ Conflict(a) \/ NotFound(a)
                \/ Commit(a) \/ Rollback(a) \/ Publish(a)
      BY <2>1, UpdateTypeStep
  <2>2. CASE UNCHANGED <<lock, apc, expected, basedOn>> /\ UNCHANGED <<version, since>>
      BY <2>2 DEF TypeInv, TypeOK, UpdateTypes, UpdateInv
  <2>3. \/ UNCHANGED <<version, since>>
        \/ \E a \in Admins : Commit(a)
      BY VersionStep
  <2>. QED
      BY <2>1, <2>2, <2>3, UpdateFrame
<1>3. ListenerTypes'
  <2>1. ASSUME NEW m \in Messages, Deliver(m), junk' \in 0..MaxJunk,
               UNCHANGED <<listener, handling, toScan, found, seen>>
        PROVE  ListenerTypes'
      BY <2>1, DeliverType DEF TypeInv, TypeOK, ListenerTypes
  <2>2. CASE UNCHANGED <<listener, inbox, handling, toScan, found, seen, junk>>
      BY <2>2 DEF TypeInv, TypeOK, ListenerTypes
  <2>3. ASSUME NEW a \in Admins, Publish(a) PROVE ListenerTypes'
    <3>1. apc[a] = "publish" /\ UNCHANGED <<listener, handling, toScan, found, seen, junk>>
        BY <2>3 DEF Publish, scan
    <3>2. Deliver(Update(expected[a] + 1)) \/ UNCHANGED inbox
        BY <2>3 DEF Publish
    <3>3. junk' \in 0..MaxJunk
        BY <3>1 DEF TypeInv, TypeOK
    <3>. QED
        BY <2>1, <2>2, <3>1, <3>2, <3>3, UpdateMessage
  <2>4. ASSUME NEW kind \in Junk, SendJunk(kind) PROVE ListenerTypes'
    <3>1. [kind |-> kind, ver |-> 0] \in Messages
        BY VersionType DEF Messages
    <3>2. junk' \in 0..MaxJunk
        BY <2>4, HotReloadAssumption DEF SendJunk, TypeInv, TypeOK
    <3>. QED
        BY <2>1, <2>4, <3>1, <3>2 DEF SendJunk, scan
  <2>. QED
      BY <2>2, <2>3, <2>4, ListenerFrame, ListenerTypeStep
<1>. QED
    BY <1>1, <1>2, <1>3 DEF TypeInv, TypeOK, UpdateTypes, ListenerTypes

\* Every variable keeps its type; the row's lock is held exactly by the update
\* whose transaction is open, also when commits fail.
THEOREM TypeCorrect == Spec => []TypeOK
<1>1. TypeInv => TypeOK
    BY DEF TypeInv
<1>. QED
    BY <1>1, TypeInit, TypeStep, PTL DEF Spec

-----------------------------------------------------------------------------
(* Announcements name committed versions.                                   *)

SignalInv == SignalAfterCommit /\ \A p \in Replicas : seen[p] <= version

\* The versions that messages and listeners name are numbers.
LEMMA InboxVersions ==
    ASSUME TypeInv, NEW p \in Replicas, NEW i \in DOMAIN inbox[p]
    PROVE  inbox[p][i].ver \in 0..MaxVersion
<1>1. inbox[p] \in Seq(Messages)
    BY DEF TypeInv, TypeOK
<1>2. inbox[p][i] \in Messages
    BY <1>1
<1>. QED
    BY <1>2 DEF Messages

LEMMA DeliverSignal ==
    ASSUME TypeInv, SignalInv, NEW m \in Messages, m.ver <= version, Deliver(m),
           UNCHANGED <<version, handling, seen>>
    PROVE  SignalInv'
<1>1. ASSUME NEW p \in Replicas, NEW i \in DOMAIN inbox'[p]
      PROVE  inbox'[p][i].ver <= version
  <2>1. inbox[p] \in Seq(Messages)
      BY DEF TypeInv, TypeOK
  <2>2. CASE inbox'[p] = inbox[p]
      BY <2>2 DEF SignalInv, SignalAfterCommit
  <2>3. CASE inbox'[p] = Append(inbox[p], m)
    <3>1. DOMAIN inbox[p] = 1..Len(inbox[p]) /\ DOMAIN inbox'[p] = 1..(Len(inbox[p]) + 1)
        BY <2>1, <2>3
    <3>2. CASE i \in 1..Len(inbox[p])
      <4>1. inbox'[p][i] = inbox[p][i]
          BY <2>1, <2>3, <3>2
      <4>. QED
          BY <3>1, <3>2, <4>1 DEF SignalInv, SignalAfterCommit
    <3>3. CASE i = Len(inbox[p]) + 1
      <4>1. inbox'[p][i] = m
          BY <2>1, <2>3, <3>3
      <4>. QED
          BY <4>1
    <3>4. Len(inbox[p]) \in Nat
        BY <2>1
    <3>. QED
        BY <3>1, <3>2, <3>3, <3>4
  <2>. QED
      BY <2>2, <2>3 DEF Deliver
<1>. QED
    BY <1>1 DEF SignalInv, SignalAfterCommit

\* Taking a message off a connection leaves those behind it.
LEMMA TakeSignal ==
    ASSUME TypeInv, SignalInv, NEW p \in Replicas, inbox[p] # <<>>,
           inbox' = [inbox EXCEPT ![p] = Tail(inbox[p])]
    PROVE  /\ Head(inbox[p]).ver <= version
           /\ \A q \in Replicas : \A i \in DOMAIN inbox'[q] : inbox'[q][i].ver <= version
<1>1. inbox[p] \in Seq(Messages) /\ inbox \in [Replicas -> Seq(Messages)]
    BY DEF TypeInv, TypeOK
<1>2. Head(inbox[p]) = inbox[p][1] /\ 1 \in DOMAIN inbox[p]
    BY <1>1
<1>3. ASSUME NEW i \in DOMAIN Tail(inbox[p])
      PROVE  i + 1 \in DOMAIN inbox[p] /\ Tail(inbox[p])[i] = inbox[p][i + 1]
    BY <1>1
<1>4. ASSUME NEW q \in Replicas, NEW i \in DOMAIN inbox'[q]
      PROVE  inbox'[q][i].ver <= version
  <2>1. CASE q = p
      BY <1>1, <1>3, <2>1 DEF SignalInv, SignalAfterCommit
  <2>2. CASE q # p
      BY <1>1, <2>2 DEF SignalInv, SignalAfterCommit
  <2>. QED
      BY <2>1, <2>2
<1>. QED
    BY <1>2, <1>4 DEF SignalInv, SignalAfterCommit

\* A scan that ends leaves nothing handled.
LEMMA EndScanSignal ==
    ASSUME TypeInv, SignalInv, NEW p \in Replicas, EndScan(p)
    PROVE  \A q \in Replicas : handling'[q] <= version
<1>1. 0 <= version
    BY VersionType
<1>. QED
    BY <1>1 DEF EndScan, SignalInv, SignalAfterCommit, TypeInv, TypeOK

LEMMA SignalStep == TypeInv /\ SignalInv /\ [Next]_vars => SignalInv'
<1>. SUFFICES ASSUME TypeInv, SignalInv, [Next]_vars PROVE SignalInv'
    OBVIOUS
<1>1. ASSUME NEW a \in Admins, Publish(a) PROVE SignalInv'
  <2>1. apc[a] = "publish" /\ UNCHANGED <<version, handling, seen>>
      BY <1>1 DEF Publish, scan, store
  <2>2. Deliver(Update(expected[a] + 1)) \/ UNCHANGED inbox
      BY <1>1 DEF Publish
  <2>3. CASE Deliver(Update(expected[a] + 1))
    <3>1. Update(expected[a] + 1).ver <= version
        BY <2>1, UpdateMessage
    <3>. QED
        BY <2>1, <2>3, <3>1, UpdateMessage, DeliverSignal
  <2>4. CASE UNCHANGED inbox
      BY <2>1, <2>4 DEF SignalInv, SignalAfterCommit
  <2>. QED
      BY <2>2, <2>3, <2>4
<1>2. ASSUME NEW kind \in Junk, SendJunk(kind) PROVE SignalInv'
  <2>1. [kind |-> kind, ver |-> 0] \in Messages /\ 0 <= version
      BY VersionType DEF Messages
  <2>. QED
      BY <1>2, <2>1, DeliverSignal DEF SendJunk, scan, store
<1>3. ASSUME NEW p \in Replicas,
             \/ Subscribe(p) \/ Drop(p) \/ HandleUpdate(p) \/ HandleJunk(p)
             \/ \E k \in Keys : ScanKey(p, k)
             \/ DeleteFound(p)
      PROVE  SignalInv'
  <2>1. CASE Subscribe(p) \/ \E k \in Keys : ScanKey(p, k)
      BY <2>1 DEF Subscribe, ScanKey, scan, store, SignalInv, SignalAfterCommit
  <2>2. CASE Drop(p)
    <3>1. EndScan(p) /\ inbox' = [inbox EXCEPT ![p] = <<>>] /\ UNCHANGED <<version, seen>>
        BY <2>2 DEF Drop, store
    <3>2. \A q \in Replicas : \A i \in DOMAIN inbox'[q] : inbox'[q][i].ver <= version
        BY <3>1 DEF SignalInv, SignalAfterCommit, TypeInv, TypeOK
    <3>. QED
        BY <3>1, <3>2, EndScanSignal DEF SignalInv, SignalAfterCommit
  <2>3. CASE HandleUpdate(p)
    <3>1. /\ inbox[p] # <<>> /\ inbox' = [inbox EXCEPT ![p] = Tail(inbox[p])]
          /\ handling' = [handling EXCEPT ![p] = Head(inbox[p]).ver]
          /\ UNCHANGED <<version, seen>>
        BY <2>3 DEF HandleUpdate, store
    <3>2. \A q \in Replicas : handling'[q] <= version
        BY <3>1, TakeSignal DEF SignalInv, SignalAfterCommit, TypeInv, TypeOK
    <3>. QED
        BY <3>1, <3>2, TakeSignal DEF SignalInv, SignalAfterCommit
  <2>4. CASE HandleJunk(p)
    <3>1. /\ inbox[p] # <<>> /\ inbox' = [inbox EXCEPT ![p] = Tail(inbox[p])]
          /\ UNCHANGED <<version, handling, seen>>
        BY <2>4 DEF HandleJunk, scan, store
    <3>. QED
        BY <3>1, TakeSignal DEF SignalInv, SignalAfterCommit
  <2>5. CASE DeleteFound(p)
    <3>1. /\ EndScan(p) /\ UNCHANGED <<inbox, version>>
          /\ seen' = [seen EXCEPT ![p] = IF handling[p] > seen[p] THEN handling[p] ELSE seen[p]]
        BY <2>5 DEF DeleteFound, HandledBy, Cache!Evict, Cache!row
    <3>2. \A q \in Replicas : seen'[q] <= version
        BY <3>1 DEF SignalInv, SignalAfterCommit, TypeInv, TypeOK
    <3>. QED
        BY <3>1, <3>2, EndScanSignal DEF SignalInv, SignalAfterCommit
  <2>. QED
      BY <1>3, <2>1, <2>2, <2>3, <2>4, <2>5
<1>4. CASE UNCHANGED <<listener, inbox, handling, toScan, found, seen, junk>>
  <2>1. CASE UNCHANGED <<version, since>>
      BY <1>4, <2>1 DEF SignalInv, SignalAfterCommit
  <2>2. CASE \E a \in Admins : Commit(a)
    <3>1. version' = version + 1
        BY <2>2 DEF Commit, Cache!Commit
    <3>2. \A n \in 0..MaxVersion : n <= version => n <= version'
        BY <3>1, VersionType
    <3>3. \A p \in Replicas : handling[p] \in 0..MaxVersion /\ seen[p] \in 0..MaxVersion
        BY DEF TypeInv, TypeOK
    <3>. QED
        BY <1>4, <3>2, <3>3, InboxVersions DEF SignalInv, SignalAfterCommit
  <2>. QED
      BY <2>1, <2>2, VersionStep
<1>. QED
    BY <1>1, <1>2, <1>3, <1>4, ListenerFrame

LEMMA SignalInit == Init => SignalInv
    BY DEF Init, Cache!Init, SignalInv, SignalAfterCommit

\* update_policy commits before it publishes: what is announced, queued or
\* handled is a version that lookups can already read.
THEOREM SignalAfterCommitCorrect == Spec => []SignalAfterCommit
<1>1. SignalInv => SignalAfterCommit
    BY DEF SignalInv
<1>. QED
    BY <1>1, TypeInit, TypeStep, SignalInit, SignalStep, PTL DEF Spec

-----------------------------------------------------------------------------
(* No lost update.                                                          *)

LEMMA NoLostUpdateStep == TypeInv /\ NoLostUpdate /\ [Next]_vars => NoLostUpdate'
<1>. SUFFICES ASSUME TypeInv, NoLostUpdate, [Next]_vars PROVE NoLostUpdate'
    OBVIOUS
<1>1. ASSUME NEW a \in Admins, Commit(a) PROVE NoLostUpdate'
  <2>1. /\ version' = version + 1
        /\ basedOn' = [basedOn EXCEPT ![version + 1] = expected[a]]
        /\ apc[a] = "commit"
      BY <1>1 DEF Commit, Cache!Commit
  <2>2. expected[a] = version /\ version + 1 \in 1..MaxVersion
      BY <2>1, VersionType, CacheAssumption DEF TypeInv, UpdateInv
  <2>3. /\ basedOn'[version + 1] = version
        /\ \A v \in 2..version : basedOn'[v] = basedOn[v]
      BY <2>1, <2>2, VersionType DEF TypeInv, TypeOK
  <2>. QED
      BY <2>1, <2>3, VersionType DEF NoLostUpdate
<1>2. ASSUME UNCHANGED <<version, since>> PROVE UNCHANGED basedOn \/ \E a \in Admins : Commit(a)
    BY UpdateFrame DEF Request, UpdateRow, Conflict, NotFound, Rollback, Publish
<1>3. CASE UNCHANGED <<version, since>> /\ UNCHANGED basedOn
    BY <1>3 DEF NoLostUpdate
<1>. QED
    BY <1>1, <1>2, <1>3, VersionStep

\* The optimistic lock of update_policy: no committed update overwrites one
\* that its client had not seen, for any number of concurrent clients.
THEOREM NoLostUpdateCorrect == Spec => []NoLostUpdate
<1>1. Init => NoLostUpdate
    BY DEF Init, Cache!Init, NoLostUpdate
<1>. QED
    BY <1>1, TypeInit, TypeStep, NoLostUpdateStep, PTL DEF Spec

-----------------------------------------------------------------------------
(* A handled announcement leaves nothing that was cached before the update. *)

\* An entry under k of a version before v was stored after that version was
\* outdated.
StoredSince(k, v) ==
    Cache!Live(k) /\ cached[k] < v => expires[k] - TTL >= since[cached[k] + 1]

\* What the SCAN of a listener has passed by without returning it.
ScanInv ==
    \A p \in Replicas, k \in Keys :
        listener[p] = "scan" /\ k \notin toScan[p] \cup found[p] =>
            StoredSince(k, handling[p])

SinceInv == \A v \in 1..version : since[v] <= now

PushInv == SinceInv /\ ScanInv /\ PushInvalidates

\* The types of the cache, as arithmetic needs them.
LEMMA CacheTypes ==
    ASSUME TypeInv
    PROVE  /\ now \in Nat /\ TTL \in Nat
           /\ since \in [1..MaxVersion -> Nat]
           /\ cached \in [Keys -> 0..version]
           /\ expires \in [Keys -> Nat]
           /\ \A r \in Slots : key[r] \in Keys /\ (pc[r] = "store" => got[r] \in 1..version)
           /\ \A l \in late : l.key \in Keys /\ l.ver \in 1..version
<1>. USE CacheAssumption, VersionType
<1>1. /\ now \in Nat /\ TTL \in Nat
      /\ since \in [1..MaxVersion -> Nat]
      /\ cached \in [Keys -> 0..version]
      /\ expires \in [Keys -> Nat]
    BY DEF TypeInv, CP!TypeInv, CP!TypeOK, CP!Versions
<1>2. \A r \in Slots : key[r] \in Keys /\ (pc[r] = "store" => got[r] \in 1..version)
    BY DEF TypeInv, CP!TypeInv, CP!TypeOK, CP!Answered
<1>3. \A l \in late : l.key \in Keys /\ l.ver \in 1..version
    BY DEF TypeInv, CP!TypeInv, CP!TypeOK, CP!LateSets, CP!Versions
<1>. QED
    BY <1>1, <1>2, <1>3

LEMMA SinceStep == TypeInv /\ SinceInv /\ [Next]_vars => SinceInv'
<1>. SUFFICES ASSUME TypeInv, SinceInv, [Cache!Next]_(Cache!vars) PROVE SinceInv'
    BY CacheStep DEF TypeInv, TypeOK, FoundInv
<1>. USE VersionType, CacheTypes
<1>1. CASE Cache!Tick
    BY <1>1 DEF Cache!Tick, Cache!row, SinceInv
<1>2. CASE Cache!Commit
  <2>1. /\ version' = version + 1 /\ version < MaxVersion /\ UNCHANGED now
        /\ since' = [since EXCEPT ![version + 1] = now]
      BY <1>2 DEF Cache!Commit
  <2>2. /\ since'[version + 1] = now
        /\ \A v \in 1..version : since'[v] = since[v]
      BY <2>1
  <2>. QED
      BY <2>1, <2>2 DEF SinceInv
<1>3. CASE UNCHANGED <<now, version, since>>
    BY <1>3 DEF SinceInv
<1>. QED
    BY <1>1, <1>2, <1>3 DEF Cache!Next, Cache!vars, Cache!row, Cache!Evict, Cache!Read,
        Cache!Hit, Cache!Miss, Cache!Fetch, Cache!FetchFails, Cache!Store, Cache!StoreFails,
        Cache!StoreLate

\* A SET stores now what no update has outdated later.
LEMMA PutStored ==
    ASSUME TypeInv, SinceInv, NEW j \in Keys, NEW u \in 1..version, Cache!Put(j, u),
           UNCHANGED <<now, version, since>>,
           NEW k \in Keys, NEW v \in 0..version, StoredSince(k, v)
    PROVE  StoredSince(k, v)'
<1>. USE VersionType, CacheTypes
<1>1. CASE k = j
  <2>1. cached'[k] = u /\ expires'[k] = now + TTL
      BY <1>1 DEF Cache!Put
  <2>2. u < v => since[u + 1] \in Nat /\ since[u + 1] <= now
      BY DEF SinceInv
  <2>. QED
      BY <2>1, <2>2 DEF StoredSince
<1>2. CASE k # j
  <2>1. cached'[k] = cached[k] /\ expires'[k] = expires[k]
      BY <1>2 DEF Cache!Put
  <2>. QED
      BY <2>1 DEF StoredSince, Cache!Live
<1>. QED
    BY <1>1, <1>2

\* No step of the read-through cache leaves an older entry where there was none.
LEMMA StoredStep ==
    ASSUME TypeInv, SinceInv, [Next]_vars, NEW k \in Keys, NEW v \in 0..version,
           StoredSince(k, v)
    PROVE  StoredSince(k, v)'
<1>. USE VersionType, CacheTypes
<1>0. [Cache!Next]_(Cache!vars)
    BY CacheStep DEF TypeInv, TypeOK, FoundInv
<1>1. CASE Cache!Tick
    BY <1>1 DEF Cache!Tick, Cache!row, Cache!entries, StoredSince, Cache!Live
<1>2. CASE Cache!Commit
  <2>1. /\ UNCHANGED <<now, cached, expires>>
        /\ since' = [since EXCEPT ![version + 1] = now]
      BY <1>2 DEF Cache!Commit, Cache!entries
  <2>2. cached[k] < v => since'[cached[k] + 1] = since[cached[k] + 1]
      BY <2>1
  <2>. QED
      BY <2>1, <2>2 DEF StoredSince, Cache!Live
<1>3. ASSUME NEW S \in SUBSET Keys, Cache!Evict(S) PROVE StoredSince(k, v)'
  <2>1. /\ UNCHANGED <<now, version, since, expires>>
        /\ cached'[k] = 0 \/ cached'[k] = cached[k]
      BY <1>3 DEF Cache!Evict, Cache!row
  <2>. QED
      BY <2>1 DEF StoredSince, Cache!Live
<1>4. CASE UNCHANGED <<now, version, since, cached, expires>>
    BY <1>4 DEF StoredSince, Cache!Live
<1>5. ASSUME NEW r \in Slots, Cache!Read(r) PROVE StoredSince(k, v)'
  <2>1. CASE Cache!Store(r)
      BY <2>1, PutStored DEF Cache!Store, Cache!row
  <2>2. CASE ~Cache!Store(r)
      BY <1>4, <1>5, <2>2 DEF Cache!Read, Cache!Hit, Cache!Miss, Cache!Fetch,
          Cache!FetchFails, Cache!StoreFails, Cache!row, Cache!entries
  <2>. QED
      BY <2>1, <2>2
<1>6. ASSUME NEW l \in late, Cache!StoreLate(l) PROVE StoredSince(k, v)'
    BY <1>6, PutStored DEF Cache!StoreLate, Cache!row
<1>7. CASE UNCHANGED Cache!vars
    BY <1>4, <1>7 DEF Cache!vars, Cache!row, Cache!entries
<1>. QED
    BY <1>0, <1>1, <1>2, <1>3, <1>5, <1>6, <1>7 DEF Cache!Next

\* StoredSince after a step, for a v that may be read before or after it.
StoredNext(k, v) ==
    cached'[k] # 0 /\ now' < expires'[k] /\ cached'[k] < v =>
        expires'[k] - TTL >= since'[cached'[k] + 1]

\* Only DeleteFound raises seen, and by then the SCAN has come to every key.
LEMMA PushStep == TypeInv /\ SignalInv /\ PushInv /\ [Next]_vars => PushInv'
<1>. SUFFICES ASSUME TypeInv, SignalInv, PushInv, [Next]_vars PROVE PushInv'
    OBVIOUS
<1>1. SinceInv'
    BY SinceStep DEF PushInv
<1>2. ASSUME NEW k \in Keys, NEW v \in 0..version, StoredSince(k, v)
      PROVE  StoredNext(k, v)
    BY <1>2, StoredStep DEF PushInv, StoredSince, StoredNext, Cache!Live
<1>3. \A p \in Replicas : handling[p] \in 0..version /\ seen[p] \in 0..version
    BY VersionType DEF SignalInv, SignalAfterCommit, TypeInv, TypeOK
<1>4. ASSUME NEW p \in Replicas, NEW k \in Keys
      PROVE  StoredNext(k, seen[p])
  <2>1. StoredSince(k, seen[p])
      BY DEF PushInv, PushInvalidates, StoredSince
  <2>. QED
      BY <1>2, <1>3, <2>1
<1>5. ASSUME NEW p \in Replicas, NEW k \in Keys,
             listener[p] = "scan", k \notin toScan[p] \cup found[p]
      PROVE  StoredNext(k, handling[p])
  <2>1. StoredSince(k, handling[p])
      BY <1>5 DEF PushInv, ScanInv
  <2>. QED
      BY <1>2, <1>3, <2>1
<1>6. SUFFICES \A p \in Replicas, k \in Keys :
                   /\ StoredNext(k, seen'[p])
                   /\ listener'[p] = "scan" /\ k \notin toScan'[p] \cup found'[p] =>
                          StoredNext(k, handling'[p])
  <2>1. PushInvalidates'
      BY <1>6 DEF PushInvalidates, StoredNext, Cache!Live
  <2>2. ScanInv'
      BY <1>6 DEF ScanInv, StoredSince, StoredNext, Cache!Live
  <2>. QED
      BY <1>1, <2>1, <2>2 DEF PushInv
<1>7. ASSUME UNCHANGED seen,
             \A p \in Replicas : listener'[p] = "scan" =>
                 /\ listener[p] = "scan" /\ handling'[p] = handling[p]
                 /\ toScan'[p] = toScan[p] /\ found'[p] = found[p]
      PROVE  \A p \in Replicas, k \in Keys :
                 /\ StoredNext(k, seen'[p])
                 /\ listener'[p] = "scan" /\ k \notin toScan'[p] \cup found'[p] =>
                        StoredNext(k, handling'[p])
    BY <1>4, <1>5, <1>7
<1>8. CASE UNCHANGED <<listener, inbox, handling, toScan, found, seen, junk>>
    BY <1>7, <1>8
<1>9. ASSUME NEW a \in Admins, Publish(a) PROVE UNCHANGED <<listener, handling, toScan, found, seen>>
    BY <1>9 DEF Publish, scan
<1>10. ASSUME NEW kind \in Junk, SendJunk(kind)
       PROVE  UNCHANGED <<listener, handling, toScan, found, seen>>
    BY <1>10 DEF SendJunk, scan
<1>11. ASSUME NEW p \in Replicas, Subscribe(p) \/ HandleJunk(p) \/ Drop(p)
       PROVE  /\ UNCHANGED seen
              /\ \A q \in Replicas : listener'[q] = "scan" =>
                 /\ listener[q] = "scan" /\ handling'[q] = handling[q]
                 /\ toScan'[q] = toScan[q] /\ found'[q] = found[q]
  <2>1. CASE Subscribe(p)
      BY <2>1 DEF Subscribe, scan, TypeInv, TypeOK
  <2>2. CASE HandleJunk(p)
      BY <2>2 DEF HandleJunk, scan, TypeInv, TypeOK
  <2>3. CASE Drop(p)
      BY <2>3 DEF Drop, EndScan, TypeInv, TypeOK
  <2>. QED
      BY <1>11, <2>1, <2>2, <2>3
<1>12. ASSUME NEW p \in Replicas, HandleUpdate(p),
              NEW q \in Replicas, NEW k \in Keys
       PROVE  /\ StoredNext(k, seen'[q])
              /\ listener'[q] = "scan" /\ k \notin toScan'[q] \cup found'[q] =>
                     StoredNext(k, handling'[q])
  <2>1. /\ toScan'[p] = Keys /\ UNCHANGED seen
        /\ q # p => /\ listener'[q] = listener[q] /\ handling'[q] = handling[q]
                    /\ toScan'[q] = toScan[q] /\ found'[q] = found[q]
      BY <1>12 DEF HandleUpdate, TypeInv, TypeOK
  <2>. QED
      BY <1>4, <1>5, <2>1
<1>13. ASSUME NEW p \in Replicas, NEW j \in Keys, ScanKey(p, j),
              NEW q \in Replicas, NEW k \in Keys
       PROVE  /\ StoredNext(k, seen'[q])
              /\ listener'[q] = "scan" /\ k \notin toScan'[q] \cup found'[q] =>
                     StoredNext(k, handling'[q])
  <2>1. /\ UNCHANGED <<listener, handling, seen, now, cached, expires>>
        /\ toScan'[p] = toScan[p] \ {j}
        /\ found'[p] = IF Cache!Live(j) THEN found[p] \cup {j} ELSE found[p]
        /\ q # p => toScan'[q] = toScan[q] /\ found'[q] = found[q]
      BY <1>13 DEF ScanKey, store, TypeInv, TypeOK
  <2>2. CASE q = p /\ k = j /\ ~Cache!Live(j)
      BY <1>4, <2>1, <2>2 DEF Cache!Live, StoredNext
  <2>3. CASE ~(q = p /\ k = j /\ ~Cache!Live(j))
      BY <1>4, <1>5, <2>1, <2>3
  <2>. QED
      BY <2>2, <2>3
<1>14. ASSUME NEW p \in Replicas, DeleteFound(p),
              NEW q \in Replicas, NEW k \in Keys
       PROVE  /\ StoredNext(k, seen'[q])
              /\ listener'[q] = "scan" /\ k \notin toScan'[q] \cup found'[q] =>
                     StoredNext(k, handling'[q])
  <2>1. /\ listener[p] = "scan" /\ toScan[p] = {}
        /\ listener'[p] = "listening"
        /\ seen'[p] \in {handling[p], seen[p]}
        /\ q # p => /\ listener'[q] = listener[q] /\ handling'[q] = handling[q]
                    /\ toScan'[q] = toScan[q] /\ found'[q] = found[q]
                    /\ seen'[q] = seen[q]
      BY <1>14 DEF DeleteFound, HandledBy, EndScan, TypeInv, TypeOK
  <2>2. k \in found[p] => cached'[k] = 0
      BY <1>14 DEF DeleteFound, Cache!Evict
  <2>3. StoredNext(k, seen'[p])
    <3>1. CASE k \in found[p]
        BY <2>2, <3>1 DEF StoredNext
    <3>2. CASE k \notin found[p]
        BY <1>4, <1>5, <2>1, <3>2
    <3>. QED
        BY <3>1, <3>2
  <2>. QED
      BY <1>4, <1>5, <2>1, <2>3
<1>15. CASE UNCHANGED <<listener, handling, toScan, found, seen>>
    BY <1>7, <1>15
<1>16. CASE \E p \in Replicas : Subscribe(p) \/ HandleJunk(p) \/ Drop(p)
    BY <1>7, <1>11, <1>16
<1>17. CASE \E p \in Replicas :
              HandleUpdate(p) \/ (\E j \in Keys : ScanKey(p, j)) \/ DeleteFound(p)
    BY <1>12, <1>13, <1>14, <1>17
<1>. QED
    BY <1>8, <1>9, <1>10, <1>15, <1>16, <1>17, ListenerFrame

\* Push-based invalidation does what it is for: once a replica has handled an
\* announcement, no entry that was stored before the update is left, for any
\* interleaving of SCAN and DEL with lookups, updates and other replicas.
THEOREM PushInvalidatesCorrect == Spec => []PushInvalidates
<1>1. Init => PushInv
  <2>. SUFFICES ASSUME Init PROVE PushInv
      OBVIOUS
  <2>1. SinceInv
    <3>1. version = 1 /\ now = 0 /\ since = [v \in 1..MaxVersion |-> 0]
        BY DEF Init, Cache!Init, Cache!Versions
    <3>. QED
        BY <3>1, CacheAssumption DEF SinceInv
  <2>2. ScanInv
      BY DEF Init, ScanInv
  <2>3. PushInvalidates
      BY DEF Init, Cache!Init, PushInvalidates, Cache!Live
  <2>. QED
      BY <2>1, <2>2, <2>3 DEF PushInv
<1>2. PushInv => PushInvalidates
    BY DEF PushInv
<1>. QED
    BY <1>1, <1>2, TypeInit, TypeStep, SignalInit, SignalStep, PushStep, PTL DEF Spec

=============================================================================
