---------------------------- MODULE PolicyCache ----------------------------
(***************************************************************************)
(* Hot reload of a tenant's policy: the updates of update_policy, the      *)
(* lookups of get_policy, and the listener of each gateway replica that    *)
(* deletes the tenant's cached policies when an update is announced on     *)
(* policy:invalidate.  The lookups, the row and the cache are those of     *)
(* ReadThroughCache.                                                       *)
(*                                                                         *)
(* Pub/Sub keeps nothing: a message reaches the replicas that are          *)
(* subscribed when it is published, and is gone with the connection.       *)
(***************************************************************************)
EXTENDS Integers, Sequences

CONSTANTS
    Keys, Known, Slots, TTL, Delay, MaxVersion, MaxTime,  \* see ReadThroughCache
    Admins,     \* calls of update_policy at a time
    Replicas,   \* gateway replicas, each with one listener
    None,       \* no transaction holds the row's lock
    Junk,       \* kinds of malformed message that are sent on the channel
    MaxJunk     \* bound: malformed messages ever sent

\* What ReadThroughCache assumes of its constants.
ASSUME CacheAssumption ==
    /\ Known \subseteq Keys
    /\ TTL \in Nat \ {0}
    /\ {Delay, MaxTime} \subseteq Nat
    /\ MaxVersion \in Nat \ {0}

ASSUME HotReloadAssumption ==
    /\ None \notin Admins
    /\ Junk \subseteq {"not_json", "no_tenant", "not_object"}
    /\ MaxJunk \in Nat

VARIABLES
    now, version, since, cached, expires, pc, key, got, at, late,
    lock,       \* the update whose transaction holds the row's lock
    apc,        \* where each update is
    expected,   \* its expected_version
    basedOn,    \* history: basedOn[v] is the expected_version that made v
    listener,   \* what each replica's listener does
    inbox,      \* the messages its connection holds
    handling,   \* the new_version of the message it handles
    toScan,     \* keys its SCAN has not come to
    found,      \* keys its SCAN has returned
    seen,       \* history: the newest version whose message it has handled
    junk        \* malformed messages sent so far

Cache == INSTANCE ReadThroughCache

store == <<now, version, since, cached, expires, pc, key, got, at, late>>
update == <<lock, apc, expected, basedOn>>
scan == <<handling, toScan, found>>
vars == <<store, update, listener, inbox, scan, seen, junk>>

Update(v) == [kind |-> "update", ver |-> v]
Messages == [kind : {"update"} \cup Junk, ver : 0..MaxVersion]
Subscribed == {p \in Replicas : listener[p] \in {"listening", "scan"}}

TypeOK ==
    /\ Cache!TypeOK
    /\ lock \in Admins \cup {None}
    /\ apc \in [Admins -> {"idle", "update", "commit", "publish"}]
    /\ \A a \in Admins : apc[a] = "commit" <=> lock = a
    /\ expected \in [Admins -> 1..MaxVersion]
    /\ basedOn \in [1..MaxVersion -> 0..MaxVersion]
    /\ listener \in [Replicas -> {"down", "listening", "scan", "dead"}]
    /\ inbox \in [Replicas -> Seq(Messages)]
    /\ handling \in [Replicas -> 0..MaxVersion]
    /\ toScan \in [Replicas -> SUBSET Keys]
    /\ found \in [Replicas -> SUBSET Keys]
    /\ seen \in [Replicas -> 0..MaxVersion]
    /\ junk \in 0..MaxJunk

Init ==
    /\ Cache!Init
    /\ lock = None
    /\ apc = [a \in Admins |-> "idle"]
    /\ expected = [a \in Admins |-> 1]
    /\ basedOn = [v \in 1..MaxVersion |-> 0]
    /\ listener = [p \in Replicas |-> "down"]
    /\ inbox = [p \in Replicas |-> <<>>]
    /\ handling = [p \in Replicas |-> 0]
    /\ toScan = [p \in Replicas |-> {}]
    /\ found = [p \in Replicas |-> {}]
    /\ seen = [p \in Replicas |-> 0]
    /\ junk = 0

-----------------------------------------------------------------------------
(* Lookups and time.                                                        *)

Lookups ==
    /\ \/ Cache!Tick
       \/ \E r \in Slots : Cache!Read(r)
       \/ \E l \in late : Cache!StoreLate(l)
    /\ UNCHANGED <<update, listener, inbox, scan, seen, junk>>

-----------------------------------------------------------------------------
(* update_policy.                                                           *)

\* PUBLISH: every subscribed connection gets the message.
Deliver(m) ==
    inbox' = [p \in Replicas |-> IF p \in Subscribed THEN Append(inbox[p], m) ELSE inbox[p]]

\* The request is answered.
Answered(a) ==
    /\ apc' = [apc EXCEPT ![a] = "idle"]
    /\ expected' = [expected EXCEPT ![a] = 1]

\* The client sends a version that it has seen.
Request(a) ==
    /\ apc[a] = "idle"
    /\ apc' = [apc EXCEPT ![a] = "update"]
    /\ \E v \in 1..version : expected' = [expected EXCEPT ![a] = v]
    /\ UNCHANGED <<store, lock, basedOn, listener, inbox, scan, seen, junk>>

\* Mutant: no optimistic lock.
UpdateRowUnchecked(a) ==
    /\ apc[a] = "update"
    /\ lock = None
    /\ version < MaxVersion
    /\ lock' = a
    /\ apc' = [apc EXCEPT ![a] = "commit"]
    /\ UNCHANGED <<store, expected, basedOn, listener, inbox, scan, seen, junk>>

\* Mutant: the update is announced before it is committed.
UpdateRowPublishing(a) ==
    /\ apc[a] = "update"
    /\ lock = None
    /\ expected[a] = version /\ version < MaxVersion
    /\ lock' = a
    /\ apc' = [apc EXCEPT ![a] = "commit"]
    /\ Deliver(Update(version + 1))
    /\ UNCHANGED <<store, expected, basedOn, listener, scan, seen, junk>>

\* The UPDATE waits for the row's lock and then sees the committed version.
UpdateRow(a) ==
    /\ apc[a] = "update"
    /\ lock = None
    /\ expected[a] = version /\ version < MaxVersion
    /\ lock' = a
    /\ apc' = [apc EXCEPT ![a] = "commit"]
    /\ UNCHANGED <<store, expected, basedOn, listener, inbox, scan, seen, junk>>

\* 409: the policy has another version by now.
Conflict(a) ==
    /\ apc[a] = "update"
    /\ lock = None
    /\ expected[a] # version
    /\ Answered(a)
    /\ UNCHANGED <<store, lock, basedOn, listener, inbox, scan, seen, junk>>

\* 404: the policy is not the tenant's.
NotFound(a) ==
    /\ apc[a] = "update"
    /\ Answered(a)
    /\ UNCHANGED <<store, lock, basedOn, listener, inbox, scan, seen, junk>>

Commit(a) ==
    /\ apc[a] = "commit"
    /\ Cache!Commit
    /\ lock' = None
    /\ basedOn' = [basedOn EXCEPT ![version + 1] = expected[a]]
    /\ apc' = [apc EXCEPT ![a] = "publish"]
    /\ UNCHANGED <<expected, listener, inbox, scan, seen, junk>>

\* Mutant: the lock of a failed transaction is kept.
RollbackKeepingLock(a) ==
    /\ apc[a] = "commit"
    /\ Answered(a)
    /\ UNCHANGED <<store, lock, basedOn, listener, inbox, scan, seen, junk>>

\* The commit fails, or the session ends before it.
Rollback(a) ==
    /\ apc[a] = "commit"
    /\ lock' = None
    /\ Answered(a)
    /\ UNCHANGED <<store, basedOn, listener, inbox, scan, seen, junk>>

\* A RedisError of the PUBLISH is a 500 for a change that is committed; the
\* message is lost, or was delivered before the answer timed out.
Publish(a) ==
    /\ apc[a] = "publish"
    /\ Answered(a)
    /\ \/ Deliver(Update(expected[a] + 1))
       \/ UNCHANGED inbox
    /\ UNCHANGED <<store, lock, basedOn, listener, scan, seen, junk>>

\* Some other client of Redis sends what update_policy would not.
SendJunk(kind) ==
    /\ junk < MaxJunk
    /\ junk' = junk + 1
    /\ Deliver([kind |-> kind, ver |-> 0])
    /\ UNCHANGED <<store, update, listener, scan, seen>>

-----------------------------------------------------------------------------
(* listen_for_invalidations.                                                *)

Subscribe(p) ==
    /\ listener[p] = "down"
    /\ listener' = [listener EXCEPT ![p] = "listening"]
    /\ UNCHANGED <<store, update, inbox, scan, seen, junk>>

\* The locals of a scan are gone when it ends.
EndScan(p) ==
    /\ handling' = [handling EXCEPT ![p] = 0]
    /\ toScan' = [toScan EXCEPT ![p] = {}]
    /\ found' = [found EXCEPT ![p] = {}]

\* A RedisError anywhere in _listen_once, or a restart of the replica.
Drop(p) ==
    /\ p \in Subscribed
    /\ listener' = [listener EXCEPT ![p] = "down"]
    /\ inbox' = [inbox EXCEPT ![p] = <<>>]
    /\ EndScan(p)
    /\ UNCHANGED <<store, update, seen, junk>>

\* An announcement starts the SCAN of the tenant's keys.
HandleUpdate(p) ==
    /\ listener[p] = "listening"
    /\ inbox[p] # <<>>
    /\ Head(inbox[p]).kind = "update"
    /\ listener' = [listener EXCEPT ![p] = "scan"]
    /\ handling' = [handling EXCEPT ![p] = Head(inbox[p]).ver]
    /\ toScan' = [toScan EXCEPT ![p] = Keys]
    /\ found' = [found EXCEPT ![p] = {}]
    /\ inbox' = [inbox EXCEPT ![p] = Tail(inbox[p])]
    /\ UNCHANGED <<store, update, seen, junk>>

\* JSONDecodeError and KeyError are caught; the TypeError of indexing a JSON
\* value that is no object ends the task.
HandleJunk(p) ==
    /\ listener[p] = "listening"
    /\ inbox[p] # <<>>
    /\ Head(inbox[p]).kind # "update"
    /\ listener' = [listener EXCEPT ![p] =
                      IF Head(inbox[p]).kind = "not_object" THEN "dead" ELSE "listening"]
    /\ inbox' = [inbox EXCEPT ![p] = Tail(inbox[p])]
    /\ UNCHANGED <<store, update, scan, seen, junk>>

\* SCAN comes to a key at some time of its own and returns it if it is there.
ScanKey(p, k) ==
    /\ listener[p] = "scan"
    /\ k \in toScan[p]
    /\ toScan' = [toScan EXCEPT ![p] = @ \ {k}]
    /\ found' = [found EXCEPT ![p] = IF Cache!Live(k) THEN @ \cup {k} ELSE @]
    /\ UNCHANGED <<store, update, listener, inbox, handling, seen, junk>>

HandledBy(p) ==
    /\ listener' = [listener EXCEPT ![p] = "listening"]
    /\ seen' = [seen EXCEPT ![p] = IF handling[p] > @ THEN handling[p] ELSE @]
    /\ EndScan(p)
    /\ UNCHANGED <<update, inbox, junk>>

\* Mutants: the key deleted is rebuilt from route_pattern, which is not a key
\* of the cache; the entries are given a new TTL where they should go.
DeleteRebuiltKey(p) ==
    /\ listener[p] = "scan" /\ toScan[p] = {}
    /\ Cache!Evict({})
    /\ HandledBy(p)

DeleteRefreshing(p) ==
    /\ listener[p] = "scan" /\ toScan[p] = {}
    /\ expires' = [k \in Keys |-> IF k \in found[p] THEN now + TTL ELSE expires[k]]
    /\ UNCHANGED <<now, version, since, cached, pc, key, got, at, late>>
    /\ HandledBy(p)

\* One DEL of all the keys that the SCAN returned.
DeleteFound(p) ==
    /\ listener[p] = "scan" /\ toScan[p] = {}
    /\ Cache!Evict(found[p])
    /\ HandledBy(p)

Next ==
    \/ Lookups
    \/ \E a \in Admins :
        \/ Request(a) \/ UpdateRow(a) \/ Conflict(a) \/ NotFound(a)
        \/ Commit(a) \/ Rollback(a) \/ Publish(a)
    \/ \E kind \in Junk : SendJunk(kind)
    \/ \E p \in Replicas :
        \/ Subscribe(p) \/ Drop(p) \/ HandleUpdate(p) \/ HandleJunk(p)
        \/ \E k \in Keys : ScanKey(p, k)
        \/ DeleteFound(p)

Spec == Init /\ [][Next]_vars

-----------------------------------------------------------------------------
(* Properties.                                                              *)

\* Hot reload is an addition to the read-through cache, never a replacement:
\* what it does to the cache are evictions, so that every property of
\* ReadThroughCache holds here, StalenessBound above all, whatever messages
\* are lost, late, doubled or malformed.
ImplementsCache == Cache!Spec

\* Once a listener has handled the announcement of a version, what is cached
\* of an older one was stored no earlier than the update that outdated it:
\* the keys the SCAN returned are all that were there to delete.
PushInvalidates ==
    \A p \in Replicas, k \in Keys :
        Cache!Live(k) /\ cached[k] < seen[p] =>
            expires[k] - TTL >= since[cached[k] + 1]

\* An announcement, queued or being handled, names a version that is
\* committed: commit first, then publish, also when commits fail.
SignalAfterCommit ==
    \A p \in Replicas :
        /\ \A i \in DOMAIN inbox[p] : inbox[p][i].ver <= version
        /\ handling[p] <= version

\* No lost update: every version was made by an update that expected the
\* version before it, however the updates interleave.
NoLostUpdate == \A v \in 2..version : basedOn[v] = v - 1

=============================================================================
