--------------------------- MODULE AlertConsumer ---------------------------
(***************************************************************************)
(* The alert consumer: the one process that reads request_events through   *)
(* the group alert-cg, matches signatures, deduplicates the alerts, counts *)
(* requests per second, scores them against a baseline, and publishes      *)
(* alerts and metric snapshots.                                            *)
(*                                                                         *)
(* The process may die at any await (no error of Redis is caught) and is   *)
(* started again under the same CONSUMER_NAME with empty memory; life      *)
(* numbers its incarnations.  Mean, variance and z-score of a baseline are *)
(* abstracted: once a baseline is warm, any sample may be an anomaly.      *)
(***************************************************************************)
EXTENDS Integers, FiniteSets, Sequences, FiniteSetsExt

CONSTANTS
    Contents,        \* what an entry may hold: see ContentsAssumption
    Endpoints,
    Sources,         \* remote_ip_hash values
    READ_COUNT,
    SECOND,          \* instants per second of time.time()
    DEDUP_WINDOW,
    SWEEP_EVERY,
    MIN_SAMPLES,     \* MIN_SAMPLES_BEFORE_SCORING
    BASELINE_TTL,
    EVICT_EVERY,     \* BASELINE_EVICT_EVERY_S
    STREAM_MAXLEN,
    MaxEntries,      \* bound: entries ever added
    MaxTime,         \* bound: the last instant
    MaxCrashes       \* bound: crashes

Rules == {"SQLI", "XSS", "PATH_TRAVERSAL"}

\* rules is what scan_event answers for the entry, in the order of RULESETS and
\* each rule at most once.
ASSUME ContentsAssumption ==
    /\ IsFiniteSet(Endpoints)
    /\ Contents # {}
    /\ \A c \in Contents :
        /\ c.parses \in BOOLEAN
        /\ c.endpoint \in Endpoints
        /\ c.source \in Sources
        /\ c.rules \in Seq(Rules)
        /\ \A i, j \in DOMAIN c.rules : c.rules[i] = c.rules[j] => i = j

ASSUME BoundsAssumption ==
    /\ {READ_COUNT, SECOND, STREAM_MAXLEN} \subseteq Nat \ {0}
    /\ {DEDUP_WINDOW, SWEEP_EVERY, MIN_SAMPLES} \subseteq Nat
    /\ {BASELINE_TTL, EVICT_EVERY, MaxEntries, MaxTime, MaxCrashes} \subseteq Nat

VARIABLES
    now,
    added, trimmed, content,       \* the stream: entries trimmed+1 .. added
    groupExists, lastDelivered, pel,
    pc,
    batch,       \* entries read and not looked at yet
    ackIds,      \* entries of this batch that are done with
    event,       \* the entry process_message is at, 0 for none
    todo,        \* its rules that are not handled yet
    alert,       \* the alert that is being published
    recent,      \* _recent, a function on the keys it holds
    lastSweep,   \* _last_sweep
    buckets,     \* _buckets: requests per second and endpoint
    ticks,       \* samples of this tick that are not scored yet
    total,       \* their sum, for the snapshot
    baselines,   \* _baselines, a function on the endpoints it holds
    lastEvict,
    life,        \* history: number of starts
    born,        \* history: when this incarnation began to count
    alerts,      \* history: the published alerts
    scanned,     \* history: entries that went through process_message
    lost,        \* history: entries in memory and not scanned at a crash
    recorded,    \* history: requests this incarnation recorded
    shown        \* history: requests its snapshots reported

stream == <<added, trimmed, content>>
group == <<groupExists, lastDelivered, pel>>
work == <<batch, ackIds, event, todo, alert>>
dedup == <<recent, lastSweep>>
scoring == <<ticks, total, baselines, lastEvict>>
history == <<life, born, alerts, scanned, lost, recorded, shown>>
vars == <<now, stream, group, pc, work, dedup, buckets, scoring, history>>

Entries == 1..MaxEntries
Sec(t) == t \div SECOND
Seconds == 0..Sec(MaxTime)
Keys == (Rules \X Sources) \cup ({"BEHAVIORAL_ANOMALY"} \X Endpoints)
Empty == [k \in {} |-> 0]

\* "drop" and "read" await an XREADGROUP, "dropAck" the XACK of what was dropped,
\* "scan" at the end of a batch its XACK, "publish" and "snapshot" a PUBLISH;
\* the other locations are between local steps.
Locations == {"down", "drop", "dropAck", "read", "scan", "match", "publish",
              "tick", "score", "snapshot"}
Alerts == [key : Keys, entry : 0..MaxEntries, at : 0..MaxTime, life : 0..(MaxCrashes + 1)]
NoAlert == [key |-> <<>>, entry |-> 0, at |-> 0, life |-> 0]

TypeOK ==
    /\ now \in 0..MaxTime
    /\ added \in 0..MaxEntries /\ trimmed \in 0..added
    /\ content \in [Entries -> Contents]
    /\ groupExists \in BOOLEAN
    /\ lastDelivered \in 0..added
    /\ pel \subseteq 1..lastDelivered
    /\ pc \in Locations
    /\ batch \subseteq Entries /\ ackIds \subseteq Entries
    /\ event \in 0..MaxEntries
    /\ todo \in Seq(Rules)
    /\ alert \in Alerts \cup {NoAlert}
    /\ DOMAIN recent \subseteq Keys
    /\ recent \in [DOMAIN recent -> [first : 0..now, count : Nat \ {0}]]
    /\ lastSweep \in Int
    /\ buckets \in [Seconds \X Endpoints -> Nat]
    /\ ticks \subseteq [sec : Seconds, endpoint : Endpoints, rps : Nat]
    /\ total \in Nat
    /\ DOMAIN baselines \subseteq Endpoints
    /\ baselines \in [DOMAIN baselines -> [samples : Nat \ {0}, seen : 0..now]]
    /\ {lastEvict, born} \subseteq 0..now
    /\ life \in 0..(MaxCrashes + 1)
    /\ alerts \subseteq Alerts
    /\ scanned \subseteq Entries /\ lost \subseteq Entries
    /\ recorded \in Nat /\ shown \in Nat

Init ==
    /\ now = 0
    /\ added = 0 /\ trimmed = 0
    /\ content = [e \in Entries |-> CHOOSE c \in Contents : TRUE]
    /\ groupExists = FALSE /\ lastDelivered = 0 /\ pel = {}
    /\ pc = "down"
    /\ batch = {} /\ ackIds = {} /\ event = 0 /\ todo = <<>> /\ alert = NoAlert
    /\ recent = Empty /\ lastSweep = -SWEEP_EVERY
    /\ buckets = [b \in Seconds \X Endpoints |-> 0]
    /\ ticks = {} /\ total = 0 /\ baselines = Empty /\ lastEvict = 0
    /\ life = 0 /\ born = 0
    /\ alerts = {} /\ scanned = {} /\ lost = {} /\ recorded = 0 /\ shown = 0

-----------------------------------------------------------------------------
(* Time and the producers.                                                  *)

Tick ==
    /\ now < MaxTime
    /\ now' = now + 1
    /\ UNCHANGED <<stream, group, pc, work, dedup, buckets, scoring, history>>

\* MAXLEN ~ drops whole nodes but never cuts below MAXLEN.
TrimPoints(n) == {t \in trimmed..n : t = trimmed \/ t <= n - STREAM_MAXLEN}

Emit(c) ==
    /\ added < MaxEntries
    /\ added' = added + 1
    /\ content' = [content EXCEPT ![added + 1] = c]
    /\ trimmed' \in TrimPoints(added + 1)
    /\ UNCHANGED <<now, group, pc, work, dedup, buckets, scoring, history>>

\* The n smallest elements of S: Redis answers in the order of the ids.
FirstN(S, n) == {e \in S : Cardinality({x \in S : x <= e}) <= n}

-----------------------------------------------------------------------------
(* Start and crash.                                                         *)

\* Mutant: the group is created at $ on every start.
EnsureConsumerGroupAtEnd ==
    /\ groupExists' = TRUE
    /\ lastDelivered' = IF groupExists THEN lastDelivered ELSE added

\* ensure_consumer_group: created at id 0, BUSYGROUP is ignored.
EnsureConsumerGroup ==
    /\ groupExists' = TRUE
    /\ UNCHANGED lastDelivered

Start ==
    /\ pc = "down"
    /\ EnsureConsumerGroup
    /\ pc' = "drop"
    /\ life' = life + 1
    /\ UNCHANGED <<now, stream, pel, work, dedup, buckets, scoring,
                   born, alerts, scanned, lost, recorded, shown>>

\* The process dies; all that is in memory goes with it.
Crash ==
    /\ pc # "down"
    /\ life <= MaxCrashes
    /\ pc' = "down"
    /\ lost' = lost \cup batch
    /\ batch' = {} /\ ackIds' = {} /\ event' = 0 /\ todo' = <<>> /\ alert' = NoAlert
    /\ recent' = Empty /\ lastSweep' = -SWEEP_EVERY
    /\ buckets' = [b \in Seconds \X Endpoints |-> 0]
    /\ ticks' = {} /\ total' = 0 /\ baselines' = Empty /\ lastEvict' = 0
    /\ born' = 0 /\ recorded' = 0 /\ shown' = 0
    /\ UNCHANGED <<now, stream, group, life, alerts, scanned>>

\* Mutant: pending entries are detected again, as the analytics worker does.
DropOwnPendingReplayed ==
    /\ pc = "drop"
    /\ pc' = IF pel = {} THEN "read" ELSE "scan"
    /\ batch' = FirstN(pel, READ_COUNT)
    /\ born' = now /\ lastEvict' = now
    /\ UNCHANGED <<now, stream, group, ackIds, event, todo, alert, dedup, buckets, ticks,
                   total, baselines, life, alerts, scanned, lost, recorded, shown>>

\* XREADGROUP of the own PEL; run enters its loop when it is empty.
DropOwnPending ==
    /\ pc = "drop"
    /\ ackIds' = FirstN(pel, READ_COUNT)
    /\ \/ /\ pel # {}
          /\ pc' = "dropAck"
          /\ UNCHANGED <<born, lastEvict>>
       \/ /\ pel = {}
          /\ pc' = "read"
          /\ born' = now /\ lastEvict' = now
    /\ UNCHANGED <<now, stream, group, batch, event, todo, alert, dedup, buckets, ticks,
                   total, baselines, life, alerts, scanned, lost, recorded, shown>>

DropAck ==
    /\ pc = "dropAck"
    /\ pel' = pel \ ackIds
    /\ ackIds' = {}
    /\ pc' = "drop"
    /\ UNCHANGED <<now, stream, groupExists, lastDelivered, batch, event, todo, alert,
                   dedup, buckets, scoring, history>>

-----------------------------------------------------------------------------
(* The deduplication window.                                                *)

\* Mutant: the sweep forgets what it should keep for the whole window.
SweptEarly ==
    IF now - lastSweep < SWEEP_EVERY THEN recent
    ELSE [k \in {j \in DOMAIN recent : now - recent[j].first < SWEEP_EVERY} |-> recent[k]]

\* _sweep: expired entries go, at most once in SWEEP_EVERY.
Swept ==
    IF now - lastSweep < SWEEP_EVERY THEN recent
    ELSE [k \in {j \in DOMAIN recent : now - recent[j].first <= DEDUP_WINDOW} |-> recent[k]]

\* Is there no entry for k, or an expired one?
FreshWindow(k) ==
    k \in DOMAIN Swept => now - Swept[k].first > DEDUP_WINDOW

\* Mutant: every occurrence begins the window again.
CountedSliding(k) == [first |-> now, count |-> recent[k].count + 1]

Counted(k) == [recent[k] EXCEPT !.count = @ + 1]

\* should_publish, with entry e's alert to be published or suppressed.
ShouldPublish(k, e, published, suppressed) ==
    /\ lastSweep' = IF now - lastSweep < SWEEP_EVERY THEN lastSweep ELSE now
    /\ \/ /\ FreshWindow(k)
          /\ recent' = [j \in DOMAIN Swept \cup {k} |->
                           IF j = k THEN [first |-> now, count |-> 1] ELSE Swept[j]]
          /\ alert' = [key |-> k, entry |-> e, at |-> now, life |-> life]
          /\ pc' = published
       \/ /\ ~FreshWindow(k)
          /\ recent' = [Swept EXCEPT ![k] = Counted(k)]
          /\ pc' = suppressed
          /\ UNCHANGED alert

\* _publish of an alert; then the next rule, or the next sample.
Publish ==
    /\ pc = "publish"
    /\ alerts' = alerts \cup {alert}
    /\ alert' = NoAlert
    /\ pc' = IF event = 0 THEN "score" ELSE "match"
    /\ UNCHANGED <<now, stream, group, batch, ackIds, event, todo, dedup, buckets, scoring,
                   life, born, scanned, lost, recorded, shown>>

-----------------------------------------------------------------------------
(* The loop of run.                                                         *)

NewMessages == FirstN({e \in 1..added : e > lastDelivered /\ e > trimmed}, READ_COUNT)

\* XREADGROUP >: new entries, or nothing when BLOCK_MS is over.
Read ==
    /\ pc = "read"
    /\ \/ /\ NewMessages # {}
          /\ lastDelivered' = Max(NewMessages)
          /\ pc' = "scan"
       \/ /\ NewMessages = {}
          /\ pc' = "tick"
          /\ UNCHANGED lastDelivered
    /\ pel' = pel \cup NewMessages
    /\ batch' = NewMessages
    /\ UNCHANGED <<now, stream, groupExists, ackIds, event, todo, alert, dedup, buckets,
                   scoring, history>>

\* The next message: parse_alert_event drops it or process_message begins.
Scan ==
    /\ pc = "scan"
    /\ batch # {}
    /\ LET e == Min(batch)
       IN  /\ batch' = batch \ {e}
           /\ ackIds' = ackIds \cup {e}
           /\ scanned' = scanned \cup {e}
           /\ \/ /\ content[e].parses
                 /\ event' = e
                 /\ todo' = content[e].rules
                 /\ pc' = "match"
              \/ /\ ~content[e].parses
                 /\ UNCHANGED <<event, todo, pc>>
    /\ UNCHANGED <<now, stream, group, alert, dedup, buckets, scoring,
                   life, born, alerts, lost, recorded, shown>>

\* process_message: one matched rule.
Match ==
    /\ pc = "match"
    /\ todo # <<>>
    /\ ShouldPublish(<<Head(todo), content[event].source>>, event, "publish", "match")
    /\ todo' = Tail(todo)
    /\ UNCHANGED <<now, stream, group, batch, ackIds, event, buckets, scoring, history>>

\* The end of process_message: rps_window.record.
Record ==
    /\ pc = "match"
    /\ todo = <<>>
    /\ buckets' = [buckets EXCEPT ![<<Sec(now), content[event].endpoint>>] = @ + 1]
    /\ recorded' = recorded + 1
    /\ event' = 0
    /\ pc' = "scan"
    /\ UNCHANGED <<now, stream, group, batch, ackIds, todo, alert, dedup, scoring,
                   life, born, alerts, scanned, lost, shown>>

\* Mutant: poison entries are not acknowledged.
AckParsed ==
    /\ pc = "scan"
    /\ batch = {}
    /\ pel' = pel \ {e \in ackIds : content[e].parses}
    /\ ackIds' = {}
    /\ pc' = "tick"
    /\ UNCHANGED <<now, stream, groupExists, lastDelivered, batch, event, todo, alert,
                   dedup, buckets, scoring, history>>

\* The XACK at the end of a batch, matched or not.
Ack ==
    /\ pc = "scan"
    /\ batch = {}
    /\ pel' = pel \ ackIds
    /\ ackIds' = {}
    /\ pc' = "tick"
    /\ UNCHANGED <<now, stream, groupExists, lastDelivered, batch, event, todo, alert,
                   dedup, buckets, scoring, history>>

-----------------------------------------------------------------------------
(* Requests per second, the baselines and the snapshot.                     *)

\* Mutant: the second that is still running is drained as well.
CompletedTooEarly == {b \in Seconds \X Endpoints : b[1] <= Sec(now) /\ buckets[b] > 0}

\* The buckets that tick pops.
Completed == {b \in Seconds \X Endpoints : b[1] < Sec(now) /\ buckets[b] > 0}

\* Mutant: drained buckets are not popped.
LeftAfterTickAll == buckets

LeftAfterTick == [b \in DOMAIN buckets |-> IF b \in Completed THEN 0 ELSE buckets[b]]

Requests(B) == MapThenSumSet(LAMBDA b : buckets[b], B)

\* RollingRpsCounter.tick.
TickWindow ==
    /\ pc = "tick"
    /\ ticks' = {[sec |-> b[1], endpoint |-> b[2], rps |-> buckets[b]] : b \in Completed}
    /\ total' = Requests(Completed)
    /\ buckets' = LeftAfterTick
    /\ pc' = "score"
    /\ UNCHANGED <<now, stream, group, work, dedup, baselines, lastEvict, history>>

\* Mutant: the sample for which a baseline is made does not count.
SampledLate(p) ==
    [samples |-> IF p \in DOMAIN baselines THEN baselines[p].samples + 1 ELSE 0,
     seen    |-> now]

\* score_rps: the baseline of p with one more sample.
Sampled(p) ==
    [samples |-> IF p \in DOMAIN baselines THEN baselines[p].samples + 1 ELSE 1,
     seen    |-> now]

\* score_baselines: one sample, oldest second first.
Score(s) ==
    /\ pc = "score"
    /\ s \in ticks
    /\ \A o \in ticks : s.sec <= o.sec
    /\ ticks' = ticks \ {s}
    /\ baselines' = [p \in DOMAIN baselines \cup {s.endpoint} |->
                        IF p = s.endpoint THEN Sampled(p) ELSE baselines[p]]
    /\ \/ /\ UNCHANGED <<pc, alert, dedup>>
       \/ /\ Sampled(s.endpoint).samples >= MIN_SAMPLES
          /\ Sampled(s.endpoint).samples > 1
          /\ ShouldPublish(<<"BEHAVIORAL_ANOMALY", s.endpoint>>, 0, "publish", "score")
    /\ UNCHANGED <<now, stream, group, batch, ackIds, event, todo, buckets, total, lastEvict,
                   history>>

ScoreDone ==
    /\ pc = "score"
    /\ ticks = {}
    /\ pc' = "snapshot"
    /\ UNCHANGED <<now, stream, group, work, dedup, buckets, scoring, history>>

\* evict_idle, when it is due.
Kept ==
    IF now - lastEvict >= EVICT_EVERY
      THEN [p \in {q \in DOMAIN baselines : baselines[q].seen >= now - BASELINE_TTL} |->
               baselines[p]]
      ELSE baselines

\* publish_metric_snapshot, the eviction, and the next XREADGROUP.
PublishMetricSnapshot ==
    /\ pc = "snapshot"
    /\ shown' = shown + total
    /\ total' = 0
    /\ baselines' = Kept
    /\ lastEvict' = IF now - lastEvict >= EVICT_EVERY THEN now ELSE lastEvict
    /\ pc' = "read"
    /\ UNCHANGED <<now, stream, group, work, dedup, buckets, ticks,
                   life, born, alerts, scanned, lost, recorded>>

Next ==
    \/ Tick
    \/ \E c \in Contents : Emit(c)
    \/ Start \/ Crash \/ DropOwnPending \/ DropAck
    \/ Read \/ Scan \/ Match \/ Publish \/ Record \/ Ack
    \/ TickWindow \/ ScoreDone \/ PublishMetricSnapshot
    \/ \E s \in ticks : Score(s)

Spec == Init /\ [][Next]_vars

-----------------------------------------------------------------------------
(* Properties.                                                              *)

\* No event raises the same alert twice, whatever the crashes and restarts:
\* what the module docstring trades missed alerts for ("an accepted trade for
\* not double-alerting").
NoDoubleAlert ==
    \A a, b \in alerts : a.entry = b.entry /\ a.entry # 0 /\ a.key = b.key => a = b

\* Events are missed only when the process dies with them in memory: all the
\* others that were delivered are scanned, even those from before the group.
MissedOnlyByCrash ==
    \A e \in 1..lastDelivered :
        e \in scanned \cup batch \cup lost \/ e <= trimmed

\* Past its start the consumer's PEL is exactly the batch in hand: no dead
\* run's backlog stays, and none builds up on entries that match nothing.
NoBacklog ==
    pc \notin {"down", "drop", "dropAck"} => pel = batch \cup ackIds

\* Alerts of one incarnation with the same type and source are decided more
\* than DEDUP_WINDOW apart, however the sweeps fall.
DedupSpacing ==
    \A a, b \in alerts :
        a.life = b.life /\ a.key = b.key /\ a # b =>
            a.at - b.at > DEDUP_WINDOW \/ b.at - a.at > DEDUP_WINDOW

\* Whenever an occurrence is suppressed, an alert for its type and source has
\* really been published within the window before it.
SuppressionJustified ==
    [][\A k \in DOMAIN recent \cap DOMAIN recent' :
          recent'[k].count > recent[k].count =>
              \E a \in alerts : /\ a.life = life /\ a.key = k
                               /\ now - a.at <= DEDUP_WINDOW]_vars

\* Every request that was recorded is in exactly one snapshot, in the samples
\* of the tick under way or in a bucket: none is shown twice or dropped.
SnapshotsAddUp ==
    shown + total + Requests(Seconds \X Endpoints) = recorded

\* A baseline gets at most one sample per completed second since the start, so
\* the cold start lasts at least MIN_SAMPLES seconds however fast the loop runs.
OneSamplePerSecond ==
    \A p \in DOMAIN baselines :
        baselines[p].samples + Cardinality({s \in ticks : s.endpoint = p})
            <= Sec(now) - Sec(born)

=============================================================================
