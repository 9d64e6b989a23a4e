------------------------- MODULE AnalyticsConsumer -------------------------
(***************************************************************************)
(* The analytics pipeline: the Redis stream request_events, the consumer   *)
(* group analytics-cg, the analytics worker processes that drain it, and   *)
(* the request_metrics table they increment.                               *)
(*                                                                         *)
(* A stream entry is its position 1, 2, 3, ... in the order of the XADDs.  *)
(* The increments of request_metrics commute, so the table is kept as      *)
(* counted[e], the number of committed upserts entry e contributed to:     *)
(* the total_requests of a row is the sum of counted over its entries.     *)
(*                                                                         *)
(* Every await of the worker is a step boundary; a worker may crash at any *)
(* of them (a Redis or Postgres error is never caught, so it is a crash    *)
(* too) and may be restarted under the same CONSUMER_NAME.                 *)
(***************************************************************************)
EXTENDS Integers, FiniteSets

CONSTANTS
    Consumers,      \* the stable CONSUMER_NAMEs of the group
    Restarting,     \* those that are always restarted after a crash
    None,           \* owner of an entry that is not pending
    BATCH_SIZE,     \* most entries read into one batch
    CLAIM_COUNT,    \* the COUNT of XAUTOCLAIM
    CLAIM_ATTEMPTS, \* most pending entries one XAUTOCLAIM looks at
    STREAM_MAXLEN,  \* the MAXLEN of XADD
    EntryKinds,     \* the kinds of entry that are written to the stream
    LiveMayStall,   \* may an entry in a live worker's memory age past
                    \* XAUTOCLAIM_IDLE_MS (a flush slower than the threshold)?
    MaxEntries,     \* bound: entries ever added
    MaxCrashes      \* bound: crashes

ASSUME ConstantsAssumption ==
    /\ Restarting \subseteq Consumers
    /\ None \notin Consumers
    /\ BATCH_SIZE \in Nat \ {0}
    /\ CLAIM_COUNT \in Nat \ {0}
    /\ CLAIM_ATTEMPTS \in Nat \ {0}
    /\ STREAM_MAXLEN \in Nat \ {0}
    /\ EntryKinds \subseteq {"event", "malformed", "unwritable"}
    /\ LiveMayStall \in BOOLEAN
    /\ MaxEntries \in Nat
    /\ MaxCrashes \in Nat

VARIABLES
    added,          \* entries 1..added have been XADDed
    trimmed,        \* entries 1..trimmed have been trimmed from the stream
    poison,         \* entries that parse_event drops
    unwritable,     \* entries that parse_event accepts and the write refuses: a
                    \* tenant_id that is no UUID, a timestamp out of range
    groupExists,    \* has XGROUP CREATE run?
    lastDelivered,  \* the group's last-delivered id
    owner,          \* owner[e]: consumer whose PEL holds e, or None
    idle,           \* pending entries idle for at least XAUTOCLAIM_IDLE_MS
    counted,        \* counted[e]: committed upserts that included e
    pc,             \* where each worker is
    batch,          \* run()'s batch and batch_ids
    args,           \* the events and msg_ids of the flush_batch call under way
    caller,         \* which coroutine awaits that flush_batch
    cursor,         \* adopt_orphaned_pending's cursor
    crashes,        \* history: number of crashes
    exposed         \* history: exposed[e] counts the crashes between the commit
                    \* of an upsert that included e and the XACK of e

stream == <<added, trimmed, poison, unwritable>>
redis == <<stream, groupExists, lastDelivered, owner, idle>>
worker == <<pc, batch, args, caller, cursor>>
history == <<crashes, exposed>>
vars == <<redis, counted, worker, history>>

Entries == 1..MaxEntries
Work == [ids : SUBSET Entries, events : SUBSET Entries]
NoWork == [ids |-> {}, events |-> {}]

\* "recover", "adopt" and "read" await a Redis read, "write" the upsert and
\* "ack" the XACK of flush_batch.
Locations == {"down", "recover", "adopt", "read", "write", "ack"}
Callers == {"recover", "adopt", "run"}

Pending == {e \in Entries : owner[e] # None}
Live == {c \in Consumers : pc[c] # "down"}

\* The entries a worker has in memory and has not yet acknowledged.
Held(c) == batch[c].ids \cup args[c].ids

\* The n smallest elements of S: Redis answers in the order of the ids.
FirstN(S, n) == {e \in S : Cardinality({x \in S : x <= e}) <= n}

TypeOK ==
    /\ added \in 0..MaxEntries
    /\ trimmed \in 0..added
    /\ poison \subseteq 1..added
    /\ unwritable \subseteq 1..added
    /\ groupExists \in BOOLEAN
    /\ lastDelivered \in 0..added
    /\ owner \in [Entries -> Consumers \cup {None}]
    /\ idle \subseteq Pending
    /\ counted \in [Entries -> Nat]
    /\ pc \in [Consumers -> Locations]
    /\ batch \in [Consumers -> Work]
    /\ args \in [Consumers -> Work]
    /\ caller \in [Consumers -> Callers]
    /\ cursor \in [Consumers -> 0..MaxEntries]
    /\ crashes \in 0..MaxCrashes
    /\ exposed \in [Entries -> Nat]

Init ==
    /\ added = 0 /\ trimmed = 0 /\ poison = {} /\ unwritable = {}
    /\ groupExists = FALSE /\ lastDelivered = 0
    /\ owner = [e \in Entries |-> None]
    /\ idle = {}
    /\ counted = [e \in Entries |-> 0]
    /\ pc = [c \in Consumers |-> "down"]
    /\ batch = [c \in Consumers |-> NoWork]
    /\ args = [c \in Consumers |-> NoWork]
    /\ caller = [c \in Consumers |-> "recover"]
    /\ cursor = [c \in Consumers |-> 0]
    /\ crashes = 0
    /\ exposed = [e \in Entries |-> 0]

-----------------------------------------------------------------------------
(* The stream's producer and the passing of time.                          *)

\* How far an XADD of entry n may trim: MAXLEN ~ drops whole nodes, so it
\* removes any number of the oldest entries but never cuts below MAXLEN.
TrimPoints(n) ==
    {t \in trimmed..n : t = trimmed \/ t <= n - STREAM_MAXLEN}

\* One XADD: a gateway's event, or what a faulty producer wrote.
Emit(kind) ==
    /\ added < MaxEntries
    /\ added' = added + 1
    /\ poison' = IF kind = "malformed" THEN poison \cup {added + 1} ELSE poison
    /\ unwritable' = IF kind = "unwritable" THEN unwritable \cup {added + 1}
                     ELSE unwritable
    /\ trimmed' \in TrimPoints(added + 1)
    /\ UNCHANGED <<groupExists, lastDelivered, owner, idle, counted, worker, history>>

\* Entry e has been pending for XAUTOCLAIM_IDLE_MS since its last delivery.
Age(e) ==
    /\ e \in Pending \ idle
    /\ LiveMayStall \/ \A c \in Live : e \notin Held(c)
    /\ idle' = idle \cup {e}
    /\ UNCHANGED <<stream, groupExists, lastDelivered, owner, counted, worker, history>>

-----------------------------------------------------------------------------
(* flush_batch: the upsert commits atomically, and only then the XACK.      *)

\* Call flush_batch: with no parsed event there are no rows and no write.
CallFlush(c, from, w) ==
    /\ pc' = [pc EXCEPT ![c] = IF w.events = {} THEN "ack" ELSE "write"]
    /\ args' = [args EXCEPT ![c] = w]
    /\ caller' = [caller EXCEPT ![c] = from]

\* The upsert of all rows is one transaction; one bad row fails all of it.
FlushWrite(c) ==
    /\ pc[c] = "write"
    /\ args[c].events \cap unwritable = {}
    /\ counted' = [e \in Entries |->
                     IF e \in args[c].events THEN counted[e] + 1 ELSE counted[e]]
    /\ pc' = [pc EXCEPT ![c] = "ack"]
    /\ UNCHANGED <<redis, batch, args, caller, cursor, history>>

\* Mutant: the exception is swallowed and the batch acknowledged.
FlushRaisesSwallowed(c) ==
    /\ pc[c] = "write"
    /\ args[c].events \cap unwritable # {}
    /\ pc' = [pc EXCEPT ![c] = "ack"]
    /\ UNCHANGED <<redis, counted, batch, args, caller, cursor, history>>

\* The exception ends the process: nothing is written, nothing acknowledged.
FlushRaises(c) ==
    /\ pc[c] = "write"
    /\ args[c].events \cap unwritable # {}
    /\ pc' = [pc EXCEPT ![c] = "down"]
    /\ batch' = [batch EXCEPT ![c] = NoWork]
    /\ args' = [args EXCEPT ![c] = NoWork]
    /\ UNCHANGED <<redis, counted, caller, cursor, history>>

\* XACK removes the ids from the group's PEL, whoever owns them by now.
Xack(ids) ==
    /\ owner' = [e \in Entries |-> IF e \in ids THEN None ELSE owner[e]]
    /\ idle' = idle \ ids
    /\ UNCHANGED <<stream, groupExists, lastDelivered>>

\* flush_batch returns to recover_own_pending or to adopt_orphaned_pending.
FlushAckRecovery(c) ==
    /\ pc[c] = "ack"
    /\ caller[c] # "run"
    /\ Xack(args[c].ids)
    /\ pc' = [pc EXCEPT ![c] =
                IF caller[c] = "adopt" /\ cursor[c] = 0 THEN "read" ELSE caller[c]]
    /\ args' = [args EXCEPT ![c] = NoWork]
    /\ UNCHANGED <<batch, caller, cursor, counted, history>>

\* Mutant: run() does not reset its batch after the flush.
FlushAckRunKeepsBatch(c, sweepDue) ==
    /\ pc[c] = "ack"
    /\ caller[c] = "run"
    /\ Xack(args[c].ids)
    /\ pc' = [pc EXCEPT ![c] = IF sweepDue THEN "adopt" ELSE "read"]
    /\ cursor' = [cursor EXCEPT ![c] = 0]
    /\ args' = [args EXCEPT ![c] = NoWork]
    /\ UNCHANGED <<batch, caller, counted, history>>

\* flush_batch returns to run(), which resets its batch and goes on to the
\* orphan sweep when that is due.
FlushAckRun(c, sweepDue) ==
    /\ pc[c] = "ack"
    /\ caller[c] = "run"
    /\ Xack(args[c].ids)
    /\ pc' = [pc EXCEPT ![c] = IF sweepDue THEN "adopt" ELSE "read"]
    /\ cursor' = [cursor EXCEPT ![c] = 0]
    /\ batch' = [batch EXCEPT ![c] = NoWork]
    /\ args' = [args EXCEPT ![c] = NoWork]
    /\ UNCHANGED <<caller, counted, history>>

-----------------------------------------------------------------------------
(* Startup: ensure_consumer_group, recover_own_pending,                     *)
(* adopt_orphaned_pending.                                                  *)

\* Mutants: the group is made anew at every start; it starts one past the end
\* of the stream.
EnsureConsumerGroupAnew ==
    /\ groupExists' = TRUE
    /\ lastDelivered' = 0

EnsureConsumerGroupPastEnd ==
    /\ groupExists' = TRUE
    /\ lastDelivered' = IF groupExists THEN lastDelivered ELSE added + 1

\* XGROUP CREATE with id 0; BUSYGROUP is ignored.
EnsureConsumerGroup ==
    /\ groupExists' = TRUE
    /\ lastDelivered' = IF groupExists THEN lastDelivered ELSE 0

\* Mutant: no recover_own_pending, only the XAUTOCLAIM sweep.
StartWithoutRecovery(c) ==
    /\ pc[c] = "down"
    /\ EnsureConsumerGroup
    /\ pc' = [pc EXCEPT ![c] = "adopt"]
    /\ cursor' = [cursor EXCEPT ![c] = 0]
    /\ UNCHANGED <<stream, owner, idle, counted, batch, args, caller, history>>

Start(c) ==
    /\ pc[c] = "down"
    /\ EnsureConsumerGroup
    /\ pc' = [pc EXCEPT ![c] = "recover"]
    /\ UNCHANGED <<stream, owner, idle, counted,
                   batch, args, caller, cursor, history>>

\* XREADGROUP ... 0 answers with the oldest entries of the caller's own PEL
\* and restarts their idle time; a trimmed entry comes without fields, which
\* parse_event drops like any poison entry.
RecoverOwnPending(c) ==
    LET own == {e \in Entries : owner[e] = c}
        messages == FirstN(own, BATCH_SIZE)
        present == {e \in messages : e > trimmed}
    IN  /\ pc[c] = "recover"
        /\ IF own = {}
             THEN /\ pc' = [pc EXCEPT ![c] = "adopt"]
                  /\ cursor' = [cursor EXCEPT ![c] = 0]
                  /\ UNCHANGED <<args, caller>>
             ELSE /\ CallFlush(c, "recover",
                               [ids |-> messages, events |-> present \ poison])
                  /\ UNCHANGED cursor
        /\ idle' = idle \ present
        /\ UNCHANGED <<stream, groupExists, lastDelivered, owner,
                       counted, batch, history>>

\* Mutant: min_idle_time is zero.
ClaimableAtOnce == Pending

\* The entries that min_idle_time lets XAUTOCLAIM take over.
Claimable == idle

\* What one XAUTOCLAIM starting at the cursor visits: pending entries in id
\* order until CLAIM_ATTEMPTS of them were looked at or CLAIM_COUNT of them
\* were claimed or found deleted.
Visited(from) ==
    LET inRange == {e \in Pending : e >= from}
        hits == {e \in inRange : e <= trimmed \/ e \in Claimable}
    IN  {e \in FirstN(inRange, CLAIM_ATTEMPTS) :
            Cardinality({x \in hits : x < e}) < CLAIM_COUNT}

\* XAUTOCLAIM's answer: the first pending entry it did not reach, or 0.
IsNextCursor(from, next) ==
    LET rest == {e \in Pending : e >= from} \ Visited(from)
    IN  \/ rest = {} /\ next = 0
        \/ next \in rest /\ \A x \in rest : next <= x

\* One round of adopt_orphaned_pending: idle entries move to the caller's PEL,
\* trimmed ones leave the PEL; the sweep ends when nothing was claimed or,
\* after the flush, when the cursor came back as 0-0.
AdoptOrphanedPending(c) ==
    LET visited == Visited(cursor[c])
        deleted == {e \in visited : e <= trimmed}
        claimed == (visited \cap Claimable) \ deleted
    IN  /\ pc[c] = "adopt"
        /\ owner' = [e \in Entries |-> IF e \in claimed THEN c
                                       ELSE IF e \in deleted THEN None
                                       ELSE owner[e]]
        /\ idle' = idle \ (claimed \cup deleted)
        /\ \E next \in 0..MaxEntries :
              /\ IsNextCursor(cursor[c], next)
              /\ cursor' = [cursor EXCEPT ![c] = next]
        /\ IF claimed = {}
             THEN /\ pc' = [pc EXCEPT ![c] = "read"]
                  /\ UNCHANGED <<args, caller>>
             ELSE CallFlush(c, "adopt", [ids |-> claimed, events |-> claimed \ poison])
        /\ UNCHANGED <<stream, groupExists, lastDelivered,
                       counted, batch, history>>

-----------------------------------------------------------------------------
(* run(): one turn of the main loop.  Both timers are read after the awaits *)
(* of the loop body, so each may or may not have elapsed.                   *)

\* XREADGROUP ... > delivers the next entries that are still in the stream.
LastSeen == IF lastDelivered < trimmed THEN trimmed ELSE lastDelivered

LastRead(c) ==
    LET room == BATCH_SIZE - Cardinality(batch[c].events)
        count == IF room < 1 THEN 1 ELSE room
    IN  IF LastSeen + count > added THEN added ELSE LastSeen + count

NewMessages(c) == (LastSeen + 1)..LastRead(c)

\* The batch with the new messages: every id, and the events that parse.
Extended(c) ==
    [ids    |-> batch[c].ids \cup NewMessages(c),
     events |-> batch[c].events \cup (NewMessages(c) \ poison)]

ReadNew(c) ==
    LET new == NewMessages(c)
    IN  /\ pc[c] = "read"
        /\ owner' = [e \in Entries |-> IF e \in new THEN c ELSE owner[e]]
        /\ lastDelivered' = IF new = {} THEN lastDelivered ELSE LastRead(c)
        /\ batch' = [batch EXCEPT ![c] = Extended(c)]
        /\ UNCHANGED <<stream, groupExists, idle, counted, history>>

\* The batch is full, or it is not empty and BATCH_MAX_WAIT_S has elapsed.
ReadThenFlush(c) ==
    /\ ReadNew(c)
    /\ Extended(c).ids # {}
    /\ CallFlush(c, "run", Extended(c))
    /\ UNCHANGED cursor

\* Mutant: orphans are adopted at startup and after a flush, never by an idle
\* worker.
ReadWithoutSweep(c, sweepDue) ==
    /\ ReadNew(c)
    /\ Cardinality(Extended(c).ids) < BATCH_SIZE
    /\ pc' = [pc EXCEPT ![c] = "read"]
    /\ cursor' = [cursor EXCEPT ![c] = 0]
    /\ UNCHANGED <<args, caller>>

\* No flush is due; the orphan sweep runs if ORPHAN_SWEEP_EVERY_S has elapsed.
ReadWithoutFlush(c, sweepDue) ==
    /\ ReadNew(c)
    /\ Cardinality(Extended(c).ids) < BATCH_SIZE
    /\ pc' = [pc EXCEPT ![c] = IF sweepDue THEN "adopt" ELSE "read"]
    /\ cursor' = [cursor EXCEPT ![c] = 0]
    /\ UNCHANGED <<args, caller>>

-----------------------------------------------------------------------------
(* A crash loses the worker's memory, never the PEL or a committed upsert.  *)

Crash(c) ==
    /\ pc[c] # "down"
    /\ crashes < MaxCrashes
    /\ crashes' = crashes + 1
    /\ exposed' = [e \in Entries |->
                     IF pc[c] = "ack" /\ e \in args[c].events
                     THEN exposed[e] + 1 ELSE exposed[e]]
    /\ pc' = [pc EXCEPT ![c] = "down"]
    /\ batch' = [batch EXCEPT ![c] = NoWork]
    /\ args' = [args EXCEPT ![c] = NoWork]
    /\ UNCHANGED <<redis, counted, caller, cursor>>

\* What worker c does by itself while it is up.
Run(c) ==
    \/ RecoverOwnPending(c)
    \/ AdoptOrphanedPending(c)
    \/ ReadThenFlush(c)
    \/ \E sweepDue \in BOOLEAN : ReadWithoutFlush(c, sweepDue)
    \/ FlushWrite(c)
    \/ FlushRaises(c)
    \/ FlushAckRecovery(c)
    \/ \E sweepDue \in BOOLEAN : FlushAckRun(c, sweepDue)

Next ==
    \/ \E kind \in EntryKinds : Emit(kind)
    \/ \E e \in Entries : Age(e)
    \/ \E c \in Consumers : Start(c) \/ Run(c) \/ Crash(c)

Spec == Init /\ [][Next]_vars

(***************************************************************************)
(* A worker that is up runs on, and one in Restarting is started again     *)
(* after every exit.  BATCH_MAX_WAIT_S and ORPHAN_SWEEP_EVERY_S elapse     *)
(* again and again however busy the stream is, hence the strong fairness   *)
(* of what each timer triggers.                                            *)
(***************************************************************************)
Sweeps(c) == ReadWithoutFlush(c, TRUE) \/ FlushAckRun(c, TRUE)

Fairness ==
    /\ \A c \in Restarting : WF_vars(Start(c))
    /\ \A c \in Consumers : WF_vars(Run(c))
    /\ \A c \in Consumers : SF_vars(ReadThenFlush(c))
    /\ \A c \in Consumers : SF_vars(Sweeps(c))
    /\ \A e \in Entries : WF_vars(Age(e))

FairSpec == Spec /\ Fairness

-----------------------------------------------------------------------------
(* Properties.                                                              *)

\* Write-then-ACK: a delivered event that left the group's PEL was committed,
\* whatever crashed and whoever adopted it meanwhile.  Excepted are poison
\* entries and those that MAXLEN allowed XADD to trim.
NoLoss ==
    \A e \in 1..lastDelivered :
        (e \notin poison /\ e > added - STREAM_MAXLEN /\ owner[e] = None)
            => counted[e] >= 1

\* A worker that has finished recover_own_pending owns no entry that it does
\* not hold in memory: none is stuck in the PEL of a live worker.
Recovering(c) ==
    \/ pc[c] \in {"down", "recover"}
    \/ pc[c] \in {"write", "ack"} /\ caller[c] = "recover"

NothingStranded ==
    \A c \in Consumers : ~Recovering(c) =>
        \A e \in Entries : owner[e] = c => e \in Held(c)

\* An entry is over-counted only by as many upserts as there were crashes
\* between the commit of one that included it and its XACK, provided that no
\* live worker takes XAUTOCLAIM_IDLE_MS to acknowledge what it holds.
DuplicatesOnlyFromCrash ==
    ~LiveMayStall => \A e \in Entries : counted[e] <= 1 + exposed[e]

\* On the same proviso, XREADGROUP 0 and XAUTOCLAIM never hand an entry to a
\* worker while another live worker has it in memory.
ExclusiveHold ==
    ~LiveMayStall =>
        \A c, d \in Live : c # d => Held(c) \cap Held(d) = {}

\* Every entry is eventually delivered and acknowledged, and counted unless it
\* is poison, even when its first owner never comes back.
EventuallyHandled ==
    \A e \in Entries :
        (e <= added) ~> /\ e <= lastDelivered
                        /\ owner[e] = None
                        /\ e \in poison \/ counted[e] >= 1

\* The pipeline implements at-least-once delivery into request_metrics: a step
\* settles an entry for good only if it is committed or dropped by then, and
\* nothing that is settled is handed out again.
Queue == INSTANCE AtLeastOnce WITH
    Window  <- STREAM_MAXLEN,
    offered <- added,
    dropped <- poison \cup (1..trimmed),
    written <- {e \in Entries : counted[e] >= 1},
    settled <- {e \in 1..lastDelivered : owner[e] = None}

ImplementsAtLeastOnce == Queue!Spec

\* No entry is counted twice: what the docs claim of a kill and restart.
NoDoubleCount == \A e \in Entries : counted[e] <= 1

=============================================================================
