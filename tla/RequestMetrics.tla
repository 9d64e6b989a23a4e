--------------------------- MODULE RequestMetrics ---------------------------
(***************************************************************************)
(* The path of a request's numbers from end to end: the gateway's counters *)
(* and events (GatewayRequest), the workers that aggregate the events of a *)
(* batch (Aggregate) and the transactions that merge the rows into         *)
(* request_metrics.                                                        *)
(*                                                                         *)
(* Deliveries are reduced to what matters to the table: a worker that dies *)
(* is restarted and gets its batch again.  AnalyticsConsumer has the rest  *)
(* of them, and keeps of the table only how often each entry was counted;  *)
(* TableExact justifies that.                                              *)
(***************************************************************************)
EXTENDS GatewayRequest, Aggregate

CONSTANTS
    Workers,        \* the analytics workers
    BATCH_SIZE      \* most entries of a batch

ASSUME MetricsAssumption == BATCH_SIZE \in Nat \ {0}

VARIABLES
    delivered,      \* the group's last-delivered entry
    batch,          \* batch[w]: the entries worker w holds
    step,           \* where in flush_batch it is
    upserted,       \* rows its transaction has upserted, whose locks it holds
    table,          \* request_metrics, by row key
    counted         \* history: commits that included each entry

analytics == <<delivered, batch, step, upserted, table, counted>>
vars == <<gateway, faults, analytics>>

Entries == DOMAIN stream
EventOf(i) ==
    LET e == event[stream[i]]
    IN  [key |-> KeyOf[stream[i]], status |-> e.status, latency |-> e.latency,
         limited |-> e.limited]
Events(w) == [i \in DOMAIN batch[w] |-> EventOf(batch[w][i])]
Rows(w) == RowKeys(Events(w))

Init ==
    /\ GatewayInit
    /\ delivered = 0
    /\ batch = [w \in Workers |-> <<>>]
    /\ step = [w \in Workers |-> "read"]
    /\ upserted = [w \in Workers |-> 0]
    /\ table = [k \in Keys |-> NoRow]
    /\ counted = <<>>

-----------------------------------------------------------------------------
(* flush_batch: executemany upserts the rows one after another, in one      *)
(* transaction that keeps the lock of each row to its end.                  *)

Locked(w) == {Rows(w)[i] : i \in 1..upserted[w]}
Wanted(w) == IF upserted[w] < Len(Rows(w)) THEN {Rows(w)[upserted[w] + 1]} ELSE {}
WaitsFor(w, v) == w # v /\ Wanted(w) \cap Locked(v) # {}

Read(w) ==
    /\ step[w] = "read"
    /\ \E n \in 1..BATCH_SIZE :
          /\ delivered + n <= Len(stream)
          /\ delivered' = delivered + n
          /\ batch' = [batch EXCEPT ![w] = [i \in 1..n |-> delivered + i]]
    /\ step' = [step EXCEPT ![w] = "write"]
    /\ counted' = [i \in 1..delivered' |-> IF i <= delivered THEN counted[i] ELSE 0]
    /\ UNCHANGED <<gateway, faults, upserted, table>>

UpsertRow(w) ==
    /\ step[w] = "write"
    /\ Wanted(w) # {}
    /\ \A v \in Workers : ~WaitsFor(w, v)
    /\ upserted' = [upserted EXCEPT ![w] = @ + 1]
    /\ UNCHANGED <<gateway, faults, delivered, batch, step, table, counted>>

\* The table after the first n rows of w's batch have been merged into it.
Merged(w, n) ==
    [k \in Keys |->
        IF \E i \in 1..n : Rows(w)[i] = k THEN Upsert(table[k], AggregatedRow(Events(w), k))
                                          ELSE table[k]]

Commit(w) ==
    /\ step[w] = "write"
    /\ Wanted(w) = {}
    /\ table' = Merged(w, Len(Rows(w)))
    /\ counted' = [i \in DOMAIN counted |->
                     IF Contains(batch[w], i) THEN counted[i] + 1 ELSE counted[i]]
    /\ upserted' = [upserted EXCEPT ![w] = 0]
    /\ step' = [step EXCEPT ![w] = "ack"]
    /\ UNCHANGED <<gateway, faults, delivered, batch>>

Ack(w) ==
    /\ step[w] = "ack"
    /\ step' = [step EXCEPT ![w] = "read"]
    /\ batch' = [batch EXCEPT ![w] = <<>>]
    /\ UNCHANGED <<gateway, faults, delivered, upserted, table, counted>>

\* Do transactions wait for each other in a circle that w is part of?
Deadlocked(w) ==
    \E S \in SUBSET Workers :
        /\ w \in S
        /\ \A u \in S : /\ \E v \in S : WaitsFor(u, v)
                        /\ \E v \in S : WaitsFor(v, u)

\* Mutants: no transaction around the upserts; the exception is swallowed and
\* the batch acknowledged.
AbortKeepingRows(w) ==
    /\ step[w] = "write"
    /\ Deadlocked(w)
    /\ table' = Merged(w, upserted[w])
    /\ upserted' = [upserted EXCEPT ![w] = 0]
    /\ UNCHANGED <<gateway, faults, delivered, batch, step, counted>>

AbortSwallowed(w) ==
    /\ step[w] = "write"
    /\ Deadlocked(w)
    /\ step' = [step EXCEPT ![w] = "ack"]
    /\ upserted' = [upserted EXCEPT ![w] = 0]
    /\ UNCHANGED <<gateway, faults, delivered, batch, table, counted>>

\* Postgres aborts one of them; nothing catches the exception, and the batch is
\* delivered again to the restarted worker.
Abort(w) ==
    /\ step[w] = "write"
    /\ Deadlocked(w)
    /\ upserted' = [upserted EXCEPT ![w] = 0]
    /\ UNCHANGED <<gateway, faults, delivered, batch, step, table, counted>>

\* The worker dies before or after the commit and is restarted.
Crash(w) ==
    /\ step[w] # "read"
    /\ faults < MaxFaults
    /\ faults' = faults + 1
    /\ step' = [step EXCEPT ![w] = "write"]
    /\ upserted' = [upserted EXCEPT ![w] = 0]
    /\ UNCHANGED <<gateway, delivered, batch, table, counted>>

Next ==
    \/ GatewayNext /\ UNCHANGED analytics
    \/ \E w \in Workers :
          Read(w) \/ UpsertRow(w) \/ Commit(w) \/ Ack(w) \/ Abort(w) \/ Crash(w)

Spec == Init /\ [][Next]_vars

-----------------------------------------------------------------------------
(* Properties.                                                              *)

Made == {r \in Requests : task[r] # "none"}

\* Every event that was made is in the stream at most once, and it is missing
\* from it only while it is under way, after a failure that
\* shieldstream_event_emit_failures_total shows, or after the process stopped:
\* event_emitter.py rules out an invisibly dropped event.
NoInvisibleDrop ==
    LET missing == {r \in Made \ wire : ~Contains(stream, r)}
    IN  /\ IsInjective(stream)
        /\ SumFunction(requestsTotal) = Cardinality(Made)
        /\ Cardinality({r \in missing : task[r] # "cancelled"}) <= emitFailures
        /\ up => Cardinality(missing) <= emitFailures

\* However the batches were cut, interleaved, aborted and repeated: each row
\* of request_metrics is the sum over the events of its key, each as often as a
\* transaction that included it committed.
TableExact ==
    \A k \in Keys :
        LET mine == {i \in 1..delivered : KeyOf[stream[i]] = k}
            SumOver(Test(_)) ==
                SumFunctionOnSet(counted, {i \in mine : Test(event[stream[i]])})
        IN  /\ table[k].total   = SumOver(LAMBDA e : TRUE)
            /\ table[k].blocked = SumOver(LAMBDA e : e.limited)
            /\ table[k].s2xx    = SumOver(LAMBDA e : e.status \in 200..299)
            /\ table[k].s4xx    = SumOver(LAMBDA e : e.status \in 400..499)
            /\ table[k].s5xx    = SumOver(LAMBDA e : e.status >= 500)

\* However often it was merged, the p50 of a row is no greater than its p99, and
\* both lie between the latencies of the requests that were not blocked: the
\* conventional 0 ms of a blocked request has no part in them.
PercentilesInRange ==
    \A k \in Keys :
        LET samples == {event[stream[i]].latency : i \in
                          {j \in 1..delivered : /\ counted[j] > 0
                                                /\ KeyOf[stream[j]] = k
                                                /\ ~event[stream[j]].limited}}
            n == table[k].total - table[k].blocked
        IN  IF samples = {} THEN table[k].p50 = 0 /\ table[k].p99 = 0
            ELSE /\ Min(samples) * n <= table[k].p50
                 /\ table[k].p50 <= table[k].p99
                 /\ table[k].p99 <= Max(samples) * n

\* What a batch says of each of its rows is a percentile of the row's samples.
BatchPercentiles ==
    \A w \in Workers : \A k \in ToSet(Rows(w)) :
        LET row == AggregatedRow(Events(w), k)
            n == row.total - row.blocked
            latency == [i \in {j \in DOMAIN Events(w) : /\ Events(w)[j].key = k
                                                        /\ ~Events(w)[j].limited} |->
                           Events(w)[i].latency]
        IN  n > 0 => /\ IsPercentile(latency, P50, row.p50 \div n)
                     /\ IsPercentile(latency, P99, row.p99 \div n)

\* Two sources feed the operators: Prometheus and request_metrics.  Once every
\* batch is flushed, and if nothing but deadlocks went wrong, they agree on the
\* requests, on the blocked ones, on 2xx and 4xx.  status_5xx has every status from
\* 500 on, which status_class labels "5xx" to "9xx": it is the sum of these.
Settled ==
    /\ faults = 0
    /\ \A r \in Requests : task[r] \in {"none", "returned"}
    /\ delivered = Len(stream)
    /\ \A w \in Workers : step[w] # "write"

SourcesAgree ==
    LET Column(column) == SumFunction([k \in Keys |-> table[k][column]])
    IN  Settled =>
        /\ Column("total") = SumFunction(requestsTotal)
        /\ Column("s2xx") = requestsTotal[2]
        /\ Column("s4xx") = requestsTotal[4]
        /\ Column("s5xx") = SumFunctionOnSet(requestsTotal, 5..9)
        /\ Column("blocked") = rateLimitHits

=============================================================================
