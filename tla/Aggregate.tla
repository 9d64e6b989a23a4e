----------------------------- MODULE Aggregate -----------------------------
(***************************************************************************)
(* The pure part of the analytics consumer: a batch of events is collapsed *)
(* into one row per key, and each row is merged into request_metrics.      *)
(*                                                                         *)
(* An event is a record [key, status, latency, limited]; key stands for    *)
(* its (minute bucket, tenant, endpoint, method).  A row of the table      *)
(* keeps p50 and p99 multiplied by total - blocked: the merge divides by   *)
(* that number only what it has multiplied by it, and a NULL percentile is *)
(* one of no samples.                                                      *)
(***************************************************************************)
EXTENDS Integers, Sequences, FiniteSets, SequencesExt

NoRow == [total |-> 0, s2xx |-> 0, s4xx |-> 0, s5xx |-> 0, blocked |-> 0,
          p50 |-> 0, p99 |-> 0]

P50 == <<50, 100>>
P99 == <<99, 100>>

\* Mutant: the rank is rounded down.
RankDown(p, n) == IF p[1] * n < p[2] THEN 1 ELSE (p[1] * n) \div p[2]

\* The nearest rank ceil(p * n), 1-based.
Rank(p, n) == (p[1] * n + p[2] - 1) \div p[2]

\* percentile(sorted_values, p).
Percentile(sorted, p) == sorted[Rank(p, Len(sorted))]

\* The events of a batch that are the first with their key.
Firsts(events) ==
    {i \in DOMAIN events : \A j \in 1..(i - 1) : events[j].key # events[i].key}

\* The keys of a batch in the order in which they first occur: the order of
\* the dict rows, and so of the upserts.
RowKeys(events) ==
    LET Nth(n) == CHOOSE i \in Firsts(events) :
                      Cardinality({j \in Firsts(events) : j <= i}) = n
    IN  [n \in 1..Cardinality(Firsts(events)) |-> events[Nth(n)].key]

\* The events of one key that were not blocked.
Unblocked(events, key) == {i \in DOMAIN events : events[i].key = key /\ ~events[i].limited}

\* The latencies of these, sorted.
Latencies(events, key) ==
    LET mine == Unblocked(events, key)
        ranks == 1..Cardinality(mine)
        order == CHOOSE f \in Bijection(ranks, mine) :
                     \A a, b \in ranks : a < b => events[f[a]].latency <= events[f[b]].latency
    IN  [a \in ranks |-> events[order[a]].latency]

\* A percentile of the row of one key, times its requests that were not blocked.
WeightedPercentile(events, key, p) ==
    LET lat == Latencies(events, key)
    IN  IF lat = <<>> THEN 0 ELSE Percentile(lat, p) * Len(lat)

\* The row of one key: aggregate_by_bucket and as_tuple.
AggregatedRow(events, key) ==
    LET mine == {i \in DOMAIN events : events[i].key = key}
    IN  [total   |-> Cardinality(mine),
         s2xx    |-> Cardinality({i \in mine : 200 <= events[i].status /\ events[i].status < 300}),
         s4xx    |-> Cardinality({i \in mine : 400 <= events[i].status /\ events[i].status < 500}),
         s5xx    |-> Cardinality({i \in mine : events[i].status >= 500}),
         blocked |-> Cardinality({i \in mine : events[i].limited}),
         p50     |-> WeightedPercentile(events, key, P50),
         p99     |-> WeightedPercentile(events, key, P99)]

\* Mutant: the numerators of the percentiles forget the row's own share.
UpsertForgetful(row, excluded) ==
    [column \in DOMAIN NoRow |->
        IF column \in {"p50", "p99"} THEN excluded[column]
                                     ELSE row[column] + excluded[column]]

\* INSERT ... ON CONFLICT DO UPDATE.
Upsert(row, excluded) == [column \in DOMAIN NoRow |-> row[column] + excluded[column]]

\* What a percentile is: the least sample that a share p of them, or more, do
\* not exceed.
IsPercentile(samples, p, v) ==
    LET AtMost(x) == Cardinality({i \in DOMAIN samples : samples[i] <= x})
        Enough(x) == AtMost(x) * p[2] >= p[1] * Cardinality(DOMAIN samples)
    IN  /\ v \in Range(samples) /\ Enough(v)
        /\ \A i \in DOMAIN samples : samples[i] < v => ~Enough(samples[i])

=============================================================================
