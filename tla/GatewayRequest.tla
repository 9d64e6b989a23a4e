--------------------------- MODULE GatewayRequest ---------------------------
(***************************************************************************)
(* The request path of one gateway process: what each request is answered, *)
(* what the counters of /metrics say of it, and the event it leaves in the *)
(* stream request_events through a task that nobody awaits.                *)
(*                                                                         *)
(* Who is let through is the business of ReadThroughCache and RateLimiter; *)
(* here any outcome may happen.                                            *)
(***************************************************************************)
EXTENDS Integers, Sequences, FiniteSets

CONSTANTS
    Requests,       \* the requests the process gets
    Keys,           \* (minute bucket, tenant, endpoint, method)
    KeyOf,          \* KeyOf[r]: the key of the event of request r
    Answers,        \* Answers[r]: what the upstream may answer to request r,
                    \* as <<status_code, latency_ms>>
    Limited,        \* the requests that may be over their limit
    MaxInFlight,    \* bound: requests and emit tasks under way at a time
    MaxFaults       \* bound: failed emissions, a stop, crashes of workers

\* Three digits are all that the HTTP client demands of a status.
StatusCodes == 100..999

\* status_class: a label "1xx" to "9xx".
StatusClasses == 1..9

ASSUME GatewayAssumption ==
    /\ IsFiniteSet(Requests) /\ IsFiniteSet(Keys)
    /\ KeyOf \in [Requests -> Keys]
    /\ Answers \in [Requests -> SUBSET (StatusCodes \X Nat)]
    /\ Limited \subseteq Requests
    /\ MaxInFlight \in Nat
    /\ MaxFaults \in Nat

VARIABLES
    up,             \* is the process running?
    pc,             \* where each request is
    event,          \* the RequestEvent made of it
    task,           \* its _emit task
    wire,           \* requests whose XADD may still be executed
    stream,         \* the entries of request_events
    requestsTotal,  \* REQUESTS_TOTAL, by status class
    rateLimitHits,  \* RATE_LIMIT_HITS_TOTAL
    emitFailures,   \* EVENT_EMIT_FAILURES
    faults          \* history: faults so far

counters == <<requestsTotal, rateLimitHits, emitFailures>>
gateway == <<up, pc, event, task, wire, stream, counters>>

NoEvent == [status |-> 0, latency |-> 0, limited |-> FALSE]

GatewayInit ==
    /\ up = TRUE
    /\ pc = [r \in Requests |-> "new"]
    /\ event = [r \in Requests |-> NoEvent]
    /\ task = [r \in Requests |-> "none"]
    /\ wire = {} /\ stream = <<>>
    /\ requestsTotal = [class \in StatusClasses |-> 0]
    /\ rateLimitHits = 0 /\ emitFailures = 0
    /\ faults = 0

-----------------------------------------------------------------------------
(* The dependencies get_tenant and enforce_rate_limit, then proxy().        *)

\* emit_event: a task is scheduled, and the handler goes on.
EmitEvent(r, status, latency, limited) ==
    /\ event' = [event EXCEPT ![r] =
                   [status |-> status, latency |-> latency, limited |-> limited]]
    /\ task' = [task EXCEPT ![r] = "running"]
    /\ wire' = wire \cup {r}

\* REQUESTS_TOTAL.labels(status_class(status)).inc()
CountRequest(status) ==
    requestsTotal' = [requestsTotal EXCEPT ![status \div 100] = @ + 1]

\* A request comes in.
Arrives(r) ==
    /\ up /\ pc[r] = "new"
    /\ Cardinality({q \in Requests : pc[q] = "forwarded" \/ task[q] = "running"})
          < MaxInFlight

\* 401 or 422 without a valid key, 503 when the limiter fails closed, 500 when
\* Postgres is down: neither counted nor emitted.
Refuse(r) ==
    /\ Arrives(r)
    /\ pc' = [pc EXCEPT ![r] = "dropped"]
    /\ UNCHANGED <<up, event, task, wire, stream, counters, faults>>

\* 429: emitted with a latency of 0 by convention, counted twice over.
Block(r) ==
    /\ Arrives(r) /\ r \in Limited
    /\ pc' = [pc EXCEPT ![r] = "done"]
    /\ EmitEvent(r, 429, 0, TRUE)
    /\ rateLimitHits' = rateLimitHits + 1
    /\ CountRequest(429)
    /\ UNCHANGED <<up, stream, emitFailures, faults>>

\* Allowed, by a limiter or for want of a policy: the upstream is awaited.
Forward(r) ==
    /\ Arrives(r)
    /\ pc' = [pc EXCEPT ![r] = "forwarded"]
    /\ UNCHANGED <<up, event, task, wire, stream, counters, faults>>

\* The upstream answers: counted and emitted.
Answer(r, status, latency) ==
    /\ up /\ pc[r] = "forwarded"
    /\ pc' = [pc EXCEPT ![r] = "done"]
    /\ CountRequest(status)
    /\ EmitEvent(r, status, latency, FALSE)
    /\ UNCHANGED <<up, stream, rateLimitHits, emitFailures, faults>>

\* client.request raises: a 500 that nothing below it counts or emits.
UpstreamError(r) ==
    /\ up /\ pc[r] = "forwarded"
    /\ pc' = [pc EXCEPT ![r] = "dropped"]
    /\ UNCHANGED <<up, event, task, wire, stream, counters, faults>>

-----------------------------------------------------------------------------
(* The emit tasks.                                                          *)

\* Redis executes the XADD; the task returns if it still waits for it.
Xadd(r) ==
    /\ r \in wire
    /\ wire' = wire \ {r}
    /\ stream' = Append(stream, r)
    /\ task' = IF task[r] = "running" THEN [task EXCEPT ![r] = "returned"] ELSE task
    /\ UNCHANGED <<up, pc, event, counters, faults>>

\* Mutant: the done callback does not look at the exception.
TaskFailsSilently(r) ==
    /\ task[r] = "running" /\ faults < MaxFaults
    /\ faults' = faults + 1
    /\ task' = [task EXCEPT ![r] = "failed"]
    /\ wire' \in {wire, wire \ {r}}
    /\ UNCHANGED <<up, pc, event, stream, counters>>

\* xadd raises: the connection is lost, or the answer takes longer than
\* socket_timeout; the command is lost, or it is executed all the same.
TaskFails(r) ==
    /\ task[r] = "running" /\ faults < MaxFaults
    /\ faults' = faults + 1
    /\ task' = [task EXCEPT ![r] = "failed"]
    /\ emitFailures' = emitFailures + 1
    /\ wire' \in {wire, wire \ {r}}
    /\ UNCHANGED <<up, pc, event, stream, requestsTotal, rateLimitHits>>

\* The process stops: what it waits for is cancelled, and a cancelled task is
\* no failure to _on_task_done.
Stop ==
    /\ up /\ faults < MaxFaults
    /\ up' = FALSE
    /\ faults' = faults + 1
    /\ task' = [r \in Requests |-> IF task[r] = "running" THEN "cancelled" ELSE task[r]]
    /\ wire' \in SUBSET wire
    /\ UNCHANGED <<pc, event, stream, counters>>

GatewayNext ==
    \/ \E r \in Requests :
          \/ Refuse(r) \/ Block(r) \/ Forward(r) \/ UpstreamError(r)
          \/ \E answer \in Answers[r] : Answer(r, answer[1], answer[2])
          \/ Xadd(r) \/ TaskFails(r)
    \/ Stop

=============================================================================
