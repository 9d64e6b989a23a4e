-------------------------- MODULE DashboardFanout --------------------------
(***************************************************************************)
(* The dashboard feed of one gateway replica: the WebSocket handlers that  *)
(* keep _connected_clients, and fanout_loop, which sends every message of  *)
(* its Pub/Sub channels to each of them in turn.  A message is its         *)
(* position 1, 2, 3, ... in the order in which they are published.         *)
(*                                                                         *)
(* Both run on one event loop and interleave at awaits.  fanout_loop       *)
(* awaits inside its iteration over the set; Python's set iterator raises  *)
(* RuntimeError at its next step, the last one included, when the set has  *)
(* another size than at the start.                                         *)
(***************************************************************************)
EXTENDS Integers, Sequences, FiniteSets

CONSTANTS
    Clients,        \* the WebSocket connections that are ever made
    None,           \* no client
    MaxMessages     \* bound: messages published

ASSUME FanoutAssumption ==
    /\ IsFiniteSet(Clients)
    /\ None \notin Clients
    /\ MaxMessages \in Nat

VARIABLES
    published,      \* messages published so far
    loop,           \* what fanout_loop does
    taken,          \* the last message that pubsub.listen() returned
    size,           \* size of the set when the iteration began
    toSend,         \* members that the iteration has not come to
    current,        \* the client whose send is awaited
    failed,         \* the list dead
    clients,        \* _connected_clients
    conn,           \* the connection of each client
    since,          \* history: the last message that is not meant for it
    got,            \* history: the messages sent to it, in order
    churn,          \* history: <<m, what>> when a client came or went while m
                    \* was being sent
    redisLost       \* history: has the Pub/Sub connection failed?

broadcast == <<size, toSend, current, failed>>
feed == <<published, loop, taken, broadcast>>
vars == <<feed, clients, conn, since, got, churn, redisLost>>

Messages == 1..MaxMessages

TypeOK ==
    /\ published \in 0..MaxMessages
    /\ loop \in {"down", "listen", "sending", "dead"}
    /\ taken \in 0..published
    /\ size \in Nat
    /\ toSend \subseteq clients
    /\ current \in Clients \cup {None}
    /\ loop = "sending" <=> current # None
    /\ failed \subseteq Clients
    /\ clients \subseteq {c \in Clients : conn[c] \in {"open", "gone"}}
    /\ conn \in [Clients -> {"new", "open", "gone", "closed"}]
    /\ since \in [Clients -> 0..MaxMessages]
    /\ got \in [Clients -> Seq(Messages)]
    /\ churn \subseteq Messages \X {"join", "leave"}
    /\ redisLost \in BOOLEAN

Init ==
    /\ published = 0 /\ taken = 0
    /\ loop = "down"
    /\ size = 0 /\ toSend = {} /\ current = None /\ failed = {}
    /\ clients = {}
    /\ conn = [c \in Clients |-> "new"]
    /\ since = [c \in Clients |-> 0]
    /\ got = [c \in Clients |-> <<>>]
    /\ churn = {}
    /\ redisLost = FALSE

-----------------------------------------------------------------------------
(* dashboard_socket.                                                        *)

Noted(what) == IF loop = "sending" THEN churn \cup {<<taken, what>>} ELSE churn

\* accept() returns and the client is added.  A broadcast that goes on because
\* another client left meanwhile may find it or not; the insertion may also
\* rebuild the set's table, so that any members lie before the iterator again.
Join(c) ==
    /\ conn[c] = "new"
    /\ conn' = [conn EXCEPT ![c] = "open"]
    /\ clients' = clients \cup {c}
    /\ since' = [since EXCEPT ![c] = taken]
    /\ churn' = Noted("join")
    /\ IF loop = "sending" THEN toSend' \in SUBSET clients' ELSE UNCHANGED toSend
    /\ UNCHANGED <<published, loop, taken, size, current, failed, got, redisLost>>

\* The peer goes away, or misses the server's pings.
Vanish(c) ==
    /\ conn[c] = "open"
    /\ conn' = [conn EXCEPT ![c] = "gone"]
    /\ UNCHANGED <<feed, clients, since, got, churn, redisLost>>

\* Mutant: no finally.
LeaveWithoutDiscard(c) ==
    /\ conn[c] = "gone"
    /\ conn' = [conn EXCEPT ![c] = "closed"]
    /\ UNCHANGED <<feed, clients, since, got, churn, redisLost>>

\* receive_text raises WebSocketDisconnect; finally discards the client.
Leave(c) ==
    /\ conn[c] = "gone"
    /\ conn' = [conn EXCEPT ![c] = "closed"]
    /\ clients' = clients \ {c}
    /\ toSend' = toSend \ {c}
    /\ churn' = IF c \in clients THEN Noted("leave") ELSE churn
    /\ UNCHANGED <<published, loop, taken, size, current, failed, since, got, redisLost>>

-----------------------------------------------------------------------------
(* fanout_loop.                                                             *)

Publish ==
    /\ published < MaxMessages
    /\ published' = published + 1
    /\ UNCHANGED <<loop, taken, broadcast, clients, conn, since, got, churn, redisLost>>

\* What was published before the subscription is lost.
Subscribe ==
    /\ loop = "down"
    /\ loop' = "listen"
    /\ taken' = published
    /\ since' = [c \in Clients |-> IF c \in clients THEN published ELSE since[c]]
    /\ UNCHANGED <<published, broadcast, clients, conn, got, churn, redisLost>>

\* The locals of one broadcast are gone with it.
EndBroadcast ==
    /\ size' = 0 /\ toSend' = {} /\ current' = None /\ failed' = {}

\* The iterator's next step, no await in between: another size ends the task;
\* an exhausted iterator ends the broadcast, and the failed clients are dropped.
Iterate(n, rest, dead) ==
    \/ /\ Cardinality(clients) # n
       /\ loop' = "dead"
       /\ EndBroadcast
       /\ UNCHANGED clients
    \/ /\ Cardinality(clients) = n
       /\ rest = {}
       /\ loop' = "listen"
       /\ EndBroadcast
       /\ clients' = clients \ dead
    \/ /\ Cardinality(clients) = n
       /\ \E c \in rest : current' = c /\ toSend' = rest \ {c}
       /\ loop' = "sending"
       /\ size' = n /\ failed' = dead
       /\ UNCHANGED clients

\* Mutant: messages are sent in pairs, with no timer for the last one.
TakeMessageOfPair ==
    /\ loop = "listen"
    /\ taken + 1 < published
    /\ taken' = taken + 1
    /\ Iterate(Cardinality(clients), clients, {})
    /\ UNCHANGED <<published, conn, since, got, churn, redisLost>>

\* One message of either channel; the answers to SUBSCRIBE are skipped.
TakeMessage ==
    /\ loop = "listen"
    /\ taken < published
    /\ taken' = taken + 1
    /\ Iterate(Cardinality(clients), clients, {})
    /\ UNCHANGED <<published, conn, since, got, churn, redisLost>>

\* send_text returns: the peer gets the message if it is still there.
SendReturns(c) ==
    /\ loop = "sending" /\ current = c
    /\ got' = IF conn[c] = "open" THEN [got EXCEPT ![c] = Append(@, taken)] ELSE got
    /\ Iterate(size, toSend, failed)
    /\ UNCHANGED <<published, taken, conn, since, churn, redisLost>>

\* Mutants: the client is discarded inside the iteration; the first failure
\* ends the broadcast.
SendRaisesDiscarding(c) ==
    /\ loop = "sending" /\ current = c /\ conn[c] # "open"
    /\ IF c \in clients THEN loop' = "dead" /\ clients' = clients \ {c} /\ EndBroadcast
                        ELSE Iterate(size, toSend, failed)
    /\ UNCHANGED <<published, taken, conn, since, got, churn, redisLost>>

SendRaisesBreaking(c) ==
    /\ loop = "sending" /\ current = c /\ conn[c] # "open"
    /\ loop' = "listen" /\ EndBroadcast
    /\ clients' = clients \ (failed \cup {c})
    /\ UNCHANGED <<published, taken, conn, since, got, churn, redisLost>>

\* send_text raises: the client is noted and the iteration goes on.
SendRaises(c) ==
    /\ loop = "sending" /\ current = c /\ conn[c] # "open"
    /\ Iterate(size, toSend, failed \cup {c})
    /\ UNCHANGED <<published, taken, conn, since, got, churn, redisLost>>

\* subscribe() or listen() raises ConnectionError: nothing catches it.
RedisFails ==
    /\ loop \in {"down", "listen"}
    /\ loop' = "dead"
    /\ redisLost' = TRUE
    /\ UNCHANGED <<published, taken, broadcast, clients, conn, since, got, churn>>

\* The replica is restarted: its connections are closed, lifespan starts anew.
Restart ==
    /\ loop' = "down"
    /\ EndBroadcast
    /\ clients' = {}
    /\ conn' = [c \in Clients |-> IF conn[c] = "new" THEN "new" ELSE "closed"]
    /\ redisLost' = FALSE
    /\ UNCHANGED <<published, taken, since, got, churn>>

Send(c) == SendReturns(c) \/ SendRaises(c)

Next ==
    \/ Publish \/ Subscribe \/ TakeMessage \/ RedisFails \/ Restart
    \/ \E c \in Clients : Join(c) \/ Vanish(c) \/ Leave(c) \/ Send(c)

Spec == Init /\ [][Next]_vars

(***************************************************************************)
(* The event loop runs what is ready.  A send ends: it is drained, or the  *)
(* server closes a peer that misses two pings.                             *)
(***************************************************************************)
Fairness ==
    /\ WF_vars(Subscribe) /\ WF_vars(TakeMessage)
    /\ \A c \in Clients : WF_vars(Send(c)) /\ WF_vars(Leave(c))

FairSpec == Spec /\ Fairness

-----------------------------------------------------------------------------
(* Properties.                                                              *)

Churned(m) == \E what \in {"join", "leave"} : <<m, what>> \in churn

\* A send that raises never ends the feed: the loop dies only with the Redis
\* connection, or when a handler changed the set during a broadcast.
DeathExplained == loop = "dead" => redisLost \/ Churned(taken)

\* Messages sent to c whose broadcast has come to c or is over.
Due(c) == {m \in (since[c] + 1)..taken :
              (loop = "sending" /\ m = taken) => c \notin toSend \cup {current}}

\* A client that is in the set and connected has got, in order, exactly once
\* each message since it joined, whichever other clients failed, unless the
\* set changed while that message was being sent.
GaplessFeed ==
    loop # "dead" =>
        \A c \in {x \in clients : conn[x] = "open"} :
            /\ \A m \in Due(c) : ~Churned(m) =>
                  Cardinality({i \in DOMAIN got[c] : got[c][i] = m}) = 1
            /\ \A i, j \in DOMAIN got[c] : i <= j => got[c][i] <= got[c][j]

\* Slow and failing clients delay the others but never keep a message from
\* them: it arrives, unless the client itself is gone, the loop has died or
\* the set changed during that broadcast.
FeedProgresses ==
    \A c \in Clients, m \in Messages :
        (c \in clients /\ conn[c] = "open" /\ since[c] < m /\ m <= published)
            ~> \/ (\E i \in DOMAIN got[c] : got[c][i] = m) \/ m <= since[c]
               \/ conn[c] # "open" \/ loop = "dead" \/ Churned(m)

\* "A send failure to one client must never take down the broadcast for
\* everyone else": the loop outlives the clients that vanish.
BroadcastSurvives ==
    loop = "dead" => redisLost \/ <<taken, "join">> \in churn

=============================================================================
