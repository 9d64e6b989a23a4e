----------------------- MODULE DashboardFanoutProofs -----------------------
(***************************************************************************)
(* Proofs for the dashboard feed: which events can end fanout_loop, and    *)
(* what a client that stays connected gets, for any number of clients and  *)
(* messages.                                                               *)
(***************************************************************************)
EXTENDS DashboardFanout, FiniteSetTheorems, TLAPS

\* A broadcast is about a message.
TakenInv == loop = "sending" => taken >= 1

\* While a message is sent and no handler has changed the set, the size that
\* the iterator remembers is the size of the set.
SizeInv == loop = "sending" /\ ~Churned(taken) => size = Cardinality(clients)

TypeInv == TypeOK /\ TakenInv

\* The size of the set is a number, since there are finitely many clients.
LEMMA ClientsFinite ==
    ASSUME TypeOK
    PROVE  Cardinality(clients) \in Nat
<1>1. clients \subseteq Clients
    BY DEF TypeOK
<1>2. IsFiniteSet(clients)
    BY <1>1, FanoutAssumption, FS_Subset
<1>. QED
    BY <1>2, FS_CardinalityType

\* What a step of the iterator does to the variables of the feed, from any
\* rest of the set.
LEMMA IterateType ==
    ASSUME TypeOK, NEW n \in Nat, NEW rest \in SUBSET clients, NEW dead \in SUBSET Clients,
           Iterate(n, rest, dead)
    PROVE  /\ loop' \in {"listen", "sending", "dead"}
           /\ size' \in Nat
           /\ clients' \subseteq clients
           /\ toSend' \subseteq clients'
           /\ current' \in Clients \cup {None}
           /\ loop' = "sending" <=> current' # None
           /\ failed' \subseteq Clients
<1>1. clients \subseteq Clients
    BY DEF TypeOK
<1>2. CASE Cardinality(clients) # n /\ loop' = "dead" /\ EndBroadcast /\ UNCHANGED clients
    BY <1>2 DEF EndBroadcast
<1>3. CASE rest = {} /\ loop' = "listen" /\ EndBroadcast /\ clients' = clients \ dead
    BY <1>3 DEF EndBroadcast
<1>4. CASE /\ \E c \in rest : current' = c /\ toSend' = rest \ {c}
           /\ loop' = "sending"
           /\ size' = n /\ failed' = dead
           /\ UNCHANGED clients
    BY <1>1, <1>4, FanoutAssumption
<1>. QED
    BY <1>2, <1>3, <1>4 DEF Iterate

-----------------------------------------------------------------------------
(* Types.                                                                   *)

LEMMA TypeInit == Init => TypeInv
<1>. SUFFICES ASSUME Init PROVE TypeInv
    OBVIOUS
<1>1. <<>> \in Seq(Messages)
    OBVIOUS
<1>2. got \in [Clients -> Seq(Messages)]
    BY <1>1, Zenon DEF Init
<1>3. /\ conn \in [Clients -> {"new", "open", "gone", "closed"}]
      /\ since \in [Clients -> 0..MaxMessages]
    BY FanoutAssumption DEF Init
<1>4. /\ published \in 0..MaxMessages /\ taken \in 0..published /\ size \in Nat
      /\ loop \in {"down", "listen", "sending", "dead"} /\ TakenInv
    BY FanoutAssumption DEF Init, TakenInv
<1>5. /\ toSend \subseteq clients /\ current \in Clients \cup {None}
      /\ loop = "sending" <=> current # None
      /\ failed \subseteq Clients
      /\ clients \subseteq {c \in Clients : conn[c] \in {"open", "gone"}}
    BY DEF Init
<1>6. churn \subseteq Messages \X {"join", "leave"} /\ redisLost \in BOOLEAN
    BY DEF Init
<1>. QED
    BY <1>2, <1>3, <1>4, <1>5, <1>6 DEF TypeInv, TypeOK

LEMMA NotedType ==
    ASSUME TypeInv, NEW what \in {"join", "leave"}
    PROVE  /\ Noted(what) \subseteq Messages \X {"join", "leave"}
           /\ churn \subseteq Noted(what)
           /\ loop = "sending" => <<taken, what>> \in Noted(what)
           /\ \A p \in Noted(what) \ churn : loop = "sending" /\ p = <<taken, what>>
<1>1. loop = "sending" => taken \in Messages
    BY FanoutAssumption DEF TypeInv, TypeOK, TakenInv, Messages
<1>. QED
    BY <1>1 DEF Noted, TypeInv, TypeOK

LEMMA TypeStep == TypeInv /\ [Next]_vars => TypeInv'
<1>. SUFFICES ASSUME TypeInv, [Next]_vars
              PROVE  TypeInv'
    OBVIOUS
<1>. USE FanoutAssumption
<1>1. CASE Publish
    BY <1>1 DEF Publish, TypeInv, TypeOK, TakenInv, broadcast
<1>2. CASE Subscribe
    BY <1>2 DEF Subscribe, TypeInv, TypeOK, TakenInv, broadcast
<1>3. CASE TakeMessage
    <2>1. Cardinality(clients) \in Nat /\ clients \subseteq Clients
        BY ClientsFinite DEF TypeInv, TypeOK
    <2>2. /\ loop' \in {"listen", "sending", "dead"}
          /\ size' \in Nat
          /\ clients' \subseteq clients
          /\ toSend' \subseteq clients'
          /\ current' \in Clients \cup {None}
          /\ loop' = "sending" <=> current' # None
          /\ failed' \subseteq Clients
        BY <1>3, <2>1, IterateType DEF TakeMessage, TypeInv
    <2>. QED
        BY <1>3, <2>2 DEF TakeMessage, TypeInv, TypeOK, TakenInv
<1>4. CASE RedisFails
    BY <1>4 DEF RedisFails, TypeInv, TypeOK, TakenInv, broadcast
<1>5. CASE Restart
    BY <1>5 DEF Restart, EndBroadcast, TypeInv, TypeOK, TakenInv
<1>6. ASSUME NEW c \in Clients, Join(c)
      PROVE  TypeInv'
    <2>1. churn' \subseteq Messages \X {"join", "leave"}
        BY <1>6, NotedType DEF Join
    <2>2. since' \in [Clients -> 0..MaxMessages]
        BY <1>6 DEF Join, TypeInv, TypeOK
    <2>3. conn' \in [Clients -> {"new", "open", "gone", "closed"}]
        BY <1>6 DEF Join, TypeInv, TypeOK
    <2>4. clients' \subseteq {x \in Clients : conn'[x] \in {"open", "gone"}}
        BY <1>6 DEF Join, TypeInv, TypeOK
    <2>5. toSend' \subseteq clients'
        BY <1>6 DEF Join, TypeInv, TypeOK
    <2>. QED
        BY <1>6, <2>1, <2>2, <2>3, <2>4, <2>5 DEF Join, TypeInv, TypeOK, TakenInv
<1>7. ASSUME NEW c \in Clients, Vanish(c)
      PROVE  TypeInv'
    BY <1>7 DEF Vanish, TypeInv, TypeOK, TakenInv, feed, broadcast
<1>8. ASSUME NEW c \in Clients, Leave(c)
      PROVE  TypeInv'
    <2>1. churn' \subseteq Messages \X {"join", "leave"}
        BY <1>8, NotedType DEF Leave, TypeInv, TypeOK
    <2>2. conn' \in [Clients -> {"new", "open", "gone", "closed"}]
        BY <1>8 DEF Leave, TypeInv, TypeOK
    <2>3. clients' \subseteq {x \in Clients : conn'[x] \in {"open", "gone"}}
        BY <1>8 DEF Leave, TypeInv, TypeOK
    <2>. QED
        BY <1>8, <2>1, <2>2, <2>3 DEF Leave, TypeInv, TypeOK, TakenInv
<1>9. ASSUME NEW c \in Clients, Send(c)
      PROVE  TypeInv'
    <2>1. /\ loop' \in {"listen", "sending", "dead"}
          /\ size' \in Nat
          /\ clients' \subseteq clients
          /\ toSend' \subseteq clients'
          /\ current' \in Clients \cup {None}
          /\ loop' = "sending" <=> current' # None
          /\ failed' \subseteq Clients
        <3>1. \/ Iterate(size, toSend, failed)
              \/ Iterate(size, toSend, failed \cup {c})
            BY <1>9 DEF Send, SendReturns, SendRaises
        <3>. QED
            BY <3>1, IterateType DEF TypeInv, TypeOK
    <2>2. got' \in [Clients -> Seq(Messages)]
        <3>1. got \in [Clients -> Seq(Messages)]
            BY DEF TypeInv, TypeOK
        <3>2. taken \in Messages
            BY <1>9 DEF Send, SendReturns, SendRaises, TypeInv, TypeOK, TakenInv, Messages
        <3>3. Append(got[c], taken) \in Seq(Messages)
            BY <3>1, <3>2
        <3>4. got' \in {got, [got EXCEPT ![c] = Append(@, taken)]}
            BY <1>9 DEF Send, SendReturns, SendRaises
        <3>. QED
            BY <3>1, <3>3, <3>4
    <2>3. UNCHANGED <<published, taken, conn, since, churn, redisLost>> /\ loop = "sending"
        BY <1>9 DEF Send, SendReturns, SendRaises
    <2>. QED
        BY <2>1, <2>2, <2>3 DEF TypeInv, TypeOK, TakenInv
<1>10. CASE UNCHANGED vars
    BY <1>10 DEF vars, feed, broadcast, TypeInv, TypeOK, TakenInv
<1>. QED
    BY <1>1, <1>2, <1>3, <1>4, <1>5, <1>6, <1>7, <1>8, <1>9, <1>10 DEF Next

\* Type correctness: only clients that are connected or not yet discarded are in
\* _connected_clients, and the iterator's rest is part of the set.
THEOREM TypeCorrect == Spec => []TypeOK
<1>1. Init => TypeInv
    BY TypeInit
<1>2. TypeInv /\ [Next]_vars => TypeInv'
    BY TypeStep
<1>3. TypeInv => TypeOK
    BY DEF TypeInv
<1>. QED
    BY <1>1, <1>2, <1>3, PTL DEF Spec

-----------------------------------------------------------------------------
(* What ends the loop.                                                      *)

DeathInv == TypeInv /\ SizeInv /\ DeathExplained

LEMMA DeathInit == Init => DeathInv
    BY TypeInit DEF Init, DeathInv, SizeInv, DeathExplained

LEMMA DeathStep == DeathInv /\ [Next]_vars => DeathInv'
<1>. SUFFICES ASSUME DeathInv, [Next]_vars
              PROVE  SizeInv' /\ DeathExplained'
    BY TypeStep DEF DeathInv
<1>. USE DEF DeathInv, SizeInv, DeathExplained, Churned
<1>1. CASE Publish
    BY <1>1 DEF Publish, broadcast
<1>2. CASE Subscribe
    BY <1>2 DEF Subscribe, broadcast
<1>3. CASE TakeMessage
    BY <1>3 DEF TakeMessage, Iterate, EndBroadcast
<1>4. CASE RedisFails
    BY <1>4 DEF RedisFails, broadcast
<1>5. CASE Restart
    BY <1>5 DEF Restart
<1>6. ASSUME NEW c \in Clients, Join(c)
      PROVE  SizeInv' /\ DeathExplained'
    BY <1>6 DEF Join, Noted
<1>7. ASSUME NEW c \in Clients, Vanish(c)
      PROVE  SizeInv' /\ DeathExplained'
    BY <1>7 DEF Vanish, feed, broadcast
<1>8. ASSUME NEW c \in Clients, Leave(c)
      PROVE  SizeInv' /\ DeathExplained'
    <2>1. CASE c \in clients
        BY <1>8, <2>1 DEF Leave, Noted
    <2>2. CASE c \notin clients
        <3>1. clients' = clients
            BY <1>8, <2>2 DEF Leave
        <3>. QED
            BY <1>8, <2>2, <3>1 DEF Leave
    <2>. QED
        BY <2>1, <2>2
<1>9. ASSUME NEW c \in Clients, Send(c)
      PROVE  SizeInv' /\ DeathExplained'
    BY <1>9 DEF Send, SendReturns, SendRaises, Iterate, EndBroadcast
<1>10. CASE UNCHANGED vars
    BY <1>10 DEF vars, feed, broadcast
<1>. QED
    BY <1>1, <1>2, <1>3, <1>4, <1>5, <1>6, <1>7, <1>8, <1>9, <1>10 DEF Next

\* No send that raises, to however many clients, ends fanout_loop: it dies only
\* with its Redis connection or when a handler changed the set meanwhile.
THEOREM DeathExplainedCorrect == Spec => []DeathExplained
<1>1. Init => DeathInv
    BY DeathInit
<1>2. DeathInv /\ [Next]_vars => DeathInv'
    BY DeathStep
<1>3. DeathInv => DeathExplained
    BY DEF DeathInv
<1>. QED
    BY <1>1, <1>2, <1>3, PTL DEF Spec

-----------------------------------------------------------------------------
(* What a client gets.                                                      *)

Never(c, m) == \A i \in DOMAIN got[c] : got[c][i] # m
Once(c, m) == \E i \in DOMAIN got[c] : \A j \in DOMAIN got[c] : got[c][j] = m <=> j = i

\* Nobody got a message that was not taken, and everyone got them in order.
OrderInv ==
    \A c \in Clients :
        /\ \A i \in DOMAIN got[c] : got[c][i] <= taken
        /\ \A i, j \in DOMAIN got[c] : i <= j => got[c][i] <= got[c][j]

\* The client whose send is awaited is behind the iterator.
CurrentInv == loop = "sending" /\ ~Churned(taken) => current \notin toSend

Ahead(c) == loop = "sending" /\ c \in toSend \cup {current}

\* A connected client has got once what it was to get, and not yet the message
\* whose broadcast has not come to it.
FeedInv ==
    loop # "dead" =>
        \A c \in clients : conn[c] = "open" =>
            \A m \in (since[c] + 1)..taken : ~Churned(m) =>
                IF Ahead(c) /\ m = taken THEN Never(c, m) ELSE Once(c, m)

GapInv == TypeInv /\ OrderInv /\ CurrentInv /\ FeedInv

\* What one more message does to the list of a client.
LEMMA AppendFacts ==
    ASSUME NEW s \in Seq(Messages), NEW e \in Messages
    PROVE  /\ DOMAIN Append(s, e) = DOMAIN s \cup {Len(s) + 1}
           /\ Len(s) + 1 \notin DOMAIN s
           /\ \A i \in DOMAIN s : i < Len(s) + 1 /\ Append(s, e)[i] = s[i]
           /\ Append(s, e)[Len(s) + 1] = e
    OBVIOUS

LEMMA GotNumbers ==
    ASSUME TypeInv, NEW c \in Clients, NEW i \in DOMAIN got[c]
    PROVE  got[c][i] \in Nat
<1>1. got[c] \in Seq(Messages)
    BY DEF TypeInv, TypeOK
<1>2. got[c][i] \in Messages
    BY <1>1
<1>. QED
    BY <1>2 DEF Messages

LEMMA GapInit == Init => GapInv
<1>. SUFFICES ASSUME Init PROVE GapInv
    OBVIOUS
<1>1. TypeInv
    BY TypeInit
<1>2. \A c \in Clients : DOMAIN got[c] = {}
    BY DEF Init
<1>3. OrderInv
    BY <1>2 DEF OrderInv
<1>. QED
    BY <1>1, <1>3 DEF Init, GapInv, CurrentInv, FeedInv

\* A step that sends nothing, takes nothing and lets nobody in keeps the feed
\* of the clients that stay.
LEMMA QuietStep ==
    ASSUME GapInv,
           UNCHANGED <<taken, got, since, loop, current>>,
           churn \subseteq churn',
           clients' \subseteq clients,
           \A c \in clients' : conn'[c] = "open" => conn[c] = "open",
           loop = "sending" /\ ~Churned(taken)' =>
               \A c \in clients' \cup {current} : c \in toSend' <=> c \in toSend
    PROVE  OrderInv' /\ CurrentInv' /\ FeedInv'
<1>1. OrderInv'
    BY DEF GapInv, OrderInv
<1>2. \A m : Churned(m) => Churned(m)'
    BY DEF Churned
<1>3. CurrentInv'
    BY <1>2 DEF GapInv, CurrentInv
<1>4. ASSUME loop' # "dead", NEW c \in clients', conn'[c] = "open",
             NEW m \in (since'[c] + 1)..taken', ~Churned(m)'
      PROVE  IF Ahead(c)' /\ m = taken' THEN Never(c, m)' ELSE Once(c, m)'
    <2>1. IF Ahead(c) /\ m = taken THEN Never(c, m) ELSE Once(c, m)
        BY <1>2, <1>4 DEF GapInv, FeedInv
    <2>2. m = taken => (Ahead(c)' <=> Ahead(c))
        BY <1>4 DEF Ahead
    <2>. QED
        BY <2>1, <2>2 DEF Never, Once
<1>. QED
    BY <1>1, <1>3, <1>4 DEF FeedInv

LEMMA TakeStep ==
    ASSUME GapInv, TakeMessage
    PROVE  OrderInv' /\ CurrentInv' /\ FeedInv'
<1>1. /\ taken' = taken + 1 /\ taken \in Nat /\ loop = "listen"
      /\ UNCHANGED <<got, conn, since, churn>>
    BY FanoutAssumption DEF TakeMessage, GapInv, TypeInv, TypeOK
<1>2. /\ got \in [Clients -> Seq(Messages)] /\ clients \subseteq Clients
      /\ since \in [Clients -> 0..MaxMessages]
    BY DEF GapInv, TypeInv, TypeOK
<1>3. \A c \in Clients : \A i \in DOMAIN got[c] : got[c][i] \in Nat /\ got[c][i] <= taken
    BY GotNumbers DEF GapInv, OrderInv
<1>4. OrderInv'
    BY <1>1, <1>3 DEF GapInv, OrderInv
<1>5. \/ loop' = "dead"
      \/ loop' = "listen" /\ clients' = {}
      \/ /\ loop' = "sending" /\ clients' = clients /\ current' \notin toSend'
         /\ clients \subseteq toSend' \cup {current'}
    BY DEF TakeMessage, Iterate, EndBroadcast
<1>6. CurrentInv'
    BY <1>5 DEF CurrentInv
<1>7. ASSUME loop' # "dead", NEW c \in clients', conn'[c] = "open",
             NEW m \in (since'[c] + 1)..taken', ~Churned(m)'
      PROVE  IF Ahead(c)' /\ m = taken' THEN Never(c, m)' ELSE Once(c, m)'
    <2>1. Ahead(c)' /\ c \in clients /\ c \in Clients
        BY <1>2, <1>5, <1>7 DEF Ahead
    <2>2. CASE m = taken'
        BY <1>1, <1>3, <2>1, <2>2 DEF Never
    <2>3. CASE m # taken'
        <3>1. m \in (since[c] + 1)..taken /\ ~Churned(m) /\ conn[c] = "open"
            BY <1>1, <1>2, <1>7, <2>1, <2>3 DEF Churned
        <3>2. Once(c, m)
            BY <1>1, <2>1, <3>1 DEF GapInv, FeedInv, Ahead
        <3>. QED
            BY <1>1, <2>3, <3>2 DEF Once
    <2>. QED
        BY <2>2, <2>3
<1>. QED
    BY <1>4, <1>6, <1>7 DEF FeedInv

LEMMA SendStep ==
    ASSUME GapInv, NEW x \in Clients, Send(x)
    PROVE  OrderInv' /\ CurrentInv' /\ FeedInv'
<1>1. /\ loop = "sending" /\ current = x
      /\ UNCHANGED <<taken, conn, since, churn>>
    BY DEF Send, SendReturns, SendRaises
<1>2. /\ got \in [Clients -> Seq(Messages)] /\ clients \subseteq Clients
      /\ taken \in Messages
    <2>1. taken \in Messages
        BY <1>1, FanoutAssumption DEF GapInv, TypeInv, TypeOK, TakenInv, Messages
    <2>. QED
        BY <2>1 DEF GapInv, TypeInv, TypeOK
<1>3. \/ loop' = "dead"
      \/ loop' = "listen" /\ toSend = {} /\ clients' \subseteq clients
      \/ /\ loop' = "sending" /\ clients' = clients /\ current' \notin toSend'
         /\ toSend' \cup {current'} = toSend
    BY DEF Send, SendReturns, SendRaises, Iterate, EndBroadcast
<1>4. \/ conn[x] # "open" /\ got' = got
      \/ conn[x] = "open" /\ got' = [got EXCEPT ![x] = Append(@, taken)]
    BY DEF Send, SendReturns, SendRaises
<1>5. \A c \in Clients : c # x => got'[c] = got[c]
    BY <1>2, <1>4
<1>6. conn[x] = "open" => got'[x] = Append(got[x], taken)
    BY <1>2, <1>4
<1>7. got[x] \in Seq(Messages)
    BY <1>2
<1>8. OrderInv'
    <2>1. ASSUME NEW c \in Clients
          PROVE  /\ \A i \in DOMAIN got'[c] : got'[c][i] <= taken
                 /\ \A i, j \in DOMAIN got'[c] : i <= j => got'[c][i] <= got'[c][j]
        <3>1. /\ \A i \in DOMAIN got[c] : got[c][i] <= taken
              /\ \A i, j \in DOMAIN got[c] : i <= j => got[c][i] <= got[c][j]
            BY DEF GapInv, OrderInv
        <3>2. CASE got'[c] = got[c]
            BY <3>1, <3>2
        <3>3. CASE c = x /\ got'[x] = Append(got[x], taken)
            <4>. DEFINE n == Len(got[x]) + 1
            <4>1. /\ DOMAIN got'[x] = DOMAIN got[x] \cup {n}
                  /\ \A i \in DOMAIN got[x] : i \in Nat /\ i < n /\ got'[x][i] = got[x][i]
                  /\ got'[x][n] = taken /\ taken \in Nat /\ n \in Nat
                BY <1>2, <1>7, <3>3, AppendFacts DEF Messages
            <4>. HIDE DEF n
            <4>. QED
                BY <3>1, <3>3, <4>1
        <3>. QED
            BY <1>4, <1>5, <1>6, <3>2, <3>3
    <2>. QED
        BY <1>1, <2>1 DEF OrderInv
<1>9. CurrentInv'
    BY <1>3 DEF CurrentInv
<1>10. ASSUME loop' # "dead", NEW c \in clients', conn'[c] = "open",
              NEW m \in (since'[c] + 1)..taken', ~Churned(m)'
       PROVE  IF Ahead(c)' /\ m = taken' THEN Never(c, m)' ELSE Once(c, m)'
    <2>1. /\ c \in clients /\ c \in Clients /\ conn[c] = "open" /\ ~Churned(m)
          /\ m \in (since[c] + 1)..taken
        BY <1>1, <1>2, <1>3, <1>10 DEF Churned
    <2>2. IF Ahead(c) /\ m = taken THEN Never(c, m) ELSE Once(c, m)
        BY <1>1, <2>1 DEF GapInv, FeedInv
    <2>3. Ahead(c) <=> c \in toSend \cup {x}
        BY <1>1 DEF Ahead
    <2>4. Ahead(c)' <=> c \in toSend
        BY <1>3, <1>10 DEF Ahead
    <2>5. CASE c # x
        <3>1. (Never(c, m)' <=> Never(c, m)) /\ (Once(c, m)' <=> Once(c, m))
            BY <1>5, <2>1, <2>5 DEF Never, Once
        <3>. QED
            BY <1>1, <2>2, <2>3, <2>4, <2>5, <3>1
    <2>6. CASE c = x
        <3>. DEFINE n == Len(got[x]) + 1
        <3>1. /\ DOMAIN got'[x] = DOMAIN got[x] \cup {n} /\ n \notin DOMAIN got[x]
              /\ \A i \in DOMAIN got[x] : got'[x][i] = got[x][i]
              /\ got'[x][n] = taken
            BY <1>2, <1>6, <1>7, <2>1, <2>6, AppendFacts
        <3>. HIDE DEF n
        <3>2. CASE m = taken
            <4>1. c \notin toSend
                BY <1>1, <2>1, <2>6, <3>2 DEF GapInv, CurrentInv
            <4>2. Never(x, taken)
                BY <2>2, <2>3, <2>6, <3>2
            <4>3. Once(x, taken)'
                BY <1>1, <3>1, <4>2 DEF Never, Once
            <4>. QED
                BY <2>4, <2>6, <3>2, <4>1, <4>3, <1>1
        <3>3. CASE m # taken
            <4>1. Once(x, m)
                BY <2>2, <2>6, <3>3
            <4>2. Once(x, m)'
                BY <3>1, <3>3, <4>1 DEF Once
            <4>. QED
                BY <1>1, <2>6, <3>3, <4>2
        <3>. QED
            BY <3>2, <3>3
    <2>. QED
        BY <2>5, <2>6
<1>. QED
    BY <1>8, <1>9, <1>10 DEF FeedInv

LEMMA GapStep == GapInv /\ [Next]_vars => GapInv'
<1>. SUFFICES ASSUME GapInv, [Next]_vars
              PROVE  OrderInv' /\ CurrentInv' /\ FeedInv'
    BY TypeStep DEF GapInv
<1>0. /\ clients \subseteq Clients /\ taken \in Nat /\ published \in Nat /\ taken <= published
      /\ since \in [Clients -> 0..MaxMessages]
      /\ got \in [Clients -> Seq(Messages)]
      /\ loop = "sending" <=> current # None
    BY FanoutAssumption DEF GapInv, TypeInv, TypeOK
<1>1. CASE Publish
    BY <1>1, QuietStep DEF Publish, broadcast
<1>2. CASE Subscribe
    <2>1. \A c \in Clients : \A i \in DOMAIN got[c] : got[c][i] \in Nat /\ got[c][i] <= published
        <3>. SUFFICES ASSUME NEW c \in Clients, NEW i \in DOMAIN got[c]
                      PROVE  got[c][i] \in Nat /\ got[c][i] <= published
            OBVIOUS
        <3>1. got[c][i] <= taken
            BY DEF GapInv, OrderInv
        <3>. QED
            BY <1>0, <3>1, GotNumbers DEF GapInv
    <2>2. OrderInv'
        BY <1>2, <2>1 DEF Subscribe, GapInv, OrderInv
    <2>3. \A c \in clients' : c \in Clients /\ since'[c] = published
        BY <1>0, <1>2 DEF Subscribe
    <2>4. \A c \in clients' : (since'[c] + 1)..taken' = {}
        BY <1>0, <1>2, <2>3 DEF Subscribe
    <2>. QED
        BY <1>2, <2>2, <2>4 DEF Subscribe, CurrentInv, FeedInv
<1>3. CASE TakeMessage
    BY <1>3, TakeStep
<1>4. CASE RedisFails
    BY <1>4 DEF RedisFails, GapInv, OrderInv, CurrentInv, FeedInv
<1>5. CASE Restart
    BY <1>5 DEF Restart, GapInv, OrderInv, CurrentInv, FeedInv
<1>6. ASSUME NEW x \in Clients, Join(x)
      PROVE  OrderInv' /\ CurrentInv' /\ FeedInv'
    <2>1. /\ UNCHANGED <<taken, got, loop, current>> /\ clients' = clients \cup {x}
          /\ since' = [since EXCEPT ![x] = taken]
          /\ conn' = [conn EXCEPT ![x] = "open"] /\ conn[x] = "new"
          /\ churn' = Noted("join")
        BY <1>6 DEF Join
    <2>2. /\ \A m : Churned(m) => Churned(m)'
          /\ loop = "sending" => Churned(taken)'
        BY <2>1 DEF Noted, Churned
    <2>3. OrderInv' /\ CurrentInv'
        BY <2>1, <2>2 DEF GapInv, OrderInv, CurrentInv
    <2>4. ASSUME loop' # "dead", NEW c \in clients', conn'[c] = "open",
                 NEW m \in (since'[c] + 1)..taken', ~Churned(m)'
          PROVE  IF Ahead(c)' /\ m = taken' THEN Never(c, m)' ELSE Once(c, m)'
        <3>1. c # x /\ c \in clients /\ since'[c] = since[c]
            BY <1>0, <2>1, <2>4
        <3>2. conn[c] = "open"
            BY <2>1, <2>4, <3>1 DEF GapInv, TypeInv, TypeOK
        <3>3. IF Ahead(c) /\ m = taken THEN Never(c, m) ELSE Once(c, m)
            BY <2>1, <2>2, <2>4, <3>1, <3>2 DEF GapInv, FeedInv
        <3>4. ~(loop = "sending" /\ m = taken)
            BY <2>1, <2>2, <2>4 DEF Churned
        <3>. QED
            BY <2>1, <3>3, <3>4 DEF Ahead, Once
    <2>. QED
        BY <2>3, <2>4 DEF FeedInv
<1>7. ASSUME NEW x \in Clients, Vanish(x)
      PROVE  OrderInv' /\ CurrentInv' /\ FeedInv'
    <2>1. \A c \in clients' : conn'[c] = "open" => conn[c] = "open"
        BY <1>0, <1>7 DEF Vanish, GapInv, TypeInv, TypeOK
    <2>. QED
        BY <1>7, <2>1, QuietStep DEF Vanish, feed, broadcast
<1>8. ASSUME NEW x \in Clients, Leave(x)
      PROVE  OrderInv' /\ CurrentInv' /\ FeedInv'
    <2>1. \A c \in clients' : conn'[c] = "open" => conn[c] = "open"
        BY <1>0, <1>8 DEF Leave, GapInv, TypeInv, TypeOK
    <2>2. churn \subseteq churn'
        BY <1>8 DEF Leave, Noted
    <2>3. loop = "sending" /\ ~Churned(taken)' =>
              \A c \in clients' \cup {current} : c \in toSend' <=> c \in toSend
        <3>1. CASE x \in clients
            BY <1>8, <3>1 DEF Leave, Noted, Churned
        <3>2. CASE x \notin clients
            BY <1>8, <3>2 DEF Leave, GapInv, TypeInv, TypeOK
        <3>. QED
            BY <3>1, <3>2
    <2>. QED
        BY <1>8, <2>1, <2>2, <2>3, QuietStep DEF Leave
<1>9. ASSUME NEW x \in Clients, Send(x)
      PROVE  OrderInv' /\ CurrentInv' /\ FeedInv'
    BY <1>9, SendStep
<1>10. CASE UNCHANGED vars
    BY <1>10, QuietStep DEF vars, feed, broadcast
<1>. QED
    BY <1>1, <1>2, <1>3, <1>4, <1>5, <1>6, <1>7, <1>8, <1>9, <1>10 DEF Next

LEMMA GapGapless == GapInv => GaplessFeed
<1>. SUFFICES ASSUME GapInv, loop # "dead", NEW c \in clients, conn[c] = "open"
              PROVE  /\ \A m \in Due(c) : ~Churned(m) =>
                           Cardinality({i \in DOMAIN got[c] : got[c][i] = m}) = 1
                     /\ \A i, j \in DOMAIN got[c] : i <= j => got[c][i] <= got[c][j]
    BY DEF GaplessFeed
<1>1. c \in Clients
    BY DEF GapInv, TypeInv, TypeOK
<1>2. \A i, j \in DOMAIN got[c] : i <= j => got[c][i] <= got[c][j]
    BY <1>1 DEF GapInv, OrderInv
<1>3. ASSUME NEW m \in Due(c), ~Churned(m)
      PROVE  Cardinality({i \in DOMAIN got[c] : got[c][i] = m}) = 1
    <2>1. Once(c, m)
        BY <1>3 DEF GapInv, FeedInv, Due, Ahead
    <2>2. PICK i \in DOMAIN got[c] : \A j \in DOMAIN got[c] : got[c][j] = m <=> j = i
        BY <2>1 DEF Once
    <2>3. {j \in DOMAIN got[c] : got[c][j] = m} = {i}
        BY <2>2
    <2>. QED
        BY <2>3, FS_Singleton
<1>. QED
    BY <1>2, <1>3

\* Whichever clients fail, one that stays connected gets every message since it
\* joined exactly once and in order, but for those during whose broadcast the
\* set changed.
THEOREM GaplessFeedCorrect == Spec => []GaplessFeed
<1>1. Init => GapInv
    BY GapInit
<1>2. GapInv /\ [Next]_vars => GapInv'
    BY GapStep
<1>3. GapInv => GaplessFeed
    BY GapGapless
<1>. QED
    BY <1>1, <1>2, <1>3, PTL DEF Spec

=============================================================================
