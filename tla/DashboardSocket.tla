-------------------------- MODULE DashboardSocket --------------------------
(***************************************************************************)
(* useDashboardSocket: the effect that keeps one WebSocket to the gateway, *)
(* reconnects with backoff and is cleaned up and run anew when the url     *)
(* changes (or twice on mount, in React's strict mode).                    *)
(*                                                                         *)
(* Every callback is one step of the browser's event loop.  The refs are   *)
(* shared by all effects of the component, cancelled belongs to one of     *)
(* them; close() only starts to close, onclose comes later.                *)
(***************************************************************************)
EXTENDS Integers, Sequences, FiniteSets

CONSTANTS
    Sockets,            \* WebSocket objects; one that is garbage is used again
    None,               \* null
    BACKOFF_INITIAL, BACKOFF_MAX,
    RPS_HISTORY_LIMIT, ALERT_FEED_LIMIT,
    MaxEffects,         \* bound: runs of the effect
    MaxMessages         \* bound: messages of either type

ASSUME SocketAssumption ==
    /\ None \notin Sockets
    /\ BACKOFF_INITIAL \in Nat \ {0}
    /\ BACKOFF_MAX \in Nat \ {0} /\ BACKOFF_INITIAL <= BACKOFF_MAX
    /\ RPS_HISTORY_LIMIT \in Nat \ {0} /\ ALERT_FEED_LIMIT \in Nat \ {0}
    /\ MaxEffects \in Nat \ {0} /\ MaxMessages \in Nat

VARIABLES
    up,             \* does the gateway accept connections?
    effect,         \* number of the last effect that ran, 0 before the mount
    live,           \* is that effect not cleaned up yet?
    sock,           \* readyState of each socket
    owner,          \* the effect in whose closure it was made
    socketRef,      \* socketRef.current
    timers,         \* sockets whose onclose set a timeout that is still pending
    timerRef,       \* reconnectTimerRef.current, as that socket
    backoff,        \* backoffMsRef.current
    status,
    rpsHistory,     \* the ordinals of the snapshots shown
    alerts,         \* the _ids of the alerts shown
    alertSeq,       \* alertSeqRef.current
    snapshots,      \* history: snapshots received by an effect not cancelled
    clobbered       \* history: sockets whose reference another's onclose cleared

refs == <<socketRef, timerRef, backoff>>
shown == <<rpsHistory, alerts, alertSeq, snapshots>>
vars == <<up, effect, live, sock, owner, refs, timers, status, shown, clobbered>>

Cancelled(e) == e # effect \/ ~live
Active == {s \in Sockets : sock[s] \in {"connecting", "open"}}
Garbage == {s \in Sockets : s \notin timers /\ s # socketRef /\ sock[s] \in {"none", "closed"}}

TypeOK ==
    /\ up \in BOOLEAN /\ live \in BOOLEAN
    /\ effect \in 0..MaxEffects
    /\ sock \in [Sockets -> {"none", "connecting", "open", "closing", "closed"}]
    /\ owner \in [Sockets -> 0..MaxEffects]
    /\ socketRef \in Sockets \cup {None} /\ timerRef \in Sockets \cup {None}
    /\ socketRef # None => sock[socketRef] \in {"connecting", "open", "closing"}
    /\ timers \subseteq {s \in Sockets : sock[s] = "closed"}
    /\ backoff \in BACKOFF_INITIAL..BACKOFF_MAX
    /\ status \in {"connecting", "open", "reconnecting"}
    /\ rpsHistory \in Seq(1..MaxMessages) /\ Len(rpsHistory) <= RPS_HISTORY_LIMIT
    /\ alerts \in Seq(1..MaxMessages) /\ Len(alerts) <= ALERT_FEED_LIMIT
    /\ alertSeq \in 0..MaxMessages /\ snapshots \in 0..MaxMessages
    /\ clobbered \subseteq Sockets

Init ==
    /\ up \in BOOLEAN
    /\ effect = 0 /\ live = FALSE
    /\ sock = [s \in Sockets |-> "none"]
    /\ owner = [s \in Sockets |-> 0]
    /\ socketRef = None /\ timerRef = None
    /\ timers = {}
    /\ backoff = BACKOFF_INITIAL
    /\ status = "connecting"
    /\ rpsHistory = <<>> /\ alerts = <<>> /\ alertSeq = 0 /\ snapshots = 0
    /\ clobbered = {}

-----------------------------------------------------------------------------
(* The effect and its cleanup.                                              *)

\* The gateway stops or starts accepting connections.
Toggle ==
    /\ up' = ~up
    /\ UNCHANGED <<effect, live, sock, owner, refs, timers, status, shown, clobbered>>

\* connect() of effect e, on sockets in the states st.
Connect(e, s, st) ==
    /\ sock' = [st EXCEPT ![s] = "connecting"]
    /\ owner' = [owner EXCEPT ![s] = e]
    /\ socketRef' = s
    /\ clobbered' = clobbered \ {s}

\* Mutants: the cleanup forgets the socket, or the timer.
SocketsForgotten == sock
TimersForgotten == timers

\* The cleanup closes the socket of socketRef (nothing happens to one that is
\* closing or closed) and clears the timer of timerRef.
SocketsAfterCleanup ==
    [s \in Sockets |-> IF s = socketRef /\ s \in Active THEN "closing" ELSE sock[s]]
TimersAfterCleanup == timers \ {timerRef}

\* The effect runs: on mount, and after the cleanup when the url changes.
RunEffect(s) ==
    /\ effect < MaxEffects /\ (effect > 0 => live)
    /\ s \in Garbage
    /\ effect' = effect + 1 /\ live' = TRUE
    /\ timers' = TimersAfterCleanup
    /\ Connect(effect + 1, s, SocketsAfterCleanup)
    /\ UNCHANGED <<up, timerRef, backoff, status, shown>>

Unmount ==
    /\ live
    /\ live' = FALSE
    /\ timers' = TimersAfterCleanup
    /\ sock' = SocketsAfterCleanup
    /\ UNCHANGED <<up, effect, owner, refs, status, shown, clobbered>>

-----------------------------------------------------------------------------
(* The callbacks.                                                           *)

OnOpen(s) ==
    /\ sock[s] = "connecting" /\ up
    /\ sock' = [sock EXCEPT ![s] = "open"]
    /\ IF Cancelled(owner[s])
         THEN UNCHANGED <<backoff, status>>
         ELSE backoff' = BACKOFF_INITIAL /\ status' = "open"
    /\ UNCHANGED <<up, effect, live, owner, socketRef, timers, timerRef, shown, clobbered>>

\* Mutant: the backoff is never capped.
DoubledUncapped(b) == b * 2

Doubled(b) == IF b * 2 < BACKOFF_MAX THEN b * 2 ELSE BACKOFF_MAX

\* Any onclose clears socketRef, also when it has come to hold another socket.
ClearRef(s) ==
    /\ socketRef' = None
    /\ clobbered' = IF socketRef \in {s, None} THEN clobbered ELSE clobbered \cup {socketRef}

\* The connection failed, was lost, or its close() is done.
OnClose(s) ==
    /\ sock[s] \in {"connecting", "open", "closing"}
    /\ sock' = [sock EXCEPT ![s] = "closed"]
    /\ ClearRef(s)
    /\ IF Cancelled(owner[s])
         THEN UNCHANGED <<status, backoff, timers, timerRef>>
         ELSE /\ status' = "reconnecting"
              /\ backoff' = Doubled(backoff)
              /\ timers' = timers \cup {s} /\ timerRef' = s
    /\ UNCHANGED <<up, effect, live, owner, shown>>

\* Mutant: no more attempts once the backoff is at its cap.
TimerFiresBelowCap(s, t) ==
    /\ s \in timers /\ backoff < BACKOFF_MAX
    /\ timers' = timers \ {s}
    /\ t \in Garbage \cup {s} /\ Connect(owner[s], t, sock)
    /\ UNCHANGED <<up, effect, live, timerRef, backoff, status, shown>>

\* setTimeout(connect, delay): connect returns at once when cancelled.
TimerFires(s, t) ==
    /\ s \in timers
    /\ timers' = timers \ {s}
    /\ IF Cancelled(owner[s])
         THEN t = s /\ UNCHANGED <<sock, owner, socketRef, clobbered>>
         ELSE t \in Garbage \cup {s} /\ Connect(owner[s], t, sock)
    /\ UNCHANGED <<up, effect, live, timerRef, backoff, status, shown>>

\* Mutant: the newest point is cut off.
LastLosingNewest(seq, n) == IF Len(seq) > n THEN SubSeq(seq, 1, n) ELSE seq

Last(seq, n) == IF Len(seq) > n THEN SubSeq(seq, Len(seq) - n + 1, Len(seq)) ELSE seq
First(seq, n) == IF Len(seq) > n THEN SubSeq(seq, 1, n) ELSE seq

\* A METRIC_SNAPSHOT is appended, an alert is put in front with the next _id,
\* anything else is dropped; a cancelled effect's socket changes nothing.
OnMessage(s, type) ==
    /\ sock[s] = "open" /\ ~Cancelled(owner[s])
    /\ \/ /\ type = "METRIC_SNAPSHOT" /\ snapshots < MaxMessages
          /\ snapshots' = snapshots + 1
          /\ rpsHistory' = Last(Append(rpsHistory, snapshots + 1), RPS_HISTORY_LIMIT)
          /\ UNCHANGED <<alerts, alertSeq>>
       \/ /\ type = "THREAT_DETECTED" /\ alertSeq < MaxMessages
          /\ alertSeq' = alertSeq + 1
          /\ alerts' = First(<<alertSeq + 1>> \o alerts, ALERT_FEED_LIMIT)
          /\ UNCHANGED <<rpsHistory, snapshots>>
    /\ UNCHANGED <<up, effect, live, sock, owner, refs, timers, status, clobbered>>

Next ==
    \/ Toggle \/ Unmount
    \/ \E s \in Sockets :
        \/ RunEffect(s) \/ OnOpen(s) \/ OnClose(s)
        \/ \E t \in Sockets : TimerFires(s, t)
        \/ \E type \in {"METRIC_SNAPSHOT", "THREAT_DETECTED"} : OnMessage(s, type)

Spec == Init /\ [][Next]_vars

(***************************************************************************)
(* Timeouts fire; a socket that is closing, or connecting while the        *)
(* gateway is away, gets its onclose; and of the attempts made while the   *)
(* gateway is there again and again, some succeed.                         *)
(***************************************************************************)
Fairness ==
    /\ \A s \in Sockets :
        /\ WF_vars(\E t \in Sockets : TimerFires(s, t))
        /\ WF_vars((sock[s] = "closing" \/ ~up) /\ OnClose(s))
    /\ SF_vars(\E s \in Sockets : ~Cancelled(owner[s]) /\ OnOpen(s))

FairSpec == Spec /\ Fairness

-----------------------------------------------------------------------------
(* Properties.                                                              *)

Own == {s \in Sockets : owner[s] = effect}

\* The running effect has either one socket that is not closed or one pending
\* reconnect: none is lost and none is made twice.  A cancelled effect has none
\* pending, whichever socket of whichever effect closes late: without the
\* guards it "could leave an orphaned socket alive, still scheduling reconnect
\* attempts" (docs/14).
OneAttempt ==
    /\ live => Cardinality({s \in Own : sock[s] \in {"connecting", "open", "closing"}})
                 + Cardinality(timers \cap Own) = 1
    /\ \A s \in timers : ~Cancelled(owner[s])

\* A socket outlives its effect only when the late onclose of an older one had
\* cleared socketRef, so that the cleanup had nothing to close.
OrphansExplained == \A s \in Active : Cancelled(owner[s]) => s \in clobbered

\* The chart shows the newest snapshots in order, the feed the newest alerts,
\* newest first, with unique _ids, however often the socket was replaced.
ShowsNewest ==
    /\ \A i \in DOMAIN rpsHistory : rpsHistory[i] = snapshots - Len(rpsHistory) + i
    /\ \A i \in DOMAIN alerts : alerts[i] = alertSeq - i + 1

\* Once the gateway stays up, a mounted dashboard is connected again and again.
Reconnects ==
    <>[]up => []<>(~live \/ \E s \in Own : sock[s] = "open")

=============================================================================
