----------------------- MODULE DashboardSocketProofs -----------------------
(***************************************************************************)
(* Proofs about DashboardSocket, for any number of sockets and effects and *)
(* any limits.                                                             *)
(***************************************************************************)
EXTENDS DashboardSocket, FiniteSetTheorems, SequenceTheorems, TLAPS

-----------------------------------------------------------------------------
(* What is shown.                                                           *)

\* q holds the last n, or fewer, of m numbered snapshots, oldest first; or of m
\* alerts, newest first.
Rising(q, m, n, S) ==
    /\ q \in Seq(S) /\ Len(q) <= n
    /\ \A i \in DOMAIN q : q[i] = m - Len(q) + i

Falling(q, m, n, S) ==
    /\ q \in Seq(S) /\ Len(q) <= n
    /\ \A i \in DOMAIN q : q[i] = m - i + 1

\* What Last and First answer with when one element is too many.
LEMMA LastPart ==
    ASSUME NEW S, NEW n \in Nat, NEW m \in Nat, NEW a \in Seq(S), Len(a) = n + 1,
           \A i \in 1..Len(a) : a[i] = m - Len(a) + i
    PROVE  Rising(Last(a, n), m, n, S)
<1>1. Len(a) > n /\ Len(a) - n + 1 = 2
    OBVIOUS
<1>2. Last(a, n) = SubSeq(a, 2, n + 1)
    BY <1>1 DEF Last
<1>. DEFINE t == SubSeq(a, 2, n + 1)
<1>3. t \in Seq(S) /\ Len(t) = n /\ DOMAIN t = 1..n /\ \A i \in 1..n : t[i] = a[i + 1]
    OBVIOUS
<1>. HIDE DEF t
<1>4. \A i \in 1..n : t[i] = m - n + i
    BY <1>3
<1>5. t \in Seq(S) /\ Len(t) <= n /\ \A i \in DOMAIN t : t[i] = m - Len(t) + i
    BY <1>3, <1>4
<1>. QED
    BY <1>2, <1>5, Zenon DEF t, Rising

LEMMA FirstPart ==
    ASSUME NEW S, NEW n \in Nat, NEW m \in Nat, NEW a \in Seq(S), Len(a) = n + 1,
           \A i \in 1..Len(a) : a[i] = m - i + 1
    PROVE  Falling(First(a, n), m, n, S)
<1>1. Len(a) > n
    OBVIOUS
<1>2. First(a, n) = SubSeq(a, 1, n)
    BY <1>1 DEF First
<1>. DEFINE t == SubSeq(a, 1, n)
<1>3. t \in Seq(S) /\ Len(t) = n /\ DOMAIN t = 1..n /\ \A i \in 1..n : t[i] = a[i]
    OBVIOUS
<1>. HIDE DEF t
<1>4. \A i \in 1..n : t[i] = m - i + 1
    BY <1>3
<1>5. t \in Seq(S) /\ Len(t) <= n /\ \A i \in DOMAIN t : t[i] = m - i + 1
    BY <1>3, <1>4
<1>. QED
    BY <1>2, <1>5, Zenon DEF t, Falling

\* The n newest of numbered snapshots, after one more.
LEMMA LastType ==
    ASSUME NEW m \in Nat, NEW n \in Nat \ {0}, NEW S, m + 1 \in S, NEW q, Rising(q, m, n, S)
    PROVE  Rising(Last(Append(q, m + 1), n), m + 1, n, S)
<1>0. q \in Seq(S) /\ Len(q) <= n /\ \A i \in DOMAIN q : q[i] = m - Len(q) + i
    BY DEF Rising
<1>. DEFINE a == Append(q, m + 1)
<1>1. /\ a \in Seq(S) /\ Len(a) = Len(q) + 1 /\ Len(q) \in Nat
      /\ \A i \in 1..Len(a) : a[i] = IF i = Len(a) THEN m + 1 ELSE q[i]
    BY <1>0
<1>2. \A i \in 1..Len(a) : a[i] = (m + 1) - Len(a) + i
    BY <1>0, <1>1
<1>3. DOMAIN a = 1..Len(a)
    BY <1>1, LenProperties
<1>. HIDE DEF a
<1>4. n \in Nat /\ m + 1 \in Nat /\ (Len(a) = n + 1 \/ (Len(a) <= n /\ ~(Len(a) > n)))
    BY <1>0, <1>1
<1>5. Rising(Last(a, n), m + 1, n, S)
  <2>1. CASE Len(a) <= n /\ ~(Len(a) > n)
    <3>1. Last(a, n) = a
        BY <2>1, Zenon DEF Last
    <3>2. Rising(a, m + 1, n, S)
        BY <1>1, <1>2, <1>3, <2>1, Zenon DEF Rising
    <3>. QED
        BY <3>1, <3>2, Zenon
  <2>2. CASE Len(a) = n + 1
      BY <1>1, <1>2, <1>4, <2>2, LastPart, Zenon
  <2>. QED
      BY <1>4, <2>1, <2>2, Zenon
<1>. QED
    BY <1>5 DEF a

\* The n newest alerts, after one more in front.
LEMMA FirstType ==
    ASSUME NEW m \in Nat, NEW n \in Nat \ {0}, NEW S, m + 1 \in S, NEW q, Falling(q, m, n, S)
    PROVE  Falling(First(<<m + 1>> \o q, n), m + 1, n, S)
<1>0. q \in Seq(S) /\ Len(q) <= n /\ \A i \in DOMAIN q : q[i] = m - i + 1
    BY DEF Falling
<1>. DEFINE a == <<m + 1>> \o q
<1>1. /\ a \in Seq(S) /\ Len(a) = Len(q) + 1 /\ Len(q) \in Nat
      /\ \A i \in 1..Len(a) : a[i] = IF i = 1 THEN m + 1 ELSE q[i - 1]
    BY <1>0
<1>2. \A i \in 1..Len(a) : a[i] = (m + 1) - i + 1
  <2>1. \A i \in 1..Len(a) : i # 1 => i - 1 \in DOMAIN q
      BY <1>0, <1>1
  <2>. QED
      BY <1>0, <1>1, <2>1
<1>3. DOMAIN a = 1..Len(a)
    BY <1>1, LenProperties
<1>. HIDE DEF a
<1>4. n \in Nat /\ m + 1 \in Nat /\ (Len(a) = n + 1 \/ (Len(a) <= n /\ ~(Len(a) > n)))
    BY <1>0, <1>1
<1>5. Falling(First(a, n), m + 1, n, S)
  <2>1. CASE Len(a) <= n /\ ~(Len(a) > n)
    <3>1. First(a, n) = a
        BY <2>1, Zenon DEF First
    <3>2. Falling(a, m + 1, n, S)
        BY <1>1, <1>2, <1>3, <2>1, Zenon DEF Falling
    <3>. QED
        BY <3>1, <3>2, Zenon
  <2>2. CASE Len(a) = n + 1
      BY <1>1, <1>2, <1>4, <2>2, FirstPart, Zenon
  <2>. QED
      BY <1>4, <2>1, <2>2, Zenon
<1>. QED
    BY <1>5 DEF a

-----------------------------------------------------------------------------
(* Types, and what the chart and the feed show.                             *)

\* The parts of TypeOK.
SocketTypes ==
    /\ up \in BOOLEAN /\ live \in BOOLEAN
    /\ effect \in 0..MaxEffects
    /\ sock \in [Sockets -> {"none", "connecting", "open", "closing", "closed"}]
    /\ owner \in [Sockets -> 0..MaxEffects]
    /\ timers \subseteq {s \in Sockets : sock[s] = "closed"}
    /\ clobbered \subseteq Sockets

RefTypes ==
    /\ socketRef \in Sockets \cup {None} /\ timerRef \in Sockets \cup {None}
    /\ socketRef # None => sock[socketRef] \in {"connecting", "open", "closing"}
    /\ backoff \in BACKOFF_INITIAL..BACKOFF_MAX
    /\ status \in {"connecting", "open", "reconnecting"}

ShownTypes ==
    /\ rpsHistory \in Seq(1..MaxMessages) /\ Len(rpsHistory) <= RPS_HISTORY_LIMIT
    /\ alerts \in Seq(1..MaxMessages) /\ Len(alerts) <= ALERT_FEED_LIMIT
    /\ alertSeq \in 0..MaxMessages /\ snapshots \in 0..MaxMessages

TypeInv == SocketTypes /\ RefTypes /\ ShownTypes /\ ShowsNewest

LEMMA TypeParts == TypeOK <=> SocketTypes /\ RefTypes /\ ShownTypes
BY Zenon DEF TypeOK, SocketTypes, RefTypes, ShownTypes

LEMMA TypeInit == Init => TypeInv
<1>. SUFFICES ASSUME Init PROVE TypeInv
    OBVIOUS
<1>1. SocketTypes
  <2>1. sock = [s \in Sockets |-> "none"] /\ owner = [s \in Sockets |-> 0]
      BY DEF Init
  <2>2. sock \in [Sockets -> {"none", "connecting", "open", "closing", "closed"}]
      BY <2>1
  <2>3. owner \in [Sockets -> 0..MaxEffects] /\ 0 \in 0..MaxEffects
      BY <2>1, SocketAssumption
  <2>. QED
      BY <2>2, <2>3 DEF Init, SocketTypes
<1>2. RefTypes
    BY SocketAssumption DEF Init, RefTypes
<1>3. rpsHistory = <<>> /\ alerts = <<>> /\ alertSeq = 0 /\ snapshots = 0
    BY DEF Init
<1>4. ShownTypes /\ ShowsNewest
    BY <1>3, SocketAssumption DEF ShownTypes, ShowsNewest
<1>. QED
    BY <1>1, <1>2, <1>4 DEF TypeInv

\* connect() on one of the sockets.
LEMMA ConnectType ==
    ASSUME TypeInv, NEW e \in 0..MaxEffects, NEW s \in Sockets,
           NEW st \in [Sockets -> {"none", "connecting", "open", "closing", "closed"}],
           Connect(e, s, st), timers' \subseteq {u \in Sockets \ {s} : st[u] = "closed"},
           UNCHANGED <<up, timerRef, backoff, status>>,
           effect' \in 0..MaxEffects, live' \in BOOLEAN
    PROVE  SocketTypes' /\ RefTypes'
<1>1. /\ sock' = [st EXCEPT ![s] = "connecting"]
      /\ owner' = [owner EXCEPT ![s] = e]
      /\ socketRef' = s /\ clobbered' = clobbered \ {s}
    BY DEF Connect
<1>2. SocketTypes'
    BY <1>1 DEF TypeInv, SocketTypes
<1>3. RefTypes'
    BY <1>1 DEF TypeInv, RefTypes
<1>. QED
    BY <1>2, <1>3

LEMMA CleanupType ==
    ASSUME TypeInv
    PROVE  /\ SocketsAfterCleanup \in
                  [Sockets -> {"none", "connecting", "open", "closing", "closed"}]
           /\ \A s \in Sockets : SocketsAfterCleanup[s] =
                  IF s = socketRef /\ sock[s] \in {"connecting", "open"} THEN "closing"
                  ELSE sock[s]
           /\ TimersAfterCleanup \subseteq timers
BY DEF TypeInv, SocketTypes, SocketsAfterCleanup, TimersAfterCleanup, Active

LEMMA EffectType ==
    ASSUME TypeInv, NEW s \in Sockets, RunEffect(s)
    PROVE  SocketTypes' /\ RefTypes'
<1>1. /\ effect + 1 \in 0..MaxEffects /\ effect' = effect + 1
    BY SocketAssumption DEF TypeInv, SocketTypes, RunEffect
<1>2. timers' \subseteq {u \in Sockets \ {s} : SocketsAfterCleanup[u] = "closed"}
    BY CleanupType DEF RunEffect, Garbage, TypeInv, SocketTypes
<1>. QED
    BY <1>1, <1>2, CleanupType, ConnectType DEF RunEffect

LEMMA UnmountType ==
    ASSUME TypeInv, Unmount
    PROVE  SocketTypes' /\ RefTypes'
<1>1. /\ live' = FALSE /\ timers' \subseteq timers /\ sock' = SocketsAfterCleanup
      /\ UNCHANGED <<up, effect, owner, socketRef, timerRef, backoff, status, clobbered>>
    BY CleanupType DEF Unmount, refs
<1>2. SocketTypes'
    BY <1>1, CleanupType DEF TypeInv, SocketTypes
<1>3. RefTypes'
    BY <1>1, CleanupType DEF TypeInv, RefTypes
<1>. QED
    BY <1>2, <1>3

LEMMA OpenType ==
    ASSUME TypeInv, NEW s \in Sockets, OnOpen(s)
    PROVE  SocketTypes' /\ RefTypes'
<1>1. /\ sock[s] = "connecting" /\ sock' = [sock EXCEPT ![s] = "open"]
      /\ UNCHANGED <<up, effect, live, owner, socketRef, timers, timerRef, clobbered>>
    BY DEF OnOpen
<1>2. /\ backoff' \in BACKOFF_INITIAL..BACKOFF_MAX
      /\ status' \in {"connecting", "open", "reconnecting"}
    BY SocketAssumption DEF OnOpen, TypeInv, RefTypes
<1>3. SocketTypes'
    BY <1>1 DEF TypeInv, SocketTypes
<1>4. RefTypes'
    BY <1>1, <1>2 DEF TypeInv, SocketTypes, RefTypes
<1>. QED
    BY <1>3, <1>4

LEMMA CloseType ==
    ASSUME TypeInv, NEW s \in Sockets, OnClose(s)
    PROVE  SocketTypes' /\ RefTypes'
<1>1. /\ sock' = [sock EXCEPT ![s] = "closed"] /\ socketRef' = None
      /\ timers' \in {timers, timers \cup {s}} /\ timerRef' \in {timerRef, s}
      /\ UNCHANGED <<up, effect, live, owner>>
    BY DEF OnClose, ClearRef
<1>2. backoff' \in BACKOFF_INITIAL..BACKOFF_MAX
  <2>1. Doubled(backoff) \in BACKOFF_INITIAL..BACKOFF_MAX
      BY SocketAssumption DEF TypeInv, RefTypes, Doubled
  <2>. QED
      BY <2>1 DEF OnClose, TypeInv, RefTypes
<1>3. status' \in {"connecting", "open", "reconnecting"}
    BY DEF OnClose, TypeInv, RefTypes
<1>4. clobbered' \subseteq Sockets
    BY DEF OnClose, ClearRef, TypeInv, SocketTypes, RefTypes
<1>5. SocketTypes'
    BY <1>1, <1>4 DEF TypeInv, SocketTypes
<1>6. RefTypes'
    BY <1>1, <1>2, <1>3 DEF TypeInv, RefTypes
<1>. QED
    BY <1>5, <1>6

LEMMA TimerType ==
    ASSUME TypeInv, NEW s \in Sockets, NEW t \in Sockets, TimerFires(s, t)
    PROVE  SocketTypes' /\ RefTypes'
<1>1. /\ s \in timers /\ timers' = timers \ {s}
      /\ UNCHANGED <<up, effect, live, timerRef, backoff, status>>
    BY DEF TimerFires
<1>2. CASE Cancelled(owner[s])
    BY <1>1, <1>2 DEF TimerFires, TypeInv, SocketTypes, RefTypes
<1>3. CASE ~Cancelled(owner[s])
  <2>1. Connect(owner[s], t, sock) /\ t \in Garbage \cup {s}
      BY <1>3 DEF TimerFires
  <2>2. timers' \subseteq {u \in Sockets \ {t} : sock[u] = "closed"}
      BY <1>1, <2>1 DEF Garbage, TypeInv, SocketTypes
  <2>3. /\ owner[s] \in 0..MaxEffects /\ effect' \in 0..MaxEffects /\ live' \in BOOLEAN
        /\ sock \in [Sockets -> {"none", "connecting", "open", "closing", "closed"}]
      BY <1>1 DEF TypeInv, SocketTypes
  <2>. QED
      BY <1>1, <2>1, <2>2, <2>3, ConnectType
<1>. QED
    BY <1>2, <1>3

\* A message keeps the order and the numbering of what is shown.
LEMMA MessageShown ==
    ASSUME TypeInv, NEW s \in Sockets, NEW type, OnMessage(s, type)
    PROVE  ShownTypes' /\ ShowsNewest'
<1>0. /\ snapshots \in Nat /\ alertSeq \in Nat /\ MaxMessages \in Nat
      /\ RPS_HISTORY_LIMIT \in Nat \ {0} /\ ALERT_FEED_LIMIT \in Nat \ {0}
      /\ ShownTypes /\ ShowsNewest
    BY SocketAssumption DEF TypeInv, ShownTypes
<1>1. CASE /\ snapshots < MaxMessages /\ snapshots' = snapshots + 1
           /\ rpsHistory' = Last(Append(rpsHistory, snapshots + 1), RPS_HISTORY_LIMIT)
           /\ UNCHANGED <<alerts, alertSeq>>
  <2>1. Rising(rpsHistory, snapshots, RPS_HISTORY_LIMIT, 1..MaxMessages)
      BY <1>0, Zenon DEF ShownTypes, ShowsNewest, Rising
  <2>2. snapshots + 1 \in 1..MaxMessages
      BY <1>0, <1>1
  <2>4. Rising(rpsHistory', snapshots', RPS_HISTORY_LIMIT, 1..MaxMessages)
    <3>1. Rising(Last(Append(rpsHistory, snapshots + 1), RPS_HISTORY_LIMIT),
                 snapshots + 1, RPS_HISTORY_LIMIT, 1..MaxMessages)
        BY <1>0, <2>1, <2>2, LastType, Zenon
    <3>. QED
        BY <1>1, <3>1, Zenon
  <2>3. snapshots' \in 0..MaxMessages
      BY <1>0, <1>1
  <2>. QED
      BY <1>0, <1>1, <2>3, <2>4, Zenon DEF ShownTypes, ShowsNewest, Rising
<1>2. CASE /\ alertSeq < MaxMessages /\ alertSeq' = alertSeq + 1
           /\ alerts' = First(<<alertSeq + 1>> \o alerts, ALERT_FEED_LIMIT)
           /\ UNCHANGED <<rpsHistory, snapshots>>
  <2>1. Falling(alerts, alertSeq, ALERT_FEED_LIMIT, 1..MaxMessages)
      BY <1>0, Zenon DEF ShownTypes, ShowsNewest, Falling
  <2>2. alertSeq + 1 \in 1..MaxMessages
      BY <1>0, <1>2
  <2>4. Falling(alerts', alertSeq', ALERT_FEED_LIMIT, 1..MaxMessages)
    <3>1. Falling(First(<<alertSeq + 1>> \o alerts, ALERT_FEED_LIMIT),
                  alertSeq + 1, ALERT_FEED_LIMIT, 1..MaxMessages)
        BY <1>0, <2>1, <2>2, FirstType, Zenon
    <3>. QED
        BY <1>2, <3>1, Zenon
  <2>3. alertSeq' \in 0..MaxMessages
      BY <1>0, <1>2
  <2>. QED
      BY <1>0, <1>2, <2>3, <2>4, Zenon DEF ShownTypes, ShowsNewest, Falling
<1>. QED
    BY <1>1, <1>2 DEF OnMessage

LEMMA TypeStep == TypeInv /\ [Next]_vars => TypeInv'
<1>. SUFFICES ASSUME TypeInv, [Next]_vars PROVE TypeInv'
    OBVIOUS
<1>1. ASSUME UNCHANGED shown PROVE ShownTypes' /\ ShowsNewest'
    BY <1>1 DEF shown, TypeInv, ShownTypes, ShowsNewest
<1>2. CASE Toggle
  <2>1. SocketTypes' /\ RefTypes'
      BY <1>2 DEF Toggle, refs, TypeInv, SocketTypes, RefTypes
  <2>. QED
      BY <1>1, <1>2, <2>1 DEF Toggle, TypeInv
<1>3. CASE Unmount
    BY <1>1, <1>3, UnmountType DEF Unmount, TypeInv
<1>4. ASSUME NEW s \in Sockets, RunEffect(s) \/ OnOpen(s) \/ OnClose(s) PROVE TypeInv'
  <2>1. UNCHANGED shown
      BY <1>4 DEF RunEffect, OnOpen, OnClose
  <2>. QED
      BY <1>1, <1>4, <2>1, EffectType, OpenType, CloseType DEF TypeInv
<1>5. ASSUME NEW s \in Sockets, NEW t \in Sockets, TimerFires(s, t) PROVE TypeInv'
  <2>1. UNCHANGED shown
      BY <1>5 DEF TimerFires
  <2>. QED
      BY <1>1, <1>5, <2>1, TimerType DEF TypeInv
<1>6. ASSUME NEW s \in Sockets, NEW type, OnMessage(s, type) PROVE TypeInv'
  <2>1. SocketTypes' /\ RefTypes'
      BY <1>6 DEF OnMessage, refs, TypeInv, SocketTypes, RefTypes
  <2>. QED
      BY <1>6, <2>1, MessageShown DEF TypeInv
<1>7. CASE UNCHANGED vars
  <2>1. SocketTypes' /\ RefTypes'
      BY <1>7 DEF vars, refs, TypeInv, SocketTypes, RefTypes
  <2>. QED
      BY <1>1, <1>7, <2>1 DEF vars, TypeInv
<1>. QED
    BY <1>2, <1>3, <1>4, <1>5, <1>6, <1>7 DEF Next

\* The refs hold what the hook's callbacks leave in them, the backoff stays
\* between its initial value and its cap: TypeOK.
THEOREM TypeCorrect == Spec => []TypeOK
<1>1. Spec => []TypeInv
    BY TypeInit, TypeStep, PTL DEF Spec
<1>2. TypeInv => TypeOK
    BY TypeParts DEF TypeInv
<1>. QED
    BY <1>1, <1>2, PTL

\* onmessage keeps the newest snapshots in order and the newest alerts first,
\* with _ids that are unique, whichever sockets they come from: ShowsNewest.
THEOREM ShowsNewestCorrect == Spec => []ShowsNewest
<1>1. Spec => []TypeInv
    BY TypeInit, TypeStep, PTL DEF Spec
<1>2. TypeInv => ShowsNewest
    BY DEF TypeInv
<1>. QED
    BY <1>1, <1>2, PTL

-----------------------------------------------------------------------------
(* One attempt at a time.                                                   *)

\* The sockets that have not got their onclose.
Pending == {s \in Sockets : sock[s] \in {"connecting", "open", "closing"}}

\* No socket is of an effect to come; a pending reconnect is of the running
\* effect, is the one that timerRef holds, and excludes an open attempt.
AttemptInv ==
    /\ \A s \in Sockets : owner[s] <= effect
    /\ timers \subseteq Own \cap {timerRef}
    /\ live \/ timers = {}
    /\ live => \/ timers = {} /\ \E s \in Own : Own \cap Pending = {s}
               \/ timers # {} /\ Own \cap Pending = {}

\* The socket of the running effect is in socketRef, or was until another
\* one's onclose cleared it.
RefInv == live => \A s \in Own \cap Active : s = socketRef \/ s \in clobbered

SocketInv == AttemptInv /\ RefInv /\ OrphansExplained

LEMMA SocketInit == Init => SocketInv
BY DEF Init, SocketInv, AttemptInv, RefInv, OrphansExplained, Active, Own, Pending

LEMMA SocketFrame ==
    ASSUME SocketInv, UNCHANGED <<effect, live, sock, owner, timers, timerRef, socketRef, clobbered>>
    PROVE  SocketInv'
BY DEF SocketInv, AttemptInv, RefInv, OrphansExplained, Active, Own, Pending, Cancelled

\* The types at hand.
LEMMA SocketFacts ==
    ASSUME TypeInv
    PROVE  /\ effect \in Nat /\ live \in BOOLEAN /\ timers \subseteq Sockets
           /\ sock \in [Sockets -> {"none", "connecting", "open", "closing", "closed"}]
           /\ owner \in [Sockets -> Nat]
           /\ None \notin Sockets
<1>1. owner \in [Sockets -> 0..MaxEffects] /\ \A n \in 0..MaxEffects : n \in Nat
    BY SocketAssumption DEF TypeInv, SocketTypes
<1>2. owner \in [Sockets -> Nat]
    BY <1>1
<1>. QED
    BY <1>2, SocketAssumption DEF TypeInv, SocketTypes

\* The cleanup clears the only timer, and closes the effect's own socket unless
\* that one's reference is gone.
LEMMA SocketEffect ==
    ASSUME TypeInv, SocketInv, NEW s \in Sockets, RunEffect(s)
    PROVE  SocketInv'
<1>1. /\ effect' = effect + 1 /\ live' = TRUE /\ timers' = timers \ {timerRef}
      /\ sock' = [SocketsAfterCleanup EXCEPT ![s] = "connecting"]
      /\ owner' = [owner EXCEPT ![s] = effect + 1]
      /\ socketRef' = s /\ clobbered' = clobbered \ {s} /\ s \in Garbage
    BY DEF RunEffect, Connect, TimersAfterCleanup
<1>2. /\ sock'[s] = "connecting" /\ owner'[s] = effect + 1
      /\ \A u \in Sockets \ {s} : /\ owner'[u] = owner[u]
                                  /\ sock'[u] = SocketsAfterCleanup[u]
    BY <1>1, SocketFacts, CleanupType
<1>3. timers' = {}
    BY <1>1 DEF SocketInv, AttemptInv
<1>4. \A u \in Sockets : owner[u] \in Nat /\ owner[u] <= effect /\ effect \in Nat
    BY SocketFacts DEF SocketInv, AttemptInv
<1>5. Own' = {s}
    BY <1>1, <1>2, <1>4 DEF Own
<1>6. AttemptInv'
  <2>1. \A u \in Sockets : owner'[u] <= effect'
      BY <1>1, <1>2, <1>4
  <2>2. (Own \cap Pending)' = {s}
      BY <1>2, <1>5 DEF Pending
  <2>. QED
      BY <1>3, <1>5, <2>1, <2>2 DEF AttemptInv
<1>7. RefInv'
    BY <1>1, <1>5 DEF RefInv
<1>8. OrphansExplained'
  <2>1. SUFFICES ASSUME NEW u \in Active', Cancelled(owner[u])'
                 PROVE  u \in clobbered'
      BY DEF OrphansExplained
  <2>2. u \in Sockets /\ u # s
      BY <1>1, <1>2, <2>1 DEF Active, Cancelled
  <2>3. SocketsAfterCleanup[u] \in {"connecting", "open"}
      BY <1>2, <2>1, <2>2 DEF Active
  <2>4. u \in Active /\ u # socketRef
      BY <2>2, <2>3, CleanupType DEF Active
  <2>5. u \in clobbered
    <3>1. CASE Cancelled(owner[u])
        BY <2>4, <3>1 DEF SocketInv, OrphansExplained
    <3>2. CASE ~Cancelled(owner[u])
        BY <2>2, <2>4, <3>2 DEF Cancelled, SocketInv, RefInv, Own
    <3>. QED
        BY <3>1, <3>2
  <2>. QED
      BY <1>1, <2>2, <2>5
<1>. QED
    BY <1>6, <1>7, <1>8 DEF SocketInv

LEMMA SocketUnmount ==
    ASSUME TypeInv, SocketInv, Unmount
    PROVE  SocketInv'
<1>1. /\ live /\ live' = FALSE /\ timers' = timers \ {timerRef} /\ sock' = SocketsAfterCleanup
      /\ UNCHANGED <<effect, owner, clobbered>>
    BY DEF Unmount, TimersAfterCleanup
<1>2. timers' = {}
    BY <1>1 DEF SocketInv, AttemptInv
<1>3. AttemptInv' /\ RefInv'
    BY <1>1, <1>2 DEF SocketInv, AttemptInv, RefInv
<1>4. OrphansExplained'
  <2>1. SUFFICES ASSUME NEW u \in Active' PROVE u \in clobbered
      BY <1>1 DEF OrphansExplained
  <2>2. u \in Sockets /\ u \in Active /\ u # socketRef
      BY <1>1, <2>1, CleanupType DEF Active
  <2>3. CASE Cancelled(owner[u])
      BY <2>2, <2>3 DEF SocketInv, OrphansExplained
  <2>4. CASE ~Cancelled(owner[u])
      BY <2>2, <2>4 DEF Cancelled, SocketInv, RefInv, Own
  <2>. QED
      BY <2>3, <2>4
<1>. QED
    BY <1>3, <1>4 DEF SocketInv

LEMMA SocketOpen ==
    ASSUME TypeInv, SocketInv, NEW s \in Sockets, OnOpen(s)
    PROVE  SocketInv'
<1>1. /\ sock[s] = "connecting" /\ sock' = [sock EXCEPT ![s] = "open"]
      /\ UNCHANGED <<effect, live, owner, timers, timerRef, socketRef, clobbered>>
    BY DEF OnOpen
<1>2. Own' = Own /\ Active' = Active /\ Pending' = Pending
    BY <1>1, SocketFacts DEF Own, Active, Pending
<1>3. AttemptInv'
    BY <1>1, <1>2 DEF SocketInv, AttemptInv
<1>4. RefInv' /\ OrphansExplained'
    BY <1>1, <1>2 DEF SocketInv, RefInv, OrphansExplained, Cancelled
<1>. QED
    BY <1>3, <1>4 DEF SocketInv

\* Whoever's onclose it is, the running effect has one attempt left: its own
\* socket, or the reconnect that this onclose has scheduled.
LEMMA SocketClose ==
    ASSUME TypeInv, SocketInv, NEW s \in Sockets, OnClose(s)
    PROVE  SocketInv'
<1>1. /\ s \in Pending /\ sock' = [sock EXCEPT ![s] = "closed"] /\ socketRef' = None
      /\ clobbered' = IF socketRef \in {s, None} THEN clobbered
                      ELSE clobbered \cup {socketRef}
      /\ UNCHANGED <<effect, live, owner>>
    BY DEF OnClose, ClearRef, Pending
<1>2. Own' = Own /\ Active' = Active \ {s} /\ Pending' = Pending \ {s}
    BY <1>1, SocketFacts DEF Own, Active, Pending
<1>3. RefInv'
    BY <1>1, <1>2, SocketFacts DEF SocketInv, RefInv, Own
<1>4. OrphansExplained'
    BY <1>1, <1>2 DEF SocketInv, OrphansExplained, Cancelled
<1>5. CASE Cancelled(owner[s])
  <2>1. UNCHANGED <<timers, timerRef>>
      BY <1>5 DEF OnClose
  <2>2. live => s \notin Own
      BY <1>5 DEF Cancelled, Own
  <2>3. AttemptInv'
      BY <1>1, <1>2, <2>1, <2>2 DEF SocketInv, AttemptInv
  <2>. QED
      BY <1>3, <1>4, <2>3 DEF SocketInv
<1>6. CASE ~Cancelled(owner[s])
  <2>1. timers' = timers \cup {s} /\ timerRef' = s
      BY <1>6 DEF OnClose
  <2>2. live /\ s \in Own
      BY <1>6 DEF Cancelled, Own
  <2>3. timers = {} /\ Own \cap Pending = {s}
      BY <1>1, <2>2 DEF SocketInv, AttemptInv
  <2>4. timers' = {s} /\ (Own \cap Pending)' = {}
      BY <1>2, <2>1, <2>3
  <2>5. AttemptInv'
      BY <1>1, <1>2, <2>1, <2>2, <2>4 DEF SocketInv, AttemptInv
  <2>. QED
      BY <1>3, <1>4, <2>5 DEF SocketInv
<1>. QED
    BY <1>5, <1>6

LEMMA SocketTimer ==
    ASSUME TypeInv, SocketInv, NEW s \in Sockets, NEW t \in Sockets, TimerFires(s, t)
    PROVE  SocketInv'
<1>1. /\ s \in timers /\ timers' = timers \ {s} /\ UNCHANGED <<effect, live, timerRef>>
    BY DEF TimerFires
<1>2. live /\ s \in Own /\ timers = {s} /\ Own \cap Pending = {}
    BY <1>1 DEF SocketInv, AttemptInv
<1>3. ~Cancelled(owner[s]) /\ owner[s] = effect
    BY <1>2 DEF Cancelled, Own
<1>4. /\ sock' = [sock EXCEPT ![t] = "connecting"]
      /\ owner' = [owner EXCEPT ![t] = effect]
      /\ socketRef' = t /\ clobbered' = clobbered \ {t}
    BY <1>3 DEF TimerFires, Connect
<1>5. /\ Own' = Own \cup {t} /\ Pending' = Pending \cup {t} /\ Active' = Active \cup {t}
      /\ \A u \in Sockets \ {t} : owner'[u] = owner[u]
      /\ owner'[t] = effect
    BY <1>1, <1>4, SocketFacts DEF Own, Pending, Active
<1>6. timers' = {} /\ (Own \cap Pending)' = {t}
  <2>1. t \notin Pending
    <3>1. t \in Garbage \cup {s}
        BY <1>3 DEF TimerFires
    <3>2. sock[s] = "closed"
        BY <1>1 DEF TypeInv, SocketTypes
    <3>. QED
        BY <3>1, <3>2 DEF Garbage, Pending
  <2>. QED
      BY <1>1, <1>2, <1>5
<1>7. AttemptInv'
  <2>1. \A u \in Sockets : owner'[u] <= effect'
      BY <1>1, <1>5, SocketFacts DEF SocketInv, AttemptInv
  <2>. QED
      BY <1>1, <1>2, <1>5, <1>6, <2>1 DEF AttemptInv
<1>8. RefInv'
  <2>1. Active' \subseteq Pending'
      BY DEF Active, Pending
  <2>. QED
      BY <1>4, <1>6, <2>1 DEF RefInv
<1>9. OrphansExplained'
  <2>1. SUFFICES ASSUME NEW u \in Active', Cancelled(owner[u])'
                 PROVE  u \in clobbered'
      BY DEF OrphansExplained
  <2>2. u # t /\ u \in Active /\ u \in Sockets
      BY <1>1, <1>2, <1>5, <2>1 DEF Cancelled, Active
  <2>3. Cancelled(owner[u])
      BY <1>1, <1>5, <2>1, <2>2 DEF Cancelled
  <2>. QED
      BY <1>4, <2>2, <2>3 DEF SocketInv, OrphansExplained
<1>. QED
    BY <1>7, <1>8, <1>9 DEF SocketInv

LEMMA SocketStep == TypeInv /\ SocketInv /\ [Next]_vars => SocketInv'
<1>. SUFFICES ASSUME TypeInv, SocketInv, [Next]_vars PROVE SocketInv'
    OBVIOUS
<1>1. CASE Toggle \/ UNCHANGED vars
    BY <1>1, SocketFrame DEF Toggle, vars, refs
<1>2. ASSUME NEW s \in Sockets, NEW type, OnMessage(s, type) PROVE SocketInv'
    BY <1>2, SocketFrame DEF OnMessage, refs
<1>. QED
    BY <1>1, <1>2, SocketEffect, SocketUnmount, SocketOpen, SocketClose, SocketTimer DEF Next

LEMMA SocketInvariant == Spec => [](TypeInv /\ SocketInv)
BY TypeInit, TypeStep, SocketInit, SocketStep, PTL DEF Spec

\* Whatever the order of cleanups, late onclose callbacks and timeouts, the
\* running effect has one socket or one pending reconnect, and a cancelled one
\* has none pending: OneAttempt.
THEOREM OneAttemptCorrect == Spec => []OneAttempt
<1>1. TypeInv /\ SocketInv => OneAttempt
  <2>. SUFFICES ASSUME TypeInv, SocketInv PROVE OneAttempt
      OBVIOUS
  <2>1. \A s \in timers : ~Cancelled(owner[s])
      BY DEF SocketInv, AttemptInv, Cancelled, Own
  <2>2. ASSUME live
        PROVE  Cardinality(Own \cap Pending) + Cardinality(timers \cap Own) = 1
    <3>1. CASE timers = {} /\ \E s \in Own : Own \cap Pending = {s}
      <4>1. timers \cap Own = {}
          BY <3>1
      <4>2. Cardinality(Own \cap Pending) = 1 /\ Cardinality(timers \cap Own) = 0
          BY <3>1, <4>1, FS_Singleton, FS_EmptySet
      <4>. QED
          BY <4>2
    <3>2. CASE timers # {} /\ Own \cap Pending = {}
      <4>1. timers \cap Own = {timerRef}
          BY <3>2 DEF SocketInv, AttemptInv
      <4>2. Cardinality(Own \cap Pending) = 0 /\ Cardinality(timers \cap Own) = 1
          BY <3>2, <4>1, FS_Singleton, FS_EmptySet
      <4>. QED
          BY <4>2
    <3>. QED
        BY <2>2, <3>1, <3>2 DEF SocketInv, AttemptInv
  <2>3. {s \in Own : sock[s] \in {"connecting", "open", "closing"}} = Own \cap Pending
      BY DEF Own, Pending
  <2>. QED
      BY <2>1, <2>2, <2>3 DEF OneAttempt
<1>. QED
    BY <1>1, SocketInvariant, PTL

\* A socket that outlives its effect is one whose reference the onclose of
\* another had cleared before the cleanup: OrphansExplained.
THEOREM OrphansExplainedCorrect == Spec => []OrphansExplained
<1>1. SocketInv => OrphansExplained
    BY DEF SocketInv
<1>. QED
    BY <1>1, SocketInvariant, PTL

=============================================================================
