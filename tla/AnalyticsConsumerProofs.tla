---------------------- MODULE AnalyticsConsumerProofs ----------------------
(***************************************************************************)
(* Proofs about AnalyticsConsumer, for any number of consumers, entries    *)
(* and crashes and for any batch sizes.                                    *)
(***************************************************************************)
EXTENDS AnalyticsConsumer, FiniteSetTheorems, TLAPS

-----------------------------------------------------------------------------
(* Type correctness.                                                        *)

\* FirstN takes a part of the set: all that the proofs need of Redis's order.
LEMMA FirstNSubset ==
    ASSUME NEW S, NEW n PROVE FirstN(S, n) \subseteq S
BY DEF FirstN

\* XAUTOCLAIM visits pending entries only.
LEMMA VisitedPending ==
    ASSUME NEW from PROVE Visited(from) \subseteq Pending
<1>. DEFINE inRange == {e \in Pending : e >= from}
<1>1. FirstN(inRange, CLAIM_ATTEMPTS) \subseteq inRange
    BY FirstNSubset
<1>. QED
    BY <1>1 DEF Visited

\* What XREADGROUP > returns has been added, was not delivered before and is
\* not trimmed; the group's last-delivered id moves to its last entry.
LEMMA NewMessagesFacts ==
    ASSUME TypeOK, NEW c \in Consumers
    PROVE  /\ LastSeen \in lastDelivered..added
           /\ trimmed <= LastSeen
           /\ LastSeen \in {lastDelivered, trimmed}
           /\ LastRead(c) \in LastSeen..added
           /\ NewMessages(c) \subseteq Entries
           /\ NewMessages(c) # {} => LastRead(c) > LastSeen
<1>. DEFINE held == batch[c].events
<1>1. held \in SUBSET Entries
    BY DEF TypeOK, Work
<1>2. IsFiniteSet(Entries)
    BY FS_Interval, ConstantsAssumption DEF Entries
<1>3. IsFiniteSet(held)
    BY <1>1, <1>2, FS_Subset
<1>4. Cardinality(held) \in Nat
    BY <1>3, FS_CardinalityType
<1>. HIDE DEF held
<1>5. /\ LastSeen \in lastDelivered..added /\ trimmed <= LastSeen
      /\ LastSeen \in {lastDelivered, trimmed}
    BY DEF TypeOK, LastSeen
<1>. DEFINE room == BATCH_SIZE - Cardinality(held)
            count == IF room < 1 THEN 1 ELSE room
<1>6. count \in Nat /\ count >= 1
    BY <1>4, ConstantsAssumption
<1>7. LastRead(c) = IF LastSeen + count > added THEN added ELSE LastSeen + count
    BY DEF LastRead, held
<1>. HIDE DEF count
<1>8. added \in 0..MaxEntries /\ lastDelivered \in 0..added /\ MaxEntries \in Nat
    BY ConstantsAssumption DEF TypeOK
<1>9. LastRead(c) \in LastSeen..added
    BY <1>5, <1>6, <1>7, <1>8
<1>10. NewMessages(c) \subseteq Entries
    BY <1>5, <1>8, <1>9 DEF NewMessages, Entries
<1>11. NewMessages(c) # {} => LastRead(c) > LastSeen
    BY <1>5, <1>8, <1>9 DEF NewMessages
<1>. QED
    BY <1>5, <1>9, <1>10, <1>11

\* No work is work.
LEMMA NoWorkType == NoWork \in Work /\ NoWork.ids = {} /\ NoWork.events = {}
BY DEF NoWork, Work

LEMMA TypeInit == Init => TypeOK
<1>. SUFFICES ASSUME Init PROVE TypeOK
    OBVIOUS
<1>1. owner \in [Entries -> Consumers \cup {None}] /\ idle \subseteq Pending
    BY DEF Init
<1>2. counted \in [Entries -> Nat] /\ exposed \in [Entries -> Nat]
    BY DEF Init
<1>3. pc \in [Consumers -> Locations] /\ caller \in [Consumers -> Callers]
    BY DEF Init, Locations, Callers
<1>4. batch \in [Consumers -> Work] /\ args \in [Consumers -> Work]
    BY NoWorkType DEF Init
<1>5. /\ cursor \in [Consumers -> 0..MaxEntries] /\ crashes \in 0..MaxCrashes
      /\ added \in 0..MaxEntries
    BY ConstantsAssumption DEF Init
<1>6. /\ trimmed \in 0..added /\ lastDelivered \in 0..added
    BY DEF Init
<1>7. /\ poison \subseteq 1..added /\ unwritable \subseteq 1..added
      /\ groupExists \in BOOLEAN
    BY Zenon DEF Init
<1>. QED
    BY <1>1, <1>2, <1>3, <1>4, <1>5, <1>6, <1>7 DEF TypeOK

\* The variables of the stream and of the group keep their types.
LEMMA TypeStep == TypeOK /\ [Next]_vars => TypeOK'
<1>. SUFFICES ASSUME TypeOK, [Next]_vars PROVE TypeOK'
    OBVIOUS
<1>. USE ConstantsAssumption
<1>1. ASSUME NEW kind \in EntryKinds, Emit(kind) PROVE TypeOK'
    BY <1>1 DEF TypeOK, Emit, TrimPoints, worker, history, Pending, Entries
<1>2. ASSUME NEW e \in Entries, Age(e) PROVE TypeOK'
    BY <1>2 DEF TypeOK, Age, stream, worker, history, Pending
<1>3. ASSUME NEW c \in Consumers, Start(c) PROVE TypeOK'
    BY <1>3 DEF TypeOK, Start, EnsureConsumerGroup, stream, history, Pending, Locations
<1>4. ASSUME NEW c \in Consumers, RecoverOwnPending(c) PROVE TypeOK'
  <2>. DEFINE own == {e \in Entries : owner[e] = c}
              messages == FirstN(own, BATCH_SIZE)
  <2>1. messages \subseteq Entries
      BY FirstNSubset
  <2>. DEFINE w == [ids |-> messages,
                    events |-> {e \in messages : e > trimmed} \ poison]
  <2>2. w \in Work
      BY <2>1 DEF Work
  <2>3. /\ UNCHANGED <<stream, groupExists, lastDelivered, owner, counted, batch, history>>
        /\ idle' \subseteq idle
      BY <1>4 DEF RecoverOwnPending
  <2>4. CASE own = {}
    <3>1. /\ pc' = [pc EXCEPT ![c] = "adopt"]
          /\ cursor' = [cursor EXCEPT ![c] = 0]
          /\ UNCHANGED <<args, caller>>
        BY <1>4, <2>4 DEF RecoverOwnPending
    <3>. QED
        BY <2>3, <3>1 DEF TypeOK, stream, history, Pending, Locations
  <2>5. CASE own # {}
    <3>1. /\ CallFlush(c, "recover", w)
          /\ UNCHANGED cursor
        BY <1>4, <2>5 DEF RecoverOwnPending
    <3>. HIDE DEF w
    <3>. QED
        BY <2>2, <2>3, <3>1 DEF TypeOK, CallFlush, stream, history, Pending,
           Locations, Callers
  <2>. QED
      BY <2>4, <2>5
<1>5. ASSUME NEW c \in Consumers, AdoptOrphanedPending(c) PROVE TypeOK'
  <2>. DEFINE visited == Visited(cursor[c])
  <2>1. visited \subseteq Pending
      BY VisitedPending
  <2>. DEFINE deleted == {e \in visited : e <= trimmed}
              claimed == (visited \cap Claimable) \ deleted
              w == [ids |-> claimed, events |-> claimed \ poison]
  <2>2. claimed \subseteq Entries
      BY <2>1 DEF Pending
  <2>3. w \in Work
      BY <2>2 DEF Work
  <2>4. /\ UNCHANGED <<stream, groupExists, lastDelivered, counted, batch, history>>
        /\ owner' = [e \in Entries |-> IF e \in claimed THEN c
                                       ELSE IF e \in deleted THEN None
                                       ELSE owner[e]]
        /\ idle' = idle \ (claimed \cup deleted)
        /\ \E next \in 0..MaxEntries : cursor' = [cursor EXCEPT ![c] = next]
      BY <1>5 DEF AdoptOrphanedPending
  <2>5. \/ pc' = [pc EXCEPT ![c] = "read"] /\ UNCHANGED <<args, caller>>
        \/ CallFlush(c, "adopt", w)
      BY <1>5 DEF AdoptOrphanedPending
  <2>. HIDE DEF w, claimed, deleted
  <2>6. owner' \in [Entries -> Consumers \cup {None}] /\ idle' \subseteq Pending'
      BY <2>4 DEF TypeOK, Pending
  <2>7. /\ pc' \in [Consumers -> Locations] /\ args' \in [Consumers -> Work]
        /\ caller' \in [Consumers -> Callers]
      BY <2>3, <2>5 DEF TypeOK, CallFlush, Locations, Callers
  <2>8. cursor' \in [Consumers -> 0..MaxEntries]
      BY <2>4 DEF TypeOK
  <2>. QED
      BY <2>4, <2>6, <2>7, <2>8 DEF TypeOK, stream, history
<1>6. ASSUME NEW c \in Consumers, ReadNew(c)
      PROVE  /\ lastDelivered' \in 0..added
             /\ owner' \in [Entries -> Consumers \cup {None}]
             /\ idle' \subseteq Pending'
             /\ batch' \in [Consumers -> Work]
             /\ Extended(c) \in Work
  <2>1. /\ LastRead(c) \in 0..added
        /\ NewMessages(c) \subseteq Entries
      BY NewMessagesFacts DEF TypeOK
  <2>2. Extended(c) \in Work
      BY <2>1 DEF Extended, Work, TypeOK
  <2>. QED
      BY <1>6, <2>1, <2>2 DEF TypeOK, ReadNew, Pending
<1>7. ASSUME NEW c \in Consumers, ReadThenFlush(c) PROVE TypeOK'
    BY <1>6, <1>7 DEF TypeOK, ReadThenFlush, ReadNew, CallFlush, stream, history,
       Locations, Callers
<1>8. ASSUME NEW c \in Consumers, NEW sweepDue \in BOOLEAN, ReadWithoutFlush(c, sweepDue)
      PROVE TypeOK'
  <2>1. /\ ReadNew(c)
        /\ pc' \in [Consumers -> Locations] /\ cursor' \in [Consumers -> 0..MaxEntries]
        /\ UNCHANGED <<args, caller>>
      BY <1>8 DEF ReadWithoutFlush, TypeOK, Locations
  <2>2. UNCHANGED <<stream, groupExists, counted, history>>
      BY <2>1 DEF ReadNew
  <2>. QED
      BY <1>6, <2>1, <2>2 DEF TypeOK, stream, history
<1>9. ASSUME NEW c \in Consumers, FlushWrite(c) PROVE TypeOK'
    BY <1>9 DEF TypeOK, FlushWrite, redis, stream, history, Pending, Locations
<1>10. ASSUME NEW c \in Consumers, FlushRaises(c) PROVE TypeOK'
    BY <1>10, NoWorkType DEF TypeOK, FlushRaises, redis, stream, history, Pending, Locations
<1>11. ASSUME NEW c \in Consumers, FlushAckRecovery(c) PROVE TypeOK'
    BY <1>11, NoWorkType DEF TypeOK, FlushAckRecovery, Xack, stream, history, Pending,
       Locations, Callers
<1>12. ASSUME NEW c \in Consumers, NEW sweepDue \in BOOLEAN, FlushAckRun(c, sweepDue)
       PROVE TypeOK'
    BY <1>12, NoWorkType DEF TypeOK, FlushAckRun, Xack, stream, history, Pending, Locations
<1>13. ASSUME NEW c \in Consumers, Crash(c) PROVE TypeOK'
    BY <1>13, NoWorkType DEF TypeOK, Crash, redis, stream, Pending, Locations
<1>14. CASE UNCHANGED vars
    BY <1>14 DEF TypeOK, vars, redis, stream, worker, history, Pending
<1>. QED
    BY <1>1, <1>2, <1>3, <1>4, <1>5, <1>7, <1>8, <1>9, <1>10, <1>11, <1>12, <1>13,
       <1>14 DEF Next, Run

\* Every variable keeps its type: the last-delivered id never passes the end of
\* the stream, only pending entries are idle, a worker holds entries only.
THEOREM TypeCorrect == Spec => []TypeOK
<1>. QED
    BY TypeInit, TypeStep, PTL DEF Spec

-----------------------------------------------------------------------------
(* No loss.                                                                 *)

\* Entry e needs no further delivery: it is gone from the stream, dropped as
\* poison, or committed.
Settled(e) == e <= trimmed \/ e \in poison \/ counted[e] >= 1

\* XADD trims nothing of the newest STREAM_MAXLEN entries.
TrimInv == trimmed = 0 \/ trimmed <= added - STREAM_MAXLEN

\* A delivered entry is pending until it is settled.
DeliveredInv ==
    \A e \in Entries : e <= lastDelivered => owner[e] # None \/ Settled(e)

\* What a worker will acknowledge is what it will write, and the rest is
\* settled already; at the XACK all of it is settled.
FlushInv ==
    \A c \in Consumers :
        /\ \A e \in batch[c].ids : e \in batch[c].events \/ Settled(e)
        /\ pc[c] = "write" => \A e \in args[c].ids : e \in args[c].events \/ Settled(e)
        /\ pc[c] = "ack" => \A e \in args[c].ids : Settled(e)

LossInv == TypeOK /\ TrimInv /\ DeliveredInv /\ FlushInv

LEMMA LossInit == Init => LossInv
<1>. SUFFICES ASSUME Init PROVE LossInv
    OBVIOUS
<1>1. TypeOK
    BY TypeInit
<1>2. TrimInv /\ DeliveredInv
    BY DEF Init, TrimInv, DeliveredInv, Entries
<1>3. FlushInv
    BY NoWorkType DEF Init, FlushInv
<1>. QED
    BY <1>1, <1>2, <1>3 DEF LossInv

\* A settled entry stays settled.
LEMMA SettledStable ==
    ASSUME TypeOK, [Next]_vars, NEW e \in Entries, Settled(e)
    PROVE  Settled(e)'
<1>1. ASSUME NEW kind \in EntryKinds, Emit(kind) PROVE Settled(e)'
    BY <1>1, ConstantsAssumption DEF TypeOK, Emit, TrimPoints, Settled, Entries
<1>2. ASSUME NEW c \in Consumers, FlushWrite(c) PROVE Settled(e)'
    BY <1>2 DEF TypeOK, FlushWrite, redis, stream, Settled
<1>3. ASSUME UNCHANGED <<stream, counted>> PROVE Settled(e)'
    BY <1>3 DEF stream, Settled
<1>4. ASSUME NEW c \in Consumers, Run(c) \/ Start(c) \/ Crash(c), ~FlushWrite(c)
      PROVE  UNCHANGED <<stream, counted>>
    BY <1>4 DEF Run, Start, RecoverOwnPending, AdoptOrphanedPending, ReadThenFlush,
       ReadWithoutFlush, ReadNew, FlushRaises, FlushAckRecovery, FlushAckRun, Xack, Crash,
       redis, stream
<1>. QED
    BY <1>1, <1>2, <1>3, <1>4 DEF Next, Age, vars, redis

LEMMA LossStep == LossInv /\ [Next]_vars => LossInv'
<1>. SUFFICES ASSUME LossInv, [Next]_vars PROVE LossInv'
    OBVIOUS
<1>. USE ConstantsAssumption
<1>1. TypeOK /\ TypeOK'
    BY TypeStep DEF LossInv
<1>2. \A e \in Entries : Settled(e) => Settled(e)'
    BY <1>1, SettledStable
<1>3. ASSUME NEW kind \in EntryKinds, Emit(kind) PROVE LossInv'
  <2>1. TrimInv'
    <3>1. /\ added \in Nat /\ trimmed \in Nat /\ STREAM_MAXLEN \in Nat
          /\ added' = added + 1
        BY <1>1, <1>3 DEF TypeOK, Emit
    <3>2. trimmed' = trimmed \/ trimmed' <= added' - STREAM_MAXLEN
        BY <1>3, <3>1 DEF Emit, TrimPoints
    <3>. QED
        BY <3>1, <3>2 DEF LossInv, TrimInv
  <2>2. DeliveredInv'
      BY <1>2, <1>3 DEF LossInv, DeliveredInv, Emit
  <2>3. FlushInv'
      BY <1>1, <1>2, <1>3 DEF LossInv, TypeOK, Work, FlushInv, Emit, worker
  <2>. QED
      BY <1>1, <2>1, <2>2, <2>3 DEF LossInv
<1>4. ASSUME NEW e \in Entries, Age(e) PROVE LossInv'
    BY <1>1, <1>4 DEF LossInv, TrimInv, DeliveredInv, FlushInv, Settled, Age, stream, worker
<1>5. ASSUME NEW c \in Consumers, Start(c) PROVE LossInv'
  <2>1. lastDelivered' <= lastDelivered
      BY <1>1, <1>5 DEF Start, EnsureConsumerGroup, TypeOK
  <2>2. DeliveredInv'
      BY <1>1, <1>5, <2>1 DEF LossInv, DeliveredInv, Settled, Start, stream, TypeOK, Entries
  <2>3. TrimInv' /\ FlushInv'
      BY <1>1, <1>5 DEF LossInv, TypeOK, TrimInv, FlushInv, Settled, Start, stream
  <2>. QED
      BY <1>1, <2>2, <2>3 DEF LossInv
<1>6. ASSUME NEW c \in Consumers, RecoverOwnPending(c) PROVE LossInv'
  <2>. DEFINE own == {e \in Entries : owner[e] = c}
              messages == FirstN(own, BATCH_SIZE)
              w == [ids |-> messages,
                    events |-> {e \in messages : e > trimmed} \ poison]
  <2>1. UNCHANGED <<stream, lastDelivered, owner, counted, batch>>
      BY <1>6 DEF RecoverOwnPending
  <2>2. TrimInv' /\ DeliveredInv'
      BY <2>1 DEF LossInv, TrimInv, DeliveredInv, Settled, stream
  <2>3. w.ids \subseteq Entries /\ \A e \in w.ids : e \in w.events \/ Settled(e)
    <3>1. messages \subseteq Entries
        BY FirstNSubset
    <3>2. \A e \in Entries : ~(e > trimmed) => e <= trimmed
        BY <1>1 DEF TypeOK, Entries
    <3>. QED
        BY <3>1, <3>2 DEF Settled
  <2>4. \/ pc' = [pc EXCEPT ![c] = "adopt"] /\ UNCHANGED args
        \/ CallFlush(c, "recover", w)
      BY <1>6 DEF RecoverOwnPending
  <2>. HIDE DEF w
  <2>5. FlushInv'
      BY <1>1, <2>1, <2>3, <2>4 DEF LossInv, TypeOK, FlushInv, Settled, CallFlush, stream
  <2>. QED
      BY <1>1, <2>2, <2>5 DEF LossInv
<1>7. ASSUME NEW c \in Consumers, AdoptOrphanedPending(c) PROVE LossInv'
  <2>. DEFINE visited == Visited(cursor[c])
              deleted == {e \in visited : e <= trimmed}
              claimed == (visited \cap Claimable) \ deleted
              w == [ids |-> claimed, events |-> claimed \ poison]
  <2>1. /\ UNCHANGED <<stream, lastDelivered, counted, batch>>
        /\ owner' = [e \in Entries |-> IF e \in claimed THEN c
                                       ELSE IF e \in deleted THEN None
                                       ELSE owner[e]]
      BY <1>7 DEF AdoptOrphanedPending
  <2>2. \/ pc' = [pc EXCEPT ![c] = "read"] /\ UNCHANGED args
        \/ CallFlush(c, "adopt", w)
      BY <1>7 DEF AdoptOrphanedPending
  <2>3. \A e \in w.ids : e \in w.events \/ Settled(e)
      BY DEF Settled
  <2>4. DeliveredInv'
      BY <1>1, <2>1 DEF LossInv, TypeOK, DeliveredInv, Settled, stream
  <2>5. TrimInv'
      BY <2>1 DEF LossInv, TrimInv, stream
  <2>. HIDE DEF w
  <2>6. FlushInv'
      BY <1>1, <2>1, <2>2, <2>3 DEF LossInv, TypeOK, FlushInv, Settled, CallFlush, stream
  <2>. QED
      BY <1>1, <2>4, <2>5, <2>6 DEF LossInv
<1>8. ASSUME NEW c \in Consumers, ReadNew(c)
      PROVE  /\ TrimInv' /\ DeliveredInv'
             /\ \A d \in Consumers : \A e \in batch'[d].ids :
                    e \in batch'[d].events \/ Settled(e)
             /\ \A e \in Extended(c).ids : e \in Extended(c).events \/ Settled(e)
             /\ \A e \in Entries : Settled(e)' = Settled(e)
  <2>1. UNCHANGED <<stream, counted>> /\ batch' = [batch EXCEPT ![c] = Extended(c)]
      BY <1>8 DEF ReadNew
  <2>2. \A e \in Entries : Settled(e)' = Settled(e)
      BY <2>1 DEF Settled, stream
  <2>3. \A e \in Extended(c).ids : e \in Extended(c).events \/ Settled(e)
      BY DEF LossInv, FlushInv, Extended, Settled
  <2>4. \A d \in Consumers : \A e \in batch'[d].ids : e \in batch'[d].events \/ Settled(e)
      BY <1>1, <2>1, <2>3 DEF LossInv, TypeOK, FlushInv
  <2>5. TrimInv'
      BY <2>1 DEF LossInv, TrimInv, stream
  <2>6. DeliveredInv'
    <3>. SUFFICES ASSUME NEW e \in Entries, e <= lastDelivered'
                  PROVE  owner'[e] # None \/ Settled(e)
        BY <2>2 DEF DeliveredInv
    <3>1. /\ LastSeen \in lastDelivered..added /\ trimmed <= LastSeen
          /\ LastSeen \in {lastDelivered, trimmed}
          /\ LastRead(c) \in LastSeen..added
        BY <1>1, NewMessagesFacts
    <3>2. CASE e \in NewMessages(c)
        BY <1>8, <3>2 DEF ReadNew
    <3>3. CASE e \notin NewMessages(c)
      <4>1. e <= LastSeen
        <5>1. e \in Nat /\ lastDelivered \in Nat /\ LastSeen \in Nat /\ LastRead(c) \in Nat
              /\ lastDelivered <= LastSeen
            BY <1>1, <3>1 DEF TypeOK, Entries
        <5>2. ~(LastSeen + 1 <= e /\ e <= LastRead(c))
            BY <3>3, <5>1 DEF NewMessages
        <5>3. lastDelivered' = lastDelivered \/ lastDelivered' = LastRead(c)
            BY <1>8 DEF ReadNew
        <5>. QED
            BY <5>1, <5>2, <5>3
      <4>2. e <= lastDelivered \/ e <= trimmed
          BY <3>1, <4>1
      <4>3. owner'[e] = owner[e]
          BY <1>8, <3>3 DEF ReadNew
      <4>. QED
          BY <4>2, <4>3 DEF LossInv, DeliveredInv, Settled
    <3>. QED
        BY <3>2, <3>3
  <2>. QED
      BY <2>2, <2>3, <2>4, <2>5, <2>6
<1>9. ASSUME NEW c \in Consumers, ReadThenFlush(c) PROVE LossInv'
  <2>. DEFINE w == Extended(c)
  <2>1. ReadNew(c) /\ CallFlush(c, "run", w)
      BY <1>9 DEF ReadThenFlush
  <2>2. FlushInv'
      BY <1>1, <1>8, <2>1 DEF LossInv, TypeOK, Work, FlushInv, CallFlush
  <2>. QED
      BY <1>1, <1>8, <2>1, <2>2 DEF LossInv
<1>10. ASSUME NEW c \in Consumers, NEW sweepDue \in BOOLEAN, ReadWithoutFlush(c, sweepDue)
       PROVE LossInv'
  <2>1. /\ ReadNew(c) /\ UNCHANGED args
        /\ pc' = [pc EXCEPT ![c] = IF sweepDue THEN "adopt" ELSE "read"]
      BY <1>10 DEF ReadWithoutFlush
  <2>2. FlushInv'
      BY <1>1, <1>8, <2>1 DEF LossInv, TypeOK, Work, FlushInv
  <2>. QED
      BY <1>1, <1>8, <2>1, <2>2 DEF LossInv
<1>11. ASSUME NEW c \in Consumers, FlushWrite(c) PROVE LossInv'
  <2>1. /\ UNCHANGED <<redis, batch, args>>
        /\ pc[c] = "write" /\ pc' = [pc EXCEPT ![c] = "ack"]
        /\ counted' = [e \in Entries |->
                         IF e \in args[c].events THEN counted[e] + 1 ELSE counted[e]]
      BY <1>11 DEF FlushWrite
  <2>2. \A e \in args[c].ids : Settled(e)'
    <3>1. \A e \in args[c].ids : e \in Entries /\ (e \in args[c].events \/ Settled(e))
        BY <1>1, <2>1 DEF LossInv, FlushInv, TypeOK, Work
    <3>2. \A e \in Entries : e \in args[c].events => counted'[e] >= 1
        BY <1>1, <2>1 DEF TypeOK
    <3>. QED
        BY <1>2, <3>1, <3>2 DEF Settled
  <2>3. FlushInv'
      BY <1>1, <1>2, <2>1, <2>2 DEF LossInv, TypeOK, Work, FlushInv
  <2>4. TrimInv' /\ DeliveredInv'
      BY <1>2, <2>1 DEF LossInv, TrimInv, DeliveredInv, redis, stream
  <2>. QED
      BY <1>1, <2>3, <2>4 DEF LossInv
<1>12. ASSUME NEW c \in Consumers, FlushRaises(c) \/ Crash(c) PROVE LossInv'
  <2>1. /\ UNCHANGED <<redis, counted>>
        /\ pc' = [pc EXCEPT ![c] = "down"]
        /\ batch' = [batch EXCEPT ![c] = NoWork]
        /\ args' = [args EXCEPT ![c] = NoWork]
      BY <1>12 DEF FlushRaises, Crash
  <2>2. FlushInv'
      BY <1>1, <2>1, NoWorkType DEF LossInv, TypeOK, FlushInv, Settled, redis, stream
  <2>3. TrimInv' /\ DeliveredInv'
      BY <2>1 DEF LossInv, TrimInv, DeliveredInv, Settled, redis, stream
  <2>. QED
      BY <1>1, <2>2, <2>3 DEF LossInv
<1>13. ASSUME NEW c \in Consumers,
              FlushAckRecovery(c) \/ \E sweepDue \in BOOLEAN : FlushAckRun(c, sweepDue)
       PROVE  LossInv'
  <2>1. /\ pc[c] = "ack"
        /\ Xack(args[c].ids)
        /\ UNCHANGED counted
        /\ pc' \in {[pc EXCEPT ![c] = l] : l \in {"recover", "adopt", "read"}}
        /\ args' = [args EXCEPT ![c] = NoWork]
        /\ batch' \in {batch, [batch EXCEPT ![c] = NoWork]}
      BY <1>1, <1>13 DEF FlushAckRecovery, FlushAckRun, TypeOK, Callers
  <2>2. UNCHANGED <<stream, lastDelivered>>
      BY <2>1 DEF Xack
  <2>3. \A e \in args[c].ids : Settled(e)
      BY <2>1 DEF LossInv, FlushInv
  <2>4. FlushInv'
      BY <1>1, <2>1, <2>2, NoWorkType DEF LossInv, TypeOK, FlushInv, Settled, stream
  <2>5. DeliveredInv'
      BY <2>1, <2>2, <2>3 DEF LossInv, DeliveredInv, Settled, Xack, stream
  <2>6. TrimInv'
      BY <2>2 DEF LossInv, TrimInv, stream
  <2>. QED
      BY <1>1, <2>4, <2>5, <2>6 DEF LossInv
<1>14. CASE UNCHANGED vars
    BY <1>1, <1>14 DEF LossInv, TrimInv, DeliveredInv, FlushInv, Settled, vars, redis, stream,
       worker
<1>. QED
    BY <1>3, <1>4, <1>5, <1>6, <1>7, <1>9, <1>10, <1>11, <1>12, <1>13, <1>14 DEF Next, Run

\* Write-then-ACK loses nothing that XADD did not trim: an event that has left
\* the PEL was committed, under any interleaving of workers, crashes, restarts
\* and adoptions, slow workers included.
THEOREM NoLossCorrect == Spec => []NoLoss
<1>1. LossInv => NoLoss
  <2>. SUFFICES ASSUME LossInv, NEW e \in 1..lastDelivered, e \notin poison,
                       e > added - STREAM_MAXLEN, owner[e] = None
                PROVE  counted[e] >= 1
      BY DEF NoLoss
  <2>1. e \in Entries /\ ~(e <= trimmed)
      BY ConstantsAssumption DEF LossInv, TypeOK, TrimInv, Entries
  <2>. QED
      BY <2>1 DEF LossInv, DeliveredInv, Settled
<1>. QED
    BY <1>1, LossInit, LossStep, PTL DEF Spec

-----------------------------------------------------------------------------
(* Nothing stranded.                                                        *)

\* A worker has flush_batch arguments only inside flush_batch; run() flushes
\* its whole batch; it has no batch before the main loop.
ShapeInv ==
    \A c \in Consumers :
        /\ pc[c] \notin {"write", "ack"} => args[c] = NoWork
        /\ pc[c] \in {"write", "ack"} /\ caller[c] = "run" => args[c] = batch[c]
        /\ Recovering(c) => batch[c] = NoWork
        /\ batch[c].events \subseteq batch[c].ids
        /\ args[c].events \subseteq args[c].ids

StrandInv == TypeOK /\ ShapeInv /\ NothingStranded

LEMMA StrandInit == Init => StrandInv
<1>. SUFFICES ASSUME Init PROVE StrandInv
    OBVIOUS
<1>1. ShapeInv
    BY NoWorkType DEF Init, ShapeInv
<1>2. NothingStranded
    BY DEF Init, NothingStranded, Recovering
<1>. QED
    BY <1>1, <1>2, TypeInit DEF StrandInv

LEMMA StrandStep == StrandInv /\ [Next]_vars => StrandInv'
<1>. SUFFICES ASSUME StrandInv, [Next]_vars PROVE StrandInv'
    OBVIOUS
<1>. USE ConstantsAssumption
<1>1. TypeOK /\ TypeOK'
    BY TypeStep DEF StrandInv
<1>2. ASSUME UNCHANGED <<owner, worker>> PROVE StrandInv'
    BY <1>1, <1>2 DEF StrandInv, ShapeInv, NothingStranded, Recovering, Held, worker
<1>3. ASSUME NEW c \in Consumers, Start(c) PROVE StrandInv'
    BY <1>1, <1>3 DEF StrandInv, ShapeInv, NothingStranded, Recovering, Held, Start, TypeOK
<1>4. ASSUME NEW c \in Consumers, RecoverOwnPending(c) PROVE StrandInv'
  <2>. DEFINE own == {e \in Entries : owner[e] = c}
              messages == FirstN(own, BATCH_SIZE)
              w == [ids |-> messages,
                    events |-> {e \in messages : e > trimmed} \ poison]
  <2>1. UNCHANGED <<owner, batch>> /\ pc[c] = "recover"
      BY <1>4 DEF RecoverOwnPending
  <2>2. w.events \subseteq w.ids
      OBVIOUS
  <2>3. CASE own = {}
    <3>1. pc' = [pc EXCEPT ![c] = "adopt"] /\ UNCHANGED <<args, caller>>
        BY <1>4, <2>3 DEF RecoverOwnPending
    <3>2. ShapeInv'
        BY <1>1, <2>1, <3>1 DEF StrandInv, ShapeInv, Recovering, TypeOK
    <3>3. NothingStranded'
        BY <1>1, <2>1, <2>3, <3>1 DEF StrandInv, NothingStranded, Recovering, Held, TypeOK
    <3>. QED
        BY <1>1, <3>2, <3>3 DEF StrandInv
  <2>4. CASE own # {}
    <3>1. CallFlush(c, "recover", w)
        BY <1>4, <2>4 DEF RecoverOwnPending
    <3>. HIDE DEF w
    <3>2. ShapeInv'
        BY <1>1, <2>1, <2>2, <3>1 DEF StrandInv, ShapeInv, Recovering, TypeOK, CallFlush
    <3>3. NothingStranded'
        BY <1>1, <2>1, <3>1 DEF StrandInv, NothingStranded, Recovering, Held, TypeOK, CallFlush
    <3>. QED
        BY <1>1, <3>2, <3>3 DEF StrandInv
  <2>. QED
      BY <2>3, <2>4
<1>5. ASSUME NEW c \in Consumers, AdoptOrphanedPending(c) PROVE StrandInv'
  <2>. DEFINE visited == Visited(cursor[c])
              deleted == {e \in visited : e <= trimmed}
              claimed == (visited \cap Claimable) \ deleted
              w == [ids |-> claimed, events |-> claimed \ poison]
  <2>1. /\ pc[c] = "adopt" /\ UNCHANGED batch
        /\ owner' = [e \in Entries |-> IF e \in claimed THEN c
                                       ELSE IF e \in deleted THEN None
                                       ELSE owner[e]]
      BY <1>5 DEF AdoptOrphanedPending
  <2>2. \/ claimed = {} /\ pc' = [pc EXCEPT ![c] = "read"] /\ UNCHANGED <<args, caller>>
        \/ CallFlush(c, "adopt", w)
      BY <1>5 DEF AdoptOrphanedPending
  <2>3. w.ids = claimed /\ w.events \subseteq w.ids
      OBVIOUS
  <2>. HIDE DEF w, claimed, deleted
  <2>4. ShapeInv'
      BY <1>1, <2>1, <2>2, <2>3 DEF StrandInv, ShapeInv, Recovering, TypeOK, CallFlush
  <2>5. NothingStranded'
    <3>. SUFFICES ASSUME NEW d \in Consumers, ~Recovering(d)', NEW e \in Entries, owner'[e] = d
                  PROVE  e \in Held(d)'
        BY DEF NothingStranded
    <3>1. CASE e \in claimed
        BY <1>1, <2>1, <2>2, <2>3, <3>1 DEF Held, TypeOK, CallFlush
    <3>2. CASE e \notin claimed
      <4>1. owner[e] = d
          BY <2>1, <3>2
      <4>2. ~Recovering(d)
          BY <1>1, <2>1, <2>2 DEF Recovering, TypeOK, CallFlush
      <4>3. e \in Held(d)
          BY <4>1, <4>2 DEF StrandInv, NothingStranded
      <4>4. d = c => args[d] = NoWork
          BY <2>1 DEF StrandInv, ShapeInv
      <4>. QED
          BY <1>1, <2>1, <2>2, <4>3, <4>4, NoWorkType DEF Held, TypeOK, CallFlush
    <3>. QED
        BY <3>1, <3>2
  <2>. QED
      BY <1>1, <2>4, <2>5 DEF StrandInv
<1>6. ASSUME NEW c \in Consumers, ReadNew(c)
      PROVE  /\ pc[c] = "read" /\ args[c] = NoWork /\ ~Recovering(c)
             /\ batch' = [batch EXCEPT ![c] = Extended(c)]
             /\ Extended(c).events \subseteq Extended(c).ids
             /\ \A e \in Entries : \/ owner'[e] = owner[e] /\ owner[e] # c
                                   \/ owner'[e] = c /\ e \in Extended(c).ids
  <2>1. pc[c] = "read" /\ args[c] = NoWork /\ ~Recovering(c)
      BY <1>6 DEF ReadNew, StrandInv, ShapeInv, Recovering
  <2>2. /\ batch' = [batch EXCEPT ![c] = Extended(c)]
        /\ owner' = [e \in Entries |-> IF e \in NewMessages(c) THEN c ELSE owner[e]]
      BY <1>6 DEF ReadNew
  <2>3. Extended(c).events \subseteq Extended(c).ids
      BY DEF Extended, StrandInv, ShapeInv
  <2>4. \A e \in Entries : owner[e] = c => e \in batch[c].ids
      BY <2>1, NoWorkType DEF StrandInv, NothingStranded, Held
  <2>. QED
      BY <2>1, <2>2, <2>3, <2>4 DEF Extended
<1>7. ASSUME NEW c \in Consumers, ReadThenFlush(c) PROVE StrandInv'
  <2>. DEFINE w == Extended(c)
  <2>1. ReadNew(c) /\ CallFlush(c, "run", w)
      BY <1>7 DEF ReadThenFlush
  <2>2. /\ pc[c] = "read" /\ batch' = [batch EXCEPT ![c] = w]
        /\ w.events \subseteq w.ids
        /\ \A e \in Entries : \/ owner'[e] = owner[e] /\ owner[e] # c
                              \/ owner'[e] = c /\ e \in w.ids
      BY <1>6, <2>1
  <2>. HIDE DEF w
  <2>3. ShapeInv'
      BY <1>1, <2>1, <2>2 DEF StrandInv, ShapeInv, Recovering, TypeOK, CallFlush
  <2>4. NothingStranded'
      BY <1>1, <2>1, <2>2 DEF StrandInv, NothingStranded, Recovering, Held, TypeOK, CallFlush
  <2>. QED
      BY <1>1, <2>3, <2>4 DEF StrandInv
<1>8. ASSUME NEW c \in Consumers, NEW sweepDue \in BOOLEAN, ReadWithoutFlush(c, sweepDue)
      PROVE StrandInv'
  <2>. DEFINE w == Extended(c)
  <2>1. /\ ReadNew(c) /\ UNCHANGED <<args, caller>>
        /\ pc' = [pc EXCEPT ![c] = IF sweepDue THEN "adopt" ELSE "read"]
      BY <1>8 DEF ReadWithoutFlush
  <2>2. /\ pc[c] = "read" /\ batch' = [batch EXCEPT ![c] = w]
        /\ w.events \subseteq w.ids
        /\ \A e \in Entries : \/ owner'[e] = owner[e] /\ owner[e] # c
                              \/ owner'[e] = c /\ e \in w.ids
      BY <1>6, <2>1
  <2>. HIDE DEF w
  <2>3. ShapeInv'
      BY <1>1, <2>1, <2>2 DEF StrandInv, ShapeInv, Recovering, TypeOK
  <2>4. NothingStranded'
      BY <1>1, <2>1, <2>2 DEF StrandInv, NothingStranded, Recovering, Held, TypeOK
  <2>. QED
      BY <1>1, <2>3, <2>4 DEF StrandInv
<1>9. ASSUME NEW c \in Consumers, FlushWrite(c) PROVE StrandInv'
    BY <1>1, <1>9 DEF StrandInv, ShapeInv, NothingStranded, Recovering, Held, FlushWrite,
       redis, TypeOK
<1>10. ASSUME NEW c \in Consumers, FlushRaises(c) \/ Crash(c) PROVE StrandInv'
  <2>1. /\ UNCHANGED <<owner, caller>>
        /\ pc' = [pc EXCEPT ![c] = "down"]
        /\ batch' = [batch EXCEPT ![c] = NoWork]
        /\ args' = [args EXCEPT ![c] = NoWork]
      BY <1>10 DEF FlushRaises, Crash, redis
  <2>2. ShapeInv'
      BY <1>1, <2>1, NoWorkType DEF StrandInv, ShapeInv, Recovering, TypeOK
  <2>3. NothingStranded'
      BY <1>1, <2>1 DEF StrandInv, NothingStranded, Recovering, Held, TypeOK
  <2>. QED
      BY <1>1, <2>2, <2>3 DEF StrandInv
<1>11. ASSUME NEW c \in Consumers, FlushAckRecovery(c) PROVE StrandInv'
  <2>1. /\ pc[c] = "ack" /\ caller[c] \in {"recover", "adopt"}
        /\ owner' = [e \in Entries |-> IF e \in args[c].ids THEN None ELSE owner[e]]
        /\ args' = [args EXCEPT ![c] = NoWork]
        /\ UNCHANGED <<batch, caller>>
      BY <1>1, <1>11 DEF FlushAckRecovery, Xack, TypeOK, Callers
  <2>2. \E l \in {"recover", "adopt", "read"} :
           /\ pc' = [pc EXCEPT ![c] = l]
           /\ l = "recover" <=> caller[c] = "recover"
      BY <1>11, <2>1 DEF FlushAckRecovery
  <2>3. ShapeInv'
      BY <1>1, <2>1, <2>2, NoWorkType DEF StrandInv, ShapeInv, Recovering, TypeOK
  <2>4. NothingStranded'
      BY <1>1, <2>1, <2>2 DEF StrandInv, NothingStranded, Recovering, Held, TypeOK
  <2>. QED
      BY <1>1, <2>3, <2>4 DEF StrandInv
<1>12. ASSUME NEW c \in Consumers, NEW sweepDue \in BOOLEAN, FlushAckRun(c, sweepDue)
       PROVE StrandInv'
  <2>1. /\ pc[c] = "ack" /\ caller[c] = "run" /\ UNCHANGED caller
        /\ owner' = [e \in Entries |-> IF e \in args[c].ids THEN None ELSE owner[e]]
        /\ pc' = [pc EXCEPT ![c] = IF sweepDue THEN "adopt" ELSE "read"]
        /\ batch' = [batch EXCEPT ![c] = NoWork]
        /\ args' = [args EXCEPT ![c] = NoWork]
      BY <1>12 DEF FlushAckRun, Xack
  <2>2. ShapeInv'
      BY <1>1, <2>1, NoWorkType DEF StrandInv, ShapeInv, Recovering, TypeOK
  <2>3. NothingStranded'
      BY <1>1, <2>1 DEF StrandInv, ShapeInv, NothingStranded, Recovering, Held, TypeOK
  <2>. QED
      BY <1>1, <2>2, <2>3 DEF StrandInv
<1>. QED
    BY <1>2, <1>3, <1>4, <1>5, <1>7, <1>8, <1>9, <1>10, <1>11, <1>12
    DEF Next, Run, Emit, Age, vars, redis

\* Self-recovery is complete: a worker that has left recover_own_pending owns
\* no entry that it does not hold, however often it was killed before.
THEOREM NothingStrandedCorrect == Spec => []NothingStranded
<1>1. StrandInv => NothingStranded
    BY DEF StrandInv
<1>. QED
    BY <1>1, StrandInit, StrandStep, PTL DEF Spec

-----------------------------------------------------------------------------
(* Duplicates only from crashes.                                            *)

\* What a worker holds is its own and not idle, or has been trimmed.
HeldInv ==
    \A c \in Consumers : \A e \in Held(c) :
        /\ e <= lastDelivered
        /\ owner[e] = c \/ (owner[e] = None /\ e <= trimmed)
        /\ e \in idle => e <= trimmed

\* An adopted entry is not in the adopter's own batch.
AdoptInv ==
    \A c \in Consumers :
        pc[c] \in {"write", "ack"} /\ caller[c] = "adopt"
            => batch[c].ids \cap args[c].ids = {}

\* Worker c has committed e and not yet acknowledged it.
AckDue(c, e) == pc[c] = "ack" /\ e \in args[c].events

\* Entry e may still be written by a worker.
Writable(e) ==
    \/ e > lastDelivered
    \/ owner[e] # None /\ \A c \in Consumers : ~AckDue(c, e)
    \/ \E c \in Consumers : e \in batch[c].events \cup args[c].events /\ ~AckDue(c, e)

CountInv ==
    \A e \in Entries : /\ counted[e] <= 1 + exposed[e]
                       /\ Writable(e) => counted[e] <= exposed[e]

Exclusive == \A c, d \in Consumers : c # d => Held(c) \cap Held(d) = {}

\* Only delivered entries are pending.
PendingInv == \A e \in Entries : owner[e] # None => e <= lastDelivered

HoldInv == PendingInv /\ HeldInv /\ AdoptInv /\ Exclusive

\* Before the group exists nothing is delivered and nobody is up.
GroupInv ==
    ~groupExists => lastDelivered = 0 /\ \A c \in Consumers : pc[c] = "down"

DupInv == StrandInv /\ GroupInv /\ (~LiveMayStall => HoldInv /\ CountInv)

LEMMA DupInit == Init => DupInv
<1>. SUFFICES ASSUME Init PROVE DupInv
    OBVIOUS
<1>1. PendingInv /\ HeldInv /\ AdoptInv /\ Exclusive
    BY NoWorkType DEF Init, PendingInv, HeldInv, AdoptInv, Exclusive, Held
<1>2. CountInv
    BY DEF Init, CountInv
<1>3. GroupInv
    BY DEF Init, GroupInv
<1>. QED
    BY <1>1, <1>2, <1>3, StrandInit DEF DupInv, HoldInv

LEMMA GroupStep == TypeOK /\ GroupInv /\ [Next]_vars => GroupInv'
<1>. SUFFICES ASSUME TypeOK, GroupInv, [Next]_vars, ~groupExists'
              PROVE  lastDelivered' = 0 /\ \A c \in Consumers : pc'[c] = "down"
    BY DEF GroupInv
<1>1. ASSUME NEW c \in Consumers, Start(c) \/ Run(c) \/ Crash(c) PROVE FALSE
  <2>1. ~Start(c)
      BY DEF Start, EnsureConsumerGroup
  <2>2. UNCHANGED groupExists
      BY <1>1, <2>1 DEF Run, Crash, RecoverOwnPending, AdoptOrphanedPending, ReadThenFlush,
         ReadWithoutFlush, ReadNew, FlushWrite, FlushRaises, FlushAckRecovery, FlushAckRun,
         Xack, redis
  <2>3. pc[c] = "down"
      BY <2>2 DEF GroupInv
  <2>. QED
      BY <1>1, <2>1, <2>3 DEF Run, Crash, RecoverOwnPending, AdoptOrphanedPending,
         ReadThenFlush, ReadWithoutFlush, ReadNew, FlushWrite, FlushRaises,
         FlushAckRecovery, FlushAckRun
<1>2. UNCHANGED <<groupExists, lastDelivered, pc>>
    BY <1>1 DEF Next, Emit, Age, vars, redis, worker
<1>. QED
    BY <1>2 DEF GroupInv

\* Nobody acquires an entry that another worker holds, whatever the step.
LEMMA HoldStep ==
    ASSUME StrandInv, GroupInv, HoldInv, [Next]_vars, ~LiveMayStall
    PROVE  HoldInv'
<1>. USE ConstantsAssumption
<1>1. TypeOK /\ TypeOK' /\ ShapeInv /\ ShapeInv'
    BY StrandStep DEF StrandInv
<1>2. \A c \in Consumers : Held(c) \subseteq Entries
    BY <1>1 DEF Held, TypeOK, Work
<1>3. ASSUME NEW kind \in EntryKinds, Emit(kind) PROVE HoldInv'
  <2>1. trimmed' >= trimmed /\ trimmed' \in Nat /\ trimmed \in Nat
      BY <1>1, <1>3 DEF Emit, TrimPoints, TypeOK
  <2>2. UNCHANGED <<lastDelivered, owner, idle, worker>>
      BY <1>3 DEF Emit
  <2>3. \A c \in Consumers : Held(c)' = Held(c)
      BY <2>2 DEF Held, worker
  <2>4. HeldInv'
      BY <1>2, <2>1, <2>2, <2>3 DEF HoldInv, HeldInv, Entries
  <2>. QED
      BY <2>2, <2>3, <2>4 DEF HoldInv, PendingInv, AdoptInv, Exclusive, worker
<1>4. ASSUME NEW x \in Entries, Age(x) PROVE HoldInv'
  <2>1. /\ UNCHANGED <<stream, lastDelivered, owner, worker>>
        /\ idle' = idle \cup {x}
        /\ \A c \in Live : x \notin Held(c)
      BY <1>4 DEF Age
  <2>2. \A c \in Consumers \ Live : Held(c) = {}
      BY <1>1, NoWorkType DEF Live, ShapeInv, Recovering, Held
  <2>3. \A c \in Consumers : Held(c)' = Held(c) /\ x \notin Held(c)
      BY <2>1, <2>2 DEF Held, worker
  <2>4. HeldInv'
      BY <2>1, <2>3 DEF HoldInv, HeldInv, stream
  <2>. QED
      BY <2>1, <2>3, <2>4 DEF HoldInv, PendingInv, AdoptInv, Exclusive, worker
<1>5. ASSUME NEW c \in Consumers, Start(c) PROVE HoldInv'
  <2>1. /\ pc[c] = "down" /\ pc' = [pc EXCEPT ![c] = "recover"]
        /\ UNCHANGED <<stream, owner, idle, batch, args, caller>>
        /\ lastDelivered' = IF groupExists THEN lastDelivered ELSE 0
      BY <1>5 DEF Start, EnsureConsumerGroup
  <2>2. lastDelivered' = lastDelivered
      BY <2>1 DEF GroupInv
  <2>3. \A d \in Consumers : Held(d)' = Held(d)
      BY <2>1 DEF Held
  <2>4. PendingInv' /\ HeldInv' /\ Exclusive'
      BY <2>1, <2>2, <2>3 DEF HoldInv, PendingInv, HeldInv, Exclusive, stream
  <2>5. AdoptInv'
      BY <1>1, <2>1 DEF HoldInv, AdoptInv, TypeOK
  <2>. QED
      BY <2>4, <2>5 DEF HoldInv
<1>6. ASSUME NEW c \in Consumers, RecoverOwnPending(c) PROVE HoldInv'
  <2>. DEFINE own == {e \in Entries : owner[e] = c}
              messages == FirstN(own, BATCH_SIZE)
              present == {e \in messages : e > trimmed}
              w == [ids |-> messages, events |-> present \ poison]
  <2>1. /\ UNCHANGED <<stream, lastDelivered, owner, batch>>
        /\ pc[c] = "recover"
        /\ idle' = idle \ present
      BY <1>6 DEF RecoverOwnPending
  <2>2. \/ pc' = [pc EXCEPT ![c] = "adopt"] /\ UNCHANGED <<args, caller>>
        \/ CallFlush(c, "recover", w)
      BY <1>6 DEF RecoverOwnPending
  <2>3. messages \subseteq own
      BY FirstNSubset
  <2>4. batch[c] = NoWork /\ args[c] = NoWork
      BY <1>1, <2>1 DEF ShapeInv, Recovering
  <2>5. Held(c)' \subseteq own /\ (Held(c)' = {} \/ Held(c)' = messages)
      BY <1>1, <2>1, <2>2, <2>3, <2>4, NoWorkType DEF Held, TypeOK, CallFlush
  <2>6. \A d \in Consumers \ {c} : Held(d)' = Held(d)
      BY <1>1, <2>1, <2>2 DEF Held, TypeOK, CallFlush
  <2>7. \A e \in own : e \in Entries /\ owner[e] = c
      OBVIOUS
  <2>8. \A e \in own : e <= lastDelivered
      BY DEF HoldInv, PendingInv
  <2>9. \A e \in messages : e \in idle' => e <= trimmed
    <3>1. \A e \in Entries : ~(e > trimmed) => e <= trimmed
        BY <1>1 DEF TypeOK, Entries
    <3>. QED
        BY <2>1, <2>3, <3>1
  <2>. HIDE DEF own, messages, present
  <2>10. HeldInv'
      BY <2>1, <2>3, <2>5, <2>6, <2>7, <2>8, <2>9 DEF HoldInv, HeldInv, stream
  <2>11. \A d \in Consumers \ {c} : Held(d) \cap own = {}
      BY <2>7 DEF HoldInv, HeldInv
  <2>12. Exclusive'
      BY <2>5, <2>6, <2>11 DEF HoldInv, Exclusive
  <2>13. AdoptInv'
      BY <1>1, <2>1, <2>2 DEF HoldInv, AdoptInv, TypeOK, CallFlush
  <2>. QED
      BY <2>1, <2>10, <2>12, <2>13 DEF HoldInv, PendingInv
<1>7. ASSUME NEW c \in Consumers, AdoptOrphanedPending(c) PROVE HoldInv'
  <2>. DEFINE visited == Visited(cursor[c])
              deleted == {e \in visited : e <= trimmed}
              claimed == (visited \cap Claimable) \ deleted
              w == [ids |-> claimed, events |-> claimed \ poison]
  <2>1. /\ UNCHANGED <<stream, lastDelivered, batch>>
        /\ pc[c] = "adopt"
        /\ owner' = [e \in Entries |-> IF e \in claimed THEN c
                                       ELSE IF e \in deleted THEN None
                                       ELSE owner[e]]
        /\ idle' = idle \ (claimed \cup deleted)
      BY <1>7 DEF AdoptOrphanedPending
  <2>2. \/ pc' = [pc EXCEPT ![c] = "read"] /\ UNCHANGED <<args, caller>>
        \/ CallFlush(c, "adopt", w)
      BY <1>7 DEF AdoptOrphanedPending
  <2>3. visited \subseteq Pending
      BY VisitedPending
  <2>4. /\ \A e \in claimed : e \in Entries /\ owner[e] # None /\ e \in idle /\ ~(e <= trimmed)
        /\ \A e \in deleted : e <= trimmed
        /\ w.ids = claimed
      BY <2>3 DEF Pending, Claimable
  <2>. HIDE DEF w, claimed, deleted, visited
  <2>5. args[c] = NoWork
      BY <1>1, <2>1 DEF ShapeInv
  <2>6. Held(c)' = batch[c].ids \/ Held(c)' = batch[c].ids \cup claimed
      BY <1>1, <2>1, <2>2, <2>4, <2>5, NoWorkType DEF Held, TypeOK, CallFlush
  <2>7. batch[c].ids = Held(c)
      BY <2>5, NoWorkType DEF Held
  <2>8. \A d \in Consumers \ {c} : Held(d)' = Held(d)
      BY <1>1, <2>1, <2>2 DEF Held, TypeOK, CallFlush
  <2>9. \A d \in Consumers : Held(d) \cap claimed = {}
      BY <2>4 DEF HoldInv, HeldInv
  <2>10. PendingInv'
      BY <2>1, <2>4 DEF HoldInv, PendingInv
  <2>11. HeldInv'
    <3>. SUFFICES ASSUME NEW d \in Consumers, NEW e \in Held(d)'
                  PROVE  /\ e <= lastDelivered
                         /\ owner'[e] = d \/ (owner'[e] = None /\ e <= trimmed)
                         /\ e \in idle' => e <= trimmed
        BY <2>1 DEF HeldInv, stream
    <3>1. CASE e \in claimed
      <4>1. d = c
          BY <2>8, <2>9, <3>1
      <4>2. e <= lastDelivered
          BY <2>4, <3>1 DEF HoldInv, PendingInv
      <4>. QED
          BY <2>1, <2>4, <3>1, <4>1, <4>2
    <3>2. CASE e \notin claimed
      <4>1. e \in Held(d) /\ e \in Entries
          BY <1>2, <2>6, <2>7, <2>8, <3>2
      <4>. QED
          BY <2>1, <2>4, <3>2, <4>1 DEF HoldInv, HeldInv
    <3>. QED
        BY <3>1, <3>2
  <2>12. Exclusive'
      BY <2>6, <2>7, <2>8, <2>9 DEF HoldInv, Exclusive
  <2>13. batch[c].ids \cap claimed = {}
      BY <2>7, <2>9
  <2>14. AdoptInv'
      BY <1>1, <2>1, <2>2, <2>4, <2>13 DEF HoldInv, AdoptInv, TypeOK, CallFlush
  <2>. QED
      BY <2>10, <2>11, <2>12, <2>14 DEF HoldInv
<1>8. ASSUME NEW c \in Consumers, ReadNew(c),
             Held(c)' = Extended(c).ids,
             \A d \in Consumers \ {c} : Held(d)' = Held(d)
      PROVE  PendingInv' /\ HeldInv' /\ Exclusive'
  <2>. DEFINE new == NewMessages(c)
  <2>1. /\ UNCHANGED <<stream, idle>>
        /\ pc[c] = "read"
        /\ owner' = [e \in Entries |-> IF e \in new THEN c ELSE owner[e]]
        /\ lastDelivered' = IF new = {} THEN lastDelivered ELSE LastRead(c)
      BY <1>8 DEF ReadNew
  <2>2. /\ LastSeen \in lastDelivered..added /\ trimmed <= LastSeen
        /\ LastRead(c) \in LastSeen..added
        /\ new \subseteq Entries
      BY <1>1, NewMessagesFacts
  <2>3. \A e \in new : /\ ~(e <= lastDelivered)
                       /\ e <= lastDelivered'
      BY <1>1, <2>1, <2>2 DEF NewMessages, TypeOK
  <2>4. lastDelivered \in Nat /\ lastDelivered' \in Nat /\ lastDelivered' >= lastDelivered
      BY <1>1, <2>1, <2>2 DEF TypeOK
  <2>5. \A e \in new : owner[e] = None /\ e \notin idle
      BY <1>1, <2>2, <2>3 DEF HoldInv, PendingInv, TypeOK, Pending
  <2>6. Held(c)' = Held(c) \cup new
    <3>1. Held(c) = batch[c].ids
        BY <1>1, <2>1, NoWorkType DEF ShapeInv, Held
    <3>. QED
        BY <1>8, <3>1 DEF Extended
  <2>7. \A d \in Consumers : Held(d) \cap new = {}
      BY <2>3 DEF HoldInv, HeldInv
  <2>. HIDE DEF new
  <2>8. PendingInv'
      BY <2>1, <2>3, <2>4 DEF HoldInv, PendingInv, Entries
  <2>9. HeldInv'
    <3>. SUFFICES ASSUME NEW d \in Consumers, NEW e \in Held(d)'
                  PROVE  /\ e <= lastDelivered'
                         /\ owner'[e] = d \/ (owner'[e] = None /\ e <= trimmed)
                         /\ e \in idle => e <= trimmed
        BY <2>1 DEF HeldInv, stream
    <3>1. CASE e \in new
        BY <1>8, <2>1, <2>2, <2>3, <2>5, <2>7, <3>1
    <3>2. CASE e \notin new
      <4>1. e \in Held(d) /\ e \in Entries
          BY <1>2, <1>8, <2>6, <3>2
      <4>2. e <= lastDelivered'
          BY <2>4, <4>1 DEF HoldInv, HeldInv, Entries
      <4>. QED
          BY <2>1, <3>2, <4>1, <4>2 DEF HoldInv, HeldInv
    <3>. QED
        BY <3>1, <3>2
  <2>10. Exclusive'
      BY <1>8, <2>6, <2>7 DEF HoldInv, Exclusive
  <2>. QED
      BY <2>8, <2>9, <2>10
<1>9. ASSUME NEW c \in Consumers, ReadThenFlush(c) PROVE HoldInv'
  <2>. DEFINE w == Extended(c)
  <2>1. /\ ReadNew(c) /\ CallFlush(c, "run", w)
        /\ batch' = [batch EXCEPT ![c] = w]
      BY <1>9 DEF ReadThenFlush, ReadNew
  <2>. HIDE DEF w
  <2>2. Held(c)' = w.ids /\ \A d \in Consumers \ {c} : Held(d)' = Held(d)
      BY <1>1, <2>1 DEF Held, TypeOK, CallFlush
  <2>3. AdoptInv'
      BY <1>1, <2>1 DEF HoldInv, AdoptInv, TypeOK, CallFlush
  <2>. QED
      BY <1>8, <2>1, <2>2, <2>3 DEF HoldInv, w
<1>10. ASSUME NEW c \in Consumers, NEW sweepDue \in BOOLEAN, ReadWithoutFlush(c, sweepDue)
       PROVE HoldInv'
  <2>. DEFINE w == Extended(c)
  <2>1. /\ ReadNew(c) /\ UNCHANGED <<args, caller>>
        /\ pc[c] = "read"
        /\ pc' = [pc EXCEPT ![c] = IF sweepDue THEN "adopt" ELSE "read"]
        /\ batch' = [batch EXCEPT ![c] = w]
      BY <1>10 DEF ReadWithoutFlush, ReadNew
  <2>. HIDE DEF w
  <2>2. args[c] = NoWork
      BY <1>1, <2>1 DEF ShapeInv
  <2>3. Held(c)' = w.ids /\ \A d \in Consumers \ {c} : Held(d)' = Held(d)
      BY <1>1, <2>1, <2>2, NoWorkType DEF Held, TypeOK
  <2>4. AdoptInv'
      BY <1>1, <2>1 DEF HoldInv, AdoptInv, TypeOK
  <2>. QED
      BY <1>8, <2>1, <2>3, <2>4 DEF HoldInv, w
<1>11. ASSUME NEW c \in Consumers, FlushWrite(c) PROVE HoldInv'
  <2>1. /\ UNCHANGED <<redis, batch, args, caller>>
        /\ pc[c] = "write" /\ pc' = [pc EXCEPT ![c] = "ack"]
      BY <1>11 DEF FlushWrite
  <2>2. \A d \in Consumers : Held(d)' = Held(d)
      BY <2>1 DEF Held
  <2>3. AdoptInv'
      BY <1>1, <2>1 DEF HoldInv, AdoptInv, TypeOK
  <2>. QED
      BY <2>1, <2>2, <2>3 DEF HoldInv, PendingInv, HeldInv, Exclusive, redis, stream
<1>12. ASSUME NEW c \in Consumers, FlushRaises(c) \/ Crash(c) PROVE HoldInv'
  <2>1. /\ UNCHANGED <<redis, caller>>
        /\ pc' = [pc EXCEPT ![c] = "down"]
        /\ batch' = [batch EXCEPT ![c] = NoWork]
        /\ args' = [args EXCEPT ![c] = NoWork]
      BY <1>12 DEF FlushRaises, Crash
  <2>2. Held(c)' = {} /\ \A d \in Consumers \ {c} : Held(d)' = Held(d)
      BY <1>1, <2>1, NoWorkType DEF Held, TypeOK
  <2>3. AdoptInv'
      BY <1>1, <2>1 DEF HoldInv, AdoptInv, TypeOK
  <2>. QED
      BY <2>1, <2>2, <2>3 DEF HoldInv, PendingInv, HeldInv, Exclusive, redis, stream
<1>13. ASSUME NEW c \in Consumers,
              FlushAckRecovery(c) \/ \E sweepDue \in BOOLEAN : FlushAckRun(c, sweepDue)
       PROVE  HoldInv'
  <2>1. /\ pc[c] = "ack"
        /\ Xack(args[c].ids) /\ UNCHANGED <<caller>>
        /\ pc' \in {[pc EXCEPT ![c] = l] : l \in {"recover", "adopt", "read"}}
        /\ args' = [args EXCEPT ![c] = NoWork]
        /\ \/ caller[c] = "run" /\ batch' = [batch EXCEPT ![c] = NoWork]
           \/ caller[c] \in {"recover", "adopt"} /\ UNCHANGED batch
      BY <1>1, <1>13 DEF FlushAckRecovery, FlushAckRun, TypeOK, Callers
  <2>2. UNCHANGED <<stream, lastDelivered>> /\ idle' \subseteq idle
      BY <2>1 DEF Xack
  <2>3. Held(c)' \subseteq Held(c) /\ Held(c)' \cap args[c].ids = {}
    <3>1. CASE caller[c] = "run"
        BY <1>1, <2>1, <3>1, NoWorkType DEF Held, TypeOK
    <3>2. CASE caller[c] = "recover"
        BY <1>1, <2>1, <3>2, NoWorkType DEF Held, TypeOK, ShapeInv, Recovering
    <3>3. CASE caller[c] = "adopt"
        BY <1>1, <2>1, <3>3, NoWorkType DEF Held, TypeOK, HoldInv, AdoptInv
    <3>. QED
        BY <2>1, <3>1, <3>2, <3>3
  <2>4. \A d \in Consumers \ {c} : Held(d)' = Held(d) /\ Held(d) \cap args[c].ids = {}
      BY <1>1, <2>1 DEF Held, TypeOK, HoldInv, Exclusive
  <2>5. \A d \in Consumers : \A e \in Held(d)' :
            e \in Held(d) /\ e \in Entries /\ owner'[e] = owner[e]
      BY <1>2, <2>1, <2>3, <2>4 DEF Xack
  <2>6. HeldInv' /\ Exclusive'
      BY <2>2, <2>5 DEF HoldInv, HeldInv, Exclusive, stream
  <2>7. PendingInv'
      BY <2>1, <2>2 DEF HoldInv, PendingInv, Xack
  <2>8. AdoptInv'
      BY <1>1, <2>1 DEF HoldInv, AdoptInv, TypeOK
  <2>. QED
      BY <2>6, <2>7, <2>8 DEF HoldInv
<1>14. CASE UNCHANGED vars
    BY <1>14 DEF HoldInv, PendingInv, HeldInv, AdoptInv, Exclusive, Held, vars, redis, stream,
       worker
<1>. QED
    BY <1>3, <1>4, <1>5, <1>6, <1>7, <1>9, <1>10, <1>11, <1>12, <1>13, <1>14 DEF Next, Run

\* An entry that can still be written was written once per exposure at most.
LEMMA CountStep ==
    ASSUME StrandInv, GroupInv, HoldInv, HoldInv', CountInv, [Next]_vars
    PROVE  CountInv'
<1>. USE ConstantsAssumption
<1>1. TypeOK /\ TypeOK' /\ ShapeInv /\ ShapeInv'
    BY StrandStep DEF StrandInv
<1>2. ASSUME UNCHANGED <<counted, exposed>>,
             \A e \in Entries : Writable(e)' => Writable(e)
      PROVE  CountInv'
    BY <1>2 DEF CountInv
<1>3. ASSUME UNCHANGED <<lastDelivered, owner, counted, worker, exposed>> PROVE CountInv'
    BY <1>2, <1>3 DEF Writable, AckDue, worker
<1>4. ASSUME NEW c \in Consumers, Start(c) PROVE CountInv'
  <2>1. /\ pc[c] = "down" /\ pc' = [pc EXCEPT ![c] = "recover"]
        /\ UNCHANGED <<owner, counted, batch, args, exposed>>
        /\ lastDelivered' = IF groupExists THEN lastDelivered ELSE 0
      BY <1>4 DEF Start, EnsureConsumerGroup, history
  <2>2. lastDelivered' = lastDelivered
      BY <2>1 DEF GroupInv
  <2>3. \A d \in Consumers, e \in Entries : AckDue(d, e)' = AckDue(d, e)
      BY <1>1, <2>1 DEF AckDue, TypeOK
  <2>. QED
      BY <1>2, <2>1, <2>2, <2>3 DEF Writable
<1>5. ASSUME NEW c \in Consumers, RecoverOwnPending(c) PROVE CountInv'
  <2>. DEFINE own == {e \in Entries : owner[e] = c}
              messages == FirstN(own, BATCH_SIZE)
              w == [ids |-> messages,
                    events |-> {e \in messages : e > trimmed} \ poison]
  <2>1. /\ pc[c] = "recover"
        /\ UNCHANGED <<lastDelivered, owner, counted, batch, exposed>>
      BY <1>5 DEF RecoverOwnPending, history
  <2>2. \/ pc' = [pc EXCEPT ![c] = "adopt"] /\ UNCHANGED args
        \/ CallFlush(c, "recover", w)
      BY <1>5 DEF RecoverOwnPending
  <2>3. \A e \in w.events : e \in Entries /\ owner[e] = c
      BY FirstNSubset
  <2>. HIDE DEF w
  <2>4. \A e \in w.events : Writable(e)
    <3>. SUFFICES ASSUME NEW e \in w.events, NEW d \in Consumers, AckDue(d, e)
                  PROVE  FALSE
        BY <2>3 DEF Writable
    <3>1. e \in Held(d) /\ d # c
        BY <1>1, <2>1 DEF AckDue, Held, ShapeInv
    <3>. QED
        BY <2>3, <3>1 DEF HoldInv, HeldInv
  <2>5. \A d \in Consumers, e \in Entries : AckDue(d, e) => AckDue(d, e)'
      BY <1>1, <2>1, <2>2 DEF AckDue, TypeOK, CallFlush
  <2>6. \A d \in Consumers, e \in Entries :
            e \in (batch[d].events \cup args[d].events)' =>
                e \in batch[d].events \cup args[d].events \/ e \in w.events
      BY <1>1, <2>1, <2>2 DEF TypeOK, CallFlush
  <2>7. \A e \in Entries : Writable(e)' => Writable(e)
      BY <2>1, <2>4, <2>5, <2>6 DEF Writable
  <2>. QED
      BY <1>2, <2>1, <2>7
<1>6. ASSUME NEW c \in Consumers, AdoptOrphanedPending(c) PROVE CountInv'
  <2>. DEFINE visited == Visited(cursor[c])
              deleted == {e \in visited : e <= trimmed}
              claimed == (visited \cap Claimable) \ deleted
              w == [ids |-> claimed, events |-> claimed \ poison]
  <2>1. /\ UNCHANGED <<lastDelivered, counted, batch, exposed>>
        /\ pc[c] = "adopt"
        /\ owner' = [e \in Entries |-> IF e \in claimed THEN c
                                       ELSE IF e \in deleted THEN None
                                       ELSE owner[e]]
      BY <1>6 DEF AdoptOrphanedPending, history
  <2>2. \/ pc' = [pc EXCEPT ![c] = "read"] /\ UNCHANGED args
        \/ CallFlush(c, "adopt", w)
      BY <1>6 DEF AdoptOrphanedPending
  <2>3. visited \subseteq Pending
      BY VisitedPending
  <2>4. /\ \A e \in claimed : e \in Entries /\ owner[e] # None /\ e \in idle /\ ~(e <= trimmed)
        /\ w.events \subseteq claimed
      BY <2>3 DEF Pending, Claimable
  <2>. HIDE DEF w, claimed, deleted, visited
  <2>5. \A e \in claimed : Writable(e)
    <3>. SUFFICES ASSUME NEW e \in claimed, NEW d \in Consumers, AckDue(d, e)
                  PROVE  FALSE
        BY <2>4 DEF Writable
    <3>1. e \in Held(d)
        BY <1>1 DEF AckDue, Held, ShapeInv
    <3>. QED
        BY <2>4, <3>1 DEF HoldInv, HeldInv
  <2>6. \A d \in Consumers, e \in Entries : AckDue(d, e) => AckDue(d, e)'
      BY <1>1, <2>1, <2>2 DEF AckDue, TypeOK, CallFlush
  <2>7. \A d \in Consumers, e \in Entries :
            e \in (batch[d].events \cup args[d].events)' =>
                e \in batch[d].events \cup args[d].events \/ e \in claimed
      BY <1>1, <2>1, <2>2, <2>4 DEF TypeOK, CallFlush
  <2>8. \A e \in Entries : owner'[e] # None => owner[e] # None
      BY <2>1, <2>4
  <2>9. \A e \in Entries : Writable(e)' => Writable(e)
      BY <2>1, <2>5, <2>6, <2>7, <2>8 DEF Writable
  <2>. QED
      BY <1>2, <2>1, <2>9
<1>7. ASSUME NEW c \in Consumers, ReadNew(c),
             \A d \in Consumers, e \in Entries : AckDue(d, e) => AckDue(d, e)',
             \A d \in Consumers : (batch[d].events \cup args[d].events)' \subseteq
                 batch[d].events \cup args[d].events \cup
                     (IF d = c THEN Extended(c).events ELSE {})
      PROVE  CountInv'
  <2>. DEFINE new == NewMessages(c)
  <2>1. /\ UNCHANGED <<counted, exposed>>
        /\ owner' = [e \in Entries |-> IF e \in new THEN c ELSE owner[e]]
        /\ lastDelivered' = IF new = {} THEN lastDelivered ELSE LastRead(c)
      BY <1>7 DEF ReadNew, history
  <2>2. /\ LastSeen \in lastDelivered..added
        /\ LastRead(c) \in LastSeen..added
      BY <1>1, NewMessagesFacts
  <2>3. \A e \in new : e > lastDelivered
      BY <1>1, <2>2 DEF NewMessages, TypeOK
  <2>4. \A e \in Entries : e > lastDelivered' => e > lastDelivered
      BY <1>1, <2>1, <2>2 DEF TypeOK, Entries
  <2>5. Extended(c).events \subseteq batch[c].events \cup new
      BY DEF Extended
  <2>. HIDE DEF new
  <2>6. \A e \in Entries : Writable(e)' => Writable(e)
    <3>. SUFFICES ASSUME NEW e \in Entries, Writable(e)', e \notin new PROVE Writable(e)
        BY <2>3 DEF Writable
    <3>1. owner'[e] = owner[e]
        BY <2>1
    <3>2. \A d \in Consumers : e \in (batch[d].events \cup args[d].events)' =>
                                   e \in batch[d].events \cup args[d].events
        BY <1>7, <2>5
    <3>. QED
        BY <1>7, <2>4, <3>1, <3>2 DEF Writable
  <2>. QED
      BY <1>2, <2>1, <2>6
<1>8. ASSUME NEW c \in Consumers, ReadThenFlush(c) PROVE CountInv'
  <2>. DEFINE w == Extended(c)
  <2>1. /\ ReadNew(c) /\ CallFlush(c, "run", w) /\ pc[c] = "read"
        /\ batch' = [batch EXCEPT ![c] = w]
      BY <1>8 DEF ReadThenFlush, ReadNew
  <2>. HIDE DEF w
  <2>2. \A d \in Consumers, e \in Entries : AckDue(d, e) => AckDue(d, e)'
      BY <1>1, <2>1 DEF AckDue, TypeOK, CallFlush
  <2>3. \A d \in Consumers : (batch[d].events \cup args[d].events)' \subseteq
                 batch[d].events \cup args[d].events \cup (IF d = c THEN w.events ELSE {})
      BY <1>1, <2>1 DEF TypeOK, CallFlush
  <2>. QED
      BY <1>7, <2>1, <2>2, <2>3 DEF w
<1>9. ASSUME NEW c \in Consumers, NEW sweepDue \in BOOLEAN, ReadWithoutFlush(c, sweepDue)
      PROVE CountInv'
  <2>. DEFINE w == Extended(c)
  <2>1. /\ ReadNew(c) /\ UNCHANGED args /\ pc[c] = "read"
        /\ pc' = [pc EXCEPT ![c] = IF sweepDue THEN "adopt" ELSE "read"]
        /\ batch' = [batch EXCEPT ![c] = w]
      BY <1>9 DEF ReadWithoutFlush, ReadNew
  <2>. HIDE DEF w
  <2>2. \A d \in Consumers, e \in Entries : AckDue(d, e) => AckDue(d, e)'
      BY <1>1, <2>1 DEF AckDue, TypeOK
  <2>3. \A d \in Consumers : (batch[d].events \cup args[d].events)' \subseteq
                 batch[d].events \cup args[d].events \cup (IF d = c THEN w.events ELSE {})
      BY <1>1, <2>1 DEF TypeOK
  <2>. QED
      BY <1>7, <2>1, <2>2, <2>3 DEF w
<1>10. ASSUME NEW c \in Consumers, FlushWrite(c) PROVE CountInv'
  <2>1. /\ UNCHANGED <<lastDelivered, owner, batch, args, exposed>>
        /\ pc[c] = "write" /\ pc' = [pc EXCEPT ![c] = "ack"]
        /\ counted' = [e \in Entries |->
                         IF e \in args[c].events THEN counted[e] + 1 ELSE counted[e]]
      BY <1>10 DEF FlushWrite, redis, history
  <2>. SUFFICES ASSUME NEW e \in Entries
                PROVE  /\ counted'[e] <= 1 + exposed[e]
                       /\ Writable(e)' => counted'[e] <= exposed[e]
      BY <2>1 DEF CountInv
  <2>2. counted[e] \in Nat /\ exposed[e] \in Nat
      BY <1>1 DEF TypeOK
  <2>3. CASE e \in args[c].events
    <3>1. Writable(e)
        BY <2>1, <2>3 DEF Writable, AckDue
    <3>2. e \in Held(c) /\ ~(e > lastDelivered)
      <4>1. e \in Held(c)
          BY <1>1, <2>3 DEF Held, ShapeInv
      <4>. QED
          BY <1>1, <4>1 DEF HoldInv, HeldInv, Entries, TypeOK
    <3>3. AckDue(c, e)'
        BY <1>1, <2>1, <2>3 DEF AckDue, TypeOK
    <3>4. \A d \in Consumers \ {c} : e \notin batch[d].events \cup args[d].events
        BY <1>1, <3>2 DEF HoldInv, Exclusive, Held, ShapeInv
    <3>5. ~Writable(e)'
        BY <2>1, <3>2, <3>3, <3>4 DEF Writable
    <3>6. counted'[e] = counted[e] + 1
        BY <2>1, <2>3
    <3>. QED
        BY <2>2, <3>1, <3>5, <3>6 DEF CountInv
  <2>4. CASE e \notin args[c].events
    <3>1. counted'[e] = counted[e]
        BY <2>1, <2>4
    <3>2. \A d \in Consumers : AckDue(d, e)' = AckDue(d, e)
        BY <1>1, <2>1, <2>4 DEF AckDue, TypeOK
    <3>3. Writable(e)' => Writable(e)
        BY <2>1, <3>2 DEF Writable
    <3>. QED
        BY <3>1, <3>3 DEF CountInv
  <2>. QED
      BY <2>3, <2>4
<1>11. ASSUME NEW c \in Consumers, FlushRaises(c) \/ Crash(c) PROVE CountInv'
  <2>1. /\ UNCHANGED <<lastDelivered, owner, counted>>
        /\ pc' = [pc EXCEPT ![c] = "down"]
        /\ batch' = [batch EXCEPT ![c] = NoWork]
        /\ args' = [args EXCEPT ![c] = NoWork]
        /\ exposed' = [e \in Entries |-> IF AckDue(c, e) THEN exposed[e] + 1 ELSE exposed[e]]
    <3>1. CASE FlushRaises(c)
      <4>1. exposed' = exposed /\ \A e \in Entries : ~AckDue(c, e)
          BY <3>1 DEF FlushRaises, history, AckDue
      <4>2. exposed \in [Entries -> Nat]
          BY <1>1 DEF TypeOK
      <4>3. exposed' = [e \in Entries |-> IF AckDue(c, e) THEN exposed[e] + 1 ELSE exposed[e]]
          BY <4>1, <4>2
      <4>. QED
          BY <3>1, <4>3 DEF FlushRaises, redis
    <3>2. CASE Crash(c)
        BY <3>2 DEF Crash, AckDue, redis
    <3>. QED
        BY <1>11, <3>1, <3>2
  <2>. SUFFICES ASSUME NEW e \in Entries
                PROVE  /\ counted[e] <= 1 + exposed'[e]
                       /\ Writable(e)' => counted[e] <= exposed'[e]
      BY <2>1 DEF CountInv
  <2>2. counted[e] \in Nat /\ exposed[e] \in Nat
      BY <1>1 DEF TypeOK
  <2>3. CASE AckDue(c, e)
      BY <2>1, <2>2, <2>3 DEF CountInv
  <2>4. CASE ~AckDue(c, e)
    <3>1. \A d \in Consumers : AckDue(d, e) => AckDue(d, e)'
        BY <1>1, <2>1, <2>4 DEF AckDue, TypeOK
    <3>2. \A d \in Consumers : e \in (batch[d].events \cup args[d].events)' =>
                                   e \in batch[d].events \cup args[d].events
        BY <1>1, <2>1, NoWorkType DEF TypeOK
    <3>3. Writable(e)' => Writable(e)
        BY <2>1, <3>1, <3>2 DEF Writable
    <3>. QED
        BY <2>1, <2>4, <3>3 DEF CountInv
  <2>. QED
      BY <2>3, <2>4
<1>12. ASSUME NEW c \in Consumers,
              FlushAckRecovery(c) \/ \E sweepDue \in BOOLEAN : FlushAckRun(c, sweepDue)
       PROVE  CountInv'
  <2>1. /\ pc[c] = "ack"
        /\ Xack(args[c].ids) /\ UNCHANGED <<counted, exposed>>
        /\ pc' \in {[pc EXCEPT ![c] = l] : l \in {"recover", "adopt", "read"}}
        /\ args' = [args EXCEPT ![c] = NoWork]
        /\ \/ caller[c] = "run" /\ batch' = [batch EXCEPT ![c] = NoWork]
           \/ caller[c] \in {"recover", "adopt"} /\ UNCHANGED batch
      BY <1>1, <1>12 DEF FlushAckRecovery, FlushAckRun, TypeOK, Callers, history
  <2>2. lastDelivered' = lastDelivered
      BY <2>1 DEF Xack
  <2>3. \A e \in Entries : Writable(e)' => Writable(e)
    <3>. SUFFICES ASSUME NEW e \in Entries, Writable(e)' PROVE Writable(e)
        OBVIOUS
    <3>1. \A d \in Consumers \ {c} : /\ AckDue(d, e)' = AckDue(d, e)
                                     /\ batch'[d] = batch[d] /\ args'[d] = args[d]
        BY <1>1, <2>1 DEF AckDue, TypeOK
    <3>2. CASE e \in args[c].ids
      <4>1. e \in Held(c) /\ ~(e > lastDelivered)
        <5>1. e \in Held(c)
            BY <3>2 DEF Held
        <5>. QED
            BY <1>1, <5>1 DEF HoldInv, HeldInv, Entries, TypeOK
      <4>2. owner'[e] = None
          BY <2>1, <3>2 DEF Xack
      <4>3. \A d \in Consumers \ {c} : e \notin batch[d].events \cup args[d].events
          BY <1>1, <4>1 DEF HoldInv, Exclusive, Held, ShapeInv
      <4>4. e \notin batch'[c].events \cup args'[c].events
        <5>1. CASE caller[c] = "run"
            BY <1>1, <2>1, <5>1, NoWorkType DEF TypeOK
        <5>2. CASE caller[c] = "recover"
            BY <1>1, <2>1, <5>2, NoWorkType DEF TypeOK, ShapeInv, Recovering
        <5>3. CASE caller[c] = "adopt"
            BY <1>1, <2>1, <3>2, <5>3, NoWorkType DEF TypeOK, ShapeInv, HoldInv, AdoptInv
        <5>. QED
            BY <2>1, <5>1, <5>2, <5>3
      <4>. QED
          BY <2>2, <3>1, <4>1, <4>2, <4>3, <4>4 DEF Writable
    <3>3. CASE e \notin args[c].ids
      <4>1. owner'[e] = owner[e]
          BY <2>1, <3>3 DEF Xack
      <4>2. ~AckDue(c, e) /\ ~AckDue(c, e)'
          BY <1>1, <2>1, <3>3, NoWorkType DEF AckDue, ShapeInv, TypeOK
      <4>3. e \in batch'[c].events \cup args'[c].events =>
                e \in batch[c].events \cup args[c].events
          BY <1>1, <2>1, NoWorkType DEF TypeOK
      <4>. QED
          BY <2>2, <3>1, <4>1, <4>2, <4>3 DEF Writable
    <3>. QED
        BY <3>2, <3>3
  <2>. QED
      BY <1>2, <2>1, <2>3
<1>. QED
    BY <1>3, <1>4, <1>5, <1>6, <1>8, <1>9, <1>10, <1>11, <1>12
    DEF Next, Run, Emit, Age, vars, redis, history

LEMMA DupStep == DupInv /\ [Next]_vars => DupInv'
<1>. SUFFICES ASSUME DupInv, [Next]_vars PROVE DupInv'
    OBVIOUS
<1>1. StrandInv' /\ GroupInv'
    BY StrandStep, GroupStep DEF DupInv, StrandInv
<1>2. ~LiveMayStall => HoldInv'
    BY HoldStep DEF DupInv
<1>3. ~LiveMayStall => CountInv'
    BY <1>2, CountStep DEF DupInv
<1>. QED
    BY <1>1, <1>2, <1>3 DEF DupInv

\* With no live worker slower than XAUTOCLAIM_IDLE_MS, an entry is counted at
\* most once more than it was exposed to a crash between commit and XACK.
THEOREM DuplicatesCorrect == Spec => []DuplicatesOnlyFromCrash
<1>1. DupInv => DuplicatesOnlyFromCrash
    BY DEF DupInv, CountInv, DuplicatesOnlyFromCrash
<1>. QED
    BY <1>1, DupInit, DupStep, PTL DEF Spec

\* Under the same proviso no entry is in the memory of two live workers.
THEOREM ExclusiveHoldCorrect == Spec => []ExclusiveHold
<1>1. DupInv => ExclusiveHold
    BY DEF DupInv, HoldInv, Exclusive, ExclusiveHold, Live
<1>. QED
    BY <1>1, DupInit, DupStep, PTL DEF Spec

-----------------------------------------------------------------------------
(* Refinement: the pipeline implements AtLeastOnce.                         *)

\* Only entries that were added are written, or held to be written.
AddedInv ==
    /\ \A c \in Consumers : \A e \in batch[c].events \cup args[c].events : e <= added
    /\ \A e \in Entries : counted[e] >= 1 => e <= added

QueueInv == LossInv /\ GroupInv /\ PendingInv /\ AddedInv

LEMMA QueueInit == Init => QueueInv /\ Queue!Init
<1>. SUFFICES ASSUME Init PROVE QueueInv /\ Queue!Init
    OBVIOUS
<1>1. LossInv
    BY LossInit
<1>2. GroupInv /\ PendingInv /\ AddedInv
    BY NoWorkType DEF Init, GroupInv, PendingInv, AddedInv
<1>3. added = 0 /\ 1..trimmed = {} /\ 1..lastDelivered = {} /\ poison = {}
    BY DEF Init
<1>4. {e \in Entries : counted[e] >= 1} = {}
    BY DEF Init
<1>. QED
    BY <1>1, <1>2, <1>3, <1>4 DEF QueueInv, Queue!Init

\* What XREADGROUP > does to the group, whatever run() does next.
LEMMA ReadFacts ==
    ASSUME QueueInv, NEW c \in Consumers, ReadNew(c)
    PROVE  /\ \A e \in Entries : owner'[e] # None => e <= lastDelivered'
           /\ \A e \in Extended(c).events : e <= added
           /\ lastDelivered <= lastDelivered' /\ lastDelivered' <= added
           /\ \A e \in Entries : e <= lastDelivered => owner'[e] = owner[e]
<1>1. TypeOK
    BY DEF QueueInv, LossInv
<1>2. /\ LastSeen \in lastDelivered..added
      /\ LastRead(c) \in LastSeen..added
      /\ NewMessages(c) # {} => LastRead(c) > LastSeen
    BY <1>1, NewMessagesFacts
<1>3. \A e \in Entries : e \in NewMessages(c) <=> LastSeen < e /\ e <= LastRead(c)
    BY <1>1, <1>2, ConstantsAssumption DEF NewMessages, TypeOK, Entries
<1>4. /\ owner' = [e \in Entries |-> IF e \in NewMessages(c) THEN c ELSE owner[e]]
      /\ lastDelivered' = IF NewMessages(c) = {} THEN lastDelivered ELSE LastRead(c)
    BY DEF ReadNew
<1>5. lastDelivered <= lastDelivered' /\ lastDelivered' <= added
    BY <1>1, <1>2, <1>4, ConstantsAssumption DEF TypeOK
<1>6. \A e \in Entries : e <= lastDelivered => e \notin NewMessages(c)
    BY <1>1, <1>2, <1>3, ConstantsAssumption DEF TypeOK, Entries
<1>7. \A e \in Entries : owner'[e] # None => e <= lastDelivered'
    BY <1>1, <1>3, <1>4, <1>5, ConstantsAssumption DEF QueueInv, PendingInv, TypeOK, Entries
<1>8. \A e \in Extended(c).events : e <= added
  <2>1. \A e \in NewMessages(c) : e <= added
      BY <1>1, <1>2, ConstantsAssumption DEF NewMessages, TypeOK
  <2>. QED
      BY <2>1 DEF QueueInv, AddedInv, Extended
<1>. QED
    BY <1>4, <1>5, <1>6, <1>7, <1>8

LEMMA AddedStep == QueueInv /\ [Next]_vars => PendingInv' /\ AddedInv'
<1>. SUFFICES ASSUME QueueInv, [Next]_vars PROVE PendingInv' /\ AddedInv'
    OBVIOUS
<1>. USE ConstantsAssumption
<1>1. TypeOK /\ PendingInv /\ AddedInv /\ GroupInv
    BY DEF QueueInv, LossInv
<1>2. \A c \in Consumers : args[c].events \subseteq Entries /\ batch[c].events \subseteq Entries
    BY <1>1 DEF TypeOK, Work
<1>3. ASSUME NEW kind \in EntryKinds, Emit(kind) PROVE PendingInv' /\ AddedInv'
    BY <1>1, <1>2, <1>3 DEF PendingInv, AddedInv, Emit, worker, TypeOK, Entries
<1>4. ASSUME NEW e \in Entries, Age(e) PROVE PendingInv' /\ AddedInv'
    BY <1>1, <1>4 DEF PendingInv, AddedInv, Age, stream, worker
<1>5. ASSUME NEW c \in Consumers, Start(c) PROVE PendingInv' /\ AddedInv'
    BY <1>1, <1>5 DEF PendingInv, AddedInv, GroupInv, Start, EnsureConsumerGroup, stream
<1>6. ASSUME NEW c \in Consumers, RecoverOwnPending(c) PROVE PendingInv' /\ AddedInv'
  <2>. DEFINE own == {e \in Entries : owner[e] = c}
              messages == FirstN(own, BATCH_SIZE)
              w == [ids |-> messages,
                    events |-> {e \in messages : e > trimmed} \ poison]
  <2>1. \A e \in w.events : e <= added
    <3>1. messages \subseteq own
        BY FirstNSubset
    <3>2. \A e \in own : e <= lastDelivered
        BY <1>1 DEF PendingInv
    <3>. QED
        BY <1>1, <3>1, <3>2 DEF TypeOK, Entries
  <2>2. \/ UNCHANGED args
        \/ CallFlush(c, "recover", w)
      BY <1>6 DEF RecoverOwnPending
  <2>3. UNCHANGED <<added, lastDelivered, owner, counted, batch>>
      BY <1>6 DEF RecoverOwnPending, stream
  <2>. HIDE DEF w
  <2>. QED
      BY <1>1, <2>1, <2>2, <2>3 DEF PendingInv, AddedInv, CallFlush, TypeOK
<1>7. ASSUME NEW c \in Consumers, AdoptOrphanedPending(c) PROVE PendingInv' /\ AddedInv'
  <2>. DEFINE visited == Visited(cursor[c])
              deleted == {e \in visited : e <= trimmed}
              claimed == (visited \cap Claimable) \ deleted
              w == [ids |-> claimed, events |-> claimed \ poison]
  <2>1. \A e \in claimed : e \in Entries /\ e <= lastDelivered /\ e <= added
    <3>1. claimed \subseteq Pending
        BY VisitedPending
    <3>. QED
        BY <1>1, <3>1 DEF PendingInv, Pending, TypeOK, Entries
  <2>2. /\ UNCHANGED <<added, lastDelivered, counted, batch>>
        /\ owner' = [e \in Entries |-> IF e \in claimed THEN c
                                       ELSE IF e \in deleted THEN None
                                       ELSE owner[e]]
        /\ UNCHANGED args \/ CallFlush(c, "adopt", w)
      BY <1>7 DEF AdoptOrphanedPending, stream
  <2>3. PendingInv'
      BY <1>1, <2>1, <2>2 DEF PendingInv
  <2>4. \A e \in w.events : e <= added
      BY <2>1
  <2>. HIDE DEF w
  <2>5. AddedInv'
      BY <1>1, <2>2, <2>4 DEF AddedInv, CallFlush, TypeOK
  <2>. QED
      BY <2>3, <2>5
<1>8. ASSUME NEW c \in Consumers, ReadNew(c), UNCHANGED args \/ CallFlush(c, "run", Extended(c))
      PROVE  PendingInv' /\ AddedInv'
  <2>1. batch' = [batch EXCEPT ![c] = Extended(c)] /\ UNCHANGED <<added, counted>>
      BY <1>8 DEF ReadNew, stream
  <2>2. PendingInv' /\ \A e \in Extended(c).events : e <= added
      BY <1>8, ReadFacts DEF PendingInv
  <2>. QED
      BY <1>1, <1>8, <2>1, <2>2 DEF AddedInv, CallFlush, TypeOK
<1>9. ASSUME NEW c \in Consumers, ReadThenFlush(c) PROVE PendingInv' /\ AddedInv'
    BY <1>8, <1>9 DEF ReadThenFlush
<1>10. ASSUME NEW c \in Consumers, NEW sweepDue \in BOOLEAN, ReadWithoutFlush(c, sweepDue)
       PROVE  PendingInv' /\ AddedInv'
    BY <1>8, <1>10 DEF ReadWithoutFlush
<1>11. ASSUME NEW c \in Consumers, FlushWrite(c) \/ FlushRaises(c) \/ Crash(c)
       PROVE  PendingInv' /\ AddedInv'
    BY <1>1, <1>11, NoWorkType DEF PendingInv, AddedInv, FlushWrite, FlushRaises, Crash,
       redis, stream, TypeOK
<1>12. ASSUME NEW c \in Consumers,
              FlushAckRecovery(c) \/ \E sweepDue \in BOOLEAN : FlushAckRun(c, sweepDue)
       PROVE  PendingInv' /\ AddedInv'
    BY <1>1, <1>12, NoWorkType DEF PendingInv, AddedInv, FlushAckRecovery, FlushAckRun, Xack,
       stream, TypeOK
<1>13. CASE UNCHANGED vars
    BY <1>1, <1>13 DEF PendingInv, AddedInv, vars, redis, stream, worker
<1>. QED
    BY <1>3, <1>4, <1>5, <1>6, <1>7, <1>9, <1>10, <1>11, <1>12, <1>13 DEF Next, Run

\* A settled entry is done with: the right-hand side of DeliveredInv, in the
\* terms of AtLeastOnce.
LEMMA SettledIsDone ==
    ASSUME TypeOK, NEW e \in Entries, Settled(e)
    PROVE  e \in {x \in Entries : counted[x] >= 1} \cup (poison \cup (1..trimmed))
BY ConstantsAssumption DEF TypeOK, Settled, Entries

\* A step that leaves the stream and the table alone and takes no entry out of
\* the delivered ones without an owner settles entries, or does nothing.
LEMMA SettleStep ==
    ASSUME QueueInv, QueueInv',
           UNCHANGED <<stream, counted>>,
           lastDelivered <= lastDelivered',
           \A e \in Entries : e <= lastDelivered /\ owner[e] = None => owner'[e] = None
    PROVE  Queue!Settle
<1>. DEFINE old == {e \in 1..lastDelivered : owner[e] = None}
            new == {e \in 1..lastDelivered' : owner'[e] = None}
            done == {e \in Entries : counted[e] >= 1} \cup (poison \cup (1..trimmed))
<1>1. TypeOK /\ TypeOK' /\ DeliveredInv'
    BY DEF QueueInv, LossInv
<1>2. /\ lastDelivered \in Nat /\ lastDelivered' \in Nat /\ added \in Nat
      /\ lastDelivered' <= added /\ added <= MaxEntries /\ MaxEntries \in Nat
    BY <1>1, ConstantsAssumption DEF TypeOK, stream
<1>3. new \in SUBSET (1..added) /\ new \subseteq Entries
    BY <1>2 DEF Entries
<1>4. old \subseteq new
    BY <1>2 DEF Entries
<1>5. new \subseteq done
  <2>. SUFFICES ASSUME NEW e \in new PROVE e \in done
      OBVIOUS
  <2>1. e \in Entries /\ e <= lastDelivered' /\ owner'[e] = None
      BY <1>2, <1>3
  <2>2. Settled(e)'
      BY <1>1, <2>1 DEF DeliveredInv
  <2>3. Settled(e)
      BY <2>2 DEF Settled, stream
  <2>. QED
      BY <1>1, <2>1, <2>3, SettledIsDone
<1>6. UNCHANGED <<added, poison \cup (1..trimmed), {e \in Entries : counted[e] >= 1}>>
    BY DEF stream
<1>7. /\ new \in SUBSET (1..added) /\ old \subseteq new /\ new \ old \subseteq done
    BY <1>3, <1>4, <1>5
<1>. QED
    BY <1>6, <1>7 DEF Queue!Settle

LEMMA QueueStep ==
    QueueInv /\ QueueInv' /\ [Next]_vars => [Queue!Next]_(Queue!vars)
<1>. SUFFICES ASSUME QueueInv, QueueInv', [Next]_vars
              PROVE  Queue!Next \/ UNCHANGED Queue!vars
    OBVIOUS
<1>. USE ConstantsAssumption
<1>1. TypeOK /\ TypeOK' /\ PendingInv /\ AddedInv /\ GroupInv /\ TrimInv'
    BY DEF QueueInv, LossInv
<1>2. ASSUME UNCHANGED <<stream, counted, lastDelivered, owner>>
      PROVE  UNCHANGED Queue!vars
    BY <1>2 DEF Queue!vars, stream
<1>3. ASSUME NEW kind \in EntryKinds, Emit(kind) PROVE Queue!Offer
  <2>1. /\ added' = added + 1 /\ added \in Nat /\ STREAM_MAXLEN \in Nat
        /\ trimmed \in Nat /\ trimmed' \in Nat /\ trimmed <= trimmed'
        /\ trimmed' = trimmed \/ trimmed' <= added' - STREAM_MAXLEN
    <3>1. added' = added + 1 /\ added \in Nat /\ STREAM_MAXLEN \in Nat /\ trimmed \in Nat
        BY <1>1, <1>3 DEF Emit, TypeOK
    <3>2. trimmed' \in trimmed..(added + 1)
        BY <1>3 DEF Emit, TrimPoints
    <3>3. trimmed' = trimmed \/ trimmed' <= added' - STREAM_MAXLEN
        BY <1>3, <3>1 DEF Emit, TrimPoints
    <3>. QED
        BY <3>1, <3>2, <3>3
  <2>2. poison \subseteq poison' /\ poison' \subseteq poison \cup {added'}
      BY <1>3 DEF Emit
  <2>. DEFINE old == poison \cup (1..trimmed)
              new == poison' \cup (1..trimmed')
  <2>3. old \subseteq new
      BY <2>1, <2>2
  <2>4. \A e \in new \ old : e = added' \/ e <= added' - STREAM_MAXLEN
      BY <2>1, <2>2
  <2>5. UNCHANGED <<{e \in Entries : counted[e] >= 1},
                    {e \in 1..lastDelivered : owner[e] = None}>>
      BY <1>3 DEF Emit
  <2>. QED
      BY <2>1, <2>3, <2>4, <2>5 DEF Queue!Offer
<1>4. ASSUME NEW c \in Consumers, FlushWrite(c) PROVE Queue!Write
  <2>. DEFINE old == {e \in Entries : counted[e] >= 1}
              new == {e \in Entries : counted'[e] >= 1}
  <2>1. /\ counted' = [e \in Entries |->
                         IF e \in args[c].events THEN counted[e] + 1 ELSE counted[e]]
        /\ UNCHANGED <<stream, lastDelivered, owner>>
      BY <1>4 DEF FlushWrite, redis
  <2>2. old \subseteq new
      BY <1>1, <2>1 DEF TypeOK
  <2>3. new \in SUBSET (1..added)
    <3>1. \A e \in new : e \in Entries /\ e <= added
        BY <2>1 DEF QueueInv, AddedInv, stream
    <3>. QED
        BY <1>1, <3>1 DEF TypeOK, Entries
  <2>4. UNCHANGED <<added, poison \cup (1..trimmed),
                    {e \in 1..lastDelivered : owner[e] = None}>>
      BY <2>1 DEF stream
  <2>. QED
      BY <2>2, <2>3, <2>4 DEF Queue!Write
<1>5. ASSUME NEW c \in Consumers, ReadNew(c) PROVE Queue!Settle
  <2>1. UNCHANGED <<stream, counted>>
      BY <1>5 DEF ReadNew
  <2>. QED
      BY <1>5, <2>1, ReadFacts, SettleStep
<1>6. ASSUME NEW c \in Consumers, AdoptOrphanedPending(c) PROVE Queue!Settle
  <2>1. /\ UNCHANGED <<stream, counted, lastDelivered>>
        /\ \A e \in Entries : owner[e] = None => owner'[e] = None
    <3>1. Visited(cursor[c]) \subseteq Pending
        BY VisitedPending
    <3>. QED
        BY <1>6, <3>1 DEF AdoptOrphanedPending, Pending
  <2>. QED
      BY <1>1, <2>1, SettleStep DEF TypeOK
<1>7. ASSUME NEW c \in Consumers,
             FlushAckRecovery(c) \/ \E sweepDue \in BOOLEAN : FlushAckRun(c, sweepDue)
      PROVE  Queue!Settle
  <2>1. /\ UNCHANGED <<stream, counted, lastDelivered>>
        /\ \A e \in Entries : owner[e] = None => owner'[e] = None
      BY <1>7 DEF FlushAckRecovery, FlushAckRun, Xack
  <2>. QED
      BY <1>1, <2>1, SettleStep DEF TypeOK
<1>8. ASSUME NEW c \in Consumers, Start(c) PROVE UNCHANGED Queue!vars
  <2>1. UNCHANGED lastDelivered
      BY <1>1, <1>8 DEF GroupInv, Start, EnsureConsumerGroup
  <2>. QED
      BY <1>2, <1>8, <2>1 DEF Start
<1>9. ASSUME NEW c \in Consumers, RecoverOwnPending(c) \/ FlushRaises(c) \/ Crash(c)
      PROVE  UNCHANGED Queue!vars
    BY <1>2, <1>9 DEF RecoverOwnPending, FlushRaises, Crash, redis
<1>10. ASSUME (\E e \in Entries : Age(e)) \/ UNCHANGED vars PROVE UNCHANGED Queue!vars
    BY <1>2, <1>10 DEF Age, vars, redis
<1>11. ASSUME NEW c \in Consumers,
              ReadThenFlush(c) \/ \E sweepDue \in BOOLEAN : ReadWithoutFlush(c, sweepDue)
       PROVE  ReadNew(c)
    BY <1>11 DEF ReadThenFlush, ReadWithoutFlush
<1>. QED
    BY <1>3, <1>4, <1>5, <1>6, <1>7, <1>8, <1>9, <1>10, <1>11 DEF Next, Run, Queue!Next

\* The analytics pipeline implements at-least-once delivery, for any number of
\* workers, entries and crashes: an entry is settled, and stays so, only once it
\* is committed, malformed, or trimmed behind STREAM_MAXLEN newer ones.
THEOREM PipelineImplementsAtLeastOnce == Spec => ImplementsAtLeastOnce
<1>1. QueueInv /\ [Next]_vars => QueueInv'
    BY LossStep, GroupStep, AddedStep DEF QueueInv, LossInv
<1>. QED
    BY <1>1, QueueInit, QueueStep, PTL DEF Spec, ImplementsAtLeastOnce, Queue!Spec

=============================================================================
