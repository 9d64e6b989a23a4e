---------------------------- MODULE AtLeastOnce ----------------------------
(***************************************************************************)
(* What the analytics pipeline promises, with no consumers, deliveries or  *)
(* crashes in it: at-least-once delivery into the table.  An entry is      *)
(* settled, so that nobody will look at it again, only when it is written  *)
(* or dropped; it is dropped only as it comes in, being malformed, or      *)
(* after Window newer entries have come in.                                *)
(***************************************************************************)
EXTENDS Integers

CONSTANT Window     \* the newest entries, which are never dropped for age

VARIABLES
    offered,        \* entries 1..offered have come in
    dropped,        \* those that need not be written
    written,        \* those that are in the table
    settled         \* those that are done with

vars == <<offered, dropped, written, settled>>

Init == offered = 0 /\ dropped = {} /\ written = {} /\ settled = {}

Offer ==
    /\ offered' = offered + 1
    /\ dropped \subseteq dropped'
    /\ \A e \in dropped' \ dropped : e = offered' \/ e <= offered' - Window
    /\ UNCHANGED <<written, settled>>

Write ==
    /\ written' \in SUBSET (1..offered)
    /\ written \subseteq written'
    /\ UNCHANGED <<offered, dropped, settled>>

Settle ==
    /\ settled' \in SUBSET (1..offered)
    /\ settled \subseteq settled'
    /\ settled' \ settled \subseteq written \cup dropped
    /\ UNCHANGED <<offered, dropped, written>>

Next == Offer \/ Write \/ Settle

Spec == Init /\ [][Next]_vars
=============================================================================
