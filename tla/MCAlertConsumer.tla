-------------------------- MODULE MCAlertConsumer --------------------------
(***************************************************************************)
(* The instance of AlertConsumer that TLC checks: an endpoint, a source,  *)
(* an event that matches nothing, one that matches two rules, one that     *)
(* does not parse.                                                         *)
(***************************************************************************)
EXTENDS AlertConsumer

CONSTANTS ep, src

MCContents ==
    {[parses |-> TRUE, endpoint |-> ep, source |-> src, rules |-> <<>>],
     [parses |-> TRUE, endpoint |-> ep, source |-> src, rules |-> <<"SQLI", "XSS">>],
     [parses |-> FALSE, endpoint |-> ep, source |-> src, rules |-> <<>>]}

=============================================================================
