--------------------------- MODULE MCRateLimiter ---------------------------
(***************************************************************************)
(* The instances of RateLimiter that TLC checks: two replicas, the clock   *)
(* of one behind and that of the other ahead of true time by the skew.     *)
(***************************************************************************)
EXTENDS RateLimiter, TLC

CONSTANTS p1, p2

MCOffset == (p1 :> -Skew) @@ (p2 :> Skew)

\* Requests differ in nothing but their name.
RequestSymmetry == Permutations(Requests)

=============================================================================
