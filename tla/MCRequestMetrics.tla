-------------------------- MODULE MCRequestMetrics --------------------------
(***************************************************************************)
(* The instance of RequestMetrics that TLC checks: two requests for each   *)
(* of two rows, answered in different status classes, one of them outside  *)
(* of those that HTTP defines.                                             *)
(***************************************************************************)
EXTENDS RequestMetrics

CONSTANTS r1, r2, r3, r4, ka, kb

Pairs == (r1 :> ka) @@ (r2 :> kb) @@ (r3 :> ka) @@ (r4 :> kb)
SomeAnswers == (r1 :> {<<200, 3>>}) @@ (r2 :> {<<503, 1>>})
               @@ (r3 :> {<<600, 1>>}) @@ (r4 :> {<<304, 2>>})
Symmetry == Permutations(Workers)
=============================================================================
