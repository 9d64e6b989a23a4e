------------------------- MODULE MCReadThroughCache -------------------------
(***************************************************************************)
(* The instances of ReadThroughCache that TLC checks.                      *)
(***************************************************************************)
EXTENDS ReadThroughCache, TLC

\* Lookup slots differ in nothing but their name.
SlotSymmetry == Permutations(Slots)

=============================================================================
