--------------------------- MODULE MCPolicyCache ---------------------------
(***************************************************************************)
(* The instances of PolicyCache that TLC checks.                           *)
(***************************************************************************)
EXTENDS PolicyCache, TLC

\* Updates and keys differ in nothing but their name.
AdminSymmetry == Permutations(Admins)

=============================================================================
