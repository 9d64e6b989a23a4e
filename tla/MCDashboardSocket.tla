------------------------- MODULE MCDashboardSocket -------------------------
(***************************************************************************)
(* The instance of DashboardSocket that TLC checks.                        *)
(***************************************************************************)
EXTENDS DashboardSocket

=============================================================================
