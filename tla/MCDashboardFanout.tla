------------------------- MODULE MCDashboardFanout -------------------------
(***************************************************************************)
(* The instances of DashboardFanout that TLC checks.                       *)
(***************************************************************************)
EXTENDS DashboardFanout

=============================================================================
