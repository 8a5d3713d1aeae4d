--------------------------- MODULE MCDashboardSession ---------------------------
(***************************************************************************)
(* DashboardSession on a small instance, for TLC.                          *)
(***************************************************************************)
EXTENDS DashboardSession

=============================================================================
