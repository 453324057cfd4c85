----------------------------- MODULE MCDashboard -----------------------------
(***************************************************************************)
(* Instances of Dashboard for TLC, with the tenants and the symmetries of  *)
(* MCConfigSync.                                                           *)
(***************************************************************************)
EXTENDS Dashboard, MCConfigSync

=============================================================================
