--------------------------- MODULE MC_ServicePlan ---------------------------
(* ServicePlan on a small instance: two milestones, two destinations of which   *)
(* one may be active.                                                           *)
EXTENDS ServicePlan

CONSTANTS vendor, host

MCDestinations == {vendor, host}
=============================================================================
