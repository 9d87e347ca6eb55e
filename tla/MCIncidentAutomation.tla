------------------------- MODULE MCIncidentAutomation -------------------------
(* IncidentAutomation on a small instance; the cfgs choose the values.     *)
EXTENDS IncidentAutomation
=============================================================================
