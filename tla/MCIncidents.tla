----------------------------- MODULE MCIncidents -----------------------------
(* Small instances of Incidents: one signal of each kind.                  *)
EXTENDS Incidents

CONSTANTS stall, disk, quiet
=============================================================================
