---------------------------- MODULE MCActionQueue ----------------------------
(* Small instances of ActionQueue: a manual restart, an acknowledgement *)
(* and an incident.                                                        *)
EXTENDS ActionQueue

CONSTANTS m1, g1, i1
=============================================================================
