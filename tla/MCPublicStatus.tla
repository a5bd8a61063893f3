--------------------------- MODULE MCPublicStatus ---------------------------
(* Small instances of PublicStatus.                                        *)
EXTENDS PublicStatus, TLC

CONSTANTS a, b, HoldInactive, HoldLag, HoldOther

HoldOf ==
  [c \in Timed |->
     CASE c = "service-inactive" -> HoldInactive
       [] c \in {"sync-lag-critical", "sync-lag-warning"} -> HoldLag
       [] OTHER -> HoldOther]

\* The endpoints are treated alike.
Symmetry == Permutations(Endpoints)
=============================================================================
