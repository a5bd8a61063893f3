--------------------------- MODULE MCRestartGuard ---------------------------
(* A small instance of RestartGuard: three interchangeable actions, a      *)
(* cooldown of one tick and a day of three.                                *)
EXTENDS RestartGuard, TLC

CONSTANTS a1, a2, a3

ActionSymmetry == Permutations({a1, a2, a3})
=============================================================================
