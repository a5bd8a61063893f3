----------------------------- MODULE MCRelease -----------------------------
(* Three releases on one host: the active one and two the operator may     *)
(* configure either way, each activated as often as he likes.              *)
EXTENDS Release

CONSTANTS r0, r1, r2
=============================================================================
