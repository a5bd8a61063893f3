------------------------------ MODULE MCRequests ------------------------------
(* A small instance of Requests: two requests with one idempotency key, one   *)
(* place for a nonce, and a job.                                              *)
EXTENDS Requests, TLC

CONSTANTS m1, m2, k1, a1, a2, j1

Interchangeable == Permutations(Messages) \cup Permutations(Asks)
=============================================================================
