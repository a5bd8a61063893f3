-------------------------- MODULE MCRewardHistory --------------------------
(* Small instances of RewardHistory for TLC: the chunk, the large chunk    *)
(* and the retained window keep the order 16 < 64 < 128 of the code.       *)
EXTENDS RewardHistory

CONSTANTS c1, c2, cli

MCAuthored == {2, 4, 5}
=============================================================================
