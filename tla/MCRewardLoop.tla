---------------------------- MODULE MCRewardLoop ----------------------------
(* Limits for RewardLoop, as init_class sets them (what a bucket holds is  *)
(* what a second adds, two ticks here): one request a second, and 1.5      *)
(* seconds' tokens for an item, more than the bucket holds, as with the    *)
(* numbers of its docstring (2000 tokens an item, 1667 a second).          *)
EXTENDS RewardLoop
Holds == [b \in Buckets |-> 2]
Takes == [b \in Buckets |-> IF b = "rpm" THEN 2 ELSE 3]
=============================================================================
