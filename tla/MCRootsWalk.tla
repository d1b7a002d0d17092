---------------------------- MODULE MCRootsWalk ----------------------------
(***************************************************************************)
(* A small chain for TLC.  With SlashingDelay = 1 and WithdrawalDelay = 3  *)
(* an index at slot 1 is trusted for withdrawals only in block 4 and for   *)
(* nothing in block 5, an index at slot 2 for withdrawals only in both, an *)
(* index at slot 4 for everything.  v2 appears at slot 2 and v3 at slot 3, *)
(* which is empty: an index at slot 1 misses both, one at slot 2 misses v3 *)
(* whose slashing in block 4 is as early as the protocol allows.           *)
(***************************************************************************)
EXTENDS RootsWalk, TLC

CONSTANTS v1, v2, v3

MCBlocks == {1, 2, 4, 5}
MCValidators == {v1, v2, v3}
MCAppears == (v1 :> 0) @@ (v2 :> 2) @@ (v3 :> 3)
MCEvents == {[slot |-> 2, kind |-> "slashing",   val |-> v1],
             [slot |-> 4, kind |-> "balance",    val |-> v1],
             [slot |-> 4, kind |-> "slashing",   val |-> v3],
             [slot |-> 5, kind |-> "withdrawal", val |-> v2]}
=============================================================================
