---------------------------- MODULE MCExecution ----------------------------
(***************************************************************************)
(* Two tasks and three duties on a short chain for TLC.  The fee of block  *)
(* 4 is above the cap; the history is three blocks, fetched in pages of    *)
(* two.  The gas of the last duty is above the limit.                      *)
(***************************************************************************)
EXTENDS Execution

CONSTANTS rootTask, strikesTask

MCBaseFee == <<2, 1, 2, 3, 1>>
MCDuties == {1, 2, 3}
MCOwner == [d \in MCDuties |-> IF d = 1 THEN rootTask ELSE strikesTask]
MCGas == [d \in MCDuties |-> IF d = 3 THEN 10 ELSE 5]
MCRewards == {0}
MCModes == {"daemon", "cli", "dry", "nosigner"}

MCOneDuty == {1}
MCOneOwner == [d \in MCOneDuty |-> rootTask]
MCOneGas == [d \in MCOneDuty |-> 5]
=============================================================================
