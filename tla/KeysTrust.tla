----------------------------- MODULE KeysTrust -----------------------------
(***************************************************************************)
(* The freshness windows of the keys indexer                               *)
(* (src/src/daemon/services/keys-indexer.ts).                              *)
(*                                                                         *)
(* The index of validator keys is built from one finalized state, whose    *)
(* slot is `indexed` (info.data.storageStateSlot).  A block at a later     *)
(* slot may name a validator the index does not hold yet; the protocol     *)
(* delays between a validator's appearance and what it can do bound how    *)
(* far behind the index may be before a duty can miss one.                 *)
(***************************************************************************)
EXTENDS Integers

CONSTANTS
  SlashingDelay,   \* ETH1_FOLLOW_DISTANCE + EPOCHS_PER_ETH1_VOTING_PERIOD epochs, in slots
  WithdrawalDelay  \* MIN_VALIDATOR_WITHDRAWABILITY_DELAY epochs, in slots

ASSUME DelaysAreSlots == SlashingDelay \in Nat /\ WithdrawalDelay \in Nat

(* A wrong variant: strict on the wrong side. *)
Wrong_WithinDelay(indexed, slot, delay) ==
  \/ indexed >= slot
  \/ slot - indexed <= delay + 1

(* The index at slot `indexed` is at most `delay` slots behind `slot`. *)
WithinDelay(indexed, slot, delay) ==
  \/ indexed >= slot
  \/ slot - indexed <= delay

IsTrustedForSlashings(indexed, slot) ==
  WithinDelay(indexed, slot, SlashingDelay)

IsTrustedForFullWithdrawals(indexed, slot) ==
  WithinDelay(indexed, slot, WithdrawalDelay)

IsTrustedForBalanceChanges(indexed, slot) ==
  IsTrustedForFullWithdrawals(indexed, slot)

IsTrustedForAnyDuty(indexed, slot) ==
  \/ IsTrustedForBalanceChanges(indexed, slot)
  \/ IsTrustedForSlashings(indexed, slot)
  \/ IsTrustedForFullWithdrawals(indexed, slot)

IsTrustedForEveryDuty(indexed, slot) ==
  /\ IsTrustedForBalanceChanges(indexed, slot)
  /\ IsTrustedForSlashings(indexed, slot)
  /\ IsTrustedForFullWithdrawals(indexed, slot)
=============================================================================
