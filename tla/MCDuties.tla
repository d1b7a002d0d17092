------------------------------ MODULE MCDuties ------------------------------
(***************************************************************************)
(* A chain of a summary period and a half; the withdrawals of block 9 and  *)
(* the slashings of block 10 stay unproven long enough to become           *)
(* historical, before and after the summary of their period exists.        *)
(*                                                                         *)
(* Validator 1 is withdrawn with an increase unreported.  Validator 2 has  *)
(* a large partial withdrawal, grows, is slashed and grows again.          *)
(* Validator 3 is slashed with an increase unreported and withdrawn then,  *)
(* which is not reported.                                                  *)
(***************************************************************************)
EXTENDS Duties

MCBlocks == {8, 9, 10, 12, 13, 15, 16, 17, 18, 19, 20}

Withdrawal(s, v, a) == [slot |-> s, val |-> v, kind |-> "withdrawal", amount |-> a]
Slashing(s, v) == [slot |-> s, val |-> v, kind |-> "slashing", amount |-> 0]

MCEvents == {Withdrawal(9, 1, 2), Withdrawal(9, 2, 2), Withdrawal(9, 3, 1),
             Slashing(10, 2), Slashing(10, 3), Withdrawal(12, 3, 2)}

MCBalance == <<[b \in MCBlocks |-> IF b < 9 THEN 4 ELSE 0],
               [b \in MCBlocks |-> IF b < 9 THEN 2 ELSE IF b < 12 THEN 5 ELSE 6],
               [b \in MCBlocks |-> IF b < 9 THEN 3 ELSE IF b < 12 THEN 6 ELSE 0]>>

(* The last one names the wrong key; blocks need not be finalized yet. *)
MCCommands ==
  {[duty |-> "withdrawal", block |-> 9,  val |-> 1, key |-> 1],
   [duty |-> "balance",    block |-> 12, val |-> 2, key |-> 2],
   [duty |-> "slashing",   block |-> 10, val |-> 3, key |-> 3],
   [duty |-> "slashing",   block |-> 10, val |-> 3, key |-> 1]}

MCWithdrawable == <<4, 99, 6>>
MCExitKnown == <<8, 10, 10>>
=============================================================================
