-------------------------- MODULE MCBadPerformers --------------------------
(***************************************************************************)
(* Three keys, two trees, two settings of the thresholds for TLC.  A tree  *)
(* has up to three bad performers and the gateway allows two.              *)
(***************************************************************************)
EXTENDS BadPerformers

MCKeys == {1, 2, 3}
MCParams == {1, 2}
MCBad == [tp \in {1, 2} \X MCParams |->
            CASE tp = <<1, 1>> -> {1, 3}
              [] tp = <<1, 2>> -> {1}
              [] tp = <<2, 1>> -> {1, 2, 3}
              [] tp = <<2, 2>> -> {2}]
MCSome == {2}
MCNone == {}
=============================================================================
