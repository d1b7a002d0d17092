---------------------------- MODULE StrikesReport ----------------------------
(***************************************************************************)
(* What the bad performers task promises, without its calls, its lists and *)
(* its limits: a mark on a strikes tree.  The mark is set on a tree only   *)
(* when each bad performer of it, under the thresholds and curves it is    *)
(* marked for, is ejected or withdrawn; it moves to newer trees and never  *)
(* back; and a process that restarts has none.  BadPerformers implements   *)
(* it.                                                                     *)
(***************************************************************************)
EXTENDS Naturals

CONSTANTS NumTrees, Params, Keys, Bad

Unmarked == 0

VARIABLES
  proven,          \* keys whose ejection or withdrawal is proven
  tree, params     \* the mark: a tree, and what its keys were judged by

reportVars == <<proven, tree, params>>

Init == proven = {} /\ tree = Unmarked /\ params = Unmarked

(* What is proven stays proven. *)
Grow == proven' \in SUBSET Keys /\ proven \subseteq proven'

Prove == Grow /\ UNCHANGED <<tree, params>>

(* The last keys may be proven by the very step that sets the mark. *)
Mark ==
  /\ Grow
  /\ tree' \in 1 .. NumTrees /\ tree <= tree'
  /\ params' \in Params
  /\ Bad[tree', params'] \subseteq proven'

Forget == tree' = Unmarked /\ params' = Unmarked /\ UNCHANGED proven

Next == Prove \/ Mark \/ Forget

Spec == Init /\ [][Next]_reportVars
=============================================================================
