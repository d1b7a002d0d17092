----------------------------- MODULE RootDuties -----------------------------
(***************************************************************************)
(* The processing of a root as the walk and the duties agree on it: three  *)
(* handlers called one after the other, each of which returns only when    *)
(* all it has to report of the root is reported, and a root that counts as *)
(* done only after the last of them.  Whatever throws ends the processing  *)
(* and leaves the root to be tried again.                                  *)
(*                                                                         *)
(* RootsWalk, where a handler is one step, and Duties, where it is a call  *)
(* with its requests, workers and transactions, both implement it.         *)
(***************************************************************************)
CONSTANT Roots

NoRoot == 0

VARIABLES
  step,            \* the handler that runs; "over" after the last one
  cur,             \* the root in processing
  done,            \* roots whose processing came to its end
  reported,        \* what is reported, by this process or by others
  due              \* what a handler has to report of a root, at present

handlingVars == <<step, cur, done, reported>>

Init == step = "idle" /\ cur = NoRoot /\ done = {}

Served(kind) == due[cur][kind] \subseteq reported'

Start ==
  /\ step = "idle" /\ step' = "slashing"
  /\ cur' \in Roots
  /\ UNCHANGED done

Return(handler, next) ==
  /\ step = handler /\ step' = next
  /\ Served(handler)
  /\ UNCHANGED <<cur, done>>

(* The balances are handled for some of the roots only: where none is due. *)
AllServed ==
  \/ step = "over"
  \/ step = "balance" /\ Served("balance")
  \/ step = "withdrawal" /\ Served("withdrawal") /\ Served("balance")

Over == AllServed /\ step' = "over" /\ UNCHANGED <<cur, done>>

Complete ==
  /\ AllServed
  /\ done' = done \cup {cur}
  /\ step' = "idle" /\ cur' = NoRoot

Abandon ==
  /\ step # "idle"
  /\ step' = "idle" /\ cur' = NoRoot
  /\ UNCHANGED done

Next ==
  /\ reported \subseteq reported'
  /\ \/ Start \/ Return("slashing", "withdrawal") \/ Return("withdrawal", "balance")
     \/ Over \/ Complete \/ Abandon
     \/ UNCHANGED <<step, cur, done>>

Spec == Init /\ [][Next]_handlingVars
=============================================================================
