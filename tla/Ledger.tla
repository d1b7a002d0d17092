------------------------------- MODULE Ledger -------------------------------
(***************************************************************************)
(* What the roots stack promises, without the loop, the caches and the     *)
(* duties: a book of roots.  It is opened at a root; from then on it names *)
(* a position, and every root from the opening up to the position is kept  *)
(* in the book until nothing is owed for it.  The book never forgets, no   *)
(* matter where the one who writes it stops.  RootsWalk implements it with *)
(* its two files.                                                          *)
(***************************************************************************)
EXTENDS Naturals

CONSTANT Blocks

NoBlock == 0

VARIABLES
  origin,          \* the root the book was opened at
  position,        \* the root it has come to
  kept,            \* roots in the book
  closed           \* roots for which nothing is owed

ledgerVars == <<origin, position, kept, closed>>

Init ==
  /\ origin = NoBlock /\ position = NoBlock
  /\ kept = {}
  /\ closed \in SUBSET Blocks

(* Only a book without a position can be opened again. *)
MayOpen == position = NoBlock /\ origin' \in Blocks

Open == MayOpen /\ UNCHANGED <<position, kept, closed>>

Close ==
  /\ closed' \in SUBSET Blocks /\ closed \subseteq closed'
  /\ UNCHANGED <<origin, position, kept>>

(* A root leaves the book only when it is closed. *)
Rewrite ==
  /\ kept' \in SUBSET Blocks /\ kept \ kept' \subseteq closed
  /\ MayOpen \/ UNCHANGED origin
  /\ UNCHANGED <<position, closed>>

(* The position is moved, forwards or back, over what is accounted for. *)
Move ==
  /\ position' \in Blocks \cup {NoBlock}
  /\ \A b \in Blocks : origin <= b /\ b <= position' => b \in kept \cup closed
  /\ UNCHANGED <<origin, kept, closed>>

Next == Open \/ Close \/ Rewrite \/ Move

Spec == Init /\ [][Next]_ledgerVars

=============================================================================
