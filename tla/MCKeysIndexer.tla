--------------------------- MODULE MCKeysIndexer ---------------------------
(***************************************************************************)
(* Four validators for TLC: two of the module from the start and later, a  *)
(* foreign one between them, and a module key whose deposit the keys API   *)
(* can see only from the slot its validator appears in, which is not in    *)
(* time for an answer one slot old.                                        *)
(***************************************************************************)
EXTENDS KeysIndexer

MCNumValidators == 4
MCModuleKeys == {0, 2, 3}
MCAppears == [i \in 0..3 |-> CASE i = 0 -> 1 [] i = 1 -> 2 [] i = 2 -> 3 [] i = 3 -> 4]
MCDeposited == [i \in 0..3 |-> CASE i = 0 -> 0 [] i = 1 -> 0 [] i = 2 -> 3 [] i = 3 -> 3]
=============================================================================
