----------------------------- MODULE MCRequests -----------------------------
(***************************************************************************)
(* The root in processing and an index update, which need the same state,  *)
(* two nodes, and a cache of one item, for TLC.                            *)
(***************************************************************************)
EXTENDS Requests, TLC

CONSTANTS root, update

MCFixed == {"state"}
MCDynamic == {"finalized"}
MCChildren == {"children"}
MCNeeds == (root :> {"state", "finalized", "children"}) @@ (update :> {"state"})
=============================================================================
