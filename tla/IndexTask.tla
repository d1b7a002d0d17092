------------------------------ MODULE IndexTask ------------------------------
(***************************************************************************)
(* The keys indexer as the rest of the daemon sees it: the slot its index  *)
(* is of, in memory and in the info file, and whether a run of it is under *)
(* way.  RootsWalk is composed with it; KeysIndexer, with its requests, its *)
(* two files and its half done updates, implements it.                     *)
(***************************************************************************)
EXTENDS Integers

NoIndex == 0         \* storageStateSlot of a new info file

VARIABLES
  finalized,         \* slot of the finalized block
  indexed,           \* info.data.storageStateSlot, in memory
  savedIndexed,      \* keys-indexer-info.json
  update,            \* where the running initialisation or update is suspended
  target             \* the finalized slot that run indexes

indexVars == <<indexed, savedIndexed, update, target>>

IndexInit ==
  /\ indexed = NoIndex /\ savedIndexed = NoIndex
  /\ update = "idle" /\ target = NoIndex

StartIndexing(h) ==
  /\ update' = "state" /\ target' = h
  /\ UNCHANGED <<indexed, savedIndexed>>

(* The state has been read and the keys of the new index are there.        *)
CommitIndex ==
  /\ update = "state"
  /\ indexed' = target
  /\ update' = "save"
  /\ UNCHANGED <<savedIndexed, target>>

IndexSaved ==
  /\ update = "save"
  /\ savedIndexed' = indexed
  /\ update' = "idle" /\ target' = NoIndex
  /\ UNCHANGED indexed

(* A run that throws leaves in memory what it has committed.               *)
AbandonIndexing ==
  /\ update # "idle"
  /\ update' = "idle" /\ target' = NoIndex
  /\ UNCHANGED <<indexed, savedIndexed>>

(* A restarted process has the index of the file. *)
ReadIndexBack ==
  /\ indexed' = savedIndexed
  /\ update' = "idle" /\ target' = NoIndex
  /\ UNCHANGED savedIndexed

(* One run at a time, for the finalized header of its start, and only when *)
(* the index is not of it yet.                                             *)
TaskNext ==
  \/ finalized' > finalized /\ UNCHANGED indexVars
  \/ /\ UNCHANGED finalized
     /\ \/ update = "idle" /\ indexed # finalized /\ StartIndexing(finalized)
        \/ CommitIndex \/ IndexSaved \/ AbandonIndexing \/ ReadIndexBack

TaskInit == finalized > NoIndex /\ IndexInit

TaskSpec == TaskInit /\ [][TaskNext]_<<finalized, indexVars>>
=============================================================================
