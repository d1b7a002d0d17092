----------------------------- MODULE RootsStack -----------------------------
(***************************************************************************)
(* The persistent stack of block roots that still owe a duty, and the      *)
(* position of the walk (src/src/daemon/services/roots-stack.ts).          *)
(*                                                                         *)
(* A finalized root is named by its slot: one canonical block per slot.    *)
(* The two lowdb files are the saved* variables; each operation changes    *)
(* the in-memory copy first and writes the whole file afterwards, and the  *)
(* process may stop, or the write may fail, in between.  The file write    *)
(* itself is atomic (lowdb writes a temporary file and renames it).        *)
(***************************************************************************)
EXTENDS KeysTrust

CONSTANT
  Blocks           \* slots of the canonical chain that hold a block

ASSUME BlocksAreSlots == Blocks \subseteq Nat \ {0}

None == 0          \* `undefined`: no slot below is a block's

VARIABLES
  stack,           \* storage.data: the roots on the stack, in memory
  savedStack,      \* roots-stack-storage.json
  last,            \* info.data.lastProcessedRootSlot, in memory
  savedLast        \* roots-stack-info.json

stackVars == <<stack, savedStack, last, savedLast>>

StackTypeOK ==
  /\ stack \subseteq Blocks
  /\ savedStack \subseteq Blocks
  /\ last \in Blocks \cup {None}
  /\ savedLast \in Blocks \cup {None}

StackInit ==
  /\ stack = {} /\ savedStack = {}
  /\ last = None /\ savedLast = None

(* getNextEligible returns r: the lowest stacked slot trusted for any duty. *)
IsNextEligible(r, indexed) ==
  /\ r \in stack
  /\ IsTrustedForAnyDuty(indexed, r)
  /\ \A q \in stack : IsTrustedForAnyDuty(indexed, q) => r <= q

NoneEligible(indexed) ==
  \A q \in stack : ~IsTrustedForAnyDuty(indexed, q)

(* Wrong variants: purge keeps the root; push forgets to await the write. *)
Wrong_PurgeInMemory(r) == UNCHANGED stackVars
Wrong_WriteStorage == UNCHANGED stackVars

(* push and purge, up to their await: the change in memory. *)
PushInMemory(r) ==
  /\ stack' = stack \cup {r}
  /\ UNCHANGED <<savedStack, last, savedLast>>

PurgeInMemory(r) ==
  /\ stack' = stack \ {r}
  /\ UNCHANGED <<savedStack, last, savedLast>>

(* this.storage.write() succeeds: the file now holds the whole map. *)
WriteStorage ==
  /\ savedStack' = stack
  /\ UNCHANGED <<stack, last, savedLast>>

(* setLastProcessed, up to its await, and the write it awaits. *)
SetLastInMemory(r) ==
  /\ last' = r
  /\ UNCHANGED <<stack, savedStack, savedLast>>

WriteInfo ==
  /\ savedLast' = last
  /\ UNCHANGED <<stack, savedStack, last>>

(* initOrReadServiceData of a restarted process. *)
ReadBack ==
  /\ stack' = savedStack
  /\ last' = savedLast
  /\ UNCHANGED <<savedStack, savedLast>>
=============================================================================
