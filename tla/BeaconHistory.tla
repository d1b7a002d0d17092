--------------------------- MODULE BeaconHistory ---------------------------
(***************************************************************************)
(* What the proofs of a block's content are made against: the block roots  *)
(* a beacon state keeps, the summaries of them that it keeps for ever, and *)
(* resolveHistoricalSummaryContext, which finds a block in the summaries.  *)
(* A block is its slot; the state of a slot is named by the slot.          *)
(***************************************************************************)
EXTENDS Integers, FiniteSets, FiniteSetsExt

CONSTANTS
  Blocks,                  \* slots of the canonical blocks
  SlotsPerEpoch,           \* SLOTS_PER_EPOCH
  SlotsPerHistoricalRoot,  \* SLOTS_PER_HISTORICAL_ROOT
  CapellaSlot,             \* CAPELLA_FORK_EPOCH, as a slot
  RootsKept                \* the roots the execution layer keeps (EIP-4788)

ASSUME HistoryConstants ==
  /\ IsFiniteSet(Blocks) /\ \A b \in Blocks : b \in Nat /\ b >= CapellaSlot
  /\ SlotsPerEpoch \in Nat \ {0}
  /\ SlotsPerHistoricalRoot \in Nat \ {0} /\ RootsKept \in Nat \ {0}
  /\ CapellaSlot \in Nat

(* Capella began where a summary does, as on the networks the tool serves. *)
ASSUME CapellaIsAligned == CapellaSlot % SlotsPerHistoricalRoot = 0

Epoch(slot) == slot \div SlotsPerEpoch

Successors(b) == {c \in Blocks : c > b}

Parent(b) == Max({c \in Blocks : c < b})

NextBlock(b) == Min(Successors(b))

IsFirstInEpoch(b) == \A p \in Blocks : p < b => Epoch(p) < Epoch(b)

(***************************************************************************)
(* The chain: block_roots of a state, and its list of summaries, which     *)
(* grows at every multiple of SlotsPerHistoricalRoot.                      *)
(***************************************************************************)
RootIndices == 0 .. SlotsPerHistoricalRoot - 1

(* The last slot before s that is written at an index. *)
WrittenAt(s, i) == s - 1 - ((s - 1 - i) % SlotsPerHistoricalRoot)

LatestBlock(slot) == Max({b \in Blocks : b <= slot} \cup {0})

BlockRoots(s) == [i \in RootIndices |-> LatestBlock(WrittenAt(s, i))]

SummaryBoundary(k) ==
  (CapellaSlot \div SlotsPerHistoricalRoot + k + 1) * SlotsPerHistoricalRoot

HasSummary(s, k) == SummaryBoundary(k) <= s

(***************************************************************************)
(* getHistoricalSummaryInfo and resolveHistoricalSummaryContext.           *)
(***************************************************************************)
SummaryIndex(target) == (target - CapellaSlot) \div SlotsPerHistoricalRoot

RootIndex(target) == target % SlotsPerHistoricalRoot

(* A summary looked for at the boundary before the block.  The Wrong       *)
(* variants are slips this code could have; nothing uses them.             *)
Wrong_SummarySlot(target) ==
  CapellaSlot + SummaryIndex(target) * SlotsPerHistoricalRoot

SummarySlot(target) ==
  CapellaSlot + (SummaryIndex(target) + 1) * SlotsPerHistoricalRoot

(* Neither BeforeCapella nor NotHistoricalYet. *)
Resolved(target, finalized) ==
  target >= CapellaSlot /\ SummarySlot(target) <= finalized

(* The local check of the proof that the state of the anchor has the root  *)
(* of the target: the roots read at the summary slot are the ones          *)
(* summarised there, and have the target at its index.                     *)
HistoricalProofHolds(target, anchor) ==
  LET k == SummaryIndex(target)
      roots == BlockRoots(SummarySlot(target)) IN
  /\ HasSummary(anchor, k)
  /\ roots = BlockRoots(SummaryBoundary(k))
  /\ roots[RootIndex(target)] = target

(* isHistoricalBlock: two epochs before the roots run out. *)
FinalizationBuffer == 2 * SlotsPerEpoch

Wrong_IsHistorical(target, recent) ==
  recent - target >= SlotsPerHistoricalRoot

IsHistorical(target, recent) ==
  recent - target >= SlotsPerHistoricalRoot - FinalizationBuffer

(* The execution layer knows the root of a block by the timestamp of the   *)
(* next one, as long as it is not overwritten.                             *)
RootIsKept(b, head) ==
  \E c \in Blocks : /\ c > b /\ c <= head /\ head - c < RootsKept
                    /\ \A d \in Blocks : d > b => c <= d
=============================================================================
