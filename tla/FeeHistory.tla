----------------------------- MODULE FeeHistory -----------------------------
(***************************************************************************)
(* The base fee history of the class Execution: which blocks a refresh     *)
(* reads, how the cache is renewed, and the percentile that recommends a   *)
(* fee.  The cache is shared by every transaction the process prepares.    *)
(***************************************************************************)
EXTENDS Integers, Sequences, FiniteSetsExt

CONSTANTS
  BaseFee,         \* the base fee of each block of the chain
  HistorySize,     \* TX_GAS_FEE_HISTORY_DAYS, in blocks
  RefreshDelay,    \* maxBlocksPerHour
  PageSize,        \* MAX_BLOCKCOUNT
  Percent          \* TX_GAS_FEE_HISTORY_PERCENTILE

ASSUME HistoryConstants ==
  /\ BaseFee \in Seq(Nat) /\ BaseFee # <<>>
  /\ HistorySize \in Nat \ {0} /\ RefreshDelay \in Nat \ {0}
  /\ PageSize \in Nat \ {0} /\ Percent \in 0..100

VARIABLES
  cache,           \* gasFeeHistoryCache
  lastFee          \* lastFeeHistoryBlockNumber

historyVars == <<cache, lastFee>>

HistoryInit == cache = <<>> /\ lastFee = 0

(* The blocks of a refresh, the oldest first.  Each page starts one block   *)
(* later than it should: it ends with the first block of the page after it. *)
Fetched(latest, total) ==
  [i \in 1 .. total |->
     LET back == total - i IN BaseFee[latest - back + back \div PageSize]]

IsStale(latest) == latest - lastFee >= RefreshDelay

(* How many blocks a refresh asks for. *)
Missing(latest) ==
  LET delay == latest - lastFee IN IF delay < HistorySize THEN delay ELSE HistorySize

Wrong_Renewed(new) == cache \o new

(* As many of the first fees as arrive are dropped. *)
Renewed(new) ==
  IF Len(cache) > Len(new)
  THEN SubSeq(cache, Len(new) + 1, Len(cache)) \o new
  ELSE new

(* percentile of a sorted sequence. *)
Percentile(fees) ==
  LET at == Percent * (Len(fees) - 1)
      lower == at \div 100
  IN  IF at % 100 = 0 THEN fees[lower + 1]
      ELSE (fees[lower + 1] + fees[lower + 2]) \div 2

(* The i-th fee in ascending order. *)
Ranked(fees, i) ==
  Min({f \in {fees[j] : j \in DOMAIN fees} :
         Cardinality({j \in DOMAIN fees : fees[j] <= f}) >= i})

SortedHistory(fees) == [i \in 1 .. Len(fees) |-> Ranked(fees, i)]

(* updateGasFeeHistoryCache after its last await, and percentile, which    *)
(* sorts the cache in place.                                               *)
Refresh(latest, missing) ==
  /\ cache' = SortedHistory(Renewed(Fetched(latest, missing)))
  /\ lastFee' = latest

-----------------------------------------------------------------------------
(* However many refreshes overlap, the cache is within its configured size. *)
HistoryIsBounded == Len(cache) <= HistorySize

(* README, TX_GAS_FEE_HISTORY_DAYS: "Days of base fee history used for gas *)
(* acceptance check": the cache is the fees of the days before the block   *)
(* it was last refreshed at.                                               *)
HistoryIsRecent ==
  cache # <<>> =>
    cache = SortedHistory(SubSeq(BaseFee, lastFee - HistorySize + 1, lastFee))
=============================================================================
