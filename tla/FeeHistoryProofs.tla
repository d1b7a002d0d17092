-------------------------- MODULE FeeHistoryProofs --------------------------
(***************************************************************************)
(* What the sort and the percentile of the fee history compute, for every  *)
(* history, of whatever length, and every percentile.                      *)
(***************************************************************************)
EXTENDS FeeHistory, Extrema, FiniteSetTheorems, SequenceTheorems

(* The positions of the fees that are no higher than f.                    *)
AtMost(fees, f) == {j \in DOMAIN fees : fees[j] <= f}

FeesOf(fees) == {fees[j] : j \in DOMAIN fees}

-----------------------------------------------------------------------------
(* The first n positions of a history are so many.                         *)
LEMMA Positions ==
  ASSUME NEW n \in Nat
  PROVE  IsFiniteSet(1 .. n) /\ Cardinality(1 .. n) = n
<1>1. /\ IsFiniteSet(1 .. n)
      /\ Cardinality(1 .. n) = IF 1 > n THEN 0 ELSE n - 1 + 1
  BY FS_Interval
<1>2. (IF 1 > n THEN 0 ELSE n - 1 + 1) = n
  OBVIOUS
<1> QED
  BY <1>1, <1>2

(* The fees of a history and their positions.                              *)
LEMMA HistoryTypes ==
  ASSUME NEW fees \in Seq(Nat)
  PROVE  /\ Len(fees) \in Nat /\ DOMAIN fees = 1 .. Len(fees)
         /\ \A j \in 1 .. Len(fees) : fees[j] \in Nat /\ fees[j] \in FeesOf(fees)
         /\ FeesOf(fees) \in SUBSET Nat
<1>1. Len(fees) \in Nat /\ DOMAIN fees = 1 .. Len(fees)
  BY LenProperties
<1>2. \A j \in 1 .. Len(fees) : fees[j] \in Nat
  BY ElementOfSeq
<1> QED
  BY <1>1, <1>2 DEF FeesOf

(* The number of fees that are no higher than another is a number up to    *)
(* their length, and grows with it.                                        *)
LEMMA AtMostCounts ==
  ASSUME NEW fees \in Seq(Nat), NEW f \in Nat
  PROVE  /\ AtMost(fees, f) \in SUBSET (1 .. Len(fees)) /\ IsFiniteSet(AtMost(fees, f))
         /\ Cardinality(AtMost(fees, f)) \in 0 .. Len(fees)
         /\ \A g \in Nat : g <= f => Cardinality(AtMost(fees, g)) <= Cardinality(AtMost(fees, f))
<1>1. AtMost(fees, f) \in SUBSET (1 .. Len(fees)) /\ Len(fees) \in Nat
  BY HistoryTypes DEF AtMost
<1>2. /\ IsFiniteSet(AtMost(fees, f)) /\ Cardinality(AtMost(fees, f)) <= Len(fees)
      /\ Cardinality(AtMost(fees, f)) \in Nat
  BY <1>1, Positions, FS_Subset, FS_CardinalityType
<1>3. ASSUME NEW g \in Nat, g <= f
      PROVE  Cardinality(AtMost(fees, g)) <= Cardinality(AtMost(fees, f))
  <2>1. AtMost(fees, g) \in SUBSET AtMost(fees, f)
    BY <1>3, HistoryTypes DEF AtMost
  <2> QED
    BY <1>2, <2>1, FS_Subset
<1> QED
  BY <1>1, <1>2, <1>3

(* Every value with a fee at or below it has a highest such fee.           *)
LEMMA FeeBelow ==
  ASSUME NEW fees \in Seq(Nat), NEW f \in Nat, AtMost(fees, f) # {}
  PROVE  \E g \in FeesOf(fees) : g <= f /\ AtMost(fees, g) = AtMost(fees, f)
<1> DEFINE Below == {h \in FeesOf(fees) : h <= f}
<1>1. Below \in SUBSET Nat /\ Below # {} /\ \A h \in Below : h <= f
  BY HistoryTypes DEF AtMost
<1>2. PICK g \in Below : \A h \in Below : g >= h
  <2> HIDE DEF Below
  <2> QED
    BY <1>1, MaxExists
<1>3. \A j \in 1 .. Len(fees) : fees[j] <= f <=> fees[j] <= g
  BY <1>1, <1>2, HistoryTypes
<1>4. AtMost(fees, g) = AtMost(fees, f)
  BY <1>3, HistoryTypes DEF AtMost
<1> QED
  BY <1>1, <1>2, <1>4

(* The highest fee has all of them at or below it.                         *)
LEMMA HighestFee ==
  ASSUME NEW fees \in Seq(Nat), Len(fees) # 0
  PROVE  \E f \in FeesOf(fees) : Cardinality(AtMost(fees, f)) = Len(fees)
<1> DEFINE n == Len(fees)
           Counts == {Cardinality(AtMost(fees, f)) : f \in FeesOf(fees)}
<1>1. n \in Nat /\ DOMAIN fees = 1 .. n /\ 1 \in 1 .. n
  BY HistoryTypes
<1>2. Counts \in SUBSET Nat /\ Counts # {} /\ \A c \in Counts : c <= n
  <2>1. \A f \in FeesOf(fees) : Cardinality(AtMost(fees, f)) \in 0 .. n
    BY HistoryTypes, AtMostCounts
  <2>2. fees[1] \in FeesOf(fees)
    BY <1>1, HistoryTypes
  <2> QED
    BY <1>1, <2>1, <2>2
<1>3. PICK c \in Counts : \A d \in Counts : c >= d
  <2> HIDE DEF Counts
  <2> QED
    BY <1>1, <1>2, MaxExists
<1>4. PICK f \in FeesOf(fees) : c = Cardinality(AtMost(fees, f))
  BY <1>3
<1>5. AtMost(fees, f) = 1 .. n
  <2> SUFFICES ASSUME NEW j \in 1 .. n, ~(fees[j] <= f) PROVE FALSE
    BY <1>1, HistoryTypes DEF AtMost
  <2>1. f \in Nat /\ fees[j] \in FeesOf(fees) /\ fees[j] \in Nat /\ f <= fees[j]
    BY HistoryTypes
  <2>2. AtMost(fees, f) \in SUBSET AtMost(fees, fees[j])
    BY <1>1, <2>1, HistoryTypes DEF AtMost
  <2>3. j \in AtMost(fees, fees[j]) /\ j \notin AtMost(fees, f)
    BY <1>1, <2>1 DEF AtMost
  <2>4. Cardinality(AtMost(fees, fees[j])) \in Counts
    BY <2>1
  <2>5. Cardinality(AtMost(fees, fees[j])) <= Cardinality(AtMost(fees, f))
    BY <1>3, <1>4, <2>4
  <2>6. /\ Cardinality(AtMost(fees, f)) <= Cardinality(AtMost(fees, fees[j]))
        /\ Cardinality(AtMost(fees, fees[j])) = Cardinality(AtMost(fees, f))
             => AtMost(fees, fees[j]) = AtMost(fees, f)
    BY <2>1, <2>2, AtMostCounts, FS_Subset
  <2>7. Cardinality(AtMost(fees, f)) \in Nat /\ Cardinality(AtMost(fees, fees[j])) \in Nat
    BY <1>1, <2>1, AtMostCounts
  <2> QED
    BY <2>3, <2>5, <2>6, <2>7
<1> QED
  BY <1>1, <1>5, Positions

(* The fee of a rank is one of the history, it has that many at or below   *)
(* it, and it is the lowest that has.                                      *)
LEMMA RankedIsLeast ==
  ASSUME NEW fees \in Seq(Nat), NEW i \in 1 .. Len(fees)
  PROVE  /\ Ranked(fees, i) \in FeesOf(fees) /\ Ranked(fees, i) \in Nat
         /\ i <= Cardinality(AtMost(fees, Ranked(fees, i)))
         /\ \A f \in FeesOf(fees) : i <= Cardinality(AtMost(fees, f)) => Ranked(fees, i) <= f
<1> DEFINE High == {f \in FeesOf(fees) : Cardinality(AtMost(fees, f)) >= i}
<1>1. Ranked(fees, i) = Min(High)
  BY DEF Ranked, FeesOf, AtMost
<1>2. Len(fees) \in Nat /\ FeesOf(fees) \in SUBSET Nat
  BY HistoryTypes
<1>3. \A f \in FeesOf(fees) : Cardinality(AtMost(fees, f)) \in Nat
  BY <1>2, AtMostCounts
<1>4. PICK f \in FeesOf(fees) : Cardinality(AtMost(fees, f)) = Len(fees)
  BY <1>2, HighestFee
<1>5. High \in SUBSET Nat /\ f \in High
  BY <1>2, <1>4
<1>6. Min(High) \in High /\ \A g \in High : Min(High) <= g
  <2> HIDE DEF High
  <2> QED
    BY <1>5, MinExists
<1> QED
  BY <1>1, <1>2, <1>3, <1>6

-----------------------------------------------------------------------------
(* Sorting keeps the number of fees. *)
LEMMA SortedTypes ==
  ASSUME NEW fees \in Seq(Nat)
  PROVE  SortedHistory(fees) \in Seq(Nat) /\ Len(SortedHistory(fees)) = Len(fees)
<1>1. Len(fees) \in Nat
  BY LenProperties
<1>2. SortedHistory(fees) \in [1 .. Len(fees) -> Nat]
  BY RankedIsLeast DEF SortedHistory
<1> QED
  BY <1>1, <1>2

(* The sorted history ascends, and up to each fee it holds as many as the  *)
(* history: it is the same fees in another order.  That is all that a      *)
(* refresh, which sorts the cache it shares in place, may change in it.    *)
THEOREM SortingOrders ==
  ASSUME NEW fees \in Seq(Nat)
  PROVE  LET sorted == SortedHistory(fees)
         IN  /\ \A i, j \in 1 .. Len(fees) : i <= j => sorted[i] <= sorted[j]
             /\ \A f \in Nat : Cardinality(AtMost(sorted, f)) = Cardinality(AtMost(fees, f))
             /\ FeesOf(sorted) = FeesOf(fees)
<1> DEFINE sorted == SortedHistory(fees)
           n == Len(fees)
<1>1. n \in Nat /\ FeesOf(fees) \in SUBSET Nat
  BY HistoryTypes
<1>2. DOMAIN sorted = 1 .. n /\ \A i \in 1 .. n : sorted[i] = Ranked(fees, i)
  BY DEF SortedHistory
<1> HIDE DEF sorted
<1>3. ASSUME NEW i \in 1 .. n
      PROVE  /\ sorted[i] \in FeesOf(fees) /\ sorted[i] \in Nat
             /\ i <= Cardinality(AtMost(fees, sorted[i]))
             /\ Cardinality(AtMost(fees, sorted[i])) \in 0 .. n
             /\ \A f \in FeesOf(fees) : i <= Cardinality(AtMost(fees, f)) => sorted[i] <= f
  <2>1. Ranked(fees, i) \in Nat /\ sorted[i] = Ranked(fees, i)
    BY <1>2, RankedIsLeast
  <2>2. Cardinality(AtMost(fees, Ranked(fees, i))) \in 0 .. n
    BY <2>1, AtMostCounts
  <2> QED
    BY <2>1, <2>2, RankedIsLeast
<1>4. \A f \in Nat : Cardinality(AtMost(fees, f)) \in 0 .. n
  BY AtMostCounts
<1>5. ASSUME NEW i \in 1 .. n, NEW j \in 1 .. n, i <= j
      PROVE  sorted[i] <= sorted[j]
  <2>1. i <= Cardinality(AtMost(fees, sorted[j]))
    BY <1>1, <1>3, <1>5
  <2> QED
    BY <1>3, <2>1
<1>6. ASSUME NEW f \in Nat
      PROVE  AtMost(sorted, f) = 1 .. Cardinality(AtMost(fees, f))
  <2> DEFINE c == Cardinality(AtMost(fees, f))
  <2>1. c \in 0 .. n /\ f \in Nat
    BY <1>4
  <2>2. ASSUME NEW i \in 1 .. n, sorted[i] <= f PROVE i <= c
    <3>1. Cardinality(AtMost(fees, sorted[i])) <= c
      BY <1>3, <2>1, <2>2, AtMostCounts
    <3>2. i <= Cardinality(AtMost(fees, sorted[i]))
          /\ Cardinality(AtMost(fees, sorted[i])) \in Nat
      BY <1>1, <1>3
    <3> QED
      BY <1>1, <2>1, <3>1, <3>2
  <2>3. ASSUME NEW i \in 1 .. n, i <= c PROVE sorted[i] <= f
    <3>1. AtMost(fees, f) # {}
      <4>1. c # 0
        BY <1>1, <2>1, <2>3
      <4> QED
        BY <4>1, FS_EmptySet
    <3>2. PICK g \in FeesOf(fees) : g <= f /\ AtMost(fees, g) = AtMost(fees, f)
      BY <3>1, FeeBelow
    <3>3. sorted[i] <= g /\ g \in Nat
      BY <1>1, <1>3, <2>3, <3>2
    <3> QED
      BY <1>3, <3>2, <3>3
  <2> HIDE DEF c
  <2>4. AtMost(sorted, f) = {i \in 1 .. n : i <= c}
    BY <1>2, <2>2, <2>3 DEF AtMost
  <2>5. {i \in 1 .. n : i <= c} = 1 .. c
    BY <1>1, <2>1
  <2> QED
    BY <2>4, <2>5 DEF c
<1>7. \A f \in Nat : Cardinality(AtMost(sorted, f)) = Cardinality(AtMost(fees, f))
  BY <1>4, <1>6, Positions
<1>8. FeesOf(sorted) = FeesOf(fees)
  <2>1. FeesOf(sorted) \subseteq FeesOf(fees)
    BY <1>2, <1>3 DEF FeesOf
  <2>2. ASSUME NEW f \in FeesOf(fees) PROVE f \in FeesOf(sorted)
    <3> DEFINE c == Cardinality(AtMost(fees, f))
    <3>1. c \in 0 .. n /\ f \in Nat /\ \E j \in 1 .. n : j \in AtMost(fees, f)
      <4>1. PICK j \in 1 .. n : fees[j] = f
        BY <2>2, HistoryTypes DEF FeesOf
      <4>2. f \in Nat
        BY <1>1
      <4>3. j \in AtMost(fees, f)
        BY <4>1, <4>2, HistoryTypes DEF AtMost
      <4> QED
        BY <1>4, <4>2, <4>3
    <3>2. c # 0
      BY <3>1, AtMostCounts, FS_EmptySet
    <3>3. c \in 1 .. n
      BY <1>1, <3>1, <3>2
    <3>4. sorted[c] <= f /\ sorted[c] \in FeesOf(fees) /\ sorted[c] \in Nat
          /\ c <= Cardinality(AtMost(fees, sorted[c]))
      BY <1>1, <1>3, <3>3
    <3>5. sorted[c] = f
      <4> SUFFICES ASSUME sorted[c] < f PROVE FALSE
        BY <3>1, <3>4
      <4>1. AtMost(fees, sorted[c]) \in SUBSET AtMost(fees, f)
        BY <3>1, <3>4, HistoryTypes DEF AtMost
      <4>2. PICK j \in 1 .. n : fees[j] = f
        BY <2>2, HistoryTypes DEF FeesOf
      <4>3. j \in AtMost(fees, f) /\ j \notin AtMost(fees, sorted[c])
        BY <3>1, <3>4, <4>2, HistoryTypes DEF AtMost
      <4>4. /\ Cardinality(AtMost(fees, sorted[c])) <= c
            /\ c = Cardinality(AtMost(fees, sorted[c]))
                 => AtMost(fees, f) = AtMost(fees, sorted[c])
        BY <3>1, <4>1, AtMostCounts, FS_Subset
      <4>5. Cardinality(AtMost(fees, sorted[c])) \in Nat /\ c \in Nat
        <5>1. Cardinality(AtMost(fees, sorted[c])) \in 0 .. n
          BY <1>3, <3>3
        <5>2. \A k \in 0 .. n : k \in Nat
          BY <1>1
        <5> QED
          BY <3>1, <5>1, <5>2
      <4> QED
        BY <3>4, <4>3, <4>4, <4>5
    <3> QED
      BY <1>2, <3>3, <3>5 DEF FeesOf
  <2> QED
    BY <2>1, <2>2
<1> QED
  BY <1>5, <1>7, <1>8 DEF sorted

-----------------------------------------------------------------------------
(* A share of a number, in hundredths, and the whole below it.             *)
LEMMA WholeBelow ==
  ASSUME NEW m \in Nat, NEW p \in 0 .. 100
  PROVE  LET at == p * m
             lower == at \div 100
         IN  /\ at \in Nat /\ lower \in 0 .. m /\ at % 100 \in 0 .. 99
             /\ at = 100 * lower + (at % 100)
             /\ at % 100 # 0 => lower + 1 \in 0 .. m
<1> DEFINE at == p * m
<1>1. at \in Nat /\ at <= 100 * m
  <2>1. \A q \in Nat : q * m \in Nat
    OBVIOUS
  <2>2. p \in Nat /\ 100 - p \in Nat /\ (100 - p) * m = 100 * m - p * m
    OBVIOUS
  <2>3. (100 - p) * m \in Nat
    BY <2>1, <2>2
  <2> QED
    BY <2>1, <2>2, <2>3
<1> HIDE DEF at
<1>2. /\ at \div 100 \in Nat /\ at % 100 \in 0 .. 99
      /\ at = 100 * (at \div 100) + (at % 100)
  BY <1>1
<1> QED
  BY <1>1, <1>2 DEF at

(* The recommended fee, the percentile of the sorted history, is not below *)
(* the fees the percentage stands for and not above the rest: the blocks   *)
(* at or under it are more than the share of the Len - 1 steps from the    *)
(* lowest to the highest, the blocks under it fewer than that share and    *)
(* one.  It lies between two fees of the history, and never beyond them.   *)
THEOREM PercentileOfHistory ==
  ASSUME NEW fees \in Seq(Nat), Len(fees) # 0
  PROVE  LET fee == Percentile(SortedHistory(fees))
             share == Percent * (Len(fees) - 1)
         IN  /\ fee \in Nat
             /\ \E low, high \in FeesOf(fees) : low <= fee /\ fee <= high
             /\ 100 * Cardinality(AtMost(fees, fee)) > share
             /\ \A f \in Nat : f < fee => 100 * Cardinality(AtMost(fees, f)) < share + 100
<1> DEFINE sorted == SortedHistory(fees)
           n == Len(fees)
           at == Percent * (n - 1)
           lower == at \div 100
           fee == Percentile(sorted)
<1>1. n \in Nat /\ n - 1 \in Nat /\ Percent \in 0 .. 100
  BY HistoryTypes, HistoryConstants
<1>2. sorted \in Seq(Nat) /\ Len(sorted) = n /\ \A i \in 1 .. n : sorted[i] \in Nat
  BY SortedTypes, HistoryTypes
<1>3. /\ \A i, j \in 1 .. n : i <= j => sorted[i] <= sorted[j]
      /\ \A f \in Nat : Cardinality(AtMost(sorted, f)) = Cardinality(AtMost(fees, f))
      /\ FeesOf(sorted) = FeesOf(fees)
  BY SortingOrders
<1>4. /\ at \in Nat /\ lower \in 0 .. (n - 1) /\ at % 100 \in 0 .. 99
      /\ at = 100 * lower + (at % 100)
      /\ at % 100 # 0 => lower + 1 \in 0 .. (n - 1)
  BY <1>1, WholeBelow
<1>5. fee = IF at % 100 = 0 THEN sorted[lower + 1]
            ELSE (sorted[lower + 1] + sorted[lower + 2]) \div 2
  BY <1>2 DEF Percentile
<1> HIDE DEF sorted, n, lower, fee
<1> DEFINE upper == IF at % 100 = 0 THEN lower ELSE lower + 1
<1>6. /\ lower + 1 \in 1 .. n /\ upper + 1 \in 1 .. n /\ lower + 1 <= upper + 1
      /\ 100 * (lower + 1) > at /\ 100 * upper < at + 100
  <2> HIDE DEF at
  <2>1. lower \in Nat /\ at % 100 \in Nat /\ at % 100 < 100
    BY <1>1, <1>4
  <2>2. CASE at % 100 = 0
    BY <1>1, <1>4, <2>1, <2>2
  <2>3. CASE at % 100 # 0
    BY <1>1, <1>4, <2>1, <2>3
  <2> QED
    BY <2>2, <2>3
<1>7. fee \in Nat /\ sorted[lower + 1] <= fee /\ fee <= sorted[upper + 1]
  <2>1. /\ sorted[lower + 1] \in Nat /\ sorted[upper + 1] \in Nat
        /\ sorted[lower + 1] <= sorted[upper + 1]
    <3> HIDE DEF at, upper
    <3> QED
      BY <1>2, <1>3, <1>6
  <2>2. \/ fee = sorted[lower + 1] /\ upper = lower
        \/ fee = (sorted[lower + 1] + sorted[upper + 1]) \div 2
    <3>1. lower + 2 = (lower + 1) + 1
      BY <1>4
    <3> QED
      BY <1>5, <3>1
  <2>3. \A a, b \in Nat : a <= b =>
          (a + b) \div 2 \in Nat /\ a <= (a + b) \div 2 /\ (a + b) \div 2 <= b
    OBVIOUS
  <2> HIDE DEF upper
  <2> QED
    BY <2>1, <2>2, <2>3
<1> HIDE DEF at, upper
<1>8. \E low, high \in FeesOf(fees) : low <= fee /\ fee <= high
  BY <1>2, <1>3, <1>6, <1>7, HistoryTypes
<1>9. 100 * Cardinality(AtMost(fees, fee)) > at
  <2>1. 1 .. (lower + 1) \in SUBSET AtMost(sorted, fee)
    <3> SUFFICES ASSUME NEW i \in 1 .. (lower + 1)
                 PROVE  i \in 1 .. n /\ sorted[i] <= fee
      BY <1>2, HistoryTypes DEF AtMost
    <3>1. i \in 1 .. n /\ i <= lower + 1
      BY <1>1, <1>6
    <3>2. sorted[i] <= sorted[lower + 1] /\ sorted[i] \in Nat /\ sorted[lower + 1] \in Nat
      BY <1>2, <1>3, <1>6, <3>1
    <3> QED
      BY <1>7, <3>1, <3>2
  <2>2. lower + 1 <= Cardinality(AtMost(sorted, fee))
    <3>1. lower + 1 \in Nat
      BY <1>4
    <3>2. Cardinality(1 .. (lower + 1)) = lower + 1
      BY <3>1, Positions
    <3>3. fee \in Nat
      BY <1>7
    <3>4. IsFiniteSet(AtMost(sorted, fee))
      BY <1>2, <3>3, AtMostCounts
    <3> DEFINE Low == 1 .. (lower + 1)
    <3> HIDE DEF Low
    <3>5. Cardinality(Low) <= Cardinality(AtMost(sorted, fee))
      BY <2>1, <3>4, FS_Subset DEF Low
    <3> QED
      BY <3>2, <3>5 DEF Low
  <2>3. Cardinality(AtMost(sorted, fee)) \in 0 .. n
    <3>1. fee \in Nat
      BY <1>7
    <3> QED
      BY <1>2, <3>1, AtMostCounts
  <2>4. Cardinality(AtMost(fees, fee)) = Cardinality(AtMost(sorted, fee))
    BY <1>3, <1>7
  <2>5. \A c \in Nat : lower + 1 <= c => 100 * c > at
    BY <1>4, <1>6
  <2>6. Cardinality(AtMost(sorted, fee)) \in Nat
    BY <1>1, <2>3
  <2> QED
    BY <2>2, <2>4, <2>5, <2>6
<1>10. ASSUME NEW f \in Nat, f < fee
       PROVE  100 * Cardinality(AtMost(fees, f)) < at + 100
  <2>1. upper \in Nat
    BY <1>4 DEF upper
  <2>2. AtMost(sorted, f) \in SUBSET (1 .. upper)
    <3> SUFFICES ASSUME NEW i \in 1 .. n, sorted[i] <= f
                 PROVE  i <= upper
      BY <1>1, <1>2, <2>1, HistoryTypes DEF AtMost
    <3> SUFFICES ASSUME upper + 1 <= i PROVE FALSE
      BY <1>1, <2>1
    <3>1. sorted[upper + 1] <= sorted[i] /\ sorted[i] \in Nat /\ sorted[upper + 1] \in Nat
      BY <1>2, <1>3, <1>6
    <3> QED
      BY <1>7, <1>10, <3>1
  <2>3. Cardinality(AtMost(sorted, f)) <= upper
    BY <2>1, <2>2, Positions, FS_Subset
  <2>4. Cardinality(AtMost(sorted, f)) \in 0 .. n
    BY <1>2, AtMostCounts
  <2>5. Cardinality(AtMost(fees, f)) = Cardinality(AtMost(sorted, f))
    BY <1>3
  <2> QED
    BY <1>1, <1>4, <1>6, <2>1, <2>3, <2>4, <2>5
<1> QED
  BY <1>7, <1>8, <1>9, <1>10 DEF fee, at, n, sorted
=============================================================================
