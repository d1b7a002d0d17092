-------------------------- MODULE ExecutionProofs --------------------------
(***************************************************************************)
(* Proofs about Execution, for any number of tasks and duties, any base    *)
(* fees, any length of the fee history and any number of faults.           *)
(***************************************************************************)
EXTENDS Execution, FeeHistoryProofs

-----------------------------------------------------------------------------
(***************************************************************************)
(* The fee history.                                                        *)
(***************************************************************************)
(* The sorts of the constants. *)
LEMMA Sorts ==
  /\ HistorySize \in Nat \ {0} /\ RefreshDelay \in Nat \ {0}
  /\ PageSize \in Nat \ {0} /\ Confirmations \in Nat \ {0}
  /\ MaxRetries \in Nat /\ MaxFaults \in Nat
  /\ LastBlock \in Nat /\ Len(BaseFee) = LastBlock + 1
  /\ FirstBlock \in Nat \ {0} /\ FirstBlock <= LastBlock
  /\ HistorySize <= FirstBlock
  /\ \A b \in 1 .. LastBlock + 1 : BaseFee[b] \in Nat
<1>1. BaseFee \in Seq(Nat) /\ BaseFee # <<>>
  BY HistoryConstants
<1>2. Len(BaseFee) \in Nat \ {0}
  BY <1>1, EmptySeq
<1>3. Len(BaseFee) = LastBlock + 1 /\ LastBlock \in Nat
  BY <1>2 DEF LastBlock
<1>4. \A b \in 1 .. LastBlock + 1 : BaseFee[b] \in Nat
  BY <1>1, <1>3, ElementOfSeq
<1> QED
  BY <1>3, <1>4, HistoryConstants, ExecutionConstants

(* A quotient of natural numbers is not above the dividend. *)
LEMMA Quotient ==
  ASSUME NEW n \in Nat, NEW p \in Nat \ {0}
  PROVE  n \div p \in 0 .. n
  OBVIOUS

(* The blocks of a refresh are blocks of the chain. *)
LEMMA FetchedTypes ==
  ASSUME NEW latest \in FirstBlock .. LastBlock, NEW total \in 0 .. HistorySize
  PROVE  Fetched(latest, total) \in Seq(Nat) /\ Len(Fetched(latest, total)) = total
<1>1. ASSUME NEW i \in 1 .. total
      PROVE  BaseFee[latest - (total - i) + (total - i) \div PageSize] \in Nat
  <2> DEFINE back == total - i
             page == back \div PageSize
  <2>1. HistorySize \in Nat /\ PageSize \in Nat \ {0}
    BY Sorts
  <2>2. back \in Nat /\ back < HistorySize
    BY <2>1
  <2> HIDE DEF back
  <2>3. page \in 0 .. back
    BY <2>1, <2>2, Quotient
  <2> HIDE DEF page
  <2>4. latest - back + page \in 1 .. LastBlock + 1
    BY <2>2, <2>3, Sorts
  <2>5. BaseFee[latest - back + page] \in Nat
    BY <2>4, Sorts
  <2> QED
    BY <2>5 DEF back, page
<1>2. Fetched(latest, total) \in [1 .. total -> Nat]
  BY <1>1 DEF Fetched
<1> QED
  BY <1>2, Sorts

(* What is renewed is as long as the cache, or as what arrived. *)
LEMMA RenewedTypes ==
  ASSUME NEW new \in Seq(Nat), cache \in Seq(Nat)
  PROVE  /\ Renewed(new) \in Seq(Nat)
         /\ Len(Renewed(new)) = IF Len(cache) > Len(new) THEN Len(cache) ELSE Len(new)
<1> DEFINE kept == SubSeq(cache, Len(new) + 1, Len(cache))
<1>1. Len(new) \in Nat /\ Len(cache) \in Nat
  BY LenProperties
<1>2. \A i \in Len(new) + 1 .. Len(cache) : cache[i] \in Nat
  BY <1>1, ElementOfSeq
<1>3. CASE Len(cache) > Len(new)
  <2>1. kept \in Seq(Nat) /\ Len(kept) = Len(cache) - Len(new)
    BY <1>1, <1>2, <1>3, SubSeqProperties
  <2> HIDE DEF kept
  <2>2. kept \o new \in Seq(Nat) /\ Len(kept \o new) = Len(kept) + Len(new)
    BY <2>1, ConcatProperties
  <2>3. Renewed(new) = kept \o new
    BY <1>3 DEF Renewed, kept
  <2> QED
    BY <1>1, <1>3, <2>1, <2>2, <2>3
<1>4. CASE ~(Len(cache) > Len(new))
  BY <1>4 DEF Renewed
<1> QED
  BY <1>3, <1>4

(* A refresh keeps the cache within its configured size. *)
LEMMA RefreshTypes ==
  ASSUME NEW latest \in FirstBlock .. LastBlock, NEW missing \in 0 .. HistorySize,
         cache \in Seq(Nat), HistoryIsBounded, Refresh(latest, missing)
  PROVE  cache' \in Seq(Nat) /\ HistoryIsBounded' /\ lastFee' \in 0 .. LastBlock
<1> DEFINE new == Fetched(latest, missing)
<1>1. new \in Seq(Nat) /\ Len(new) = missing
  BY FetchedTypes
<1> HIDE DEF new
<1>2. Renewed(new) \in Seq(Nat) /\ Len(Renewed(new)) <= HistorySize
  <2>1. /\ Renewed(new) \in Seq(Nat)
        /\ Len(Renewed(new)) = IF Len(cache) > Len(new) THEN Len(cache) ELSE Len(new)
    BY <1>1, RenewedTypes
  <2>2. Len(cache) \in Nat /\ Len(cache) <= HistorySize
    BY LenProperties DEF HistoryIsBounded
  <2> QED
    BY <1>1, <2>1, <2>2, Sorts
<1>3. SortedHistory(Renewed(new)) \in Seq(Nat)
      /\ Len(SortedHistory(Renewed(new))) <= HistorySize
  BY <1>2, SortedTypes
<1>4. cache' = SortedHistory(Renewed(new)) /\ lastFee' = latest
  BY DEF Refresh, new
<1>5. lastFee' \in 0 .. LastBlock
  BY <1>4, Sorts
<1> QED
  BY <1>3, <1>4, <1>5 DEF HistoryIsBounded

-----------------------------------------------------------------------------
(***************************************************************************)
(* The chain and the nonce of the signer.                                  *)
(***************************************************************************)
(* The image of a finite set is finite and not larger. *)
LEMMA ImageIsFinite ==
  ASSUME NEW f, NEW S, f = [x \in S |-> f[x]], IsFiniteSet(S)
  PROVE  LET T == {f[x] : x \in S} IN IsFiniteSet(T) /\ Cardinality(T) <= Cardinality(S)
<1> DEFINE T == {f[x] : x \in S}
<1>1. f \in [S -> T]
  OBVIOUS
<1>2. f \in Surjection(S, T)
  BY <1>1 DEF Surjection
<1> HIDE DEF T
<1>3. IsFiniteSet(T) /\ Cardinality(T) <= Cardinality(S)
  BY <1>2, FS_Surjection
<1> QED
  BY <1>3 DEF T

(* Of that many nonces in a row, the pool leaves one free. *)
LEMMA NonceTypes ==
  ASSUME TypeOK, IsFiniteSet(pool), IsFiniteSet(included)
  PROVE  PendingNonce \in Nat
<1> DEFINE a == AccountNonce
           c == Cardinality(pool)
           Taken == [x \in pool |-> x.nonce]
           Used == {Taken[x] : x \in pool}
           Free == {n \in a .. (a + c) : \A x \in pool : x.nonce # n}
<1>1. a \in Nat /\ c \in Nat
  BY FS_CardinalityType DEF AccountNonce
<1>2. PendingNonce = Min(Free)
  BY DEF PendingNonce
<1>3. IsFiniteSet(Used) /\ Cardinality(Used) <= c
  BY ImageIsFinite
<1>4. IsFiniteSet(a .. (a + c)) /\ Cardinality(a .. (a + c)) = c + 1
  <2> HIDE DEF a, c
  <2>1. a \in Int /\ a + c \in Int /\ ~(a > a + c) /\ (a + c) - a + 1 = c + 1
    BY <1>1
  <2>2. /\ IsFiniteSet(a .. (a + c))
        /\ Cardinality(a .. (a + c)) = IF a > a + c THEN 0 ELSE (a + c) - a + 1
    BY <2>1, FS_Interval
  <2> QED
    BY <2>1, <2>2
<1>5. Free \in SUBSET Nat
  BY <1>1
<1>6. Free # {}
  <2> SUFFICES ASSUME Free = {} PROVE FALSE
    OBVIOUS
  <2>1. a .. (a + c) \in SUBSET Used
    OBVIOUS
  <2> HIDE DEF Used, Free, a, c
  <2>2. Cardinality(a .. (a + c)) <= Cardinality(Used)
    BY <1>3, <2>1, FS_Subset
  <2>3. Cardinality(Used) \in Nat
    BY <1>3, FS_CardinalityType
  <2> QED
    BY <1>1, <1>3, <1>4, <2>2, <2>3
<1> HIDE DEF Free
<1> QED
  BY <1>2, <1>5, <1>6, MinExists

(* The fees are fees of the chain. *)
LEMMA FeeTypes ==
  ASSUME TypeOK
  PROVE  /\ PendingFee \in Nat
         /\ \A reward \in Rewards : PriorityFee(reward) \in Nat
<1>1. height + 1 \in 1 .. LastBlock + 1
  BY Sorts DEF TypeOK
<1>2. PendingFee \in Nat
  BY <1>1, Sorts DEF PendingFee
<1>3. ASSUME NEW reward \in Rewards PROVE PriorityFee(reward) \in Nat
  <2>1. reward \in Nat /\ MinPriority \in Nat /\ MaxPriority \in Nat
    BY ExecutionConstants
  <2> DEFINE m == Max({reward, MinPriority})
  <2>2. m \in {reward, MinPriority}
    BY <2>1, MaxOfTwo
  <2>3. m \in Nat
    BY <2>1, <2>2
  <2> HIDE DEF m
  <2>4. Min({m, MaxPriority}) \in {m, MaxPriority}
    BY <2>1, <2>3, MinOfTwo
  <2> QED
    BY <2>1, <2>3, <2>4 DEF PriorityFee, m
<1> QED
  BY <1>2, <1>3

(* A block more on the chain changes the confirmations alone, and none of  *)
(* a transaction that has them all.                                        *)
LEMMA OlderTypes ==
  ASSUME NEW i \in Inclusion
  PROVE  /\ Older(i) \in Inclusion
         /\ Older(i).tx = i.tx /\ Older(i).ok = i.ok
         /\ i.conf = Confirmations => Older(i).conf = Confirmations
  BY Sorts DEF Older, Inclusion

(* The blocks of the chain after one more of them. *)
LEMMA AgedTypes ==
  ASSUME included \subseteq Inclusion, IsFiniteSet(included)
  PROVE  LET aged == {Older(i) : i \in included}
         IN  aged \subseteq Inclusion /\ IsFiniteSet(aged)
<1> DEFINE f == [i \in included |-> Older(i)]
<1>1. IsFiniteSet({f[i] : i \in included})
  BY ImageIsFinite
<1>2. {f[i] : i \in included} = {Older(i) : i \in included}
  OBVIOUS
<1> QED
  BY <1>1, <1>2, OlderTypes

-----------------------------------------------------------------------------
(***************************************************************************)
(* The types, the finite sets the nonces are counted in, and the bound on  *)
(* the history.                                                            *)
(***************************************************************************)
(* What the place of suspension says about the locals of a call. *)
LocalsOf(t, c) ==
  /\ c.at # "idle" => c.duty \in Duties /\ Owner[c.duty] = t
  /\ c.at = "history" => c.latest \in FirstBlock .. LastBlock

Locals == \A t \in Tasks : LocalsOf(t, run[t])

Typed ==
  /\ TypeOK
  /\ IsFiniteSet(pool) /\ IsFiniteSet(included)
  /\ HistoryIsBounded
  /\ Locals

(* A step of a call changes the locals of its task alone. *)
LEMMA CallTypes ==
  ASSUME TypeOK, Locals, NEW t \in Tasks, NEW c \in Call,
         run' = [run EXCEPT ![t] = c], LocalsOf(t, c)
  PROVE  run' \in [Tasks -> Call] /\ Locals'
  BY DEF TypeOK, Locals, LocalsOf

LEMMA IdleTypes == Idle \in Call /\ Idle.at = "idle"
  BY Sorts DEF Idle, Call, Places, NoDuty

(* A call that is under way is about a duty of its task. *)
LEMMA DutyOfCall ==
  ASSUME TypeOK, Locals, NEW t \in Tasks, ~At(t, "idle")
  PROVE  run[t].duty \in Duties /\ Owner[run[t].duty] = t
  BY DEF Locals, LocalsOf, At

LEMMA EndTypes ==
  ASSUME TypeOK, Locals, NEW t \in Tasks, End(t)
  PROVE  run' \in [Tasks -> Call] /\ Locals'
<1>1. run' = [run EXCEPT ![t] = Idle]
  BY DEF End
<1> QED
  BY <1>1, IdleTypes, CallTypes DEF LocalsOf

LEMMA ReturnTypes ==
  ASSUME TypeOK, Locals, NEW t \in Tasks, Return(t), ~At(t, "idle")
  PROVE  /\ run' \in [Tasks -> Call] /\ Locals'
         /\ settled' \subseteq Duties /\ glimpsed' \subseteq settled'
         /\ repeated' \subseteq Duties
<1>1. run' \in [Tasks -> Call] /\ Locals'
  BY EndTypes DEF Return
<1>2. run[t].duty \in Duties
  BY DutyOfCall
<1> QED
  BY <1>1, <1>2 DEF Return, TypeOK

LEMMA ThrowTypes ==
  ASSUME TypeOK, Locals, NEW t \in Tasks, Throw(t)
  PROVE  /\ run' \in [Tasks -> Call] /\ Locals'
         /\ settled' \subseteq Duties /\ glimpsed' \subseteq settled'
         /\ repeated' \subseteq Duties
<1>1. run' \in [Tasks -> Call] /\ Locals'
  BY EndTypes DEF Throw
<1> QED
  BY <1>1 DEF Throw, dutyVars, TypeOK

(* A retry starts again with the duty. *)
LEMMA RetryTypes ==
  ASSUME TypeOK, Locals, NEW t \in Tasks, ~At(t, "idle"), RetryLater(t)
  PROVE  run' \in [Tasks -> Call] /\ Locals'
<1> DEFINE c == [Idle EXCEPT !.at = "emulate", !.duty = run[t].duty,
                             !.attempts = run[t].attempts + 1]
<1>1. run[t] \in Call /\ run[t].duty \in Duties /\ Owner[run[t].duty] = t
  BY DutyOfCall DEF TypeOK
<1>2. run[t].attempts + 1 \in 0 .. MaxRetries
  <2>1. run[t].attempts \in 0 .. MaxRetries
    BY <1>1 DEF Call
  <2>2. run[t].attempts < MaxRetries
    BY DEF RetryLater
  <2> QED
    BY <2>1, <2>2, Sorts
<1>3. c \in Call /\ c.at = "emulate" /\ c.duty = run[t].duty
  BY <1>1, <1>2, IdleTypes DEF Idle, Call, Places
<1>4. run' = [run EXCEPT ![t] = c]
  BY DEF RetryLater
<1>5. LocalsOf(t, c)
  BY <1>1, <1>3 DEF LocalsOf
<1> HIDE DEF c
<1> QED
  BY <1>3, <1>4, <1>5, CallTypes

LEMMA DecideTypes ==
  ASSUME TypeOK, Locals, NEW t \in Tasks, ~At(t, "idle"),
         NEW current, NEW recommended, Decide(t, current, recommended)
  PROVE  /\ run' \in [Tasks -> Call] /\ Locals'
         /\ settled' \subseteq Duties /\ glimpsed' \subseteq settled'
         /\ repeated' \subseteq Duties
<1>1. CASE Return(t)
  BY <1>1, ReturnTypes
<1>2. CASE Throw(t)
  BY <1>2, ThrowTypes
<1>3. CASE (Leave(t) \/ End(t) \/ RetryLater(t)) /\ UNCHANGED dutyVars
  <2>1. run' \in [Tasks -> Call] /\ Locals'
    <3>1. CASE Leave(t)
      <4> DEFINE c == [run[t] EXCEPT !.at = "send", !.current = 0,
                                     !.latest = 0, !.missing = 0]
      <4>1. run[t] \in Call /\ run[t].duty \in Duties /\ Owner[run[t].duty] = t
        BY DutyOfCall DEF TypeOK
      <4>2. c \in Call /\ c.at = "send" /\ c.duty = run[t].duty
        <5>1. 0 \in 0 .. HistorySize
          BY Sorts
        <5> QED
          BY <4>1, <5>1 DEF Call, Places
      <4>3. run' = [run EXCEPT ![t] = c]
        BY <3>1 DEF Leave, TypeOK
      <4>4. LocalsOf(t, c)
        BY <4>1, <4>2 DEF LocalsOf
      <4> HIDE DEF c
      <4> QED
        BY <4>2, <4>3, <4>4, CallTypes
    <3>2. CASE End(t)
      BY <3>2, EndTypes
    <3>3. CASE RetryLater(t)
      BY <3>3, RetryTypes
    <3> QED
      BY <1>3, <3>1, <3>2, <3>3
  <2> QED
    BY <1>3, <2>1 DEF dutyVars, TypeOK
<1> QED
  BY <1>1, <1>2, <1>3 DEF Decide

(* The steps of the chain. *)
LEMMA ChainTypes ==
  ASSUME Typed, Include \/ EmptyBlock \/ OthersProve \/ Reorg \/ Drop
  PROVE  Typed'
<1> USE DEF Typed
<1>1. included \subseteq Inclusion /\ pool \subseteq Tx
  BY DEF TypeOK
<1> DEFINE aged == {Older(i) : i \in included}
<1>2. aged \subseteq Inclusion /\ IsFiniteSet(aged)
  BY <1>1, AgedTypes
<1>3. NextBlock => height' \in FirstBlock .. LastBlock
  BY Sorts DEF NextBlock, TypeOK
<1>4. Fault => faults' \in 0 .. MaxFaults
  BY Sorts DEF Fault, TypeOK
<1>5. UNCHANGED <<run, historyVars>>
      /\ UNCHANGED <<mode, dutyVars>>
  BY DEF Include, EmptyBlock, OthersProve, Reorg, Drop
<1>6. /\ pool' \subseteq Tx /\ IsFiniteSet(pool')
      /\ included' \subseteq Inclusion /\ IsFiniteSet(included')
      /\ height' \in FirstBlock .. LastBlock /\ faults' \in 0 .. MaxFaults
      /\ byOthers' \subseteq Duties
  <2>1. CASE Include
    <3>1. PICK x \in pool :
            /\ pool' = pool \ {x}
            /\ included' = aged \cup {[tx |-> x, ok |-> x.duty \notin Proven, conf |-> 1]}
      BY <2>1 DEF Include
    <3>2. [tx |-> x, ok |-> x.duty \notin Proven, conf |-> 1] \in Inclusion
      BY <1>1, Sorts DEF Inclusion
    <3> HIDE DEF aged
    <3>3. IsFiniteSet(pool') /\ IsFiniteSet(included')
      BY <1>2, <3>1, FS_RemoveElement, FS_AddElement
    <3> QED
      BY <1>1, <1>2, <1>3, <2>1, <3>1, <3>2, <3>3 DEF Include, TypeOK
  <2>2. CASE EmptyBlock
    BY <1>1, <1>2, <1>3, <2>2 DEF EmptyBlock, TypeOK
  <2>3. CASE OthersProve
    BY <1>1, <1>4, <2>3 DEF OthersProve, TypeOK
  <2>4. CASE Reorg
    <3> DEFINE young == {j \in included : j.conf < Confirmations}
               f == [i \in young |-> i.tx]
    <3>1. IsFiniteSet(young) /\ IsFiniteSet({i \in included : i.conf = Confirmations})
      BY FS_Subset
    <3>2. IsFiniteSet({f[i] : i \in young})
      BY <3>1, ImageIsFinite
    <3>3. {f[i] : i \in young} = {i.tx : i \in young}
      OBVIOUS
    <3>4. pool' = pool \cup {i.tx : i \in young}
          /\ included' = {i \in included : i.conf = Confirmations}
      BY <2>4 DEF Reorg
    <3>5. {i.tx : i \in young} \subseteq Tx
      BY <1>1 DEF Inclusion
    <3> HIDE DEF f, young
    <3>6. IsFiniteSet(pool') /\ IsFiniteSet(included')
      BY <3>1, <3>2, <3>3, <3>4, FS_Union
    <3> QED
      BY <1>1, <1>4, <2>4, <3>4, <3>5, <3>6 DEF Reorg, TypeOK
  <2>5. CASE Drop
    <3>1. PICK x \in pool : pool' = pool \ {x}
      BY <2>5 DEF Drop
    <3>2. IsFiniteSet(pool')
      BY <3>1, FS_RemoveElement
    <3> QED
      BY <1>1, <1>4, <2>5, <3>1, <3>2 DEF Drop, TypeOK
  <2> QED
    BY <2>1, <2>2, <2>3, <2>4, <2>5
<1>7. Locals' /\ HistoryIsBounded'
  BY <1>5 DEF Locals, LocalsOf, HistoryIsBounded, historyVars
<1>8. TypeOK'
  BY <1>5, <1>6 DEF TypeOK, historyVars, dutyVars
<1> QED
  BY <1>6, <1>7, <1>8

(* The steps before a transaction is sent. *)
LEMMA PrepareTypes ==
  ASSUME Typed, NEW t \in Tasks,
         Start(t) \/ FindProven(t) \/ Emulate(t) \/ Populate(t) \/ Gate(t) \/ Refreshed(t)
  PROVE  Typed'
<1> USE DEF Typed
<1>1. run[t] \in Call /\ (~At(t, "idle") => run[t].duty \in Duties /\ Owner[run[t].duty] = t)
  BY DutyOfCall DEF TypeOK
<1> DEFINE Goal == /\ run' \in [Tasks -> Call] /\ Locals'
                   /\ settled' \subseteq Duties /\ glimpsed' \subseteq settled'
                   /\ repeated' \subseteq Duties
<1>2. UNCHANGED <<mode, chainVars, faults>>
  BY DEF Start, FindProven, Emulate, Populate, Gate, Refreshed
<1>3. Goal /\ cache' \in Seq(Nat) /\ HistoryIsBounded' /\ lastFee' \in 0 .. LastBlock
  <2>1. (\E c \in Call : run' = [run EXCEPT ![t] = c] /\ LocalsOf(t, c))
          /\ UNCHANGED <<dutyVars, historyVars>>
        => Goal /\ cache' \in Seq(Nat) /\ HistoryIsBounded' /\ lastFee' \in 0 .. LastBlock
    BY CallTypes DEF TypeOK, dutyVars, historyVars, HistoryIsBounded
  <2>2. UNCHANGED historyVars =>
          cache' \in Seq(Nat) /\ HistoryIsBounded' /\ lastFee' \in 0 .. LastBlock
    BY DEF TypeOK, historyVars, HistoryIsBounded
  <2>3. CASE Start(t)
    <3>1. PICK d \in Duties : Owner[d] = t
                 /\ run' = [run EXCEPT ![t].at = "emulate", ![t].duty = d]
      BY <2>3 DEF Start, NextDuty
    <3> DEFINE c == [run[t] EXCEPT !.at = "emulate", !.duty = d]
    <3>2. c \in Call /\ c.at = "emulate" /\ c.duty = d
      BY <1>1 DEF Call, Places
    <3>3. run' = [run EXCEPT ![t] = c]
      BY <3>1 DEF TypeOK
    <3>4. LocalsOf(t, c)
      BY <3>1, <3>2 DEF LocalsOf
    <3> HIDE DEF c
    <3> QED
      BY <2>1, <2>3, <3>2, <3>3, <3>4 DEF Start
  <2>4. CASE FindProven(t)
    <3>1. UNCHANGED <<run, historyVars>> /\ UNCHANGED repeated
      BY <2>4 DEF FindProven
    <3>2. settled' \subseteq Duties /\ glimpsed' \subseteq settled'
      BY <2>4 DEF FindProven, NextDuty, TypeOK
    <3> QED
      BY <2>2, <3>1, <3>2 DEF TypeOK, Locals, LocalsOf
  <2>5. CASE Emulate(t)
    <3>1. UNCHANGED historyVars /\ ~At(t, "idle")
      BY <2>5 DEF Emulate, At
    <3>2. CASE Return(t)
      BY <2>2, <3>1, <3>2, ReturnTypes
    <3>3. CASE Throw(t)
      BY <2>2, <3>1, <3>3, ThrowTypes
    <3>4. ASSUME NEW reward \in Rewards, UNCHANGED dutyVars,
                 run' = [run EXCEPT ![t].at = "populate",
                                    ![t].maxFee = 2 * PendingFee + PriorityFee(reward)]
          PROVE  Goal /\ cache' \in Seq(Nat) /\ HistoryIsBounded' /\ lastFee' \in 0 .. LastBlock
      <4> DEFINE m == 2 * PendingFee + PriorityFee(reward)
                 c == [run[t] EXCEPT !.at = "populate", !.maxFee = m]
      <4>1. m \in Nat
        BY FeeTypes
      <4>2. run' = [run EXCEPT ![t] = c]
        BY <3>4 DEF TypeOK
      <4> HIDE DEF m
      <4>3. c \in Call /\ c.at = "populate" /\ c.duty = run[t].duty
        BY <1>1, <4>1 DEF Call, Places
      <4>4. LocalsOf(t, c)
        BY <1>1, <3>1, <4>3 DEF LocalsOf
      <4> HIDE DEF c
      <4> QED
        BY <2>1, <3>1, <3>4, <4>2, <4>3, <4>4
    <3> QED
      BY <2>5, <3>2, <3>3, <3>4 DEF Emulate
  <2>6. CASE Populate(t)
    <3> DEFINE c == [run[t] EXCEPT !.at = "gate", !.nonce = PendingNonce]
    <3>1. PendingNonce \in Nat /\ ~At(t, "idle")
      BY <2>6, NonceTypes DEF Populate, At
    <3>2. c \in Call /\ c.at = "gate" /\ c.duty = run[t].duty
      BY <1>1, <3>1 DEF Call, Places
    <3>3. run' = [run EXCEPT ![t] = c]
      BY <2>6 DEF Populate, TypeOK
    <3>4. LocalsOf(t, c)
      BY <1>1, <3>1, <3>2 DEF LocalsOf
    <3> HIDE DEF c
    <3> QED
      BY <2>1, <2>6, <3>2, <3>3, <3>4 DEF Populate
  <2>7. CASE Gate(t)
    <3>1. UNCHANGED historyVars /\ ~At(t, "idle")
      BY <2>7 DEF Gate, At
    <3>2. CASE ~IsStale(height)
      BY <2>2, <2>7, <3>1, <3>2, DecideTypes DEF Gate
    <3>3. CASE IsStale(height)
      <4> DEFINE c == [run[t] EXCEPT !.at = "history", !.current = PendingFee,
                                     !.latest = height, !.missing = Missing(height)]
      <4>1. height \in FirstBlock .. LastBlock /\ PendingFee \in Nat
        BY FeeTypes DEF TypeOK
      <4>2. Missing(height) \in 0 .. HistorySize
        BY <3>3, <4>1, Sorts DEF Missing, IsStale, TypeOK
      <4>3. run' = [run EXCEPT ![t] = c] /\ UNCHANGED dutyVars
        BY <2>7, <3>3 DEF Gate, TypeOK
      <4>4. height \in Nat
        BY <4>1, Sorts
      <4>5. c \in Call /\ c.at = "history" /\ c.duty = run[t].duty /\ c.latest = height
        BY <1>1, <4>1, <4>2, <4>4 DEF Call, Places
      <4>6. LocalsOf(t, c)
        BY <1>1, <3>1, <4>1, <4>5 DEF LocalsOf
      <4> HIDE DEF c
      <4> QED
        BY <2>1, <3>1, <4>3, <4>5, <4>6
    <3> QED
      BY <3>2, <3>3
  <2>8. CASE Refreshed(t)
    <3>1. /\ run[t].latest \in FirstBlock .. LastBlock /\ ~At(t, "idle")
          /\ run[t].missing \in 0 .. HistorySize
      BY <1>1, <2>8 DEF Refreshed, At, Locals, LocalsOf, Call
    <3>2. cache' \in Seq(Nat) /\ HistoryIsBounded' /\ lastFee' \in 0 .. LastBlock
      BY <2>8, <3>1, RefreshTypes DEF Refreshed, TypeOK
    <3>3. Goal
      BY <2>8, <3>1, DecideTypes DEF Refreshed
    <3> QED
      BY <3>2, <3>3
  <2> QED
    BY <2>3, <2>4, <2>5, <2>6, <2>7, <2>8
<1> QED
  BY <1>2, <1>3 DEF TypeOK, chainVars, Locals, LocalsOf

(* The transaction of a call. *)
LEMMA TxTypes ==
  ASSUME Typed, NEW t \in Tasks, ~At(t, "idle")
  PROVE  TxOf(t) \in Tx
<1>1. run[t] \in Call /\ run[t].duty \in Duties
  BY DutyOfCall DEF Typed, TypeOK
<1> QED
  BY <1>1 DEF TxOf, Tx, Call

LEMMA EnterTypes ==
  ASSUME Typed, NEW x \in Tx, Enter(x)
  PROVE  pool' \subseteq Tx /\ IsFiniteSet(pool')
<1>1. IsFiniteSet(pool \ SameNonce(x))
  BY FS_Subset DEF Typed
<1>2. IsFiniteSet((pool \ SameNonce(x)) \cup {x})
  BY <1>1, FS_AddElement
<1> QED
  BY <1>2 DEF Enter, Typed, TypeOK

(* The steps of sending and waiting, failures and restarts. *)
LEMMA SendTypes ==
  ASSUME Typed, NEW t \in Tasks,
         Send(t) \/ SentUnanswered(t) \/ Receive(t) \/ Timeout(t) \/ Fail(t)
  PROVE  Typed'
<1> USE DEF Typed
<1>1. ~At(t, "idle")
  BY DEF Send, SentUnanswered, Receive, Timeout, Fail, At
<1>2. run[t] \in Call /\ run[t].duty \in Duties /\ Owner[run[t].duty] = t
  BY <1>1, DutyOfCall DEF TypeOK
<1>3. UNCHANGED <<mode, height, included, byOthers, historyVars>>
  BY DEF Send, SentUnanswered, Receive, Timeout, Fail, chainVars
<1>4. faults' \in 0 .. MaxFaults
  BY Sorts DEF Send, SentUnanswered, Receive, Timeout, Fail, Fault, TypeOK, chainVars
<1>5. pool' \subseteq Tx /\ IsFiniteSet(pool')
  <2>1. CASE Enter(TxOf(t))
    BY <1>1, <2>1, TxTypes, EnterTypes
  <2>2. CASE UNCHANGED pool
    BY <2>2 DEF TypeOK
  <2> QED
    BY <2>1, <2>2 DEF Send, SentUnanswered, Receive, Timeout, Fail, chainVars
<1>6. /\ run' \in [Tasks -> Call] /\ Locals'
      /\ settled' \subseteq Duties /\ glimpsed' \subseteq settled'
      /\ repeated' \subseteq Duties
  <2>1. CASE Return(t)
    BY <1>1, <2>1, ReturnTypes
  <2>2. CASE Throw(t)
    BY <2>2, ThrowTypes
  <2>3. CASE End(t) /\ MayRepeat({run[t].duty})
    <3>1. run' \in [Tasks -> Call] /\ Locals'
      BY <2>3, EndTypes
    <3> QED
      BY <1>2, <2>3, <3>1 DEF MayRepeat, TypeOK
  <2>4. CASE Goto(t, "wait") /\ UNCHANGED dutyVars
    <3> DEFINE c == [run[t] EXCEPT !.at = "wait"]
    <3>1. run' = [run EXCEPT ![t] = c]
      BY <2>4 DEF Goto
    <3>2. c \in Call /\ c.at = "wait" /\ c.duty = run[t].duty
      BY <1>2 DEF Call, Places
    <3>3. LocalsOf(t, c)
      BY <1>2, <3>2 DEF LocalsOf
    <3> HIDE DEF c
    <3>4. run' \in [Tasks -> Call] /\ Locals'
      BY <3>1, <3>2, <3>3, CallTypes
    <3> QED
      BY <2>4, <3>4 DEF dutyVars, TypeOK
  <2> QED
    BY <2>1, <2>2, <2>3, <2>4 DEF Send, SentUnanswered, Receive, Timeout, Fail
<1>7. HistoryIsBounded'
  BY <1>3 DEF HistoryIsBounded, historyVars
<1> QED
  BY <1>3, <1>4, <1>5, <1>6, <1>7 DEF TypeOK, historyVars

LEMMA RestartTypes ==
  ASSUME Typed, Restart
  PROVE  Typed'
<1> USE DEF Typed
<1>1. run' = [t \in Tasks |-> Idle] /\ cache' = <<>> /\ lastFee' = 0
      /\ UNCHANGED <<mode, chainVars>> /\ UNCHANGED <<settled, glimpsed>>
  BY DEF Restart, MayRepeat
<1>2. run' \in [Tasks -> Call] /\ Locals'
  BY <1>1, IdleTypes DEF Locals, LocalsOf
<1>3. {run[t].duty : t \in {u \in Tasks : At(u, "wait")}} \subseteq Duties
  BY DutyOfCall DEF At
<1>4. repeated' \subseteq Duties /\ faults' \in 0 .. MaxFaults
  BY <1>3, Sorts DEF Restart, MayRepeat, Fault, TypeOK
<1>5. cache' \in Seq(Nat) /\ HistoryIsBounded' /\ lastFee' \in 0 .. LastBlock
  BY <1>1, Sorts, EmptySeq DEF HistoryIsBounded
<1> QED
  BY <1>1, <1>2, <1>4, <1>5 DEF TypeOK, chainVars

LEMMA TypedInvariant == Spec => []Typed
<1>1. Init => Typed
  <2> SUFFICES ASSUME Init PROVE Typed
    OBVIOUS
  <2>1. run \in [Tasks -> Call] /\ Locals
    BY IdleTypes DEF Init, Locals, LocalsOf
  <2>2. IsFiniteSet(pool) /\ IsFiniteSet(included)
    BY FS_EmptySet DEF Init
  <2>3. cache \in Seq(Nat) /\ HistoryIsBounded /\ lastFee \in 0 .. LastBlock
    BY Sorts, EmptySeq DEF Init, HistoryInit, HistoryIsBounded
  <2> QED
    BY <2>1, <2>2, <2>3, Sorts DEF Init, Typed, TypeOK
<1>2. Typed /\ [Next]_vars => Typed'
  <2> SUFFICES ASSUME Typed, [Next]_vars PROVE Typed'
    OBVIOUS
  <2>1. CASE UNCHANGED vars
    BY <2>1 DEF vars, chainVars, dutyVars, historyVars, Typed, TypeOK, Locals, LocalsOf,
                HistoryIsBounded
  <2>2. CASE Include \/ EmptyBlock \/ OthersProve \/ Reorg \/ Drop
    BY <2>2, ChainTypes
  <2>3. CASE \E t \in Tasks : Settle(t) \/ SentUnanswered(t) \/ Fail(t)
    BY <2>3, PrepareTypes, SendTypes DEF Settle
  <2>4. CASE Restart
    BY <2>4, RestartTypes
  <2> QED
    BY <2>1, <2>2, <2>3, <2>4 DEF Next
<1> QED
  BY <1>1, <1>2, PTL DEF Spec

(* Every reachable state has the declared types: above all, the nonce the  *)
(* node answers is a number, whatever the mempool has forgotten.           *)
THEOREM TypeCorrect == Spec => []TypeOK
<1>1. Typed => TypeOK
  BY DEF Typed
<1> QED
  BY <1>1, TypedInvariant, PTL

(* The fee history never outgrows its configured size, whatever refreshes  *)
(* of updateGasFeeHistoryCache overlap.                                    *)
THEOREM HistoryStaysBounded == Spec => []HistoryIsBounded
<1>1. Typed => HistoryIsBounded
  BY DEF Typed
<1> QED
  BY <1>1, TypedInvariant, PTL

-----------------------------------------------------------------------------
(***************************************************************************)
(* A duty whose call returned is proven for good.                          *)
(***************************************************************************)
Confirmed == {j \in Succeeded : j.conf = Confirmations}

(* Nothing takes back what has its confirmations. *)
LEMMA FinallyProvenGrows ==
  ASSUME Typed, [Next]_vars
  PROVE  FinallyProven \subseteq FinallyProven'
<1>1. included \subseteq Inclusion
  BY DEF Typed, TypeOK
<1>2. byOthers \subseteq byOthers'
  BY DEF Next, vars, chainVars, Include, EmptyBlock, OthersProve, Reorg, Drop, Settle, Start,
         FindProven, Emulate, Populate, Gate, Refreshed, Send, Receive, Timeout,
         SentUnanswered, Fail, Restart
<1>3. ASSUME NEW i \in Confirmed
      PROVE  \E k \in Confirmed' : k.tx.duty = i.tx.duty
  <2>1. i \in included /\ i.ok /\ i.conf = Confirmations
    BY DEF Confirmed, Succeeded
  <2>2. \E k \in included' : k.ok /\ k.conf = Confirmations /\ k.tx.duty = i.tx.duty
    <3>1. CASE Include \/ EmptyBlock
      <4>1. Older(i) \in included'
        BY <2>1, <3>1 DEF Include, EmptyBlock
      <4>2. Older(i).ok /\ Older(i).conf = Confirmations /\ Older(i).tx.duty = i.tx.duty
        BY <1>1, <2>1, OlderTypes
      <4> QED
        BY <4>1, <4>2
    <3>2. CASE Reorg
      BY <2>1, <3>2 DEF Reorg
    <3>3. CASE UNCHANGED included
      BY <2>1, <3>3
    <3> QED
      BY <3>1, <3>2, <3>3 DEF Next, vars, chainVars, OthersProve, Drop, Settle, Start,
         FindProven, Emulate, Populate, Gate, Refreshed, Send, Receive, Timeout,
         SentUnanswered, Fail, Restart
  <2> QED
    BY <2>2 DEF Confirmed, Succeeded
<1> QED
  BY <1>2, <1>3 DEF FinallyProven, Confirmed

(* A call decides to stop without sending only when it is told not to send. *)
LEMMA DecideSettles ==
  ASSUME NEW t, NEW current, NEW recommended, Decide(t, current, recommended), Sends
  PROVE  UNCHANGED dutyVars
  BY DEF Decide, Sends, Throw

(* Each duty a step settles is proven, or was seen to be. *)
LEMMA SettledIsProven ==
  ASSUME Typed, [Next]_vars, Sends
  PROVE  settled' \ glimpsed' \subseteq (settled \ glimpsed) \cup FinallyProven
<1>1. CASE UNCHANGED <<settled, glimpsed>>
  BY <1>1
<1>2. ASSUME NEW t \in Tasks, FindProven(t)
      PROVE  settled' \ glimpsed' \subseteq (settled \ glimpsed) \cup FinallyProven
  BY <1>2 DEF FindProven
<1>3. ASSUME NEW t \in Tasks, Receive(t)
      PROVE  settled' \ glimpsed' \subseteq (settled \ glimpsed) \cup FinallyProven
  <2>1. PICK i \in Receipts(t, Confirmations) : IF i.ok THEN Return(t) ELSE Throw(t)
    BY <1>3 DEF Receive
  <2>2. CASE i.ok
    <3>1. i \in Confirmed /\ i.tx.duty = run[t].duty
      BY <2>2, Sorts DEF Receipts, Confirmed, Succeeded, TxOf, Typed, TypeOK, Inclusion
    <3>2. run[t].duty \in FinallyProven
      BY <3>1 DEF FinallyProven, Confirmed
    <3> QED
      BY <2>1, <2>2, <3>2 DEF Return
  <2>3. CASE ~i.ok
    BY <2>1, <2>3 DEF Throw, dutyVars
  <2> QED
    BY <2>2, <2>3
<1>4. ASSUME NEW t \in Tasks, Emulate(t) \/ Gate(t) \/ Refreshed(t)
      PROVE  UNCHANGED <<settled, glimpsed>>
  BY <1>4, DecideSettles DEF Emulate, Gate, Refreshed, Sends, Throw, dutyVars
<1>5. ASSUME NEW t \in Tasks, Start(t) \/ Populate(t) \/ Send(t) \/ SentUnanswered(t)
                               \/ Timeout(t) \/ Fail(t)
      PROVE  UNCHANGED <<settled, glimpsed>>
  BY <1>5 DEF Start, Populate, Send, SentUnanswered, Timeout, Fail, Throw, MayRepeat, dutyVars
<1>6. CASE Include \/ EmptyBlock \/ OthersProve \/ Reorg \/ Drop \/ Restart \/ UNCHANGED vars
  BY <1>6 DEF Include, EmptyBlock, OthersProve, Reorg, Drop, Restart, MayRepeat, vars, dutyVars
<1> QED
  BY <1>1, <1>2, <1>3, <1>4, <1>5, <1>6 DEF Next, Settle

(* execute returns only for a proof that stays in the chain: no timeout,   *)
(* replaced transaction, revert, reorganisation or lost answer makes a     *)
(* caller forget a duty that is not proven.                                *)
THEOREM ReturnedIsProven == Spec => []ReturnedMeansProven
<1>1. Init => ReturnedMeansProven
  BY DEF Init, ReturnedMeansProven
<1>2. Typed /\ ReturnedMeansProven /\ [Next]_vars => ReturnedMeansProven'
  <2> SUFFICES ASSUME Typed, ReturnedMeansProven, [Next]_vars, Sends'
               PROVE  settled' \ glimpsed' \subseteq FinallyProven'
    BY DEF ReturnedMeansProven
  <2>1. mode' = mode
    BY DEF Next, vars, Include, EmptyBlock, OthersProve, Reorg, Drop, Settle, Start,
           FindProven, Emulate, Populate, Gate, Refreshed, Send, Receive, Timeout,
           SentUnanswered, Fail, Restart
  <2>2. Sends /\ settled \ glimpsed \subseteq FinallyProven
    BY <2>1 DEF Sends, ReturnedMeansProven
  <2>3. settled' \ glimpsed' \subseteq (settled \ glimpsed) \cup FinallyProven
    BY <2>2, SettledIsProven
  <2> QED
    BY <2>2, <2>3, FinallyProvenGrows
<1> QED
  BY <1>1, <1>2, TypedInvariant, PTL DEF Spec

-----------------------------------------------------------------------------
(***************************************************************************)
(* A duty is paid for twice only when an attempt had an unclear end.  The  *)
(* transactions the chain knows are covered: their duty is behind its      *)
(* task, or the call of the task waits for them.  A call that has yet to   *)
(* send has sent nothing for its duty.                                     *)
(***************************************************************************)
Waits(x) == At(x.task, "wait") /\ TxOf(x.task) = x

Covered ==
  \A x \in Known :
    /\ Owner[x.duty] = x.task
    /\ x.duty \in repeated \cup settled \cup byOthers \/ Waits(x)

IsPreparing(t) == ~At(t, "idle") /\ ~At(t, "wait")

IsFresh(d) == d \in repeated \/ \A x \in Known : x.duty # d

Fresh == \A t \in Tasks : IsPreparing(t) => IsFresh(run[t].duty)

(* A revert has a reason, and a transaction is in two places only when its *)
(* duty is repeated.                                                       *)
Placed ==
  /\ \A i \in included : i.ok \/ i.tx.duty \in repeated \cup byOthers
  /\ \A i \in included : i.tx \in pool => i.tx.duty \in repeated
  /\ \A i, j \in included : i.tx = j.tx /\ i # j => i.tx.duty \in repeated

PaidInv == Covered /\ Fresh /\ Placed /\ PaidOnce

LEMMA KnownTypes ==
  ASSUME Typed, NEW x \in Known
  PROVE  x \in Tx /\ x.task \in Tasks /\ x.duty \in Duties
  BY DEF Known, Typed, TypeOK, Inclusion, Tx

(* Nobody forgets what was settled, proven or repeated. *)
LEMMA HistoryGrows ==
  ASSUME [Next]_vars
  PROVE  /\ settled \subseteq settled' /\ repeated \subseteq repeated'
         /\ byOthers \subseteq byOthers'
<1>1. CASE UNCHANGED vars
  BY <1>1 DEF vars, dutyVars, chainVars
<1>2. CASE Include \/ EmptyBlock \/ OthersProve \/ Reorg \/ Drop \/ Restart
  BY <1>2 DEF Include, EmptyBlock, OthersProve, Reorg, Drop, Restart, MayRepeat, dutyVars,
              chainVars
<1>3. ASSUME NEW t \in Tasks, Settle(t) \/ SentUnanswered(t) \/ Fail(t)
      PROVE  settled \subseteq settled' /\ repeated \subseteq repeated'
             /\ byOthers \subseteq byOthers'
  <2>1. byOthers' = byOthers
    BY <1>3 DEF Settle, Start, FindProven, Emulate, Populate, Gate, Refreshed, Send, Receive,
                Timeout, SentUnanswered, Fail, chainVars
  <2>2. settled \subseteq settled' /\ repeated \subseteq repeated'
    BY <1>3 DEF Settle, Start, FindProven, Emulate, Populate, Gate, Refreshed, Decide, Send,
                Receive, Timeout, SentUnanswered, Fail, Return, Throw, MayRepeat, dutyVars
  <2> QED
    BY <2>1, <2>2
<1> QED
  BY <1>1, <1>2, <1>3 DEF Next

(* The chain only moves transactions, or loses them. *)
LEMMA ChainKeepsPaid ==
  ASSUME Typed, PaidInv, Include \/ EmptyBlock \/ OthersProve \/ Reorg \/ Drop
  PROVE  PaidInv'
<1> USE DEF PaidInv
<1>1. UNCHANGED <<run, settled, repeated>> /\ byOthers \subseteq byOthers'
  BY DEF Include, EmptyBlock, OthersProve, Reorg, Drop, dutyVars
<1>2. included \subseteq Inclusion
  BY DEF Typed, TypeOK
<1>3. \A i \in included : Older(i).tx = i.tx /\ Older(i).ok = i.ok
  BY <1>2, OlderTypes
<1>4. Known' \subseteq Known /\ Placed'
  <2>1. CASE Include
    <3>1. PICK x \in pool :
            /\ pool' = pool \ {x}
            /\ included' = {Older(i) : i \in included} \cup
                             {[tx |-> x, ok |-> x.duty \notin Proven, conf |-> 1]}
      BY <2>1 DEF Include
    <3> DEFINE new == [tx |-> x, ok |-> x.duty \notin Proven, conf |-> 1]
    <3>2. new.tx = x /\ (new.ok <=> x.duty \notin Proven)
      OBVIOUS
    <3>3. \A k \in included' : k = new \/ \E i \in included : k = Older(i)
      BY <3>1
    <3>4. new.ok \/ x.duty \in repeated \cup byOthers
      <4> SUFFICES ASSUME x.duty \in Proven, x.duty \notin byOthers
                   PROVE  x.duty \in repeated
        BY <3>2
      <4>1. PICK i \in included : i.tx.duty = x.duty
        BY DEF Proven, Succeeded
      <4>2. CASE i.tx = x
        BY <4>2 DEF Placed
      <4>3. CASE i.tx # x
        BY <4>1, <4>3 DEF PaidOnce, Known
      <4> QED
        BY <4>2, <4>3
    <3> HIDE DEF new
    <3>5. Known' \subseteq Known
      BY <1>3, <3>1, <3>2, <3>3 DEF Known
    <3>6. ASSUME NEW k \in included' PROVE k.ok \/ k.tx.duty \in repeated' \cup byOthers'
      BY <1>1, <1>3, <3>2, <3>3, <3>4 DEF Placed
    <3>7. ASSUME NEW k \in included', k.tx \in pool' PROVE k.tx.duty \in repeated'
      BY <1>1, <1>3, <3>1, <3>2, <3>3, <3>7 DEF Placed
    <3>8. ASSUME NEW k \in included', NEW l \in included', k.tx = l.tx, k # l
          PROVE  k.tx.duty \in repeated'
      <4>1. CASE k = new \/ l = new
        <5>1. PICK i \in included : i.tx = x
          BY <1>3, <3>2, <3>3, <3>8, <4>1
        <5> QED
          BY <1>1, <3>2, <3>8, <4>1, <5>1 DEF Placed
      <4>2. CASE k # new /\ l # new
        <5>1. PICK i \in included, j \in included : k = Older(i) /\ l = Older(j)
          BY <3>3, <4>2
        <5>2. i.tx = j.tx /\ i # j
          BY <1>3, <3>8, <5>1
        <5> QED
          BY <1>1, <1>3, <5>1, <5>2 DEF Placed
      <4> QED
        BY <4>1, <4>2
    <3> QED
      BY <3>5, <3>6, <3>7, <3>8 DEF Placed
  <2>2. CASE EmptyBlock
    <3>1. pool' = pool /\ included' = {Older(i) : i \in included}
      BY <2>2 DEF EmptyBlock
    <3>2. Known' \subseteq Known
      BY <1>3, <3>1 DEF Known
    <3> QED
      BY <1>1, <1>3, <3>1, <3>2 DEF Placed
  <2>3. CASE OthersProve
    <3>1. UNCHANGED <<pool, included>>
      BY <2>3 DEF OthersProve
    <3> QED
      BY <1>1, <3>1 DEF Known, Placed
  <2>4. CASE Reorg
    <3>1. /\ pool' = pool \cup {i.tx : i \in {j \in included : j.conf < Confirmations}}
          /\ included' = {i \in included : i.conf = Confirmations}
      BY <2>4 DEF Reorg
    <3>2. Known' \subseteq Known
      BY <3>1 DEF Known
    <3>3. ASSUME NEW i \in included', i.tx \in pool' PROVE i.tx.duty \in repeated
      <4>1. CASE i.tx \in pool
        BY <3>1, <4>1 DEF Placed
      <4>2. CASE i.tx \notin pool
        <5>1. PICK j \in included : j.conf < Confirmations /\ i.tx = j.tx
          BY <3>1, <3>3, <4>2
        <5>2. i \in included /\ i # j
          BY <3>1, <5>1, Sorts
        <5> QED
          BY <5>1, <5>2 DEF Placed
      <4> QED
        BY <4>1, <4>2
    <3> QED
      BY <1>1, <3>1, <3>2, <3>3 DEF Placed
  <2>5. CASE Drop
    <3>1. included' = included /\ pool' \subseteq pool
      BY <2>5 DEF Drop
    <3> QED
      BY <1>1, <3>1 DEF Known, Placed
  <2> QED
    BY <2>1, <2>2, <2>3, <2>4, <2>5
<1>5. PaidOnce' /\ Fresh'
  BY <1>1, <1>4 DEF PaidOnce, Known, Fresh, IsFresh, IsPreparing, At
<1>6. Covered'
  BY <1>1, <1>4 DEF Covered, Waits, At, TxOf
<1> QED
  BY <1>4, <1>5, <1>6

(* A step of a call that sends nothing.                                    *)
LEMMA QuietStep ==
  ASSUME Typed, PaidInv, [Next]_vars, NEW t \in Tasks,
         UNCHANGED <<pool, included>>,
         \A u \in Tasks \ {t} : run'[u] = run[u],
         IsPreparing(t)' => IsFresh(run'[t].duty),
         \A x \in Known : x.task = t /\ Waits(x) =>
                           Waits(x)' \/ x.duty \in (repeated \cup settled \cup byOthers)'
  PROVE  PaidInv'
<1> USE DEF PaidInv
<1>1. /\ settled \subseteq settled' /\ repeated \subseteq repeated'
      /\ byOthers \subseteq byOthers'
  BY HistoryGrows
<1>2. Known' = Known
  BY DEF Known
<1>3. PaidOnce' /\ Placed'
  BY <1>1, <1>2 DEF PaidOnce, Known, Placed
<1>4. \A d : IsFresh(d) => IsFresh(d)'
  BY <1>1, <1>2 DEF IsFresh
<1>5. Fresh'
  <2> SUFFICES ASSUME NEW u \in Tasks, IsPreparing(u)' PROVE IsFresh(run[u].duty)'
    BY DEF Fresh
  <2>1. CASE u = t
    BY <1>1, <1>2, <2>1 DEF IsFresh
  <2>2. CASE u # t
    <3>1. run'[u] = run[u] /\ IsPreparing(u)
      BY <2>2 DEF IsPreparing, At
    <3> QED
      BY <1>1, <1>2, <3>1 DEF Fresh, IsFresh
  <2> QED
    BY <2>1, <2>2
<1>6. ASSUME NEW x \in Known
      PROVE  /\ Owner[x.duty] = x.task
             /\ x.duty \in (repeated \cup settled \cup byOthers)' \/ Waits(x)'
  <2>1. x.task \in Tasks /\ Owner[x.duty] = x.task
    BY KnownTypes DEF Covered
  <2>2. CASE x.duty \in repeated \cup settled \cup byOthers
    BY <1>1, <2>1, <2>2
  <2>3. CASE Waits(x) /\ x.task = t
    BY <2>1, <2>3
  <2>4. CASE Waits(x) /\ x.task # t
    <3>1. run'[x.task] = run[x.task]
      BY <2>1, <2>4
    <3> QED
      BY <2>1, <2>4, <3>1 DEF Waits, At, TxOf
  <2> QED
    BY <2>2, <2>3, <2>4 DEF Covered
<1>7. Covered'
  BY <1>2, <1>6 DEF Covered
<1> QED
  BY <1>3, <1>5, <1>7

(* What a call in preparation does to itself: it goes on with its duty, or *)
(* it ends.                                                                *)
GoesOn(t) ==
  /\ \A u \in Tasks \ {t} : run'[u] = run[u]
  /\ IsPreparing(t)' => run'[t].duty = run[t].duty

LEMMA EndGoesOn ==
  ASSUME Typed, NEW t \in Tasks, End(t)
  PROVE  GoesOn(t)
<1>1. run'[t] = Idle /\ \A u \in Tasks \ {t} : run'[u] = run[u]
  BY DEF End, Typed, TypeOK
<1> QED
  BY <1>1, IdleTypes DEF GoesOn, IsPreparing, At

LEMMA DecideGoesOn ==
  ASSUME Typed, NEW t \in Tasks, NEW current, NEW recommended,
         Decide(t, current, recommended)
  PROVE  GoesOn(t)
<1>1. CASE End(t)
  BY <1>1, EndGoesOn
<1>2. CASE Leave(t)
  BY <1>2 DEF Leave, GoesOn, Typed, TypeOK, Call
<1>3. CASE RetryLater(t)
  <2>1. /\ run'[t] = [Idle EXCEPT !.at = "emulate", !.duty = run[t].duty,
                                  !.attempts = run[t].attempts + 1]
        /\ \A u \in Tasks \ {t} : run'[u] = run[u]
    BY <1>3 DEF RetryLater, Typed, TypeOK
  <2>2. run'[t].duty = run[t].duty
    BY <2>1 DEF Idle
  <2> QED
    BY <2>1, <2>2 DEF GoesOn
<1> QED
  BY <1>1, <1>2, <1>3 DEF Decide, Return, Throw

LEMMA PrepareKeepsPaid ==
  ASSUME Typed, PaidInv, [Next]_vars, NEW t \in Tasks,
         FindProven(t) \/ Emulate(t) \/ Populate(t) \/ Gate(t) \/ Refreshed(t) \/ Fail(t)
           \/ (Send(t) /\ Throw(t) /\ UNCHANGED pool)
  PROVE  PaidInv'
<1>1. UNCHANGED <<pool, included>>
  BY DEF FindProven, Emulate, Populate, Gate, Refreshed, Fail, Send, chainVars
<1>2. CASE FindProven(t)
  <2>1. run' = run
    BY <1>2 DEF FindProven
  <2> QED
    BY <1>1, <2>1, QuietStep DEF PaidInv, Fresh, IsPreparing, At, Waits, TxOf
<1>3. CASE ~FindProven(t)
  <2>1. IsPreparing(t)
    BY <1>3 DEF Emulate, Populate, Gate, Refreshed, Fail, Send, IsPreparing, At
  <2>2. GoesOn(t)
    <3>1. CASE Emulate(t)
      <4>1. CASE End(t)
        BY <4>1, EndGoesOn
      <4>2. ASSUME NEW m, run' = [run EXCEPT ![t].at = "populate", ![t].maxFee = m]
            PROVE  GoesOn(t)
        BY <4>2 DEF GoesOn, Typed, TypeOK, Call
      <4> QED
        BY <3>1, <4>1, <4>2 DEF Emulate, Return, Throw
    <3>2. CASE Populate(t)
      BY <3>2 DEF Populate, GoesOn, Typed, TypeOK, Call
    <3>3. CASE Gate(t)
      <4>1. CASE IsStale(height)
        BY <3>3, <4>1 DEF Gate, GoesOn, Typed, TypeOK, Call
      <4>2. CASE ~IsStale(height)
        BY <3>3, <4>2, DecideGoesOn DEF Gate
      <4> QED
        BY <4>1, <4>2
    <3>4. CASE Refreshed(t)
      BY <3>4, DecideGoesOn DEF Refreshed
    <3>5. CASE Throw(t)
      BY <3>5, EndGoesOn DEF Throw
    <3> QED
      BY <1>3, <3>1, <3>2, <3>3, <3>4, <3>5 DEF Fail
  <2>3. IsPreparing(t)' => IsFresh(run'[t].duty)
    BY <2>1, <2>2 DEF GoesOn, PaidInv, Fresh
  <2>4. \A x : x.task = t => ~Waits(x)
    BY <2>1 DEF IsPreparing, Waits
  <2> QED
    BY <1>1, <2>2, <2>3, <2>4, QuietStep DEF GoesOn
<1> QED
  BY <1>2, <1>3

(* The duty a call starts with is not behind its task, and the task waits  *)
(* for nothing: no transaction is known for it that is not repeated.       *)
LEMMA StartKeepsPaid ==
  ASSUME Typed, PaidInv, [Next]_vars, NEW t \in Tasks, Start(t)
  PROVE  PaidInv'
<1>1. UNCHANGED <<pool, included>> /\ At(t, "idle")
  BY DEF Start, chainVars
<1>2. PICK d \in Duties : /\ Owner[d] = t /\ d \notin settled /\ d \notin byOthers
                          /\ run' = [run EXCEPT ![t].at = "emulate", ![t].duty = d]
  BY DEF Start, NextDuty, Proven
<1>3. run'[t].duty = d /\ \A u \in Tasks \ {t} : run'[u] = run[u]
  BY <1>2 DEF Typed, TypeOK, Call
<1>4. IsFresh(d)
  <2> SUFFICES ASSUME NEW x \in Known, x.duty = d PROVE d \in repeated
    BY DEF IsFresh
  <2>1. x.task = t /\ ~Waits(x)
    BY <1>1, <1>2 DEF PaidInv, Covered, Waits, At
  <2> QED
    BY <1>2, <2>1 DEF PaidInv, Covered
<1>5. \A x : x.task = t => ~Waits(x)
  BY <1>1 DEF Waits, At
<1> QED
  BY <1>1, <1>3, <1>4, <1>5, QuietStep

(* When the wait ends without an error the duty is settled, when it ends   *)
(* with one the duty is repeated or proven by others.                      *)
LEMMA WaitKeepsPaid ==
  ASSUME Typed, PaidInv, [Next]_vars, NEW t \in Tasks, Receive(t) \/ Timeout(t)
  PROVE  PaidInv'
<1>1. UNCHANGED <<pool, included>> /\ End(t)
  BY DEF Receive, Timeout, Return, Throw, chainVars
<1>2. run'[t] = Idle /\ \A u \in Tasks \ {t} : run'[u] = run[u]
  BY <1>1 DEF End, Typed, TypeOK
<1>3. ~IsPreparing(t)'
  BY <1>2, IdleTypes DEF IsPreparing, At
<1>4. run[t].duty \in (repeated \cup settled \cup byOthers)'
  <2>1. CASE Timeout(t)
    BY <2>1 DEF Timeout, MayRepeat
  <2>2. CASE Receive(t)
    <3>1. PICK i \in included : /\ i.tx = TxOf(t)
                                /\ IF i.ok THEN Return(t) ELSE Throw(t)
      BY <2>2 DEF Receive, Receipts
    <3>2. i.tx.duty = run[t].duty
      BY <3>1 DEF TxOf
    <3>3. CASE i.ok
      BY <3>1, <3>3 DEF Return
    <3>4. CASE ~i.ok
      BY <3>2, <3>4, HistoryGrows DEF PaidInv, Placed
    <3> QED
      BY <3>3, <3>4
  <2> QED
    BY <2>1, <2>2
<1>5. \A x : x.task = t /\ Waits(x) => x.duty = run[t].duty
  BY DEF Waits, TxOf
<1> QED
  BY <1>1, <1>2, <1>3, <1>4, <1>5, QuietStep

(* What is sent is the first transaction of its duty, or repeats it.       *)
LEMMA EnterKeepsPaid ==
  ASSUME Typed, PaidInv, [Next]_vars, NEW t \in Tasks, At(t, "send"), Enter(TxOf(t)),
         UNCHANGED <<included, byOthers>>,
         \/ Goto(t, "wait")
         \/ End(t) /\ run[t].duty \in repeated'
  PROVE  PaidInv'
<1> USE DEF PaidInv
<1>0. PICK new : new = TxOf(t)
  OBVIOUS
<1>1. /\ settled \subseteq settled' /\ repeated \subseteq repeated'
  BY HistoryGrows
<1>2. new.task = t /\ new.duty = run[t].duty /\ Owner[new.duty] = t
  BY <1>0, DutyOfCall DEF TxOf, At, Typed
<1>3. IsFresh(new.duty)
  BY <1>2 DEF Fresh, IsPreparing, At
<1>4. /\ \A u \in Tasks \ {t} : run'[u] = run[u]
      /\ run'[t].at \in {"idle", "wait"}
  BY IdleTypes DEF Goto, End, Typed, TypeOK, Call
<1>5. Waits(new)' \/ new.duty \in repeated'
  <2>1. CASE Goto(t, "wait")
    <3>1. run'[t] = [run[t] EXCEPT !.at = "wait"]
      BY <2>1 DEF Goto, Typed, TypeOK
    <3>2. run[t] \in Call
      BY DEF Typed, TypeOK
    <3>3. /\ run'[t].at = "wait" /\ run'[t].duty = run[t].duty
          /\ run'[t].nonce = run[t].nonce /\ run'[t].maxFee = run[t].maxFee
      BY <3>1, <3>2 DEF Call
    <3>4. TxOf(t)' = new /\ At(t, "wait")'
      BY <1>0, <3>3 DEF TxOf, At
    <3> QED
      BY <1>2, <3>4 DEF Waits
  <2>2. CASE run[t].duty \in repeated'
    BY <1>2, <2>2
  <2> QED
    BY <2>1, <2>2
<1>6. Known' \subseteq Known \cup {new} /\ pool' \subseteq pool \cup {new}
  BY <1>0 DEF Known, Enter
<1>7. \A d : d # new.duty /\ IsFresh(d) => IsFresh(d)'
  BY <1>1, <1>6 DEF IsFresh
<1>8. PaidOnce'
  <2> SUFFICES ASSUME NEW x \in Known', NEW y \in Known', x.duty = y.duty, x # y
               PROVE  x.duty \in repeated'
    BY DEF PaidOnce, Known
  <2>1. CASE x = new \/ y = new
    BY <1>1, <1>3, <1>6, <2>1 DEF IsFresh
  <2>2. CASE x # new /\ y # new
    BY <1>1, <1>6, <2>2 DEF PaidOnce, Known
  <2> QED
    BY <2>1, <2>2
<1>9. Placed'
  <2>1. \A i \in included : i.tx = new => new.duty \in repeated
    BY <1>3 DEF IsFresh, Known
  <2> QED
    BY <1>1, <1>6, <2>1 DEF Placed
<1>10. Fresh'
  <2> SUFFICES ASSUME NEW u \in Tasks, IsPreparing(u)' PROVE IsFresh(run[u].duty)'
    BY DEF Fresh
  <2>1. u # t /\ run'[u] = run[u] /\ IsPreparing(u)
    BY <1>4 DEF IsPreparing, At
  <2>2. Owner[run[u].duty] = u /\ IsFresh(run[u].duty)
    BY <2>1, DutyOfCall DEF Typed, IsPreparing, Fresh
  <2>3. IsFresh(run[u].duty)' <=> (run'[u].duty \in repeated' \/ \A x \in Known' : x.duty # run'[u].duty)
    BY DEF IsFresh
  <2> QED
    BY <1>1, <1>2, <1>6, <2>1, <2>2, <2>3 DEF IsFresh
<1>11. ASSUME NEW x \in Known'
       PROVE  /\ Owner[x.duty] = x.task
              /\ x.duty \in (repeated \cup settled \cup byOthers)' \/ Waits(x)'
  <2>1. CASE x = new
    BY <1>2, <1>5, <2>1
  <2>2. CASE x # new
    <3>1. x \in Known /\ x.task \in Tasks
      BY <1>6, <2>2, KnownTypes
    <3>2. CASE Waits(x)
      <4>1. x.task # t /\ run'[x.task] = run[x.task]
        BY <1>4, <3>1, <3>2 DEF Waits, At
      <4> QED
        BY <3>1, <3>2, <4>1 DEF Covered, Waits, At, TxOf
    <3>3. CASE ~Waits(x)
      BY <1>1, <3>1, <3>3 DEF Covered
    <3> QED
      BY <3>2, <3>3
  <2> QED
    BY <2>1, <2>2
<1>12. Covered'
  BY <1>11 DEF Covered
<1> QED
  BY <1>8, <1>9, <1>10, <1>12

(* A restart forgets what the tasks wait for: those duties may be repeated. *)
LEMMA RestartKeepsPaid ==
  ASSUME Typed, PaidInv, Restart
  PROVE  PaidInv'
<1> USE DEF PaidInv
<1>1. /\ run' = [t \in Tasks |-> Idle] /\ settled' = settled
      /\ UNCHANGED <<pool, included, byOthers>>
      /\ repeated' = repeated \cup {run[t].duty : t \in {u \in Tasks : At(u, "wait")}}
  BY DEF Restart, MayRepeat, chainVars
<1>2. Known' = Known
  BY <1>1 DEF Known
<1>3. PaidOnce' /\ Placed'
  BY <1>1, <1>2 DEF PaidOnce, Known, Placed
<1>4. Fresh'
  BY <1>1, IdleTypes DEF Fresh, IsPreparing, At
<1>5. \A x \in Known : Waits(x) => x.duty \in repeated'
  <2> SUFFICES ASSUME NEW x \in Known, Waits(x) PROVE x.duty \in repeated'
    OBVIOUS
  <2>1. x.task \in Tasks /\ At(x.task, "wait") /\ x.duty = run[x.task].duty
    BY KnownTypes DEF Waits, TxOf
  <2> QED
    BY <1>1, <2>1
<1>6. Covered'
  BY <1>1, <1>2, <1>5 DEF Covered
<1> QED
  BY <1>3, <1>4, <1>6

(* The argument holds before and after every step.                         *)
LEMMA PaidInvariance == Spec => []PaidInv
<1>1. Init => PaidInv
  BY IdleTypes DEF Init, PaidInv, Covered, Fresh, Placed, PaidOnce, Known, IsPreparing, At
<1>2. Typed /\ PaidInv /\ [Next]_vars => PaidInv'
  <2> SUFFICES ASSUME Typed, PaidInv, [Next]_vars PROVE PaidInv'
    OBVIOUS
  <2>1. CASE UNCHANGED vars
    BY <2>1 DEF vars, chainVars, dutyVars, PaidInv, Covered, Fresh, IsFresh, Placed, PaidOnce,
                Known, IsPreparing, Waits, At, TxOf
  <2>2. CASE Include \/ EmptyBlock \/ OthersProve \/ Reorg \/ Drop
    BY <2>2, ChainKeepsPaid
  <2>3. CASE Restart
    BY <2>3, RestartKeepsPaid
  <2>4. ASSUME NEW t \in Tasks, Settle(t) \/ SentUnanswered(t) \/ Fail(t)
        PROVE  PaidInv'
    <3>1. CASE Start(t)
      BY <3>1, StartKeepsPaid
    <3>2. CASE Receive(t) \/ Timeout(t)
      BY <3>2, WaitKeepsPaid
    <3>3. CASE Send(t) /\ Enter(TxOf(t)) /\ Goto(t, "wait")
      BY <3>3, EnterKeepsPaid DEF Send
    <3>4. CASE Send(t) /\ Throw(t) /\ UNCHANGED pool
      BY <3>4, PrepareKeepsPaid
    <3>5. CASE SentUnanswered(t)
      <4>1. run[t].duty \in repeated'
        BY <3>5 DEF SentUnanswered, MayRepeat
      <4> QED
        BY <3>5, <4>1, EnterKeepsPaid DEF SentUnanswered
    <3>6. CASE FindProven(t) \/ Emulate(t) \/ Populate(t) \/ Gate(t) \/ Refreshed(t) \/ Fail(t)
      BY <3>6, PrepareKeepsPaid
    <3> QED
      BY <2>4, <3>1, <3>2, <3>3, <3>4, <3>5, <3>6 DEF Settle, Send
  <2> QED
    BY <2>1, <2>2, <2>3, <2>4 DEF Next
<1> QED
  BY <1>1, <1>2, TypedInvariant, PTL DEF Spec

(* Only an attempt that timed out, lost its answer or was cut off is paid  *)
(* for again, whatever the retries, the reorganisations, the fees and the  *)
(* other tasks with the same signer.                                       *)
THEOREM DutiesArePaidOnce == Spec => []PaidOnce
<1>1. PaidInv => PaidOnce
  BY DEF PaidInv
<1> QED
  BY <1>1, PaidInvariance, PTL

-----------------------------------------------------------------------------
(***************************************************************************)
(* Execution implements Delivery.                                          *)
(***************************************************************************)
(* The calls that run, seen as calls of Delivery.                          *)
LEMMA DeliveryView ==
  ASSUME Typed, NEW t \in Tasks
  PROVE  /\ At(t, "idle") => Calls[t] = NoDuty
         /\ ~At(t, "idle") =>
              Calls[t] = run[t].duty /\ Calls[t] \in Duties /\ Calls[t] # NoDuty
                /\ Owner[Calls[t]] = t
<1>1. ~At(t, "idle") => run[t].duty \in Duties /\ Owner[run[t].duty] = t
  BY DutyOfCall DEF Typed
<1>2. NoDuty \notin Duties
  BY ExecutionConstants DEF NoDuty
<1> QED
  BY <1>1, <1>2 DEF Calls

(* A step of one call that goes on with its duty, or stops.                *)
Holds(t) ==
  /\ \A u \in Tasks \ {t} : run'[u] = run[u]
  /\ run'[t].at # "idle" /\ run'[t].duty = run[t].duty

(* Such a step is not seen by the callers.                                 *)
LEMMA HoldsStutters ==
  ASSUME NEW t \in Tasks, ~At(t, "idle"), Holds(t)
  PROVE  Calls' = Calls
<1>1. \A u \in Tasks : (run'[u].at = "idle" <=> run[u].at = "idle")
                        /\ (run[u].at # "idle" => run'[u].duty = run[u].duty)
  BY DEF Holds, At
<1> QED
  BY <1>1, Zenon DEF Calls, At

(* An error or a return is the end of a call of Delivery.                  *)
LEMMA EndEnds ==
  ASSUME Typed, NEW t \in Tasks, ~At(t, "idle"), End(t)
  PROVE  Deliver!End(t)
<1>1. run'[t].at = "idle" /\ \A u \in Tasks \ {t} : run'[u] = run[u]
  BY IdleTypes DEF End, Typed, TypeOK
<1>2. Calls' = [u \in Tasks |-> IF run'[u].at = "idle" THEN NoDuty ELSE run'[u].duty]
  BY DEF Calls, At
<1>3. Calls' = [Calls EXCEPT ![t] = NoDuty]
  BY <1>1, <1>2 DEF Calls, At
<1>4. Calls[t] # NoDuty
  BY DeliveryView
<1> QED
  BY <1>3, <1>4 DEF Deliver!End, Deliver!NoDuty, NoDuty

(* From the emulation to the decision a call goes on, throws, or returns   *)
(* because it was told not to send.                                        *)
LEMMA DecideEnds ==
  ASSUME Typed, NEW t \in Tasks, NEW current, NEW recommended,
         Decide(t, current, recommended)
  PROVE  \/ Holds(t) /\ UNCHANGED dutyVars
         \/ Throw(t)
         \/ ~Sends /\ Return(t)
<1>1. CASE Leave(t) /\ UNCHANGED dutyVars
  BY <1>1 DEF Leave, Holds, Typed, TypeOK, Call
<1>2. CASE RetryLater(t) /\ UNCHANGED dutyVars
  <2>1. /\ run'[t] = [Idle EXCEPT !.at = "emulate", !.duty = run[t].duty,
                                  !.attempts = run[t].attempts + 1]
        /\ \A u \in Tasks \ {t} : run'[u] = run[u]
    BY <1>2 DEF RetryLater, Typed, TypeOK
  <2>2. run'[t].at = "emulate" /\ run'[t].duty = run[t].duty
    BY <2>1 DEF Idle
  <2> QED
    BY <1>2, <2>1, <2>2 DEF Holds
<1>3. CASE End(t) /\ UNCHANGED dutyVars
  BY <1>3 DEF Throw
<1>4. CASE mode = "dry" /\ Return(t)
  BY <1>4 DEF Sends
<1>5. CASE Throw(t)
  BY <1>5
<1> QED
  BY <1>1, <1>2, <1>3, <1>4, <1>5 DEF Decide

(* What the callers see of these steps.                                    *)
LEMMA PrepareEnds ==
  ASSUME Typed, NEW t \in Tasks, Emulate(t) \/ Populate(t) \/ Gate(t) \/ Refreshed(t)
  PROVE  /\ IsPreparing(t) /\ UNCHANGED <<pool, included>>
         /\ \/ Holds(t) /\ UNCHANGED dutyVars
            \/ Throw(t)
            \/ ~Sends /\ Return(t)
<1>1. IsPreparing(t) /\ UNCHANGED <<pool, included>>
  BY DEF Emulate, Populate, Gate, Refreshed, IsPreparing, At, chainVars
<1>2. CASE Emulate(t)
  <2>1. ASSUME NEW m, run' = [run EXCEPT ![t].at = "populate", ![t].maxFee = m]
        PROVE  Holds(t)
    BY <2>1 DEF Holds, Typed, TypeOK, Call
  <2> QED
    BY <1>1, <1>2, <2>1 DEF Emulate, Sends
<1>3. CASE Populate(t)
  BY <1>1, <1>3 DEF Populate, Holds, Typed, TypeOK, Call
<1>4. CASE Gate(t) /\ IsStale(height)
  BY <1>1, <1>4 DEF Gate, Holds, Typed, TypeOK, Call
<1>5. CASE Gate(t) /\ ~IsStale(height)
  BY <1>1, <1>5, DecideEnds DEF Gate
<1>6. CASE Refreshed(t)
  BY <1>1, <1>6, DecideEnds DEF Refreshed
<1> QED
  BY <1>2, <1>3, <1>4, <1>5, <1>6

(* A call that has yet to send leaves nothing behind when it throws.       *)
LEMMA MayThrow ==
  ASSUME Typed, PaidInv, NEW t \in Tasks, IsPreparing(t)
  PROVE  Deliver!MayStop(t)
<1>1. IsFresh(run[t].duty) /\ Calls[t] = run[t].duty
  BY DeliveryView DEF PaidInv, Fresh, IsPreparing
<1> QED
  BY <1>1 DEF Deliver!MayStop, Deliver!Unpaid, IsFresh

(* The steps of the chain, of which the callers see no more than           *)
(* transactions that disappear.                                            *)
LEMMA ChainIsWorld ==
  ASSUME Typed, Include \/ EmptyBlock \/ OthersProve \/ Reorg \/ Drop
  PROVE  Deliver!World
<1>1. UNCHANGED <<run, settled, glimpsed, repeated>>
  BY DEF Include, EmptyBlock, OthersProve, Reorg, Drop, dutyVars
<1>2. \A i \in included : Older(i).tx = i.tx
  BY OlderTypes DEF Typed, TypeOK
<1>3. Known' \subseteq Known
  <2>1. CASE Include
    <3>1. PICK x \in pool :
            /\ pool' = pool \ {x}
            /\ included' = {Older(i) : i \in included} \cup
                             {[tx |-> x, ok |-> x.duty \notin Proven, conf |-> 1]}
      BY <2>1 DEF Include
    <3>2. \A k \in included' : k.tx = x \/ \E i \in included : k = Older(i)
      BY <3>1
    <3> QED
      BY <1>2, <3>1, <3>2 DEF Known
  <2>2. CASE EmptyBlock
    BY <1>2, <2>2 DEF EmptyBlock, Known
  <2>3. CASE OthersProve \/ Reorg \/ Drop
    BY <2>3 DEF OthersProve, Reorg, Drop, Known
  <2> QED
    BY <2>1, <2>2, <2>3
<1> QED
  BY <1>1, <1>3 DEF Deliver!World, Calls, At

(* A transaction is sent for the duty of its call, which had none, or one  *)
(* of an unclear attempt.                                                  *)
LEMMA EnterPays ==
  ASSUME Typed, PaidInv, NEW t \in Tasks, At(t, "send"), Enter(TxOf(t)), UNCHANGED included
  PROVE  Deliver!Pays(t)
<1>1. Known' \ Known \subseteq {TxOf(t)}
  BY DEF Enter, Known
<1>2. Calls[t] # NoDuty /\ Calls[t] = run[t].duty
  BY DeliveryView DEF At
<1>3. TxOf(t).duty = run[t].duty
  BY DEF TxOf
<1>4. IsFresh(run[t].duty)
  BY DEF PaidInv, Fresh, IsPreparing, At
<1> QED
  BY <1>1, <1>2, <1>3, <1>4
     DEF Deliver!Pays, Deliver!Unpaid, Deliver!NoDuty, NoDuty, IsFresh

(* The end of a wait: a receipt that says success is of a lasting proof,   *)
(* one that says failure is of a duty that others proved, or of a doubtful *)
(* one.                                                                    *)
LEMMA ReceiptIsClear ==
  ASSUME Typed, PaidInv, NEW t \in Tasks, NEW i \in Receipts(t, Confirmations),
         At(t, "wait")
  PROVE  /\ i.ok => run[t].duty \in FinallyProven
         /\ ~i.ok => Deliver!MayStop(t)
<1>1. i \in included /\ i.tx.duty = run[t].duty /\ i.conf = Confirmations
  BY Sorts DEF Receipts, TxOf, Typed, TypeOK, Inclusion
<1>2. i.ok => run[t].duty \in FinallyProven
  BY <1>1 DEF FinallyProven, Succeeded
<1>3. ~i.ok => run[t].duty \in repeated \cup byOthers
  BY <1>1 DEF PaidInv, Placed
<1>4. Calls[t] = run[t].duty
  BY DeliveryView DEF At
<1> QED
  BY <1>2, <1>3, <1>4 DEF Deliver!MayStop, FinallyProven

(* The steps of one task are steps of its caller's call.                   *)
LEMMA CallIsDelivered ==
  ASSUME Typed, PaidInv, NEW t \in Tasks, Settle(t) \/ SentUnanswered(t) \/ Fail(t)
  PROVE  \/ Deliver!World
         \/ Deliver!Ask(t) \/ Deliver!Skip(t) \/ Deliver!Pay(t) \/ Deliver!Return(t)
         \/ Deliver!Throw(t) \/ Deliver!Lose(t)
<1> USE DEF dutyVars
<1>n. Deliver!NoDuty = NoDuty
  BY DEF Deliver!NoDuty, NoDuty
<1>k. UNCHANGED <<pool, included>> => Known' = Known
  BY DEF Known
<1>h. ASSUME Holds(t), ~At(t, "idle"), UNCHANGED <<pool, included>>, UNCHANGED dutyVars
      PROVE  Deliver!World
  BY <1>h, <1>k, HoldsStutters DEF Deliver!World
<1>t. ASSUME IsPreparing(t), Throw(t), UNCHANGED <<pool, included>>
      PROVE  Deliver!Throw(t)
  <2>1. Deliver!MayStop(t) /\ Deliver!End(t)
    BY <1>t, MayThrow, EndEnds DEF IsPreparing, Throw
  <2> QED
    BY <1>t, <1>k, <2>1 DEF Deliver!Throw, Throw
<1>r. ASSUME ~At(t, "idle"), Return(t), UNCHANGED <<pool, included>>,
             ~Sends \/ run[t].duty \in FinallyProven
      PROVE  Deliver!Return(t)
  <2>1. Deliver!End(t) /\ Calls[t] = run[t].duty
    BY <1>r, EndEnds, DeliveryView DEF Return
  <2> QED
    BY <1>r, <1>k, <2>1 DEF Deliver!Return, Return
<1>1. CASE Start(t)
  <2>1. PICK d \in Duties \ settled : /\ Owner[d] = t
                                      /\ run' = [run EXCEPT ![t].at = "emulate", ![t].duty = d]
    BY <1>1 DEF Start, NextDuty
  <2>2. /\ run'[t].at = "emulate" /\ run'[t].duty = d
        /\ \A u \in Tasks \ {t} : run'[u] = run[u]
    BY <2>1 DEF Typed, TypeOK, Call
  <2>3. Calls' = [u \in Tasks |-> IF run'[u].at = "idle" THEN NoDuty ELSE run'[u].duty]
    BY DEF Calls, At
  <2>4. Calls' = [Calls EXCEPT ![t] = d]
    BY <2>2, <2>3 DEF Calls, At
  <2>5. \A u \in Tasks : Calls[u] # d
    <3> TAKE u \in Tasks
    <3>1. CASE At(u, "idle")
      BY <3>1, <1>1, DeliveryView, ExecutionConstants DEF NoDuty
    <3>2. CASE ~At(u, "idle")
      <4>1. u # t
        BY <1>1, <3>2 DEF Start
      <4> QED
        BY <2>1, <3>2, <4>1, DeliveryView
    <3> QED
      BY <3>1, <3>2
  <2>6. Calls[t] = NoDuty
    BY <1>1, DeliveryView DEF Start
  <2>7. Deliver!Ask(t)
    BY <1>1, <1>k, <1>n, <2>4, <2>5, <2>6 DEF Deliver!Ask, Start, chainVars
  <2> QED
    BY <2>7
<1>2. CASE FindProven(t)
  <2>1. Calls[t] = NoDuty /\ Calls' = Calls
    BY <1>2, DeliveryView DEF FindProven, Calls, At
  <2>2. Deliver!Skip(t)
    BY <1>2, <1>k, <1>n, <2>1 DEF Deliver!Skip, FindProven, NextDuty, chainVars
  <2> QED
    BY <2>2
<1>3. CASE Emulate(t) \/ Populate(t) \/ Gate(t) \/ Refreshed(t)
  BY <1>3, <1>h, <1>t, <1>r, PrepareEnds DEF IsPreparing
<1>4. CASE Fail(t)
  BY <1>4, <1>t DEF Fail, IsPreparing, At, chainVars
<1>5. CASE Send(t)
  <2>1. CASE Enter(TxOf(t)) /\ Goto(t, "wait") /\ UNCHANGED dutyVars
    <3>1. Deliver!Pays(t)
      BY <1>5, <2>1, EnterPays DEF Send
    <3>2. Holds(t) /\ ~At(t, "idle")
      BY <1>5, <2>1 DEF Send, Goto, Holds, At, Typed, TypeOK, Call
    <3>3. Deliver!Pay(t)
      BY <2>1, <3>1, <3>2, HoldsStutters DEF Deliver!Pay
    <3> QED
      BY <3>3
  <2>2. CASE Throw(t) /\ UNCHANGED pool
    BY <1>5, <1>t, <2>2 DEF Send, IsPreparing, At
  <2> QED
    BY <1>5, <2>1, <2>2 DEF Send
<1>6. CASE SentUnanswered(t)
  <2>1. Deliver!Pays(t)
    BY <1>6, EnterPays DEF SentUnanswered
  <2>2. Deliver!End(t) /\ Calls[t] = run[t].duty
    BY <1>6, EndEnds, DeliveryView DEF SentUnanswered, At
  <2>3. Deliver!Lose(t)
    BY <1>6, <2>1, <2>2 DEF Deliver!Lose, SentUnanswered, MayRepeat
  <2> QED
    BY <2>3
<1>7. CASE Receive(t)
  <2>1. PICK i \in Receipts(t, Confirmations) : IF i.ok THEN Return(t) ELSE Throw(t)
    BY <1>7 DEF Receive
  <2>2. At(t, "wait") /\ ~At(t, "idle") /\ UNCHANGED <<pool, included>>
    BY <1>7 DEF Receive, At, chainVars
  <2>3. CASE i.ok
    BY <1>r, <2>1, <2>2, <2>3, ReceiptIsClear
  <2>4. CASE ~i.ok
    <3>1. Deliver!MayStop(t) /\ Throw(t) /\ Deliver!End(t)
      BY <2>1, <2>2, <2>4, ReceiptIsClear, EndEnds DEF Throw
    <3>2. Deliver!Throw(t)
      BY <1>k, <2>2, <3>1 DEF Deliver!Throw, Throw
    <3> QED
      BY <3>2
  <2> QED
    BY <2>3, <2>4
<1>8. CASE Timeout(t)
  <2>1. ~At(t, "idle") /\ UNCHANGED <<pool, included>> /\ End(t) /\ MayRepeat({run[t].duty})
    BY <1>8 DEF Timeout, At, chainVars
  <2>2. Deliver!End(t) /\ Calls[t] = run[t].duty /\ Calls[t] # NoDuty
    BY <2>1, EndEnds, DeliveryView
  <2>3. Deliver!Lose(t)
    BY <1>k, <1>n, <2>1, <2>2 DEF Deliver!Lose, Deliver!Pays, MayRepeat
  <2> QED
    BY <2>3
<1> QED
  BY <1>1, <1>2, <1>3, <1>4, <1>5, <1>6, <1>7, <1>8 DEF Settle

(* A restart ends all calls; only those that waited leave something.       *)
LEMMA RestartIsDelivered ==
  ASSUME Typed, PaidInv, Restart
  PROVE  Deliver!Restart
<1> DEFINE D == {run[t].duty : t \in {u \in Tasks : At(u, "wait")}}
<1>1. Calls' = [t \in Tasks |-> NoDuty]
  <2>1. run' = [t \in Tasks |-> Idle]
    BY DEF Restart
  <2>2. Calls' = [t \in Tasks |-> IF run'[t].at = "idle" THEN NoDuty ELSE run'[t].duty]
    BY DEF Calls, At
  <2> QED
    BY <2>1, <2>2, IdleTypes
<1>2. /\ repeated' = repeated \cup D /\ UNCHANGED <<settled, glimpsed>>
      /\ Known' = Known
  BY DEF Restart, MayRepeat, chainVars, Known
<1>3. D \in SUBSET {Calls[c] : c \in {b \in Tasks : Calls[b] # NoDuty}}
  <2>1. \A t \in Tasks : At(t, "wait") => Calls[t] = run[t].duty /\ Calls[t] # NoDuty
    BY DeliveryView DEF At
  <2> QED
    BY <2>1
<1>4. \A c \in Tasks : Calls[c] \in D \cup {NoDuty} \/ Deliver!MayStop(c)
  <2> TAKE c \in Tasks
  <2>1. CASE At(c, "idle")
    BY <2>1, DeliveryView
  <2>2. CASE At(c, "wait")
    <3>1. Calls[c] = run[c].duty
      BY <2>2, DeliveryView DEF At
    <3> QED
      BY <2>2, <3>1
  <2>3. CASE IsPreparing(c)
    BY <2>3, MayThrow
  <2> QED
    BY <2>1, <2>2, <2>3 DEF IsPreparing
<1> HIDE DEF D
<1>5. Deliver!NoDuty = NoDuty
  BY DEF Deliver!NoDuty, NoDuty
<1> QED
  BY <1>1, <1>2, <1>3, <1>4, <1>5 DEF Deliver!Restart

(* For any tasks, duties, fees, retries, reorganisations and lost answers, *)
(* execute delivers: a return means a lasting proof, a plain error means   *)
(* that nothing was left behind, and only an unclear end is paid for again.*)
THEOREM CallsAreDelivered == Spec => KeepsDelivery
<1>1. Init => Deliver!Init
  <2> SUFFICES ASSUME Init PROVE Deliver!Init
    OBVIOUS
  <2>1. Calls = [t \in Tasks |-> NoDuty]
    BY IdleTypes DEF Init, Calls, At
  <2>2. Known = {} /\ FinallyProven = {}
    BY DEF Init, Known, FinallyProven, Succeeded
  <2> QED
    BY <2>1, <2>2 DEF Init, Deliver!Init, Deliver!NoDuty, NoDuty
<1>2. Typed /\ PaidInv /\ [Next]_vars => [Deliver!Next]_(Deliver!deliveryVars)
  <2> SUFFICES ASSUME Typed, PaidInv, [Next]_vars PROVE [Deliver!Next]_(Deliver!deliveryVars)
    OBVIOUS
  <2>1. FinallyProven \subseteq FinallyProven'
    BY FinallyProvenGrows
  <2>2. CASE UNCHANGED vars
    BY <2>2 DEF vars, chainVars, dutyVars, Deliver!deliveryVars, Calls, At, Known,
                FinallyProven, Succeeded
  <2>3. CASE Include \/ EmptyBlock \/ OthersProve \/ Reorg \/ Drop
    BY <2>1, <2>3, ChainIsWorld DEF Deliver!Next
  <2>4. CASE Restart
    BY <2>1, <2>4, RestartIsDelivered DEF Deliver!Next
  <2>5. CASE \E t \in Tasks : Settle(t) \/ SentUnanswered(t) \/ Fail(t)
    BY <2>1, <2>5, CallIsDelivered DEF Deliver!Next
  <2> QED
    BY <2>2, <2>3, <2>4, <2>5 DEF Next
<1> QED
  BY <1>1, <1>2, TypedInvariant, PaidInvariance, PTL DEF Spec, KeepsDelivery, Deliver!Spec
=============================================================================
