-------------------------- MODULE RootsWalkProofs --------------------------
(***************************************************************************)
(* Proofs about RootsWalk, for every chain, every set of events, every     *)
(* value of the constants and any number of faults.                        *)
(*                                                                         *)
(* Four invariants are proved one on top of the other: Shape (types, what *)
(* the program counters imply, the index never moves back while it is      *)
(* read), Owed (what leaves the stack was reported), Gapless (what is      *)
(* walked has no hole) and LagInv (processing stays behind the lag).       *)
(***************************************************************************)
EXTENDS RootsWalk, TLAPS

-----------------------------------------------------------------------------
(***************************************************************************)
(* Shape.                                                                  *)
(***************************************************************************)
CursorInv ==
  /\ step = "idle" <=> cur = None
  /\ step \in {"push", "slashings", "withdrawals", "balances", "check"} => cur \in stack
  /\ step = "setLast" => cur \in walked
  /\ loop = "child" => step = "idle" /\ last # None

IndexInv ==
  /\ indexed <= finalized /\ target <= finalized
  /\ savedIndexed <= indexed
  /\ update = "state" => indexed <= target
  /\ step \in {"withdrawals", "balances", "check"} => scanIndexed <= indexed

Shape == TypeOK /\ CursorInv /\ IndexInv

-----------------------------------------------------------------------------
(***************************************************************************)
(* Owed.                                                                   *)
(***************************************************************************)

(* What the scans of cur reported is at least what an index at scanIndexed *)
(* finds.                                                                  *)
Scanned(kind) == Found(cur, kind, scanIndexed) \subseteq reported

ScanInv ==
  /\ step \in {"withdrawals", "balances", "check"} => Scanned("slashing")
  /\ step \in {"balances", "check"} => Scanned("withdrawal")
  /\ step = "check" => Scanned("balance")
  /\ step = "purge" => Discharged(cur) \/ cur \in overtaken

WalkedInv ==
  \A b \in walked \ (overtaken \cup unsaved) :
    Discharged(b) \/ (b \in stack /\ b \in savedStack)

(* The two copies of the stack differ only by roots that owe nothing and   *)
(* by a root whose push is not written.                                    *)
CopiesInv ==
  /\ \A r \in savedStack \ stack : Discharged(r) \/ r \in overtaken
  /\ \A r \in stack \ savedStack : r \in unsaved \/ (step = "push" /\ r = cur)

Owed == ScanInv /\ WalkedInv /\ CopiesInv

-----------------------------------------------------------------------------
(***************************************************************************)
(* Gapless.                                                                *)
(***************************************************************************)

(* Nothing between the cold start and x is left out. *)
WalkedBelow(x) ==
  anchor # None => \A b \in Blocks : anchor <= b /\ b < x => b \in walked

Reached == stack \cup savedStack \cup {last, savedLast, cur}

ReachedInv ==
  /\ last \in walked \cup {None}
  /\ savedLast \in walked \cup {None}
  /\ last = None => savedLast = None
  /\ anchor = None <=> walked = {}
  /\ last # None \/ StartRoot # None => \A x \in Reached : WalkedBelow(x)

(* A cold start can only land above, or on, everything pushed before it. *)
ColdInv ==
  /\ StartRoot <= finalized
  /\ \A x \in stack \cup savedStack \cup {cur} : x <= finalized
  /\ StartRoot # None => anchor \in {None, StartRoot}
  /\ StartRoot # None /\ anchor = None => stack \cup savedStack \subseteq {StartRoot}
  /\ last = None /\ step # "idle" =>
       IF StartRoot # None THEN cur = StartRoot
                           ELSE \A x \in stack \cup savedStack : x <= cur

Gapless == ReachedInv /\ ColdInv

-----------------------------------------------------------------------------
(***************************************************************************)
(* Shape is inductive.                                                     *)
(***************************************************************************)
LEMMA ConstantTypes ==
  /\ \A b \in Blocks : b \in Nat /\ b # 0
  /\ \A b \in Slots : b \in Nat
  /\ StartRoot \in Slots
  /\ LagSlots \in Nat /\ MaxFaults \in Nat /\ ClockLead \in Nat
BY BlocksAreSlots, WalkConstants DEF Slots, None

(* The two ways processNext changes hands. *)
LEMMA IdleShape ==
  Idle => step' = "idle" /\ cur' = None
BY Zenon DEF Idle

(* A root taken by the loop: processing starts with loading its block.     *)
LEMMA StartShape ==
  ASSUME NEW r, StartProcessing(r)
  PROVE  step' = "load" /\ cur' = r /\ loop' = "poll"
BY DEF StartProcessing

(* The initial state has the types and the control shape.                  *)
LEMMA ShapeInit == Init => Shape
BY ConstantTypes
   DEF Init, IndexInit, NoIndex, StackInit, Shape, TypeOK, StackTypeOK, CursorInv, IndexInv, Slots,
       Steps, None

(* Every step keeps the types and the control shape.                       *)
LEMMA ShapeNext == Shape /\ [Next]_vars => Shape'
<1> SUFFICES ASSUME Shape, [Next]_vars PROVE Shape'
  OBVIOUS
<1> USE ConstantTypes
    DEF Shape, TypeOK, StackTypeOK, CursorInv, IndexInv, Slots, Steps, None, NoIndex,
        stackVars, loopVars, procVars, indexVars, historyVars
<1>1. CASE Finalize
  BY <1>1 DEF Finalize
<1>2. CASE Boot
  BY <1>2 DEF Boot, StartIndexing
<1>3. CASE Booted
  BY <1>3 DEF Booted
<1>4. CASE Poll
  <2>1. StartRoot # None => StartRoot \in Blocks
    OBVIOUS
  <2>2. PICK now \in finalized .. (finalized + ClockLead) :
          UpdateIndexIfDue(finalized, now)
    BY <1>4 DEF Poll
  <2>3. /\ indexed' = indexed /\ savedIndexed' = savedIndexed
        /\ update' \in {"idle", "state", "save"} /\ target' \in Slots
        /\ target' <= finalized /\ (update' = "state" => indexed' <= target')
    BY <2>2 DEF UpdateIndexIfDue, StartIndexing
  <2>4. CASE step # "idle"
    BY <1>4, <2>3, <2>4 DEF Poll, Sleep, GetNext
  <2>5. CASE step = "idle"
    <3>1. GetNext(finalized)
      BY <1>4, <2>5 DEF Poll
    <3>2. UNCHANGED <<finalized, stackVars, faults, historyVars>> /\ lastHeader' = finalized
      BY <1>4 DEF Poll
    <3>3. CASE last = None /\ StartProcessing(Known(finalized))
      BY <2>1, <2>3, <2>5, <3>2, <3>3, StartShape DEF Known
    <3>4. ASSUME NEW r \in stack, StartUnlessHeld(r, finalized) PROVE Shape'
      BY <2>3, <2>5, <3>2, <3>4, StartShape DEF StartUnlessHeld, Sleep
    <3>5. CASE Sleep
      BY <2>3, <2>5, <3>2, <3>5 DEF Sleep
    <3>6. CASE last # None /\ loop' = "child" /\ UNCHANGED procVars
      BY <2>3, <2>5, <3>2, <3>6
    <3> QED
      BY <3>1, <3>3, <3>4, <3>5, <3>6 DEF GetNext
  <2> QED
    BY <2>4, <2>5
<1>5. CASE GetChild
  BY <1>5, StartShape DEF GetChild, StartUnlessHeld, Sleep, IsChild
<1>6. CASE LoopFail
  BY <1>6 DEF LoopFail, Fault, Sleep
<1>7. CASE IndexerCommit
  BY <1>7 DEF IndexerCommit, CommitIndex
<1>8. CASE IndexerSaved
  BY <1>8 DEF IndexerSaved, IndexSaved
<1>9. CASE IndexerFail
  BY <1>9 DEF IndexerFail, AbandonIndexing, Fault
<1>10. CASE Load
  BY <1>10 DEF Load, PushInMemory, Continue
<1>11. CASE PushSaved
  BY <1>11 DEF PushSaved, WriteStorage, Continue
<1>12. CASE PushFail
  BY <1>12, IdleShape DEF PushFail, Fault
<1>13. CASE ScanSlashings
  BY <1>13 DEF ScanSlashings, Continue, Found, EventsOf
<1>14. CASE ScanWithdrawals
  BY <1>14 DEF ScanWithdrawals, Continue, Found, EventsOf
<1>15. CASE ScanBalances
  BY <1>15 DEF ScanBalances, Continue, Found, EventsOf
<1>16. CASE DutyFail
  BY <1>16, IdleShape DEF DutyFail, Fault, EventsOf
<1>17. CASE PurgeTrusted
  BY <1>17 DEF PurgeTrusted, PurgeInMemory, Continue
<1>18. CASE KeepUntrusted
  BY <1>18 DEF KeepUntrusted, SetLast, SetLastInMemory, Continue
<1>19. CASE PurgeSaved
  BY <1>19 DEF PurgeSaved, Continue
<1>20. CASE LastSaved
  BY <1>20, IdleShape DEF LastSaved, WriteInfo
<1>21. CASE SaveFail
  BY <1>21, IdleShape DEF SaveFail, Fault
<1>22. CASE Restart
  BY <1>22, IdleShape DEF Restart, ReadIndexBack, Fault, ReadBack
<1>23. CASE UNCHANGED vars
  BY <1>23 DEF vars
<1> QED
  BY <1>1, <1>2, <1>3, <1>4, <1>5, <1>6, <1>7, <1>8, <1>9, <1>10, <1>11, <1>12,
     <1>13, <1>14, <1>15, <1>16, <1>17, <1>18, <1>19, <1>20, <1>21, <1>22, <1>23 DEF Next

-----------------------------------------------------------------------------
(***************************************************************************)
(* Owed is inductive.                                                      *)
(***************************************************************************)

(* A scan for one duty, with an index within the window of that duty,      *)
(* finds every event of the block that the duty must report: the windows   *)
(* of isTrustedFor... are as wide as the protocol's delays allow.          *)
LEMMA TrustedScanIsComplete ==
  ASSUME NEW b \in Blocks, NEW kind \in Kinds, NEW s \in Nat,
         WithinDelay(s, b, KindDelay(kind)),
         NEW e \in EventsOf(b), e.kind = kind
  PROVE  e \in Found(b, kind, s)
<1>1. e \in Events /\ e.slot = b /\ e.val \in Validators
  BY WalkConstants DEF EventsOf
<1>2. b \in Nat /\ Appears[e.val] \in Nat
  BY <1>1, WalkConstants, BlocksAreSlots
<1>3. KindDelay(kind) \in Nat
  BY DelaysAreSlots DEF KindDelay
<1>4. b >= Appears[e.val] + KindDelay(kind)
  BY <1>1, ProtocolDelays
<1>5. Appears[e.val] <= s
  BY <1>2, <1>3, <1>4 DEF WithinDelay
<1> QED
  BY <1>1, <1>5 DEF Found, EventsOf

(* A later index finds no less. *)
LEMMA FoundMonotone ==
  ASSUME NEW b, NEW kind, NEW s \in Nat, NEW t \in Nat, s <= t
  PROVE  Found(b, kind, s) \subseteq Found(b, kind, t)
<1> SUFFICES ASSUME NEW e \in Found(b, kind, s) PROVE Appears[e.val] <= t
  BY DEF Found
<1>1. Appears[e.val] \in Nat /\ Appears[e.val] <= s
  BY WalkConstants DEF Found, EventsOf
<1> QED
  BY <1>1

(* Three complete scans discharge the block. *)
LEMMA ScansDischarge ==
  ASSUME NEW b \in Blocks, NEW s \in Nat, IsTrustedForEveryDuty(s, b),
         \A kind \in Kinds : Found(b, kind, s) \subseteq reported
  PROVE  Discharged(b)
<1> SUFFICES ASSUME NEW e \in EventsOf(b) PROVE e \in reported
  BY DEF Discharged
<1>1. e.kind \in Kinds
  BY WalkConstants DEF EventsOf
<1>2. WithinDelay(s, b, KindDelay(e.kind))
  BY <1>1 DEF KindDelay, Kinds, IsTrustedForEveryDuty, IsTrustedForSlashings,
     IsTrustedForBalanceChanges, IsTrustedForFullWithdrawals
<1> QED
  BY <1>1, <1>2, TrustedScanIsComplete

(* Nothing is walked initially, so nothing is owed.                        *)
LEMMA OwedInit == Init => Owed
BY DEF Init, StackInit, Owed, ScanInv, WalkedInv, CopiesInv

(* A step that touches neither the stack, the scans nor the history keeps  *)
(* Owed, whoever takes it.                                                 *)
LEMMA OwedQuiet ==
  ASSUME Owed, UNCHANGED <<stack, savedStack, historyVars>>,
         \/ step' \in {"idle", "load"} /\ step # "push"
         \/ UNCHANGED procVars
  PROVE  Owed'
<1> USE DEF Owed, historyVars, procVars
<1>1. ScanInv'
  BY DEF ScanInv, Scanned, Discharged
<1>2. WalkedInv'
  BY DEF WalkedInv, Discharged
<1>3. CopiesInv'
  BY DEF CopiesInv, Discharged
<1> QED
  BY <1>1, <1>2, <1>3

(* Reporting more, and going idle or on to the next scan, keeps what is    *)
(* owed about the walked roots and about the two copies.                   *)
LEMMA OwedReport ==
  ASSUME Owed, UNCHANGED <<stack, savedStack, walked, overtaken, unsaved>>,
         reported \subseteq reported', step # "push"
  PROVE  WalkedInv' /\ CopiesInv'
BY DEF Owed, WalkedInv, CopiesInv, Discharged

(* Every step keeps a copy of each root that still owes a report.          *)
LEMMA OwedNext == Shape /\ Owed /\ [Next]_vars => Owed'
<1> SUFFICES ASSUME Shape, Owed, [Next]_vars PROVE Owed'
  OBVIOUS
<1>a. /\ cur \in Slots /\ (step # "idle" => cur \in Blocks)
      /\ indexed \in Nat /\ scanIndexed \in Nat
  BY ConstantTypes DEF Shape, TypeOK, CursorInv, Slots, None
<1>1. CASE Finalize
  BY <1>1, OwedQuiet DEF Finalize, stackVars
<1>2. CASE Boot
  BY <1>2, OwedQuiet DEF Boot, stackVars
<1>3. CASE Booted
  BY <1>3, OwedQuiet DEF Booted, stackVars
<1>4. CASE Poll
  <2>1. \/ step' \in {"idle", "load"} /\ step # "push"
        \/ UNCHANGED procVars
    BY <1>4 DEF Poll, GetNext, StartUnlessHeld, StartProcessing, Sleep
  <2> QED
    BY <1>4, <2>1, OwedQuiet DEF Poll, stackVars
<1>5. CASE GetChild
  <2>1. \/ step' \in {"idle", "load"} /\ step # "push"
        \/ UNCHANGED procVars
    BY <1>5 DEF GetChild, StartUnlessHeld, StartProcessing, Sleep, Shape, CursorInv
  <2> QED
    BY <1>5, <2>1, OwedQuiet DEF GetChild, stackVars
<1>6. CASE LoopFail
  BY <1>6, OwedQuiet DEF LoopFail, Sleep, stackVars
<1>7. CASE IndexerCommit
  BY <1>7, OwedQuiet DEF IndexerCommit, CommitIndex, stackVars
<1>8. CASE IndexerSaved
  BY <1>8, OwedQuiet DEF IndexerSaved, IndexSaved, stackVars
<1>9. CASE IndexerFail
  BY <1>9, OwedQuiet DEF IndexerFail, AbandonIndexing, stackVars
<1>10. CASE Load
  BY <1>10 DEF Load, PushInMemory, Continue, Owed, ScanInv, WalkedInv, CopiesInv,
     Discharged, stackVars, historyVars
<1>11. CASE PushSaved
  BY <1>11 DEF PushSaved, WriteStorage, Continue, Owed, ScanInv, WalkedInv, CopiesInv,
     Discharged
<1>12. CASE PushFail
  BY <1>12 DEF PushFail, Idle, Owed, ScanInv, WalkedInv, CopiesInv, Discharged, stackVars
<1>13. CASE ScanSlashings
  <2>1. WalkedInv' /\ CopiesInv'
    BY <1>13, OwedReport DEF ScanSlashings, stackVars
  <2>2. ScanInv'
    BY <1>13 DEF ScanSlashings, Continue, ScanInv, Scanned, Found, EventsOf
  <2> QED
    BY <2>1, <2>2 DEF Owed
<1>14. CASE ScanWithdrawals
  <2>1. WalkedInv' /\ CopiesInv'
    BY <1>14, OwedReport DEF ScanWithdrawals, stackVars
  <2>2. step = "withdrawals" /\ step' \in {"balances", "check"} /\ cur' = cur
    BY <1>14 DEF ScanWithdrawals, Continue
  <2>3. Found(cur, "withdrawal", scanIndexed) \subseteq reported'
    <3>1. scanIndexed <= indexed
      BY <2>2 DEF Shape, IndexInv
    <3> QED
      BY <1>a, <1>14, <3>1, FoundMonotone DEF ScanWithdrawals
  <2>4. Found(cur, "slashing", scanIndexed) \subseteq reported'
    BY <1>14, <2>2 DEF ScanWithdrawals, Owed, ScanInv, Scanned
  <2>5. step' = "check" => Found(cur, "balance", scanIndexed) = {}
    BY <1>14, BalancesAtEpochStart DEF ScanWithdrawals, Continue, Found, EventsOf
  <2>6. ScanInv'
    BY <1>14, <2>2, <2>3, <2>4, <2>5 DEF ScanWithdrawals, ScanInv, Scanned, Found, EventsOf
  <2> QED
    BY <2>1, <2>6 DEF Owed
<1>15. CASE ScanBalances
  <2>1. WalkedInv' /\ CopiesInv'
    BY <1>15, OwedReport DEF ScanBalances, stackVars
  <2>2. step = "balances" /\ step' = "check" /\ cur' = cur /\ scanIndexed <= indexed
    BY <1>15 DEF ScanBalances, Continue, Shape, IndexInv
  <2>3. Found(cur, "balance", scanIndexed) \subseteq reported'
    BY <1>a, <1>15, <2>2, FoundMonotone DEF ScanBalances
  <2>4. /\ Found(cur, "slashing", scanIndexed) \subseteq reported'
        /\ Found(cur, "withdrawal", scanIndexed) \subseteq reported'
    BY <1>15, <2>2 DEF ScanBalances, Owed, ScanInv, Scanned
  <2>5. ScanInv'
    BY <1>15, <2>2, <2>3, <2>4 DEF ScanBalances, ScanInv, Scanned, Found, EventsOf
  <2> QED
    BY <2>1, <2>5 DEF Owed
<1>16. CASE DutyFail
  <2>1. WalkedInv' /\ CopiesInv'
    BY <1>16, OwedReport DEF DutyFail, stackVars
  <2>2. ScanInv'
    BY <1>16 DEF DutyFail, Idle, ScanInv
  <2> QED
    BY <2>1, <2>2 DEF Owed
<1>17. CASE PurgeTrusted
  <2>1. Discharged(cur) \/ cur \in overtaken'
    <3>1. CASE IsTrustedForEveryDuty(scanIndexed, cur)
      <4>1. \A kind \in Kinds : Found(cur, kind, scanIndexed) \subseteq reported
        BY <1>17 DEF PurgeTrusted, Owed, ScanInv, Scanned, Kinds
      <4>2. cur \in Blocks
        BY <1>a, <1>17 DEF PurgeTrusted
      <4> QED
        BY <1>a, <3>1, <4>1, <4>2, ScansDischarge
    <3>2. CASE ~IsTrustedForEveryDuty(scanIndexed, cur)
      BY <1>17, <3>2 DEF PurgeTrusted
    <3> QED
      BY <3>1, <3>2
  <2>2. /\ stack' = stack \ {cur} /\ savedStack' = savedStack /\ overtaken \subseteq overtaken'
        /\ reported' = reported /\ walked' = walked /\ unsaved' = unsaved
        /\ step = "check" /\ step' = "purge" /\ cur' = cur
    BY <1>17 DEF PurgeTrusted, PurgeInMemory, Continue
  <2>3. WalkedInv'
    BY <2>1, <2>2 DEF Owed, WalkedInv, Discharged
  <2>4. CopiesInv'
    BY <2>1, <2>2 DEF Owed, CopiesInv, Discharged
  <2>5. ScanInv'
    BY <2>1, <2>2 DEF ScanInv, Discharged
  <2> QED
    BY <2>3, <2>4, <2>5 DEF Owed
<1>18. CASE KeepUntrusted
  <2>1. /\ UNCHANGED <<stack, savedStack, reported, overtaken, unsaved>>
        /\ walked' = walked \cup {cur} /\ step = "check" /\ step' = "setLast"
    BY <1>18 DEF KeepUntrusted, SetLast, SetLastInMemory, Continue
  <2>2. cur \in stack
    BY <2>1 DEF Shape, CursorInv
  <2> QED
    BY <2>1, <2>2 DEF Owed, ScanInv, WalkedInv, CopiesInv, Discharged
<1>19. CASE PurgeSaved
  <2>1. /\ savedStack' = stack /\ stack' = stack /\ unsaved' = unsaved \ stack
        /\ UNCHANGED <<reported, overtaken>>
        /\ walked' = walked \cup {cur} /\ step = "purge" /\ step' = "setLast"
    BY <1>19 DEF PurgeSaved, Continue
  <2>2. Discharged(cur) \/ cur \in overtaken
    BY <2>1 DEF Owed, ScanInv
  <2>3. WalkedInv'
    BY <2>1, <2>2 DEF Owed, WalkedInv, Discharged
  <2> QED
    BY <2>1, <2>3 DEF Owed, ScanInv, CopiesInv
<1>20. CASE LastSaved
  BY <1>20, OwedQuiet DEF LastSaved, WriteInfo, Idle
<1>21. CASE SaveFail
  BY <1>21, OwedQuiet DEF SaveFail, Idle, stackVars
<1>22. CASE Restart
  BY <1>22 DEF Restart, ReadIndexBack, ReadBack, Idle, Owed, ScanInv, WalkedInv, CopiesInv,
     Discharged, historyVars
<1>23. CASE UNCHANGED vars
  BY <1>23, OwedQuiet DEF vars, stackVars
<1> QED
  BY <1>1, <1>2, <1>3, <1>4, <1>5, <1>6, <1>7, <1>8, <1>9, <1>10, <1>11, <1>12,
     <1>13, <1>14, <1>15, <1>16, <1>17, <1>18, <1>19, <1>20, <1>21, <1>22, <1>23 DEF Next

-----------------------------------------------------------------------------
(***************************************************************************)
(* Gapless is inductive.                                                   *)
(***************************************************************************)
LEMMA GaplessInit == Init => Gapless
<1> SUFFICES ASSUME Init PROVE Gapless
  OBVIOUS
<1> USE DEF Init, StackInit
<1>1. StartRoot <= finalized
  BY ConstantTypes DEF Slots
<1>2. ReachedInv
  BY ConstantTypes DEF ReachedInv, Reached, WalkedBelow
<1>3. ColdInv
  BY <1>1, ConstantTypes DEF ColdInv, Slots, None
<1> QED
  BY <1>2, <1>3 DEF Gapless

(* The stack, the last root and the root in processing only lose members,  *)
(* the head only grows, and what is walked does not change.                *)
LEMMA GaplessQuiet ==
  ASSUME Shape, Gapless, finalized' \in Blocks, finalized <= finalized',
         UNCHANGED <<last, savedLast, walked, anchor>>,
         stack' \subseteq stack, savedStack' \subseteq stack \cup savedStack,
         \/ cur' = cur /\ (step' # "idle" => step # "idle")
         \/ cur' = None /\ step' = "idle"
  PROVE  Gapless'
<1>1. ReachedInv'
  BY ConstantTypes DEF Gapless, ReachedInv, Reached, WalkedBelow, Shape, TypeOK, Slots, None
<1>2. ColdInv'
  BY ConstantTypes DEF Gapless, ColdInv, Shape, TypeOK, StackTypeOK, Slots, None
<1> QED
  BY <1>1, <1>2 DEF Gapless

(* The root chosen next leaves no gap below it.                            *)
LEMMA GaplessStart ==
  ASSUME Shape, Gapless, NEW r \in Blocks, r <= finalized,
         step = "idle", cur' = r, step' = "load",
         UNCHANGED <<finalized, stackVars, walked, anchor>>,
         IF last = None THEN r = Known(finalized) ELSE WalkedBelow(r)
  PROVE  Gapless'
<1> USE DEF stackVars
<1>1. \A x : WalkedBelow(x) => WalkedBelow(x)'
  BY DEF WalkedBelow
<1>2. last = None /\ StartRoot # None => WalkedBelow(r)
  BY ConstantTypes DEF Gapless, ColdInv, Known, WalkedBelow, Slots, None
<1>3. ReachedInv'
  BY <1>1, <1>2 DEF Gapless, ReachedInv, Reached
<1>4. ColdInv'
  BY DEF Gapless, ColdInv, Known
<1> QED
  BY <1>3, <1>4 DEF Gapless

(* The child of the last root leaves no gap below it. *)
LEMMA ChildIsNext ==
  ASSUME Shape, Gapless, NEW c \in Blocks, IsChild(c, last), last # None
  PROVE  WalkedBelow(c)
<1> SUFFICES ASSUME anchor # None, NEW b \in Blocks, anchor <= b, b < c
             PROVE  b \in walked
  BY DEF WalkedBelow
<1>1. last \in walked /\ WalkedBelow(last)
  BY DEF Gapless, ReachedInv, Reached
<1>2. last \in Nat /\ b \in Nat /\ c \in Nat
  BY ConstantTypes DEF Shape, TypeOK, StackTypeOK, Slots
<1>3. b = last \/ b < last
  BY <1>2 DEF IsChild
<1> QED
  BY <1>1, <1>3 DEF WalkedBelow

(* Recording cur as the last root keeps the walk gapless; on a cold start  *)
(* it becomes the anchor.                                                  *)
LEMMA GaplessRecord ==
  ASSUME Shape, Gapless, step \in {"check", "purge"}, step' = "setLast",
         UNCHANGED <<finalized, savedLast, cur, stack>>,
         savedStack' \in {stack, savedStack},
         last' = cur, walked' = walked \cup {cur},
         anchor' = IF last = None THEN cur ELSE anchor
  PROVE  Gapless'
<1>1. /\ cur \in Blocks /\ cur \in Nat /\ cur # None
      /\ \A x \in Reached \cup {anchor} : x \in Nat
  BY ConstantTypes DEF Shape, TypeOK, StackTypeOK, CursorInv, Reached, Slots, None
<1>2. Reached' \subseteq Reached
  BY DEF Reached
<1>3. ASSUME NEW x \in Reached' PROVE WalkedBelow(x)'
  <2>1. CASE last # None \/ (StartRoot # None /\ anchor # None)
    <3>1. anchor' = anchor
      BY <2>1 DEF Gapless, ColdInv, Shape, CursorInv
    <3>2. WalkedBelow(x)
      BY <1>2, <1>3, <2>1 DEF Gapless, ReachedInv
    <3> QED
      BY <3>1, <3>2 DEF WalkedBelow
  <2>2. CASE last = None /\ ~(StartRoot # None /\ anchor # None)
    <3>1. \A y \in stack \cup savedStack : y <= cur
      BY <1>1, <2>2, ConstantTypes DEF Gapless, ColdInv, Shape, CursorInv
    <3>2. savedLast = None
      BY <2>2 DEF Gapless, ReachedInv
    <3>3. x <= cur /\ anchor' = cur
      BY <1>1, <2>2, <3>1, <3>2, <1>3 DEF Reached, None
    <3> QED
      BY <1>1, <1>2, <1>3, <3>3, ConstantTypes DEF WalkedBelow
  <2> QED
    BY <2>1, <2>2
<1>4. ReachedInv'
  BY <1>1, <1>3 DEF Gapless, ReachedInv
<1>5. ColdInv'
  BY <1>1 DEF Gapless, ColdInv, Shape, CursorInv
<1> QED
  BY <1>4, <1>5 DEF Gapless

(* Every step keeps the walk gapless: children follow their parents.       *)
LEMMA GaplessNext == Shape /\ Gapless /\ [Next]_vars => Gapless'
<1> SUFFICES ASSUME Shape, Gapless, [Next]_vars PROVE Gapless'
  OBVIOUS
<1>a. /\ finalized \in Blocks /\ finalized \in Nat
      /\ \A x \in stack : x \in Blocks /\ x <= finalized
  BY ConstantTypes DEF Shape, TypeOK, StackTypeOK, Gapless, ColdInv
<1> USE DEF stackVars, procVars, historyVars
<1>1. CASE Finalize
  BY <1>1, <1>a, GaplessQuiet, ConstantTypes DEF Finalize
<1>2. CASE Boot
  BY <1>2, <1>a, GaplessQuiet DEF Boot
<1>3. CASE Booted
  BY <1>3, <1>a, GaplessQuiet DEF Booted
<1>4. CASE Poll
  <2>1. UNCHANGED <<finalized, stackVars, faults, historyVars>>
    BY <1>4 DEF Poll
  <2>2. CASE UNCHANGED procVars
    BY <1>a, <2>1, <2>2, GaplessQuiet
  <2>3. ASSUME step = "idle", last = None, StartProcessing(Known(finalized))
        PROVE  Gapless'
    <3>1. Known(finalized) \in Blocks /\ Known(finalized) <= finalized
      BY <1>a, ConstantTypes DEF Known, Gapless, ColdInv, Slots, None
    <3> QED
      BY <2>1, <2>3, <3>1, GaplessStart DEF StartProcessing
  <2>4. ASSUME step = "idle", last # None, NEW r \in stack, StartProcessing(r)
        PROVE  Gapless'
    <3>1. WalkedBelow(r)
      BY <2>4 DEF Gapless, ReachedInv, Reached
    <3> QED
      BY <1>a, <2>1, <2>4, <3>1, GaplessStart DEF StartProcessing
  <2> QED
    BY <1>4, <2>2, <2>3, <2>4 DEF Poll, GetNext, StartUnlessHeld, Sleep
<1>5. CASE GetChild
  <2>1. UNCHANGED <<finalized, stackVars, historyVars>>
    BY <1>5 DEF GetChild
  <2>2. step = "idle" /\ last # None
    BY <1>5 DEF GetChild, Shape, CursorInv
  <2>3. CASE UNCHANGED procVars
    BY <1>a, <2>1, <2>3, GaplessQuiet
  <2>4. ASSUME NEW c \in Blocks, IsChild(c, last), c <= finalized,
               StartProcessing(c)
        PROVE  Gapless'
    BY <2>1, <2>2, <2>4, ChildIsNext, GaplessStart DEF StartProcessing
  <2> QED
    BY <1>5, <2>3, <2>4 DEF GetChild, StartUnlessHeld, Sleep
<1>6. CASE LoopFail
  BY <1>6, <1>a, GaplessQuiet DEF LoopFail, Sleep
<1>7. CASE IndexerCommit
  BY <1>7, <1>a, GaplessQuiet DEF IndexerCommit, CommitIndex
<1>8. CASE IndexerSaved
  BY <1>8, <1>a, GaplessQuiet DEF IndexerSaved, IndexSaved
<1>9. CASE IndexerFail
  BY <1>9, <1>a, GaplessQuiet DEF IndexerFail, AbandonIndexing
<1>10. CASE Load
  <2>1. /\ UNCHANGED <<finalized, savedStack, last, savedLast, cur, walked, anchor>>
        /\ stack' \subseteq stack \cup {cur} /\ step # "idle"
    BY <1>10 DEF Load, PushInMemory, Continue
  <2>2. ReachedInv'
    BY <2>1 DEF Gapless, ReachedInv, Reached, WalkedBelow
  <2>3. cur \in Nat
    BY ConstantTypes DEF Shape, TypeOK
  <2>4. last = None => walked = {} \/ anchor # None
    BY DEF Gapless, ReachedInv
  <2>5. StartRoot # None /\ anchor = None => cur = StartRoot
    BY <2>1 DEF Gapless, ColdInv, ReachedInv
  <2>6. ColdInv'
    BY <2>1, <2>3, <2>5 DEF Gapless, ColdInv
  <2> QED
    BY <2>2, <2>6 DEF Gapless
<1>11. CASE PushSaved
  BY <1>11, <1>a, GaplessQuiet DEF PushSaved, WriteStorage, Continue
<1>12. CASE PushFail
  BY <1>12, <1>a, GaplessQuiet DEF PushFail, Idle
<1>13. CASE ScanSlashings
  BY <1>13, <1>a, GaplessQuiet DEF ScanSlashings, Continue
<1>14. CASE ScanWithdrawals
  BY <1>14, <1>a, GaplessQuiet DEF ScanWithdrawals, Continue
<1>15. CASE ScanBalances
  BY <1>15, <1>a, GaplessQuiet DEF ScanBalances, Continue
<1>16. CASE DutyFail
  BY <1>16, <1>a, GaplessQuiet DEF DutyFail, Idle
<1>17. CASE PurgeTrusted
  BY <1>17, <1>a, GaplessQuiet DEF PurgeTrusted, PurgeInMemory, Continue
<1>18. CASE KeepUntrusted
  BY <1>18, GaplessRecord DEF KeepUntrusted, SetLast, SetLastInMemory, Continue
<1>19. CASE PurgeSaved
  BY <1>19, GaplessRecord DEF PurgeSaved, Continue
<1>20. CASE LastSaved
  <2>1. /\ UNCHANGED <<finalized, stack, savedStack, last, walked, anchor>>
        /\ savedLast' = last /\ cur' = None /\ step' = "idle"
    BY <1>20 DEF LastSaved, WriteInfo, Idle
  <2>2. ReachedInv'
    BY <2>1, ConstantTypes DEF Gapless, ReachedInv, Reached, WalkedBelow, Shape, TypeOK,
       Slots, None
  <2>3. ColdInv'
    BY <1>a, <2>1 DEF Gapless, ColdInv, None
  <2> QED
    BY <2>2, <2>3 DEF Gapless
<1>21. CASE SaveFail
  BY <1>21, <1>a, GaplessQuiet DEF SaveFail, Idle
<1>22. CASE Restart
  <2>1. /\ UNCHANGED <<finalized, savedStack, savedLast, walked, anchor>>
        /\ stack' = savedStack /\ last' = savedLast /\ cur' = None /\ step' = "idle"
    BY <1>22 DEF Restart, ReadIndexBack, ReadBack, Idle
  <2>2. ReachedInv'
    BY <2>1, ConstantTypes DEF Gapless, ReachedInv, Reached, WalkedBelow, Shape, TypeOK,
       Slots, None
  <2>3. ColdInv'
    BY <1>a, <2>1 DEF Gapless, ColdInv, None
  <2> QED
    BY <2>2, <2>3 DEF Gapless
<1>23. CASE UNCHANGED vars
  BY <1>23, <1>a, GaplessQuiet DEF vars
<1> QED
  BY <1>1, <1>2, <1>3, <1>4, <1>5, <1>6, <1>7, <1>8, <1>9, <1>10, <1>11, <1>12,
     <1>13, <1>14, <1>15, <1>16, <1>17, <1>18, <1>19, <1>20, <1>21, <1>22, <1>23 DEF Next

-----------------------------------------------------------------------------
(***************************************************************************)
(* Lagged is inductive, given the other three.                             *)
(***************************************************************************)
LagInv == lastHeader <= finalized /\ LagKeepsDistance

(* A root that passes the gate is far enough behind the header it was      *)
(* judged against, hence behind the finalized block of now.                *)
LEMMA GateKeepsDistance ==
  ASSUME NEW r \in Nat, NEW h \in Nat, NEW f \in Nat,
         h <= f, r <= f, ~HeldByLag(r, h)
  PROVE  r + LagSlots <= f
BY ConstantTypes DEF HeldByLag

(* A step that takes no new root and moves neither last nor anchor.        *)
LEMMA LagQuiet ==
  ASSUME Shape, LagInv, finalized' \in Nat, finalized' >= finalized,
         lastHeader' \in {lastHeader, None, finalized},
         last' = last, anchor' = anchor, cur' = cur,
         step = "idle" => step' = "idle"
  PROVE  LagInv'
BY ConstantTypes DEF LagInv, LagKeepsDistance, Shape, TypeOK, StackTypeOK, Slots, None

(* A step after which no root is in processing.                            *)
LEMMA LagIdle ==
  ASSUME LagInv, Shape, step' = "idle", finalized' = finalized,
         lastHeader' \in {lastHeader, None}
  PROVE  LagInv'
BY ConstantTypes DEF LagInv, LagKeepsDistance, Shape, TypeOK, None

(* The last processed root is recorded: a cold start becomes the anchor.   *)
LEMMA LagRecord ==
  ASSUME LagInv, step # "idle",
         UNCHANGED <<finalized, lastHeader, cur>>,
         last = None => anchor' = cur, last # None => anchor' = anchor
  PROVE  LagInv'
BY DEF LagInv, LagKeepsDistance

(* Every step keeps the distance.                                          *)
LEMMA LagNext == Shape /\ Gapless /\ LagInv /\ [Next]_vars => LagInv'
<1> SUFFICES ASSUME Shape, Gapless, LagInv, [Next]_vars PROVE LagInv'
  OBVIOUS
<1>a. /\ finalized \in Nat /\ lastHeader \in Nat /\ cur \in Nat
      /\ \A x \in stack : x \in Nat /\ x <= finalized
  BY ConstantTypes DEF Shape, TypeOK, StackTypeOK, Gapless, ColdInv
<1> USE DEF stackVars, loopVars, procVars, historyVars
<1>1. CASE Finalize
  BY <1>1, <1>a, LagQuiet, ConstantTypes DEF Finalize
<1>2. CASE Boot
  BY <1>2, <1>a, LagQuiet DEF Boot
<1>3. CASE Booted
  BY <1>3, <1>a, LagQuiet DEF Booted
<1>4. CASE Poll
  <2>1. /\ UNCHANGED <<finalized, stackVars, faults, historyVars>>
        /\ lastHeader' = finalized
    BY <1>4 DEF Poll
  <2>2. CASE UNCHANGED procVars
    BY <1>a, <2>1, <2>2, LagQuiet
  <2>3. CASE last = None
    BY <1>a, <2>1, <2>3 DEF LagInv, LagKeepsDistance
  <2>4. ASSUME NEW r \in stack, ~HeldByLag(r, finalized), StartProcessing(r)
        PROVE  LagInv'
    <3>1. r + LagSlots <= finalized
      BY <1>a, <2>4, GateKeepsDistance
    <3> QED
      BY <1>a, <2>1, <2>4, <3>1 DEF StartProcessing, LagInv, LagKeepsDistance
  <2> QED
    BY <1>4, <2>2, <2>3, <2>4 DEF Poll, GetNext, StartUnlessHeld, Sleep
<1>5. CASE GetChild
  <2>1. UNCHANGED <<finalized, stackVars, lastHeader, historyVars>>
    BY <1>5 DEF GetChild
  <2>2. CASE UNCHANGED procVars
    BY <1>a, <2>1, <2>2, LagQuiet
  <2>3. ASSUME NEW c \in Blocks, c <= finalized, ~HeldByLag(c, lastHeader),
               StartProcessing(c)
        PROVE  LagInv'
    <3>1. c + LagSlots <= finalized
      BY <1>a, <2>3, GateKeepsDistance, ConstantTypes DEF LagInv
    <3> QED
      BY <2>1, <2>3, <3>1 DEF StartProcessing, LagInv, LagKeepsDistance
  <2> QED
    BY <1>5, <2>2, <2>3 DEF GetChild, StartUnlessHeld, Sleep
<1>6. CASE LoopFail
  BY <1>6, <1>a, LagQuiet DEF LoopFail, Sleep
<1>7. CASE IndexerCommit
  BY <1>7, <1>a, LagQuiet DEF IndexerCommit, CommitIndex
<1>8. CASE IndexerSaved
  BY <1>8, <1>a, LagQuiet DEF IndexerSaved, IndexSaved
<1>9. CASE IndexerFail
  BY <1>9, <1>a, LagQuiet DEF IndexerFail, AbandonIndexing
<1>10. CASE Load
  BY <1>10, <1>a, LagQuiet DEF Load, PushInMemory, Continue
<1>11. CASE PushSaved
  BY <1>11, <1>a, LagQuiet DEF PushSaved, WriteStorage, Continue
<1>12. CASE PushFail
  BY <1>12, LagIdle DEF PushFail, Idle
<1>13. CASE ScanSlashings
  BY <1>13, <1>a, LagQuiet DEF ScanSlashings, Continue
<1>14. CASE ScanWithdrawals
  BY <1>14, <1>a, LagQuiet DEF ScanWithdrawals, Continue
<1>15. CASE ScanBalances
  BY <1>15, <1>a, LagQuiet DEF ScanBalances, Continue
<1>16. CASE DutyFail
  BY <1>16, LagIdle DEF DutyFail, Idle
<1>17. CASE PurgeTrusted
  BY <1>17, <1>a, LagQuiet DEF PurgeTrusted, PurgeInMemory, Continue
<1>18. CASE KeepUntrusted
  BY <1>18, LagRecord DEF KeepUntrusted, SetLast, Continue
<1>19. CASE PurgeSaved
  BY <1>19, LagRecord DEF PurgeSaved, Continue
<1>20. CASE LastSaved
  BY <1>20, LagIdle DEF LastSaved, Idle
<1>21. CASE SaveFail
  BY <1>21, LagIdle DEF SaveFail, Idle
<1>22. CASE Restart
  BY <1>22, LagIdle DEF Restart, ReadIndexBack, Idle
<1>23. CASE UNCHANGED vars
  BY <1>23, <1>a, LagQuiet DEF vars
<1> QED
  BY <1>1, <1>2, <1>3, <1>4, <1>5, <1>6, <1>7, <1>8, <1>9, <1>10, <1>11, <1>12,
     <1>13, <1>14, <1>15, <1>16, <1>17, <1>18, <1>19, <1>20, <1>21, <1>22, <1>23
     DEF Next

-----------------------------------------------------------------------------
(***************************************************************************)
(* The theorems.                                                           *)
(***************************************************************************)
LEMMA Invariance == Spec => [](Shape /\ Owed /\ Gapless)
<1>1. Init => Shape /\ Owed /\ Gapless
  BY ShapeInit, OwedInit, GaplessInit
<1>2. (Shape /\ Owed /\ Gapless) /\ [Next]_vars => (Shape /\ Owed /\ Gapless)'
  BY ShapeNext, OwedNext, GaplessNext
<1> QED
  BY <1>1, <1>2, PTL DEF Spec

(* Every variable keeps its type, whatever the constants are.              *)
THEOREM TypeCorrect == Spec => []TypeOK
<1>1. Shape => TypeOK
  BY DEF Shape
<1> QED
  BY <1>1, Invariance, PTL

(* RootsProvider and RootsProcessor never jump over a root: on any chain,  *)
(* after any number of failures and restarts, everything from the latest   *)
(* cold start up to the last processed root went through processNext.      *)
THEOREM WalkHasNoGap == Spec => []NoRootSkipped
<1>1. Shape /\ Gapless => NoRootSkipped
  <2> SUFFICES ASSUME Shape, Gapless, anchor # None,
                      NEW b \in Blocks, anchor <= b, b <= last
               PROVE  b \in walked
    BY DEF NoRootSkipped
  <2>1. b \in Nat /\ b # None /\ last \in Nat
    BY ConstantTypes DEF Shape, TypeOK, StackTypeOK, Slots, None
  <2>2. last # None
    BY <2>1 DEF None
  <2>3. last \in walked /\ WalkedBelow(last)
    BY <2>2 DEF Gapless, ReachedInv, Reached
  <2> QED
    BY <2>1, <2>3 DEF WalkedBelow
<1> QED
  BY <1>1, Invariance, PTL

(* A walked root is discharged or still on the stack, in memory ...        *)
THEOREM DutiesAreNotLost == Spec => []NoDutyLost
<1>1. Owed => NoDutyLost
  BY DEF Owed, WalkedInv, NoDutyLost
<1> QED
  BY <1>1, Invariance, PTL

(* ... and in the file the next start reads, so that a stop between any    *)
(* two writes loses no root.                                               *)
THEOREM DutiesSurviveRestart == Spec => []NoDutyLostByRestart
<1>1. Owed => NoDutyLostByRestart
  BY DEF Owed, WalkedInv, NoDutyLostByRestart
<1> QED
  BY <1>1, Invariance, PTL

(* A root leaves the saved stack only when nothing is owed for it.         *)
THEOREM StackKeepsOwedRoots == Spec => OwedRootsStayStacked
<1>1. Owed /\ [Next]_vars =>
        [\A r \in savedStack \ savedStack' : Discharged(r) \/ r \in overtaken]_vars
  <2> SUFFICES ASSUME Owed, Next, NEW r \in savedStack \ savedStack'
               PROVE  Discharged(r) \/ r \in overtaken
    OBVIOUS
  <2>1. savedStack' = stack \/ savedStack' = savedStack
    BY DEF Next, Finalize, Boot, Booted, Poll, GetChild, LoopFail, IndexerCommit,
       IndexerSaved, IndexerFail, Load, PushInMemory, PushSaved, WriteStorage, PushFail,
       ScanSlashings, ScanWithdrawals, ScanBalances, DutyFail,
       PurgeTrusted, PurgeInMemory, KeepUntrusted, SetLast, SetLastInMemory,
       PurgeSaved, LastSaved, WriteInfo, SaveFail, Restart, ReadIndexBack, ReadBack, stackVars
  <2> QED
    BY <2>1 DEF Owed, CopiesInv
<1> QED
  BY <1>1, Invariance, PTL DEF Spec, OwedRootsStayStacked

(* Whatever gives the root (the stack, a child judged by a later answer    *)
(* than the header, a retry), processing keeps ROOTS_PROCESSING_LAG_SLOTS  *)
(* behind the finalized block, but for a cold start.                       *)
THEOREM LagIsKept == Spec => []LagKeepsDistance
<1>1. Init => LagInv
  BY ConstantTypes DEF Init, LagInv, LagKeepsDistance, None
<1>2. Shape /\ Gapless /\ LagInv /\ [Next]_vars => LagInv'
  BY LagNext
<1>3. LagInv => LagKeepsDistance
  BY DEF LagInv
<1> QED
  BY <1>1, <1>2, <1>3, Invariance, PTL DEF Spec
-----------------------------------------------------------------------------
(***************************************************************************)
(* RootsWalk implements Ledger.                                            *)
(***************************************************************************)
(* A step that writes no file closes roots or stutters.                    *)
LEMMA ClosesRoots ==
  ASSUME Shape', UNCHANGED <<anchor, savedLast, savedStack, unsaved>>,
         reported \subseteq reported', overtaken \subseteq overtaken'
  PROVE  Book!Next
<1>1. Closed \subseteq Closed'
  BY DEF Closed, Discharged
<1>2. Closed' \in SUBSET Blocks
  BY DEF Closed, Shape, TypeOK
<1> QED
  BY <1>1, <1>2 DEF Book!Next, Book!Close

(* A step that writes the stack, or fails to write a push, drops nothing   *)
(* that is owed; it may be the one that records a cold start.              *)
LEMMA RewritesStack ==
  ASSUME Shape', UNCHANGED <<savedLast, reported, overtaken>>,
         \A r \in (savedStack \cup unsaved) \ (savedStack' \cup unsaved') : r \in Closed,
         anchor' = anchor \/ (savedLast = None /\ anchor' \in Blocks)
  PROVE  Book!Next
<1>1. Closed' = Closed
  BY DEF Closed, Discharged
<1>2. savedStack' \cup unsaved' \in SUBSET Blocks
  BY DEF Shape, TypeOK, StackTypeOK
<1> QED
  BY <1>1, <1>2 DEF Book!Next, Book!Rewrite, Book!MayOpen, Book!NoBlock, None

(* Everything up to a walked root is kept in the book or closed.           *)
LEMMA AccountedUpTo ==
  ASSUME Shape, Owed, Gapless, NEW p \in {last, savedLast},
         NEW b \in Blocks, anchor <= b, b <= p
  PROVE  b \in (savedStack \cup unsaved) \cup Closed
<1>1. b \in Nat /\ b # None /\ p \in Nat
  BY ConstantTypes DEF Shape, TypeOK, StackTypeOK, Slots, None
<1>2. p # None
  BY <1>1 DEF None
<1>3. p \in walked /\ WalkedBelow(p) /\ anchor # None
  BY <1>2 DEF Gapless, ReachedInv, Reached
<1>4. b \in walked
  BY <1>1, <1>3 DEF WalkedBelow
<1> QED
  BY <1>4 DEF Owed, WalkedInv, Closed

(* Every step of the walk is a step of the book.                           *)
LEMMA LedgerStep ==
  ASSUME Shape, Shape', Owed, Gapless, Next
  PROVE  Book!Next
<1> USE DEF stackVars, historyVars
<1>1. CASE Finalize \/ Boot \/ Booted \/ Poll \/ GetChild \/ LoopFail
  BY <1>1, ClosesRoots DEF Finalize, Boot, Booted, Poll, GetChild, LoopFail
<1>2. CASE IndexerCommit \/ IndexerSaved \/ IndexerFail
  BY <1>2, ClosesRoots DEF IndexerCommit, IndexerSaved, IndexerFail, CommitIndex, IndexSaved, AbandonIndexing
<1>3. CASE Load
  BY <1>3, ClosesRoots DEF Load, PushInMemory
<1>4. CASE PushSaved
  <2>1. /\ savedStack' = stack /\ unsaved' = unsaved \ stack
        /\ UNCHANGED <<savedLast, reported, overtaken, anchor>>
    BY <1>4 DEF PushSaved, WriteStorage
  <2> QED
    BY <2>1, RewritesStack DEF Owed, CopiesInv, Closed, Shape, TypeOK, StackTypeOK
<1>5. CASE PushFail
  BY <1>5, RewritesStack DEF PushFail
<1>6. CASE ScanSlashings \/ ScanWithdrawals \/ ScanBalances
  BY <1>6, ClosesRoots DEF ScanSlashings, ScanWithdrawals, ScanBalances
<1>7. CASE DutyFail
  BY <1>7, ClosesRoots DEF DutyFail
<1>8. CASE PurgeTrusted
  BY <1>8, ClosesRoots DEF PurgeTrusted, PurgeInMemory
<1>9. CASE KeepUntrusted
  <2>1. /\ UNCHANGED <<savedLast, savedStack, unsaved, reported, overtaken>>
        /\ anchor' = IF last = None THEN cur ELSE anchor
    BY <1>9 DEF KeepUntrusted, SetLast, SetLastInMemory
  <2>2. last = None => savedLast = None /\ cur \in Blocks
    BY <1>9 DEF KeepUntrusted, Gapless, ReachedInv, Shape, TypeOK, CursorInv, Slots
  <2> QED
    BY <2>1, <2>2, RewritesStack
<1>10. CASE PurgeSaved
  <2>1. /\ savedStack' = stack /\ unsaved' = unsaved \ stack
        /\ UNCHANGED <<savedLast, reported, overtaken>>
        /\ anchor' = IF last = None THEN cur ELSE anchor
    BY <1>10 DEF PurgeSaved
  <2>2. last = None => savedLast = None /\ cur \in Blocks
    BY <1>10 DEF PurgeSaved, Gapless, ReachedInv, Shape, TypeOK, CursorInv, Slots
  <2> QED
    BY <2>1, <2>2, RewritesStack DEF Owed, CopiesInv, Closed, Shape, TypeOK, StackTypeOK
<1>11. CASE LastSaved
  <2>1. /\ UNCHANGED <<savedStack, unsaved, reported, overtaken, anchor>>
        /\ savedLast' = last
    BY <1>11 DEF LastSaved, WriteInfo
  <2>2. Closed' = Closed
    BY <2>1 DEF Closed, Discharged
  <2>3. last \in Blocks \cup {Book!NoBlock}
    BY DEF Shape, TypeOK, StackTypeOK, Book!NoBlock, None
  <2>4. \A b \in Blocks :
          anchor <= b /\ b <= last => b \in (savedStack \cup unsaved) \cup Closed
    BY AccountedUpTo
  <2> QED
    BY <2>1, <2>2, <2>3, <2>4 DEF Book!Next, Book!Move
<1>12. CASE SaveFail
  BY <1>12, ClosesRoots DEF SaveFail
<1>13. CASE Restart
  BY <1>13, ClosesRoots DEF Restart, ReadIndexBack, ReadBack
<1> QED
  BY <1>1, <1>2, <1>3, <1>4, <1>5, <1>6, <1>7, <1>8, <1>9, <1>10, <1>11, <1>12,
     <1>13 DEF Next

(* The two files of the roots stack, with the loop, the indexer and the    *)
(* faults around them, implement the book.                                 *)
THEOREM WalkKeepsLedger == Spec => KeepsLedger
<1>1. Init => Book!Init
  BY DEF Init, StackInit, Book!Init, Book!NoBlock, None, Closed
<1>2. Shape /\ Owed /\ Gapless /\ [Next]_vars => [Book!Next]_(Book!ledgerVars)
  <2> SUFFICES ASSUME Shape, Owed, Gapless, [Next]_vars
               PROVE  [Book!Next]_(Book!ledgerVars)
    OBVIOUS
  <2>1. CASE Next
    BY <2>1, ShapeNext, LedgerStep
  <2>2. CASE UNCHANGED vars
    BY <2>2 DEF vars, stackVars, historyVars, Book!ledgerVars, Closed, Discharged
  <2> QED
    BY <2>1, <2>2
<1> QED
  BY <1>1, <1>2, Invariance, PTL DEF Spec, KeepsLedger, Book!Spec

(* At whatever moment the process stops, a block from the cold start up to *)
(* the saved position is in the saved stack or owes nothing, but for the   *)
(* roots a restart can lose: those whose scan was overtaken by an update   *)
(* of the index, and those whose push could not be written.                *)
THEOREM SavedPositionIsAccountedFor ==
  Spec => [](savedLast # None =>
               \A b \in Blocks \ (overtaken \cup unsaved) :
                 anchor <= b /\ b <= savedLast => Discharged(b) \/ b \in savedStack)
<1> DEFINE Accounted ==
      savedLast # None =>
        \A b \in Blocks \ (overtaken \cup unsaved) :
          anchor <= b /\ b <= savedLast => Discharged(b) \/ b \in savedStack
<1>1. Shape /\ Owed /\ Gapless => Accounted
  BY AccountedUpTo DEF Closed
<1> QED
  BY <1>1, Invariance, PTL

-----------------------------------------------------------------------------
(***************************************************************************)
(* RootsWalk implements RootDuties.                                        *)
(***************************************************************************)
(* The step of the walk, seen as a state of RootDuties.                    *)
LEMMA HandlingView ==
  ASSUME Shape
  PROVE  /\ Handler # "idle" => step # "idle" /\ cur \in Blocks
         /\ \A r \in Blocks, k \in Kinds :
              [b \in Blocks |-> [kind \in Kinds |-> Found(b, kind, indexed)]][r][k]
                = Found(r, k, indexed)
<1>1. Handler # "idle" => step # "idle"
  BY DEF Handler
<1>2. step # "idle" => cur \in Blocks
  BY DEF Shape, CursorInv, TypeOK, Slots
<1> QED
  BY <1>1, <1>2

(* A step that leaves the processing as it is.                             *)
LEMMA HandlingQuiet ==
  ASSUME Handler' = Handler, Handler # "idle" => cur' = cur, walked' = walked,
         reported \subseteq reported'
  PROVE  [Handling!Next]_(Handling!handlingVars)
BY DEF Handling!Next

(* A root that is taken starts with the slashings, and one that is dropped *)
(* leaves nothing done.                                                    *)
LEMMA HandlingMoves ==
  ASSUME walked' = walked, reported \subseteq reported',
         \/ step = "idle" /\ \E r \in Blocks : StartProcessing(r)
         \/ Idle
  PROVE  [Handling!Next]_(Handling!handlingVars)
<1>1. CASE step = "idle" /\ \E r \in Blocks : StartProcessing(r)
  <2>1. Handler = "idle" /\ Handler' = "slashing" /\ cur' \in Blocks
    BY <1>1 DEF StartProcessing, Handler
  <2>2. Handling!Start
    BY <2>1 DEF Handling!Start
  <2> QED
    BY <2>2 DEF Handling!Next
<1>2. CASE Idle
  <2>1. Handler' = "idle"
    BY <1>2 DEF Idle, Handler
  <2>2. CASE Handler = "idle"
    BY <2>1, <2>2, HandlingQuiet
  <2>3. CASE Handler # "idle"
    <3>1. Handling!Abandon
      BY <2>1, <2>3 DEF Handling!Abandon, Handling!NoRoot, None
    <3> QED
      BY <3>1 DEF Handling!Next
  <2> QED
    BY <2>2, <2>3
<1> QED
  BY <1>1, <1>2

(* The loop takes a root of the chain or none.                             *)
LEMMA LoopTakes ==
  ASSUME Shape, Poll \/ GetChild
  PROVE  UNCHANGED procVars \/ (step = "idle" /\ \E r \in Blocks : StartProcessing(r))
<1>t. finalized \in Blocks /\ stack \subseteq Blocks /\ (StartRoot # None => StartRoot \in Blocks)
  BY ConstantTypes DEF Shape, TypeOK, StackTypeOK, Slots
<1>1. ASSUME NEW r \in Blocks, NEW h, StartUnlessHeld(r, h)
      PROVE  UNCHANGED procVars \/ StartProcessing(r)
  BY <1>1 DEF StartUnlessHeld, Sleep
<1>2. CASE Poll
  <2>1. CASE step # "idle" /\ Sleep
    BY <2>1 DEF Sleep
  <2>2. CASE step = "idle" /\ GetNext(finalized)
    BY <1>t, <1>1, <2>2 DEF GetNext, Known, Sleep, IsNextEligible
  <2> QED
    BY <1>2, <2>1, <2>2 DEF Poll
<1>3. CASE GetChild
  <2>1. step = "idle"
    BY <1>3 DEF GetChild, Shape, CursorInv
  <2> QED
    BY <1>1, <1>3, <2>1 DEF GetChild, Sleep
<1> QED
  BY <1>2, <1>3

(* An epoch's balances are due on its first block only.                    *)
LEMMA NoBalanceInside ==
  ASSUME NEW r \in Blocks, ~IsFirstBlockInEpoch(r)
  PROVE  Found(r, "balance", indexed) = {}
BY BalancesAtEpochStart DEF Found, EventsOf

(* A handler that returns has reported what the index finds of its kind,   *)
(* and the root counts as walked after the last of them.                   *)
LEMMA HandlingReturns ==
  ASSUME Shape, ScanSlashings \/ ScanWithdrawals \/ ScanBalances \/ KeepUntrusted \/ PurgeSaved
  PROVE  [Handling!Next]_(Handling!handlingVars)
<1>c. step # "idle" => cur \in Blocks
  BY DEF Shape, CursorInv, TypeOK, Slots
<1>1. CASE ScanSlashings
  <2>1. /\ Handler = "slashing" /\ Handler' = "withdrawal" /\ cur' = cur /\ walked' = walked
        /\ reported' = reported \cup Found(cur, "slashing", indexed) /\ cur \in Blocks
    BY <1>1, <1>c DEF ScanSlashings, Continue, Handler
  <2>2. Handling!Return("slashing", "withdrawal")
    BY <2>1, HandlingView DEF Handling!Return, Handling!Served, Kinds
  <2> QED
    BY <2>1, <2>2 DEF Handling!Next
<1>2. CASE ScanWithdrawals
  <2>1. /\ Handler = "withdrawal" /\ cur' = cur /\ walked' = walked /\ cur \in Blocks
        /\ reported' = reported \cup Found(cur, "withdrawal", indexed)
    BY <1>2, <1>c DEF ScanWithdrawals, Continue, Handler
  <2>2. CASE IsFirstBlockInEpoch(cur)
    <3>1. Handler' = "balance"
      BY <1>2, <2>2 DEF ScanWithdrawals, Continue, Handler
    <3>2. Handling!Return("withdrawal", "balance")
      BY <2>1, <3>1, HandlingView DEF Handling!Return, Handling!Served, Kinds
    <3> QED
      BY <2>1, <3>2 DEF Handling!Next
  <2>3. CASE ~IsFirstBlockInEpoch(cur)
    <3>1. Handler' = "over"
      BY <1>2, <2>3 DEF ScanWithdrawals, Continue, Handler
    <3>2. Handling!AllServed
      BY <2>1, <2>3, HandlingView, NoBalanceInside
         DEF Handling!AllServed, Handling!Served, Kinds
    <3>3. Handling!Over
      BY <2>1, <3>1, <3>2 DEF Handling!Over
    <3> QED
      BY <2>1, <3>3 DEF Handling!Next
  <2> QED
    BY <2>2, <2>3
<1>3. CASE ScanBalances
  <2>1. /\ Handler = "balance" /\ Handler' = "over" /\ cur' = cur /\ walked' = walked
        /\ reported' = reported \cup Found(cur, "balance", indexed) /\ cur \in Blocks
    BY <1>3, <1>c DEF ScanBalances, Continue, Handler
  <2>2. Handling!AllServed
    BY <2>1, HandlingView DEF Handling!AllServed, Handling!Served, Kinds
  <2>3. Handling!Over
    BY <2>1, <2>2 DEF Handling!Over
  <2> QED
    BY <2>1, <2>3 DEF Handling!Next
<1>4. CASE KeepUntrusted \/ PurgeSaved
  <2>1. /\ Handler = "over" /\ Handler' = "idle" /\ walked' = walked \cup {cur}
        /\ reported' = reported
    BY <1>4 DEF KeepUntrusted, PurgeSaved, SetLast, Continue, Handler
  <2>2. Handling!Complete
    BY <2>1 DEF Handling!Complete, Handling!AllServed, Handling!NoRoot, None
  <2> QED
    BY <2>1, <2>2 DEF Handling!Next
<1> QED
  BY <1>1, <1>2, <1>3, <1>4

(* Every step of the walk is a step of RootDuties.                         *)
LEMMA HandlingNext ==
  ASSUME Shape, [Next]_vars
  PROVE  [Handling!Next]_(Handling!handlingVars)
<1>1. CASE ScanSlashings \/ ScanWithdrawals \/ ScanBalances \/ KeepUntrusted \/ PurgeSaved
  BY <1>1, HandlingReturns
<1>2. CASE \/ Finalize \/ Boot \/ Booted \/ LoopFail \/ IndexerCommit \/ IndexerSaved
           \/ IndexerFail \/ UNCHANGED vars
  <2>1. step' = step /\ cur' = cur /\ walked' = walked /\ reported' = reported
    BY <1>2 DEF Finalize, Boot, Booted, LoopFail, Sleep, IndexerCommit, IndexerSaved,
                IndexerFail, vars, procVars, historyVars
  <2> QED
    BY <2>1, HandlingQuiet DEF Handler
<1>3. CASE Poll \/ GetChild
  <2>1. walked' = walked /\ reported' = reported
    BY <1>3 DEF Poll, GetChild, historyVars
  <2>2. CASE UNCHANGED procVars
    BY <2>1, <2>2, HandlingQuiet DEF Handler, procVars
  <2>3. CASE step = "idle" /\ \E r \in Blocks : StartProcessing(r)
    BY <2>1, <2>3, HandlingMoves
  <2> QED
    BY <1>3, <2>2, <2>3, LoopTakes
<1>4. CASE Load \/ PushSaved \/ PurgeTrusted
  <2>1. Handler' = Handler /\ cur' = cur /\ walked' = walked /\ reported' = reported
    BY <1>4 DEF Load, PushSaved, PurgeTrusted, Continue, Handler, historyVars
  <2> QED
    BY <2>1, HandlingQuiet
<1>5. CASE PushFail \/ DutyFail \/ LastSaved \/ SaveFail \/ Restart
  <2>1. Idle /\ walked' = walked /\ reported \subseteq reported'
    BY <1>5 DEF PushFail, DutyFail, LastSaved, SaveFail, Restart, historyVars
  <2> QED
    BY <2>1, HandlingMoves
<1> QED
  BY <1>1, <1>2, <1>3, <1>4, <1>5 DEF Next

(* For any chain, lag, index and number of faults, no root is walked whose *)
(* three handlers did not return one after the other, each with all that   *)
(* the index of its moment finds.                                          *)
THEOREM WalkHandlesRoots == Spec => HandlesRoots
<1>1. Init => Handling!Init
  BY DEF Init, Handler, Handling!Init, Handling!NoRoot, None
<1>2. Shape /\ [Next]_vars => [Handling!Next]_(Handling!handlingVars)
  BY HandlingNext
<1> QED
  BY <1>1, <1>2, Invariance, PTL DEF Spec, HandlesRoots, Handling!Spec
=============================================================================
