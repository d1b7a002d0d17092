----------------------------- MODULE RootsWalk -----------------------------
(***************************************************************************)
(* The daemon's walk over finalized block roots: the loop of               *)
(* DaemonService, RootsProvider.getNext, RootsProcessor.processNext on the *)
(* persistent RootsStack, and the keys indexer updated concurrently.       *)
(*                                                                         *)
(* Every await of the code is a point where another activity may run, so   *)
(* an action is the code between two awaits.  There are three activities   *)
(* on one thread: the loop, at most one root in processing, and at most    *)
(* one index update.  Faults (a request, a duty or a file write that       *)
(* fails, the process that stops and restarts) are actions too, bounded in *)
(* number by MaxFaults.                                                    *)
(*                                                                         *)
(* The chain and the contracts are environment.  Validator v is in every   *)
(* finalized state from slot Appears[v]; an event is what a block does to  *)
(* a validator of the module and what a duty must report.  An index built  *)
(* at slot s knows the validators with Appears[v] <= s.                    *)
(***************************************************************************)
EXTENDS RootsStack, IndexTask

CONSTANTS
  StartRoot,       \* START_ROOT, None when it is not configured
  LagSlots,        \* ROOTS_PROCESSING_LAG_SLOTS
  RunningPeriod,   \* KEYS_INDEXER_RUNNING_PERIOD_MS, in slots
  ClockLead,       \* how far the wall clock may be ahead of the finalized slot
  SlotsPerEpoch,
  Validators,      \* validators of the staking module
  Appears,         \* the slot from which a validator is in the state
  Events,          \* what the canonical blocks do to those validators
  MaxFaults        \* bound on the failures and restarts of a behaviour

Slots == Blocks \cup {None}

Kinds == {"slashing", "withdrawal", "balance"}

KindDelay(kind) == IF kind = "slashing" THEN SlashingDelay ELSE WithdrawalDelay

Epoch(slot) == slot \div SlotsPerEpoch

(* isFirstBlockInEpoch: the parent block lies in an earlier epoch. *)
IsFirstBlockInEpoch(b) ==
  \A p \in Blocks : p < b => Epoch(p) < Epoch(b)

ASSUME WalkConstants ==
  /\ StartRoot \in Slots
  /\ LagSlots \in Nat /\ RunningPeriod \in Nat /\ ClockLead \in Nat
  /\ SlotsPerEpoch \in Nat \ {0} /\ MaxFaults \in Nat
  /\ Appears \in [Validators -> Nat]
  /\ Events \subseteq [slot : Blocks, kind : Kinds, val : Validators]

(* The premise of the freshness windows, as wide as the code takes them:   *)
(* nothing happens to a validator earlier than the delay of the duty after *)
(* it appeared.                                                            *)
ASSUME ProtocolDelays ==
  \A e \in Events : e.slot >= Appears[e.val] + KindDelay(e.kind)

ASSUME BalancesAtEpochStart ==
  \A e \in Events : e.kind = "balance" => IsFirstBlockInEpoch(e.slot)

EventsOf(b) == {e \in Events : e.slot = b}

(* What the scan of block b for one kind finds with an index at slot s. *)
Found(b, kind, s) ==
  {e \in EventsOf(b) : e.kind = kind /\ Appears[e.val] <= s}

(* Wrong variants, each a slip this code could have; no action uses them.  *)
Wrong_IsChild(c, b) == c \in Blocks /\ b < c

IsChild(c, b) ==
  /\ c \in Blocks /\ b < c
  /\ \A x \in Blocks : ~(b < x /\ x < c)

VARIABLES
  loop,            \* where DaemonService.loop is suspended
  lastHeader,      \* lastFinalizedHeader
  step,            \* where processNext is suspended; "idle": rootProcessing is null
  cur,             \* the root in processing
  faults,          \* faults so far
  \* History, read by no action:
  reported,        \* events whose duty was carried out
  walked,          \* roots for which setLastProcessed was reached
  anchor,          \* the root the latest cold start processed
  scanIndexed,     \* indexed when the slashing scan of cur read it
  overtaken,       \* roots purged although the scan's own index was not trusted
  unsaved          \* roots whose push could not be written

loopVars    == <<loop, lastHeader>>
procVars    == <<step, cur>>
historyVars == <<reported, walked, anchor, scanIndexed, overtaken, unsaved>>
vars == <<finalized, stackVars, loopVars, procVars, indexVars, faults, historyVars>>

Steps == {"idle", "load", "push", "slashings", "withdrawals", "balances",
          "check", "purge", "setLast"}

TypeOK ==
  /\ StackTypeOK
  /\ finalized \in Blocks
  /\ loop \in {"boot", "poll", "child"}
  /\ lastHeader \in Slots
  /\ step \in Steps /\ cur \in Slots
  /\ indexed \in Slots /\ savedIndexed \in Slots
  /\ update \in {"idle", "state", "save"} /\ target \in Slots
  /\ faults \in 0..MaxFaults
  /\ reported \subseteq Events
  /\ walked \subseteq Blocks /\ anchor \in Slots /\ scanIndexed \in Slots
  /\ overtaken \subseteq Blocks /\ unsaved \subseteq Blocks

Init ==
  /\ StackInit
  /\ finalized \in {b \in Blocks : b >= StartRoot}
  /\ loop = "poll" /\ lastHeader = None
  /\ step = "idle" /\ cur = None
  /\ IndexInit
  /\ faults = 0
  /\ reported = {} /\ walked = {} /\ anchor = None
  /\ scanIndexed = None /\ overtaken = {} /\ unsaved = {}

Fault == faults < MaxFaults /\ faults' = faults + 1

(***************************************************************************)
(* The chain.                                                              *)
(***************************************************************************)
Finalize ==
  /\ \E b \in Blocks : b > finalized /\ finalized' = b
  /\ UNCHANGED <<stackVars, loopVars, procVars, indexVars, faults, historyVars>>

(***************************************************************************)
(* The keys indexer.  The keys and the slot of the new index become        *)
(* visible together, when the state has been read; the files are written   *)
(* afterwards.                                                             *)
(***************************************************************************)
IndexerCommit ==
  /\ CommitIndex
  /\ UNCHANGED <<finalized, stackVars, loopVars, procVars, faults, historyVars>>

IndexerSaved ==
  /\ IndexSaved
  /\ UNCHANGED <<finalized, stackVars, loopVars, procVars, faults, historyVars>>

(* getState, the keys API, its health check or a write throws. *)
IndexerFail ==
  /\ AbandonIndexing /\ Fault
  /\ UNCHANGED <<finalized, stackVars, loopVars, procVars, historyVars>>

(***************************************************************************)
(* The loop.                                                               *)
(***************************************************************************)

(* isInitialized() is false: the loop itself awaits the first indexing. *)
Boot ==
  /\ loop = "poll" /\ indexed = None /\ update = "idle"
  /\ StartIndexing(finalized)
  /\ loop' = "boot"
  /\ UNCHANGED lastHeader
  /\ UNCHANGED <<finalized, stackVars, procVars, faults, historyVars>>

Booted ==
  /\ loop = "boot" /\ update = "idle"
  /\ loop' = "poll"
  /\ UNCHANGED lastHeader
  /\ UNCHANGED <<finalized, stackVars, procVars, indexVars, faults, historyVars>>

IsTimeToUpdate(h, now) ==
  /\ indexed # h
  /\ RunningPeriod < now - indexed

(* updateKeysIndexer is a singleton task: a running one is not doubled. *)
UpdateIndexIfDue(h, now) ==
  IF h # lastHeader /\ IsTimeToUpdate(h, now) /\ update = "idle"
  THEN StartIndexing(h)
  ELSE UNCHANGED indexVars

StartProcessing(r) ==
  /\ step' = "load" /\ cur' = r
  /\ loop' = "poll"

Sleep == loop' = "poll" /\ UNCHANGED procVars

Wrong_HeldByLag(r, h) == LagSlots > 0 /\ LagSlots >= h - r
Wrong_NotHeldByLag(r, h) == LagSlots > 0 /\ LagSlots < r - h

HeldByLag(r, h) == LagSlots > 0 /\ LagSlots > h - r

StartUnlessHeld(r, h) ==
  IF HeldByLag(r, h) THEN Sleep ELSE StartProcessing(r)

Wrong_Known(h) == h - 1

(* getKnown: a cold start skips the lag gate. *)
Known(h) == IF StartRoot # None THEN StartRoot ELSE h

(* getNext, up to the request for the children of the last root. *)
GetNext(h) ==
  \/ /\ last = None
     /\ StartProcessing(Known(h))
  \/ /\ last # None
     /\ \E r \in stack : IsNextEligible(r, indexed) /\ StartUnlessHeld(r, h)
  \/ /\ last # None /\ NoneEligible(indexed)
     /\ last = h
     /\ Sleep
  \/ /\ last # None /\ NoneEligible(indexed)
     /\ last # h
     /\ loop' = "child" /\ UNCHANGED procVars

(* One iteration of baseRun, up to its second request. *)
Poll ==
  /\ loop = "poll" /\ indexed # None
  /\ \E now \in finalized .. (finalized + ClockLead) :
       UpdateIndexIfDue(finalized, now)
  /\ lastHeader' = finalized
  /\ \/ step # "idle" /\ Sleep
     \/ step = "idle" /\ GetNext(finalized)
  /\ UNCHANGED <<finalized, stackVars, faults, historyVars>>

(* The children arrive; what is finalized is judged when the node answers, *)
(* the lag against the header read before.                                 *)
GetChild ==
  /\ loop = "child"
  /\ \/ \E c \in Blocks : /\ IsChild(c, last) /\ c <= finalized
                          /\ StartUnlessHeld(c, lastHeader)
     \/ /\ \A c \in Blocks : IsChild(c, last) => c > finalized
        /\ Sleep
  /\ UNCHANGED lastHeader
  /\ UNCHANGED <<finalized, stackVars, indexVars, faults, historyVars>>

(* A request of the loop throws, or names no canonical child. *)
LoopFail ==
  /\ loop = "child" /\ Fault
  /\ Sleep
  /\ UNCHANGED lastHeader
  /\ UNCHANGED <<finalized, stackVars, indexVars, historyVars>>

(***************************************************************************)
(* processNext.                                                            *)
(***************************************************************************)
Idle == step' = "idle" /\ cur' = None

Continue(s) == step' = s /\ UNCHANGED cur

(* getBlockInfo has answered; push changes the map unless it has the slot. *)
Load ==
  /\ step = "load"
  /\ \/ cur \notin stack /\ PushInMemory(cur) /\ Continue("push")
     \/ cur \in stack /\ UNCHANGED stackVars /\ Continue("slashings")
  /\ UNCHANGED <<finalized, loopVars, indexVars, faults, historyVars>>

PushSaved ==
  /\ step = "push"
  /\ WriteStorage /\ Continue("slashings")
  /\ unsaved' = unsaved \ stack
  /\ UNCHANGED <<reported, walked, anchor, scanIndexed, overtaken>>
  /\ UNCHANGED <<finalized, loopVars, indexVars, faults>>

PushFail ==
  /\ step = "push" /\ Fault
  /\ Idle
  /\ unsaved' = unsaved \cup {cur}
  /\ UNCHANGED <<reported, walked, anchor, scanIndexed, overtaken>>
  /\ UNCHANGED <<finalized, stackVars, loopVars, indexVars>>

(* handleSlashingsInBlock: what the index finds is proved on the state of   *)
(* the finalized header, which is never before the root.                   *)
ScanSlashings ==
  /\ step = "slashings"
  /\ reported' = reported \cup Found(cur, "slashing", indexed)
  /\ scanIndexed' = indexed
  /\ Continue("withdrawals")
  /\ UNCHANGED <<walked, anchor, overtaken, unsaved>>
  /\ UNCHANGED <<finalized, stackVars, loopVars, indexVars, faults>>

(* The balances of the first block of an epoch are left out. *)
Wrong_ScanWithdrawals ==
  /\ step = "withdrawals"
  /\ reported' = reported \cup Found(cur, "withdrawal", indexed)
  /\ Continue("check")
  /\ UNCHANGED <<walked, anchor, scanIndexed, overtaken, unsaved>>
  /\ UNCHANGED <<finalized, stackVars, loopVars, indexVars, faults>>

ScanWithdrawals ==
  /\ step = "withdrawals"
  /\ reported' = reported \cup Found(cur, "withdrawal", indexed)
  /\ Continue(IF IsFirstBlockInEpoch(cur) THEN "balances" ELSE "check")
  /\ UNCHANGED <<walked, anchor, scanIndexed, overtaken, unsaved>>
  /\ UNCHANGED <<finalized, stackVars, loopVars, indexVars, faults>>

ScanBalances ==
  /\ step = "balances"
  /\ reported' = reported \cup Found(cur, "balance", indexed)
  /\ Continue("check")
  /\ UNCHANGED <<walked, anchor, scanIndexed, overtaken, unsaved>>
  /\ UNCHANGED <<finalized, stackVars, loopVars, indexVars, faults>>

(* A duty that fails in a try/finally that purges. *)
Wrong_DutyFail ==
  /\ step \in {"load", "slashings", "withdrawals", "balances"} /\ Fault
  /\ PurgeInMemory(cur)
  /\ Idle
  /\ UNCHANGED <<finalized, loopVars, indexVars, historyVars>>

(* getBlockInfo, a proof or a transaction throws: some of the reports of   *)
(* the running duty may have been sent.                                    *)
DutyFail ==
  /\ step \in {"load", "slashings", "withdrawals", "balances"} /\ Fault
  /\ \E sent \in SUBSET {e \in EventsOf(cur) : Appears[e.val] <= indexed} :
       /\ \A e \in sent : /\ e.kind = "slashing"   => step = "slashings"
                          /\ e.kind = "withdrawal" => step = "withdrawals"
                          /\ e.kind = "balance"    => step = "balances"
       /\ reported' = reported \cup sent
  /\ Idle
  /\ UNCHANGED <<walked, anchor, scanIndexed, overtaken, unsaved>>
  /\ UNCHANGED <<finalized, stackVars, loopVars, indexVars>>

(* The index is judged after the duties, not when they read it. *)
PurgeTrusted ==
  /\ step = "check"
  /\ IsTrustedForEveryDuty(indexed, cur)
  /\ PurgeInMemory(cur) /\ Continue("purge")
  /\ overtaken' = IF IsTrustedForEveryDuty(scanIndexed, cur)
                  THEN overtaken ELSE overtaken \cup {cur}
  /\ UNCHANGED <<reported, walked, anchor, scanIndexed, unsaved>>
  /\ UNCHANGED <<finalized, loopVars, indexVars, faults>>

(* setLastProcessed, up to its await. *)
SetLast(r) ==
  /\ SetLastInMemory(r)
  /\ Continue("setLast")
  /\ walked' = walked \cup {r}
  /\ anchor' = IF last = None THEN r ELSE anchor

KeepUntrusted ==
  /\ step = "check"
  /\ ~IsTrustedForEveryDuty(indexed, cur)
  /\ SetLast(cur)
  /\ UNCHANGED <<reported, scanIndexed, overtaken, unsaved>>
  /\ UNCHANGED <<finalized, loopVars, indexVars, faults>>

(* The purge is written, and setLastProcessed called. *)
PurgeSaved ==
  /\ step = "purge"
  /\ savedStack' = stack /\ last' = cur
  /\ UNCHANGED <<stack, savedLast>>
  /\ Continue("setLast")
  /\ walked' = walked \cup {cur}
  /\ anchor' = IF last = None THEN cur ELSE anchor
  /\ unsaved' = unsaved \ stack
  /\ UNCHANGED <<reported, scanIndexed, overtaken>>
  /\ UNCHANGED <<finalized, loopVars, indexVars, faults>>

LastSaved ==
  /\ step = "setLast"
  /\ WriteInfo /\ Idle
  /\ UNCHANGED <<finalized, loopVars, indexVars, faults, historyVars>>

(* The write of a purge or of the last root throws; memory keeps it. *)
SaveFail ==
  /\ step \in {"purge", "setLast"} /\ Fault
  /\ Idle
  /\ UNCHANGED <<finalized, stackVars, loopVars, indexVars, historyVars>>

(* The process stops anywhere and starts again from its files. *)
Restart ==
  /\ Fault
  /\ ReadBack
  /\ loop' = "poll" /\ lastHeader' = None
  /\ Idle
  /\ ReadIndexBack
  /\ UNCHANGED <<finalized, historyVars>>

Walk == \/ Load \/ PushSaved \/ ScanSlashings
        \/ ScanWithdrawals \/ ScanBalances
        \/ PurgeTrusted \/ KeepUntrusted \/ PurgeSaved \/ LastSaved

Next ==
  \/ Finalize
  \/ Boot \/ Booted \/ Poll \/ GetChild \/ LoopFail
  \/ IndexerCommit \/ IndexerSaved \/ IndexerFail
  \/ Load \/ PushSaved \/ PushFail
  \/ ScanSlashings \/ ScanWithdrawals \/ ScanBalances
  \/ DutyFail
  \/ PurgeTrusted \/ KeepUntrusted \/ PurgeSaved \/ LastSaved \/ SaveFail
  \/ Restart

Spec == Init /\ [][Next]_vars

(***************************************************************************)
(* The loop never returns and the promises it awaits settle; nothing says  *)
(* the finalized head moves or an index update ever ends.                  *)
(***************************************************************************)
Fairness ==
  /\ WF_vars(Boot) /\ WF_vars(Booted) /\ WF_vars(Poll) /\ WF_vars(GetChild)
  /\ WF_vars(Walk)

FairSpec == Spec /\ Fairness

-----------------------------------------------------------------------------
(***************************************************************************)
(* Properties.                                                             *)
(***************************************************************************)

(* No root is jumped over: every canonical block from the latest cold      *)
(* start up to the last processed root went through processNext to its     *)
(* end, although stacked roots, retries, failed writes and restarts move   *)
(* the last processed root back and forth.                                 *)
NoRootSkipped ==
  anchor # None =>
    \A b \in Blocks : anchor <= b /\ b <= last => b \in walked

Discharged(b) == EventsOf(b) \subseteq reported

(* The two files of the roots stack implement the book of module Ledger:   *)
(* the saved position never moves over a root that is neither in the saved *)
(* stack nor done with, nor does a root leave the file that is owed, with  *)
(* the two exceptions NoDutyLost names.                                    *)
Closed == {b \in Blocks : Discharged(b)} \cup overtaken

Book == INSTANCE Ledger WITH origin <- anchor, position <- savedLast,
                             kept <- savedStack \cup unsaved, closed <- Closed

KeepsLedger == Book!Spec

(* The processing of a root implements module RootDuties with what the     *)
(* index finds at each scan: no handler is left out or called early, and   *)
(* no root is walked whose handlers did not all return, although the index *)
(* changes between them and anything may throw.                            *)
Handler ==
  IF step \in {"load", "push", "slashings"} THEN "slashing"
  ELSE IF step = "withdrawals" THEN "withdrawal"
  ELSE IF step = "balances" THEN "balance"
  ELSE IF step \in {"check", "purge"} THEN "over" ELSE "idle"

Handling == INSTANCE RootDuties
  WITH Roots <- Blocks, step <- Handler, done <- walked,
       cur <- IF Handler = "idle" THEN None ELSE cur,
       due <- [r \in Blocks |-> [kind \in Kinds |-> Found(r, kind, indexed)]]

HandlesRoots == Handling!Spec

(* What is owed is not dropped by a failure: a root leaves the saved stack *)
(* only when its duties are done, never because a duty, a request, a write *)
(* or the process failed, and never in exchange for another root.          *)
OwedRootsStayStacked ==
  [][\A r \in savedStack \ savedStack' : Discharged(r) \/ r \in overtaken]_vars

(* A root that was walked had all its duties reported, or is still on the  *)
(* stack in memory to be processed again.  The code keeps this except for  *)
(* a root whose scan was overtaken by an index update, and a root whose    *)
(* push could not be written.                                              *)
NoDutyLost ==
  \A b \in walked \ (overtaken \cup unsaved) : Discharged(b) \/ b \in stack

(* The same of the file the next start reads: a stop at any point, between *)
(* any two writes, loses no owed root.                                     *)
NoDutyLostByRestart ==
  \A b \in walked \ (overtaken \cup unsaved) : Discharged(b) \/ b \in savedStack

(* README, "If any of these time thresholds are breached ... we put the    *)
(* root block in the stack just in case, to process it again later": every *)
(* root that was walked and could be written is discharged or stacked.     *)
BreachedRootsAreStacked ==
  \A b \in walked \ unsaved : Discharged(b) \/ b \in stack

(* The same sentence for the roots the walk has left behind: one that was  *)
(* scanned with an index too old for it is in the stack, to be processed   *)
(* again, whatever writes have failed and however often the process has    *)
(* stopped.                                                                *)
StackedRootsAreKept ==
  \A b \in walked \ overtaken : b <= last => Discharged(b) \/ b \in stack

(* README, ROOTS_PROCESSING_LAG_SLOTS: "Min slot-distance between           *)
(* processing tip and finalized tip": but for a cold start, no root is in  *)
(* processing nearer to the finalized block than that, whether the stack,  *)
(* a child judged by a later answer than the header, or a retry gave it.   *)
LagKeepsDistance ==
  step # "idle" /\ last # None /\ cur # anchor => cur + LagSlots <= finalized

(* Blocks the walk owes: from the recorded cold start on, and far enough   *)
(* behind the finalized head for the lag gate.                             *)
Due(b) == savedLast # None /\ anchor <= b /\ b + LagSlots <= finalized

IndexFresh == \A b \in Blocks : b <= finalized => IsTrustedForEveryDuty(indexed, b)

(* Once the index has caught up for good and its updates end, every due    *)
(* root is walked and leaves the stack: neither the retries, the stack     *)
(* that is served before the children, nor a restart starves a root.  (An  *)
(* update that never ends stops the loop when it is the first one of a     *)
(* process, which awaits it.)                                              *)
EveryRootDischarged ==
  <>[]IndexFresh /\ []<>(update = "idle") => \A b \in Blocks : Due(b) ~> (b \in walked /\ b \notin stack)

(* README, "we can use the previously successfully received data to        *)
(* guarantee that our slashings will report for another ~15h": whatever    *)
(* becomes of the indexer, a slashing within the slashing window of the    *)
(* saved index is reported.                                                *)
SlashingsReportedInWindow ==
  \A e \in Events :
    e.kind = "slashing" =>
      (Due(e.slot) /\ IsTrustedForSlashings(savedIndexed, e.slot))
        ~> (e \in reported \/ e.slot \in overtaken \cup unsaved)

(* The same sentence, "and withdrawals for ~27h": a withdrawal within the  *)
(* withdrawal window of the saved index is reported.                       *)
WithdrawalsReportedInWindow ==
  \A e \in Events :
    e.kind = "withdrawal" =>
      (Due(e.slot) /\ IsTrustedForFullWithdrawals(savedIndexed, e.slot))
        ~> (e \in reported \/ e.slot \in overtaken \cup unsaved)
=============================================================================
