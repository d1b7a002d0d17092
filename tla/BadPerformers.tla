--------------------------- MODULE BadPerformers ---------------------------
(***************************************************************************)
(* Reporting the bad performers of the strikes tree                        *)
(* (src/src/common/prover/duties/bad-performers.service.ts and             *)
(* ProverService.handleBadPerformers), a singleton task that the daemon    *)
(* starts for every new finalized header.                                  *)
(*                                                                         *)
(* The contracts are environment: the tree the oracle publishes, the       *)
(* parameters (strikes thresholds and bond curves), the exit requests the  *)
(* gateway still allows, the keys whose ejection or withdrawal is proven.  *)
(* Tree, parameters and ejections are read at the finalized block, which   *)
(* is two finalizations behind the head; withdrawals and the limit are     *)
(* read at the head.                                                       *)
(*                                                                         *)
(* A key is named by the index of its leaf.                                *)
(***************************************************************************)
EXTENDS Integers, FiniteSets

CONSTANTS
  NumTrees,          \* the oracle publishes trees 1 .. NumTrees
  Params,            \* values of the thresholds and curves together
  FirstParams,
  Keys,
  Bad,               \* the keys of a tree at or above their threshold
  Filtered,          \* keys of operators not in DAEMON_NODE_OPERATOR_IDS
  Withdrawable,      \* keys whose withdrawal may be proven meanwhile
  BatchSize,         \* TX_STRIKES_PAYLOAD_MAX_BATCH_SIZE
  MaxLimit,          \* what the gateway allows when replenished
  Rounds,            \* names for the calls of the task
  MaxParamChanges,
  MaxFaults

NoTree == 0
NoParams == 0
Trees == 1 .. NumTrees

ASSUME TaskConstants ==
  /\ NumTrees \in Nat /\ Params \subseteq Nat \ {NoParams} /\ FirstParams \in Params
  /\ Keys \subseteq Nat /\ IsFiniteSet(Keys)
  /\ Bad \in [Trees \X Params -> SUBSET Keys]
  /\ Filtered \subseteq Keys /\ Withdrawable \subseteq Keys
  /\ BatchSize \in Nat \ {0} /\ MaxLimit \in Nat \ {0}
  /\ MaxParamChanges \in Nat /\ MaxFaults \in Nat

BadOf(tree, params) == IF tree = NoTree THEN {} ELSE Bad[tree, params]

VARIABLES
  head,              \* the contracts at the latest block
  justified, final,  \* the same at the justified and the finalized block
  withdrawn,         \* keys whose withdrawal is proven, at the latest block
  limit,             \* currentExitRequestsLimit, at the latest block
  changes, faults,
  fresh,             \* the finalized header was not seen by the loop yet
  call,              \* the calls of the task and their locals
  currentTree,       \* this.currentStrikesTree
  currentParams,     \* this.currentStrikesThresholdsByCurveId, ...CurveIds
  lastProcessed,     \* this.lastProcessedStrikesTreeRoot
  \* History, read by no action:
  deferred,          \* keys due under the caches, left out for the limit
  doneUnder          \* the parameters under which lastProcessed was set

chainVars   == <<head, justified, final, withdrawn, limit, changes>>
cacheVars   == <<currentTree, currentParams>>
markVars    == <<lastProcessed, doneUnder>>
serviceVars == <<cacheVars, markVars, deferred>>
vars == <<chainVars, faults, fresh, call, serviceVars>>

Views == [tree : Trees \cup {NoTree}, params : Params, ejected : SUBSET Keys]

Steps == {"idle", "limit", "prepare", "keys", "unproven", "withdrawn", "cap", "batch"}

(* at: where the call is suspended; view: the contracts at its header;     *)
(* list: the keys it is working on; picked (history): the tree they are of. *)
Calls == [at : Steps, view : Views, list : SUBSET Keys, all : BOOLEAN,
          picked : Trees \cup {NoTree}]

TypeOK ==
  /\ head \in Views /\ justified \in Views /\ final \in Views
  /\ withdrawn \subseteq Keys /\ limit \in 0 .. MaxLimit
  /\ changes \in 0 .. MaxParamChanges /\ faults \in 0 .. MaxFaults
  /\ fresh \in BOOLEAN
  /\ call \in [Rounds -> Calls]
  /\ currentTree \in Trees \cup {NoTree} /\ lastProcessed \in Trees \cup {NoTree}
  /\ currentParams \in Params \cup {NoParams}
  /\ deferred \subseteq Keys /\ doneUnder \in Params \cup {NoParams}

FirstView == [tree |-> NoTree, params |-> FirstParams, ejected |-> {}]

NoCall == [at |-> "idle", view |-> FirstView, list |-> {}, all |-> FALSE, picked |-> NoTree]

ServiceInit ==
  /\ call = [r \in Rounds |-> NoCall]
  /\ currentTree = NoTree /\ currentParams = NoParams
  /\ lastProcessed = NoTree /\ doneUnder = NoParams /\ deferred = {}

Init ==
  /\ head = FirstView /\ justified = FirstView /\ final = FirstView
  /\ withdrawn = {} /\ limit \in {0, MaxLimit}
  /\ changes = 0 /\ faults = 0 /\ fresh = TRUE
  /\ ServiceInit

Fault == faults < MaxFaults /\ faults' = faults + 1

Proven == head.ejected \cup withdrawn

(***************************************************************************)
(* The chain.                                                              *)
(***************************************************************************)
PublishTree ==
  /\ head.tree < NumTrees
  /\ head' = [head EXCEPT !.tree = @ + 1]
  /\ UNCHANGED <<justified, final, withdrawn, limit, changes>>
  /\ UNCHANGED <<faults, fresh, call, serviceVars>>

ChangeParams ==
  /\ changes < MaxParamChanges /\ changes' = changes + 1
  /\ \E p \in Params \ {head.params} : head' = [head EXCEPT !.params = p]
  /\ UNCHANGED <<justified, final, withdrawn, limit>>
  /\ UNCHANGED <<faults, fresh, call, serviceVars>>

ProveWithdrawal ==
  /\ \E k \in Withdrawable \ withdrawn : withdrawn' = withdrawn \cup {k}
  /\ UNCHANGED <<head, justified, final, limit, changes>>
  /\ UNCHANGED <<faults, fresh, call, serviceVars>>

(* The allowance is restored over time and used by other modules too. *)
Replenish ==
  /\ limit < MaxLimit /\ limit' = limit + 1
  /\ UNCHANGED <<head, justified, final, withdrawn, changes>>
  /\ UNCHANGED <<faults, fresh, call, serviceVars>>

UsedByOthers ==
  /\ limit > 0 /\ Fault
  /\ limit' \in 0 .. limit - 1
  /\ UNCHANGED <<head, justified, final, withdrawn, changes>>
  /\ UNCHANGED <<fresh, call, serviceVars>>

Finalize ==
  /\ justified' = head /\ final' = justified
  /\ fresh' = TRUE
  /\ UNCHANGED <<head, withdrawn, limit, changes, faults, call, serviceVars>>

(***************************************************************************)
(* The task.                                                               *)
(***************************************************************************)
At(r, step) == call[r].at = step

Wrong_Busy == \A r \in Rounds : ~At(r, "idle")

(* SingletonTask: the flag of a running call. *)
Busy == \E r \in Rounds : ~At(r, "idle")

(* The loop sees a new header; a running task makes it skip the header. *)
Poll ==
  /\ fresh /\ fresh' = FALSE
  /\ \/ Busy /\ UNCHANGED call
     \/ /\ ~Busy
        /\ \E r \in Rounds :
             /\ At(r, "idle")
             /\ call' = [call EXCEPT ![r].at = "limit", ![r].view = final]
  /\ UNCHANGED <<chainVars, faults, serviceVars>>

Goto(r, step) == call' = [call EXCEPT ![r].at = step]

(* The call returns or throws. *)
End(r) == call' = [call EXCEPT ![r] = NoCall]

CheckLimit(r) ==
  /\ At(r, "limit")
  /\ IF limit = 0 THEN End(r) ELSE Goto(r, "prepare")
  /\ UNCHANGED <<chainVars, faults, fresh, serviceVars>>

MarkProcessed ==
  /\ lastProcessed' = currentTree
  /\ doneUnder' = currentParams

(* The list is narrowed; an empty one is sent at once, and the tree counts *)
(* as processed.                                                           *)
Keep(r, list, next) ==
  \/ /\ list = {}
     /\ MarkProcessed /\ End(r)
  \/ /\ list # {}
     /\ call' = [call EXCEPT ![r].list = list, ![r].at = next,
                             ![r].picked = IF @ = NoTree THEN currentTree ELSE @]
     /\ UNCHANGED markVars

(* A wrong variant: the cached tree is compared, processed or not. *)
Wrong_AlreadyProcessed(v) == currentTree = v.tree /\ currentParams = v.params

AlreadyProcessed(v) == lastProcessed = v.tree /\ currentParams = v.params

(* prepareStrikesTreeForProcessing: the caches are replaced before anything *)
(* was done about them.                                                    *)
Prepare(r) ==
  LET v == call[r].view
  IN /\ At(r, "prepare")
     /\ \/ /\ v.tree = NoTree \/ AlreadyProcessed(v)
           /\ lastProcessed' = IF currentTree = NoTree THEN lastProcessed ELSE currentTree
           /\ End(r)
           /\ UNCHANGED <<cacheVars, doneUnder, deferred>>
        \/ /\ v.tree # NoTree /\ ~AlreadyProcessed(v)
           /\ currentTree' = v.tree /\ currentParams' = v.params
           /\ deferred' = IF v.tree = currentTree /\ v.params = currentParams THEN deferred ELSE {}
           /\ Goto(r, "keys")
           /\ UNCHANGED markVars
     /\ UNCHANGED <<chainVars, faults, fresh>>

(* getBadPerformersKeys throws on a key whose info is filtered out. *)
FindKeys(r) ==
  /\ At(r, "keys")
  /\ IF BadOf(currentTree, currentParams) \cap Filtered # {}
     THEN End(r) /\ UNCHANGED markVars
     ELSE Keep(r, BadOf(currentTree, currentParams), "unproven")
  /\ UNCHANGED <<chainVars, faults, fresh, cacheVars, deferred>>

KeepUnproven(r) ==
  /\ At(r, "unproven")
  /\ Keep(r, call[r].list \ call[r].view.ejected, "withdrawn")
  /\ UNCHANGED <<chainVars, faults, fresh, cacheVars, deferred>>

KeepNonWithdrawn(r) ==
  /\ At(r, "withdrawn")
  /\ Keep(r, call[r].list \ withdrawn, "cap")
  /\ UNCHANGED <<chainVars, faults, fresh, cacheVars, deferred>>

(* slice(0, n): the n lowest leaves. *)
First(n, list) == {k \in list : Cardinality({j \in list : j <= k}) <= n}

(* The report is capped to what the gateway allows now. *)
Cap(r) ==
  /\ At(r, "cap")
  /\ deferred' = call[r].list \ First(limit, call[r].list)
  /\ IF limit = 0 THEN End(r)
     ELSE call' = [call EXCEPT ![r].all = limit >= Cardinality(call[r].list),
                               ![r].list = First(limit, @),
                               ![r].at = "batch"]
  /\ UNCHANGED <<chainVars, faults, fresh, cacheVars, markVars>>

(* The list is sorted by leaf, the highest first. *)
BatchOf(list) == {k \in list : Cardinality({j \in list : j >= k}) <= BatchSize}

(* A wrong contract: no limit on exit requests. *)
Wrong_Accepted(batch) ==
  head.tree = currentTree /\ batch \subseteq BadOf(head.tree, head.params)

(* The strikes contract verifies the proof against its root, the threshold *)
(* and the gateway's limit.                                                *)
Accepted(batch) ==
  /\ head.tree = currentTree
  /\ batch \subseteq BadOf(head.tree, head.params)
  /\ Cardinality(batch) <= limit

Eject(batch) ==
  /\ head' = [head EXCEPT !.ejected = @ \cup batch]
  /\ limit' = limit - Cardinality(batch)
  /\ UNCHANGED <<justified, final, withdrawn, changes>>

Wrong_MarkIfAll(r) == MarkProcessed

(* The tree is processed only if the full set was sent. *)
MarkIfAll(r) == IF call[r].all THEN MarkProcessed ELSE UNCHANGED markVars

SendBatch(r) ==
  LET batch == BatchOf(call[r].list)
  IN /\ At(r, "batch")
     /\ Accepted(batch) /\ Eject(batch)
     /\ \/ /\ call[r].list # batch
           /\ call' = [call EXCEPT ![r].list = @ \ batch]
           /\ UNCHANGED markVars
        \/ /\ call[r].list = batch
           /\ MarkIfAll(r) /\ End(r)
     /\ UNCHANGED <<faults, fresh, cacheVars, deferred>>

SendRejected(r) ==
  /\ At(r, "batch") /\ ~Accepted(BatchOf(call[r].list))
  /\ End(r)
  /\ UNCHANGED <<chainVars, faults, fresh, serviceVars>>

(* The transaction is mined, but waiting for it timed out. *)
SentButFailed(r) ==
  /\ At(r, "batch") /\ Fault
  /\ Accepted(BatchOf(call[r].list)) /\ Eject(BatchOf(call[r].list))
  /\ End(r)
  /\ UNCHANGED <<fresh, serviceVars>>

(* A request, IPFS, the request fee or the transaction throws. *)
Fail(r) ==
  /\ ~At(r, "idle") /\ Fault
  /\ End(r)
  /\ UNCHANGED <<chainVars, fresh, serviceVars>>

(* The process restarts: nothing of this service is persisted. *)
Restart ==
  /\ Fault /\ fresh' = TRUE
  /\ call' = [r \in Rounds |-> NoCall]
  /\ currentTree' = NoTree /\ currentParams' = NoParams
  /\ lastProcessed' = NoTree /\ doneUnder' = NoParams /\ deferred' = {}
  /\ UNCHANGED chainVars

Work(r) ==
  \/ CheckLimit(r) \/ Prepare(r) \/ FindKeys(r)
  \/ KeepUnproven(r) \/ KeepNonWithdrawn(r) \/ Cap(r)
  \/ SendBatch(r) \/ SendRejected(r)

Next ==
  \/ PublishTree \/ ChangeParams \/ ProveWithdrawal \/ Replenish \/ UsedByOthers
  \/ Finalize \/ Poll
  \/ \E r \in Rounds : Work(r) \/ SentButFailed(r) \/ Fail(r)
  \/ Restart

Spec == Init /\ [][Next]_vars

(* The chain finalizes, the allowance is restored, and what the task       *)
(* awaits settles.                                                         *)
FairSpec ==
  /\ Spec
  /\ WF_vars(Finalize) /\ WF_vars(Replenish) /\ WF_vars(Poll)
  /\ \A r \in Rounds : WF_vars(Work(r))

-----------------------------------------------------------------------------
(* The tree marked as processed is done with: under the thresholds and     *)
(* curves it was marked for, each of its bad performers is ejected or      *)
(* withdrawn, whatever was deferred, rejected, retried or interrupted.     *)
ProcessedTreeIsDone ==
  lastProcessed # NoTree => BadOf(lastProcessed, doneUnder) \subseteq Proven

(* The proofs of a call are built from the tree its leaf indices were      *)
(* taken from, although they read the service's current tree only after    *)
(* several requests.                                                       *)
BatchesMatchTheirTree ==
  \A r \in Rounds : call[r].list # {} => call[r].picked = currentTree

(* The task keeps the report of module StrikesReport: a tree is marked     *)
(* only when it is done, by whichever of the five ends of a call that mark *)
(* it; the mark, which the early return sets again from the cached tree,   *)
(* never goes back to an older tree; and only a restart takes it away.     *)
Report == INSTANCE StrikesReport WITH proven <- Proven, tree <- lastProcessed,
                                      params <- doneUnder

KeepsReport == Report!Spec

(* bad-performers.service.ts, "a partial send is retried next round" and   *)
(* "nothing allowed now -- leave the tree unprocessed and retry next       *)
(* round": between calls, keys deferred for the limit keep their tree      *)
(* unprocessed.                                                            *)
DeferredKeysAreRetried ==
  ~Busy /\ ~(deferred \subseteq Proven) => lastProcessed # currentTree

IsDue(k) == k \in BadOf(head.tree, head.params)

(* While the thresholds and curves stay as they are, and whatever the      *)
(* limit, the finality delay and the failures do, a bad performer is       *)
(* ejected or withdrawn, or stops being one.  (With an operator filter,    *)
(* one bad performer that it hides makes every round throw.)               *)
BadPerformersAreProven ==
  [](changes = 0) => \A k \in Keys : IsDue(k) ~> (k \in Proven \/ ~IsDue(k))
=============================================================================
