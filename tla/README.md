# A specification of the CSM prover tool

TLA+ modules, TLC runs and TLAPS proofs for the daemon and the prove command of the CSM prover tool. The tool watches
finalized blocks of the beacon chain for slashings, full withdrawals and balance changes of the
validators of one staking module, and the strikes tree of the module for bad performers, and sends a
proof of each to the contracts. What makes it correct is that *nothing that must be reported is lost*,
while requests fail, the index of validator keys lags behind, several tasks run on one thread, and the
process may stop anywhere. Paths below are relative to the repository.

## Inventory

| component | state | operations | talks to |
|---|---|---|---|
| Daemon loop (`src/daemon/daemon.service.ts`) | last finalized header, the root in processing, one "running" flag per singleton task | poll, start an index update, a bad performers task, one root | everything below; never awaits the tasks it starts |
| Roots provider (`src/daemon/services/roots-provider.ts`) | none | next root: cold start, stacked root, child of the last root; lag gate | roots stack, beacon node |
| Roots processor (`src/daemon/services/roots-processor.ts`) | none (locals across awaits) | push, slashings, withdrawals, balances, trust check, purge, set last | roots stack, keys indexer, duties |
| Roots stack (`src/daemon/services/roots-stack.ts`) | slot -> root and last root, in memory and in two files | next eligible, push, purge, set last | keys indexer (trust) |
| Keys indexer (`src/daemon/services/keys-indexer.ts`) | validator index -> key, slot and length of the state it was built from, in memory and in two files | initialise, update, look up, trust checks | beacon node, keys API, workers |
| Duties (`src/common/prover/`) | bad performers only: cached tree, thresholds, curves, last processed tree | find what is unproven, build proofs, send | beacon node, contracts, workers, execution |
| Execution (`src/common/providers/execution/`) | gas fee history, signer | emulate, price, send, wait, retry | execution node |
| Providers and caches (`src/common/providers/`, `src/common/helpers/lru.ts`) | LRU caches with requests in flight | request with retries over fallback URLs | nodes, keys API, IPFS |
| Workers (`src/common/workers/`) | one thread per call | decode states, build proofs | -- |
| SSZ and history helpers (`src/common/helpers/proofs.ts`, `src/common/prover/utils/`) | none | find a block in the historical summaries, build and check proofs | beacon node |
| Prove command (`src/cli/`) | none | one duty of one block and one validator, chosen by a user | duties, execution |
| Configuration, metrics, contract bindings | no protocol state | -- | -- |

What is hard here:

* **Everything awaits.** The loop, one root, one index update and one bad performers task interleave at
  every `await`. State read before an await (the index a scan used, the finalized header a root was
  started with, the tree leaf indices were taken from) may be replaced before it is used.
* **Files are written after memory.** Four files, each written whole; the process may stop between any
  two writes, and a failed write leaves memory and file apart. They are read one by one as well, and a
  read that fails may leave a start half done.
* **Retries repeat what was partly done.** A root whose third duty failed is processed again from the
  start; a transaction may be mined although waiting for it failed.
* **Proofs age.** A block's root is in the beacon state, and known to the execution layer, for about a
  day; later it is found in a historical summary, which exists only some time after the block. In between
  neither proof may be possible.
* **One signer, several tasks.** A nonce is asked for long before the transaction is sent, blocks are
  replaced, nodes forget transactions or do not answer, and the fee may be too high for hours.
* **Shared requests.** Activities share a download, and its failure; a worker may end without a word.
* **Staleness is bounded, not excluded.** The index may be behind the block by the protocol delay of a
  duty, and each duty has a delay of its own.
* **Limits.** The gateway allows so many exit requests now; the rest must come later.

What each component owes (the properties are in the modules):

* walk: no finalized root skipped; no owed duty lost, in memory or in the files; every root discharged
  once the indexer is healthy; processing stays the configured lag behind the finalized block;
* index: complete for the slot it claims, in memory and in the files, at any time;
* bad performers: a tree is marked as processed only when it is done; every bad performer is ejected in
  the end; one proof is of one tree;
* duties: a root is done only when each of its events is proven; an increase of a balance is reported
  before what makes the key leave; a proof is made against a root that is still kept; every event is
  proven in the end;
* execution: `execute` returns only for a proof that stays in the chain; a duty is paid for twice only
  when the first attempt had an unclear end; both tasks get through; the fee history is bounded and recent;
* requests: nothing that may change is cached; one download per state; every call settles; no failure is
  remembered.

## Modules

| module | models | state and actions |
|---|---|---|
| `KeysTrust` | `isTrustedFor...` of the keys indexer | operators on slots |
| `RootsStack` (extends `KeysTrust`) | `roots-stack.ts` | `stack`, `last` are the lowdb data in memory, `saved...` the files. Each operation is cut at its await: `PushInMemory`/`WriteStorage` ... |
| `RootsWalk` (extends `RootsStack`) | `daemon.service.ts`, `roots-provider.ts`, `roots-processor.ts` and the update task | an action is the code between two awaits; `loop`, `step` and `update` say where the three activities are suspended |
| `KeysIndexer` | `keys-indexer.ts`, the worker that reads new keys, the keys API's health check | `pc` says where the initialisation or update is suspended |
| `BadPerformers` | `bad-performers.service.ts`, `handleBadPerformers`, the calls of the strikes contract | `call[r].at` says where a call of the task is suspended, with its locals |
| `Ledger` | -- | what the stack and the position promise, without the loop: a book of roots that never forgets. `RootsWalk` implements it (`KeepsLedger`) |
| `BeaconHistory` | `historical-summary.ts`, `isHistoricalBlock`, what `generateHistoricalStateProof` needs | operators on slots, the block roots a state keeps and its summaries |
| `Duties` (extends `BeaconHistory`) | `prover.service.ts`, `slashings.service.ts`, `withdrawals.service.ts`, `balances.service.ts`, the payload builders of the workers, `prove.command.ts` | `job` says where a handler is suspended, with its locals; one action per await that sees the chain or the contracts |
| `FeeHistory` | `updateGasFeeHistoryCache`, `percentile` | `cache`, `lastFee` |
| `Execution` (extends `FeeHistory`) | `execution.ts`: `execute`, `_execute` | `run[t].at` says where the call of a task is suspended; `pool` and `included` are the chain |
| `Requests` | `lru.ts`, `rest-provider.ts`, `func.ts`, the getters of `consensus.ts`, `workers.service.ts` | `items` and `inFlight` are the cache, `call` and `request` where a caller is suspended |
| `IndexTask` (extended by `RootsWalk`) | the keys indexer as the walk sees it | the slot its index is of, in memory and in the file, and where its run is. `KeysIndexer` implements it (`RunsIndexTask`), `RootsWalk` takes its steps of the index from it |
| `RootDuties` | -- | the processing of a root as three calls: which handler runs, what it has to report, what is reported. `RootsWalk` and `Duties` implement it (`HandlesRoots`) |
| `Delivery` | -- | what `execute` promises its callers: calls, known transactions, lasting proofs. `Execution` implements it (`KeepsDelivery`) |
| `StrikesReport` | -- | what a mark on a strikes tree promises. `BadPerformers` implements it (`KeepsReport`) |
| `MC...` | -- | the small instances for TLC |
| `...Proofs` | -- | theorems and proofs |

How the modules fit together. A component that another one relies on has an abstract module between the
two, which the detailed module implements and the other one is composed with, or implements as well:

* `IndexTask`, between the walk and the indexer. `RootsWalk` has the steps of the task among its own, one run
  at a time; `RunsIndexTask` says that the requests,
  half done updates and two files of `KeysIndexer` amount to those steps. What the slot of an index *means*
  is `MemoryIndexIsComplete`: each module validator of the state at that slot is known, if its key was
  deposited in time and its file could be read. `RootsWalk` has the scans of the duties find all that
  is in an index of that slot: it takes for granted that there are no keys of either exception.
* `RootDuties`, between the walk and the duties. `RootsWalk` takes a handler as one step, `Duties` as a call
  with its reads, workers and transactions; both implement the same processing of a root. What is due
  differs: in the walk, what an index that lags finds; in `Duties`, which has a complete index, the
  events of the block and, of the balances, what is worth a report at the start of the root's epoch.
* `Delivery`, between the duties and `execute`. `Duties` takes a call of `execute` as one step that proves
  (`SendProof`), is refused (`Refused`) or has an unclear end (`SentUnanswered`); `Delivery` says that these
  are all the ends a call has, and what each leaves behind. The correspondence of the two is by reading:
  a duty of `Execution` is one proof, and it has no chain of beacon blocks.
* `Ledger` and `StrikesReport` are what the daemon as a whole owes its operator.

`BadPerformers` shares with the walk only the poll of the finalized header. `Requests` is below all of
them: what the others take for an await that answers or throws is what it shows to settle.

Abstractions. A root is named by its slot (one canonical block per slot); a validator, a tree and a
setting of thresholds are members of small sets; an *event* is what a block does to a validator of the
module. A duty is one action: what it finds (`Found`) depends on the index at that moment, what it sends
is `reported`, and a failing duty may have sent any part (`DutyFail`). In `Duties` the state of a block is
the block, a balance a small number, and the payload of a proof the validator it is for; the key that a
user names may be that of another validator. In `Requests` an answer is a version. `Wrong_...` operators are slips
the code might have had; no action uses them, and each is there to show that a property notices it.
History variables (`reported`, `walked`, `overtaken`, `unsaved`, `deferred`, `picked`,
`doneUnder`, `unread`, `dropped`, `ours`, `settled`, `glimpsed`, `repeated`, `since`, `outdated`) decide nothing in the code's
actions; only `Execution` reads `settled`, to choose the next duty of a task, as the task itself would.

External: the beacon chain's finality, the blocks' events, the keys API's snapshot and the contracts are
modelled from how the code uses them. The trust windows rest on the premise that a validator does
nothing before the protocol delay has passed since it appeared (`ProtocolDelays`). The premise is taken
from the code's windows and says what they need. The protocol gives it for withdrawals; for slashings the code
argues from the delays between a deposit and the appearance of the validator (`keys-indexer.ts:180`),
which is weaker, and balances get the window of the withdrawals without an argument of their own. The
index rests on the premise that a key is deposited some time before its validator appears (`RegistryGrows`).

## Runs

| run | question | result |
|---|---|---|
| `RootsWalk` | does the walk lose or skip anything, with three faults or restarts anywhere, and is every due root discharged? | nothing is lost: `NoRootSkipped`, `NoDutyLost`, `NoDutyLostByRestart`, `OwedRootsStayStacked`, `LagKeepsDistance`; it implements `Ledger` and `RootDuties`; `EveryRootDischarged` and `SlashingsReportedInWindow` hold (150 thousand states) |
| `RootsWalk_race` | is a root scanned with a breached index kept? | **no**: see finding 1 |
| `RootsWalk_window` | are withdrawals reported within their window while the indexer is down? | **no**: see finding 2 |
| `RootsWalk_push` | does a root stay on the stack whatever writes fail and stops follow? | **no**: see finding 3 |
| `KeysIndexer_index` | is the index complete after any failed, interrupted or half-written run, and does a run never lose a key? | yes, but for the keys of a file that could not be read: `IndexIsComplete`, `SavedIndexIsComplete` for the keys deposited in time, `FilesOnlyGain`; it implements `IndexTask` (23 thousand states) |
| `KeysIndexer_torn` | are the keys received before used after a start whose reads may fail? | **no**: see finding 4 |
| `BadPerformers` | is a processed tree done, whatever was deferred, rejected or interrupted, and is every bad performer proven in the end? | yes; it implements `StrikesReport`; the latter while the thresholds do not change (290 thousand states) |
| `BadPerformers_deferred` | are deferred keys retried when the thresholds do change? | **no**: see finding 5 |
| `Duties` | is all of a root proven when it is done, whatever failed, aged or was proven by others? | yes: `DoneMeansProven`, `BalanceBeforeExit`, `AnchorsAreKept`; it implements `RootDuties`; `EventsAreProven` over the gap between the general and the historical proof (130 thousand states) |
| `Execution` | do two tasks with one signer get through, without a proof forgotten or paid for twice? | yes: `ReturnedMeansProven`, `PaidOnce`, `DutiesAreProven`, `CallsReturn`, `HistoryIsBounded`; it implements `Delivery` (48 thousand states) |
| `Execution_history` | is the fee history that of the last days? | **no**: see finding 6 |
| `Requests` | does every call settle, and is nothing stale cached, with nodes that may stay down? | yes: `CacheIsNeverStale`, `OneRequestPerKey`, `AnswersAreCurrent`, `CallsSettle`, `WantsAreServed` (73 thousand states) |

Findings, each a sentence of the documentation or a comment that the code does not keep:

1. `roots-processor.ts:46` asks whether the index is trusted *now*. An update that commits after the
   scan makes a breached scan look trusted, and the root is purged. In `NoDutyLost` these roots are set
   apart as `overtaken`, which also shows that this is the only such way.
2. `roots-stack.ts:56` serves a root that is trusted for *any* duty before the children of the last
   root, but only a root trusted for *every* duty is purged. Between the two windows (about 15h and 27h)
   the walk repeats one root and reaches no later one.
3. `roots-stack.ts:70`: `push` changes the map before it writes the file. After a write that failed, the
   retry finds the root in the map and returns; the walk goes on from it, and until something else
   writes the stack, a restart forgets the root. In `NoDutyLost` these roots are set apart as `unsaved`.
4. `keys-indexer.ts:220`: when the read of the storage throws after that of the info, memory has the
   module, the slot and the length of the file and no key, and `isInitialized()` is true. The loop logs
   the error and goes on: every scan with that index misses the keys of the file (`unread`), and the next
   update writes the file without them (`dropped`). Only keys that appear later are found.
5. `bad-performers.service.ts:113` replaces the cached thresholds before anything is sent. If the tree
   was processed under older ones, a round that defers keys, or fails, is not repeated.
6. `execution.ts:252` hands the cached history to `percentile`, which sorts it in place
   (`utils/common.ts:9`); the next refresh drops its first fees, which are then the lowest, not the oldest.

Two more are slips of a line, which the modules have and no run of its own repeats:

* `keysapi.ts:43` compares a difference in seconds with a period in milliseconds. With the default, answers a
  thousand times older than meant are accepted, older than the protocol's deposit delay, so that a
  key deposited shortly before may be missing from an index: see `InTimeKeys`.
* `bad-performers.service.ts:250` throws for a key that the operator filter hides, so that one bad performer
  of another operator keeps those of the filter from being proven (`Filtered`, empty in the runs; the
  safety theorems hold for any).

Three exceptions are worth knowing. A duty service that asks the contract may
see a proof in a block that is then replaced, and forgets the duty (`glimpsed` in `ReturnedMeansProven`).
An increase too small to report is left when a validator is slashed that was not yet exiting
(`BalanceBeforeExit`). And a page of the fee history ends with the first block of the page after it
(`execution.ts:297`), so that the oldest blocks of the window are missing: `Fetched` has it, no property
turns on it.

Bounds. Four blocks in two epochs, one empty slot, and windows of one and three slots give an index that
is trusted for everything, for withdrawals only, or for nothing, in each order; three validators, two of
which appear late, give events a stale index misses. Three faults are needed for "fail, retry, stop".
Four validators and four slots, one of them deposited too late for the freshness check (`DepositDelay` is zero, so
that the protocol rules nothing out), let an update add none, one or several keys, with a foreign key between.
Three keys, two trees, two settings and a limit of two make a list longer than the limit, a batch
smaller than the list and a tree that is replaced while a call runs. Counters of faults (`MaxFaults`)
and of changes of thresholds (`MaxParamChanges`) are bounded; so are slots (`Blocks`, `MaxSlot`) and
trees (`NumTrees`). The run `RootsWalk` has a configured start root and a lag of one slot; a cold start
without one is in the runs `RootsWalk_race`, `RootsWalk_window` and `RootsWalk_push`, and in the proofs. `KeysIndexer_index` has
three faults for a stop, a start that fails in the middle, and one more after it.

`Duties`: 11 blocks with two empty slots over one and a half periods of summaries of 8 slots, so that
blocks pass from general to unprovable to historical; three validators that are withdrawn with an increase,
grow and are slashed, and are slashed with an increase and withdrawn then; both modes, one fault.
`Execution`: two tasks and three duties, of which one exceeds the gas limit and blocks its task; five
blocks, one of them above the fee cap; a history of three blocks in pages of two; one fault, which may be
a reorganisation, a lost answer or transaction, an early timeout, a failed request or a restart.
`Execution_history` has one task and one page, so that only the sort shows. `Requests`: two callers that need the same state, a key of
each kind, two nodes that break and recover at any time, a cache of one item, one broken body or failing
worker. `Duties` does not check deadlock: its chain ends at `MaxSlot`. `KeysIndexer_index` and `KeysIndexer_torn` do not check deadlock, since slots end at `MaxSlot` and the
indexer then has nothing to do. No symmetry is used: slots and indices are ordered.

Fairness. `RootsWalk` assumes that the loop, which never returns (`loop()` catches everything), keeps
running and that the promises of `processNext` settle: weak fairness of the loop's steps and of `Walk`.
It assumes nothing of the index update, which may hang or fail, nor that the finalized head moves.
`BadPerformers` assumes that the head finalizes, that the gateway's allowance is restored, that the loop
polls, and that the task's awaits settle. Faults are never fair and bounded in number. `EveryRootDischarged` has the premise that index updates end
again and again, since the loop waits for the first one and a poll starts no second.
`Duties` assumes that the chain grows and finalizes and that the handlers of an owed root are called again
(`Work`), as the walk does. `Execution` assumes that blocks are made, that they include what can pay, and
that what a call awaits settles (`Settle`); that a wait for a transaction nothing will include ends is
the timeout of `waitForTransaction`. `Requests` assumes that the answer of a node, good or bad, arrives
(the timeouts of the requests and of the workers), and that a failed call is repeated; *nothing* is
assumed of a node that is down, which may stay so for ever. Only `WantsAreServed` has the premise that
the nodes are up from some time on.

## Proofs

All for every value of the constants that satisfies the named assumptions.

* `RootsWalkProofs`. `TypeCorrect`, `WalkHasNoGap`, `DutiesAreNotLost`, `DutiesSurviveRestart`,
  `StackKeepsOwedRoots`, `LagIsKept`. `NoDutyLost` is not inductive: between the scan and the purge a root owes what
  it has not been scanned for. The invariants `Shape` (what the place of suspension says about `cur`),
  `Owed` (each walked root is discharged, set apart or stacked, in memory and in the files, and the root
  in processing is stacked until its trusted duties are done) and `Gapless` (the last root is either a
  walked root or follows one) strengthen it; `LagInv` adds the lag, with the header of the loop never past
  the finalized block, since a child may be judged against a header older than itself. The lemma `TrustedScanIsComplete` is the one place where the
  premise `ProtocolDelays` is used, duty by duty: an index within the window of a duty misses no event of it. `WalkKeepsLedger` is the
  refinement: `Shape`, `Owed` and `Gapless` show each step of the walk to be a step of `Ledger` or a stutter, with
  the position and the book read from the files, where `unsaved` roots count as in the book and
  `overtaken` ones as closed. `SavedPositionIsAccountedFor` says what that comes to for a restart, with
  both exceptions named: those are roots a restart can lose. `WalkHandlesRoots` needs
  what `Scanned` says of the handlers that returned: what an older index found is still what the root owes
  at least, and reported.
* `KeysIndexerProofs`. `IndexerTypeCorrect`, `MemoryIndexIsComplete`, `FilesIndexIsComplete`, from the
  invariant `Indexed`: between two steps of a run the entries are already those of a later slot than the
  info's, and both readings are complete; and between the two reads of a start memory has the claim of
  the file without its keys. `unread` are the keys that memory lacks by such a start, until an update finds them,
  and `dropped` those that the file lacks since it was written from there: the three theorems except them. The promise is per key: `InTimeKeys` are the keys whose deposit is
  at least the freshness period older than the appearance of their validator, and an accepted answer has them
  all (`AcceptedAnswersAreComplete`). If the period is within the deposit delay of the protocol, these are all
  the keys (`DelayMakesAllKeysInTime`); with the default of the code, read in the unit the code
  compares in, it is not, and only the promise per key holds. `FilesGain` needs `SlotInv` (neither the
  target nor memory is behind the file) and `KeptInv` (memory has each key that the file has, but for the
  unread ones, and the keys a run found add to them). The same two, with the lemmas of the step, give the refinement
  `IndexerRunsTask`, in which a start before the files are read counts as having the index of the file.
* `BadPerformersProofs`. `TaskTypeCorrect`, `MarkedTreeIsDone`, `ProofsAreOfOneTree`, from the invariant
  `Inv`: `Accounted` says what the list at each suspension point still stands for, `Single` that one call
  runs at a time, `Monotone` that no view is older than the cached tree, so that the early return never
  marks a newer one. `TaskKeepsReport` is the refinement of `StrikesReport`: each of the five steps that mark is one of
  its `Mark`, for which `HasTree` says that no call works on a list without a cached tree. The lemma `WholeListFits` makes `all` mean that nothing was deferred.
* `RequestsProofs`. `TypeCorrect`, `CacheStaysTrue`, `RequestsAreShared`, `NoAnswerIsOutdated`, for any
  number of callers, nodes, retries and cached items, from the invariants `Shape` (which caller a request
  in flight belongs to, and who has joined it) and `Truthful` (a version on its way is at least that of
  the moment its request was made, and the one the nodes know if it is called finalized). The assumption
  `NoneIsNobody` says that no key or caller is named like the absence of one.
* `DutiesProofs`. `TypeCorrect`, `AnchorsKept`, `BalancesGoFirst`, `DoneRootsAreProven`, for any chain,
  any balances and any number of faults. None is inductive. `Control` says what the place of suspension
  means for the locals of the handler; `MeasuredInv` that from the measuring of the balances on, each key of
  the job is settled or still in the payloads, which needs that confirmed balances only grow;
  `ProgressInv` that each event and each balance a job has passed is proven or still to come in it, so
  that nothing is left when it ends. `AnchorsKept` rests on `RootsLast`, that the execution layer keeps
  roots for as long as a state does; `CapellaIsAligned` is what the index of a summary rests on. `DutiesHandleRoots` is the refinement of
  `RootDuties`: `ServedInv`, which follows from `ProgressInv`, says that what the handlers before the present one had to
  report is reported; `HandlerSteps` that a step of a handler stays with its root, throws, or is the return.
* `ExecutionProofs`. `TypeCorrect`, `HistoryStaysBounded`, `ReturnedIsProven`, `DutiesArePaidOnce`, for
  any number of tasks and duties and any base fees. `Typed` adds to the types that the pool and the chain
  are finite, so that `PendingNonce` exists (`NonceTypes`: of one nonce more than there are transactions
  in the pool, one is free), and that a refresh under way has a block of the chain in its hands.
  `FinallyProvenGrows` says that nothing takes back a proof with its confirmations, so that
  `ReturnedMeansProven` has to look at the settling steps only (`SettledIsProven`). `PaidOnce` is not
  inductive: `Covered` says that the duty of each known transaction is behind its task, or the task waits
  for that very transaction; `Fresh` that a call which has yet to send has sent nothing for its duty;
  `Placed` that a reverted transaction has a reason, and that no block and pool share one by accident.
  `CallsAreDelivered` is the refinement of `Delivery`, from the same invariant: `Fresh` shows that a
  call which throws before it sends leaves no transaction of its duty, `Placed` that one whose transaction
  reverted lost to a proof that lasts, and everything else ends unclear.
* `FeeHistoryProofs`. `SortingOrders`: the sort by rank of the model is one, for a history of any length: the
  result ascends, has the same fees, and as many of them up to any bound. `PercentileOfHistory`: the recommended fee
  lies between two fees of the history; the blocks at or under it are more than the configured
  percentage of the steps from the lowest to the highest, and those under it less than one more than that.
  Both rest on counting (`AtMostCounts`, `RankedIsLeast`), not on induction over the history. The model
  divides exactly; the code's `p / 100` is a floating point number, which may take the mean of two
  neighbours where the model takes the lower one.
* `Extrema` holds what these cite about least and greatest elements.

Every safety invariant, action property and refinement that a passing run checks is also a theorem. Only model-checked are
the liveness properties (`EveryRootDischarged`, `SlashingsReportedInWindow`, `BadPerformersAreProven`, `EventsAreProven`,
`DutiesAreProven`, `CallsReturn`, `CallsSettle`, `WantsAreServed`), since fairness and `ENABLED` are out of
the prover's reach; and the six findings, whose counterexamples are TLC's. An abstract module states
safety only, so that the refinements do as well.

## Not modelled

* The bytes of Merkle and SSZ proofs and of the strikes tree: pure data; `BeaconHistory` keeps which block
  a proof is about and when it exists.
* Configuration, metrics, logging, prompts, the start-up checks of contract addresses and versions, and
  the download progress: no protocol state.
* IPFS gateways and POST requests, which share the retries that `Requests` models.
* A beacon node whose finalized header moves back, or fallback nodes that answer differently from one
  another. The index could move back with it, and a root lie past the header its slashing proof uses
  (`slashings.service.ts:44`). The same for the execution providers, between which `_execute` switches
  after an error.
* In the walk, an index that knows less than its slot claims: what a torn start (finding 4) or an answer
  older than the deposit does to the scans.
* A number of days of fee history that is zero, for which the percentile of nothing is asked
  (`env.validation.ts:89` allows it), and zero confirmations.

## Plan

1. Nodes that disagree: a finalized header that moves back, for `RootsWalk`, `BadPerformers` and `Duties`.
2. An abstract module for `Requests`, a register that is read through shared requests, and what it promises
   to each of its callers.
3. `Duties` with a key index that lags, so that what is due in the two implementations of `RootDuties` is
   the same.
