----------------------------- MODULE Execution -----------------------------
(***************************************************************************)
(* The class Execution: execute and _execute, called by the tasks of the   *)
(* process for one duty at a time.  The tasks share the signer, whose      *)
(* nonce each of them asks the node for, and the base fee history.  An     *)
(* action is the code between two awaits; awaits that touch nothing shared *)
(* are joined.                                                             *)
(*                                                                         *)
(* The chain is environment: a pool of transactions, blocks that include   *)
(* them by nonce when they can pay the base fee, and reorganisations of    *)
(* blocks that have fewer than TX_CONFIRMATIONS confirmations.  The        *)
(* contract accepts the proof of a duty once.                              *)
(***************************************************************************)
EXTENDS FeeHistory

CONSTANTS
  Tasks,           \* what calls execute: the root in processing, bad performers
  Duties,          \* the duties of all tasks, in the order they are tried
  Owner,           \* the task of a duty
  Gas,             \* what estimateGas returns for a duty
  BufferPercent,   \* TX_GAS_LIMIT_BUFFER_PERCENT
  GasCap,          \* TX_GAS_LIMIT
  Rewards,         \* priority fees the node may report
  MinPriority,     \* TX_MIN_GAS_PRIORITY_FEE
  MaxPriority,     \* TX_MAX_GAS_PRIORITY_FEE
  FeeCap,          \* TX_MAX_BASE_FEE_GWEI, 0 when disabled
  MaxRetries,      \* TX_HIGH_GAS_FEE_MAX_RETRIES
  Confirmations,   \* TX_CONFIRMATIONS
  Modes,           \* the configurations of the process
  FirstBlock,      \* the latest block when the process starts
  MaxFaults        \* bound on the failures and restarts of a behaviour

LastBlock == Len(BaseFee) - 1

ASSUME ExecutionConstants ==
  /\ Duties \subseteq Nat \ {0} /\ IsFiniteSet(Duties)
  /\ Owner \in [Duties -> Tasks] /\ Gas \in [Duties -> Nat]
  /\ BufferPercent \in Nat /\ GasCap \in Nat
  /\ Rewards \subseteq Nat /\ MinPriority \in Nat /\ MaxPriority \in Nat
  /\ FeeCap \in Nat /\ MaxRetries \in Nat /\ Confirmations \in Nat \ {0}
  /\ Modes \subseteq {"daemon", "cli", "dry", "nosigner"}
  /\ FirstBlock \in RefreshDelay .. LastBlock /\ FirstBlock >= HistorySize
  /\ MaxFaults \in Nat

VARIABLES
  mode,            \* WORKING_MODE, DRY_RUN and whether there is a signer
  height,          \* the latest block
  pool,            \* transactions in the mempool
  included,        \* transactions in blocks: result and confirmations
  byOthers,        \* duties somebody else proved
  run,             \* where the call of a task is suspended, with its locals
  faults,          \* faults so far
  \* History, read by no action but the next start:
  settled,         \* duties the caller is done with
  glimpsed,        \* of those, seen proven in a block without its confirmations
  repeated         \* duties that an attempt may have left a transaction for

chainVars == <<height, pool, included, byOthers>>
dutyVars  == <<settled, glimpsed, repeated>>
vars == <<mode, chainVars, run, faults, historyVars, dutyVars>>

NoDuty == 0

Places == {"idle", "emulate", "populate", "gate", "history", "send", "wait"}

Tx == [task : Tasks, duty : Duties, nonce : Nat, maxFee : Nat]

Inclusion == [tx : Tx, ok : BOOLEAN, conf : 1 .. Confirmations]

Call == [at : Places, duty : Duties \cup {NoDuty}, maxFee : Nat, nonce : Nat,
         current : Nat, latest : Nat, missing : 0 .. HistorySize,
         attempts : 0 .. MaxRetries]

Idle == [at |-> "idle", duty |-> NoDuty, maxFee |-> 0, nonce |-> 0,
         current |-> 0, latest |-> 0, missing |-> 0, attempts |-> 0]

TypeOK ==
  /\ mode \in Modes
  /\ height \in FirstBlock .. LastBlock
  /\ pool \subseteq Tx
  /\ included \subseteq Inclusion
  /\ byOthers \subseteq Duties
  /\ run \in [Tasks -> Call]
  /\ faults \in 0 .. MaxFaults
  /\ cache \in Seq(Nat) /\ lastFee \in 0 .. LastBlock
  /\ settled \subseteq Duties /\ glimpsed \subseteq settled
  /\ repeated \subseteq Duties

Init ==
  /\ mode \in Modes
  /\ height = FirstBlock
  /\ pool = {} /\ included = {} /\ byOthers = {}
  /\ run = [t \in Tasks |-> Idle]
  /\ faults = 0
  /\ HistoryInit
  /\ settled = {} /\ glimpsed = {} /\ repeated = {}

Fault == faults < MaxFaults /\ faults' = faults + 1

(***************************************************************************)
(* The chain.                                                              *)
(***************************************************************************)
PendingFee == BaseFee[height + 1]

Succeeded == {i \in included : i.ok}

Proven == {i.tx.duty : i \in Succeeded} \cup byOthers

FinallyProven ==
  {i.tx.duty : i \in {j \in Succeeded : j.conf = Confirmations}} \cup byOthers

Known == pool \cup {i.tx : i \in included}

AccountNonce == Cardinality(included)

(* Counting the pool instead of the nonces in a row.  The Wrong variants   *)
(* here and below are slips this code could have; no action uses them.     *)
Wrong_PendingNonce == AccountNonce + Cardinality(pool)

(* getTransactionCount of the pending block. *)
PendingNonce ==
  Min({n \in AccountNonce .. (AccountNonce + Cardinality(pool)) :
         \A x \in pool : x.nonce # n})

CanPay(x) == x.maxFee >= PendingFee

Older(i) == [i EXCEPT !.conf = IF @ < Confirmations THEN @ + 1 ELSE @]

NextBlock == height' = IF height < LastBlock THEN height + 1 ELSE height

(* The next transaction of the signer is included; the contract reverts    *)
(* what is already proven.                                                 *)
Include ==
  /\ \E x \in pool :
       /\ x.nonce = AccountNonce /\ CanPay(x)
       /\ pool' = pool \ {x}
       /\ included' = {Older(i) : i \in included} \cup
                        {[tx |-> x, ok |-> x.duty \notin Proven, conf |-> 1]}
  /\ NextBlock
  /\ UNCHANGED <<mode, byOthers, run, faults, historyVars, dutyVars>>

EmptyBlock ==
  /\ included' = {Older(i) : i \in included}
  /\ NextBlock
  /\ UNCHANGED <<mode, pool, byOthers, run, faults, historyVars, dutyVars>>

OthersProve ==
  /\ Fault
  /\ \E d \in Duties \ Proven : byOthers' = byOthers \cup {d}
  /\ UNCHANGED <<mode, height, pool, included, run, historyVars, dutyVars>>

(* Blocks without their confirmations are replaced by empty ones. *)
Reorg ==
  /\ Fault
  /\ \E i \in included : i.conf < Confirmations
  /\ pool' = pool \cup {i.tx : i \in {j \in included : j.conf < Confirmations}}
  /\ included' = {i \in included : i.conf = Confirmations}
  /\ UNCHANGED <<mode, height, byOthers, run, historyVars, dutyVars>>

(* The network forgets a transaction. *)
Drop ==
  /\ Fault
  /\ \E x \in pool : pool' = pool \ {x}
  /\ UNCHANGED <<mode, height, included, byOthers, run, historyVars, dutyVars>>

(***************************************************************************)
(* The calls of execute.                                                   *)
(***************************************************************************)
At(t, place) == run[t].at = place

Goto(t, place) == run' = [run EXCEPT ![t].at = place]

(* execute returns or throws; an error leaves the duty to its task. *)
End(t) == run' = [run EXCEPT ![t] = Idle]

(* Without an error the caller is done with the duty. *)
Return(t) ==
  /\ End(t)
  /\ settled' = settled \cup {run[t].duty}
  /\ UNCHANGED <<glimpsed, repeated>>

Throw(t) == End(t) /\ UNCHANGED dutyVars

Sends == mode \in {"daemon", "cli"}

(* The command line is one sequential task. *)
MayStart == mode = "cli" => \A t \in Tasks : At(t, "idle")

NextDuty(t) == {d \in Duties \ settled :
                  /\ Owner[d] = t
                  /\ \A e \in Duties \ settled : Owner[e] = t => d <= e}

(* The duty services ask the contract first what is still unproven. *)
Start(t) ==
  /\ At(t, "idle") /\ MayStart
  /\ \E d \in NextDuty(t) \ Proven :
       run' = [run EXCEPT ![t].at = "emulate", ![t].duty = d]
  /\ UNCHANGED <<mode, chainVars, faults, historyVars, dutyVars>>

FindProven(t) ==
  /\ At(t, "idle")
  /\ \E d \in NextDuty(t) \cap Proven :
       /\ settled' = settled \cup {d}
       /\ glimpsed' = IF d \in FinallyProven THEN glimpsed ELSE glimpsed \cup {d}
  /\ UNCHANGED <<mode, chainVars, run, faults, historyVars, repeated>>

PriorityFee(reward) == Min({Max({reward, MinPriority}), MaxPriority})

GasLimit(estimated) == (estimated * (100 + BufferPercent)) \div 100

Fits(d) == GasLimit(Gas[d]) <= GasCap

(* calcPriorityFee, the emulation and the limit on gas; only then does it  *)
(* matter that there is no signer.                                         *)
Emulate(t) ==
  LET ok == run[t].duty \notin Proven /\ Fits(run[t].duty) IN
  /\ At(t, "emulate")
  /\ \/ /\ ok /\ mode # "nosigner"
        /\ \E reward \in Rewards :
             run' = [run EXCEPT ![t].at = "populate",
                                ![t].maxFee = 2 * PendingFee + PriorityFee(reward)]
        /\ UNCHANGED dutyVars
     \/ ok /\ mode = "nosigner" /\ Return(t)
     \/ ~ok /\ Throw(t)
  /\ UNCHANGED <<mode, chainVars, faults, historyVars>>

(* populateTransaction asks the node for the nonce. *)
Populate(t) ==
  /\ At(t, "populate")
  /\ run' = [run EXCEPT ![t].at = "gate", ![t].nonce = PendingNonce]
  /\ UNCHANGED <<mode, chainVars, faults, historyVars, dutyVars>>

Acceptable(current, recommended) ==
  /\ FeeCap > 0 => current <= FeeCap
  /\ current <= recommended

Leave(t) ==
  run' = [run EXCEPT ![t].at = "send", ![t].current = 0,
                     ![t].latest = 0, ![t].missing = 0]

Wrong_RetryLater(t) ==
  /\ run[t].attempts <= MaxRetries
  /\ run' = [run EXCEPT ![t] = [Idle EXCEPT !.at = "emulate", !.duty = run[t].duty,
                                            !.attempts = run[t].attempts + 1]]

(* HighGasFeeError: the call sleeps and starts again, so many times. *)
RetryLater(t) ==
  /\ run[t].attempts < MaxRetries
  /\ run' = [run EXCEPT ![t] = [Idle EXCEPT !.at = "emulate", !.duty = run[t].duty,
                                            !.attempts = run[t].attempts + 1]]

(* From isFeePerGasAcceptable to the transaction being signed. *)
Decide(t, current, recommended) ==
  LET fine == Acceptable(current, recommended) IN
  \/ mode = "dry" /\ Return(t)
  \/ mode = "cli" /\ (Leave(t) \/ End(t)) /\ UNCHANGED dutyVars
  \/ mode = "daemon" /\ fine /\ Leave(t) /\ UNCHANGED dutyVars
  \/ mode = "daemon" /\ ~fine /\ RetryLater(t) /\ UNCHANGED dutyVars
  \/ mode = "daemon" /\ ~fine /\ run[t].attempts = MaxRetries /\ Throw(t)

(* The current fee, the latest block and the number of missing blocks are  *)
(* read before the requests of a refresh, and used after them.             *)
Gate(t) ==
  /\ At(t, "gate")
  /\ \/ /\ IsStale(height)
        /\ run' = [run EXCEPT ![t].at = "history", ![t].current = PendingFee,
                              ![t].latest = height, ![t].missing = Missing(height)]
        /\ UNCHANGED dutyVars
     \/ ~IsStale(height) /\ Decide(t, PendingFee, Percentile(cache))
  /\ UNCHANGED <<mode, chainVars, faults, historyVars>>

Refreshed(t) ==
  /\ At(t, "history")
  /\ Refresh(run[t].latest, run[t].missing)
  /\ Decide(t, run[t].current, Percentile(cache'))
  /\ UNCHANGED <<mode, chainVars, faults>>

TxOf(t) == [task |-> t, duty |-> run[t].duty, nonce |-> run[t].nonce,
            maxFee |-> run[t].maxFee]

SameNonce(x) == {y \in pool : y.nonce = x.nonce}

(* A node refuses an old nonce, a known transaction and a replacement that *)
(* does not pay more.                                                      *)
Accepts(x) ==
  /\ x.nonce >= AccountNonce
  /\ \A y \in SameNonce(x) : x.maxFee > y.maxFee

Enter(x) == pool' = (pool \ SameNonce(x)) \cup {x}

Send(t) ==
  /\ At(t, "send")
  /\ \/ Accepts(TxOf(t)) /\ Enter(TxOf(t)) /\ Goto(t, "wait") /\ UNCHANGED dutyVars
     \/ ~Accepts(TxOf(t)) /\ Throw(t) /\ UNCHANGED pool
  /\ UNCHANGED <<mode, height, included, byOthers, faults, historyVars>>

MayRepeat(D) == repeated' = repeated \cup D /\ UNCHANGED <<settled, glimpsed>>

(* The transaction is sent, but the answer does not arrive. *)
SentUnanswered(t) ==
  /\ At(t, "send") /\ Fault
  /\ Accepts(TxOf(t)) /\ Enter(TxOf(t))
  /\ End(t) /\ MayRepeat({run[t].duty})
  /\ UNCHANGED <<mode, height, included, byOthers, historyVars>>

(* One confirmation is taken for enough. *)
Wrong_Receipts(t, confirmations) == {i \in included : i.tx = TxOf(t)}

Receipts(t, confirmations) ==
  {i \in included : i.tx = TxOf(t) /\ i.conf >= confirmations}

(* The receipt is asked for once, and missing is an error. *)
Wrong_Receive(t) ==
  /\ At(t, "wait")
  /\ IF \E i \in Receipts(t, Confirmations) : i.ok THEN Return(t) ELSE Throw(t)
  /\ UNCHANGED <<mode, chainVars, faults, historyVars>>

(* waitForTransaction and the check of the receipt's status. *)
Receive(t) ==
  /\ At(t, "wait")
  /\ \E i \in Receipts(t, Confirmations) : IF i.ok THEN Return(t) ELSE Throw(t)
  /\ UNCHANGED <<mode, chainVars, faults, historyVars>>

(* Nothing will include the transaction: it was replaced or forgotten, or  *)
(* a nonce before it is missing.                                           *)
IsStuck(x) ==
  \/ x \notin Known
  \/ x \in pool /\ PendingNonce < x.nonce

(* Waiting without a timeout. *)
Wrong_Timeout(t) ==
  /\ At(t, "wait") /\ Receipts(t, Confirmations) = {}
  /\ Fault
  /\ End(t) /\ MayRepeat({run[t].duty})
  /\ UNCHANGED <<mode, chainVars, historyVars>>

(* A timeout is tried again like a high fee. *)
Wrong_TimeoutRetries(t) ==
  /\ At(t, "wait") /\ Receipts(t, Confirmations) = {}
  /\ IF IsStuck(TxOf(t)) THEN UNCHANGED faults ELSE Fault
  /\ RetryLater(t)
  /\ UNCHANGED <<mode, chainVars, historyVars, dutyVars>>

(* TX_MINING_WAITING_TIMEOUT_MS; early only as a fault. *)
Timeout(t) ==
  /\ At(t, "wait") /\ Receipts(t, Confirmations) = {}
  /\ IF IsStuck(TxOf(t)) THEN UNCHANGED faults ELSE Fault
  /\ End(t) /\ MayRepeat({run[t].duty})
  /\ UNCHANGED <<mode, chainVars, historyVars>>

(* Any other request of the call throws. *)
Fail(t) ==
  /\ run[t].at \notin {"idle", "wait"} /\ Fault
  /\ Throw(t)
  /\ UNCHANGED <<mode, chainVars, historyVars>>

Restart ==
  /\ Fault
  /\ run' = [t \in Tasks |-> Idle]
  /\ cache' = <<>> /\ lastFee' = 0
  /\ MayRepeat({run[t].duty : t \in {u \in Tasks : At(u, "wait")}})
  /\ UNCHANGED <<mode, chainVars>>

Settle(t) ==
  \/ Start(t) \/ FindProven(t) \/ Emulate(t) \/ Populate(t)
  \/ Gate(t) \/ Refreshed(t) \/ Send(t) \/ Receive(t) \/ Timeout(t)

Next ==
  \/ Include \/ EmptyBlock \/ OthersProve \/ Reorg \/ Drop
  \/ \E t \in Tasks : Settle(t) \/ SentUnanswered(t) \/ Fail(t)
  \/ Restart

Spec == Init /\ [][Next]_vars

(* Blocks include what can pay, and what a call awaits settles. *)
FairSpec ==
  /\ Spec
  /\ WF_vars(Include) /\ WF_vars(EmptyBlock)
  /\ \A t \in Tasks : WF_vars(Settle(t))

-----------------------------------------------------------------------------
(* When execute returns, the proof is in a block with its confirmations:   *)
(* no timeout, replaced transaction, revert, reorganisation or lost answer *)
(* makes a caller forget a duty that is not proven.  Set apart is a duty   *)
(* the caller itself saw proven in a block without its confirmations, and  *)
(* a process that is configured not to send.                               *)
ReturnedMeansProven ==
  Sends => settled \ glimpsed \subseteq FinallyProven

(* Only an attempt that timed out, lost its answer or was cut off is paid  *)
(* for again: otherwise one duty has one transaction, of any nonce.        *)
PaidOnce ==
  \A x, y \in Known : x.duty = y.duty /\ x # y => x.duty \in repeated

(* The calls of all tasks implement module Delivery: what their callers,   *)
(* the duties, rely on when a call returns, and when it throws.            *)
Calls == [t \in Tasks |-> IF At(t, "idle") THEN NoDuty ELSE run[t].duty]

Deliver == INSTANCE Delivery
  WITH Callers <- Tasks, sends <- Sends, calls <- Calls, known <- Known,
       lasting <- FinallyProven, doubtful <- repeated

KeepsDelivery == Deliver!Spec

(* The two tasks do not block one another through the nonce of the signer: *)
(* every duty that fits a transaction, and does not follow one of its task *)
(* that does not, is proven in the end.                                    *)
Feasible(d) == \A e \in Duties : Owner[e] = Owner[d] /\ e <= d => Fits(e)

DutiesAreProven ==
  mode = "daemon" =>
    \A d \in Duties : Feasible(d) => <>(d \in FinallyProven \/ d \in glimpsed)

(* Every call of execute comes back, whatever the gas fee. *)
CallsReturn == \A t \in Tasks : ~At(t, "idle") ~> At(t, "idle")
=============================================================================
