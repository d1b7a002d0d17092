------------------------------- MODULE Duties -------------------------------
(***************************************************************************)
(* The handlers of ProverService for one block: slashings, withdrawals and *)
(* balance changes, called by the daemon for a root it has to process      *)
(* (processNext, again after an error) or by the command line for one key. *)
(* An action is the code between two awaits that see the chain or the      *)
(* contracts change.  execute is taken as one step, accepted or reverted;  *)
(* module Execution has its inside.                                        *)
(*                                                                         *)
(* The chain, the beacon state's content and the contracts are             *)
(* environment.  The keys index is complete; module RootsWalk has it lag.  *)
(***************************************************************************)
EXTENDS BeaconHistory

CONSTANTS
  MaxSlot,         \* the last slot of the chain
  FirstRoot,       \* the first root the daemon processes
  Validators,      \* validators of the staking module
  Events,          \* slashings and withdrawals in the blocks
  Balance,         \* a validator's balance in the state of a block
  Withdrawable,    \* a validator's withdrawable epoch
  ExitKnown,       \* the slot from which a state has a validator's exit epoch
  FullWithdrawal,  \* FULL_WITHDRAWAL_MIN_AMOUNT
  MinActivation,   \* MIN_ACTIVATION_BALANCE
  MaxEffective,    \* MAX_EFFECTIVE_BALANCE_ELECTRA
  TopUpStep,       \* BALANCE_PROOF_TOPUP_STEP_GWEI
  MinDelta,        \* BALANCE_PROOF_MIN_DELTA_GWEI
  Modes,           \* daemon, cli
  Commands,        \* what users ask of the command line
  MaxFaults        \* bound on the failures of a behaviour

Handlers == {"slashing", "withdrawal", "balance"}

ASSUME DutiesConstants ==
  /\ MaxSlot \in Nat /\ FirstRoot \in Blocks
  /\ FirstRoot + FinalizationBuffer <= MaxSlot
  /\ \A b \in Blocks : b <= MaxSlot
  /\ \E b \in Blocks : b < FirstRoot
  /\ Validators \subseteq Nat \ {0} /\ IsFiniteSet(Validators)
  /\ Events \subseteq [slot : {b \in Blocks : b >= FirstRoot}, val : Validators,
                       kind : {"slashing", "withdrawal"}, amount : Nat]
  /\ Balance \in [Validators -> [Blocks -> Nat]]
  /\ Withdrawable \in [Validators -> Nat] /\ ExitKnown \in [Validators -> Nat]
  /\ \A e \in Events : e.kind = "withdrawal" /\ Epoch(e.slot) >= Withdrawable[e.val]
                         => \E p \in Blocks : ExitKnown[e.val] <= p /\ p < e.slot
  /\ {FullWithdrawal, MinActivation, MaxEffective, TopUpStep, MinDelta} \subseteq Nat
  /\ Modes \subseteq {"daemon", "cli"} /\ MaxFaults \in Nat
  /\ Commands \subseteq [duty : Handlers, block : {b \in Blocks : b >= FirstRoot},
                         val : Validators, key : Validators]

(* The roots the execution layer keeps outlast what a state keeps.         *)
ASSUME RootsLast ==
  RootsKept >= SlotsPerHistoricalRoot - 1 /\ RootsKept >= FinalizationBuffer

VARIABLES
  mode,            \* WORKING_MODE
  balancesOn,      \* canProveBalanceChanges when the process started
  head,            \* the slot of the execution layer's latest block
  finalized,       \* the finalized block
  slashed,         \* validators whose slashing the module knows
  withdrawn,       \* validators whose withdrawal the module knows
  confirmed,       \* balance the module has confirmed above MinActivation
  job,             \* where the call of a handler is suspended, with its locals
  chosen,          \* the command: a validator index and a key, and for what
  done,            \* roots whose handlers all returned
  faults,          \* faults so far
  ours             \* history: what this process proved

chainVars    == <<head, finalized>>
contractVars == <<slashed, withdrawn, confirmed>>
setting      == <<mode, balancesOn>>
vars == <<setting, chainVars, contractVars, job, chosen, done, faults, ours>>

NoBlock == 0

Idle == [at |-> "idle", duty |-> "none", root |-> NoBlock, recent |-> NoBlock,
         keys |-> {}, kind |-> "none", target |-> NoBlock, anchor |-> NoBlock,
         vals |-> {}]

NoCommand == [duty |-> "none", block |-> NoBlock, val |-> 0, key |-> 0]

Places == {"idle", "find", "measure", "build", "send"}

TypeOK ==
  LET Block == Blocks \cup {NoBlock}
      Kind == Handlers \cup {"none"} IN
  /\ mode \in Modes /\ balancesOn \in BOOLEAN
  /\ head \in 0 .. MaxSlot /\ finalized \in Blocks /\ finalized <= head
  /\ slashed \subseteq Validators /\ withdrawn \subseteq Validators
  /\ confirmed \in [Validators -> Nat]
  /\ job \in [at : Places, duty : Kind, root : Block, recent : Block,
              keys : SUBSET Validators, kind : Kind, target : Block,
              anchor : Block, vals : SUBSET Validators]
  /\ chosen \in Commands \cup {NoCommand}
  /\ done \subseteq Blocks
  /\ faults \in 0 .. MaxFaults
  /\ ours \subseteq Events

Init ==
  /\ mode \in Modes /\ balancesOn \in BOOLEAN
  /\ finalized = FirstRoot
  /\ head = FirstRoot + FinalizationBuffer
  /\ slashed = {} /\ withdrawn = {}
  /\ confirmed = [v \in Validators |-> 0]
  /\ job = Idle
  /\ chosen = NoCommand
  /\ done = {}
  /\ faults = 0
  /\ ours = {}

Fault == faults < MaxFaults /\ faults' = faults + 1

(***************************************************************************)
(* The chain and the other users of the contracts.                         *)
(***************************************************************************)
Tick ==
  /\ head < MaxSlot /\ head' = head + 1
  /\ UNCHANGED <<setting, finalized, contractVars, job, chosen, done, faults, ours>>

(* Finality is two epochs or more behind. *)
Finalize ==
  /\ \E b \in Blocks : /\ finalized < b /\ b + FinalizationBuffer <= head
                       /\ finalized' = b
  /\ UNCHANGED <<setting, head, contractVars, job, chosen, done, faults, ours>>

OthersProve ==
  /\ Fault
  /\ \E e \in Events :
       /\ e.slot <= finalized
       /\ \/ e.kind = "slashing" /\ slashed' = slashed \cup {e.val}
             /\ UNCHANGED withdrawn
          \/ e.kind = "withdrawal" /\ withdrawn' = withdrawn \cup {e.val}
             /\ UNCHANGED slashed
  /\ UNCHANGED <<setting, chainVars, confirmed, job, chosen, done, ours>>

(***************************************************************************)
(* What the handlers read.                                                 *)
(***************************************************************************)
EventsIn(b, kind) == {e \in Events : e.slot = b /\ e.kind = kind}

SlashedInState(v, b) ==
  \E e \in Events : e.kind = "slashing" /\ e.val = v /\ e.slot <= b

(* The key the staking module is asked about, for a validator index. *)
KeyOf(v) == IF mode = "cli" THEN chosen.key ELSE v

InModule(v) == mode = "cli" => v = chosen.val

(* Large enough to be a full one. *)
FullWithdrawals(b) ==
  {e.val : e \in {w \in EventsIn(b, "withdrawal") : w.amount >= FullWithdrawal}}

Found(b, duty) ==
  {v \in Validators :
     /\ InModule(v)
     /\ \/ duty = "slashing" /\ \E e \in EventsIn(b, "slashing") : e.val = v
        \/ duty = "withdrawal" /\ v \in FullWithdrawals(b)}

IsProved(duty, key) ==
  \/ duty = "slashing" /\ key \in slashed
  \/ duty = "withdrawal" /\ key \in withdrawn

ReportableMax == MaxEffective - TopUpStep

(* An increase that is reported by its size only.  The Wrong variants here *)
(* and below are slips this code could have; no action uses them.          *)
Wrong_IsProvableBalance(added, balance, exiting) ==
  /\ ReportableMax > MinActivation + added
  /\ balance > MinActivation + added + MinDelta

IsProvableBalance(added, balance, exiting) ==
  LET level == MinActivation + added IN
  /\ ReportableMax > level
  /\ balance > level
  /\ balance - level > MinDelta \/ exiting \/ balance >= ReportableMax

(* The exit epochs a worker reads from the state of a block. *)
Exiting(v, b) == ExitKnown[v] <= b

(* A validator the state does not have has no balance there. *)
Provable(v, key, b) ==
  /\ Balance[v][b] > MinActivation
  /\ IsProvableBalance(confirmed[key], Balance[v][b], Exiting(v, b))

(***************************************************************************)
(* The calls.  An error ends processNext, or the command.                  *)
(***************************************************************************)
At(place) == job.at = place

Wrong_Throw == job' = Idle /\ done' = done \cup {job.root}

Throw == job' = Idle /\ UNCHANGED done

Finish ==
  /\ job' = Idle
  /\ done' = IF mode = "daemon" THEN done \cup {job.root} ELSE done

Enter(duty, place, keys) ==
  /\ job' = [Idle EXCEPT !.at = place, !.duty = duty, !.root = job.root,
                         !.recent = job.recent, !.keys = keys, !.target = job.root]
  /\ UNCHANGED done

(* The handler has returned; processNext calls the next one. *)
NextDuty ==
  \/ mode = "cli" /\ Finish
  \/ mode = "daemon" /\ job.duty = "slashing" /\ Enter("withdrawal", "find", {})
  \/ /\ mode = "daemon" /\ job.duty = "withdrawal"
     /\ IF IsFirstInEpoch(job.root) /\ balancesOn
        THEN Enter("balance", "measure", Validators)
        ELSE Finish
  \/ mode = "daemon" /\ job.duty = "balance" /\ Finish

(* The header of the head taken for the finalized one. *)
Wrong_Command ==
  /\ mode = "cli" /\ At("idle")
  /\ \E c \in Commands :
       /\ chosen' = c
       /\ job' = [Idle EXCEPT !.at = "find", !.duty = c.duty, !.root = c.block,
                              !.recent = head, !.target = c.block]
  /\ UNCHANGED <<setting, chainVars, contractVars, done, faults, ours>>

(* processNext, for the least root that is owed. *)
Process ==
  /\ mode = "daemon" /\ At("idle")
  /\ \E r \in Blocks \ done :
       /\ r >= FirstRoot /\ r <= finalized
       /\ \A x \in Blocks \ done : x >= FirstRoot => r <= x
       /\ job' = [Idle EXCEPT !.at = "find", !.duty = "slashing", !.root = r,
                              !.recent = finalized]
  /\ UNCHANGED <<setting, chainVars, contractVars, chosen, done, faults, ours>>

(* The prove command: the user names a proof, a block, which need not be   *)
(* finalized, a validator index and a key, which need not be the same.     *)
Command ==
  /\ mode = "cli" /\ At("idle")
  /\ \E c \in Commands :
       /\ c.block <= head
       /\ c.duty = "balance" => balancesOn
       /\ chosen' = c
       /\ job' = [Idle EXCEPT !.at = IF c.duty = "balance" THEN "measure" ELSE "find",
                              !.duty = c.duty, !.root = c.block, !.recent = finalized,
                              !.keys = IF c.duty = "balance" THEN {c.val} ELSE {},
                              !.target = c.block]
  /\ UNCHANGED <<setting, chainVars, contractVars, done, faults, ours>>

Build(kind, vals) ==
  /\ job' = [job EXCEPT !.at = "build", !.kind = kind, !.vals = vals,
                        !.target = IF kind = "balance" THEN @ ELSE job.root]
  /\ UNCHANGED done

(* Balances of the parent block come before what makes a key leave. *)
Find ==
  LET unproven == {v \in Found(job.root, job.duty) : ~IsProved(job.duty, KeyOf(v))} IN
  /\ At("find")
  /\ \/ unproven = {} /\ NextDuty
     \/ /\ unproven # {} /\ balancesOn
        /\ job' = [job EXCEPT !.at = "measure", !.keys = unproven,
                              !.target = Parent(job.root)]
        /\ UNCHANGED done
     \/ /\ unproven # {} /\ ~balancesOn
        /\ job' = [job EXCEPT !.at = "build", !.kind = job.duty, !.keys = unproven,
                              !.vals = unproven, !.target = job.root]
        /\ UNCHANGED done
  /\ UNCHANGED <<setting, chainVars, contractVars, chosen, faults, ours>>

(* A wrong variant: the handler returns with the balances of the parent. *)
Wrong_AfterBalances == NextDuty

AfterBalances ==
  \/ job.duty = "balance" /\ NextDuty
  \/ job.duty # "balance" /\ Build(job.duty, job.keys)

(* getUnprovenBalanceChangeProofs. *)
Measure ==
  LET provable == {v \in job.keys : Provable(v, KeyOf(v), job.target)} IN
  /\ At("measure")
  /\ \/ provable # {} /\ Build("balance", provable)
     \/ provable = {} /\ AfterBalances
  /\ UNCHANGED <<setting, chainVars, contractVars, chosen, faults, ours>>

(* A withdrawal proof is not made for a slashed validator, nor before its  *)
(* withdrawable epoch.                                                     *)
Skipped(v) ==
  /\ job.kind = "withdrawal"
  /\ SlashedInState(v, job.target) \/ Epoch(job.target) < Withdrawable[v]

Payloads == {v \in job.vals : ~Skipped(v)}

HasChild(b) == \E c \in Successors(b) : c <= head

(* The block whose root the verifier looks up.  A slashing is proved in    *)
(* the state of the finalized block the call was given.                    *)
SlashingAnchor(anchor) == job.kind = "slashing" /\ anchor = job.recent

GeneralAnchor(anchor) ==
  /\ job.kind # "slashing" /\ ~IsHistorical(job.target, job.recent)
  /\ anchor = job.target

(* The finalized block is read again, as late as possible. *)
HistoricalAnchor(anchor) ==
  /\ job.kind # "slashing" /\ IsHistorical(job.target, job.recent)
  /\ anchor = finalized
  /\ Resolved(job.target, anchor)
  /\ HistoricalProofHolds(job.target, anchor)

AnchorFound(anchor) ==
  /\ HasChild(anchor)
  /\ SlashingAnchor(anchor) \/ GeneralAnchor(anchor) \/ HistoricalAnchor(anchor)

(* Only the slashing payloads are built without comparing the public keys. *)
KeysMatch == job.kind # "slashing" => \A v \in job.vals : KeyOf(v) = v

(* The headers and states are read, the workers build the payloads. *)
BuildPayloads ==
  /\ At("build") /\ KeysMatch
  /\ \E anchor \in Blocks :
       /\ AnchorFound(anchor)
       /\ job' = [job EXCEPT !.at = "send", !.anchor = anchor,
                             !.vals = Payloads]
  /\ UNCHANGED done
  /\ UNCHANGED <<setting, chainVars, contractVars, chosen, faults, ours>>

(* No canonical child yet, no summary yet, or a wrong key. *)
BuildThrows ==
  /\ At("build")
  /\ ~KeysMatch \/ \A anchor \in Blocks : ~AnchorFound(anchor)
  /\ Throw
  /\ UNCHANGED <<setting, chainVars, contractVars, chosen, faults, ours>>

(***************************************************************************)
(* The verifier contract.                                                  *)
(***************************************************************************)
Accepts(v) ==
  /\ RootIsKept(job.anchor, head)
  /\ KeyOf(v) = v
  /\ job.kind = "slashing" => v \notin slashed /\ SlashedInState(v, job.anchor)
  /\ job.kind = "withdrawal" => v \notin withdrawn

Record(v) ==
  /\ slashed' = IF job.kind = "slashing" THEN slashed \cup {v} ELSE slashed
  /\ withdrawn' = IF job.kind = "withdrawal" THEN withdrawn \cup {v} ELSE withdrawn
  /\ confirmed' = IF job.kind = "balance"
                  THEN [confirmed EXCEPT
                          ![v] = Max({@, Balance[v][job.target] - MinActivation})]
                  ELSE confirmed
  /\ ours' = ours \cup {e \in EventsIn(job.target, job.kind) : e.val = v}

(* Payloads are sent one at a time, in the order of the indices. *)
Turn(v) == v \in job.vals /\ \A w \in job.vals : v <= w

SendProof ==
  /\ At("send")
  /\ \E v \in job.vals :
       /\ Turn(v) /\ Accepts(v) /\ Record(v)
       /\ job' = [job EXCEPT !.vals = @ \ {v}]
  /\ UNCHANGED <<setting, chainVars, chosen, done, faults>>

(* The transaction is reverted, or already its emulation. *)
Refused ==
  /\ At("send")
  /\ \E v \in job.vals : Turn(v) /\ ~Accepts(v)
  /\ Throw
  /\ UNCHANGED <<setting, chainVars, contractVars, chosen, faults, ours>>

AllSent ==
  /\ At("send") /\ job.vals = {}
  /\ IF job.kind = "balance" THEN AfterBalances ELSE NextDuty
  /\ UNCHANGED <<setting, chainVars, contractVars, chosen, faults, ours>>

(* A request throws, or the process restarts: the root stays on the stack. *)
Fail ==
  /\ ~At("idle") /\ Fault
  /\ Throw
  /\ UNCHANGED <<setting, chainVars, contractVars, chosen, ours>>

(* A transaction is executed, but the call ends without knowing it. *)
SentUnanswered ==
  /\ At("send") /\ Fault
  /\ \E v \in job.vals : Turn(v) /\ Accepts(v) /\ Record(v)
  /\ Throw
  /\ UNCHANGED <<setting, chainVars, chosen>>

Work ==
  \/ Process \/ Find \/ Measure \/ BuildPayloads \/ BuildThrows
  \/ SendProof \/ Refused \/ AllSent

Next == Tick \/ Finalize \/ OthersProve \/ Command \/ Work \/ Fail \/ SentUnanswered

Spec == Init /\ [][Next]_vars

FairSpec == Spec /\ WF_vars(Tick) /\ WF_vars(Finalize) /\ WF_vars(Work)

-----------------------------------------------------------------------------
(* What the module has to learn of an event: every slashing, and the full  *)
(* withdrawal of a validator that is withdrawable and not slashed.         *)
Owed(e) ==
  \/ e.kind = "slashing"
  \/ /\ e.kind = "withdrawal" /\ e.amount >= FullWithdrawal
     /\ ~SlashedInState(e.val, e.slot) /\ Epoch(e.slot) >= Withdrawable[e.val]

(* The part of a balance that is to be reported and is not yet. *)
Unreported(v, b) ==
  Min({Balance[v][b], ReportableMax}) - (MinActivation + confirmed[v])

(* A root whose handlers returned has every event of its block proven,     *)
(* and every large increase reported if it begins its epoch: a partial     *)
(* failure, a revert or a lost answer keeps the root owed, and what others *)
(* or an earlier attempt proved does not stop the rest.                    *)
DoneMeansProven ==
  /\ \A e \in Events : e.slot \in done /\ Owed(e) => IsProved(e.kind, e.val)
  /\ balancesOn => \A b \in done, v \in Validators :
                      IsFirstInEpoch(b) => Unreported(v, b) <= MinDelta

(* When this process proves a withdrawal, all of the increase of the       *)
(* parent block is reported, and when it proves a slashing, all but an     *)
(* increase too small for a validator that was not yet exiting: the key    *)
(* does not leave with it.                                                 *)
BalanceBeforeExit ==
  balancesOn =>
    \A e \in ours :
      Unreported(e.val, Parent(e.slot)) <= IF e.kind = "slashing" THEN MinDelta ELSE 0

(* The handlers of the daemon implement module RootDuties: each returns    *)
(* only with all of its duty reported, so that the walk, which has them as *)
(* single steps, is right to; none is called before the one before it has  *)
(* returned, and what throws anywhere leaves the root undone.              *)
Owing ==
  {<<e.slot, e.kind, e.val>> : e \in {x \in Events : Owed(x)}}
    \cup {<<b, "balance", v>> : b \in {x \in Blocks : IsFirstInEpoch(x)}, v \in Validators}

Told ==
  {t \in Owing :
     IF t[2] = "balance" THEN Unreported(t[3], t[1]) <= MinDelta ELSE IsProved(t[2], t[3])}

DueOf(r, duty) ==
  {t \in Owing : t[1] = r /\ t[2] = duty /\ (duty = "balance" => balancesOn)}

Processing == mode = "daemon" /\ ~At("idle")

Handling == INSTANCE RootDuties
  WITH Roots <- Blocks, reported <- Told,
       step <- IF Processing THEN job.duty ELSE "idle",
       cur <- IF Processing THEN job.root ELSE NoBlock,
       due <- [r \in Blocks |-> [duty \in Handlers |-> DueOf(r, duty)]]

HandlesRoots == Handling!Spec

(* While finality is two epochs behind, the margin of isHistoricalBlock is *)
(* enough: the root that a new payload is anchored to is still kept.       *)
AnchorsAreKept ==
  [][At("build") /\ job'.at = "send" /\ head <= job.recent + FinalizationBuffer
       => RootIsKept(job'.anchor, head)]_vars

(* Every event is proven in the end, although a block passes through a     *)
(* time when its proof is no longer general and not yet historical.        *)
EventsAreProven ==
  mode = "daemon" => \A e \in Events : Owed(e) => <>IsProved(e.kind, e.val)
=============================================================================
