---------------------------- MODULE DutiesProofs ----------------------------
(***************************************************************************)
(* Proofs about Duties, for any chain, any events and balances, any        *)
(* constants of the networks and any number of faults.                     *)
(*                                                                         *)
(* JobInv says what the call of a handler has in its hands, MeasuredInv    *)
(* that the balances of the keys it goes on with are reported, ProgressInv *)
(* that what it left out is already proven.                                *)
(***************************************************************************)
EXTENDS Duties, Extrema, TLAPS

-----------------------------------------------------------------------------
(* The sorts of the constants. *)
LEMMA ChainTypes ==
  /\ \A b \in Blocks : b \in Nat /\ b <= MaxSlot
  /\ MaxSlot \in Nat /\ FirstRoot + FinalizationBuffer <= MaxSlot
  /\ FirstRoot \in Blocks /\ \E b \in Blocks : b < FirstRoot
  /\ SlotsPerEpoch \in Nat \ {0} /\ FinalizationBuffer \in Nat
  /\ SlotsPerHistoricalRoot \in Nat \ {0} /\ RootsKept \in Nat \ {0}
  /\ RootsKept >= SlotsPerHistoricalRoot - 1 /\ RootsKept >= FinalizationBuffer
<1>1. \A b \in Blocks : b \in Nat
  BY HistoryConstants
<1>2. SlotsPerEpoch \in Nat \ {0} /\ 2 * SlotsPerEpoch \in Nat
  BY HistoryConstants
<1> QED
  BY <1>1, <1>2, HistoryConstants, DutiesConstants, RootsLast DEF FinalizationBuffer

(* The sorts of what happens to the validators.                            *)
LEMMA ValidatorTypes ==
  /\ Validators \subseteq Nat \ {0}
  /\ \A e \in Events :
       /\ e.slot \in Blocks /\ e.slot >= FirstRoot /\ e.val \in Validators
       /\ e.kind \in {"slashing", "withdrawal"} /\ e.amount \in Nat
  /\ \A v \in Validators :
       /\ Withdrawable[v] \in Nat /\ ExitKnown[v] \in Nat
       /\ \A b \in Blocks : Balance[v][b] \in Nat
  /\ FullWithdrawal \in Nat /\ MinActivation \in Nat /\ MaxEffective \in Nat
  /\ TopUpStep \in Nat /\ MinDelta \in Nat /\ ReportableMax \in Int
  /\ MaxFaults \in Nat /\ Modes \subseteq {"daemon", "cli"}
  /\ \A c \in Commands : /\ c.duty \in Handlers /\ c.block \in Blocks
                         /\ c.block >= FirstRoot /\ c.val \in Validators
                         /\ c.key \in Validators
BY DutiesConstants DEF ReportableMax

(* The parent of a root the handlers may see is a block.                   *)
LEMMA ParentIsBlock ==
  ASSUME NEW r \in Blocks, r >= FirstRoot
  PROVE  /\ Parent(r) \in Blocks /\ Parent(r) < r
         /\ \A c \in Blocks : c < r => c <= Parent(r)
<1> DEFINE S == {c \in Blocks : c < r}
<1>1. S \in SUBSET Nat /\ \A x \in S : x <= MaxSlot
  BY ChainTypes
<1>2. S # {}
  BY ChainTypes
<1>3. MaxSlot \in Nat
  BY ChainTypes
<1>4. Max(S) \in S /\ \A y \in S : Max(S) >= y
  <2> HIDE DEF S
  <2> QED
    BY <1>1, <1>2, <1>3, MaxExists
<1>5. Parent(r) = Max(S)
  BY DEF Parent
<1>6. \A c \in Blocks : c < r => c <= Max(S)
  BY <1>4, ChainTypes
<1> QED
  BY <1>4, <1>5, <1>6

(* A block with a child in time has a first one, and in time.              *)
LEMMA ChildInTime ==
  ASSUME NEW b \in Blocks, NEW h \in Nat, \E c \in Blocks : c > b /\ c <= h,
         h - b <= RootsKept
  PROVE  RootIsKept(b, h)
<1> DEFINE S == {c \in Blocks : c > b}
<1>1. S \in SUBSET Nat /\ S # {}
  BY ChainTypes
<1>2. PICK m \in S : \A y \in S : m <= y
  <2> HIDE DEF S
  <2> QED
    BY <1>1, MinExists
<1>3. m \in Blocks /\ m > b /\ m <= h /\ m \in Nat /\ b \in Nat
  BY <1>2, ChainTypes
<1>4. h - m < RootsKept
  BY <1>3, ChainTypes
<1>5. \A d \in Blocks : d > b => m <= d
  BY <1>2
<1> QED
  BY <1>3, <1>4, <1>5 DEF RootIsKept

-----------------------------------------------------------------------------
(***************************************************************************)
(* Balances.                                                               *)
(***************************************************************************)
(* What is not to be reported of a balance is small, and nothing for an    *)
(* exiting validator.                                                      *)
LEMMA NothingToReport ==
  ASSUME NEW v \in Validators, NEW b \in Blocks, confirmed[v] \in Nat, ~Provable(v, v, b)
  PROVE  /\ Unreported(v, b) <= MinDelta
         /\ ExitKnown[v] <= b => Unreported(v, b) <= 0
<1> DEFINE balance == Balance[v][b]
           level == MinActivation + confirmed[v]
           m == Min({balance, ReportableMax})
<1>1. /\ balance \in Nat /\ level \in Nat /\ MinActivation \in Nat /\ MinDelta \in Nat
      /\ ReportableMax \in Int /\ MinActivation <= level
  BY ValidatorTypes
<1>2. m \in Int /\ m <= balance /\ m <= ReportableMax
  <2>1. balance \in Int /\ ReportableMax \in Int
    BY <1>1
  <2> HIDE DEF balance
  <2> QED
    BY <2>1, MinOfTwo
<1>3. Unreported(v, b) = m - level
  BY DEF Unreported
<1>4. \/ balance <= MinActivation
      \/ ~(ReportableMax > level)
      \/ ~(balance > level)
      \/ ~(balance - level > MinDelta) /\ ~(ExitKnown[v] <= b)
  BY <1>1 DEF Provable, Exiting, IsProvableBalance
<1> HIDE DEF m, level, balance
<1>5. m - level <= 0 \/ (m - level <= MinDelta /\ ~(ExitKnown[v] <= b))
  BY <1>1, <1>2, <1>4
<1> QED
  BY <1>1, <1>2, <1>3, <1>5

(* What the module has confirmed never shrinks, so the unreported part of  *)
(* a balance does not grow.                                                *)
LEMMA UnreportedShrinks ==
  ASSUME NEW v \in Validators, NEW b \in Blocks, NEW n \in Nat,
         confirmed[v] \in Nat, confirmed'[v] \in Nat, confirmed[v] <= confirmed'[v],
         Unreported(v, b) <= n
  PROVE  Unreported(v, b)' <= n
<1> DEFINE balance == Balance[v][b]
           m == Min({balance, ReportableMax})
<1>1. m \in Int /\ MinActivation \in Nat
  <2>1. balance \in Int /\ ReportableMax \in Int /\ MinActivation \in Nat
    BY ValidatorTypes
  <2> HIDE DEF balance
  <2> QED
    BY <2>1, MinOfTwo
<1>2. /\ Unreported(v, b) = m - (MinActivation + confirmed[v])
      /\ Unreported(v, b)' = m - (MinActivation + confirmed'[v])
  BY DEF Unreported
<1> HIDE DEF m
<1> QED
  BY <1>1, <1>2

-----------------------------------------------------------------------------
(***************************************************************************)
(* The job.                                                                *)
(***************************************************************************)
Jobs ==
  [at : Places, duty : Handlers \cup {"none"}, root : Blocks \cup {NoBlock},
   recent : Blocks \cup {NoBlock}, keys : SUBSET Validators,
   kind : Handlers \cup {"none"}, target : Blocks \cup {NoBlock},
   anchor : Blocks \cup {NoBlock}, vals : SUBSET Validators]

JobInv ==
  ~At("idle") =>
    /\ job.root \in Blocks /\ job.root >= FirstRoot
    /\ job.recent \in Blocks /\ job.recent <= finalized
    /\ job.duty \in Handlers
    /\ mode = "cli" => chosen \in Commands
    /\ At("find") => job.duty # "balance"
    /\ At("measure") =>
         job.target = IF job.duty = "balance" THEN job.root ELSE Parent(job.root)
    /\ job.at \in {"build", "send"} =>
         /\ job.kind \in {job.duty, "balance"}
         /\ job.target = IF job.kind = "balance" /\ job.duty # "balance"
                         THEN Parent(job.root) ELSE job.root

Control == TypeOK /\ JobInv

(* The key of a validator of the job is one of the module.                 *)
LEMMA KeyOfJob ==
  ASSUME Control, ~At("idle"), NEW v \in Validators
  PROVE  KeyOf(v) \in Validators
BY ValidatorTypes DEF Control, JobInv, KeyOf

(* What the verifier records of a proof it accepts: it forgets nothing,    *)
(* and has all of a balance.                                               *)
LEMMA RecordGrows ==
  ASSUME Control, At("send"), NEW v \in Validators, Record(v)
  PROVE  /\ confirmed' \in [Validators -> Nat]
         /\ \A w \in Validators : confirmed[w] <= confirmed'[w]
         /\ job.kind = "balance" => confirmed'[v] >= Balance[v][job.target] - MinActivation
         /\ slashed' \subseteq Validators /\ slashed \subseteq slashed'
         /\ withdrawn' \subseteq Validators /\ withdrawn \subseteq withdrawn'
         /\ ours' \subseteq Events
<1>1. /\ confirmed \in [Validators -> Nat] /\ confirmed[v] \in Nat
      /\ slashed \subseteq Validators /\ withdrawn \subseteq Validators /\ ours \subseteq Events
  BY DEF Control, TypeOK
<1>2. /\ slashed' \subseteq Validators /\ slashed \subseteq slashed'
      /\ withdrawn' \subseteq Validators /\ withdrawn \subseteq withdrawn'
      /\ ours' \subseteq Events
  BY <1>1 DEF Record, EventsIn
<1>3. CASE job.kind # "balance"
  <2>1. confirmed' = confirmed
    BY <1>3 DEF Record
  <2> QED
    BY <1>1, <1>2, <1>3, <2>1
<1>4. CASE job.kind = "balance"
  <2> DEFINE n == Balance[v][job.target] - MinActivation
             m == Max({confirmed[v], n})
  <2>1. job.target \in Blocks
    BY <1>4, ParentIsBlock DEF Control, JobInv, At
  <2>2. n \in Int
    BY <2>1, ValidatorTypes
  <2>3. m \in Nat /\ m >= confirmed[v] /\ m >= n
    <3>1. m \in {confirmed[v], n} /\ m >= confirmed[v] /\ m >= n
      <4>1. confirmed[v] \in Int /\ n \in Int
        BY <1>1, <2>2
      <4> HIDE DEF n
      <4> QED
        BY <4>1, MaxOfTwo
    <3> HIDE DEF m, n
    <3> QED
      BY <1>1, <2>2, <3>1
  <2>4. confirmed' = [confirmed EXCEPT ![v] = m]
    BY <1>4 DEF Record
  <2> HIDE DEF m
  <2> QED
    BY <1>1, <1>2, <2>3, <2>4
<1> QED
  BY <1>3, <1>4

(* A call that ends leaves nothing behind.                                 *)
LEMMA IdleJob ==
  ASSUME job' = Idle
  PROVE  job' \in Jobs /\ JobInv' /\ job'.at = "idle"
BY DEF Idle, Jobs, Places, JobInv, At

(* The next handler starts with the root of the one before.                *)
LEMMA EnterJob ==
  ASSUME Control, ~At("idle"), UNCHANGED <<mode, chosen, finalized>>,
         NEW duty \in Handlers, NEW place, NEW keys \in SUBSET Validators,
         \/ place = "find" /\ duty # "balance"
         \/ place = "measure" /\ duty = "balance",
         Enter(duty, place, keys)
  PROVE  /\ job' \in Jobs /\ JobInv' /\ done' = done
         /\ job'.at = place /\ job'.duty = duty /\ job'.root = job.root /\ job'.keys = keys
<1>1. /\ job.root \in Blocks /\ job.root >= FirstRoot
      /\ job.recent \in Blocks /\ job.recent <= finalized
      /\ mode = "cli" => chosen \in Commands
  BY DEF Control, JobInv
<1>2. job' = [at |-> place, duty |-> duty, root |-> job.root, recent |-> job.recent,
              keys |-> keys, kind |-> "none", target |-> job.root, anchor |-> NoBlock,
              vals |-> {}]
  BY DEF Enter, Idle
<1>3. job' \in Jobs
  BY <1>1, <1>2 DEF Jobs, Places
<1>4. JobInv'
  BY <1>1, <1>2 DEF JobInv, At
<1> QED
  BY <1>2, <1>3, <1>4 DEF Enter

(* After a handler: another one, or the end of the call.                   *)
LEMMA NextDutyJob ==
  ASSUME Control, ~At("idle"), UNCHANGED <<mode, chosen, finalized>>, NextDuty
  PROVE  job' \in Jobs /\ JobInv' /\ done' \in SUBSET Blocks
<1>1. done \in SUBSET Blocks /\ job.root \in Blocks
  BY DEF Control, TypeOK, JobInv
<1>2. CASE Finish
  BY <1>1, <1>2, IdleJob DEF Finish
<1>3. CASE Enter("withdrawal", "find", {})
  BY <1>1, <1>3, EnterJob DEF Handlers
<1>4. CASE Enter("balance", "measure", Validators)
  BY <1>1, <1>4, EnterJob DEF Handlers
<1> QED
  BY <1>2, <1>3, <1>4 DEF NextDuty

(* The proofs of a kind are built on the root, or on its parent for the    *)
(* balances before a key leaves.                                           *)
LEMMA BuildJob ==
  ASSUME Control, ~At("idle"), UNCHANGED <<mode, chosen, finalized>>,
         NEW kind \in {job.duty, "balance"}, NEW vals \in SUBSET Validators,
         kind = "balance" => At("measure"),
         Build(kind, vals)
  PROVE  /\ job' \in Jobs /\ JobInv' /\ done' = done
         /\ job'.at = "build" /\ job'.kind = kind /\ job'.vals = vals
         /\ job'.duty = job.duty /\ job'.root = job.root /\ job'.keys = job.keys
<1>1. /\ job \in Jobs /\ job.root \in Blocks /\ job.root >= FirstRoot
      /\ job.recent \in Blocks /\ job.recent <= finalized /\ job.duty \in Handlers
      /\ mode = "cli" => chosen \in Commands
      /\ At("measure") =>
           job.target = IF job.duty = "balance" THEN job.root ELSE Parent(job.root)
  BY DEF Control, TypeOK, Jobs, JobInv
<1>2. job' = [job EXCEPT !.at = "build", !.kind = kind, !.vals = vals,
                         !.target = IF kind = "balance" THEN @ ELSE job.root]
  BY DEF Build
<1>3. job' \in Jobs
  BY <1>1, <1>2 DEF Jobs, Places, Handlers
<1>4. /\ job'.at = "build" /\ job'.kind = kind /\ job'.vals = vals
      /\ job'.duty = job.duty /\ job'.root = job.root /\ job'.keys = job.keys
      /\ job'.recent = job.recent
      /\ job'.target = IF kind = "balance" THEN job.target ELSE job.root
  BY <1>1, <1>2 DEF Jobs
<1>5. JobInv'
  BY <1>1, <1>4 DEF JobInv, At, Parent
<1> QED
  BY <1>3, <1>4, <1>5 DEF Build

(* The steps of the world leave the job alone.                             *)
LEMMA QuietJob ==
  ASSUME Control, UNCHANGED <<job, mode, chosen>>, finalized <= finalized',
         finalized' \in Nat
  PROVE  JobInv'
BY ChainTypes DEF Control, TypeOK, JobInv, At, Parent

(* Initially no handler runs.                                              *)
LEMMA ControlInit == Init => Control
<1> SUFFICES ASSUME Init PROVE Control
  OBVIOUS
<1>1. Idle \in Jobs /\ At("idle")
  BY DEF Init, Idle, Jobs, Places, At
<1>2. head \in 0 .. MaxSlot /\ finalized \in Blocks /\ finalized <= head
  BY ChainTypes DEF Init
<1>3. TypeOK
  BY <1>1, <1>2, ValidatorTypes DEF Init, TypeOK, Jobs
<1> QED
  BY <1>1, <1>3 DEF Control, JobInv

(* Every step keeps the types and the control of the handlers.             *)
LEMMA ControlNext == Control /\ [Next]_vars => Control'
<1> SUFFICES ASSUME Control, [Next]_vars PROVE Control'
  OBVIOUS
<1> USE DEF setting, chainVars, contractVars
<1>a. /\ mode \in Modes /\ balancesOn \in BOOLEAN
      /\ head \in 0 .. MaxSlot /\ head \in Nat /\ finalized \in Blocks
      /\ finalized \in Nat /\ finalized <= head
      /\ slashed \subseteq Validators /\ withdrawn \subseteq Validators
      /\ confirmed \in [Validators -> Nat] /\ job \in Jobs
      /\ chosen \in Commands \cup {NoCommand} /\ done \subseteq Blocks
      /\ faults \in 0 .. MaxFaults /\ ours \subseteq Events
  BY ChainTypes DEF Control, TypeOK, Jobs
<1>b. ASSUME UNCHANGED <<setting, chainVars, contractVars, ours>>,
             UNCHANGED faults \/ Fault,
             chosen' \in Commands \cup {NoCommand}, done' \in SUBSET Blocks,
             job' \in Jobs, JobInv'
      PROVE  Control'
  <2>1. faults' \in 0 .. MaxFaults
    BY <1>a, <1>b, ValidatorTypes DEF Fault
  <2> QED
    BY <1>a, <1>b, <2>1 DEF Control, TypeOK, Jobs
<1>1. CASE Tick \/ Finalize \/ OthersProve
  <2>1. UNCHANGED <<setting, confirmed, job, chosen, done, ours>>
    BY <1>1 DEF Tick, Finalize, OthersProve
  <2>2. /\ head' \in 0 .. MaxSlot /\ finalized' \in Blocks /\ finalized' <= head'
        /\ finalized <= finalized' /\ finalized' \in Nat
    BY <1>1, <1>a, ChainTypes DEF Tick, Finalize, OthersProve
  <2>3. /\ slashed' \subseteq Validators /\ withdrawn' \subseteq Validators
        /\ faults' \in 0 .. MaxFaults
    <3>1. CASE Tick \/ Finalize
      BY <1>a, <3>1 DEF Tick, Finalize
    <3>2. CASE OthersProve
      <4>1. faults' \in 0 .. MaxFaults
        BY <1>a, <3>2, ValidatorTypes DEF OthersProve, Fault
      <4> QED
        BY <1>a, <3>2, <4>1, ValidatorTypes DEF OthersProve
    <3> QED
      BY <1>1, <3>1, <3>2
  <2>4. JobInv'
    BY <2>1, <2>2, QuietJob
  <2> QED
    BY <1>a, <2>1, <2>2, <2>3, <2>4 DEF Control, TypeOK, Jobs
<1>2. CASE Process
  <2>1. PICK r \in Blocks :
          /\ r >= FirstRoot
          /\ job' = [Idle EXCEPT !.at = "find", !.duty = "slashing", !.root = r,
                                 !.recent = finalized]
    BY <1>2 DEF Process
  <2>2. job' = [at |-> "find", duty |-> "slashing", root |-> r, recent |-> finalized,
                keys |-> {}, kind |-> "none", target |-> NoBlock, anchor |-> NoBlock,
                vals |-> {}]
    BY <2>1 DEF Idle
  <2>3. job' \in Jobs
    BY <1>a, <2>2 DEF Jobs, Places, Handlers
  <2>4. mode = "daemon" /\ UNCHANGED <<setting, chainVars, contractVars, chosen, done,
                                       faults, ours>>
    BY <1>2 DEF Process
  <2>5. JobInv'
    BY <1>a, <2>1, <2>2, <2>4 DEF JobInv, At, Handlers
  <2> QED
    BY <1>a, <1>b, <2>3, <2>4, <2>5
<1>3. CASE Command
  <2>1. PICK c \in Commands :
          /\ chosen' = c
          /\ job' = [Idle EXCEPT !.at = IF c.duty = "balance" THEN "measure" ELSE "find",
                                 !.duty = c.duty, !.root = c.block, !.recent = finalized,
                                 !.keys = IF c.duty = "balance" THEN {c.val} ELSE {},
                                 !.target = c.block]
    BY <1>3 DEF Command
  <2>2. job' = [at |-> IF c.duty = "balance" THEN "measure" ELSE "find",
                duty |-> c.duty, root |-> c.block, recent |-> finalized,
                keys |-> IF c.duty = "balance" THEN {c.val} ELSE {}, kind |-> "none",
                target |-> c.block, anchor |-> NoBlock, vals |-> {}]
    BY <2>1 DEF Idle
  <2>3. c.duty \in Handlers /\ c.block \in Blocks /\ c.block >= FirstRoot
        /\ c.val \in Validators
    BY ValidatorTypes
  <2>4. job' \in Jobs
    BY <1>a, <2>2, <2>3 DEF Jobs, Places
  <2>5. UNCHANGED <<setting, chainVars, contractVars, done, faults, ours>>
    BY <1>3 DEF Command
  <2>6. JobInv'
    BY <1>a, <2>1, <2>2, <2>3, <2>5 DEF JobInv, At
  <2> QED
    BY <1>a, <1>b, <2>1, <2>4, <2>5, <2>6
<1>4. CASE Find
  <2> DEFINE unproven == {v \in Found(job.root, job.duty) : ~IsProved(job.duty, KeyOf(v))}
  <2>1. /\ At("find") /\ UNCHANGED <<setting, chainVars, contractVars, chosen, faults, ours>>
        /\ unproven \in SUBSET Validators
    BY <1>4 DEF Find, Found
  <2>2. /\ job.root \in Blocks /\ job.root >= FirstRoot /\ job.recent \in Blocks
        /\ job.recent <= finalized /\ job.duty \in Handlers /\ job.duty # "balance"
        /\ mode = "cli" => chosen \in Commands
    BY <2>1 DEF Control, JobInv, At
  <2>3. CASE NextDuty
    BY <1>a, <1>b, <2>1, <2>3, NextDutyJob DEF At
  <2>4. CASE /\ job' = [job EXCEPT !.at = "measure", !.keys = unproven,
                                   !.target = Parent(job.root)]
             /\ UNCHANGED done
    <3>1. Parent(job.root) \in Blocks
      BY <2>2, ParentIsBlock
    <3>2. job' \in Jobs
      BY <1>a, <2>1, <2>4, <3>1 DEF Jobs, Places
    <3>3. /\ job'.at = "measure" /\ job'.duty = job.duty /\ job'.root = job.root
          /\ job'.recent = job.recent /\ job'.target = Parent(job.root)
      BY <1>a, <2>4 DEF Jobs
    <3>4. JobInv'
      BY <2>1, <2>2, <3>3 DEF JobInv, At, Parent
    <3> QED
      BY <1>a, <1>b, <2>1, <2>4, <3>2, <3>4
  <2>5. CASE /\ job' = [job EXCEPT !.at = "build", !.kind = job.duty, !.keys = unproven,
                                   !.vals = unproven, !.target = job.root]
             /\ UNCHANGED done
    <3>1. job' \in Jobs
      BY <1>a, <2>1, <2>2, <2>5 DEF Jobs, Places
    <3>2. /\ job'.at = "build" /\ job'.duty = job.duty /\ job'.root = job.root
          /\ job'.recent = job.recent /\ job'.target = job.root /\ job'.kind = job.duty
      BY <1>a, <2>5 DEF Jobs
    <3>3. JobInv'
      BY <2>1, <2>2, <3>2 DEF JobInv, At
    <3> QED
      BY <1>a, <1>b, <2>1, <2>5, <3>1, <3>3
  <2> QED
    BY <1>4, <2>3, <2>4, <2>5 DEF Find
<1>5. ASSUME ~At("idle"), AfterBalances,
             UNCHANGED <<setting, chainVars, contractVars, chosen, faults, ours>>
      PROVE  Control'
  <2>1. CASE NextDuty
    BY <1>a, <1>b, <1>5, <2>1, NextDutyJob
  <2>2. CASE job.duty # "balance" /\ Build(job.duty, job.keys)
    <3>1. job.keys \in SUBSET Validators
      BY <1>a DEF Jobs
    <3> QED
      BY <1>a, <1>b, <1>5, <2>2, <3>1, BuildJob
  <2> QED
    BY <1>5, <2>1, <2>2 DEF AfterBalances
<1>6. CASE Measure
  <2> DEFINE provable == {v \in job.keys : Provable(v, KeyOf(v), job.target)}
  <2>1. /\ At("measure")
        /\ UNCHANGED <<setting, chainVars, contractVars, chosen, faults, ours>>
        /\ provable \in SUBSET Validators
    BY <1>6, <1>a DEF Measure, Jobs
  <2>2. CASE Build("balance", provable)
    <3> HIDE DEF provable
    <3> QED
      BY <1>a, <1>b, <2>1, <2>2, BuildJob DEF At
  <2>3. CASE AfterBalances
    BY <1>5, <2>1, <2>3 DEF At
  <2> QED
    BY <1>6, <2>2, <2>3 DEF Measure
<1>7. CASE BuildPayloads
  <2>1. /\ At("build")
        /\ UNCHANGED <<setting, chainVars, contractVars, chosen, faults, ours, done>>
    BY <1>7 DEF BuildPayloads, Payloads
  <2>2. PICK anchor \in Blocks :
          job' = [job EXCEPT !.at = "send", !.anchor = anchor,
                             !.vals = {v \in job.vals : ~Skipped(v)}]
    BY <1>7 DEF BuildPayloads, Payloads
  <2>3. job' \in Jobs
    BY <1>a, <2>2 DEF Jobs, Places
  <2>4. /\ job'.at = "send" /\ job'.duty = job.duty /\ job'.root = job.root
        /\ job'.recent = job.recent /\ job'.target = job.target /\ job'.kind = job.kind
    BY <1>a, <2>2 DEF Jobs
  <2>5. JobInv'
    BY <2>1, <2>4 DEF Control, JobInv, At, Parent
  <2> QED
    BY <1>a, <1>b, <2>1, <2>3, <2>5
<1>8. ASSUME Throw, UNCHANGED <<setting, chainVars, contractVars, chosen, ours>>,
             UNCHANGED faults \/ Fault
      PROVE  Control'
  BY <1>a, <1>b, <1>8, IdleJob DEF Throw
<1>9. CASE BuildThrows \/ Refused \/ Fail
  BY <1>8, <1>9 DEF BuildThrows, Refused, Fail
<1>10. CASE SendProof \/ SentUnanswered
  <2>1. PICK v \in job.vals : Record(v)
    BY <1>10 DEF SendProof, SentUnanswered
  <2>2. At("send") /\ v \in Validators /\ UNCHANGED <<setting, chainVars, chosen, done>>
    BY <1>a, <1>10 DEF SendProof, SentUnanswered, Jobs, Throw
  <2>3. /\ confirmed' \in [Validators -> Nat] /\ slashed' \subseteq Validators
        /\ withdrawn' \subseteq Validators /\ ours' \subseteq Events
    BY <2>1, <2>2, RecordGrows
  <2>4. faults' \in 0 .. MaxFaults
    BY <1>a, <1>10, ValidatorTypes DEF SendProof, SentUnanswered, Fault
  <2>5. job' \in Jobs /\ JobInv'
    <3>1. CASE job' = Idle
      BY <3>1, IdleJob
    <3>2. ASSUME NEW w, job' = [job EXCEPT !.vals = @ \ {w}] PROVE job' \in Jobs /\ JobInv'
      <4>1. job' \in Jobs
        BY <1>a, <3>2 DEF Jobs
      <4>2. /\ job'.at = job.at /\ job'.duty = job.duty /\ job'.root = job.root
            /\ job'.recent = job.recent /\ job'.target = job.target /\ job'.kind = job.kind
        BY <1>a, <3>2 DEF Jobs
      <4>3. JobInv'
        BY <2>2, <4>2 DEF Control, JobInv, At, Parent
      <4> QED
        BY <4>1, <4>3
    <3> QED
      BY <1>10, <3>1, <3>2 DEF SendProof, SentUnanswered, Throw
  <2> QED
    BY <1>a, <2>2, <2>3, <2>4, <2>5 DEF Control, TypeOK, Jobs
<1>11. CASE AllSent
  <2>1. /\ At("send")
        /\ UNCHANGED <<setting, chainVars, contractVars, chosen, faults, ours>>
    BY <1>11 DEF AllSent
  <2>2. CASE AfterBalances
    BY <1>5, <2>1, <2>2 DEF At
  <2>3. CASE NextDuty
    BY <1>a, <1>b, <2>1, <2>3, NextDutyJob DEF At
  <2> QED
    BY <1>11, <2>2, <2>3 DEF AllSent
<1>12. CASE UNCHANGED vars
  <2>1. UNCHANGED <<setting, chainVars, contractVars, job, chosen, done, faults, ours>>
    BY <1>12 DEF vars
  <2>2. JobInv'
    BY <1>a, <2>1, QuietJob
  <2> QED
    BY <1>a, <1>b, <2>1, <2>2
<1> QED
  BY <1>1, <1>2, <1>3, <1>4, <1>6, <1>7, <1>9, <1>10, <1>11, <1>12 DEF Next, Work

-----------------------------------------------------------------------------
(***************************************************************************)
(* The anchors.                                                            *)
(***************************************************************************)
(* The margin of isHistoricalBlock covers the time finality is behind.     *)
LEMMA AnchorIsKept ==
  ASSUME Control, At("build"), head <= job.recent + FinalizationBuffer,
         NEW anchor \in Blocks, AnchorFound(anchor)
  PROVE  RootIsKept(anchor, head)
<1>1. /\ head \in Nat /\ finalized \in Nat /\ job.recent \in Nat /\ job.recent <= finalized
      /\ job.target \in Nat /\ anchor \in Nat
  <2>1. job.root \in Blocks /\ job.target \in {job.root, Parent(job.root)}
    BY DEF Control, JobInv, At
  <2>2. job.target \in Blocks
    BY <2>1, ParentIsBlock DEF Control, JobInv, At
  <2> QED
    BY <2>2, ChainTypes DEF Control, TypeOK, JobInv, At
<1>2. \E c \in Blocks : c > anchor /\ c <= head
  BY DEF AnchorFound, HasChild, Successors
<1>3. CASE anchor \in {job.recent, finalized}
  BY <1>1, <1>2, <1>3, ChildInTime, ChainTypes
<1>4. CASE anchor = job.target /\ ~IsHistorical(job.target, job.recent)
  <2>1. job.recent - job.target < SlotsPerHistoricalRoot - FinalizationBuffer
    BY <1>1, <1>4, ChainTypes DEF IsHistorical
  <2>2. head - anchor <= RootsKept
    BY <1>1, <1>4, <2>1, ChainTypes
  <2> QED
    BY <1>1, <1>2, <2>2, ChildInTime
<1> QED
  BY <1>3, <1>4 DEF AnchorFound, SlashingAnchor, GeneralAnchor, HistoricalAnchor

-----------------------------------------------------------------------------
(***************************************************************************)
(* Theorems about every step.                                              *)
(***************************************************************************)
(* Every variable keeps its type; the parent whose balances are measured   *)
(* is a block of the chain.                                                *)
THEOREM TypeCorrect == Spec => []TypeOK
<1>1. Control => TypeOK
  BY DEF Control
<1> QED
  BY <1>1, ControlInit, ControlNext, PTL DEF Spec

(* A payload is anchored to a root that the execution layer still has,     *)
(* whatever time passed between the reads, while finality is no more than  *)
(* two epochs behind.                                                      *)
THEOREM AnchorsKept == Spec => AnchorsAreKept
<1>1. Control /\ [Next]_vars =>
        [At("build") /\ job'.at = "send" /\ head <= job.recent + FinalizationBuffer
           => RootIsKept(job'.anchor, head)]_vars
  <2> SUFFICES ASSUME Control, Next, At("build"), job'.at = "send",
                      head <= job.recent + FinalizationBuffer
               PROVE  RootIsKept(job'.anchor, head)
    OBVIOUS
  <2>1. BuildPayloads
    BY DEF Next, Tick, Finalize, OthersProve, Command, Work, Process, Find, Measure,
       BuildThrows, SendProof, Refused, AllSent, Fail, SentUnanswered, Throw, Idle, At
  <2>2. PICK anchor \in Blocks :
          /\ AnchorFound(anchor)
          /\ job' = [job EXCEPT !.at = "send", !.anchor = anchor,
                                !.vals = {v \in job.vals : ~Skipped(v)}]
    BY <2>1 DEF BuildPayloads, Payloads
  <2>3. job'.anchor = anchor
    BY <2>2 DEF Control, TypeOK
  <2> QED
    BY <2>2, <2>3, AnchorIsKept
<1> QED
  BY <1>1, ControlInit, ControlNext, PTL DEF Spec, AnchorsAreKept

-----------------------------------------------------------------------------
(***************************************************************************)
(* Balances before an exit.                                                *)
(***************************************************************************)
(* The key of v need not be told of the balance in the state of b.         *)
Settled(v, b) == ~Provable(v, KeyOf(v), b)

MeasuredInv ==
  job.at \in {"build", "send"} =>
    /\ job.kind = "balance" => \A v \in job.keys \ job.vals : Settled(v, job.target)
    /\ job.kind # "balance" /\ balancesOn => \A v \in job.vals : Settled(v, Parent(job.root))
    /\ At("send") /\ job.kind = "withdrawal" =>
         \A v \in job.vals : ~(Epoch(job.root) < Withdrawable[v])

(* What is settled stays so while the module learns more.                  *)
LEMMA SettledStays ==
  ASSUME Control, ~At("idle"), UNCHANGED <<mode, chosen>>,
         confirmed' \in [Validators -> Nat],
         \A w \in Validators : confirmed[w] <= confirmed'[w],
         NEW v \in Validators, NEW b \in Blocks, Settled(v, b)
  PROVE  Settled(v, b)'
<1>1. KeyOf(v) \in Validators /\ KeyOf(v)' = KeyOf(v)
  BY KeyOfJob DEF KeyOf
<1>2. confirmed \in [Validators -> Nat]
  BY DEF Control, TypeOK
<1>3. ~Provable(v, KeyOf(v), b)
  BY DEF Settled
<1>4. ~(/\ Balance[v][b] > MinActivation
        /\ IsProvableBalance(confirmed'[KeyOf(v)], Balance[v][b], Exiting(v, b)))
  <2> DEFINE k == KeyOf(v)
  <2>1. /\ confirmed[k] \in Nat /\ confirmed'[k] \in Nat /\ confirmed[k] <= confirmed'[k]
        /\ k \in Validators
    BY <1>1, <1>2
  <2> HIDE DEF k
  <2> QED
    BY <1>3, <2>1, ValidatorTypes DEF k, Provable, Exiting, IsProvableBalance
<1> QED
  BY <1>1, <1>4 DEF Settled, Provable, Exiting

(* The target of a job is a block, and so is the parent of its root.       *)
LEMMA TargetIsBlock ==
  ASSUME Control, job.at \in {"build", "send"}
  PROVE  job.target \in Blocks /\ Parent(job.root) \in Blocks /\ job.root \in Blocks
BY ParentIsBlock DEF Control, JobInv, At

(* Only Find, Measure and the end of the balances build something.         *)
LEMMA NotBuilding ==
  ASSUME Control, ~At("idle"), NextDuty
  PROVE  job'.at \notin {"build", "send"}
<1>1. ASSUME NEW duty, NEW place, NEW keys, Enter(duty, place, keys)
      PROVE  job'.at = place
  BY <1>1 DEF Enter, Idle
<1>2. CASE Finish
  BY <1>2 DEF Finish, Idle
<1> QED
  BY <1>1, <1>2 DEF NextDuty

(* A sent payload leaves the job, and what it proves is settled.           *)
LEMMA SendMeasured ==
  ASSUME Control, MeasuredInv, SendProof
  PROVE  MeasuredInv'
<1>1. PICK v \in job.vals :
        Accepts(v) /\ Record(v) /\ job' = [job EXCEPT !.vals = @ \ {v}]
  BY DEF SendProof
<1>2. /\ At("send") /\ UNCHANGED <<mode, balancesOn, chosen>>
      /\ job \in Jobs /\ v \in Validators /\ job.vals \subseteq Validators
      /\ job.keys \subseteq Validators
  BY DEF SendProof, setting, Control, TypeOK, Jobs
<1>3. /\ job'.at = "send" /\ job'.kind = job.kind /\ job'.keys = job.keys
      /\ job'.target = job.target /\ job'.root = job.root /\ job'.vals = job.vals \ {v}
  BY <1>1, <1>2 DEF Jobs, At
<1>4. /\ confirmed' \in [Validators -> Nat]
      /\ \A w \in Validators : confirmed[w] <= confirmed'[w]
      /\ job.kind = "balance" => confirmed'[v] >= Balance[v][job.target] - MinActivation
  BY <1>1, <1>2, RecordGrows
<1>5. job.target \in Blocks /\ Parent(job.root) \in Blocks
  BY <1>2, TargetIsBlock DEF At
<1>6. KeyOf(v) = v /\ KeyOf(v)' = v
  BY <1>1, <1>2 DEF Accepts, KeyOf
<1>7. \A w \in Validators, b \in Blocks : Settled(w, b) => Settled(w, b)'
  BY <1>2, <1>4, SettledStays DEF At
<1>8. ASSUME job.kind = "balance" PROVE Settled(v, job.target)'
  <2>1. confirmed'[v] \in Nat /\ confirmed'[v] >= Balance[v][job.target] - MinActivation
    BY <1>2, <1>4, <1>8
  <2>2. Balance[v][job.target] \in Nat /\ MinActivation \in Nat
    BY <1>2, <1>5, ValidatorTypes
  <2>3. ~IsProvableBalance(confirmed'[v], Balance[v][job.target], Exiting(v, job.target))
    BY <2>1, <2>2 DEF IsProvableBalance
  <2> QED
    BY <1>3, <1>6, <2>3 DEF Settled, Provable, Exiting
<1>9. ASSUME job.kind = "balance", NEW w \in job.keys \ job'.vals
      PROVE  Settled(w, job.target)'
  <2>1. CASE w = v
    BY <1>8, <1>9, <2>1
  <2>2. CASE w # v
    <3>1. w \in job.keys \ job.vals /\ w \in Validators
      BY <1>2, <1>3, <1>9, <2>2
    <3>2. Settled(w, job.target)
      BY <1>2, <1>9, <3>1 DEF MeasuredInv, At
    <3>3. Settled(w, job.target) => (\A b \in Blocks : b = job.target => Settled(w, b)')
      BY <1>5, <1>7, <3>1
    <3> QED
      BY <1>3, <1>5, <3>2, <3>3
  <2> QED
    BY <2>1, <2>2
<1> QED
  BY <1>2, <1>3, <1>5, <1>7, <1>9 DEF MeasuredInv, At

(* Every step that builds or sends is about settled balances.              *)
LEMMA MeasuredNext == Control /\ MeasuredInv /\ [Next]_vars => MeasuredInv'
<1> SUFFICES ASSUME Control, MeasuredInv, [Next]_vars PROVE MeasuredInv'
  OBVIOUS
<1> USE DEF setting, chainVars, contractVars
<1>a. ASSUME job'.at \notin {"build", "send"} PROVE MeasuredInv'
  BY <1>a DEF MeasuredInv
<1>b. ASSUME UNCHANGED <<mode, balancesOn, confirmed, chosen>>
      PROVE  \A v, b : Settled(v, b)' <=> Settled(v, b)
  BY <1>b DEF Settled, Provable, Exiting, KeyOf
<1>1. CASE UNCHANGED <<job, mode, balancesOn, confirmed, chosen>>
  BY <1>1 DEF MeasuredInv, Settled, Provable, Exiting, KeyOf, At, Parent
<1>2. CASE Process \/ Command
  BY <1>2, <1>a DEF Process, Command, Idle
<1>3. CASE NextDuty /\ ~At("idle")
  BY <1>3, <1>a, NotBuilding
<1>4. CASE Throw
  BY <1>4, <1>a, IdleJob DEF Throw
<1>5. CASE Find
  <2> DEFINE unproven == {v \in Found(job.root, job.duty) : ~IsProved(job.duty, KeyOf(v))}
  <2>1. At("find") /\ UNCHANGED <<balancesOn>>
    BY <1>5 DEF Find
  <2>2. CASE job'.at = "measure"
    BY <1>a, <2>2
  <2>3. CASE ~balancesOn /\ job' = [job EXCEPT !.at = "build", !.kind = job.duty,
                                     !.keys = unproven, !.vals = unproven,
                                     !.target = job.root]
    <3>1. job'.at = "build" /\ job'.kind = job.duty /\ job.duty # "balance"
      BY <2>1, <2>3 DEF Control, TypeOK, JobInv, At
    <3>2. ~balancesOn'
      BY <2>1, <2>3
    <3> QED
      BY <3>1, <3>2 DEF MeasuredInv, At
  <2>4. (unproven # {} /\ balancesOn) =>
          (job' = [job EXCEPT !.at = "measure", !.keys = unproven,
                              !.target = Parent(job.root)] => job'.at = "measure")
    BY DEF Control, TypeOK
  <2> QED
    BY <1>3, <1>5, <2>1, <2>2, <2>3, <2>4 DEF Find, At
<1>6. ASSUME ~At("idle"), UNCHANGED <<mode, balancesOn, confirmed, chosen, finalized>>,
             AfterBalances,
             job.duty # "balance" => \A v \in job.keys : Settled(v, Parent(job.root))
      PROVE  MeasuredInv'
  <2>1. CASE job.duty # "balance" /\ Build(job.duty, job.keys)
    <3>1. job.keys \in SUBSET Validators
      BY DEF Control, TypeOK
    <3>2. /\ job'.at = "build" /\ job'.kind = job.duty /\ job'.vals = job.keys
          /\ job'.root = job.root
      BY <1>6, <2>1, <3>1, BuildJob
    <3>3. \A v \in job'.vals : Settled(v, Parent(job.root))'
      BY <1>6, <1>b, <2>1, <3>2
    <3> QED
      BY <2>1, <3>2, <3>3 DEF MeasuredInv, At, Parent
  <2> QED
    BY <1>3, <1>6, <2>1 DEF AfterBalances
<1>7. CASE Measure
  <2> DEFINE provable == {v \in job.keys : Provable(v, KeyOf(v), job.target)}
  <2>1. /\ At("measure") /\ ~At("idle")
        /\ UNCHANGED <<mode, balancesOn, confirmed, chosen, finalized>>
        /\ provable \in SUBSET Validators
    BY <1>7 DEF Measure, Control, TypeOK, At
  <2>2. CASE Build("balance", provable)
    <3>1. /\ job'.at = "build" /\ job'.kind = "balance" /\ job'.vals = provable
          /\ job'.keys = job.keys
      <4> HIDE DEF provable
      <4> QED
        BY <2>1, <2>2, BuildJob
    <3>2. job'.target = job.target
      BY <2>2 DEF Build, Control, TypeOK
    <3>3. \A v \in job'.keys \ job'.vals : Settled(v, job.target)'
      BY <1>b, <2>1, <3>1, <3>2 DEF Settled
    <3> QED
      BY <3>1, <3>3 DEF MeasuredInv, At
  <2>3. CASE provable = {} /\ AfterBalances
    <3>1. job.duty # "balance" => \A v \in job.keys : Settled(v, Parent(job.root))
      BY <2>1, <2>3 DEF Settled, Control, JobInv, At
    <3> QED
      BY <1>6, <2>1, <2>3, <3>1
  <2> QED
    BY <1>7, <2>2, <2>3 DEF Measure
<1>8. CASE BuildPayloads
  <2>1. PICK anchor \in Blocks :
          job' = [job EXCEPT !.at = "send", !.anchor = anchor,
                             !.vals = {v \in job.vals : ~Skipped(v)}]
    BY <1>8 DEF BuildPayloads, Payloads
  <2>2. /\ At("build") /\ UNCHANGED <<mode, balancesOn, confirmed, chosen>>
    BY <1>8 DEF BuildPayloads, Payloads
  <2>3. /\ job'.at = "send" /\ job'.kind = job.kind /\ job'.target = job.target
        /\ job'.root = job.root /\ job'.keys = job.keys
        /\ job'.vals = {v \in job.vals : ~Skipped(v)}
    BY <2>1 DEF Control, TypeOK
  <2>4. job.kind = "balance" => job'.vals = job.vals
    BY <2>3 DEF Skipped
  <2>5. job'.kind = "balance" => \A v \in job'.keys \ job'.vals : Settled(v, job.target)'
    BY <1>b, <2>2, <2>3, <2>4 DEF MeasuredInv, At
  <2>6. job'.kind # "balance" /\ balancesOn' =>
          \A v \in job'.vals : Settled(v, Parent(job.root))'
    BY <1>b, <2>2, <2>3 DEF MeasuredInv, At
  <2>7. job'.kind = "withdrawal" => \A v \in job'.vals : ~(Epoch(job'.root) < Withdrawable[v])
    BY <2>2, <2>3 DEF Skipped, Control, JobInv, At
  <2> QED
    BY <2>3, <2>5, <2>6, <2>7 DEF MeasuredInv, At, Parent, Epoch
<1>9. CASE SendProof
  BY <1>9, SendMeasured
<1>10. CASE AllSent
  <2>1. /\ At("send") /\ ~At("idle") /\ job.vals = {}
        /\ UNCHANGED <<mode, balancesOn, confirmed, chosen, finalized>>
    BY <1>10 DEF AllSent, At
  <2>2. CASE job.kind = "balance" /\ AfterBalances
    <3>1. job.duty # "balance" => \A v \in job.keys : Settled(v, Parent(job.root))
      BY <2>1, <2>2 DEF MeasuredInv, Control, JobInv, At
    <3> QED
      BY <1>6, <2>1, <2>2, <3>1
  <2> QED
    BY <1>3, <1>10, <2>1, <2>2 DEF AllSent
<1> QED
  BY <1>1, <1>2, <1>4, <1>5, <1>7, <1>8, <1>9, <1>10
     DEF Next, Work, Tick, Finalize, OthersProve, BuildThrows, Refused, Fail,
         SentUnanswered, vars

(* A proof of an exit that the verifier accepts is of a key whose balance  *)
(* is reported.                                                            *)
LEMMA ExitIsSettled ==
  ASSUME Control, MeasuredInv, balancesOn, At("send"), NEW v \in job.vals,
         KeyOf(v) = v, NEW e \in EventsIn(job.target, job.kind), e.val = v
  PROVE  Unreported(v, Parent(e.slot)) <= IF e.kind = "slashing" THEN MinDelta ELSE 0
<1>1. /\ v \in Validators /\ confirmed[v] \in Nat /\ e \in Events
      /\ e.slot = job.target /\ e.kind = job.kind
      /\ e.slot \in Blocks /\ e.slot >= FirstRoot /\ e.kind \in {"slashing", "withdrawal"}
  BY ValidatorTypes DEF EventsIn, Control, TypeOK
<1>2. job.target = job.root
  BY <1>1 DEF Control, JobInv, At
<1>3. /\ Parent(e.slot) \in Blocks /\ \A c \in Blocks : c < e.slot => c <= Parent(e.slot)
  BY <1>1, ParentIsBlock
<1>4. ~Provable(v, v, Parent(e.slot))
  BY <1>1, <1>2 DEF MeasuredInv, Settled, At
<1>5. /\ Unreported(v, Parent(e.slot)) <= MinDelta
      /\ ExitKnown[v] <= Parent(e.slot) => Unreported(v, Parent(e.slot)) <= 0
  BY <1>1, <1>3, <1>4, NothingToReport
<1>6. CASE e.kind = "slashing"
  BY <1>5, <1>6
<1>7. CASE e.kind = "withdrawal"
  <2>1. ~(Epoch(e.slot) < Withdrawable[v])
    BY <1>1, <1>2, <1>7 DEF MeasuredInv, At
  <2>2. Epoch(e.slot) \in Int /\ Withdrawable[v] \in Nat
    <3>1. e.slot \in Nat /\ SlotsPerEpoch \in Nat \ {0}
      BY <1>1, ChainTypes
    <3> QED
      BY <1>1, <3>1, ValidatorTypes DEF Epoch
  <2>3. Epoch(e.slot) >= Withdrawable[e.val]
    BY <2>1, <2>2
  <2>4. PICK p \in Blocks : ExitKnown[e.val] <= p /\ p < e.slot
    BY <1>1, <1>7, <2>3, DutiesConstants
  <2>5. ExitKnown[v] <= Parent(e.slot)
    <3>1. p \in Nat /\ ExitKnown[v] \in Nat /\ Parent(e.slot) \in Nat
      BY <1>1, <1>3, ChainTypes, ValidatorTypes
    <3> QED
      BY <1>3, <2>4, <3>1
  <2> QED
    BY <1>5, <1>7, <2>5
<1> QED
  BY <1>1, <1>6, <1>7

(* Every step keeps the balances of those who left reported.               *)
LEMMA BalanceNext ==
  Control /\ MeasuredInv /\ BalanceBeforeExit /\ [Next]_vars => BalanceBeforeExit'
<1> SUFFICES ASSUME Control, MeasuredInv, BalanceBeforeExit, [Next]_vars, balancesOn',
                    NEW e \in ours'
             PROVE  Unreported(e.val, Parent(e.slot))' <=
                      IF e.kind = "slashing" THEN MinDelta ELSE 0
  BY DEF BalanceBeforeExit, Parent
<1> USE DEF setting, chainVars, contractVars
<1>1. balancesOn
  BY DEF Next, Work, Tick, Finalize, OthersProve, Process, Command, Find, Measure,
     BuildPayloads, BuildThrows, SendProof, Refused, AllSent, Fail, SentUnanswered, vars
<1>2. MinDelta \in Nat /\ (IF e.kind = "slashing" THEN MinDelta ELSE 0) \in Nat
  BY ValidatorTypes
<1>3. CASE UNCHANGED <<confirmed, ours>>
  BY <1>1, <1>3 DEF BalanceBeforeExit, Unreported
<1>4. CASE SendProof \/ SentUnanswered
  <2>1. PICK v \in job.vals : Accepts(v) /\ Record(v)
    BY <1>4 DEF SendProof, SentUnanswered
  <2>2. At("send") /\ v \in Validators
    BY <1>4 DEF SendProof, SentUnanswered, Control, TypeOK
  <2>3. /\ confirmed' \in [Validators -> Nat] /\ confirmed \in [Validators -> Nat]
        /\ \A w \in Validators : confirmed[w] <= confirmed'[w]
        /\ ours' \subseteq Events
    BY <2>1, <2>2, RecordGrows DEF Control, TypeOK
  <2>4. /\ e.val \in Validators /\ e.slot \in Blocks /\ e.slot >= FirstRoot
    BY <2>3, ValidatorTypes
  <2>5. Unreported(e.val, Parent(e.slot)) <= IF e.kind = "slashing" THEN MinDelta ELSE 0
    <3>1. CASE e \in ours
      BY <1>1, <3>1 DEF BalanceBeforeExit
    <3>2. CASE e \notin ours
      <4>1. e \in EventsIn(job.target, job.kind) /\ e.val = v
        BY <2>1, <3>2 DEF Record
      <4> QED
        BY <1>1, <2>1, <2>2, <4>1, ExitIsSettled DEF Accepts
    <3> QED
      BY <3>1, <3>2
  <2>6. Parent(e.slot) \in Blocks
    BY <2>4, ParentIsBlock
  <2>7. confirmed[e.val] \in Nat /\ confirmed'[e.val] \in Nat
        /\ confirmed[e.val] <= confirmed'[e.val]
    BY <2>3, <2>4
  <2>8. \A n \in Nat : Unreported(e.val, Parent(e.slot)) <= n =>
                         Unreported(e.val, Parent(e.slot))' <= n
    <3> DEFINE b == Parent(e.slot)
               m == Min({Balance[e.val][b], ReportableMax})
    <3>1. m \in Int /\ MinActivation \in Nat
      <4>1. b \in Blocks
        BY <2>6
      <4> HIDE DEF b
      <4>2. Balance[e.val][b] \in Nat /\ ReportableMax \in Int /\ MinActivation \in Nat
        BY <2>4, <4>1, ValidatorTypes
      <4>3. Balance[e.val][b] \in Int
        BY <4>2
      <4> QED
        BY <4>2, <4>3, MinOfTwo
    <3>2. /\ Unreported(e.val, b) = m - (MinActivation + confirmed[e.val])
          /\ Unreported(e.val, b)' = m - (MinActivation + confirmed'[e.val])
      BY DEF Unreported, Parent
    <3> HIDE DEF m
    <3> QED
      BY <2>7, <3>1, <3>2
  <2> QED
    BY <1>2, <2>5, <2>8
<1> QED
  BY <1>3, <1>4
     DEF Next, Work, Tick, Finalize, OthersProve, Process, Command, Find, Measure,
     BuildPayloads, BuildThrows, Refused, AllSent, Fail, vars

(* Measured, and what was proved of exits, in every reachable state.       *)
LEMMA MeasuredInvariance == Spec => [](Control /\ MeasuredInv /\ BalanceBeforeExit)
<1>1. Init => Control /\ MeasuredInv /\ BalanceBeforeExit
  BY ControlInit DEF Init, Idle, MeasuredInv, BalanceBeforeExit
<1>2. (Control /\ MeasuredInv /\ BalanceBeforeExit) /\ [Next]_vars =>
        (Control /\ MeasuredInv /\ BalanceBeforeExit)'
  BY ControlNext, MeasuredNext, BalanceNext
<1> QED
  BY <1>1, <1>2, PTL DEF Spec

(* Whenever this process proves an exit, the increase of the balance in    *)
(* the parent block is already reported, for any history of partial        *)
(* failures, of answers that were lost and of what others proved.          *)
THEOREM BalancesGoFirst == Spec => []BalanceBeforeExit
BY MeasuredInvariance, PTL

-----------------------------------------------------------------------------
(***************************************************************************)
(* Nothing is left out.                                                    *)
(***************************************************************************)
(* What a duty finds in a block is proved, or need not be.                 *)
Handled(v, duty, r) ==
  \/ IsProved(duty, v)
  \/ duty = "withdrawal" /\ (SlashedInState(v, r) \/ Epoch(r) < Withdrawable[v])

DutyDone(duty, r) == \A v \in Found(r, duty) : Handled(v, duty, r)

ProgressInv ==
  mode = "daemon" /\ ~At("idle") =>
    /\ job.duty # "slashing" => DutyDone("slashing", job.root)
    /\ job.duty = "balance" => DutyDone("withdrawal", job.root) /\ job.keys = Validators
    /\ job.duty # "balance" /\ (At("measure") \/ (job.at \in {"build", "send"} /\ job.kind = "balance")) =>
         \A v \in Found(job.root, job.duty) \ job.keys : Handled(v, job.duty, job.root)
    /\ job.at \in {"build", "send"} /\ job.kind # "balance" =>
         \A v \in Found(job.root, job.duty) \ job.vals : Handled(v, job.duty, job.root)

(* The handlers of the daemon are done with a root: it may be forgotten.   *)
LEMMA RootDone ==
  ASSUME Control, DoneMeansProven, mode = "daemon", ~At("idle"),
         UNCHANGED <<balancesOn, contractVars>>,
         DutyDone("slashing", job.root), DutyDone("withdrawal", job.root),
         balancesOn /\ IsFirstInEpoch(job.root) =>
           \A v \in Validators : Unreported(v, job.root) <= MinDelta,
         done' = done \cup {job.root}
  PROVE  DoneMeansProven'
<1>1. UNCHANGED <<slashed, withdrawn, confirmed>>
  BY DEF contractVars
<1>2. ASSUME NEW e \in Events, e.slot \in done', Owed(e) PROVE IsProved(e.kind, e.val)'
  <2>1. e.val \in Validators /\ e.kind \in {"slashing", "withdrawal"}
    BY ValidatorTypes
  <2>2. CASE e.slot \in done
    BY <1>1, <1>2, <2>2 DEF DoneMeansProven, IsProved
  <2>3. CASE e.slot = job.root /\ e.kind = "slashing"
    <3>1. e.val \in Found(job.root, "slashing")
      BY <2>1, <2>3 DEF Found, InModule, EventsIn
    <3> QED
      BY <1>1, <2>3, <3>1 DEF DutyDone, Handled, IsProved
  <2>4. CASE e.slot = job.root /\ e.kind = "withdrawal"
    <3>1. e \in {w \in EventsIn(job.root, "withdrawal") : w.amount >= FullWithdrawal}
      BY <1>2, <2>4 DEF Owed, EventsIn
    <3>2. e.val \in Found(job.root, "withdrawal")
      BY <2>1, <3>1 DEF Found, InModule, FullWithdrawals
    <3>3. Handled(e.val, "withdrawal", job.root)
      BY <3>2 DEF DutyDone
    <3>4. ~SlashedInState(e.val, job.root) /\ Epoch(job.root) >= Withdrawable[e.val]
      BY <1>2, <2>4 DEF Owed
    <3>5. ~(Epoch(job.root) < Withdrawable[e.val])
      <4>1. job.root \in Nat /\ SlotsPerEpoch \in Nat \ {0} /\ Withdrawable[e.val] \in Nat
        BY <2>1, ChainTypes, ValidatorTypes DEF Control, JobInv
      <4>2. Epoch(job.root) \in Int
        BY <4>1 DEF Epoch
      <4> QED
        BY <3>4, <4>1, <4>2
    <3> QED
      BY <1>1, <2>4, <3>3, <3>4, <3>5 DEF Handled, IsProved
  <2> QED
    BY <1>2, <2>1, <2>2, <2>3, <2>4
<1>3. ASSUME balancesOn', NEW b \in done', NEW v \in Validators, IsFirstInEpoch(b)
      PROVE  Unreported(v, b)' <= MinDelta
  <2>1. balancesOn
    BY <1>3
  <2>2. Unreported(v, b) <= MinDelta
    BY <1>3, <2>1 DEF DoneMeansProven
  <2>3. Unreported(v, b)' = Unreported(v, b)
    BY <1>1 DEF Unreported
  <2> QED
    BY <2>2, <2>3
<1> QED
  BY <1>2, <1>3 DEF DoneMeansProven, Owed

(* What is done stays done while the module learns more.                   *)
LEMMA DoneStays ==
  ASSUME Control, DoneMeansProven, UNCHANGED <<balancesOn, done>>,
         slashed \subseteq slashed', withdrawn \subseteq withdrawn',
         confirmed' \in [Validators -> Nat],
         \A w \in Validators : confirmed[w] <= confirmed'[w]
  PROVE  DoneMeansProven'
<1>1. confirmed \in [Validators -> Nat] /\ done \subseteq Blocks
  BY DEF Control, TypeOK
<1>2. ASSUME NEW e \in Events, e.slot \in done', Owed(e) PROVE IsProved(e.kind, e.val)'
  BY <1>2 DEF DoneMeansProven, IsProved
<1>3. ASSUME balancesOn', NEW b \in done', NEW v \in Validators, IsFirstInEpoch(b)
      PROVE  Unreported(v, b)' <= MinDelta
  <2>1. balancesOn /\ b \in done /\ b \in Blocks
    BY <1>1, <1>3
  <2>2. Unreported(v, b) <= MinDelta
    BY <1>3, <2>1 DEF DoneMeansProven
  <2>3. MinDelta \in Nat /\ confirmed[v] \in Nat /\ confirmed'[v] \in Nat
        /\ confirmed[v] <= confirmed'[v]
    BY <1>1, ValidatorTypes
  <2> QED
    BY <2>1, <2>2, <2>3, UnreportedShrinks
<1> QED
  BY <1>2, <1>3 DEF DoneMeansProven, Owed

(* A handler of the daemon that is done hands over to the next one, or     *)
(* ends the call.                                                          *)
LEMMA HandOver ==
  ASSUME Control, ProgressInv, DoneMeansProven, ~At("idle"),
         UNCHANGED <<setting, contractVars, chosen, finalized>>, NextDuty,
         mode = "daemon" /\ job.duty # "balance" => DutyDone(job.duty, job.root),
         mode = "daemon" /\ job.duty = "balance" =>
           \A v \in Validators : Unreported(v, job.root) <= MinDelta
  PROVE  ProgressInv' /\ DoneMeansProven'
<1>1. UNCHANGED <<mode, balancesOn, contractVars, slashed, withdrawn, confirmed>>
  BY DEF setting, contractVars
<1>2. \A d, r : DutyDone(d, r)' <=> DutyDone(d, r)
  BY <1>1 DEF DutyDone, Found, InModule, Handled, IsProved
<1>a. /\ confirmed \in [Validators -> Nat]
      /\ \A w \in Validators : confirmed[w] \in Nat /\ confirmed[w] <= confirmed[w]
  BY DEF Control, TypeOK
<1>b. ASSUME done' = done PROVE DoneMeansProven'
  BY <1>1, <1>a, <1>b, DoneStays
<1>c. ASSUME job' = Idle PROVE ProgressInv'
  BY <1>c DEF Idle, ProgressInv, At
<1>3. CASE mode # "daemon" /\ Finish
  BY <1>1, <1>3, <1>b, <1>c DEF Finish
<1>4. CASE mode = "daemon" /\ job.duty = "slashing" /\ Enter("withdrawal", "find", {})
  <2>1. /\ done' = done /\ job'.at = "find" /\ job'.duty = "withdrawal"
        /\ job'.root = job.root
    BY <1>1, <1>4, EnterJob DEF Handlers
  <2>2. DutyDone("slashing", job.root)'
    BY <1>2, <1>4, <2>1
  <2> QED
    BY <1>b, <2>1, <2>2 DEF ProgressInv, At
<1>5. CASE mode = "daemon" /\ job.duty = "withdrawal" /\ Enter("balance", "measure", Validators)
  <2>1. /\ done' = done /\ job'.at = "measure" /\ job'.duty = "balance"
        /\ job'.root = job.root /\ job'.keys = Validators
    BY <1>1, <1>5, EnterJob DEF Handlers
  <2>2. DutyDone("slashing", job.root)' /\ DutyDone("withdrawal", job.root)'
    BY <1>2, <1>5, <2>1 DEF ProgressInv
  <2> QED
    BY <1>b, <2>1, <2>2 DEF ProgressInv, At
<1>6. CASE /\ mode = "daemon" /\ job.duty = "withdrawal" /\ Finish
           /\ ~(IsFirstInEpoch(job.root) /\ balancesOn)
  <2>1. DutyDone("slashing", job.root) /\ DutyDone("withdrawal", job.root)
    BY <1>6 DEF ProgressInv
  <2>2. done' = done \cup {job.root} /\ job' = Idle
    BY <1>6 DEF Finish
  <2> QED
    BY <1>1, <1>6, <1>c, <2>1, <2>2, RootDone
<1>7. CASE mode = "daemon" /\ job.duty = "balance" /\ Finish
  <2>1. DutyDone("slashing", job.root) /\ DutyDone("withdrawal", job.root)
    BY <1>7 DEF ProgressInv
  <2>2. done' = done \cup {job.root} /\ job' = Idle
    BY <1>7 DEF Finish
  <2> QED
    BY <1>1, <1>7, <1>c, <2>1, <2>2, RootDone
<1> QED
  BY <1>3, <1>4, <1>5, <1>6, <1>7 DEF NextDuty

(* What is handled stays so while the module learns more.                  *)
LEMMA HandledStays ==
  ASSUME slashed \subseteq slashed', withdrawn \subseteq withdrawn',
         NEW v, NEW duty, NEW r, Handled(v, duty, r)
  PROVE  Handled(v, duty, r)'
BY DEF Handled, IsProved, SlashedInState, Epoch

(* So does what the job relies on, as long as the job itself.              *)
LEMMA ProgressStays ==
  ASSUME ProgressInv, UNCHANGED <<job, mode, chosen>>,
         slashed \subseteq slashed', withdrawn \subseteq withdrawn'
  PROVE  ProgressInv'
<1>1. \A v, d, r : Handled(v, d, r) => Handled(v, d, r)'
  BY HandledStays
<1>2. \A r, d : Found(r, d)' = Found(r, d)
  BY DEF Found, InModule, EventsIn, FullWithdrawals
<1> QED
  BY <1>1, <1>2 DEF ProgressInv, DutyDone, At

(* With the balances reported, the handler goes on with its own proofs.    *)
LEMMA GoOn ==
  ASSUME Control, ProgressInv, DoneMeansProven, ~At("idle"),
         UNCHANGED <<setting, contractVars, chosen, finalized>>, AfterBalances,
         mode = "daemon" /\ job.duty # "balance" =>
           \A v \in Found(job.root, job.duty) \ job.keys : Handled(v, job.duty, job.root),
         mode = "daemon" /\ job.duty = "balance" =>
           \A v \in Validators : Unreported(v, job.root) <= MinDelta
  PROVE  ProgressInv' /\ DoneMeansProven'
<1>1. /\ UNCHANGED <<mode, balancesOn, contractVars, slashed, withdrawn, confirmed>>
      /\ job.keys \in SUBSET Validators /\ confirmed \in [Validators -> Nat]
      /\ \A w \in Validators : confirmed[w] <= confirmed[w]
  BY DEF setting, contractVars, Control, TypeOK
<1>2. CASE job.duty = "balance" /\ NextDuty
  BY <1>2, HandOver
<1>3. CASE job.duty # "balance" /\ Build(job.duty, job.keys)
  <2>1. /\ done' = done /\ job'.at = "build" /\ job'.kind = job.duty
        /\ job'.vals = job.keys /\ job'.duty = job.duty /\ job'.root = job.root
    BY <1>1, <1>3, BuildJob
  <2>2. \A r, d : Found(r, d)' = Found(r, d)
    BY <1>1 DEF Found, InModule, EventsIn, FullWithdrawals
  <2>3. \A v, d, r : Handled(v, d, r) => Handled(v, d, r)'
    BY <1>1, HandledStays
  <2>4. mode = "daemon" /\ job.duty # "slashing" => DutyDone("slashing", job.root)'
    BY <1>3, <2>1, <2>2, <2>3 DEF ProgressInv, DutyDone
  <2>5. ProgressInv'
    BY <1>1, <1>3, <2>1, <2>2, <2>3, <2>4 DEF ProgressInv, At
  <2>6. DoneMeansProven'
    BY <1>1, <2>1, DoneStays
  <2> QED
    BY <2>5, <2>6
<1> QED
  BY <1>2, <1>3 DEF AfterBalances

(* Validators whose balances need not be reported have little unreported.  *)
LEMMA SettledIsLittle ==
  ASSUME Control, mode = "daemon", NEW b \in Blocks, NEW v \in Validators, Settled(v, b)
  PROVE  Unreported(v, b) <= MinDelta
<1>1. KeyOf(v) = v /\ confirmed[v] \in Nat
  BY DEF KeyOf, Control, TypeOK
<1> QED
  BY <1>1, NothingToReport DEF Settled

(* A step that ends the call keeps what is done.                           *)
LEMMA EndsQuietly ==
  ASSUME Control, DoneMeansProven, Throw, UNCHANGED balancesOn,
         slashed \subseteq slashed', withdrawn \subseteq withdrawn',
         confirmed' \in [Validators -> Nat],
         \A w \in Validators : confirmed[w] <= confirmed'[w]
  PROVE  ProgressInv' /\ DoneMeansProven'
<1>1. DoneMeansProven'
  BY DoneStays DEF Throw
<1>2. ProgressInv'
  BY IdleJob DEF Throw, ProgressInv, At
<1> QED
  BY <1>1, <1>2

(* Every step of the handlers leaves out only what is proven, or need not  *)
(* be.                                                                     *)
LEMMA ProgressNext ==
  Control /\ MeasuredInv /\ ProgressInv /\ DoneMeansProven /\ [Next]_vars
    => ProgressInv' /\ DoneMeansProven'
<1> SUFFICES ASSUME Control, MeasuredInv, ProgressInv, DoneMeansProven, [Next]_vars
             PROVE  ProgressInv' /\ DoneMeansProven'
  OBVIOUS
<1>a. /\ confirmed \in [Validators -> Nat] /\ job \in Jobs
      /\ \A w \in Validators : confirmed[w] <= confirmed[w]
  BY DEF Control, TypeOK, Jobs
<1>b. ASSUME UNCHANGED <<setting, contractVars>>
      PROVE  /\ UNCHANGED <<mode, balancesOn, slashed, withdrawn, confirmed>>
             /\ \A v, d, r : Handled(v, d, r) => Handled(v, d, r)'
  BY <1>b, HandledStays DEF setting, contractVars
<1>c. ASSUME UNCHANGED <<setting, chosen>>
      PROVE  \A r, d : Found(r, d)' = Found(r, d)
  BY <1>c DEF setting, Found, InModule, EventsIn, FullWithdrawals
<1>d. ASSUME UNCHANGED <<setting, contractVars, done>> PROVE DoneMeansProven'
  BY <1>a, <1>b, <1>d, DoneStays
<1>1. CASE UNCHANGED vars \/ Tick \/ Finalize \/ OthersProve
  <2>1. /\ UNCHANGED <<job, mode, balancesOn, chosen, confirmed, done>>
        /\ slashed \subseteq slashed' /\ withdrawn \subseteq withdrawn'
    BY <1>1 DEF vars, setting, contractVars, Tick, Finalize, OthersProve
  <2> QED
    BY <1>a, <2>1, ProgressStays, DoneStays
<1>2. CASE Process
  <2>1. PICK r \in Blocks :
          job' = [Idle EXCEPT !.at = "find", !.duty = "slashing", !.root = r,
                              !.recent = finalized]
    BY <1>2 DEF Process
  <2>2. job'.at = "find" /\ job'.duty = "slashing"
    BY <2>1 DEF Idle
  <2>3. ProgressInv'
    BY <2>2 DEF ProgressInv, At
  <2> QED
    BY <1>2, <1>d, <2>3 DEF Process
<1>3. CASE Command
  <2>1. mode = "cli" /\ UNCHANGED <<setting, contractVars, done>>
    BY <1>3 DEF Command
  <2>2. ProgressInv'
    BY <2>1 DEF ProgressInv, setting
  <2> QED
    BY <1>d, <2>1, <2>2
<1>4. CASE BuildThrows \/ Refused \/ Fail
  <2>1. Throw /\ UNCHANGED <<setting, contractVars>>
    BY <1>4 DEF BuildThrows, Refused, Fail
  <2> QED
    BY <1>a, <1>b, <2>1, EndsQuietly
<1>5. CASE SentUnanswered
  <2>1. PICK v \in job.vals : Record(v)
    BY <1>5 DEF SentUnanswered
  <2>2. At("send") /\ Throw /\ UNCHANGED balancesOn /\ v \in Validators
    BY <1>5, <1>a, <2>1 DEF SentUnanswered, setting, Jobs
  <2> QED
    BY <2>1, <2>2, RecordGrows, EndsQuietly
<1>6. CASE Find
  <2> DEFINE unproven == {v \in Found(job.root, job.duty) : ~IsProved(job.duty, KeyOf(v))}
  <2>1. /\ At("find") /\ ~At("idle") /\ UNCHANGED <<setting, contractVars, chosen, finalized>>
        /\ job.duty # "balance"
    BY <1>6 DEF Find, chainVars, At, Control, JobInv
  <2>2. mode = "daemon" =>
          \A v \in Found(job.root, job.duty) \ unproven : Handled(v, job.duty, job.root)
    BY DEF Handled, KeyOf
  <2>3. \A r, d : Found(r, d)' = Found(r, d)
    BY <1>c, <2>1
  <2>4. \A v, d, r : Handled(v, d, r) => Handled(v, d, r)'
    BY <1>b, <2>1
  <2>5. ASSUME job'.root = job.root, job'.duty = job.duty
        PROVE  mode' = "daemon" /\ job'.duty # "slashing" => DutyDone("slashing", job.root)'
    BY <1>b, <2>1, <2>3, <2>4, <2>5 DEF ProgressInv, DutyDone
  <2>6. CASE unproven = {} /\ NextDuty
    <3>1. mode = "daemon" => DutyDone(job.duty, job.root)
      BY <2>2, <2>6 DEF DutyDone
    <3> QED
      BY <2>1, <2>6, <3>1, HandOver
  <2>7. CASE /\ job' = [job EXCEPT !.at = "measure", !.keys = unproven,
                                   !.target = Parent(job.root)]
             /\ UNCHANGED done
    <3>1. /\ job'.at = "measure" /\ job'.keys = unproven /\ job'.root = job.root
          /\ job'.duty = job.duty
      BY <1>a, <2>7 DEF Jobs
    <3>2. mode = "daemon" =>
            \A v \in Found(job.root, job.duty) \ job'.keys : Handled(v, job.duty, job.root)
      <4> HIDE DEF unproven
      <4> QED
        BY <2>2, <3>1
    <3>3. mode' = mode
      BY <1>b, <2>1
    <3>4. ProgressInv'
      <4> HIDE DEF unproven
      <4> QED
        BY <2>1, <2>3, <2>4, <2>5, <3>1, <3>2, <3>3 DEF ProgressInv, At
    <3> QED
      BY <1>d, <2>1, <2>7, <3>4
  <2>8. CASE /\ job' = [job EXCEPT !.at = "build", !.kind = job.duty, !.keys = unproven,
                                   !.vals = unproven, !.target = job.root]
             /\ UNCHANGED done
    <3>1. /\ job'.at = "build" /\ job'.vals = unproven /\ job'.root = job.root
          /\ job'.duty = job.duty /\ job'.kind = job.duty
      BY <1>a, <2>8 DEF Jobs
    <3>2. mode = "daemon" =>
            \A v \in Found(job.root, job.duty) \ job'.vals : Handled(v, job.duty, job.root)
      <4> HIDE DEF unproven
      <4> QED
        BY <2>2, <3>1
    <3>3. mode' = mode
      BY <1>b, <2>1
    <3>4. ProgressInv'
      <4> HIDE DEF unproven
      <4> QED
        BY <2>1, <2>3, <2>4, <2>5, <3>1, <3>2, <3>3 DEF ProgressInv, At
    <3> QED
      BY <1>d, <2>1, <2>8, <3>4
  <2> QED
    BY <1>6, <2>6, <2>7, <2>8 DEF Find
<1>7. CASE Measure
  <2> DEFINE provable == {v \in job.keys : Provable(v, KeyOf(v), job.target)}
  <2>1. /\ At("measure") /\ ~At("idle") /\ UNCHANGED <<setting, contractVars, chosen, finalized>>
        /\ provable \in SUBSET Validators /\ job.keys \subseteq Validators
    BY <1>7, <1>a DEF Measure, chainVars, At, Jobs
  <2>2. CASE Build("balance", provable)
    <3>1. /\ job'.at = "build" /\ job'.kind = "balance" /\ job'.keys = job.keys
          /\ job'.duty = job.duty /\ job'.root = job.root /\ done' = done
      <4>1. UNCHANGED <<mode, chosen, finalized>>
        BY <2>1 DEF setting
      <4> HIDE DEF provable
      <4> QED
        BY <2>1, <2>2, <4>1, BuildJob
    <3>2. \A r, d : Found(r, d)' = Found(r, d)
      BY <1>c, <2>1
    <3>3. \A v, d, r : Handled(v, d, r) => Handled(v, d, r)'
      BY <1>b, <2>1
    <3>4. mode' = mode
      BY <1>b, <2>1
    <3>5. ProgressInv'
      BY <2>1, <3>1, <3>2, <3>3, <3>4 DEF ProgressInv, DutyDone, At
    <3> QED
      BY <1>d, <2>1, <3>1, <3>5
  <2>3. CASE provable = {} /\ AfterBalances
    <3>1. ASSUME mode = "daemon", job.duty = "balance", NEW v \in Validators
          PROVE  Unreported(v, job.root) <= MinDelta
      <4>1. v \in job.keys /\ job.target = job.root /\ job.root \in Blocks
        BY <2>1, <3>1 DEF ProgressInv, Control, JobInv
      <4>2. Settled(v, job.root)
        BY <2>3, <4>1 DEF Settled
      <4> QED
        BY <3>1, <4>1, <4>2, SettledIsLittle
    <3>2. mode = "daemon" /\ job.duty # "balance" =>
            \A v \in Found(job.root, job.duty) \ job.keys : Handled(v, job.duty, job.root)
      BY <2>1 DEF ProgressInv
    <3> QED
      BY <2>1, <2>3, <3>1, <3>2, GoOn
  <2> QED
    BY <1>7, <2>2, <2>3 DEF Measure
<1>8. CASE BuildPayloads
  <2>1. PICK anchor \in Blocks :
          job' = [job EXCEPT !.at = "send", !.anchor = anchor,
                             !.vals = {v \in job.vals : ~Skipped(v)}]
    BY <1>8 DEF BuildPayloads, Payloads
  <2>2. At("build") /\ ~At("idle") /\ UNCHANGED <<setting, contractVars, chosen, done>>
    BY <1>8 DEF BuildPayloads, Payloads, At
  <2>3. /\ job'.at = "send" /\ job'.kind = job.kind /\ job'.root = job.root
        /\ job'.duty = job.duty /\ job'.keys = job.keys
        /\ job'.vals = {v \in job.vals : ~Skipped(v)}
    BY <1>a, <2>1 DEF Jobs
  <2>4. \A r, d : Found(r, d)' = Found(r, d)
    BY <1>c, <2>2
  <2>5. mode' = mode /\ \A v, d, r : Handled(v, d, r) => Handled(v, d, r)'
    BY <1>b, <2>2
  <2>6. ASSUME mode = "daemon", job.kind # "balance",
               NEW v \in Found(job.root, job.duty) \ job'.vals
        PROVE  Handled(v, job.duty, job.root)
    <3>1. CASE v \notin job.vals
      BY <2>2, <2>6, <3>1 DEF ProgressInv, At
    <3>2. CASE v \in job.vals
      <4>1. Skipped(v)
        BY <2>3, <2>6, <3>2
      <4>2. job.kind = job.duty /\ job.target = job.root
        BY <2>2, <2>6 DEF Control, JobInv, At
      <4> QED
        BY <4>1, <4>2 DEF Skipped, Handled
    <3> QED
      BY <3>1, <3>2
  <2>7. ProgressInv'
    BY <2>2, <2>3, <2>4, <2>5, <2>6 DEF ProgressInv, DutyDone, At
  <2> QED
    BY <1>d, <2>2, <2>7
<1>9. CASE SendProof
  <2>1. PICK v \in job.vals :
          Accepts(v) /\ Record(v) /\ job' = [job EXCEPT !.vals = @ \ {v}]
    BY <1>9 DEF SendProof
  <2>2. /\ At("send") /\ ~At("idle") /\ UNCHANGED <<setting, chosen, done>>
        /\ v \in Validators /\ mode' = mode /\ balancesOn' = balancesOn
    BY <1>9, <1>a, <2>1 DEF SendProof, setting, At, Jobs
  <2>3. /\ job'.at = "send" /\ job'.kind = job.kind /\ job'.root = job.root
        /\ job'.duty = job.duty /\ job'.keys = job.keys /\ job'.vals = job.vals \ {v}
    BY <1>a, <2>1, <2>2 DEF Jobs, At
  <2>4. /\ slashed \subseteq slashed' /\ withdrawn \subseteq withdrawn'
        /\ confirmed' \in [Validators -> Nat]
        /\ \A w \in Validators : confirmed[w] <= confirmed'[w]
    BY <2>1, <2>2, RecordGrows
  <2>5. \A r, d : Found(r, d)' = Found(r, d)
    BY <1>c, <2>2
  <2>6. \A w, d, r : Handled(w, d, r) => Handled(w, d, r)'
    BY <2>4, HandledStays
  <2>7. ASSUME mode = "daemon", job.kind # "balance",
               NEW w \in Found(job.root, job.duty) \ job'.vals
        PROVE  Handled(w, job.duty, job.root)'
    <3>1. CASE w \notin job.vals
      <4>1. Handled(w, job.duty, job.root)
        BY <2>2, <2>7, <3>1 DEF ProgressInv, At
      <4> QED
        BY <2>3, <2>6, <4>1
    <3>2. CASE w = v
      <4>1. job.kind = job.duty /\ job.duty \in Handlers
        BY <2>2, <2>7 DEF Control, JobInv, At
      <4>2. IsProved(job.kind, v)'
        BY <2>1, <2>3, <2>7, <4>1 DEF Record, IsProved, Handlers
      <4> QED
        BY <2>3, <3>2, <4>1, <4>2 DEF Handled
    <3> QED
      BY <2>3, <2>7, <3>1, <3>2
  <2>8. ProgressInv'
    BY <2>2, <2>3, <2>5, <2>6, <2>7 DEF ProgressInv, DutyDone, At
  <2> QED
    BY <2>2, <2>4, <2>8, DoneStays
<1>10. CASE AllSent
  <2>1. /\ At("send") /\ ~At("idle") /\ job.vals = {}
        /\ UNCHANGED <<setting, contractVars, chosen, finalized>>
    BY <1>10 DEF AllSent, chainVars, At
  <2>2. CASE job.kind = "balance" /\ AfterBalances
    <3>1. ASSUME mode = "daemon", job.duty = "balance", NEW v \in Validators
          PROVE  Unreported(v, job.root) <= MinDelta
      <4>1. v \in job.keys /\ job.target = job.root /\ job.root \in Blocks
        BY <2>1, <2>2, <3>1 DEF ProgressInv, Control, JobInv, At
      <4>2. Settled(v, job.root)
        BY <2>1, <2>2, <4>1 DEF MeasuredInv, At
      <4> QED
        BY <3>1, <4>1, <4>2, SettledIsLittle
    <3>2. mode = "daemon" /\ job.duty # "balance" =>
            \A v \in Found(job.root, job.duty) \ job.keys : Handled(v, job.duty, job.root)
      BY <2>1, <2>2 DEF ProgressInv, At
    <3> QED
      BY <2>1, <2>2, <3>1, <3>2, GoOn
  <2>3. CASE job.kind # "balance" /\ NextDuty
    <3>1. job.duty # "balance"
      BY <2>1, <2>3 DEF Control, JobInv, At
    <3>2. mode = "daemon" => DutyDone(job.duty, job.root)
      BY <2>1, <2>3 DEF ProgressInv, DutyDone, At
    <3> QED
      BY <2>1, <2>3, <3>1, <3>2, HandOver
  <2> QED
    BY <1>10, <2>2, <2>3 DEF AllSent
<1> QED
  BY <1>1, <1>2, <1>3, <1>4, <1>5, <1>6, <1>7, <1>8, <1>9, <1>10 DEF Next, Work

(* A root is done only when its slashings and owed withdrawals are proven  *)
(* and the large increases of an epoch's first block are reported, for any *)
(* chain, any number of failures, reverts, lost answers and restarts, and  *)
(* whatever others prove meanwhile.                                        *)
THEOREM DoneRootsAreProven == Spec => []DoneMeansProven
<1>1. Init => Control /\ MeasuredInv /\ BalanceBeforeExit /\ ProgressInv /\ DoneMeansProven
  BY ControlInit DEF Init, Idle, At, MeasuredInv, BalanceBeforeExit, ProgressInv,
     DoneMeansProven
<1>2. (Control /\ MeasuredInv /\ ProgressInv /\ DoneMeansProven) /\ [Next]_vars =>
        (Control /\ MeasuredInv /\ ProgressInv /\ DoneMeansProven)'
  BY ControlNext, MeasuredNext, ProgressNext
<1> QED
  BY <1>1, <1>2, PTL DEF Spec
-----------------------------------------------------------------------------
(***************************************************************************)
(* The handlers implement RootDuties.                                      *)
(***************************************************************************)
(* All that was proved above holds together.                               *)
HandlersInv == Control /\ MeasuredInv /\ ProgressInv /\ DoneMeansProven

(* So it holds before and after every step.                                *)
LEMMA HandlersInvariance == Spec => []HandlersInv
<1>1. Init => HandlersInv
  BY ControlInit DEF Init, Idle, At, HandlersInv, MeasuredInv, ProgressInv, DoneMeansProven
<1>2. HandlersInv /\ [Next]_vars => HandlersInv'
  BY ControlNext, MeasuredNext, ProgressNext DEF HandlersInv
<1> QED
  BY <1>1, <1>2, PTL DEF Spec

(* What the module was told it does not forget.                            *)
LEMMA ToldGrows ==
  ASSUME confirmed \in [Validators -> Nat], confirmed' \in [Validators -> Nat],
         \A w \in Validators : confirmed[w] <= confirmed'[w],
         slashed \subseteq slashed', withdrawn \subseteq withdrawn'
  PROVE  Told \subseteq Told'
<1> SUFFICES ASSUME NEW t \in Told PROVE t \in Told'
  OBVIOUS
<1>1. t \in Owing
  BY DEF Told
<1>2. CASE t[2] = "balance"
  <2>1. Unreported(t[3], t[1]) <= MinDelta
    BY <1>2 DEF Told
  <2>2. t[1] \in Blocks /\ t[3] \in Validators
    <3>1. \A e \in Events : e.kind # "balance"
      BY ValidatorTypes
    <3>2. ~ \E e \in Events : t = <<e.slot, e.kind, e.val>>
      BY <1>2, <3>1
    <3>3. PICK b \in Blocks, v \in Validators : t = <<b, "balance", v>>
      BY <1>1, <3>2 DEF Owing
    <3> QED
      BY <3>3
  <2>3. MinDelta \in Nat /\ confirmed[t[3]] \in Nat /\ confirmed'[t[3]] \in Nat
        /\ confirmed[t[3]] <= confirmed'[t[3]]
    BY <2>2, ValidatorTypes
  <2>4. Unreported(t[3], t[1])' <= MinDelta
    BY <2>1, <2>2, <2>3, UnreportedShrinks
  <2> QED
    BY <1>1, <1>2, <2>4 DEF Told, Owing, Owed
<1>3. CASE t[2] # "balance"
  BY <1>1, <1>3 DEF Told, Owing, Owed, IsProved
<1> QED
  BY <1>2, <1>3

(* What a duty that is done had to report is told.                         *)
LEMMA DutyServed ==
  ASSUME mode = "daemon", NEW r \in Blocks, NEW duty \in {"slashing", "withdrawal"},
         DutyDone(duty, r)
  PROVE  DueOf(r, duty) \subseteq Told
<1> SUFFICES ASSUME NEW t \in DueOf(r, duty) PROVE t \in Told
  OBVIOUS
<1>1. t \in Owing /\ t[1] = r /\ t[2] = duty
  BY DEF DueOf
<1>2. PICK e \in Events : t = <<e.slot, e.kind, e.val>> /\ Owed(e)
  BY <1>1 DEF Owing
<1>3. e.slot = r /\ e.kind = duty /\ e.val \in Validators /\ t[2] = duty /\ t[3] = e.val
  BY <1>1, <1>2, ValidatorTypes
<1>4. e.val \in Found(r, duty)
  <2>1. CASE duty = "slashing"
    BY <1>3, <2>1 DEF Found, InModule, EventsIn
  <2>2. CASE duty = "withdrawal"
    <3>1. e \in {w \in EventsIn(r, "withdrawal") : w.amount >= FullWithdrawal}
      BY <1>2, <1>3, <2>2 DEF Owed, EventsIn
    <3> QED
      BY <1>3, <2>2, <3>1 DEF Found, InModule, FullWithdrawals
  <2> QED
    BY <2>1, <2>2
<1>5. Handled(e.val, duty, r)
  BY <1>4 DEF DutyDone
<1>6. IsProved(duty, e.val)
  <2>1. CASE duty = "slashing"
    BY <1>5, <2>1 DEF Handled
  <2>2. CASE duty = "withdrawal"
    <3>1. ~SlashedInState(e.val, r) /\ Epoch(r) >= Withdrawable[e.val]
      BY <1>2, <1>3, <2>2 DEF Owed
    <3>2. Epoch(r) \in Int /\ Withdrawable[e.val] \in Nat
      <4>1. r \in Nat /\ SlotsPerEpoch \in Nat \ {0} /\ Withdrawable[e.val] \in Nat
        BY <1>3, ChainTypes, ValidatorTypes
      <4> QED
        BY <4>1 DEF Epoch
    <3>3. ~(Epoch(r) < Withdrawable[e.val])
      BY <3>1, <3>2
    <3> QED
      BY <1>5, <3>1, <3>3 DEF Handled
  <2> QED
    BY <2>1, <2>2
<1> QED
  BY <1>1, <1>3, <1>6 DEF Told

(* A root that is done has been told all of.                               *)
LEMMA RootServed ==
  ASSUME DoneMeansProven, NEW r \in done, NEW duty \in Handlers
  PROVE  DueOf(r, duty) \subseteq Told
<1> SUFFICES ASSUME NEW t \in DueOf(r, duty) PROVE t \in Told
  OBVIOUS
<1>1. t \in Owing /\ t[1] = r /\ t[2] = duty /\ (duty = "balance" => balancesOn)
  BY DEF DueOf
<1>2. ASSUME NEW e \in Events, Owed(e), t = <<e.slot, e.kind, e.val>> PROVE t \in Told
  <2>1. e.slot = r /\ t[2] = e.kind /\ t[3] = e.val /\ e.kind # "balance"
    BY <1>1, <1>2, ValidatorTypes
  <2>2. IsProved(e.kind, e.val)
    BY <1>2, <2>1 DEF DoneMeansProven
  <2> QED
    BY <1>1, <2>1, <2>2 DEF Told
<1>3. ASSUME NEW b \in Blocks, NEW v \in Validators, IsFirstInEpoch(b), t = <<b, "balance", v>>
      PROVE  t \in Told
  <2>1. b = r /\ t[1] = r /\ t[2] = "balance" /\ t[3] = v /\ balancesOn
    BY <1>1, <1>3
  <2>2. Unreported(v, r) <= MinDelta
    BY <1>3, <2>1 DEF DoneMeansProven
  <2> QED
    BY <1>1, <2>1, <2>2 DEF Told
<1> QED
  BY <1>1, <1>2, <1>3 DEF Owing

(* What the handlers before the present one had to report is told, and all *)
(* of the roots that are done.                                             *)
ServedInv ==
  /\ Processing /\ job.duty # "slashing" => DueOf(job.root, "slashing") \subseteq Told
  /\ Processing /\ job.duty = "balance" => DueOf(job.root, "withdrawal") \subseteq Told
  /\ \A r \in done, duty \in Handlers : DueOf(r, duty) \subseteq Told

(* This follows from what the handlers keep.                               *)
LEMMA HandlersServe == HandlersInv => ServedInv
<1> SUFFICES ASSUME HandlersInv PROVE ServedInv
  OBVIOUS
<1>1. ASSUME Processing, job.duty # "slashing" PROVE DueOf(job.root, "slashing") \subseteq Told
  BY <1>1, DutyServed DEF Processing, HandlersInv, Control, JobInv, ProgressInv
<1>2. ASSUME Processing, job.duty = "balance" PROVE DueOf(job.root, "withdrawal") \subseteq Told
  BY <1>2, DutyServed DEF Processing, HandlersInv, Control, JobInv, ProgressInv
<1>3. \A r \in done, duty \in Handlers : DueOf(r, duty) \subseteq Told
  BY RootServed DEF HandlersInv
<1> QED
  BY <1>1, <1>2, <1>3 DEF ServedInv

(* A step in the middle of a handler stays with its root.                  *)
SameHandler ==
  job'.at # "idle" /\ job'.duty = job.duty /\ job'.root = job.root /\ done' = done

(* From await to await a handler goes on, throws, or returns.              *)
LEMMA HandlerSteps ==
  ASSUME Control, ~At("idle"),
         Find \/ Measure \/ BuildPayloads \/ BuildThrows \/ SendProof \/ Refused \/ AllSent
           \/ Fail \/ SentUnanswered
  PROVE  SameHandler \/ Throw \/ NextDuty
<1>t. job \in Jobs
  BY DEF Control, TypeOK, Jobs
<1>b. ASSUME NEW kind, NEW vals, Build(kind, vals) PROVE SameHandler
  BY <1>t, <1>b DEF Build, SameHandler, Jobs
<1>1. CASE Find
  BY <1>t, <1>1 DEF Find, SameHandler, Jobs
<1>2. CASE Measure
  BY <1>b, <1>2 DEF Measure, AfterBalances
<1>3. CASE BuildPayloads
  BY <1>t, <1>3 DEF BuildPayloads, SameHandler, Jobs
<1>4. CASE SendProof
  BY <1>t, <1>4 DEF SendProof, SameHandler, Jobs, At
<1>5. CASE AllSent
  BY <1>b, <1>5 DEF AllSent, AfterBalances
<1>6. CASE BuildThrows \/ Refused \/ Fail \/ SentUnanswered
  BY <1>6 DEF BuildThrows, Refused, Fail, SentUnanswered
<1> QED
  BY <1>1, <1>2, <1>3, <1>4, <1>5, <1>6
(* The state of a processing, seen as a state of RootDuties.               *)
LEMMA HandlingView ==
  /\ Processing => /\ (IF Processing THEN job.duty ELSE "idle") = job.duty
                   /\ (IF Processing THEN job.root ELSE NoBlock) = job.root
  /\ ~Processing => /\ (IF Processing THEN job.duty ELSE "idle") = "idle"
                    /\ (IF Processing THEN job.root ELSE NoBlock) = NoBlock
  /\ \A r \in Blocks, d \in Handlers :
       [b \in Blocks |-> [duty \in Handlers |-> DueOf(b, duty)]][r][d] = DueOf(r, d)
OBVIOUS

(* A step that leaves the processing as it is.                             *)
LEMMA HandlingQuiet ==
  ASSUME Told \subseteq Told', done' = done, Processing' <=> Processing,
         Processing => job'.duty = job.duty /\ job'.root = job.root
  PROVE  [Handling!Next]_(Handling!handlingVars)
BY DEF Handling!Next, Processing, At

(* A handler that returned has its duty told: after the step the next one  *)
(* relies on it, or the root is done.                                      *)
LEMMA HandlingReturns ==
  ASSUME HandlersInv, ServedInv', Processing, UNCHANGED setting,
         Told \subseteq Told', NextDuty
  PROVE  [Handling!Next]_(Handling!handlingVars)
<1>t. /\ job.root \in Blocks /\ mode = "daemon" /\ mode' = "daemon" /\ balancesOn' = balancesOn
      /\ ~At("idle")
  BY DEF Processing, HandlersInv, Control, JobInv, setting
<1>d. \A r, d : DueOf(r, d)' = DueOf(r, d)
  BY <1>t DEF DueOf, Owing, Owed
<1>1. ASSUME job.duty = "slashing", Enter("withdrawal", "find", {})
      PROVE  Handling!Next
  <2>1. /\ Processing' /\ job'.duty = "withdrawal" /\ job'.root = job.root /\ done' = done
        /\ job'.at = "find"
    BY <1>t, <1>1 DEF Enter, Idle, Processing, At
  <2>4. DueOf(job.root, "slashing") \subseteq Told'
    BY <1>d, <2>1 DEF ServedInv
  <2>5. Handling!Return("slashing", "withdrawal")
    BY <1>t, <1>1, <2>1, <2>4, HandlingView DEF Handling!Return, Handling!Served, Handlers
  <2> QED
    BY <2>5 DEF Handling!Next
<1>2. ASSUME job.duty = "withdrawal", Enter("balance", "measure", Validators)
      PROVE  Handling!Next
  <2>1. /\ Processing' /\ job'.duty = "balance" /\ job'.root = job.root /\ done' = done
        /\ job'.at = "measure"
    BY <1>t, <1>2 DEF Enter, Idle, Processing, At
  <2>4. DueOf(job.root, "withdrawal") \subseteq Told'
    BY <1>d, <2>1 DEF ServedInv
  <2>5. Handling!Return("withdrawal", "balance")
    BY <1>t, <1>2, <2>1, <2>4, HandlingView DEF Handling!Return, Handling!Served, Handlers
  <2> QED
    BY <2>5 DEF Handling!Next
<1>3. ASSUME job.duty \in {"withdrawal", "balance"}, Finish
      PROVE  Handling!Next
  <2>1. ~Processing' /\ done' = done \cup {job.root}
    BY <1>t, <1>3 DEF Finish, Idle, Processing, At
  <2>2. \A d \in Handlers : DueOf(job.root, d) \subseteq Told'
    <3> TAKE d \in Handlers
    <3>1. (\A r \in done, duty \in Handlers : DueOf(r, duty) \subseteq Told)'
      BY DEF ServedInv
    <3> QED
      BY <1>d, <2>1, <3>1
  <2>3. Handling!AllServed
    BY <1>t, <1>3, <2>2, HandlingView DEF Handling!AllServed, Handling!Served, Handlers
  <2>4. Handling!Complete
    BY <1>t, <2>1, <2>3, HandlingView DEF Handling!Complete, Handling!NoRoot, NoBlock
  <2> QED
    BY <2>4 DEF Handling!Next
<1> QED
  BY <1>t, <1>1, <1>2, <1>3 DEF NextDuty

(* Every step of the handlers, of the chain and of the commands is a step  *)
(* of RootDuties.                                                          *)
LEMMA HandlingNext ==
  ASSUME HandlersInv, HandlersInv', ServedInv', [Next]_vars
  PROVE  [Handling!Next]_(Handling!handlingVars)
<1>s. UNCHANGED setting
  BY DEF Next, vars, Work, Tick, Finalize, OthersProve, Command, Process, Find, Measure,
         BuildPayloads, BuildThrows, SendProof, Refused, AllSent, Fail, SentUnanswered
<1>t. job \in Jobs /\ mode' = mode
  BY <1>s DEF HandlersInv, Control, TypeOK, Jobs, setting
<1>g. Told \subseteq Told'
  <2>0. confirmed \in [Validators -> Nat] /\ confirmed' \in [Validators -> Nat]
    BY DEF HandlersInv, Control, TypeOK
  <2>1. ASSUME confirmed' = confirmed, slashed \subseteq slashed', withdrawn \subseteq withdrawn'
        PROVE  Told \subseteq Told'
    BY <2>0, <2>1, ToldGrows
  <2>2. CASE SendProof \/ SentUnanswered
    <3>1. PICK v \in job.vals : At("send") /\ Record(v)
      BY <2>2 DEF SendProof, SentUnanswered
    <3> QED
      BY <1>t, <2>0, <3>1, RecordGrows, ToldGrows DEF Jobs, HandlersInv
  <2>3. CASE UNCHANGED vars \/ Tick \/ Finalize \/ OthersProve
    BY <2>1, <2>3 DEF vars, contractVars, Tick, Finalize, OthersProve
  <2>4. CASE Command \/ Process \/ Find \/ Measure \/ BuildPayloads \/ BuildThrows
               \/ Refused \/ AllSent \/ Fail
    BY <2>1, <2>4 DEF contractVars, Command, Process, Find, Measure, BuildPayloads,
                      BuildThrows, Refused, AllSent, Fail
  <2> QED
    BY <2>2, <2>3, <2>4 DEF Next, Work
<1>1. CASE UNCHANGED vars \/ Tick \/ Finalize \/ OthersProve
  <2>1. UNCHANGED <<job, done>>
    BY <1>1 DEF vars, Tick, Finalize, OthersProve
  <2> QED
    BY <1>g, <1>t, <2>1, HandlingQuiet DEF Processing, At
<1>2. CASE Process
  <2>1. PICK r \in Blocks :
          job' = [Idle EXCEPT !.at = "find", !.duty = "slashing", !.root = r,
                              !.recent = finalized]
    BY <1>2 DEF Process
  <2>2. /\ ~Processing /\ Processing' /\ job'.duty = "slashing" /\ job'.root = r
        /\ done' = done
    BY <1>2, <1>t, <2>1 DEF Process, Processing, At, Idle
  <2>3. Handling!Start
    BY <2>2, HandlingView DEF Handling!Start
  <2> QED
    BY <1>g, <2>3 DEF Handling!Next
<1>3. CASE Command
  <2>1. mode = "cli" /\ done' = done
    BY <1>3 DEF Command
  <2> QED
    BY <1>g, <1>t, <2>1, HandlingQuiet DEF Processing
<1>4. CASE Find \/ Measure \/ BuildPayloads \/ BuildThrows \/ SendProof \/ Refused \/ AllSent
             \/ Fail \/ SentUnanswered
  <2>0. ~At("idle")
    BY <1>4 DEF Find, Measure, BuildPayloads, BuildThrows, SendProof, Refused, AllSent, Fail,
                SentUnanswered, At
  <2>1. SameHandler \/ Throw \/ NextDuty
    BY <1>4, <2>0, HandlerSteps DEF HandlersInv
  <2>2. CASE mode # "daemon"
    <3>1. done' = done
      BY <2>1, <2>2 DEF SameHandler, Throw, NextDuty, Finish
    <3> QED
      BY <1>g, <1>t, <2>2, <3>1, HandlingQuiet DEF Processing
  <2>3. CASE mode = "daemon" /\ SameHandler
    BY <1>g, <1>t, <2>0, <2>3, HandlingQuiet DEF SameHandler, Processing, At
  <2>4. CASE mode = "daemon" /\ Throw
    <3>1. Processing /\ ~Processing' /\ done' = done /\ job.duty \in Handlers
      BY <1>t, <2>0, <2>4 DEF Throw, Idle, Processing, At, HandlersInv, Control, JobInv
    <3>2. Handling!Abandon
      BY <3>1, HandlingView DEF Handling!Abandon, Handling!NoRoot, NoBlock, Handlers
    <3> QED
      BY <1>g, <3>2 DEF Handling!Next
  <2>5. CASE mode = "daemon" /\ NextDuty
    BY <1>g, <1>s, <2>0, <2>5, HandlingReturns DEF Processing
  <2> QED
    BY <2>1, <2>2, <2>3, <2>4, <2>5
<1> QED
  BY <1>1, <1>2, <1>3, <1>4 DEF Next, Work

(* The handlers of ProverService, with all their reads, workers, payloads  *)
(* and transactions, implement the processing of a root as the walk has    *)
(* it, for any chain, balances, failures, reverts and lost answers.        *)
THEOREM DutiesHandleRoots == Spec => HandlesRoots
<1>1. Init => Handling!Init
  BY DEF Init, Idle, At, Processing, Handling!Init, Handling!NoRoot, NoBlock
<1>2. HandlersInv /\ HandlersInv' /\ ServedInv' /\ [Next]_vars => [Handling!Next]_(Handling!handlingVars)
  BY HandlingNext
<1> QED
  BY <1>1, <1>2, HandlersInvariance, HandlersServe, PTL DEF Spec, HandlesRoots, Handling!Spec
=============================================================================
