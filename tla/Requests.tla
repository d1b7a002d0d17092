------------------------------ MODULE Requests ------------------------------
(***************************************************************************)
(* How the concurrent activities of the process read from the beacon node  *)
(* and compute on what they read: LruCache with its requests in flight,    *)
(* the retries of BaseRestProvider over the configured nodes, and the      *)
(* worker thread a state is handed to.                                     *)
(*                                                                         *)
(* A key names what is asked for.  A fixed key (a root, a slot) always has *)
(* one answer; a dynamic one ("finalized", "head") has a new one any time; *)
(* the children of a root are first none, then some that may be replaced,  *)
(* until they are finalized.  A key has a version, 0 for no children.      *)
(***************************************************************************)
EXTENDS Integers, Sequences, FiniteSets

CONSTANTS
  Callers,         \* activities that await a request
  Needs,           \* the keys a caller asks for
  Fixed, Dynamic, Children,  \* keys by what may become of their answers
  States,          \* keys whose body is read within the retries
  Capacity,        \* capacity of a cache
  Nodes,           \* number of configured URLs
  MaxTries,        \* ..._API_MAX_RETRIES
  RetryDelay,      \* ..._API_RETRY_DELAY_MS
  MaxBackoff,      \* 10000 ms in retryRequest
  MaxVersion,      \* bound on the versions of an answer
  MaxFaults        \* bound on broken bodies and worker failures

Keys == Fixed \cup Dynamic \cup Children

ASSUME RequestsConstants ==
  /\ Fixed \cap Dynamic = {} /\ Fixed \cap Children = {} /\ Dynamic \cap Children = {}
  /\ States \subseteq Fixed /\ Needs \in [Callers -> SUBSET Keys]
  /\ Capacity \in Nat \ {0} /\ Nodes \in Nat \ {0} /\ MaxTries \in Nat
  /\ RetryDelay \in Nat \ {0} /\ MaxBackoff \in Nat
  /\ MaxVersion \in Nat \ {0} /\ MaxFaults \in Nat

None == "none"

ASSUME NoneIsNobody == None \notin Keys \cup Callers

VARIABLES
  truth,           \* the version a node knows
  final,           \* keys whose answer is finalized
  down,            \* nodes that fail every request
  items,           \* LruCache.items, the oldest first
  inFlight,        \* LruCache.inFlight: the caller whose request it is
  call,            \* where a caller is suspended
  request,         \* the request a caller makes, with the state of its retries
  want,            \* what a caller needs; kept when the call fails
  faults,          \* faults so far
  \* History, read by no action:
  since,           \* the version when the call began
  outdated         \* keys some caller got an older version of than it asked

nodeVars == <<truth, final, down>>
history  == <<since, outdated>>
vars == <<nodeVars, items, inFlight, call, request, want, faults, history>>

Versions == 0 .. MaxVersion

NoRequest == [node |-> 0, first |-> TRUE, left |-> 0, backoff |-> 0,
              version |-> 0, sure |-> FALSE]

TypeOK ==
  /\ truth \in [Keys -> Versions] /\ final \subseteq Keys /\ down \subseteq 1 .. Nodes
  /\ items \in Seq([key : Keys, version : Versions])
  /\ Len(items) <= Capacity
  /\ inFlight \in [Keys -> Callers \cup {None}]
  /\ call \in [Callers -> {"idle", "ask", "body", "join", "work", "silent"}]
  /\ request \in [Callers -> [node : 0 .. Nodes, first : BOOLEAN, left : 0 .. MaxTries,
                              backoff : Nat, version : Versions,
                              sure : BOOLEAN]]
  /\ want \in [Callers -> Keys \cup {None}]
  /\ faults \in 0 .. MaxFaults
  /\ since \in [Callers -> Versions] /\ outdated \subseteq Keys

Init ==
  /\ truth = [k \in Keys |-> IF k \in Fixed THEN 1 ELSE 0]
  /\ final = Fixed /\ down = {}
  /\ items = <<>>
  /\ inFlight = [k \in Keys |-> None]
  /\ call = [c \in Callers |-> "idle"]
  /\ request = [c \in Callers |-> NoRequest]
  /\ want = [c \in Callers |-> None]
  /\ faults = 0
  /\ since = [c \in Callers |-> 0] /\ outdated = {}

Fault == faults < MaxFaults /\ faults' = faults + 1

(***************************************************************************)
(* The nodes.                                                              *)
(***************************************************************************)
Advance ==
  /\ \E k \in Keys \ final :
       truth[k] < MaxVersion /\ truth' = [truth EXCEPT ![k] = @ + 1]
  /\ UNCHANGED <<final, down>>
  /\ UNCHANGED <<items, inFlight, call, request, want, faults, history>>

Finalize ==
  /\ \E k \in Children \ final : truth[k] > 0 /\ final' = final \cup {k}
  /\ UNCHANGED <<truth, down>>
  /\ UNCHANGED <<items, inFlight, call, request, want, faults, history>>

Break ==
  /\ \E n \in (1 .. Nodes) \ down : down' = down \cup {n}
  /\ UNCHANGED <<truth, final>>
  /\ UNCHANGED <<items, inFlight, call, request, want, faults, history>>

Repair ==
  /\ \E n \in down : down' = down \ {n}
  /\ UNCHANGED <<truth, final>>
  /\ UNCHANGED <<items, inFlight, call, request, want, faults, history>>

(***************************************************************************)
(* The cache.                                                              *)
(***************************************************************************)
(* The Wrong variants here and below are slips this code could have; no    *)
(* action uses them.                                                       *)
Wrong_ShouldCache(k) == TRUE

(* isCacheableConsensusId. *)
ShouldCache(k) == k \notin Dynamic

Wrong_ShouldCacheValue(k, version, sure) == k \in Children => sure

(* Only a finalized, non-empty list of children is kept. *)
ShouldCacheValue(k, version, sure) == k \in Children => sure /\ version > 0

Cached(k) == {i \in DOMAIN items : items[i].key = k}

Without(i) == SubSeq(items, 1, i - 1) \o SubSeq(items, i + 1, Len(items))

Wrong_Insert(k, version) == Append(items, [key |-> k, version |-> version])

(* The oldest item leaves when the new one is too many. *)
Insert(k, version) ==
  LET new == Append(items, [key |-> k, version |-> version])
  IN  IF Len(new) > Capacity THEN Tail(new) ELSE new

(***************************************************************************)
(* The calls.                                                              *)
(***************************************************************************)
At(c, place) == call[c] = place

Ask(c) ==
  /\ call' = [call EXCEPT ![c] = "ask"]
  /\ request' = [request EXCEPT ![c] = [NoRequest EXCEPT !.node = 1]]

(* The promise of key k resolves for the callers C; a state then goes on   *)
(* to a worker.                                                            *)
Answer(C, k, version, asked) ==
  /\ call' = [c \in Callers |-> IF c \notin C THEN call[c]
                                ELSE IF k \in States THEN "work" ELSE "idle"]
  /\ want' = [c \in Callers |-> IF c \notin C THEN want[c]
                                ELSE IF k \in States THEN k ELSE None]
  /\ outdated' = IF version < asked THEN outdated \cup {k} ELSE outdated

MaxAsked(C) == CHOOSE v \in {since[c] : c \in C} : \A c \in C : since[c] <= v

Forget(C) == since' = [c \in Callers |-> IF c \in C THEN 0 ELSE since[c]]

Waiting(c) ==
  {c} \cup {d \in Callers : At(d, "join") /\ want[d] = want[c] /\ inFlight[want[c]] = c}

Land(c) ==
  /\ inFlight' = [k \in Keys |-> IF inFlight[k] = c THEN None ELSE inFlight[k]]
  /\ request' = [request EXCEPT ![c] = NoRequest]

(* The promise is deleted only when it resolves. *)
Wrong_Reject(c) ==
  /\ request' = [request EXCEPT ![c] = NoRequest]
  /\ call' = [d \in Callers |-> IF d \in Waiting(c) THEN "idle" ELSE call[d]]
  /\ Forget(Waiting(c))
  /\ UNCHANGED <<want, outdated, inFlight>>

(* An error: the callers ask again for what they still want. *)
Reject(c) ==
  /\ Land(c)
  /\ call' = [d \in Callers |-> IF d \in Waiting(c) THEN "idle" ELSE call[d]]
  /\ Forget(Waiting(c))
  /\ UNCHANGED <<want, outdated>>

(* The requests in flight are not looked at. *)
Wrong_GetOrFetch(c, k) ==
  /\ inFlight' = [inFlight EXCEPT ![k] = c]
  /\ Ask(c)
  /\ want' = [want EXCEPT ![c] = k] /\ since' = [since EXCEPT ![c] = truth[k]]
  /\ UNCHANGED <<items, outdated>>

(* getOrFetch, up to its first await. *)
GetOrFetch(c, k) ==
  \/ /\ ShouldCache(k)
     /\ \E i \in Cached(k) :
          /\ items' = Append(Without(i), items[i])
          /\ Answer({c}, k, items[i].version, truth[k])
     /\ UNCHANGED <<inFlight, request, since>>
  \/ /\ ShouldCache(k) /\ Cached(k) = {} /\ inFlight[k] # None
     /\ call' = [call EXCEPT ![c] = "join"]
     /\ want' = [want EXCEPT ![c] = k] /\ since' = [since EXCEPT ![c] = truth[k]]
     /\ UNCHANGED <<items, inFlight, request, outdated>>
  \/ /\ ShouldCache(k) => Cached(k) = {} /\ inFlight[k] = None
     /\ inFlight' = IF ShouldCache(k) THEN [inFlight EXCEPT ![k] = c] ELSE inFlight
     /\ Ask(c)
     /\ want' = [want EXCEPT ![c] = k] /\ since' = [since EXCEPT ![c] = truth[k]]
     /\ UNCHANGED <<items, outdated>>

(* A caller begins, or repeats a call that failed. *)
Begin(c) ==
  /\ At(c, "idle") /\ want[c] = None
  /\ \E k \in Needs[c] : GetOrFetch(c, k)
  /\ UNCHANGED <<nodeVars, faults>>

Repeat(c) ==
  /\ At(c, "idle") /\ want[c] # None
  /\ GetOrFetch(c, want[c])
  /\ UNCHANGED <<nodeVars, faults>>

(***************************************************************************)
(* retryRequest: a node is called, called once more after a delay, and     *)
(* then by retrier with a growing delay; then the next node has its turn.  *)
(***************************************************************************)
IsUp(c) == request[c].node \notin down

(* A status of 200: what the node answers is settled here, the body is     *)
(* read after it.                                                          *)
Respond(c) ==
  LET k == want[c] IN
  /\ At(c, "ask") /\ IsUp(c)
  /\ \E sure \in BOOLEAN :
       /\ k \in final => sure
       /\ sure => k \in final \/ truth[k] = 0
       /\ request' = [request EXCEPT ![c] =
                        [@ EXCEPT !.version = truth[k], !.sure = sure]]
  /\ call' = [call EXCEPT ![c] = "body"]
  /\ UNCHANGED <<nodeVars, items, inFlight, want, faults, history>>

MayRetry(r) == r.left > 1 /\ r.backoff < MaxBackoff

Retry(c, r) ==
  /\ request' = [request EXCEPT ![c] = r]
  /\ call' = [call EXCEPT ![c] = "ask"]
  /\ UNCHANGED <<inFlight, want, history>>

CallFails(c) ==
  LET r == request[c] IN
  \/ /\ r.first
     /\ Retry(c, [r EXCEPT !.first = FALSE, !.left = MaxTries, !.backoff = RetryDelay])
  \/ /\ ~r.first /\ MayRetry(r)
     /\ Retry(c, [r EXCEPT !.left = @ - 1, !.backoff = 2 * @])
  \/ /\ ~r.first /\ ~MayRetry(r) /\ r.node < Nodes
     /\ Retry(c, [NoRequest EXCEPT !.node = r.node + 1])
  \/ /\ ~r.first /\ ~MayRetry(r) /\ r.node = Nodes
     /\ Reject(c)

Refuse(c) ==
  /\ At(c, "ask") /\ ~IsUp(c)
  /\ CallFails(c)
  /\ UNCHANGED <<nodeVars, items, faults>>

(* The body arrives, and with it the answer for all who wait. *)
ReadBody(c) ==
  LET k == want[c]  r == request[c] IN
  /\ At(c, "body")
  /\ Land(c)
  /\ items' = IF ShouldCache(k) /\ ShouldCacheValue(k, r.version, r.sure)
              THEN Insert(k, r.version) ELSE items
  /\ Forget(Waiting(c))
  /\ Answer(Waiting(c), k, r.version, MaxAsked(Waiting(c)))
  /\ UNCHANGED <<nodeVars, faults>>

(* A body that breaks off is retried for a state, and an error for others. *)
BreakBody(c) ==
  /\ At(c, "body") /\ Fault
  /\ IF want[c] \in States THEN CallFails(c) ELSE Reject(c)
  /\ UNCHANGED <<nodeVars, items>>

(***************************************************************************)
(* WorkersService: a thread posts its result, fails, or ends without one;  *)
(* the timer settles what nothing else does.                               *)
(***************************************************************************)
WorkEnds(c, result) ==
  /\ call' = [call EXCEPT ![c] = "idle"]
  /\ want' = IF result THEN [want EXCEPT ![c] = None] ELSE want
  /\ UNCHANGED <<nodeVars, items, inFlight, request, history>>

PostMessage(c) == At(c, "work") /\ WorkEnds(c, TRUE) /\ UNCHANGED faults

WorkFails(c) == At(c, "work") /\ Fault /\ WorkEnds(c, FALSE)

ExitSilently(c) ==
  /\ At(c, "work") /\ Fault
  /\ call' = [call EXCEPT ![c] = "silent"]
  /\ UNCHANGED <<nodeVars, items, inFlight, request, want, history>>

(* Only messages, errors and exit codes settle the promise. *)
Wrong_WorkerTimeout(c) == At(c, "silent") /\ UNCHANGED vars

WorkerTimeout(c) == At(c, "silent") /\ WorkEnds(c, FALSE) /\ UNCHANGED faults

Proceed(c) ==
  \/ Respond(c) \/ Refuse(c) \/ ReadBody(c)
  \/ PostMessage(c) \/ WorkerTimeout(c)

Next ==
  \/ Advance \/ Finalize \/ Break \/ Repair
  \/ \E c \in Callers :
       \/ Begin(c) \/ Repeat(c) \/ Proceed(c)
       \/ BreakBody(c) \/ WorkFails(c) \/ ExitSilently(c)

Spec == Init /\ [][Next]_vars

(* A failed call is repeated, and what a caller awaits settles; nothing    *)
(* says that a node is ever repaired.                                      *)
FairSpec ==
  /\ Spec
  /\ \A c \in Callers : WF_vars(Repeat(c)) /\ WF_vars(Proceed(c))

-----------------------------------------------------------------------------
(* What is cached can no longer change, at whatever moment the node        *)
(* answered, the chain moved on and the body arrived.                      *)
CacheIsNeverStale ==
  \A i \in DOMAIN items : items[i].version = truth[items[i].key] /\ items[i].key \in final

(* Callers that need the same state do not download it twice at once, even *)
(* when one repeats a call that failed.                                    *)
OneRequestPerKey ==
  \A c, d \in Callers :
    /\ call[c] \in {"ask", "body"} /\ call[d] \in {"ask", "body"}
    /\ want[c] = want[d] /\ ShouldCache(want[c])
    => c = d

(* No caller is given a header of the finalized or head block, or a state, *)
(* that was already old when it asked; only a list of children another     *)
(* caller had asked for before may be.                                     *)
AnswersAreCurrent == outdated \subseteq Children

(* Every call settles, although every node may be down for ever, the node  *)
(* may answer with a broken body and a worker end without a word.          *)
CallsSettle == \A c \in Callers : ~At(c, "idle") ~> At(c, "idle")

(* No failure is remembered: once the nodes stay up, every caller gets     *)
(* what it wants.                                                          *)
WantsAreServed ==
  <>[](down = {}) => \A c \in Callers : want[c] # None ~> want[c] = None
=============================================================================
